----------------------------- MODULE ScrcpySession -----------------------------
(***************************************************************************)
(* The life of a scrcpy session: Start, dialSocketGroup and Close of       *)
(* src/internal/scrcpy/session.go, in the order in which serveSession and  *)
(* Run of src/internal/gateway/gateway.go call them, one session after the *)
(* other, with restarts of the gateway.                                    *)
(*                                                                         *)
(* The device is external.  The scrcpy server of a Start, run by an "adb   *)
(* shell" process, listens on a socket of that Start's name (scid), takes  *)
(* the first three connections for video, audio and control, in this order *)
(* and once, then sends.  It dies when a connection it writes to is closed *)
(* and when its adb process is gone.  adb accepts whatever is dialled and  *)
(* closes it again if nobody listens behind the forward.                   *)
(***************************************************************************)
EXTENDS Naturals

CONSTANTS
  MaxStarts,  \* bound: calls of Start
  MaxFaults   \* bound: crashes of the gateway and servers, stalls of a device

ASSUME ScrcpyAssumption == MaxStarts \in Nat /\ MaxFaults \in Nat

Starts == 1..MaxStarts
Roles == {"video", "audio", "control"}

VARIABLES
  \* the gateway
  stage,    \* where serveSession is
  start,    \* the number of the present Start; its scid
  late,     \* whether StartupTimeout is over
  ctx,      \* the context of serveSession: "live", "cancelled"
  peer,     \* its peer connection: "none", "open", "closed", "told" of it
  wired,    \* wired[r]: the connection in the field video, audio or control
  mu,       \* Session.mu: "free", or held by a "writer" or the "closer"
  process,  \* process[g], "adb shell": "none", "running", "gone"
  \* adb and the device
  forward,  \* the Start to whose socket the local port is forwarded, or 0
  server,   \* server[g]: "none", "booting", "accepting", "sending", "spent", "dead"
  taken,    \* taken[g]: how many connections it took
  shut,     \* shut[g]: those that the gateway closed
  stuck,    \* whether the device stopped reading the control socket
  faults    \* how many faults there were

serveVars == <<stage, start, late, ctx, peer>>
deviceVars == <<server, taken, shut, stuck>>
vars == <<serveVars, wired, mu, process, forward, deviceVars, faults>>

Nothing == [of |-> 0, role |-> "none"]
ClosedByAdb == [of |-> 0, role |-> "closed"]
To(g, role) == [of |-> g, role |-> role]
Unwired == [r \in Roles |-> Nothing]

Init ==
  /\ stage = "idle" /\ start = 0 /\ late = FALSE /\ ctx = "live" /\ peer = "none"
  /\ wired = Unwired
  /\ mu = "free"
  /\ process = [g \in Starts |-> "none"]
  /\ forward = 0
  /\ server = [g \in Starts |-> "none"]
  /\ taken = [g \in Starts |-> 0]
  /\ shut = [g \in Starts |-> {}]
  /\ stuck = FALSE
  /\ faults = 0

-----------------------------------------------------------------------------
(* Start.                                                                  *)
Goes(next) == stage' = next /\ UNCHANGED <<start, late, ctx, peer>>

(* Run found a session: serveSession makes a context and pushes the server.*)
BeginStart ==
  /\ stage = "idle" /\ start < MaxStarts
  /\ stage' = "pushed" /\ start' = start + 1
  /\ late' = FALSE /\ ctx' = "live" /\ peer' = "none"
  /\ mu' = "free"
  /\ UNCHANGED <<wired, process, forward, deviceVars, faults>>

(* The push, the forward or the launch fails: Start returns, and leaves    *)
(* what it did so far; the deferred cancel runs.                           *)
AdbFails ==
  /\ stage \in {"pushed", "forwarded"}
  /\ forward' \in IF stage = "pushed" THEN {0, forward} ELSE {forward}
  /\ stage' = "idle" /\ ctx' = "cancelled"
  /\ UNCHANGED <<start, late, peer, wired, mu, process, deviceVars, faults>>

(* forward --remove and forward: whatever the port was forwarded to.       *)
Forward ==
  /\ stage = "pushed"
  /\ forward' = start
  /\ Goes("forwarded")
  /\ UNCHANGED <<wired, mu, process, deviceVars, faults>>

Launch ==
  /\ stage = "forwarded"
  /\ process' = [process EXCEPT ![start] = "running"]
  /\ server' = [server EXCEPT ![start] = "booting"]
  /\ Goes("dialing")
  /\ UNCHANGED <<wired, mu, forward, taken, shut, stuck, faults>>

(* dialSocketGroup dials one connection after the other.                   *)
RoleOf(n) == CASE n = 0 -> "video" [] n = 1 -> "audio" [] n = 2 -> "control"
Dialled == {r \in Roles : wired[r] # Nothing}
NextToDial ==
  IF "video" \notin Dialled THEN "video" ELSE IF "audio" \notin Dialled THEN "audio" ELSE "control"

Dial ==
  /\ stage = "dialing" /\ Dialled # Roles
  /\ IF forward # 0 /\ server[forward] = "accepting" /\ taken[forward] < 3
     THEN /\ wired' = [wired EXCEPT ![NextToDial] = To(forward, RoleOf(taken[forward]))]
          /\ taken' = [taken EXCEPT ![forward] = @ + 1]
     ELSE /\ wired' = [wired EXCEPT ![NextToDial] = ClosedByAdb]
          /\ UNCHANGED taken
  /\ UNCHANGED <<serveVars, mu, process, forward, server, shut, stuck, faults>>

(* Closes every connection there is.                                       *)
Hangup ==
  /\ shut' = [g \in Starts |-> shut[g] \cup {wired[r].role : r \in {q \in Roles : wired[q].of = g}}]
  /\ wired' = Unwired

(* No answer behind the port, or the context is over.                      *)
DialFails ==
  /\ stage = "dialing" /\ Dialled # Roles
  /\ Hangup
  /\ Goes("retrying")
  /\ UNCHANGED <<mu, process, forward, server, taken, stuck, faults>>

(* The 12 octets of video metadata and the 4 of audio can be read from any *)
(* connection to a stream; from the control connection nothing comes.      *)
Streams(r) ==
  /\ wired[r].of # 0 /\ wired[r].role \in {"video", "audio"}
  /\ server[wired[r].of] \in {"sending", "spent"}

VideoAnswers == Streams("video")
Answers == Streams("video") /\ Streams("audio")

ReadMetadata ==
  /\ stage = "dialing" /\ Dialled = Roles
  /\ Answers
  /\ Goes("started")
  /\ UNCHANGED <<wired, mu, process, forward, deviceVars, faults>>

(* It ends early, or does not come within a second.                        *)
MetadataMissing ==
  /\ stage = "dialing" /\ Dialled = Roles
  /\ Hangup
  /\ Goes("retrying")
  /\ UNCHANGED <<mu, process, forward, server, taken, stuck, faults>>

DeadlinePasses ==
  /\ stage \in {"dialing", "retrying"} /\ ~late
  /\ late' = TRUE
  /\ UNCHANGED <<stage, start, ctx, peer, wired, mu, process, forward, deviceVars, faults>>

RetryWhileBooting ==
  /\ stage = "retrying" /\ ctx = "live" /\ (~late \/ server[start] # "sending")
  /\ Goes("dialing")
  /\ UNCHANGED <<wired, mu, process, forward, deviceVars, faults>>
Retry ==
  /\ stage = "retrying" /\ ctx = "live" /\ ~late
  /\ Goes("dialing")
  /\ UNCHANGED <<wired, mu, process, forward, deviceVars, faults>>

(* cleanup: Close, without connections.  A server outlives its session     *)
(* only if this is forgotten, and the context not cancelled either: each   *)
(* of the two ends the process.                                            *)
GiveUpAtOnce ==
  /\ stage = "retrying" /\ (ctx = "cancelled" \/ late)
  /\ Goes("idle")
  /\ UNCHANGED <<wired, mu, process, forward, deviceVars, faults>>
GiveUp ==
  /\ stage = "retrying" /\ (ctx = "cancelled" \/ late)
  /\ Goes("hungUp")
  /\ UNCHANGED <<wired, mu, process, forward, deviceVars, faults>>

-----------------------------------------------------------------------------
(* serveSession with its session: the peer connection and its callbacks.   *)
MakePeer ==
  /\ stage = "started"
  /\ stage' = "serving" /\ peer' = "open"
  /\ UNCHANGED <<start, late, ctx, wired, mu, process, forward, deviceVars, faults>>

(* The connection failed, or the gateway is told to stop: the context ends.*)
Cancel ==
  /\ stage # "idle" /\ ctx = "live"
  /\ ctx' = "cancelled"
  /\ UNCHANGED <<stage, start, late, peer, wired, mu, process, forward, deviceVars, faults>>

(* Whatever ends serveSession: its deferred calls begin with peer.Close.   *)
ServeReturns ==
  /\ stage \in {"started", "serving"}
  /\ stage' = "returned"
  /\ peer' = IF peer = "open" THEN "closed" ELSE peer
  /\ UNCHANGED <<start, late, ctx, wired, mu, process, forward, deviceVars, faults>>

(* OnConnectionStateChange, which runs in a goroutine of its own.          *)
IgnoreClosed ==
  /\ peer = "closed"
  /\ peer' = "told"
  /\ UNCHANGED <<stage, start, late, ctx, wired, mu, process, forward, deviceVars, faults>>
CancelOnClosed ==
  /\ peer = "closed"
  /\ peer' = "told"
  /\ ctx' = "cancelled"
  /\ UNCHANGED <<stage, start, late, wired, mu, process, forward, deviceVars, faults>>

(* CommandContext kills the process of a context that is over.             *)
ContextKills ==
  /\ start # 0 /\ ctx = "cancelled" /\ process[start] = "running"
  /\ process' = [process EXCEPT ![start] = "gone"]
  /\ UNCHANGED <<serveVars, wired, mu, forward, deviceVars, faults>>

(* HandleControl, ResetVideo and a round of the watchdog write to the      *)
(* control connection with the mutex held and without a deadline: as long  *)
(* as the device does not read, they wait.                                 *)
WriteReturns == ~(stuck /\ \E g \in Starts : wired["control"].of = g /\ server[g] = "sending")

BeginWrite ==
  /\ stage \in {"serving", "returned", "unlocked", "hungUp", "killed"} /\ peer # "none"
  /\ mu = "free"
  /\ mu' = "writer"
  /\ UNCHANGED <<serveVars, wired, process, forward, deviceVars, faults>>

EndWrite ==
  /\ mu = "writer" /\ WriteReturns
  /\ mu' = "free"
  /\ UNCHANGED <<serveVars, wired, process, forward, deviceVars, faults>>

-----------------------------------------------------------------------------
(* Close: the contacts are cancelled under the mutex, then everything is   *)
(* closed, killed and removed.  Contacts come over the peer connection.    *)
Lock ==
  /\ stage = "returned" /\ mu = "free"
  /\ mu' = "closer"
  /\ Goes("locked")
  /\ UNCHANGED <<wired, process, forward, deviceVars, faults>>

Unlock ==
  /\ stage = "locked"
  /\ peer = "none" \/ WriteReturns
  /\ mu' = "free"
  /\ Goes("unlocked")
  /\ UNCHANGED <<wired, process, forward, deviceVars, faults>>

CloseSockets ==
  /\ stage = "unlocked"
  /\ Hangup
  /\ Goes("hungUp")
  /\ UNCHANGED <<mu, process, forward, server, taken, stuck, faults>>

KillNothing ==
  /\ stage = "hungUp"
  /\ Goes("killed")
  /\ UNCHANGED <<wired, mu, process, forward, deviceVars, faults>>
Kill ==
  /\ stage = "hungUp"
  /\ process' = [process EXCEPT ![start] = "gone"]
  /\ Goes("killed")
  /\ UNCHANGED <<wired, mu, forward, deviceVars, faults>>

(* The last adb command may fail: its error is not looked at.  Then the    *)
(* deferred cancel runs.                                                   *)
RemoveForward ==
  /\ stage = "killed"
  /\ forward' \in {0, forward}
  /\ stage' = "idle" /\ ctx' = "cancelled"
  /\ UNCHANGED <<start, late, peer, wired, mu, process, deviceVars, faults>>

-----------------------------------------------------------------------------
(* The gateway dies and is started again: systemd ends its processes, the  *)
(* system closes its connections, a forward of the adb server may stay.    *)
Fault == faults < MaxFaults /\ faults' = faults + 1

GatewayCrashes ==
  /\ stage # "idle"
  /\ Fault
  /\ stage' = "idle" /\ ctx' = "cancelled" /\ peer' = "none"
  /\ Hangup
  /\ mu' = "free"
  /\ process' = [process EXCEPT ![start] = IF @ = "running" THEN "gone" ELSE @]
  /\ forward' \in {0, forward}
  /\ UNCHANGED <<start, late, server, taken, stuck>>

-----------------------------------------------------------------------------
(* The device.                                                             *)
ServerListens(g) ==
  /\ server[g] = "booting"
  /\ server' = [server EXCEPT ![g] = "accepting"]
  /\ UNCHANGED <<serveVars, wired, mu, process, forward, taken, shut, stuck, faults>>

ServerSends(g) ==
  /\ server[g] = "accepting" /\ taken[g] = 3
  /\ server' = [server EXCEPT ![g] = "sending"]
  /\ UNCHANGED <<serveVars, wired, mu, process, forward, taken, shut, stuck, faults>>

Dies(g) ==
  /\ server' = [server EXCEPT ![g] = IF @ = "sending" THEN "spent" ELSE "dead"]
  /\ stuck' = FALSE
  /\ UNCHANGED <<serveVars, wired, mu, process, forward, taken, shut>>

Alive(g) == server[g] \in {"booting", "accepting", "sending"}

(* A write to a closed connection fails, or the shell was hung up.         *)
ServerEnds(g) ==
  /\ Alive(g)
  /\ process[g] = "gone" \/ (server[g] = "sending" /\ shut[g] # {})
  /\ Dies(g)
  /\ UNCHANGED faults

ServerCrashes(g) == Alive(g) /\ Fault /\ Dies(g)

DeviceStalls ==
  /\ ~stuck /\ \E g \in Starts : server[g] = "sending"
  /\ Fault
  /\ stuck' = TRUE
  /\ UNCHANGED <<serveVars, wired, mu, process, forward, server, taken, shut>>

DeviceGoesOn ==
  /\ stuck
  /\ stuck' = FALSE
  /\ UNCHANGED <<serveVars, wired, mu, process, forward, server, taken, shut, faults>>

-----------------------------------------------------------------------------
StartStep ==
  \/ AdbFails \/ Forward \/ Launch \/ Dial \/ DialFails \/ ReadMetadata \/ MetadataMissing
  \/ Retry \/ GiveUp
CloseStep == Lock \/ Unlock \/ CloseSockets \/ Kill \/ RemoveForward

Next ==
  \/ BeginStart \/ StartStep \/ DeadlinePasses
  \/ MakePeer \/ Cancel \/ ServeReturns \/ CancelOnClosed \/ ContextKills
  \/ BeginWrite \/ EndWrite \/ CloseStep \/ GatewayCrashes
  \/ \E g \in Starts : ServerListens(g) \/ ServerSends(g) \/ ServerEnds(g) \/ ServerCrashes(g)
  \/ DeviceStalls \/ DeviceGoesOn

Spec == Init /\ [][Next]_vars

(* Goroutines run, clocks advance, sync.Mutex lets every waiter in, adb    *)
(* commands return (nothing but the context limits them), and a server     *)
(* ends as said above.  No server has to start, no device to go on.        *)
Fairness ==
  /\ WF_vars(StartStep) /\ WF_vars(DeadlinePasses)
  /\ WF_vars(CancelOnClosed) /\ WF_vars(ContextKills)
  /\ WF_vars(EndWrite)
  /\ SF_vars(Lock) /\ WF_vars(Unlock) /\ WF_vars(CloseSockets) /\ WF_vars(Kill)
  /\ WF_vars(RemoveForward)
  /\ \A g \in Starts : WF_vars(ServerEnds(g))

FairSpec == Spec /\ Fairness

-----------------------------------------------------------------------------
(* Properties.                                                             *)
Conn == [of : Starts, role : Roles] \cup {Nothing, ClosedByAdb}

(* Types of the gateway's and the device's side.                           *)
TypeOK ==
  /\ stage \in {"idle", "pushed", "forwarded", "dialing", "retrying", "started", "serving",
                "returned", "locked", "unlocked", "hungUp", "killed"}
  /\ start \in 0..MaxStarts
  /\ late \in BOOLEAN
  /\ ctx \in {"live", "cancelled"}
  /\ peer \in {"none", "open", "closed", "told"}
  /\ wired \in [Roles -> Conn]
  /\ mu \in {"free", "writer", "closer"}
  /\ process \in [Starts -> {"none", "running", "gone"}]
  /\ forward \in 0..MaxStarts
  /\ server \in [Starts -> {"none", "booting", "accepting", "sending", "spent", "dead"}]
  /\ taken \in [Starts -> 0..3]
  /\ shut \in [Starts -> SUBSET Roles]
  /\ stuck \in BOOLEAN
  /\ faults \in 0..MaxFaults

(* A session that Start returned reads video and audio, and writes control *)
(* messages, on the connections that its own server took for them: not one *)
(* taken in a moment when only some of the dials found it listening, not   *)
(* one of a server that an earlier Start, or gateway, left waiting behind  *)
(* a forward.                                                              *)
SocketsMatch ==
  stage \in {"started", "serving"} => \A r \in Roles : wired[r] = To(start, r)

(* However Start or the session ended, when Run polls again no connection  *)
(* is open and no adb process runs.                                        *)
NothingIsLeft ==
  stage = "idle" =>
    /\ wired = Unwired
    /\ \A g \in Starts : process[g] # "running"

(* Start ends, also if the server never answers or answers nonsense.       *)
StartEnds == stage = "dialing" ~> stage \in {"started", "hungUp", "idle"}

(* serveSession ends once it began to return, also if the device stopped   *)
(* reading while a writer held the mutex that Close needs: the closed peer *)
(* connection cancels the context, which kills the server, which ends the  *)
(* write.                                                                  *)
ReturnEnds == stage = "returned" ~> stage = "idle"

(* The device does not go on capturing for a session that is over, nor     *)
(* wait for connections that will not come.                                *)
CaptureEnds ==
  \A g \in Starts : (stage = "idle" /\ start = g) ~> ~Alive(g)
=============================================================================
