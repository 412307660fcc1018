------------------------- MODULE ScrcpySessionProofs -------------------------
(***************************************************************************)
(* Theorems about MediaTiming, for every packet and time stamp, and about  *)
(* ScrcpySession, for any number of calls of Start and of faults.          *)
(***************************************************************************)
EXTENDS ScrcpySession, MediaTiming, Sequences, TLAPS

(***************************************************************************)
(* The media clocks.                                                       *)
(***************************************************************************)
(* The table of opus.go:10-20 is that of RFC 6716: config after config,    *)
(* every bandwidth of a mode has the sizes of the mode in their order.     *)
THEOREM FrameSizes ==
  ASSUME NEW mode \in Modes, NEW b \in 0..(mode.bandwidths - 1), NEW i \in 1..Len(mode.sizes)
  PROVE  FrameDuration(mode.first + b * Len(mode.sizes) + i - 1) = mode.sizes[i]
<1>1. CASE mode = [first |-> 0, bandwidths |-> 3, sizes |-> <<10000, 20000, 40000, 60000>>]
  <2>1. b \in {0, 1, 2} /\ i \in {1, 2, 3, 4} /\ Len(mode.sizes) = 4 /\ mode.first = 0
    BY <1>1
  <2>. QED BY <1>1, <2>1 DEF FrameDuration
<1>2. CASE mode = [first |-> 12, bandwidths |-> 2, sizes |-> <<10000, 20000>>]
  <2>1. b \in {0, 1} /\ i \in {1, 2} /\ Len(mode.sizes) = 2 /\ mode.first = 12
    BY <1>2
  <2>. QED BY <1>2, <2>1 DEF FrameDuration
<1>3. CASE mode = [first |-> 16, bandwidths |-> 4, sizes |-> <<2500, 5000, 10000, 20000>>]
  <2>1. b \in {0, 1, 2, 3} /\ i \in {1, 2, 3, 4} /\ Len(mode.sizes) = 4 /\ mode.first = 16
    BY <1>3
  <2>. QED BY <1>3, <2>1 DEF FrameDuration
<1>. QED BY <1>1, <1>2, <1>3 DEF Modes

LEMMA FrameDurationType ==
  ASSUME NEW packet \in OpusPacket
  PROVE  FrameDuration(Config(packet)) \in {2500, 5000, 10000, 20000, 40000, 60000}
<1>1. Config(packet) \in 0..31
  BY DEF Config, OpusPacket, Octet
<1>2. ASSUME NEW c \in 0..31
      PROVE  FrameDuration(c) \in {2500, 5000, 10000, 20000, 40000, 60000}
  <2>1. CASE c < 12
    <3>1. c % 4 \in {0, 1, 2, 3}
      BY <1>2
    <3>. QED BY <2>1, <3>1 DEF FrameDuration
  <2>2. CASE c >= 12 /\ c < 16
    <3>1. (c - 12) % 2 \in {0, 1}
      BY <2>2
    <3>. QED BY <2>2, <3>1 DEF FrameDuration
  <2>3. CASE c >= 16
    <3>1. (c - 16) % 4 \in {0, 1, 2, 3}
      BY <2>3
    <3>. QED BY <2>3, <3>1 DEF FrameDuration
  <2>. QED BY <1>2, <2>1, <2>2, <2>3
<1>. QED BY <1>1, <1>2

(* Whatever a packet says, the audio clock moves on, by at most 120 ms, and*)
(* by a whole number of the 120-sample steps of 48 kHz: no malformed packet*)
(* stops it or lets it drift by fractions (opus.go:22-30, 74-78;           *)
(* gateway.go:382-389).                                                    *)
THEOREM AudioClockAdvances ==
  ASSUME NEW packet \in OpusPacket
  PROVE  /\ 2500 <= AudioDuration(packet) /\ AudioDuration(packet) <= 120000
         /\ AudioDuration(packet) % 2500 = 0
<1>. DEFINE f == FrameDuration(Config(packet))
            n == Frames(packet)
<1>1. f \in {2500, 5000, 10000, 20000, 40000, 60000}
  BY FrameDurationType
<1>2. CASE PacketDuration(packet) = 0
  <2>1. AudioDuration(packet) = 20000
    BY <1>2 DEF AudioDuration
  <2>. QED BY <2>1
<1>3. CASE PacketDuration(packet) # 0
  <2>1. AudioDuration(packet) = n * f /\ n \in 1..48 /\ n * f <= 120000
    BY <1>3 DEF AudioDuration, PacketDuration
  <2>. DEFINE k == CASE f = 2500 -> 1 [] f = 5000 -> 2 [] f = 10000 -> 4
                     [] f = 20000 -> 8 [] f = 40000 -> 16 [] f = 60000 -> 24
  <2>2. k \in 1..24 /\ f = k * 2500
    BY <1>1
  <2>. HIDE DEF f, n, k
  <2>3. n * f = (n * k) * 2500 /\ n * k \in Nat /\ n * k >= 1
    BY <2>1, <2>2
  <2>4. 1 <= n * k /\ n * k <= 48
    BY <2>1, <2>3
  <2>5. ((n * k) * 2500) % 2500 = 0
    BY <2>3
  <2>6. 2500 <= n * f /\ (n * f) % 2500 = 0
    BY <2>3, <2>4, <2>5
  <2>. QED BY <2>1, <2>6
<1>. QED BY <1>2, <1>3

(* Whatever its time stamps do (stop, repeat, go back or jump), the video  *)
(* clock moves on, and by less than a second per frame (gateway.go:349-354)*)
THEOREM VideoClockAdvances ==
  ASSUME NEW previous \in Nat, NEW pts \in Nat
  PROVE  0 < VideoDuration(previous, pts) /\ VideoDuration(previous, pts) < 1000000
BY DEF VideoDuration

USE ScrcpyAssumption
USE DEF Starts, Roles, Nothing, ClosedByAdb, To, Unwired, Conn

(***************************************************************************)
(* The session: its inductive invariant.                                   *)
(***************************************************************************)
Hung == {"idle", "pushed", "forwarded", "retrying", "hungUp", "killed"}
IndexOf(role) == IF role = "video" THEN 0 ELSE IF role = "audio" THEN 1 ELSE 2
TakenBy(r) == wired[r].of # 0

(* Without a session nothing is open; only the present Start has a process.*)
HungUp == stage \in Hung => wired = Unwired

OneProcess ==
  \A g \in Starts : process[g] = "running" =>
    g = start /\ stage \notin {"idle", "pushed", "forwarded", "killed"}

(* The port leads to the present server.                                   *)
PortLeads ==
  /\ stage # "idle" => start # 0
  /\ stage \notin {"idle", "pushed"} => forward = start

(* A server takes its connections one after the other, none before it      *)
(* listens, and sends to three.                                            *)
ServersTake ==
  \A g \in Starts :
    /\ server[g] \in {"none", "booting"} => taken[g] = 0
    /\ server[g] \in {"sending", "spent"} => taken[g] = 3
    /\ g > start \/ (g = start /\ stage \in {"pushed", "forwarded"}) => server[g] = "none"

(* Whatever a dial got it got from the present server, later dials later   *)
(* roles.                                                                  *)
DialsInOrder ==
  /\ \A r \in Roles : TakenBy(r) => wired[r].of = start
  /\ stage = "dialing" =>
       /\ wired["audio"] # Nothing => wired["video"] # Nothing
       /\ wired["control"] # Nothing => wired["audio"] # Nothing
       /\ \A r \in Roles : TakenBy(r) => IndexOf(wired[r].role) < taken[start]
       /\ TakenBy("video") /\ TakenBy("audio") =>
            IndexOf(wired["video"].role) < IndexOf(wired["audio"].role)

(* After "audio" the third connection is the control connection, or the    *)
(* server died before it took it.                                          *)
ControlFollows ==
  stage = "dialing" /\ wired["audio"] = To(start, "audio") =>
    /\ wired["control"] = Nothing => taken[start] = 2
    /\ wired["control"] # Nothing =>
         wired["control"] = To(start, "control") \/ server[start] = "dead"

SessionInv ==
  /\ TypeOK /\ HungUp /\ OneProcess /\ PortLeads /\ ServersTake
  /\ DialsInOrder /\ ControlFollows /\ SocketsMatch

LEMMA HangupType ==
  ASSUME TypeOK, Hangup
  PROVE  wired' \in [Roles -> Conn] /\ shut' \in [Starts -> SUBSET Roles]
<1>1. \A g \in Starts : {wired[r].role : r \in {q \in Roles : wired[q].of = g}} \subseteq Roles
  BY DEF TypeOK
<1>2. shut' \in [Starts -> SUBSET Roles]
  BY <1>1 DEF TypeOK, Hangup
<1> QED BY <1>2 DEF Hangup

LEMMA InitInv == Init => SessionInv
<1> SUFFICES ASSUME Init PROVE SessionInv
  OBVIOUS
<1> USE DEF Init
<1>1. TypeOK
  <2>1. /\ process \in [Starts -> {"none", "running", "gone"}]
        /\ server \in [Starts -> {"none", "booting", "accepting", "sending", "spent", "dead"}]
    OBVIOUS
  <2>2. taken \in [Starts -> 0..3] /\ shut \in [Starts -> SUBSET Roles]
    OBVIOUS
  <2>3. wired \in [Roles -> Conn]
    OBVIOUS
  <2>4. late \in BOOLEAN /\ stuck \in BOOLEAN
    BY Zenon
  <2> QED BY <2>1, <2>2, <2>3, <2>4 DEF TypeOK
<1>2. HungUp /\ OneProcess /\ PortLeads /\ ServersTake
  BY DEF HungUp, OneProcess, PortLeads, ServersTake
<1>3. DialsInOrder /\ ControlFollows /\ SocketsMatch
  BY DEF DialsInOrder, ControlFollows, SocketsMatch, TakenBy
<1> QED BY <1>1, <1>2, <1>3 DEF SessionInv

(***************************************************************************)
(* What a step keeps of it: Start, then the rest.                          *)
(***************************************************************************)
LEMMA StartStepInv ==
  ASSUME SessionInv, BeginStart \/ StartStep
  PROVE  SessionInv'
<1> USE DEF SessionInv, Hung, HungUp, OneProcess, PortLeads, ServersTake, DialsInOrder,
            ControlFollows, SocketsMatch, TakenBy, IndexOf, serveVars, deviceVars, Goes
<1>1. CASE BeginStart
  <2>1. TypeOK'
    <3>1. late' \in BOOLEAN /\ stuck' \in BOOLEAN
      BY <1>1, Zenon DEF BeginStart, TypeOK
    <3> QED BY <1>1, <3>1 DEF BeginStart, TypeOK
  <2>2. HungUp' /\ OneProcess' /\ PortLeads'
    BY <1>1 DEF BeginStart, TypeOK
  <2>3. ServersTake'
    BY <1>1 DEF BeginStart, TypeOK
  <2>4. DialsInOrder'
    BY <1>1 DEF BeginStart, TypeOK
  <2>5. ControlFollows'
    BY <1>1 DEF BeginStart, TypeOK
  <2>6. SocketsMatch'
    BY <1>1 DEF BeginStart, TypeOK
  <2> QED BY <2>1, <2>2, <2>3, <2>4, <2>5, <2>6
<1>2. CASE AdbFails
  BY <1>2 DEF AdbFails, TypeOK
<1>3. CASE Forward
  BY <1>3 DEF Forward, TypeOK
<1>4. CASE Launch
  BY <1>4 DEF Launch, TypeOK
<1>5. CASE Dial
  <2>1. TypeOK'
    <3>1. CASE forward # 0 /\ server[forward] = "accepting" /\ taken[forward] < 3
      <4>1. RoleOf(taken[forward]) \in Roles /\ NextToDial \in Roles
        BY <3>1 DEF TypeOK, RoleOf, NextToDial
      <4>2. /\ wired' = [wired EXCEPT ![NextToDial] = To(forward, RoleOf(taken[forward]))]
            /\ taken' = [taken EXCEPT ![forward] = @ + 1]
        BY <1>5, <3>1, Zenon DEF Dial
      <4>3. forward \in Starts /\ wired \in [Roles -> Conn] /\ taken \in [Starts -> 0..3]
        BY <3>1 DEF TypeOK
      <4>4. To(forward, RoleOf(taken[forward])) \in Conn
        BY <4>1, <4>3
      <4>5. wired' \in [Roles -> Conn]
        BY <4>1, <4>2, <4>3, <4>4, Zenon
      <4>6. taken' \in [Starts -> 0..3]
        BY <3>1, <4>2, <4>3
      <4> QED BY <1>5, <4>5, <4>6 DEF Dial, TypeOK
    <3>2. CASE ~(forward # 0 /\ server[forward] = "accepting" /\ taken[forward] < 3)
      <4>1. wired' \in [Roles -> Conn]
        BY <1>5, <3>2 DEF Dial, NextToDial, TypeOK
      <4> QED BY <1>5, <3>2, <4>1 DEF Dial, TypeOK
    <3> QED BY <3>1, <3>2
  <2>2. HungUp' /\ OneProcess' /\ PortLeads'
    BY <1>5 DEF Dial, NextToDial, Dialled, RoleOf, TypeOK
  <2>3. ServersTake'
    BY <1>5 DEF Dial, NextToDial, Dialled, RoleOf, TypeOK
  <2>4. DialsInOrder'
    BY <1>5 DEF Dial, NextToDial, Dialled, RoleOf, TypeOK
  <2>5. ControlFollows'
    BY <1>5 DEF Dial, NextToDial, Dialled, RoleOf, TypeOK
  <2>6. SocketsMatch'
    BY <1>5 DEF Dial, NextToDial, Dialled, RoleOf, TypeOK
  <2> QED BY <2>1, <2>2, <2>3, <2>4, <2>5, <2>6
<1>6. CASE DialFails \/ MetadataMissing
  <2>1. Hangup
    BY <1>6 DEF DialFails, MetadataMissing
  <2>2. TypeOK'
    BY <1>6, <2>1, HangupType DEF DialFails, MetadataMissing, TypeOK
  <2> QED BY <1>6, <2>1, <2>2 DEF DialFails, MetadataMissing, Hangup, TypeOK
<1>7. CASE ReadMetadata
  BY <1>7 DEF ReadMetadata, Answers, Streams, Dialled, TypeOK
<1>8. CASE Retry \/ GiveUp
  BY <1>8 DEF Retry, GiveUp, TypeOK
<1> QED BY <1>1, <1>2, <1>3, <1>4, <1>5, <1>6, <1>7, <1>8 DEF StartStep

LEMMA ServeStepInv ==
  ASSUME SessionInv,
         DeadlinePasses \/ MakePeer \/ Cancel \/ ServeReturns \/ CancelOnClosed \/ ContextKills
           \/ BeginWrite \/ EndWrite
  PROVE  SessionInv'
<1> USE DEF SessionInv, Hung, HungUp, OneProcess, PortLeads, ServersTake, DialsInOrder,
            ControlFollows, SocketsMatch, TakenBy, IndexOf, serveVars, deviceVars, TypeOK
<1>1. CASE DeadlinePasses
  BY <1>1 DEF DeadlinePasses
<1>2. CASE MakePeer \/ ServeReturns
  BY <1>2 DEF MakePeer, ServeReturns
<1>3. CASE Cancel \/ CancelOnClosed
  BY <1>3 DEF Cancel, CancelOnClosed
<1>4. CASE ContextKills
  BY <1>4 DEF ContextKills
<1>5. CASE BeginWrite \/ EndWrite
  BY <1>5 DEF BeginWrite, EndWrite
<1> QED BY <1>1, <1>2, <1>3, <1>4, <1>5

LEMMA CloseStepInv ==
  ASSUME SessionInv, CloseStep
  PROVE  SessionInv'
<1> USE DEF SessionInv, Hung, HungUp, OneProcess, PortLeads, ServersTake, DialsInOrder,
            ControlFollows, SocketsMatch, TakenBy, IndexOf, serveVars, deviceVars, Goes
<1>1. CASE Lock \/ Unlock
  BY <1>1 DEF Lock, Unlock, TypeOK
<1>2. CASE CloseSockets
  <2>1. TypeOK'
    BY <1>2, HangupType DEF CloseSockets, TypeOK
  <2> QED BY <1>2, <2>1 DEF CloseSockets, Hangup, TypeOK
<1>3. CASE Kill
  BY <1>3 DEF Kill, TypeOK
<1>4. CASE RemoveForward
  BY <1>4 DEF RemoveForward, TypeOK
<1> QED BY <1>1, <1>2, <1>3, <1>4 DEF CloseStep

LEMMA WorldStepInv ==
  ASSUME SessionInv,
         GatewayCrashes \/ DeviceStalls \/ DeviceGoesOn
           \/ \E g \in Starts : ServerListens(g) \/ ServerSends(g) \/ ServerEnds(g) \/ ServerCrashes(g)
  PROVE  SessionInv'
<1> USE DEF SessionInv, Hung, HungUp, OneProcess, PortLeads, ServersTake, DialsInOrder,
            ControlFollows, SocketsMatch, TakenBy, IndexOf, serveVars, deviceVars, Fault
<1>1. CASE GatewayCrashes
  <2>1. TypeOK'
    BY <1>1, HangupType DEF GatewayCrashes, TypeOK
  <2> QED BY <1>1, <2>1 DEF GatewayCrashes, Hangup, TypeOK
<1>2. CASE DeviceStalls \/ DeviceGoesOn
  <2>1. stuck' \in BOOLEAN
    BY <1>2, Zenon DEF DeviceStalls, DeviceGoesOn
  <2> QED BY <1>2, <2>1 DEF DeviceStalls, DeviceGoesOn, TypeOK
<1>3. ASSUME NEW g \in Starts, ServerListens(g) \/ ServerSends(g)
      PROVE  SessionInv'
  <2>1. TypeOK'
    <3>1. server' \in [Starts -> {"none", "booting", "accepting", "sending", "spent", "dead"}]
      BY <1>3 DEF ServerListens, ServerSends, TypeOK
    <3>2. late' = late /\ stuck' = stuck
      BY <1>3 DEF ServerListens, ServerSends
    <3> QED BY <1>3, <3>1, <3>2 DEF ServerListens, ServerSends, TypeOK
  <2>2. HungUp' /\ OneProcess' /\ PortLeads'
    BY <1>3 DEF ServerListens, ServerSends, TypeOK
  <2>3. ServersTake'
    BY <1>3 DEF ServerListens, ServerSends, TypeOK
  <2>4. DialsInOrder'
    BY <1>3 DEF ServerListens, ServerSends, TypeOK
  <2>5. ControlFollows'
    BY <1>3 DEF ServerListens, ServerSends, TypeOK
  <2>6. SocketsMatch'
    BY <1>3 DEF ServerListens, ServerSends, TypeOK
  <2> QED BY <2>1, <2>2, <2>3, <2>4, <2>5, <2>6
<1>4. ASSUME NEW g \in Starts, ServerEnds(g) \/ ServerCrashes(g)
      PROVE  SessionInv'
  <2>1. TypeOK'
    <3>1. server' \in [Starts -> {"none", "booting", "accepting", "sending", "spent", "dead"}]
      BY <1>4 DEF ServerEnds, ServerCrashes, Dies, TypeOK
    <3>2. stuck' \in BOOLEAN
      BY <1>4, Zenon DEF ServerEnds, ServerCrashes, Dies
    <3> QED BY <1>4, <3>1, <3>2 DEF ServerEnds, ServerCrashes, Dies, TypeOK
  <2>2. HungUp' /\ OneProcess' /\ PortLeads'
    BY <1>4 DEF ServerEnds, ServerCrashes, Dies, Alive, TypeOK
  <2>3. ServersTake'
    BY <1>4 DEF ServerEnds, ServerCrashes, Dies, Alive, TypeOK
  <2>4. DialsInOrder'
    BY <1>4 DEF ServerEnds, ServerCrashes, Dies, Alive, TypeOK
  <2>5. ControlFollows'
    BY <1>4 DEF ServerEnds, ServerCrashes, Dies, Alive, TypeOK
  <2>6. SocketsMatch'
    BY <1>4 DEF ServerEnds, ServerCrashes, Dies, Alive, TypeOK
  <2> QED BY <2>1, <2>2, <2>3, <2>4, <2>5, <2>6
<1> QED BY <1>1, <1>2, <1>3, <1>4

LEMMA StepInv == SessionInv /\ [Next]_vars => SessionInv'
<1> SUFFICES ASSUME SessionInv, [Next]_vars PROVE SessionInv'
  OBVIOUS
<1>1. CASE Next
  BY <1>1, StartStepInv, ServeStepInv, CloseStepInv, WorldStepInv DEF Next
<1>2. CASE UNCHANGED vars
  BY <1>2 DEF vars, serveVars, deviceVars, SessionInv, TypeOK, HungUp, OneProcess, PortLeads,
              ServersTake, DialsInOrder, ControlFollows, SocketsMatch, TakenBy
<1> QED BY <1>1, <1>2

LEMMA SessionInvHolds == Spec => []SessionInv
BY InitInv, StepInv, PTL DEF Spec

-----------------------------------------------------------------------------
(* Type correctness of the session's life.                                 *)
THEOREM ScrcpyTypeCorrect == Spec => []TypeOK
<1>1. SessionInv => TypeOK
  BY DEF SessionInv
<1> QED BY <1>1, SessionInvHolds, PTL

(* A session that Start returned has the three connections that its own    *)
(* server took for video, audio and control (session.go:142-167), whatever *)
(* servers and forwards earlier Starts and gateways left behind.           *)
THEOREM SocketsMatchEver == Spec => []SocketsMatch
<1>1. SessionInv => SocketsMatch
  BY DEF SessionInv
<1> QED BY <1>1, SessionInvHolds, PTL

(* When Run polls again, no connection is open and no adb process runs     *)
(* (session.go:99-124, 135-138 and 396-417).                               *)
THEOREM NothingIsLeftEver == Spec => []NothingIsLeft
<1>1. SessionInv => NothingIsLeft
  BY DEF SessionInv, HungUp, Hung, OneProcess, NothingIsLeft
<1> QED BY <1>1, SessionInvHolds, PTL

=============================================================================
