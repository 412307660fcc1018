------------------------------ MODULE SignalApi ------------------------------
(***************************************************************************)
(* The HTTP handlers of the API around the hub                             *)
(* (src/internal/httpapi/server.go) and the session rows they share        *)
(* (src/internal/store/store.go).                                          *)
(*                                                                         *)
(* A request runs in a goroutine of its own and touches the store and the  *)
(* hub in separate steps: each SQL statement or transaction is atomic (one *)
(* connection), each hub operation is atomic (Hub.mu), nothing covers two  *)
(* of them.  A signal handler reads the session row, joins the hub,        *)
(* upgrades the connection, and then is two goroutines, the reader and the *)
(* writer, until the connection fails or the hub closes the peer.          *)
(*                                                                         *)
(* There is one user (Bootstrap creates the only one), so the comparisons  *)
(* of user names always succeed.  SQL errors are not modelled.             *)
(***************************************************************************)
EXTENDS SignalHub

CONSTANTS
  Ops,           \* requests that create, delete or log out, one each
  Kinds,         \* which of the three they may be
  MayExpire      \* whether sessions live long enough to expire

ASSUME KindsAssumption ==
  Kinds \subseteq {"create", "delete", "logout"} /\ MayExpire \in BOOLEAN

VARIABLES
  row,       \* row[s] of remote_sessions: "none", "live", "expired", "revoked"
  op,        \* op[o]: kind of request, where it is, the session it read
  handler,   \* handler[p]: where the signal handler that (may) make p is
  want,      \* want[p]: the session that handler was asked for
  wire,      \* wire[p]: "none", "up", "dead" (silently gone), "closed"
  writer     \* writer[p]: "none", "running", "stopped"

storeVars == <<row, op>>
handlerVars == <<handler, want, wire, writer>>
apiVars == <<vars, storeVars, handlerVars>>

Idle == [kind |-> "none", pc |-> "idle", sid |-> NoSession]

ApiInit ==
  /\ Init
  /\ row = [s \in Sessions |-> "none"]
  /\ op = [o \in Ops |-> Idle]
  /\ handler = [p \in Peers |-> "none"]
  /\ want = [p \in Peers |-> NoSession]
  /\ wire = [p \in Peers |-> "none"]
  /\ writer = [p \in Peers |-> "none"]

-----------------------------------------------------------------------------
(* The store.                                                              *)
Unrevoked == {s \in Sessions : row[s] \in {"live", "expired"}}
Live == {s \in Sessions : row[s] = "live"}

(* CreateSession: one transaction revokes every unrevoked row of the user, *)
(* expired ones too, and inserts the new one.                              *)
RevokePrevious(s, previous) ==
  [t \in Sessions |-> IF t = s THEN "live" ELSE IF t = previous THEN "revoked" ELSE row[t]]
Replace(s, previous) ==
  [t \in Sessions |-> IF t = s THEN "live" ELSE IF t \in Unrevoked THEN "revoked" ELSE row[t]]

(* Rows are never updated when they expire: the queries compare the clock. *)
Expire(s) ==
  /\ MayExpire
  /\ row[s] = "live"
  /\ row' = [row EXCEPT ![s] = "expired"]
  /\ UNCHANGED <<vars, op, handlerVars>>

-----------------------------------------------------------------------------
(* The session requests.                                                   *)
At(o, kind, pc) == op[o].kind = kind /\ op[o].pc = pc
Goto(o, kind, pc, sid) == op' = [op EXCEPT ![o] = [kind |-> kind, pc |-> pc, sid |-> sid]]

(* ActiveSession: the unexpired, unrevoked row, if there is one.           *)
ActiveSession == IF Live = {} THEN {NoSession} ELSE Live

CreateBegin(o) ==
  /\ op[o] = Idle /\ "create" \in Kinds
  /\ \E previous \in ActiveSession : Goto(o, "create", "read", previous)
  /\ UNCHANGED <<vars, row, handlerVars>>

CreateCommit(o, s) ==
  /\ At(o, "create", "read")
  /\ row[s] = "none"
  /\ row' = Replace(s, op[o].sid)
  /\ Goto(o, "create", "committed", op[o].sid)
  /\ UNCHANGED <<vars, handlerVars>>

LogoutFind(o) ==
  /\ op[o] = Idle /\ "logout" \in Kinds
  /\ \E s \in ActiveSession :
       Goto(o, "logout", IF s = NoSession THEN "done" ELSE "found", s)
  /\ UNCHANGED <<vars, row, handlerVars>>

(* RevokeSession: the row is revoked unless it was already; the error and  *)
(* the count are ignored by logout.                                        *)
LogoutRevoke(o) ==
  /\ At(o, "logout", "found")
  /\ row' = [row EXCEPT ![op[o].sid] = "revoked"]
  /\ Goto(o, "logout", "revoked", op[o].sid)
  /\ UNCHANGED <<vars, handlerVars>>

(* DELETE answers 404 unless it revoked the row itself.                    *)
DeleteRevoke(o, s) ==
  /\ op[o] = Idle /\ "delete" \in Kinds
  /\ IF s \in Unrevoked
     THEN row' = [row EXCEPT ![s] = "revoked"] /\ Goto(o, "delete", "revoked", s)
     ELSE row' = row /\ Goto(o, "delete", "refused", s)
  /\ UNCHANGED <<vars, handlerVars>>

(* The last step of the three: close the room of the session read before.  *)
Closing == {"committed", "revoked"}

CloseOpen(o) ==
  /\ op[o].pc \in Closing
  /\ op[o].sid # NoSession
  /\ CloseSession(op[o].sid)
  /\ Goto(o, op[o].kind, "done", op[o].sid)
  /\ UNCHANGED <<row, handlerVars>>

CloseNothing(o) ==
  /\ op[o].pc \in Closing
  /\ ~hung
  /\ op[o].sid \notin rooms
  /\ Goto(o, op[o].kind, "done", op[o].sid)
  /\ UNCHANGED <<vars, row, handlerVars>>

-----------------------------------------------------------------------------
(* The signal handlers.                                                    *)
Check(p, s) ==
  /\ handler[p] = "none"
  /\ row[s] = "live"
  /\ handler' = [handler EXCEPT ![p] = "checked"]
  /\ want' = [want EXCEPT ![p] = s]
  /\ UNCHANGED <<vars, storeVars, wire, writer>>

JoinHub(p) ==
  /\ handler[p] = "checked"
  /\ Join(p, want[p])
  /\ handler' = [handler EXCEPT ![p] = "joined"]
  /\ UNCHANGED <<storeVars, want, wire, writer>>

(* 409: the slot is taken.                                                 *)
JoinRefused(p) ==
  /\ handler[p] = "checked"
  /\ ~hung
  /\ member[want[p]][RoleOf(p)] # NoPeer
  /\ handler' = [handler EXCEPT ![p] = "returned"]
  /\ UNCHANGED <<vars, storeVars, want, wire, writer>>

Upgrade(p) ==
  /\ handler[p] = "joined"
  /\ handler' = [handler EXCEPT ![p] = "open"]
  /\ wire' = [wire EXCEPT ![p] = "up"]
  /\ writer' = [writer EXCEPT ![p] = "running"]
  /\ UNCHANGED <<vars, storeVars, want>>

Leave(p) == LeaveRoom(p) \/ LeaveGone(p)

AbandonUpgrade(p) ==
  /\ handler[p] = "joined"
  /\ handler' = [handler EXCEPT ![p] = "returned"]
  /\ UNCHANGED <<vars, storeVars, want, wire, writer>>

UpgradeFails(p) ==
  /\ handler[p] = "joined"
  /\ Leave(p)
  /\ handler' = [handler EXCEPT ![p] = "returned"]
  /\ UNCHANGED <<storeVars, want, wire, writer>>

(* The network or the remote end: a close the server sees, or silence.     *)
WireFails(p) ==
  /\ wire[p] = "up"
  /\ \E w \in {"dead", "closed"} : wire' = [wire EXCEPT ![p] = w]
  /\ UNCHANGED <<vars, storeVars, handler, want, writer>>

(* ReadMessage returned a message; Forward's error is ignored.             *)
ReaderForwards(p) ==
  /\ handler[p] = "open"
  /\ wire[p] = "up"
  /\ ForwardQueue(p) \/ ForwardDeliver(p) \/ ForwardDrop(p)
  /\ UNCHANGED <<storeVars, handlerVars>>

(* ReadMessage failed: the connection is closed by either side, or 45 s    *)
(* passed without a pong.  The deferred calls close it and leave the hub.  *)
UnreadableWithoutDeadline == {"closed"}
Unreadable == {"closed", "dead"}

ReaderStops(p) ==
  /\ handler[p] = "open"
  /\ wire[p] \in Unreadable
  /\ Leave(p)
  /\ handler' = [handler EXCEPT ![p] = "returned"]
  /\ wire' = [wire EXCEPT ![p] = "closed"]
  /\ UNCHANGED <<storeVars, want, writer>>

(* The writer's select: a message whose write succeeds (into a dead wire,  *)
(* it may), ...                                                            *)
WriterSends(p) ==
  /\ writer[p] = "running"
  /\ wire[p] \in {"up", "dead"}
  /\ Receive(p)
  /\ UNCHANGED <<storeVars, handlerVars>>

(* ... a message or a ping whose write fails, ...                          *)
WriterFails(p) ==
  /\ writer[p] = "running"
  /\ wire[p] \in {"closed", "dead"}
  /\ Receive(p) \/ UNCHANGED vars
  /\ wire' = [wire EXCEPT ![p] = "closed"]
  /\ writer' = [writer EXCEPT ![p] = "stopped"]
  /\ UNCHANGED <<storeVars, handler, want>>

(* ... or the closed done channel.                                         *)
WriterDoneQuietly(p) ==
  /\ writer[p] = "running"
  /\ done[p]
  /\ writer' = [writer EXCEPT ![p] = "stopped"]
  /\ UNCHANGED <<vars, storeVars, handler, want, wire>>

WriterDone(p) ==
  /\ writer[p] = "running"
  /\ done[p]
  /\ wire' = [wire EXCEPT ![p] = "closed"]
  /\ writer' = [writer EXCEPT ![p] = "stopped"]
  /\ UNCHANGED <<vars, storeVars, handler, want>>

-----------------------------------------------------------------------------
OpStep(o) ==
  \/ \E s \in Sessions : CreateCommit(o, s)
  \/ LogoutRevoke(o)
  \/ CloseOpen(o)
  \/ CloseNothing(o)

ApiNext ==
  \/ \E s \in Sessions : Expire(s)
  \/ \E o \in Ops : CreateBegin(o)
  \/ \E o \in Ops : LogoutFind(o)
  \/ \E o \in Ops, s \in Sessions : DeleteRevoke(o, s)
  \/ \E o \in Ops : OpStep(o)
  \/ \E p \in Peers, s \in Sessions : Check(p, s)
  \/ \E p \in Peers : JoinHub(p)
  \/ \E p \in Peers : JoinRefused(p)
  \/ \E p \in Peers : Upgrade(p)
  \/ \E p \in Peers : UpgradeFails(p)
  \/ \E p \in Peers : WireFails(p)
  \/ \E p \in Peers : ReaderForwards(p)
  \/ \E p \in Peers : ReaderStops(p)
  \/ \E p \in Peers : WriterSends(p)
  \/ \E p \in Peers : WriterFails(p)
  \/ \E p \in Peers : WriterDone(p)

ApiSpec == ApiInit /\ [][ApiNext]_apiVars

(* What the Go runtime and the deadlines guarantee: a request that started *)
(* runs on, a reader whose connection failed (or stayed silent for 45 s)   *)
(* returns, a writer leaves its select when done is closed, and its ping   *)
(* fails once the connection is closed (on a silent connection nothing is  *)
(* assumed: writes may disappear into socket buffers).  Nothing makes      *)
(* requests come, messages arrive or connections fail.                     *)
Fairness ==
  /\ \A o \in Ops : WF_apiVars(OpStep(o))
  /\ \A p \in Peers :
       /\ WF_apiVars(JoinHub(p) \/ JoinRefused(p))
       /\ WF_apiVars(Upgrade(p) \/ UpgradeFails(p))
       /\ WF_apiVars(ReaderStops(p))
       /\ WF_apiVars(wire[p] = "closed" /\ WriterFails(p))
       /\ WF_apiVars(WriterDone(p))

FairApiSpec == ApiSpec /\ Fairness

-----------------------------------------------------------------------------
(* Type invariant of the rows, the requests and the signal handlers.       *)
ApiTypeOK ==
  /\ TypeOK
  /\ row \in [Sessions -> {"none", "live", "expired", "revoked"}]
  /\ op \in [Ops -> [kind : Kinds \cup {"none"},
                     pc : {"idle", "read", "committed", "found", "revoked", "refused", "done"},
                     sid : Sessions \cup {NoSession}]]
  /\ handler \in [Peers -> {"none", "checked", "joined", "open", "returned"}]
  /\ want \in [Peers -> Sessions \cup {NoSession}]
  /\ wire \in [Peers -> {"none", "up", "dead", "closed"}]
  /\ writer \in [Peers -> {"none", "running", "stopped"}]

(* However creations interleave, one session at most is not revoked: each  *)
(* reads the previous one before its transaction, and the one it read may  *)
(* be stale (server.go:178-179, store.go:145).                             *)
OneUnrevokedSession == \A s, t \in Unrevoked : s = t

(* A slot is only held while its handler runs: the join was not left       *)
(* behind by a failed upgrade or a reader that returned.  Otherwise every  *)
(* later connection of that role gets 409 (server.go:253-260).             *)
SlotHasHandler ==
  \A s \in Sessions, r \in Roles :
    member[s][r] # NoPeer => handler[member[s][r]] \in {"joined", "open"}

(* A connection that died without a word gives its slot back, so that the  *)
(* same client or gateway can connect again (server.go:262-265).           *)
DeadConnectionFreesSlot ==
  \A p \in Peers :
    wire[p] = "dead" ~> \A s \in Sessions, r \in Roles : member[s][r] # p

(* A peer the hub closed, even before its connection was upgraded, ends    *)
(* with its connection closed, its handler returned and its writer stopped.*)
ClosedPeerEnds ==
  \A p \in Peers :
    done[p] ~> handler[p] = "returned" /\ writer[p] # "running" /\ wire[p] # "up"

(* Whoever is connected to a session, in either role, when it is deleted   *)
(* or logged out loses its handler and its connection (server.go:157, 201).*)
DeletionDisconnects ==
  \A o \in Ops, p \in Peers :
    op[o].pc = "revoked" /\ status[p] = "joined" /\ at[p] = op[o].sid
      ~> handler[p] = "returned" /\ wire[p] # "up"

(* README.md:94: logout and DELETE revoke the active session and close the *)
(* signalling.  Once such a request was answered nobody signals in the     *)
(* session it revoked.                                                     *)
DeletedSessionIsSilent ==
  \A o \in Ops :
    op[o].kind \in {"delete", "logout"} /\ op[o].pc = "done" => op[o].sid \notin rooms
=============================================================================
