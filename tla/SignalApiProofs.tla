---------------------------- MODULE SignalApiProofs ----------------------------
(***************************************************************************)
(* Proofs about SignalApi: the HTTP handlers use the hub only through its  *)
(* operations, so that what SignalHubProofs proves of the hub holds in the *)
(* running API, and no slot outlives the handler that took it.             *)
(***************************************************************************)
EXTENDS SignalApi, SignalHubProofs

(* The handler of a peer knows its session before it joins, and runs as    *)
(* long as the peer is joined.                                             *)
HandlerInv ==
  \A p \in Peers :
    /\ handler[p] = "checked" => want[p] \in Sessions
    /\ status[p] = "joined" => handler[p] \in {"joined", "open"}

RowType == row \in [Sessions -> {"none", "live", "expired", "revoked"}]

OpType ==
  op \in [Ops -> [kind : Kinds \cup {"none"},
                  pc : {"idle", "read", "committed", "found", "revoked", "refused", "done"},
                  sid : Sessions \cup {NoSession}]]

HandlerType ==
  /\ handler \in [Peers -> {"none", "checked", "joined", "open", "returned"}]
  /\ want \in [Peers -> Sessions \cup {NoSession}]
  /\ wire \in [Peers -> {"none", "up", "dead", "closed"}]
  /\ writer \in [Peers -> {"none", "running", "stopped"}]

LEMMA ApiTypeParts == ApiTypeOK <=> TypeOK /\ RowType /\ OpType /\ HandlerType
  BY DEF ApiTypeOK, RowType, OpType, HandlerType

-----------------------------------------------------------------------------
(* The steps of the requests leave the handlers alone, and the steps of    *)
(* the handlers the store.                                                 *)
RequestStep ==
  \/ \E s \in Sessions : Expire(s)
  \/ \E o \in Ops : CreateBegin(o) \/ LogoutFind(o) \/ OpStep(o)
  \/ \E o \in Ops, s \in Sessions : DeleteRevoke(o, s)

HandlerStep ==
  \E p \in Peers :
    \/ \E s \in Sessions : Check(p, s)
    \/ JoinHub(p) \/ JoinRefused(p) \/ Upgrade(p) \/ UpgradeFails(p)
    \/ WireFails(p) \/ ReaderForwards(p) \/ ReaderStops(p)
    \/ WriterSends(p) \/ WriterFails(p) \/ WriterDone(p)

LEMMA ApiSteps == ApiNext <=> RequestStep \/ HandlerStep
  BY DEF ApiNext, RequestStep, HandlerStep

LEMMA RequestFrame == RequestStep => UNCHANGED handlerVars
  BY DEF RequestStep, OpStep, Expire, CreateBegin, LogoutFind, DeleteRevoke, CreateCommit,
     LogoutRevoke, CloseOpen, CloseNothing

LEMMA HandlerFrame == HandlerStep => UNCHANGED storeVars
  BY DEF HandlerStep, Check, JoinHub, JoinRefused, Upgrade, UpgradeFails, WireFails,
     ReaderForwards, ReaderStops, WriterSends, WriterFails, WriterDone

(* A request touches the hub by CloseSession alone.                        *)
LEMMA RequestIsHubStep ==
  ASSUME OpType, RequestStep
  PROVE  [Next]_vars /\ UNCHANGED status
<1>1. ASSUME NEW o \in Ops, CloseOpen(o) PROVE Next /\ UNCHANGED status
  <2>1. op[o].sid \in Sessions
    BY <1>1 DEF CloseOpen, OpType
  <2>. QED BY <1>1, <2>1 DEF CloseOpen, CloseSession, Next
<1>2. ASSUME UNCHANGED vars PROVE UNCHANGED status
  BY <1>2 DEF vars, peerVars
<1>. QED
  BY <1>1, <1>2 DEF RequestStep, OpStep, Expire, CreateBegin, LogoutFind, DeleteRevoke,
     CreateCommit, LogoutRevoke, CloseNothing

(* A handler touches it by Join, Forward, Leave and Receive.               *)
LEMMA HandlerIsHubStep ==
  ASSUME HandlerInv, HandlerStep
  PROVE  [Next]_vars
<1>1. PICK p \in Peers :
        \/ \E s \in Sessions : Check(p, s)
        \/ JoinHub(p) \/ JoinRefused(p) \/ Upgrade(p) \/ UpgradeFails(p)
        \/ WireFails(p) \/ ReaderForwards(p) \/ ReaderStops(p)
        \/ WriterSends(p) \/ WriterFails(p) \/ WriterDone(p)
  BY DEF HandlerStep
<1>2. CASE JoinHub(p)
  <2>1. want[p] \in Sessions
    BY <1>2 DEF JoinHub, HandlerInv
  <2>. QED BY <1>2, <2>1 DEF JoinHub, Next
<1>3. CASE ReaderForwards(p)
  BY <1>3 DEF ReaderForwards, Next
<1>4. CASE UpgradeFails(p) \/ ReaderStops(p)
  BY <1>4 DEF UpgradeFails, ReaderStops, Leave, Next
<1>5. CASE WriterSends(p) \/ WriterFails(p)
  BY <1>5 DEF WriterSends, WriterFails, Next
<1>6. CASE UNCHANGED vars
  BY <1>6
<1>. QED
  BY <1>1, <1>2, <1>3, <1>4, <1>5, <1>6 DEF Check, JoinRefused, Upgrade, WireFails, WriterDone

-----------------------------------------------------------------------------
LEMMA RowStep ==
  ASSUME RowType, OpType, OneUnrevokedSession, RequestStep
  PROVE  RowType' /\ OneUnrevokedSession'
<1>. USE DEF RowType, OneUnrevokedSession, Unrevoked
<1>1. CASE UNCHANGED row
  BY <1>1
<1>2. ASSUME NEW s \in Sessions, Expire(s) PROVE RowType' /\ OneUnrevokedSession'
  BY <1>2 DEF Expire
<1>3. ASSUME NEW o \in Ops, NEW s \in Sessions, CreateCommit(o, s)
      PROVE  RowType' /\ OneUnrevokedSession'
  BY <1>3 DEF CreateCommit, Replace
<1>4. ASSUME NEW o \in Ops, LogoutRevoke(o) PROVE RowType' /\ OneUnrevokedSession'
  BY <1>4 DEF LogoutRevoke
<1>5. ASSUME NEW o \in Ops, NEW s \in Sessions, DeleteRevoke(o, s)
      PROVE  RowType' /\ OneUnrevokedSession'
  BY <1>5 DEF DeleteRevoke
<1>. QED
  BY <1>1, <1>2, <1>3, <1>4, <1>5 DEF RequestStep, OpStep, CreateBegin, LogoutFind,
     CloseOpen, CloseNothing

LEMMA OpTypeStep ==
  ASSUME OpType, RequestStep
  PROVE  OpType'
<1>1. ASSUME NEW o \in Ops, NEW k \in Kinds \cup {"none"},
             NEW pc \in {"idle", "read", "committed", "found", "revoked", "refused", "done"},
             NEW s \in Sessions \cup {NoSession}, Goto(o, k, pc, s)
      PROVE  OpType'
  BY <1>1 DEF OpType, Goto
<1>2. ActiveSession \subseteq Sessions \cup {NoSession}
  BY DEF ActiveSession, Live
<1>3. \A o \in Ops : op[o].kind \in Kinds \cup {"none"} /\ op[o].sid \in Sessions \cup {NoSession}
  BY DEF OpType
<1>4. CASE \E s \in Sessions : Expire(s)
  BY <1>4 DEF Expire, OpType
<1>5. ASSUME NEW o \in Ops, CreateBegin(o) PROVE OpType'
  BY <1>1, <1>2, <1>5 DEF CreateBegin
<1>6. ASSUME NEW o \in Ops, LogoutFind(o) PROVE OpType'
  BY <1>1, <1>2, <1>6 DEF LogoutFind
<1>7. ASSUME NEW o \in Ops, NEW s \in Sessions, DeleteRevoke(o, s) PROVE OpType'
  BY <1>1, <1>7 DEF DeleteRevoke
<1>8. ASSUME NEW o \in Ops, NEW s \in Sessions, CreateCommit(o, s) PROVE OpType'
  BY <1>1, <1>3, <1>8 DEF CreateCommit, At
<1>9. ASSUME NEW o \in Ops, LogoutRevoke(o) PROVE OpType'
  BY <1>1, <1>3, <1>9 DEF LogoutRevoke, At
<1>10. ASSUME NEW o \in Ops, CloseOpen(o) \/ CloseNothing(o) PROVE OpType'
  BY <1>1, <1>3, <1>10 DEF CloseOpen, CloseNothing
<1>. QED
  BY <1>4, <1>5, <1>6, <1>7, <1>8, <1>9, <1>10 DEF RequestStep, OpStep

LEMMA HandlerTypeStep ==
  ASSUME HandlerType, HandlerStep
  PROVE  HandlerType'
<1>. USE DEF HandlerType
<1>1. PICK p \in Peers :
        \/ \E s \in Sessions : Check(p, s)
        \/ JoinHub(p) \/ JoinRefused(p) \/ Upgrade(p) \/ UpgradeFails(p)
        \/ WireFails(p) \/ ReaderForwards(p) \/ ReaderStops(p)
        \/ WriterSends(p) \/ WriterFails(p) \/ WriterDone(p)
  BY DEF HandlerStep
<1>2. CASE \E s \in Sessions : Check(p, s)
  BY <1>2 DEF Check
<1>3. CASE JoinHub(p) \/ JoinRefused(p) \/ Upgrade(p)
  BY <1>3 DEF JoinHub, JoinRefused, Upgrade
<1>4. CASE UpgradeFails(p) \/ WireFails(p) \/ ReaderStops(p)
  BY <1>4 DEF UpgradeFails, WireFails, ReaderStops
<1>5. CASE ReaderForwards(p) \/ WriterSends(p)
  BY <1>5 DEF ReaderForwards, WriterSends, handlerVars
<1>6. CASE WriterFails(p) \/ WriterDone(p)
  BY <1>6 DEF WriterFails, WriterDone
<1>. QED BY <1>1, <1>2, <1>3, <1>4, <1>5, <1>6

(* One step per action of a handler; only Join and Leave move a status.    *)
LEMMA HandlerInvStep ==
  ASSUME TypeOK, HandlerType, HandlerInv, HandlerStep
  PROVE  HandlerInv'
<1>. USE DEF HandlerInv, HandlerType, TypeOK
<1>1. PICK p \in Peers :
        \/ \E s \in Sessions : Check(p, s)
        \/ JoinHub(p) \/ JoinRefused(p) \/ Upgrade(p) \/ UpgradeFails(p)
        \/ WireFails(p) \/ ReaderForwards(p) \/ ReaderStops(p)
        \/ WriterSends(p) \/ WriterFails(p) \/ WriterDone(p)
  BY DEF HandlerStep
<1>2. ASSUME UNCHANGED vars PROVE UNCHANGED status
  BY <1>2 DEF vars, peerVars
<1>3. CASE (\E s \in Sessions : Check(p, s)) \/ JoinRefused(p) \/ Upgrade(p)
  BY <1>2, <1>3 DEF Check, JoinRefused, Upgrade
<1>4. CASE JoinHub(p)
  BY <1>4 DEF JoinHub, Join
<1>5. CASE UpgradeFails(p) \/ ReaderStops(p)
  <2>1. status' = [status EXCEPT ![p] = "left"]
    BY <1>5 DEF UpgradeFails, ReaderStops, Leave, LeaveRoom, LeaveGone
  <2>. QED BY <1>5, <2>1 DEF UpgradeFails, ReaderStops
<1>6. CASE WireFails(p) \/ WriterDone(p)
  BY <1>2, <1>6 DEF WireFails, WriterDone
<1>7. CASE ReaderForwards(p)
  <2>1. UNCHANGED status
    BY <1>7 DEF ReaderForwards, ForwardQueue, ForwardDeliver, ForwardDrop, peerVars
  <2>. QED BY <1>7, <2>1 DEF ReaderForwards, handlerVars
<1>8. CASE WriterSends(p) \/ WriterFails(p)
  <2>1. UNCHANGED status
    BY <1>2, <1>8 DEF WriterSends, WriterFails, Receive
  <2>. QED BY <1>8, <2>1 DEF WriterSends, WriterFails, handlerVars
<1>. QED
  BY <1>1, <1>3, <1>4, <1>5, <1>6, <1>7, <1>8

-----------------------------------------------------------------------------
ApiInv ==
  /\ HubInv
  /\ RowType /\ OpType /\ HandlerType
  /\ HandlerInv
  /\ OneUnrevokedSession

LEMMA ApiInvInit == ApiInit => ApiInv
<1>. SUFFICES ASSUME ApiInit PROVE ApiInv
  OBVIOUS
<1>1. HubInv
  BY HubInvInit DEF ApiInit
<1>2. RowType /\ OneUnrevokedSession
  BY DEF ApiInit, RowType, OneUnrevokedSession, Unrevoked
<1>3. OpType /\ HandlerType
  BY DEF ApiInit, OpType, HandlerType, Idle
<1>4. HandlerInv
  BY DEF ApiInit, Init, HandlerInv
<1>. QED BY <1>1, <1>2, <1>3, <1>4 DEF ApiInv

LEMMA ApiStepIsHubStep ==
  ASSUME ApiInv, [ApiNext]_apiVars
  PROVE  [Next]_vars
<1>1. CASE RequestStep
  BY <1>1, RequestIsHubStep DEF ApiInv
<1>2. CASE HandlerStep
  BY <1>2, HandlerIsHubStep DEF ApiInv
<1>. QED BY <1>1, <1>2, ApiSteps DEF apiVars

LEMMA ApiInvStep ==
  ASSUME ApiInv, [ApiNext]_apiVars
  PROVE  ApiInv'
<1>1. HubInv'
  BY ApiStepIsHubStep, HubInvStep DEF ApiInv
<1>2. CASE RequestStep
  <2>1. RowType' /\ OneUnrevokedSession' /\ OpType'
    BY <1>2, RowStep, OpTypeStep DEF ApiInv
  <2>2. UNCHANGED <<handlerVars, status>>
    BY <1>2, RequestFrame, RequestIsHubStep DEF ApiInv
  <2>. QED BY <1>1, <2>1, <2>2 DEF ApiInv, HandlerType, HandlerInv, handlerVars
<1>3. CASE HandlerStep
  <2>1. HandlerType' /\ HandlerInv'
    BY <1>3, HandlerTypeStep, HandlerInvStep DEF ApiInv, HubInv, SlotInv
  <2>2. UNCHANGED storeVars
    BY <1>3, HandlerFrame
  <2>. QED BY <1>1, <2>1, <2>2 DEF ApiInv, RowType, OpType, OneUnrevokedSession, Unrevoked, storeVars
<1>4. CASE UNCHANGED apiVars
  BY <1>1, <1>4 DEF ApiInv, apiVars, storeVars, handlerVars, vars, peerVars,
     RowType, OpType, HandlerType, HandlerInv, OneUnrevokedSession, Unrevoked
<1>. QED BY <1>2, <1>3, <1>4, ApiSteps

LEMMA ApiInvariant == ApiSpec => []ApiInv
<1>1. ApiInv /\ [ApiNext]_apiVars => ApiInv'
  BY ApiInvStep
<1>. QED BY <1>1, ApiInvInit, PTL DEF ApiSpec

(* The handlers, rows and requests keep their types.                       *)
THEOREM ApiTypeCorrect == ApiSpec => []ApiTypeOK
<1>1. ApiInv => ApiTypeOK
  BY ApiTypeParts DEF ApiInv, HubInv, SlotInv
<1>. QED BY <1>1, ApiInvariant, PTL

(* The HTTP handlers drive the hub as its specification says: whatever is  *)
(* proved of Spec (no leaked room, no cross talk, messages in order, no    *)
(* Join that blocks) holds in the API, however its goroutines interleave.  *)
THEOREM ApiUsesHub == ApiSpec => Spec
<1>1. ApiInit => Init
  BY DEF ApiInit
<1>2. ApiInv /\ [ApiNext]_apiVars => [Next]_vars
  BY ApiStepIsHubStep
<1>. QED BY <1>1, <1>2, ApiInvariant, PTL DEF ApiSpec, Spec

(* So the handlers together are the mailbox that Negotiation builds on:    *)
(* whatever requests, upgrades and readers do between the hub's            *)
(* operations, mail is lost only when its seat or its session is given up, *)
(* or when too much of it waits.                                           *)
THEOREM ApiImplementsMailbox == ApiSpec => ImplementsMailbox
  BY ApiUsesHub, HubImplementsMailbox

(* Concurrent creations leave one unrevoked session at most, although each *)
(* read the previous one before its transaction (store.go:137-156).        *)
THEOREM OneSessionEver == ApiSpec => []OneUnrevokedSession
<1>1. ApiInv => OneUnrevokedSession
  BY DEF ApiInv
<1>. QED BY <1>1, ApiInvariant, PTL

(* No slot outlives the handler that took it: failed upgrades and readers  *)
(* that return give it back (server.go:246-260).                           *)
THEOREM SlotsHaveHandlers == ApiSpec => []SlotHasHandler
<1>1. ApiInv => SlotHasHandler
  BY DEF ApiInv, HubInv, SlotInv, SlotsAreLive, HandlerInv, SlotHasHandler
<1>. QED BY <1>1, ApiInvariant, PTL
=============================================================================
