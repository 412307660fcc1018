-------------------------- MODULE TouchControlProofs --------------------------
(***************************************************************************)
(* Theorems about TouchControl, for any number of fingers, events and      *)
(* screen revisions.  Every message that reaches the session goes through  *)
(* Handle; the lemmas say what Handle does to the state, and the steps of  *)
(* Next that do not handle a message or cancel leave the contacts alone.   *)
(***************************************************************************)
EXTENDS TouchControl, FiniteSetTheorems, TLAPS

(* What the handler, the watchdog, OnClose and Close may change.           *)
SessionType ==
  /\ active \subseteq Pointers
  /\ lastSequence \in 0..MaxEvents
  /\ screenRevision \in 0..MaxRevision
  /\ sock \in {"ok", "broken", "closed"}
  /\ pressed \subseteq Pointers
  /\ shown \in [Pointers -> 0..MaxEvents]
  /\ downRev \in [Pointers -> 0..MaxRevision]

LEMMA TouchMessage ==
  ASSUME NEW m \in Message, m.act \in TouchActions
  PROVE  m.p \in Pointers /\ m.seq \in 1..MaxEvents /\ m.rev \in 1..MaxRevision
  BY DEF Message, TouchActions

LEMMA CancelType ==
  ASSUME SessionType, CancelAllLocked, UNCHANGED <<filterVars, ghostVars>>
  PROVE  SessionType'
<1>. USE DEF SessionType, filterVars, ghostVars
<1>1. CASE AllCancelled
  BY <1>1 DEF AllCancelled, WriteOk
<1>2. CASE SomeCancelled
  BY <1>2 DEF SomeCancelled, WriteFails
<1>. QED BY <1>1, <1>2 DEF CancelAllLocked

LEMMA AcceptType ==
  ASSUME TouchAssumption, SessionType, NEW m \in Message, m.act \in TouchActions, Accept(m)
  PROVE  SessionType'
<1>1. m.p \in Pointers /\ m.seq \in 1..MaxEvents /\ m.rev \in 1..MaxRevision
  BY TouchMessage
<1>2. ActiveFor(m) \subseteq Pointers /\ PressedFor(m) \subseteq Pointers
  BY DEF SessionType, ActiveFor, PressedFor
<1>3. lastSequence' \in 0..MaxEvents /\ screenRevision' \in 0..MaxRevision
  BY <1>1 DEF SessionType, Accept, TouchAssumption
<1>4. active' \subseteq Pointers
  BY <1>1, <1>2 DEF Accept, Remember
<1>5. pressed' \subseteq Pointers
  BY <1>1, <1>2 DEF Accept, Pressing
<1>6. sock' \in {"ok", "broken", "closed"}
  BY DEF Accept, WriteOk, WriteFails, SessionType
<1>7. shown' \in [Pointers -> 0..MaxEvents]
  BY <1>1 DEF Accept, ghostVars, SessionType
<1>8. downRev' \in [Pointers -> 0..MaxRevision]
  BY <1>1 DEF Accept, ghostVars, SessionType
<1>. QED BY <1>3, <1>4, <1>5, <1>6, <1>7, <1>8 DEF SessionType

LEMMA HandleType ==
  ASSUME TouchAssumption, SessionType, NEW m \in Message, Handle(m)
  PROVE  SessionType' /\ age' = 0
<1>0. age' = 0
  BY DEF Handle
<1>1. CASE UNCHANGED <<filterVars, contactVars, ghostVars>>
  BY <1>0, <1>1 DEF SessionType, filterVars, contactVars, ghostVars
<1>2. CASE CancelAllLocked /\ UNCHANGED <<filterVars, ghostVars>>
  BY <1>0, <1>2, CancelType
<1>3. CASE (WriteOk \/ WriteFails) /\ UNCHANGED <<filterVars, active, pressed, ghostVars>>
  BY <1>0, <1>3 DEF SessionType, WriteOk, WriteFails, filterVars, ghostVars
<1>4. CASE RevisionFails(m)
  BY <1>0, <1>4, CancelType DEF RevisionFails, CancelAllLocked
<1>5. CASE Refuse(m)
  BY <1>0, <1>5 DEF Refuse, SessionType, ActiveFor, PressedFor, filterVars, ghostVars
<1>6. CASE m.act \in TouchActions /\ Accept(m)
  BY <1>0, <1>6, AcceptType
<1>. QED BY <1>1, <1>2, <1>3, <1>4, <1>5, <1>6 DEF Handle

-----------------------------------------------------------------------------
(* The session's types hold at first and after every step.                 *)
LEMMA PlainMessage ==
  ASSUME NEW act \in {"heartbeat", "cancelAll", "key"}
  PROVE  Plain(act) \in Message
  BY DEF Plain, Message

LEMMA SentMessage ==
  ASSUME TypeOK, NEW act \in TouchActions, NEW p \in Pointers, NEW n \in 1..MaxEvents
  PROVE  Touch(act, p, n) \in Message
  BY DEF TypeOK, Touch, Message

LEMMA ReliablyType ==
  ASSUME TypeOK, NEW q \in Seq(Message), Reliably(q)
  PROVE  ctl' \in Seq(Message) /\ tch' \subseteq Message
  BY DEF TypeOK, Reliably

LEMMA QuicklyType ==
  ASSUME TypeOK, NEW m \in Message, Quickly(m)
  PROVE  ctl' \in Seq(Message) /\ tch' \subseteq Message
<1>1. CASE chan["touch.v1"] = "open"
  BY <1>1 DEF Quickly, TypeOK
<1>2. CASE chan["touch.v1"] # "open"
  <2>1. <<m>> \in Seq(Message)
    OBVIOUS
  <2>. QED BY <1>2, <2>1, ReliablyType DEF Quickly
<1>. QED BY <1>1, <1>2

LEMMA CancelsInSeq ==
  ASSUME TouchAssumption, TypeOK, CancelTouches,
         NEW order \in [1..Cardinality(touching) -> touching]
  PROVE  Cancels(order) \in Seq(Message)
<1>1. IsFiniteSet(touching) /\ Cardinality(touching) \in Nat
  <2>1. IsFiniteSet(1..MaxPointer)
    BY FS_Interval DEF TouchAssumption
  <2>. QED BY <2>1, FS_Subset, FS_CardinalityType DEF TypeOK, Pointers
<1>2. ASSUME NEW i \in 1..Cardinality(touching)
      PROVE  Touch("cancel", order[i], sequence + i) \in Message
  <2>1. order[i] \in Pointers
    BY <1>2 DEF TypeOK
  <2>2. sequence + i \in 1..MaxEvents
    BY <1>1, <1>2 DEF CancelTouches, TypeOK, TouchAssumption
  <2>. QED BY <2>1, <2>2, SentMessage DEF TouchActions
<1>3. Cancels(order) \in [1..Cardinality(touching) -> Message]
  BY <1>2 DEF Cancels
<1>. QED BY <1>1, <1>3

LEMMA CancelsType ==
  ASSUME TouchAssumption, TypeOK, CancelTouches
  PROVE  /\ ctl' \in Seq(Message) /\ tch' \subseteq Message
         /\ sequence' \in 0..MaxEvents
         /\ touching' = {}
<1>1. IsFiniteSet(touching) /\ Cardinality(touching) \in Nat
  <2>1. IsFiniteSet(1..MaxPointer)
    BY FS_Interval DEF TouchAssumption
  <2>. QED BY <2>1, FS_Subset, FS_CardinalityType DEF TypeOK, Pointers
<1>2. PICK order \in [1..Cardinality(touching) -> touching] : Reliably(Cancels(order))
  BY DEF CancelTouches
<1>4. Cancels(order) \in Seq(Message)
  BY CancelsInSeq
<1>. QED BY <1>1, <1>2, <1>4, ReliablyType DEF CancelTouches, TypeOK, TouchAssumption

LEMMA TypeInit ==
  ASSUME TouchAssumption, Init
  PROVE  TypeOK
<1>1. ctl \in Seq(Message) /\ tch \subseteq Message
  BY DEF Init
<1>2. chan \in [Channels -> {"opening", "open", "ended", "closed"}]
  BY DEF Init
<1>3. /\ touching \subseteq Pointers /\ active \subseteq Pointers /\ pressed \subseteq Pointers
      /\ shown \in [Pointers -> 0..MaxEvents]
      /\ downRev \in [Pointers -> 0..MaxRevision]
  BY DEF Init, TouchAssumption
<1>4. /\ nextPointer \in 1..(MaxPointer + 1) /\ sequence \in 0..MaxEvents
      /\ rev \in 1..MaxRevision /\ keys \in 0..MaxKeys
      /\ lastSequence \in 0..MaxEvents /\ screenRevision \in 0..MaxRevision
      /\ age \in 0..(Limit + 1)
  BY DEF Init, TouchAssumption
<1>5. app \in {"on", "left", "gone"} /\ sock \in {"ok", "broken", "closed"} /\ phase \in {"serving", "returned", "cancelled", "closed"}
  BY DEF Init
<1>. QED BY <1>1, <1>2, <1>3, <1>4, <1>5 DEF TypeOK

(* The parts of TypeOK that the app's, the channels' and the session's     *)
(* steps leave alone.                                                      *)
AppType ==
  /\ touching \subseteq Pointers
  /\ nextPointer \in 1..(MaxPointer + 1)
  /\ sequence \in 0..MaxEvents
  /\ rev \in 1..MaxRevision
  /\ keys \in 0..MaxKeys
  /\ app \in {"on", "left", "gone"}

NetType ==
  /\ ctl \in Seq(Message)
  /\ tch \subseteq Message

PhaseType == phase \in {"serving", "returned", "cancelled", "closed"}
ChanType == chan \in [Channels -> {"opening", "open", "ended", "closed"}]
AgeType == age \in 0..(Limit + 1)

LEMMA TypeParts ==
  TypeOK <=> AppType /\ NetType /\ SessionType /\ PhaseType /\ ChanType /\ AgeType
  BY DEF TypeOK, AppType, NetType, SessionType, PhaseType, ChanType, AgeType

LEMMA RestType ==
  ASSUME TypeOK, UNCHANGED Rest
  PROVE  SessionType' /\ PhaseType' /\ ChanType' /\ AgeType'
  BY DEF TypeOK, Rest, filterVars, contactVars, ghostVars,
         SessionType, PhaseType, ChanType, AgeType

(* One step per action of the app.                                         *)
AppStep ==
  \/ TouchBegan
  \/ \E p \in Pointers : TouchMoved(p) \/ TouchEnded(p)
  \/ Rotate \/ Heartbeat \/ SendKey \/ Disconnect \/ Vanish

LEMMA AppStepLeavesRest == AppStep => UNCHANGED Rest
  BY DEF AppStep, TouchBegan, TouchMoved, TouchEnded, Rotate, Heartbeat, SendKey, Disconnect,
     Vanish, Rest

LEMMA AppTypeStep ==
  ASSUME TouchAssumption, TypeOK, AppStep
  PROVE  AppType' /\ NetType'
<1>. USE DEF AppType, NetType
<1>1. CASE TouchBegan
  <2>1. Touch("down", nextPointer, sequence + 1) \in Message
    <3>1. nextPointer \in Pointers /\ sequence + 1 \in 1..MaxEvents
      BY <1>1 DEF TouchBegan, TypeOK, Pointers, TouchAssumption
    <3>. QED BY <3>1, SentMessage DEF TouchActions
  <2>2. <<Touch("down", nextPointer, sequence + 1)>> \in Seq(Message)
    BY <2>1
  <2>3. NetType'
    BY <1>1, <2>2, ReliablyType DEF TouchBegan
  <2>4. AppType'
    BY <1>1 DEF TouchBegan, TypeOK, Pointers, TouchAssumption
  <2>. QED BY <2>3, <2>4
<1>2. ASSUME NEW p \in Pointers, TouchMoved(p) PROVE AppType' /\ NetType'
  <2>1. Touch("move", p, sequence + 1) \in Message
    <3>1. sequence + 1 \in 1..MaxEvents
      BY <1>2 DEF TouchMoved, TypeOK, TouchAssumption
    <3>. QED BY <3>1, SentMessage DEF TouchActions
  <2>2. NetType'
    BY <1>2, <2>1, QuicklyType DEF TouchMoved
  <2>3. AppType'
    BY <1>2 DEF TouchMoved, TypeOK, TouchAssumption
  <2>. QED BY <2>2, <2>3
<1>3. ASSUME NEW p \in Pointers, TouchEnded(p) PROVE AppType' /\ NetType'
  <2>1. PICK act \in {"up", "cancel"} : Reliably(<<Touch(act, p, sequence + 1)>>)
    BY <1>3 DEF TouchEnded
  <2>2. Touch(act, p, sequence + 1) \in Message
    <3>1. sequence + 1 \in 1..MaxEvents
      BY <1>3 DEF TouchEnded, TypeOK, TouchAssumption
    <3>. QED BY <3>1, SentMessage DEF TouchActions
  <2>3. <<Touch(act, p, sequence + 1)>> \in Seq(Message)
    BY <2>2
  <2>4. NetType'
    BY <2>1, <2>3, ReliablyType
  <2>5. AppType'
    BY <1>3 DEF TouchEnded, TypeOK, TouchAssumption
  <2>. QED BY <2>4, <2>5
<1>4. CASE Rotate
  <2>1. NetType' /\ sequence' \in 0..MaxEvents /\ touching' = {}
    BY <1>4, CancelsType DEF Rotate
  <2>. QED BY <1>4, <2>1 DEF Rotate, TypeOK, TouchAssumption
<1>5. CASE Heartbeat
  <2>1. NetType'
    BY <1>5, PlainMessage, QuicklyType DEF Heartbeat
  <2>. QED BY <1>5, <2>1 DEF Heartbeat, TypeOK, appVars
<1>6. CASE SendKey
  <2>1. <<Plain("key")>> \in Seq(Message)
    BY PlainMessage
  <2>2. NetType'
    BY <1>6, <2>1, ReliablyType DEF SendKey
  <2>. QED BY <1>6, <2>2 DEF SendKey, TypeOK, TouchAssumption
<1>7. CASE Disconnect
  <2>1. <<Plain("cancelAll")>> \in Seq(Message)
    BY PlainMessage
  <2>2. NetType'
    BY <1>7, <2>1, ReliablyType DEF Disconnect
  <2>. QED BY <1>7, <2>2 DEF Disconnect, TypeOK
<1>8. CASE Vanish
  BY <1>8 DEF Vanish, TypeOK, netVars
<1>. QED BY <1>1, <1>2, <1>3, <1>4, <1>5, <1>6, <1>7, <1>8 DEF AppStep

LEMMA TypeStep ==
  ASSUME TouchAssumption, TypeOK, [Next]_vars
  PROVE  TypeOK'
<1>0. AppType /\ NetType /\ SessionType /\ PhaseType /\ ChanType /\ AgeType
  BY TypeParts
<1>. SUFFICES AppType' /\ NetType' /\ SessionType' /\ PhaseType' /\ ChanType' /\ AgeType'
  BY DEF TypeOK, AppType, NetType, SessionType, PhaseType, ChanType, AgeType
<1>1. CASE AppStep
  BY <1>1, AppTypeStep, AppStepLeavesRest, RestType
<1>2. ASSUME UNCHANGED appVars PROVE AppType'
  BY <1>0, <1>2 DEF AppType, appVars
<1>3. ASSUME age' = 0 PROVE AgeType'
  BY <1>3 DEF AgeType, TouchAssumption
<1>4. CASE DeliverControl
  <2>1. Head(ctl) \in Message /\ Tail(ctl) \in Seq(Message)
    BY <1>0, <1>4 DEF DeliverControl, NetType
  <2>2. SessionType' /\ age' = 0
    BY <1>0, <1>4, <2>1, HandleType DEF DeliverControl
  <2>. QED BY <1>0, <1>2, <1>3, <1>4, <2>1, <2>2 DEF DeliverControl, NetType, PhaseType, ChanType
<1>5. ASSUME NEW m \in tch, DeliverTouch(m)
      PROVE  AppType' /\ NetType' /\ SessionType' /\ PhaseType' /\ ChanType' /\ AgeType'
  <2>1. m \in Message
    BY <1>0 DEF NetType
  <2>2. SessionType' /\ age' = 0
    BY <1>0, <1>5, <2>1, HandleType DEF DeliverTouch
  <2>. QED BY <1>0, <1>2, <1>3, <1>5, <2>2 DEF DeliverTouch, NetType, PhaseType, ChanType
<1>6. CASE TouchChannelOpens \/ \E c \in Channels : ChannelEnds(c)
  <2>1. AppType' /\ AgeType' /\ PhaseType' /\ SessionType'
    BY <1>0, <1>2, <1>6 DEF TouchChannelOpens, ChannelEnds, AgeType, PhaseType, SessionType,
       filterVars, contactVars, ghostVars
  <2>2. ChanType'
    BY <1>0, <1>6 DEF TouchChannelOpens, ChannelEnds, ChanType
  <2>3. << >> \in Seq(Message)
    OBVIOUS
  <2>4. NetType'
    BY <1>0, <1>6, <2>3 DEF TouchChannelOpens, ChannelEnds, NetType, netVars
  <2>. QED BY <2>1, <2>2, <2>4
<1>7. ASSUME NEW c \in Channels, OnClose(c)
      PROVE  AppType' /\ NetType' /\ SessionType' /\ PhaseType' /\ ChanType' /\ AgeType'
  <2>1. SessionType' /\ age' = 0
    BY <1>0, <1>7, PlainMessage, HandleType DEF OnClose
  <2>. QED BY <1>0, <1>2, <1>3, <1>7, <2>1 DEF OnClose, NetType, PhaseType, ChanType, netVars
<1>8. CASE Tick
  <2>1. AgeType'
    BY <1>0, <1>8 DEF Tick, AgeType, TouchAssumption
  <2>. QED BY <1>0, <1>2, <1>8, <2>1 DEF Tick, NetType, PhaseType, ChanType, SessionType,
              netVars, filterVars, contactVars, ghostVars
<1>9. CASE Watchdog \/ CloseCancels
  <2>1. CancelAllLocked /\ UNCHANGED <<appVars, netVars, chan, filterVars, age, ghostVars>> /\ PhaseType'
    BY <1>0, <1>9 DEF Watchdog, CloseCancels, PhaseType
  <2>2. SessionType'
    BY <1>0, <2>1, CancelType
  <2>. QED BY <1>0, <1>2, <2>1, <2>2 DEF NetType, ChanType, AgeType, netVars
<1>10. CASE ServeReturns \/ CloseSocket
  <2>1. SessionType' /\ PhaseType'
    BY <1>0, <1>10 DEF ServeReturns, CloseSocket, SessionType, PhaseType,
       filterVars, contactVars, ghostVars
  <2>. QED BY <1>0, <1>2, <1>10, <2>1 DEF ServeReturns, CloseSocket, NetType, ChanType, AgeType, netVars
<1>11. CASE UNCHANGED vars
  BY <1>0, <1>11 DEF vars, appVars, netVars, filterVars, contactVars, ghostVars,
     AppType, NetType, SessionType, PhaseType, ChanType, AgeType
<1>. QED
  BY <1>1, <1>4, <1>5, <1>6, <1>7, <1>8, <1>9, <1>10, <1>11 DEF Next, AppStep

(* Type correctness of the touch path.                                     *)
THEOREM TouchTypeCorrect == Spec => []TypeOK
<1>. USE TouchAssumption
<1>1. Init => TypeOK
  BY TypeInit
<1>2. TypeOK /\ [Next]_vars => TypeOK'
  BY TypeStep
<1>. QED BY <1>1, <1>2, PTL DEF Spec

-----------------------------------------------------------------------------
(* The contacts.  OneRevision is inductive only together with the other    *)
(* two: an event of a new revision may take over because the cancels it    *)
(* causes reach everything that Android holds down, and that is what the   *)
(* session remembers; and before the first event nothing is down.          *)
ContactInv ==
  /\ NoForgottenContact
  /\ NoPhantomContact
  /\ OneRevision
  /\ screenRevision = 0 => active = {}

LEMMA CancelContacts ==
  ASSUME ContactInv, CancelAllLocked, UNCHANGED <<filterVars, ghostVars>>
  PROVE  ContactInv'
<1>. USE DEF ContactInv, NoForgottenContact, NoPhantomContact, OneRevision, filterVars, ghostVars
<1>1. CASE AllCancelled
  BY <1>1 DEF AllCancelled
<1>2. CASE SomeCancelled
  <2>1. sock' # "ok"
    BY <1>2 DEF SomeCancelled, WriteFails
  <2>. QED BY <1>2, <2>1 DEF SomeCancelled
<1>. QED BY <1>1, <1>2 DEF CancelAllLocked

(* After the revision check nothing is down under another revision.        *)
LEMMA AfterCheck ==
  ASSUME ContactInv, NEW m
  PROVE  /\ PressedFor(m) \subseteq ActiveFor(m)
         /\ sock = "ok" => ActiveFor(m) \subseteq PressedFor(m)
         /\ PressedFor(m) \subseteq pressed /\ ActiveFor(m) \subseteq active
         /\ \A p \in PressedFor(m) : downRev[p] = m.rev
<1>. USE DEF ContactInv, NoForgottenContact, NoPhantomContact, OneRevision, PressedFor, ActiveFor
<1>1. CASE Mismatch(m)
  BY <1>1
<1>2. CASE ~Mismatch(m)
  BY <1>2 DEF Mismatch
<1>. QED BY <1>1, <1>2

LEMMA RefuseContacts ==
  ASSUME ContactInv, NEW m, Refuse(m)
  PROVE  ContactInv'
<1>1. UNCHANGED <<sock, screenRevision, downRev>> /\ active' = ActiveFor(m) /\ pressed' = PressedFor(m)
  BY DEF Refuse, filterVars, ghostVars
<1>. QED
  BY <1>1, AfterCheck DEF ContactInv, NoForgottenContact, NoPhantomContact, OneRevision

LEMMA AcceptContacts ==
  ASSUME TouchAssumption, SessionType, ContactInv, NEW m \in Message, m.act \in TouchActions,
         Accept(m)
  PROVE  ContactInv'
<1>. USE DEF ContactInv, NoForgottenContact, NoPhantomContact, OneRevision
<1>1. m.p \in Pointers /\ m.rev \in 1..MaxRevision
  BY TouchMessage
<1>2. screenRevision' = m.rev /\ screenRevision' # 0
  BY <1>1 DEF Accept, TouchAssumption
<1>3. /\ PressedFor(m) \subseteq ActiveFor(m)
      /\ sock = "ok" => ActiveFor(m) \subseteq PressedFor(m)
      /\ \A p \in PressedFor(m) : downRev[p] = m.rev
  BY AfterCheck
<1>4. ActiveFor(m) \subseteq Pointers /\ PressedFor(m) \subseteq Pointers
  BY DEF SessionType, ActiveFor, PressedFor
<1>5. CASE WriteOk /\ active' = Remember(m) \ Lifted(m) /\ pressed' = Pressing(m)
           /\ downRev' = IF m.act = "down" THEN [downRev EXCEPT ![m.p] = m.rev] ELSE downRev
  <2>1. sock = "ok" /\ sock' = "ok"
    BY <1>5 DEF WriteOk
  <2>2. active' = pressed'
    BY <1>3, <1>5, <2>1 DEF Remember, Lifted, Pressing, TouchActions
  <2>3. \A p \in pressed' : downRev'[p] = m.rev
    BY <1>1, <1>3, <1>4, <1>5 DEF Pressing, SessionType
  <2>. QED BY <1>2, <2>2, <2>3
<1>6. CASE WriteFails /\ active' = Remember(m) /\ pressed' = PressedFor(m) /\ UNCHANGED ghostVars
  <2>1. sock' # "ok"
    BY <1>6 DEF WriteFails
  <2>2. pressed' \subseteq active'
    BY <1>3, <1>6 DEF Remember
  <2>3. \A p \in pressed' : downRev'[p] = m.rev
    BY <1>3, <1>6 DEF ghostVars
  <2>. QED BY <1>2, <2>1, <2>2, <2>3
<1>. QED BY <1>5, <1>6 DEF Accept

LEMMA HandleContacts ==
  ASSUME TouchAssumption, SessionType, ContactInv, NEW m \in Message, Handle(m)
  PROVE  ContactInv'
<1>1. CASE UNCHANGED <<filterVars, contactVars, ghostVars>>
  BY <1>1 DEF ContactInv, NoForgottenContact, NoPhantomContact, OneRevision,
     filterVars, contactVars, ghostVars
<1>2. CASE CancelAllLocked /\ UNCHANGED <<filterVars, ghostVars>>
  BY <1>2, CancelContacts
<1>3. CASE (WriteOk \/ WriteFails) /\ UNCHANGED <<filterVars, active, pressed, ghostVars>>
  <2>1. sock' = "ok" => sock = "ok"
    BY <1>3 DEF WriteOk, WriteFails
  <2>. QED BY <1>3, <2>1 DEF ContactInv, NoForgottenContact, NoPhantomContact, OneRevision,
              filterVars, ghostVars
<1>4. CASE RevisionFails(m)
  BY <1>4, CancelContacts DEF RevisionFails, CancelAllLocked
<1>5. CASE Refuse(m)
  BY <1>5, RefuseContacts
<1>6. CASE m.act \in TouchActions /\ Accept(m)
  BY <1>6, AcceptContacts
<1>. QED BY <1>1, <1>2, <1>3, <1>4, <1>5, <1>6 DEF Handle

LEMMA ContactStep ==
  ASSUME TouchAssumption, TypeOK, ContactInv, [Next]_vars
  PROVE  ContactInv'
<1>. USE DEF ContactInv, NoForgottenContact, NoPhantomContact, OneRevision
<1>0. SessionType /\ NetType
  BY TypeParts
<1>1. ASSUME UNCHANGED <<filterVars, contactVars, ghostVars>> PROVE ContactInv'
  BY <1>1 DEF filterVars, contactVars, ghostVars
<1>2. CASE AppStep
  BY <1>1, <1>2, AppStepLeavesRest DEF Rest
<1>3. CASE DeliverControl
  <2>1. Head(ctl) \in Message
    BY <1>0, <1>3 DEF DeliverControl, NetType
  <2>. QED BY <1>0, <1>3, <2>1, HandleContacts DEF DeliverControl
<1>4. CASE \E m \in tch : DeliverTouch(m)
  BY <1>0, <1>4, HandleContacts DEF DeliverTouch, NetType
<1>5. CASE TouchChannelOpens \/ \E c \in Channels : ChannelEnds(c)
  BY <1>1, <1>5 DEF TouchChannelOpens, ChannelEnds
<1>6. CASE \E c \in Channels : OnClose(c)
  BY <1>0, <1>6, PlainMessage, HandleContacts DEF OnClose
<1>7. CASE Tick \/ ServeReturns \/ UNCHANGED vars
  BY <1>1, <1>7 DEF Tick, ServeReturns, vars
<1>8. CASE Watchdog \/ CloseCancels
  BY <1>8, CancelContacts DEF Watchdog, CloseCancels
<1>9. CASE CloseSocket
  BY <1>9 DEF CloseSocket, filterVars, ghostVars
<1>. QED
  BY <1>2, <1>3, <1>4, <1>5, <1>6, <1>7, <1>8, <1>9 DEF Next, AppStep

LEMMA ContactInvHolds == Spec => []ContactInv
<1>. USE TouchAssumption
<1>1. Init => ContactInv
  BY DEF Init, ContactInv, NoForgottenContact, NoPhantomContact, OneRevision
<1>2. TypeOK /\ ContactInv /\ [Next]_vars => ContactInv'
  BY ContactStep
<1>. QED BY <1>1, <1>2, TouchTypeCorrect, PTL DEF Spec

(* The session never forgets a contact that Android holds down             *)
(* (session.go:305-337, 369-377).                                          *)
THEOREM ContactsRemembered == Spec => []NoForgottenContact
<1>1. ContactInv => NoForgottenContact
  BY DEF ContactInv
<1>. QED BY <1>1, ContactInvHolds, PTL

(* While writes succeed, it invents none (session.go:311, 333).            *)
THEOREM ContactsReal == Spec => []NoPhantomContact
<1>1. ContactInv => NoPhantomContact
  BY DEF ContactInv
<1>. QED BY <1>1, ContactInvHolds, PTL

(* Android never holds contacts of two screen revisions                    *)
(* (session.go:263-267).                                                   *)
THEOREM ContactsOfOneRevision == Spec => []OneRevision
<1>1. ContactInv => OneRevision
  BY DEF ContactInv
<1>. QED BY <1>1, ContactInvHolds, PTL

-----------------------------------------------------------------------------
(* The revision of the session follows the downs on control.v1, which come *)
(* in order: no other event is accepted under a revision that differs.     *)
DownAt(i) == i \in 1..Len(ctl) /\ ctl[i].act = "down"

RevisionInv ==
  /\ screenRevision <= rev
  /\ screenRevision = 0 => active = {}
  /\ \A m \in tch : m.act # "down"
  /\ \A i \in 1..Len(ctl) : DownAt(i) => screenRevision <= ctl[i].rev /\ ctl[i].rev <= rev
  /\ \A i, j \in 1..Len(ctl) : DownAt(i) /\ DownAt(j) /\ i < j => ctl[i].rev <= ctl[j].rev

LEMMA CancelRevision ==
  ASSUME CancelAllLocked
  PROVE  active' \subseteq active
  BY DEF CancelAllLocked, AllCancelled, SomeCancelled

LEMMA HandleRevision ==
  ASSUME TypeOK, RevisionInv, NEW m \in Message, Handle(m)
  PROVE  /\ screenRevision' = screenRevision \/ (m.act = "down" /\ screenRevision' = m.rev)
         /\ screenRevision' = 0 => active' = {}
<1>1. CASE m.act \notin TouchActions
  <2>1. screenRevision' = screenRevision /\ active' \subseteq active
    BY <1>1, CancelRevision DEF Handle, filterVars, contactVars
  <2>. QED BY <2>1 DEF RevisionInv
<1>2. CASE RevisionFails(m)
  BY <1>2, CancelRevision DEF RevisionFails, CancelAllLocked, RevisionInv, filterVars
<1>3. CASE Refuse(m)
  BY <1>3 DEF Refuse, ActiveFor, RevisionInv, filterVars
<1>4. CASE m.act \in TouchActions /\ Accept(m)
  <2>1. screenRevision' = m.rev /\ m.rev # 0
    BY <1>4, TouchMessage DEF Accept
  <2>2. m.act # "down" => m.rev = screenRevision
    BY <1>4 DEF Accept, Refused, ActiveFor, Mismatch, RevisionInv
  <2>. QED BY <2>1, <2>2
<1>. QED BY <1>1, <1>2, <1>3, <1>4 DEF Handle, TouchActions

(* What is appended is no down, or one of the present revision.            *)
LEMMA AppendRevision ==
  ASSUME TypeOK, RevisionInv, NEW q \in Seq(Message), ctl' = ctl \o q,
         \A i \in 1..Len(q) : q[i].act = "down" => q[i].rev = rev /\ Len(q) = 1,
         \A m \in tch' : m.act # "down",
         rev' \in Nat, rev <= rev', screenRevision' = screenRevision, active' = active
  PROVE  RevisionInv'
<1>1. ctl \in Seq(Message) /\ rev \in Nat /\ screenRevision \in Nat
  BY DEF TypeOK
<1>2. Len(ctl') = Len(ctl) + Len(q)
  BY <1>1
<1>3. \A i \in 1..Len(ctl') : ctl'[i] = IF i <= Len(ctl) THEN ctl[i] ELSE q[i - Len(ctl)]
  BY <1>1
<1>4. \A i \in 1..Len(ctl) : DownAt(i) => ctl[i].rev \in Nat
  BY <1>1, TouchMessage DEF DownAt, TouchActions
<1>5. ASSUME NEW i \in 1..Len(ctl'), DownAt(i)'
      PROVE  \/ i \in 1..Len(ctl) /\ DownAt(i) /\ ctl'[i] = ctl[i]
             \/ i = Len(ctl) + 1 /\ Len(q) = 1 /\ ctl'[i].rev = rev
  BY <1>1, <1>2, <1>3, <1>5 DEF DownAt
<1>6. \A i \in 1..Len(ctl') : DownAt(i)' => screenRevision' <= ctl'[i].rev /\ ctl'[i].rev <= rev'
  BY <1>1, <1>4, <1>5 DEF RevisionInv
<1>7. \A i, j \in 1..Len(ctl') : DownAt(i)' /\ DownAt(j)' /\ i < j => ctl'[i].rev <= ctl'[j].rev
  BY <1>1, <1>2, <1>4, <1>5 DEF RevisionInv
<1>. QED BY <1>1, <1>6, <1>7 DEF RevisionInv

LEMMA QuicklySends ==
  ASSUME TypeOK, NEW m \in Message, m.act # "down", Quickly(m)
  PROVE  \E q \in Seq(Message) :
           /\ ctl' = ctl \o q /\ \A i \in 1..Len(q) : q[i].act # "down"
           /\ \A x \in tch' \ tch : x.act # "down"
<1>1. CASE chan["touch.v1"] = "open"
  <2>. DEFINE q == << >>
  <2>1. ctl' = ctl \o q /\ q \in Seq(Message) /\ \A i \in 1..Len(q) : q[i].act # "down"
    BY <1>1 DEF Quickly, TypeOK
  <2>2. \A x \in tch' \ tch : x.act # "down"
    BY <1>1 DEF Quickly
  <2>. HIDE DEF q
  <2>. QED BY <2>1, <2>2
<1>2. CASE chan["touch.v1"] # "open"
  <2>1. <<m>> \in Seq(Message) /\ \A i \in 1..Len(<<m>>) : <<m>>[i].act # "down"
    OBVIOUS
  <2>2. ctl' = ctl \o <<m>> /\ tch' = tch
    BY <1>2 DEF Quickly, Reliably
  <2>. QED BY <2>1, <2>2
<1>. QED BY <1>1, <1>2

(* What the app sends: a step appends to control.v1, and only TouchBegan   *)
(* appends a down, of a pointer that is new.                               *)
Sends(q) ==
  /\ ctl' = ctl \o q
  /\ \A m \in tch' \ tch : m.act # "down"
  /\ rev' = rev \/ rev' = rev + 1
  /\ \/ /\ \A i \in 1..Len(q) : q[i].act # "down"
        /\ nextPointer' = nextPointer
     \/ /\ Len(q) = 1 /\ q[1].act = "down" /\ q[1].rev = rev
        /\ q[1].p = nextPointer /\ nextPointer' = nextPointer + 1

LEMMA AppSends ==
  ASSUME TouchAssumption, TypeOK, AppStep
  PROVE  \E q \in Seq(Message) : Sends(q)
<1>1. CASE TouchBegan
  <2>1. Touch("down", nextPointer, sequence + 1) \in Message
    <3>1. nextPointer \in Pointers /\ sequence + 1 \in 1..MaxEvents
      BY <1>1 DEF TouchBegan, TypeOK, Pointers, TouchAssumption
    <3>. QED BY <3>1, SentMessage DEF TouchActions
  <2>. DEFINE q == <<Touch("down", nextPointer, sequence + 1)>>
  <2>2. q \in Seq(Message) /\ Len(q) = 1 /\ q[1] = Touch("down", nextPointer, sequence + 1)
    BY <2>1
  <2>3. ctl' = ctl \o q /\ tch' = tch /\ rev' = rev /\ nextPointer' = nextPointer + 1
    BY <1>1 DEF TouchBegan, Reliably
  <2>. HIDE DEF q
  <2>4. Sends(q)
    BY <2>2, <2>3 DEF Sends, Touch
  <2>. QED BY <2>2, <2>4
<1>2. ASSUME NEW p \in Pointers, TouchMoved(p) PROVE \E q \in Seq(Message) : Sends(q)
  <2>1. Touch("move", p, sequence + 1) \in Message
    <3>1. sequence + 1 \in 1..MaxEvents
      BY <1>2 DEF TouchMoved, TypeOK, TouchAssumption
    <3>. QED BY <3>1, SentMessage DEF TouchActions
  <2>2. Touch("move", p, sequence + 1).act # "down"
    BY DEF Touch
  <2>3. Quickly(Touch("move", p, sequence + 1)) /\ rev' = rev /\ nextPointer' = nextPointer
    BY <1>2 DEF TouchMoved
  <2>. QED BY <2>1, <2>2, <2>3, QuicklySends DEF Sends
<1>3. ASSUME NEW p \in Pointers, TouchEnded(p) PROVE \E q \in Seq(Message) : Sends(q)
  <2>1. PICK act \in {"up", "cancel"} : Reliably(<<Touch(act, p, sequence + 1)>>)
    BY <1>3 DEF TouchEnded
  <2>2. Touch(act, p, sequence + 1) \in Message
    <3>1. sequence + 1 \in 1..MaxEvents
      BY <1>3 DEF TouchEnded, TypeOK, TouchAssumption
    <3>. QED BY <3>1, SentMessage DEF TouchActions
  <2>. DEFINE q == <<Touch(act, p, sequence + 1)>>
  <2>3. q \in Seq(Message) /\ \A i \in 1..Len(q) : q[i].act # "down"
    BY <2>2 DEF Touch
  <2>4. ctl' = ctl \o q /\ tch' = tch /\ rev' = rev /\ nextPointer' = nextPointer
    BY <1>3, <2>1 DEF TouchEnded, Reliably
  <2>. HIDE DEF q
  <2>. QED BY <2>3, <2>4 DEF Sends
<1>4. CASE Rotate
  <2>1. PICK order \in [1..Cardinality(touching) -> touching] : Reliably(Cancels(order))
    BY <1>4 DEF Rotate, CancelTouches
  <2>2. Cancels(order) \in Seq(Message)
    BY <1>4, CancelsInSeq DEF Rotate
  <2>3. \A i \in 1..Len(Cancels(order)) : Cancels(order)[i].act # "down"
    <3>1. DOMAIN Cancels(order) = 1..Cardinality(touching)
      BY DEF Cancels
    <3>2. \A i \in 1..Cardinality(touching) : Cancels(order)[i].act = "cancel"
      BY DEF Cancels, Touch
    <3>3. DOMAIN Cancels(order) = 1..Len(Cancels(order))
      BY <2>2
    <3>. QED BY <3>1, <3>2, <3>3
  <2>4. ctl' = ctl \o Cancels(order) /\ tch' = tch /\ rev' = rev + 1 /\ nextPointer' = nextPointer
    BY <1>4, <2>1 DEF Rotate, Reliably
  <2>. QED BY <2>2, <2>3, <2>4 DEF Sends
<1>5. CASE Heartbeat
  <2>1. Plain("heartbeat") \in Message /\ Plain("heartbeat").act # "down"
    BY PlainMessage DEF Plain
  <2>2. Quickly(Plain("heartbeat")) /\ rev' = rev /\ nextPointer' = nextPointer
    BY <1>5 DEF Heartbeat, appVars
  <2>. QED BY <2>1, <2>2, QuicklySends DEF Sends
<1>6. CASE SendKey \/ Disconnect
  <2>1. PICK act \in {"key", "cancelAll"} : Reliably(<<Plain(act)>>)
    BY <1>6 DEF SendKey, Disconnect
  <2>. DEFINE q == <<Plain(act)>>
  <2>2. q \in Seq(Message) /\ \A i \in 1..Len(q) : q[i].act # "down"
    BY PlainMessage DEF Plain
  <2>3. ctl' = ctl \o q /\ tch' = tch /\ rev' = rev /\ nextPointer' = nextPointer
    BY <1>6, <2>1 DEF SendKey, Disconnect, Reliably
  <2>. HIDE DEF q
  <2>. QED BY <2>2, <2>3 DEF Sends
<1>7. CASE Vanish
  <2>1. ctl' = ctl \o << >> /\ << >> \in Seq(Message) /\ tch' = tch /\ rev' = rev /\ nextPointer' = nextPointer
    BY <1>7 DEF Vanish, netVars, TypeOK
  <2>2. Len(<< >>) = 0
    OBVIOUS
  <2>3. Sends(<< >>)
    BY <2>1, <2>2 DEF Sends
  <2>. QED BY <2>1, <2>3
<1>. QED BY <1>1, <1>2, <1>3, <1>4, <1>5, <1>6, <1>7 DEF AppStep

LEMMA RevisionStep ==
  ASSUME TouchAssumption, TypeOK, RevisionInv, [Next]_vars
  PROVE  RevisionInv' /\ screenRevision' >= screenRevision
<1>0. TypeOK'
  BY TypeStep
<1>1. CASE AppStep
  <2>0. screenRevision' = screenRevision /\ active' = active
    BY <1>1, AppStepLeavesRest DEF Rest, filterVars, contactVars
  <2>5. screenRevision' >= screenRevision
    BY <2>0 DEF TypeOK
  <2>1. PICK q \in Seq(Message) : Sends(q)
    BY <1>1, AppSends
  <2>2. \A m \in tch' : m.act # "down"
    BY <2>1 DEF Sends, RevisionInv
  <2>3. rev' \in Nat /\ rev <= rev'
    BY <2>1 DEF Sends, TypeOK
  <2>4. ctl' = ctl \o q /\ \A i \in 1..Len(q) : q[i].act = "down" => q[i].rev = rev /\ Len(q) = 1
    BY <2>1 DEF Sends
  <2>. QED BY <2>0, <2>2, <2>3, <2>4, <2>5, AppendRevision
<1>2. CASE DeliverControl
  <2>1. ctl \in Seq(Message) /\ ctl # << >> /\ ctl' = Tail(ctl) /\ tch' = tch /\ rev' = rev
    BY <1>2 DEF DeliverControl, TypeOK, appVars
  <2>2. Head(ctl) = ctl[1] /\ Head(ctl) \in Message /\ 1 \in 1..Len(ctl)
    BY <2>1
  <2>3. /\ screenRevision' = screenRevision \/ (ctl[1].act = "down" /\ screenRevision' = ctl[1].rev)
        /\ screenRevision' = 0 => active' = {}
    BY <1>2, <2>2, HandleRevision DEF DeliverControl
  <2>4. /\ Len(ctl') = Len(ctl) - 1
        /\ \A i \in 1..Len(ctl') : ctl'[i] = ctl[i + 1] /\ i + 1 \in 1..Len(ctl)
    BY <2>1
  <2>5. \A i \in 1..Len(ctl) : DownAt(i) => ctl[i].rev \in Nat
    BY <2>1, TouchMessage DEF DownAt, TouchActions
  <2>6. \A i \in 1..Len(ctl') : DownAt(i)' => DownAt(i + 1) /\ i + 1 \in 1..Len(ctl)
    BY <2>4 DEF DownAt
  <2>7. \A i \in 1..Len(ctl') : DownAt(i)' => screenRevision' <= ctl'[i].rev /\ ctl'[i].rev <= rev'
    <3>1. ASSUME NEW i \in 1..Len(ctl'), DownAt(i)'
          PROVE  screenRevision' <= ctl'[i].rev /\ ctl'[i].rev <= rev'
      <4>1. DownAt(i + 1) /\ i + 1 \in 1..Len(ctl) /\ ctl'[i] = ctl[i + 1]
        BY <2>4, <2>6, <3>1
      <4>2. ctl[1].act = "down" => ctl[1].rev <= ctl[i + 1].rev
        BY <2>2, <3>1, <4>1 DEF RevisionInv, DownAt
      <4>. QED BY <2>1, <2>3, <4>1, <4>2 DEF RevisionInv
    <3>. QED BY <3>1
  <2>8. \A i, j \in 1..Len(ctl') : DownAt(i)' /\ DownAt(j)' /\ i < j => ctl'[i].rev <= ctl'[j].rev
    <3>1. ASSUME NEW i \in 1..Len(ctl'), NEW j \in 1..Len(ctl'), DownAt(i)', DownAt(j)', i < j
          PROVE  ctl'[i].rev <= ctl'[j].rev
      <4>1. DownAt(i + 1) /\ i + 1 \in 1..Len(ctl) /\ DownAt(j + 1) /\ j + 1 \in 1..Len(ctl)
        BY <2>6, <3>1
      <4>2. ctl'[i] = ctl[i + 1] /\ ctl'[j] = ctl[j + 1] /\ i + 1 < j + 1
        BY <2>4, <3>1
      <4>. QED BY <4>1, <4>2 DEF RevisionInv
    <3>. QED BY <3>1
  <2>9. /\ ctl[1].act = "down" => ctl[1].rev \in Nat /\ screenRevision <= ctl[1].rev /\ ctl[1].rev <= rev
        /\ screenRevision \in Nat
    BY <2>2, <2>5 DEF RevisionInv, DownAt, TypeOK
  <2>. QED BY <2>1, <2>3, <2>7, <2>8, <2>9 DEF RevisionInv
<1>3. ASSUME NEW m \in tch, DeliverTouch(m) PROVE RevisionInv' /\ screenRevision' >= screenRevision
  <2>1. m \in Message /\ m.act # "down"
    BY <1>3 DEF TypeOK, RevisionInv
  <2>2. screenRevision' = screenRevision /\ (screenRevision' = 0 => active' = {})
    BY <1>3, <2>1, HandleRevision DEF DeliverTouch
  <2>3. ctl' = ctl /\ tch' \subseteq tch /\ rev' = rev /\ screenRevision \in Nat
    BY <1>3 DEF DeliverTouch, appVars, TypeOK
  <2>. QED BY <2>2, <2>3 DEF RevisionInv, DownAt
<1>4. ASSUME NEW c \in Channels, OnClose(c) PROVE RevisionInv' /\ screenRevision' >= screenRevision
  <2>1. screenRevision' = screenRevision /\ (screenRevision' = 0 => active' = {})
    BY <1>4, PlainMessage, HandleRevision DEF OnClose, Plain
  <2>2. ctl' = ctl /\ tch' = tch /\ rev' = rev /\ screenRevision \in Nat
    BY <1>4 DEF OnClose, appVars, netVars, TypeOK
  <2>. QED BY <2>1, <2>2 DEF RevisionInv, DownAt
<1>5. ASSUME NEW c \in Channels, ChannelEnds(c) PROVE RevisionInv' /\ screenRevision' >= screenRevision
  <2>1. screenRevision' = screenRevision /\ active' = active /\ rev' = rev /\ screenRevision \in Nat
    BY <1>5 DEF ChannelEnds, appVars, filterVars, contactVars, TypeOK
  <2>2. ctl' \in {ctl, << >>} /\ tch' \subseteq tch
    BY <1>5 DEF ChannelEnds
  <2>. QED BY <2>1, <2>2 DEF RevisionInv, DownAt
<1>6. CASE Watchdog \/ CloseCancels
  <2>1. active' \subseteq active /\ screenRevision' = screenRevision /\ rev' = rev
        /\ ctl' = ctl /\ tch' = tch /\ screenRevision \in Nat
    BY <1>6, CancelRevision DEF Watchdog, CloseCancels, appVars, netVars, filterVars, TypeOK
  <2>. QED BY <2>1 DEF RevisionInv, DownAt
<1>7. CASE TouchChannelOpens \/ Tick \/ ServeReturns \/ CloseSocket \/ UNCHANGED vars
  <2>1. active' = active /\ screenRevision' = screenRevision /\ rev' = rev
        /\ ctl' = ctl /\ tch' = tch /\ screenRevision \in Nat
    BY <1>7 DEF TouchChannelOpens, Tick, ServeReturns, CloseSocket, vars, appVars, netVars,
                filterVars, contactVars, TypeOK
  <2>. QED BY <2>1 DEF RevisionInv, DownAt
<1>. QED BY <1>1, <1>2, <1>3, <1>4, <1>5, <1>6, <1>7 DEF Next, AppStep

(* The revision of the session never goes back, although moves of an older *)
(* one arrive late on the channel without order (session.go:263-276).      *)
THEOREM RevisionFollows == Spec => RevisionNeverBack
<1>. USE TouchAssumption
<1>1. Init => RevisionInv
  BY DEF Init, RevisionInv, DownAt
<1>2. TypeOK /\ RevisionInv /\ [Next]_vars => RevisionInv' /\ screenRevision' >= screenRevision
  BY RevisionStep
<1>3. TypeOK /\ RevisionInv /\ [Next]_vars => [screenRevision' >= screenRevision]_vars
  BY <1>2
<1>. QED BY <1>1, <1>2, <1>3, TouchTypeCorrect, PTL DEF Spec, RevisionNeverBack

-----------------------------------------------------------------------------
(* Positions.  A pointer goes down once: the downs on their way are of new *)
(* and of different pointers, so what is accepted for a contact that is    *)
(* down is no down, and its sequence is above every accepted one.          *)
PositionInv ==
  /\ \A p \in Pointers : shown[p] <= lastSequence
  /\ \A p \in active : p < nextPointer
  /\ \A i \in 1..Len(ctl) : DownAt(i) => ctl[i].p \notin active /\ ctl[i].p < nextPointer
  /\ \A i, j \in 1..Len(ctl) : DownAt(i) /\ DownAt(j) /\ i < j => ctl[i].p < ctl[j].p

Down(m) == IF m.act = "down" THEN {m.p} ELSE {}

LEMMA HandlePosition ==
  ASSUME TypeOK, NEW m \in Message, Handle(m)
  PROVE  /\ active' \subseteq active \cup Down(m)
         /\ lastSequence' >= lastSequence
         /\ \A p \in Pointers :
              \/ shown'[p] = shown[p]
              \/ /\ shown'[p] <= lastSequence'
                 /\ p \in Down(m) \/ shown'[p] > lastSequence
<1>0. lastSequence \in Nat /\ shown \in [Pointers -> 0..MaxEvents]
  BY DEF TypeOK
<1>1. CASE m.act \notin TouchActions
  <2>1. active' \subseteq active /\ UNCHANGED <<filterVars, ghostVars>>
    BY <1>1, CancelRevision DEF Handle, contactVars
  <2>. QED BY <1>0, <2>1 DEF filterVars, ghostVars
<1>2. CASE RevisionFails(m)
  BY <1>0, <1>2, CancelRevision DEF RevisionFails, CancelAllLocked, filterVars, ghostVars
<1>3. CASE Refuse(m)
  BY <1>0, <1>3 DEF Refuse, ActiveFor, filterVars, ghostVars
<1>4. CASE m.act \in TouchActions /\ Accept(m)
  <2>1. m.p \in Pointers /\ m.seq \in Nat
    BY <1>4, TouchMessage
  <2>2. active' \subseteq active \cup Down(m)
    BY <1>4 DEF Accept, Remember, ActiveFor, Down
  <2>3. lastSequence' >= lastSequence /\ lastSequence' >= m.seq
    BY <1>0, <1>4, <2>1 DEF Accept
  <2>4. m.p \in Down(m) \/ m.seq > lastSequence
    BY <1>0, <1>4, <2>1 DEF Accept, Refused, Down
  <2>5. shown' = shown \/ shown' = [shown EXCEPT ![m.p] = m.seq]
    BY <1>4 DEF Accept, ghostVars
  <2>. QED BY <1>0, <2>1, <2>2, <2>3, <2>4, <2>5
<1>. QED BY <1>1, <1>2, <1>3, <1>4 DEF Handle, TouchActions

(* What a message does to the invariant, when the downs that stay on their *)
(* way are of other pointers.                                              *)
LEMMA PositionAfter ==
  ASSUME TypeOK, TypeOK', PositionInv, NEW m \in Message, Handle(m),
         UNCHANGED nextPointer,
         \A p \in Down(m) : p < nextPointer,
         \A i \in 1..Len(ctl') : DownAt(i)' => ctl'[i].p \notin active \cup Down(m)
                                              /\ ctl'[i].p < nextPointer,
         \A i, j \in 1..Len(ctl') : DownAt(i)' /\ DownAt(j)' /\ i < j => ctl'[i].p < ctl'[j].p
  PROVE  PositionInv'
<1>1. \A p \in Pointers : shown[p] \in Nat /\ shown'[p] \in Nat
  BY DEF TypeOK
<1>2. lastSequence \in Nat /\ lastSequence' \in Nat
  BY DEF TypeOK
<1>3. \A p \in Pointers : shown'[p] <= lastSequence'
  BY <1>1, <1>2, HandlePosition DEF PositionInv
<1>4. \A p \in active' : p < nextPointer'
  BY HandlePosition DEF PositionInv
<1>. QED BY <1>3, <1>4, HandlePosition DEF PositionInv

(* What a message that is no down of a contact does to what Android sees.  *)
LEMMA ShownAfter ==
  ASSUME TypeOK, TypeOK', PositionInv, NEW m \in Message, Handle(m)
  PROVE  \A p \in Pointers : shown'[p] >= shown[p] \/ p \in Down(m)
<1>1. \A p \in Pointers : shown[p] \in Nat /\ shown'[p] \in Nat
  BY DEF TypeOK
<1>2. lastSequence \in Nat
  BY DEF TypeOK
<1>. QED BY <1>1, <1>2, HandlePosition DEF PositionInv

LEMMA AppendPosition ==
  ASSUME TypeOK, PositionInv, NEW q \in Seq(Message), Sends(q), UNCHANGED Rest
  PROVE  PositionInv'
<1>1. ctl \in Seq(Message) /\ nextPointer \in Nat /\ nextPointer' \in Nat /\ nextPointer <= nextPointer'
  BY DEF TypeOK, Sends
<1>2. active' = active /\ \A p \in active' : p \in Nat /\ p < nextPointer
  BY DEF TypeOK, Pointers, Rest, contactVars, PositionInv
<1>3. Len(ctl') = Len(ctl) + Len(q) /\ Len(ctl) \in Nat /\ Len(q) \in Nat
  BY <1>1 DEF Sends
<1>4. \A i \in 1..Len(ctl') : ctl'[i] = IF i <= Len(ctl) THEN ctl[i] ELSE q[i - Len(ctl)]
  BY <1>1 DEF Sends
<1>5. \A i \in 1..Len(ctl) : DownAt(i) => ctl[i].p \in Nat
  BY <1>1, TouchMessage DEF DownAt, TouchActions, Pointers
<1>6. ASSUME NEW i \in 1..Len(ctl'), DownAt(i)'
      PROVE  \/ i \in 1..Len(ctl) /\ DownAt(i) /\ ctl'[i] = ctl[i]
             \/ i = Len(ctl) + 1 /\ i = Len(ctl') /\ ctl'[i].p = nextPointer /\ nextPointer' = nextPointer + 1
  <2>1. CASE i <= Len(ctl)
    BY <1>3, <1>4, <1>6, <2>1 DEF DownAt
  <2>2. CASE i > Len(ctl)
    <3>1. i - Len(ctl) \in 1..Len(q) /\ ctl'[i] = q[i - Len(ctl)] /\ q[i - Len(ctl)].act = "down"
      BY <1>3, <1>4, <1>6, <2>2 DEF DownAt
    <3>2. Len(q) = 1 /\ q[1].p = nextPointer /\ nextPointer' = nextPointer + 1
      BY <3>1 DEF Sends
    <3>3. i = Len(ctl) + 1
      BY <1>3, <2>2, <3>1, <3>2
    <3>. QED BY <1>3, <3>1, <3>2, <3>3
  <2>. QED BY <1>3, <2>1, <2>2
<1>7. \A i \in 1..Len(ctl') : DownAt(i)' => ctl'[i].p \notin active' /\ ctl'[i].p < nextPointer'
  BY <1>1, <1>2, <1>5, <1>6 DEF PositionInv
<1>8. \A i, j \in 1..Len(ctl') : DownAt(i)' /\ DownAt(j)' /\ i < j => ctl'[i].p < ctl'[j].p
  BY <1>1, <1>3, <1>5, <1>6 DEF PositionInv
<1>9. \A p \in Pointers : shown'[p] <= lastSequence'
  BY DEF Rest, ghostVars, filterVars, PositionInv
<1>10. \A p \in active' : p < nextPointer'
  BY <1>1, <1>2
<1>. QED BY <1>7, <1>8, <1>9, <1>10 DEF PositionInv

LEMMA FewerPosition ==
  ASSUME TypeOK, PositionInv, ctl' \in {ctl, << >>}, active' \subseteq active,
         UNCHANGED <<nextPointer, lastSequence, shown>>
  PROVE  PositionInv'
  BY DEF PositionInv, DownAt

LEMMA PositionStep ==
  ASSUME TouchAssumption, TypeOK, RevisionInv, ContactInv, PositionInv, [Next]_vars
  PROVE  /\ PositionInv'
         /\ \A p \in pressed \cap pressed' : shown'[p] >= shown[p]
<1>0. TypeOK'
  BY TypeStep
<1>. DEFINE Kept == \A p \in pressed \cap pressed' : shown'[p] >= shown[p]
<1>1. pressed \subseteq active /\ active \subseteq Pointers
  BY DEF ContactInv, NoForgottenContact, TypeOK
<1>2. ASSUME UNCHANGED shown PROVE Kept
  <2>1. \A p \in Pointers : shown'[p] \in Nat /\ shown'[p] = shown[p]
    BY <1>2, <1>0 DEF TypeOK
  <2>. QED BY <1>1, <2>1
<1>3. CASE AppStep
  BY <1>2, <1>3, AppStepLeavesRest, AppSends, AppendPosition DEF Rest, ghostVars
<1>4. CASE DeliverControl
  <2>1. ctl \in Seq(Message) /\ ctl # << >> /\ ctl' = Tail(ctl) /\ nextPointer' = nextPointer
    BY <1>4 DEF DeliverControl, TypeOK, appVars
  <2>2. Head(ctl) = ctl[1] /\ ctl[1] \in Message /\ 1 \in 1..Len(ctl)
    BY <2>1
  <2>3. Handle(ctl[1])
    BY <1>4, <2>2 DEF DeliverControl
  <2>4. \A p \in Down(ctl[1]) : p \notin active /\ p < nextPointer
    BY <2>2 DEF Down, DownAt, PositionInv
  <2>5. \A i \in 1..Len(ctl') : ctl'[i] = ctl[i + 1] /\ i + 1 \in 2..Len(ctl)
    BY <2>1
  <2>6. ASSUME NEW i \in 1..Len(ctl'), DownAt(i)'
        PROVE  DownAt(i + 1) /\ i + 1 \in 2..Len(ctl) /\ ctl'[i] = ctl[i + 1] /\ ctl[i + 1].p \in Nat
    <3>1. DownAt(i + 1) /\ ctl[i + 1] \in Message
      BY <2>1, <2>5, <2>6 DEF DownAt
    <3>2. ctl[i + 1].p \in Nat
      BY <3>1, TouchMessage DEF DownAt, TouchActions, Pointers
    <3>. QED BY <2>5, <3>1, <3>2
  <2>7. ASSUME NEW i \in 1..Len(ctl'), DownAt(i)'
        PROVE  ctl'[i].p \notin active \cup Down(ctl[1]) /\ ctl'[i].p < nextPointer
    <3>1. ctl[1].act = "down" => ctl[1].p < ctl[i + 1].p
      BY <2>2, <2>6, <2>7 DEF PositionInv, DownAt
    <3>2. ctl[1].act = "down" => ctl[1].p # ctl[i + 1].p
      BY <2>6, <2>7, <3>1
    <3>. QED BY <2>6, <2>7, <3>2 DEF PositionInv, Down
  <2>8. ASSUME NEW i \in 1..Len(ctl'), NEW j \in 1..Len(ctl'), DownAt(i)', DownAt(j)', i < j
        PROVE  ctl'[i].p < ctl'[j].p
    <3>1. i + 1 < j + 1
      BY <2>8
    <3>. QED BY <2>6, <2>8, <3>1 DEF PositionInv
  <2>9. PositionInv'
    BY <1>0, <2>1, <2>2, <2>3, <2>4, <2>7, <2>8, PositionAfter
  <2>10. Kept
    BY <1>0, <1>1, <2>2, <2>3, <2>4, ShownAfter
  <2>. QED BY <2>9, <2>10
<1>5. ASSUME NEW m \in Message, m.act # "down", Handle(m), UNCHANGED <<ctl, nextPointer>>
      PROVE  PositionInv' /\ Kept
  <2>1. Down(m) = {}
    BY <1>5 DEF Down
  <2>2. PositionInv'
    BY <1>0, <1>5, <2>1, PositionAfter DEF PositionInv, DownAt
  <2>3. Kept
    BY <1>0, <1>1, <1>5, <2>1, ShownAfter
  <2>. QED BY <2>2, <2>3
<1>6. ASSUME NEW m \in tch, DeliverTouch(m) PROVE PositionInv' /\ Kept
  BY <1>5, <1>6 DEF DeliverTouch, appVars, TypeOK, RevisionInv
<1>7. ASSUME NEW c \in Channels, OnClose(c) PROVE PositionInv' /\ Kept
  <2>1. Plain("cancelAll") \in Message /\ Plain("cancelAll").act # "down"
    BY PlainMessage DEF Plain
  <2>. QED BY <1>5, <1>7, <2>1 DEF OnClose, appVars, netVars
<1>8. ASSUME NEW c \in Channels, ChannelEnds(c) PROVE PositionInv' /\ Kept
  BY <1>2, <1>8, FewerPosition DEF ChannelEnds, appVars, filterVars, contactVars, ghostVars
<1>9. CASE Watchdog \/ CloseCancels
  BY <1>2, <1>9, CancelRevision, FewerPosition
     DEF Watchdog, CloseCancels, appVars, netVars, filterVars, ghostVars
<1>10. CASE TouchChannelOpens \/ Tick \/ ServeReturns \/ CloseSocket \/ UNCHANGED vars
  BY <1>2, <1>10, FewerPosition
     DEF TouchChannelOpens, Tick, ServeReturns, CloseSocket, vars, appVars, netVars,
         filterVars, contactVars, ghostVars
<1>. QED BY <1>3, <1>4, <1>6, <1>7, <1>8, <1>9, <1>10 DEF Next, AppStep

(* While a contact is down, the positions Android sees of it never go back *)
(* in time, although touch.v1 reorders moves (session.go:273, 277).        *)
THEOREM PositionsNeverBack == Spec => PositionNeverBack
<1>. USE TouchAssumption
<1>1. Init => RevisionInv /\ PositionInv
  BY DEF Init, RevisionInv, PositionInv, DownAt
<1>2. TypeOK /\ RevisionInv /\ ContactInv /\ PositionInv /\ [Next]_vars =>
        /\ RevisionInv' /\ PositionInv'
        /\ [\A p \in pressed \cap pressed' : shown'[p] >= shown[p]]_vars
  BY RevisionStep, PositionStep
<1>. QED BY <1>1, <1>2, TouchTypeCorrect, ContactInvHolds, PTL DEF Spec, PositionNeverBack
=============================================================================
