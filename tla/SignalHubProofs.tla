--------------------------- MODULE SignalHubProofs ---------------------------
(***************************************************************************)
(* Proofs about SignalHub for every set of sessions and of peers, every    *)
(* capacity and every number of messages.                                  *)
(***************************************************************************)
EXTENDS SignalHub, SequenceTheorems, TLAPS

(* What the other invariants need to be inductive: a Peer value that Join  *)
(* has not made yet was never touched, one that was made has a session.    *)
NewIsBlank ==
  \A p \in Peers :
    /\ status[p] = "new" => /\ inbox[p] = << >>
                            /\ read[p] = 0
                            /\ ~done[p]
    /\ status[p] = "new" <=> at[p] = NoSession

(* Slots, rooms, and who was told.                                         *)
SlotInv ==
  /\ TypeOK
  /\ NewIsBlank
  /\ NoLeakedRoom
  /\ SlotsAreLive
  /\ EvictedIsTold

(* The queues, on top of the slots.                                        *)
QueueInv ==
  /\ WaitOnlyForAbsent
  /\ WithinCaps
  /\ NeverHung
  /\ DeliveredInOrder
  /\ NoCrossTalk

HubInv == SlotInv /\ QueueInv

-----------------------------------------------------------------------------
LEMMA RoleFacts ==
  /\ \A p \in Peers : RoleOf(p) \in Roles
  /\ \A r \in Roles : Other(r) \in Roles /\ Other(r) # r /\ Other(Other(r)) = r
  /\ \A r, t \in Roles : t # r => t = Other(r)
  BY DEF Roles, RoleOf, Other

LEMMA EmptyRoomFacts ==
  /\ EmptyRoom \in [Roles -> Peers \cup {NoPeer}]
  /\ NoMail \in [Roles -> Seq(Message)]
  /\ \A r \in Roles : EmptyRoom[r] = NoPeer /\ NoMail[r] = << >>
  BY DEF EmptyRoom, NoMail

(* The invariant of the slots holds initially ...                          *)
LEMMA SlotInit == Init => SlotInv
<1> SUFFICES ASSUME Init PROVE SlotInv
  OBVIOUS
<1> USE DEF Init
<1>1. TypeOK
  <2>1. /\ member \in [Sessions -> [Roles -> Peers \cup {NoPeer}]]
        /\ pending \in [Sessions -> [Roles -> Seq(Message)]]
    BY EmptyRoomFacts
  <2>2. inbox \in [Peers -> Seq(Message)]
    OBVIOUS
  <2> QED
    BY <2>1, <2>2 DEF TypeOK
<1>2. NewIsBlank
  BY DEF NewIsBlank
<1>3. NoLeakedRoom /\ SlotsAreLive
  BY EmptyRoomFacts DEF NoLeakedRoom, SlotsAreLive
<1>4. EvictedIsTold
  BY DEF EvictedIsTold
<1> QED
  BY <1>1, <1>2, <1>3, <1>4 DEF SlotInv

LEMMA TypeStep == TypeOK /\ [Next]_vars => TypeOK'
<1> SUFFICES ASSUME TypeOK, [Next]_vars PROVE TypeOK'
  OBVIOUS
<1> USE RoleFacts, EmptyRoomFacts DEF TypeOK
<1>1. ASSUME NEW p \in Peers, NEW s \in Sessions, Join(p, s) PROVE TypeOK'
  <2>1. pending[s][Other(RoleOf(p))] \in Seq(Message)
    OBVIOUS
  <2>2. member' \in [Sessions -> [Roles -> Peers \cup {NoPeer}]]
    BY <1>1 DEF Join, Flushed
  <2>3. pending' \in [Sessions -> [Roles -> Seq(Message)]]
    BY <1>1 DEF Join, Flushed
  <2>4. inbox' \in [Peers -> Seq(Message)]
    BY <1>1, <2>1 DEF Join, Flushed
  <2>5. hung' \in BOOLEAN /\ rooms' \subseteq Sessions
    BY <1>1 DEF Join, Flushed
  <2>6. /\ status' \in [Peers -> {"new", "joined", "left"}]
        /\ at' \in [Peers -> Sessions \cup {NoSession}]
    BY <1>1 DEF Join, Flushed
  <2> QED
    BY <1>1, <2>2, <2>3, <2>4, <2>5, <2>6 DEF Join, Flushed
<1>2. ASSUME NEW p \in Peers, ForwardQueue(p) PROVE TypeOK'
  <2>1. Stamped(p) \in Message
    BY DEF Stamped, Message
  <2>2. at[p] \in Sessions
    BY <1>2 DEF ForwardQueue, Queueable
  <2>3. Append(pending[at[p]][RoleOf(p)], Stamped(p)) \in Seq(Message)
    BY <2>1, <2>2
  <2>4. pending' \in [Sessions -> [Roles -> Seq(Message)]]
    BY <1>2, <2>2, <2>3 DEF ForwardQueue
  <2> QED
    BY <1>2, <2>4 DEF ForwardQueue, Sending, peerVars
<1>3. ASSUME NEW p \in Peers, ForwardDeliver(p) PROVE TypeOK'
  <2>1. Stamped(p) \in Message
    BY DEF Stamped, Message
  <2>2. at[p] \in Sessions /\ Receiver(p) \in Peers
    BY <1>3 DEF ForwardDeliver, Deliverable, Receiver
  <2>3. Append(inbox[Receiver(p)], Stamped(p)) \in Seq(Message)
    BY <2>1, <2>2
  <2>4. inbox' \in [Peers -> Seq(Message)]
    BY <1>3, <2>2, <2>3 DEF ForwardDeliver
  <2> QED
    BY <1>3, <2>4 DEF ForwardDeliver, Sending, roomVars
<1>4. ASSUME NEW p \in Peers, ForwardDrop(p) PROVE TypeOK'
  BY <1>4 DEF ForwardDrop, Sending, roomVars, peerVars
<1>5. ASSUME NEW p \in Peers, LeaveRoom(p) PROVE TypeOK'
  <2>1. at[p] \in Sessions
    BY <1>5 DEF LeaveRoom, WithoutPeer, Emptied
  <2>2. member' \in [Sessions -> [Roles -> Peers \cup {NoPeer}]]
    BY <1>5, <2>1 DEF LeaveRoom, WithoutPeer, Emptied
  <2>3. pending' \in [Sessions -> [Roles -> Seq(Message)]]
    BY <1>5, <2>1 DEF LeaveRoom, WithoutPeer, Emptied
  <2> QED
    BY <1>5, <2>2, <2>3 DEF LeaveRoom, WithoutPeer, Emptied
<1>6. ASSUME NEW p \in Peers, LeaveGone(p) PROVE TypeOK'
  BY <1>6 DEF LeaveGone, roomVars
<1>7. ASSUME NEW s \in Sessions, CloseSession(s) PROVE TypeOK'
  BY <1>7 DEF CloseSession
<1>8. ASSUME NEW p \in Peers, Receive(p) PROVE TypeOK'
  <2>1. Head(inbox[p]) \in Message /\ Tail(inbox[p]) \in Seq(Message)
    BY <1>8 DEF Receive
  <2>2. Head(inbox[p]).n \in Nat
    BY <2>1 DEF Message
  <2> QED
    BY <1>8, <2>1, <2>2 DEF Receive, roomVars
<1>9. CASE UNCHANGED vars
  BY <1>9 DEF vars, roomVars, peerVars
<1> QED
  BY <1>1, <1>2, <1>3, <1>4, <1>5, <1>6, <1>7, <1>8, <1>9 DEF Next

(* ... and every operation preserves it.                                   *)
LEMMA SlotStep == SlotInv /\ [Next]_vars => SlotInv'
<1> SUFFICES ASSUME SlotInv, [Next]_vars PROVE SlotInv'
  OBVIOUS
<1>t. TypeOK'
  BY TypeStep DEF SlotInv
<1> USE RoleFacts, EmptyRoomFacts, NilAssumption DEF SlotInv, TypeOK
<1>1. ASSUME NEW p \in Peers, NEW s \in Sessions, Join(p, s) PROVE SlotInv'
  <2> USE <1>1 DEF Join, Flushed
  <2>1. NewIsBlank'
    BY DEF NewIsBlank
  <2>2. NoLeakedRoom'
    <3>1. member'[s][RoleOf(p)] = p /\ p # NoPeer
      OBVIOUS
    <3>2. \A t \in Sessions : t # s => member'[t] = member[t]
      OBVIOUS
    <3> QED
      BY <3>1, <3>2 DEF NoLeakedRoom
  <2>3. SlotsAreLive'
    <3> SUFFICES ASSUME NEW t \in Sessions, NEW r \in Roles, member'[t][r] # NoPeer
                 PROVE  /\ member'[t][r] \in Peers
                        /\ RoleOf(member'[t][r]) = r
                        /\ at'[member'[t][r]] = t
                        /\ status'[member'[t][r]] = "joined"
                        /\ ~done'[member'[t][r]]
      BY DEF SlotsAreLive
    <3>1. CASE t = s /\ r = RoleOf(p)
      BY <3>1 DEF NewIsBlank
    <3>2. CASE ~(t = s /\ r = RoleOf(p))
      <4>1. member'[t][r] = member[t][r]
        BY <3>2
      <4>2. status[member[t][r]] = "joined"
        BY <4>1 DEF SlotsAreLive
      <4>3. member[t][r] # p
        BY <4>2
      <4> QED
        BY <4>1, <4>3 DEF SlotsAreLive
    <3> QED
      BY <3>1, <3>2
  <2>4. EvictedIsTold'
    <3> SUFFICES ASSUME NEW q \in Peers, status'[q] # "new", ~done'[q]
                 PROVE  member'[at'[q]][RoleOf(q)] = q
      BY DEF EvictedIsTold
    <3>1. CASE q = p
      BY <3>1
    <3>2. CASE q # p
      <4>1. member[at[q]][RoleOf(q)] = q /\ at[q] \in Sessions
        BY <3>2 DEF EvictedIsTold, NewIsBlank
      <4>2. ~(at[q] = s /\ RoleOf(q) = RoleOf(p))
        BY <4>1
      <4> QED
        BY <3>2, <4>1, <4>2
    <3> QED
      BY <3>1, <3>2
  <2> QED
    BY <1>t, <2>1, <2>2, <2>3, <2>4
<1>2. ASSUME NEW p \in Peers, LeaveRoom(p) PROVE SlotInv'
  <2> DEFINE s == at[p]
             rest == [r \in Roles |-> IF member[s][r] = p THEN NoPeer ELSE member[s][r]]
  <2>0. /\ s \in Sessions /\ p # NoPeer
        /\ \A t \in Sessions, r \in Roles :
             member'[t][r] = IF t = s /\ member[t][r] = p THEN NoPeer ELSE member[t][r]
        /\ \A t \in Sessions : t # s => member'[t] = member[t]
        /\ member'[s] = rest
    <3>1. s \in Sessions /\ p # NoPeer
      BY <1>2 DEF LeaveRoom, WithoutPeer, Emptied
    <3>2. member' = [member EXCEPT ![s] = rest]
      BY <1>2 DEF LeaveRoom, WithoutPeer, Emptied
    <3>3. /\ \A t \in Sessions : t # s => member'[t] = member[t]
          /\ member'[s] = rest
      BY <3>1, <3>2
    <3>4. ASSUME NEW t \in Sessions, NEW r \in Roles
          PROVE  member'[t][r] = IF t = s /\ member[t][r] = p THEN NoPeer ELSE member[t][r]
      BY <3>3
    <3> HIDE DEF s, rest
    <3> QED
      BY <3>1, <3>3, <3>4
  <2>1. NewIsBlank'
    BY <1>2 DEF NewIsBlank, LeaveRoom, WithoutPeer, Emptied
  <2>2. NoLeakedRoom'
    BY <1>2, <2>0 DEF NoLeakedRoom, LeaveRoom, WithoutPeer, Emptied
  <2>3. SlotsAreLive'
    <3> SUFFICES ASSUME NEW t \in Sessions, NEW r \in Roles, member'[t][r] # NoPeer
                 PROVE  /\ member'[t][r] \in Peers
                        /\ RoleOf(member'[t][r]) = r
                        /\ at'[member'[t][r]] = t
                        /\ status'[member'[t][r]] = "joined"
                        /\ ~done'[member'[t][r]]
      BY DEF SlotsAreLive
    <3>1. member'[t][r] = member[t][r] /\ ~(t = s /\ member[t][r] = p)
      BY <2>0
    <3>2. member[t][r] # p
      BY <3>1 DEF SlotsAreLive
    <3> QED
      BY <1>2, <3>1, <3>2 DEF SlotsAreLive, LeaveRoom, WithoutPeer, Emptied
  <2>4. EvictedIsTold'
    <3> SUFFICES ASSUME NEW q \in Peers, status'[q] # "new", ~done'[q]
                 PROVE  member'[at'[q]][RoleOf(q)] = q
      BY DEF EvictedIsTold
    <3>1. q # p /\ status[q] # "new" /\ ~done[q] /\ at'[q] = at[q]
      BY <1>2 DEF LeaveRoom, WithoutPeer, Emptied
    <3> QED
      BY <2>0, <3>1 DEF EvictedIsTold, NewIsBlank
  <2> QED
    BY <1>t, <2>1, <2>2, <2>3, <2>4
<1>3. ASSUME NEW p \in Peers, LeaveGone(p) PROVE SlotInv'
  <2> USE <1>3 DEF LeaveGone, roomVars
  <2>1. NewIsBlank'
    BY DEF NewIsBlank
  <2>2. NoLeakedRoom'
    BY DEF NoLeakedRoom
  <2>3. SlotsAreLive'
    <3>1. \A t \in Sessions, r \in Roles : member[t][r] = p => t = at[p] /\ t \in rooms
      BY DEF SlotsAreLive, NoLeakedRoom
    <3> QED
      BY <3>1 DEF SlotsAreLive
  <2>4. EvictedIsTold'
    BY DEF EvictedIsTold
  <2> QED
    BY <1>t, <2>1, <2>2, <2>3, <2>4
<1>4. ASSUME NEW s \in Sessions, CloseSession(s) PROVE SlotInv'
  <2> USE <1>4 DEF CloseSession
  <2>0. /\ \A t \in Sessions : t # s => member'[t] = member[t]
        /\ member'[s] = EmptyRoom
        /\ \A p \in Peers : done'[p] <=> (done[p] \/ \E r \in Roles : member[s][r] = p)
    BY DEF Occupants
  <2>1. NewIsBlank'
    <3>1. \A p \in Peers, r \in Roles : member[s][r] = p => status[p] = "joined"
      BY DEF SlotsAreLive
    <3> QED
      BY <2>0, <3>1 DEF NewIsBlank
  <2>2. NoLeakedRoom'
    BY <2>0 DEF NoLeakedRoom
  <2>3. SlotsAreLive'
    BY <2>0 DEF SlotsAreLive
  <2>4. EvictedIsTold'
    <3> SUFFICES ASSUME NEW q \in Peers, status'[q] # "new", ~done'[q]
                 PROVE  member'[at'[q]][RoleOf(q)] = q
      BY DEF EvictedIsTold
    <3>1. status[q] # "new" /\ ~done[q] /\ \A r \in Roles : member[s][r] # q
      BY <2>0
    <3>2. member[at[q]][RoleOf(q)] = q /\ at[q] \in Sessions
      BY <3>1 DEF EvictedIsTold, NewIsBlank
    <3> QED
      BY <2>0, <3>1, <3>2
  <2> QED
    BY <1>t, <2>1, <2>2, <2>3, <2>4
<1>5. ASSUME UNCHANGED <<rooms, member, done, status, at>>,
             \A p \in Peers : status[p] = "new" => inbox'[p] = << >> /\ read'[p] = 0
      PROVE  SlotInv'
  <2>1. NewIsBlank'
    BY <1>5 DEF NewIsBlank
  <2>2. NoLeakedRoom' /\ SlotsAreLive' /\ EvictedIsTold'
    BY <1>5 DEF NoLeakedRoom, SlotsAreLive, EvictedIsTold
  <2> QED
    BY <1>t, <2>1, <2>2
<1>6. ASSUME NEW p \in Peers, ForwardQueue(p) PROVE SlotInv'
  BY <1>5, <1>6 DEF ForwardQueue, peerVars, NewIsBlank
<1>7. ASSUME NEW p \in Peers, ForwardDeliver(p) PROVE SlotInv'
  <2>1. at[p] \in Sessions /\ Receiver(p) \in Peers /\ status[Receiver(p)] = "joined"
    BY <1>7 DEF ForwardDeliver, Deliverable, Receiver, SlotsAreLive
  <2>2. \A q \in Peers : status[q] = "new" => inbox'[q] = << >> /\ read'[q] = 0
    BY <1>7, <2>1 DEF ForwardDeliver, NewIsBlank
  <2> QED
    BY <1>5, <1>7, <2>2 DEF ForwardDeliver, roomVars
<1>8. ASSUME NEW p \in Peers, ForwardDrop(p) PROVE SlotInv'
  BY <1>5, <1>8 DEF ForwardDrop, roomVars, peerVars, NewIsBlank
<1>9. ASSUME NEW p \in Peers, Receive(p) PROVE SlotInv'
  <2>1. status[p] # "new"
    BY <1>9 DEF Receive, NewIsBlank
  <2>2. \A q \in Peers : status[q] = "new" => inbox'[q] = << >> /\ read'[q] = 0
    BY <1>9, <2>1 DEF Receive, NewIsBlank
  <2> QED
    BY <1>5, <1>9, <2>2 DEF Receive, roomVars
<1>10. CASE UNCHANGED vars
  BY <1>5, <1>10 DEF vars, roomVars, peerVars, NewIsBlank
<1> QED
  BY <1>1, <1>2, <1>3, <1>4, <1>6, <1>7, <1>8, <1>9, <1>10 DEF Next

-----------------------------------------------------------------------------
(* Lemmas about stamped queues.                                            *)
LEMMA MessageFields ==
  ASSUME NEW q \in Seq(Message)
  PROVE  \A i \in 1..Len(q) : q[i].n \in Nat /\ q[i].from \in Peers
<1>1. \A i \in 1..Len(q) : q[i] \in Message
  BY ElementOfSeq
<1>2. \A m \in Message : m.n \in Nat /\ m.from \in Peers
  BY DEF Message
<1> QED
  BY <1>1, <1>2

LEMMA OrderedEmpty ==
  ASSUME NEW lo \in Nat, NEW hi \in Nat, lo <= hi
  PROVE  Ordered(<< >>, lo, hi)
  BY DEF Ordered

LEMMA OrderedWiden ==
  ASSUME NEW q \in Seq(Message), NEW lo \in Nat, NEW hi \in Nat, NEW top \in Nat,
         Ordered(q, lo, hi), hi <= top
  PROVE  Ordered(q, lo, top)
<1>1. \A i \in 1..Len(q) : q[i].n \in Nat
  BY MessageFields
<1> QED
  BY <1>1 DEF Ordered

LEMMA OrderedAppend ==
  ASSUME NEW q \in Seq(Message), NEW lo \in Nat, NEW hi \in Nat, NEW m \in Message,
         Ordered(q, lo, hi), hi < m.n
  PROVE  Ordered(Append(q, m), lo, m.n)
<1> DEFINE a == Append(q, m)
<1>1. /\ Len(a) = Len(q) + 1 /\ Len(q) \in Nat
      /\ a[Len(q) + 1] = m
      /\ \A i \in 1..Len(q) : a[i] = q[i]
  BY AppendProperties
<1>2. m.n \in Nat /\ \A i \in 1..Len(q) : q[i].n \in Nat
  BY MessageFields DEF Message
<1>3. \A i \in 1..Len(q) : lo < a[i].n /\ a[i].n <= hi
  BY <1>1 DEF Ordered
<1>4. \A i \in 1..Len(a) : i \in 1..Len(q) \/ i = Len(q) + 1
  BY <1>1
<1>5. \A i \in 1..Len(a) : lo < a[i].n /\ a[i].n <= m.n
  BY <1>1, <1>2, <1>3, <1>4 DEF Ordered
<1>6. ASSUME NEW i \in 1..Len(a), NEW j \in 1..Len(a), i < j PROVE a[i].n < a[j].n
  <2>1. i \in 1..Len(q)
    BY <1>1, <1>6
  <2>2. CASE j \in 1..Len(q)
    BY <1>1, <1>6, <2>1, <2>2 DEF Ordered
  <2>3. CASE j = Len(q) + 1
    BY <1>1, <1>2, <1>3, <2>1, <2>3
  <2> QED
    BY <1>4, <2>2, <2>3
<1>7. lo <= m.n
  BY <1>2 DEF Ordered
<1> HIDE DEF a
<1>8. Ordered(a, lo, m.n)
  BY <1>5, <1>6, <1>7 DEF Ordered
<1> QED
  BY <1>8 DEF a

LEMMA OrderedTail ==
  ASSUME NEW q \in Seq(Message), NEW lo \in Nat, NEW hi \in Nat,
         Ordered(q, lo, hi), q # << >>
  PROVE  Ordered(Tail(q), Head(q).n, hi)
<1> DEFINE t == Tail(q)
<1>1. /\ Len(q) \in Nat /\ Len(q) > 0 /\ Len(t) = Len(q) - 1
      /\ Head(q) = q[1]
      /\ \A i \in 1..Len(t) : t[i] = q[i + 1] /\ i + 1 \in 1..Len(q)
  BY HeadTailProperties, EmptySeq
<1>2. \A i \in 1..Len(q) : q[i].n \in Nat
  BY MessageFields
<1>3. q[1].n <= hi
  BY <1>1 DEF Ordered
<1>4. \A i \in 1..Len(t) : q[1].n < t[i].n /\ t[i].n <= hi
  BY <1>1 DEF Ordered
<1>5. \A i, j \in 1..Len(t) : i < j => t[i].n < t[j].n
  BY <1>1 DEF Ordered
<1> HIDE DEF t
<1>6. Ordered(t, q[1].n, hi)
  BY <1>3, <1>4, <1>5 DEF Ordered
<1> QED
  BY <1>1, <1>6 DEF t

(* Lemmas about who sent what lies in a queue.                             *)
LEMMA SentByAppend ==
  ASSUME NEW q \in Seq(Message), NEW s, NEW r, NEW m \in Message, SentBy(q, s, r),
         status[m.from] # "new", at[m.from] = s, RoleOf(m.from) = r
  PROVE  SentBy(Append(q, m), s, r)
<1> DEFINE a == Append(q, m)
<1>1. /\ Len(a) = Len(q) + 1 /\ Len(q) \in Nat
      /\ a[Len(q) + 1] = m
      /\ \A i \in 1..Len(q) : a[i] = q[i]
  BY AppendProperties
<1>2. \A i \in 1..Len(a) : i \in 1..Len(q) \/ i = Len(q) + 1
  BY <1>1
<1> HIDE DEF a
<1>3. SentBy(a, s, r)
  BY <1>1, <1>2 DEF SentBy
<1> QED
  BY <1>3 DEF a

LEMMA SentByTail ==
  ASSUME NEW q \in Seq(Message), NEW s, NEW r, SentBy(q, s, r), q # << >>
  PROVE  SentBy(Tail(q), s, r)
<1> DEFINE t == Tail(q)
<1>1. \A i \in 1..Len(t) : t[i] = q[i + 1] /\ i + 1 \in 1..Len(q)
  BY HeadTailProperties, EmptySeq
<1> HIDE DEF t
<1>2. SentBy(t, s, r)
  BY <1>1 DEF SentBy
<1> QED
  BY <1>2 DEF t

(* SentBy after the step, of a queue as it is before it.                   *)
SentByNext(q, s, r) ==
  \A i \in 1..Len(q) :
    LET p == q[i].from
    IN status'[p] # "new" /\ at'[p] = s /\ RoleOf(p) = r

(* What is true of the senders stays true as long as no peer that sent     *)
(* changes its session or becomes new again.                               *)
SendersStay == \A p \in Peers : status[p] # "new" => status'[p] # "new" /\ at'[p] = at[p]

LEMMA SentByStable ==
  ASSUME NEW q \in Seq(Message), NEW s, NEW r, SentBy(q, s, r), SendersStay
  PROVE  SentByNext(q, s, r)
  BY MessageFields DEF SentBy, SentByNext, SendersStay

LEMMA CrossTalkNext ==
  ASSUME \A p \in Peers : SentByNext(inbox'[p], at'[p], Other(RoleOf(p))),
         \A s \in Sessions, r \in Roles : SentByNext(pending'[s][r], s, r)
  PROVE  NoCrossTalk'
  BY DEF NoCrossTalk, SentBy, SentByNext

-----------------------------------------------------------------------------
LEMMA CrossTalkFrame ==
  ASSUME UNCHANGED <<status, at>>,
         \A p \in Peers : SentBy(inbox'[p], at[p], Other(RoleOf(p))),
         \A s \in Sessions, r \in Roles : SentBy(pending'[s][r], s, r)
  PROVE  NoCrossTalk'
  BY DEF NoCrossTalk, SentBy

LEMMA QueueInit == Init => QueueInv
<1> SUFFICES ASSUME Init PROVE QueueInv
  OBVIOUS
<1> USE EmptyRoomFacts, CapAssumption DEF Init
<1>1. WaitOnlyForAbsent /\ WithinCaps /\ NeverHung
  BY DEF WaitOnlyForAbsent, WithinCaps, NeverHung
<1>2. DeliveredInOrder
  BY OrderedEmpty DEF DeliveredInOrder
<1>3. NoCrossTalk
  BY DEF NoCrossTalk, SentBy
<1> QED
  BY <1>1, <1>2, <1>3 DEF QueueInv

(* A joining peer empties the queue that waited for its slot into its      *)
(* channel, which is large enough for it.                                  *)
LEMMA JoinQueues ==
  ASSUME HubInv, NEW p \in Peers, NEW s \in Sessions, Join(p, s)
  PROVE  QueueInv'
<1> DEFINE r == RoleOf(p)
           flush == pending[s][Other(r)]
<1> USE RoleFacts, NilAssumption, CapAssumption DEF HubInv, SlotInv, TypeOK
<1>1. /\ r \in Roles /\ Other(r) \in Roles
      /\ \A t \in Sessions, x \in Roles :
           /\ pending'[t][x] = IF t = s /\ x = Other(r) THEN << >> ELSE pending[t][x]
           /\ member'[t][x] = IF t = s /\ x = r THEN p ELSE member[t][x]
      /\ \A q \in Peers : inbox'[q] = IF q = p THEN flush ELSE inbox[q]
      /\ \A q \in Peers : at'[q] = IF q = p THEN s ELSE at[q]
      /\ flush \in Seq(Message)
      /\ status[p] = "new" /\ read' = read /\ sent' = sent
  BY DEF Join, Flushed
<1>2. WaitOnlyForAbsent'
  <2> SUFFICES ASSUME NEW t \in Sessions, NEW x \in Roles, pending'[t][x] # << >>
               PROVE  t \in rooms' /\ member'[t][Other(x)] = NoPeer
    BY DEF WaitOnlyForAbsent
  <2>1. pending[t][x] # << >> /\ ~(t = s /\ x = Other(r))
    BY <1>1
  <2>2. t \in rooms /\ member[t][Other(x)] = NoPeer
    BY <2>1 DEF QueueInv, WaitOnlyForAbsent
  <2>3. ~(t = s /\ Other(x) = r)
    BY <1>1, <2>1
  <2> QED
    BY <1>1, <2>2, <2>3 DEF Join, Flushed
<1>3. Len(flush) <= SendCap
  BY <1>1 DEF QueueInv, WithinCaps
<1>4. WithinCaps'
  <2>1. \A q \in Peers : Len(inbox'[q]) <= SendCap
    BY <1>1, <1>3 DEF QueueInv, WithinCaps
  <2>2. Len(<< >>) = 0 /\ \A t \in Sessions, x \in Roles : Len(pending[t][x]) <= PendingCap
    BY DEF QueueInv, WithinCaps
  <2>3. \A t \in Sessions, x \in Roles : Len(pending'[t][x]) <= PendingCap
    BY <1>1, <2>2
  <2> QED
    BY <2>1, <2>3 DEF WithinCaps
<1>5. NeverHung'
  BY <1>3 DEF NeverHung, Join, Flushed
<1>6. DeliveredInOrder'
  <2>1. read[p] = 0
    BY <1>1 DEF NewIsBlank
  <2>2. \A q \in Peers : Ordered(inbox'[q], read[q], sent)
    BY <1>1, <2>1 DEF QueueInv, DeliveredInOrder
  <2>3. Ordered(<< >>, 0, sent)
    BY OrderedEmpty
  <2>4. \A t \in Sessions, x \in Roles : Ordered(pending'[t][x], 0, sent)
    BY <1>1, <2>3 DEF QueueInv, DeliveredInOrder
  <2> QED
    BY <1>1, <2>2, <2>4 DEF DeliveredInOrder
<1>7. NoCrossTalk'
  <2>1. SendersStay
    BY <1>1 DEF SendersStay, Join, Flushed
  <2>2. SentByNext(flush, s, Other(r))
    BY <1>1, <2>1, SentByStable DEF QueueInv, NoCrossTalk
  <2>3. \A q \in Peers : SentByNext(inbox[q], at[q], Other(RoleOf(q)))
    BY <2>1, SentByStable DEF QueueInv, NoCrossTalk
  <2>4. \A t \in Sessions, x \in Roles : SentByNext(pending[t][x], t, x)
    BY <2>1, SentByStable DEF QueueInv, NoCrossTalk
  <2>5. \A t, x : SentByNext(<< >>, t, x)
    BY DEF SentByNext
  <2> HIDE DEF r, flush
  <2>6. \A q \in Peers : SentByNext(inbox'[q], at'[q], Other(RoleOf(q)))
    BY <1>1, <2>2, <2>3 DEF r
  <2>7. ASSUME NEW t \in Sessions, NEW x \in Roles
        PROVE  SentByNext(pending'[t][x], t, x)
    <3>1. pending'[t][x] = << >> \/ pending'[t][x] = pending[t][x]
      BY <1>1
    <3> QED
      BY <2>4, <2>5, <3>1
  <2> QED
    BY <2>6, <2>7, CrossTalkNext
<1> QED
  BY <1>2, <1>4, <1>5, <1>6, <1>7 DEF QueueInv

(* The stamp of a forwarded message is beyond everything in the hub.       *)
LEMMA StampFacts ==
  ASSUME TypeOK, NEW p \in Peers, Sending(p)
  PROVE  /\ Stamped(p) \in Message
         /\ Stamped(p).n = sent' /\ sent < sent' /\ sent' \in Nat
         /\ Stamped(p).from = p
  BY DEF TypeOK, Sending, Stamped, Message

LEMMA ForwardQueueQueues ==
  ASSUME HubInv, NEW p \in Peers, ForwardQueue(p)
  PROVE  QueueInv'
<1> DEFINE s == at[p]
           r == RoleOf(p)
           m == Stamped(p)
           grown == Append(pending[s][r], m)
<1> USE RoleFacts, NilAssumption, CapAssumption DEF HubInv, SlotInv, TypeOK
<1>0. Sending(p) /\ Queueable(p)
  BY DEF ForwardQueue
<1>1. /\ s \in Sessions /\ s \in rooms /\ r \in Roles
      /\ member[s][Other(r)] = NoPeer
      /\ Len(pending[s][r]) < PendingCap
  BY <1>0 DEF Queueable, Receiver
<1>2. m \in Message /\ m.n = sent' /\ sent < sent' /\ sent' \in Nat /\ m.from = p
  BY <1>0, StampFacts
<1>3. /\ \A t \in Sessions, x \in Roles :
           pending'[t][x] = IF t = s /\ x = r THEN grown ELSE pending[t][x]
      /\ UNCHANGED <<rooms, member, inbox, done, status, at, read, hung>>
  BY <1>1 DEF ForwardQueue, peerVars
<1>b. /\ pending[s][r] \in Seq(Message)
      /\ Ordered(pending[s][r], 0, sent)
      /\ SentBy(pending[s][r], s, r)
  BY <1>1 DEF QueueInv, DeliveredInOrder, NoCrossTalk
<1>c. /\ Len(grown) = Len(pending[s][r]) + 1
      /\ Ordered(grown, 0, sent')
      /\ SentBy(grown, s, r)
  <2>1. status[p] # "new"
    BY <1>0 DEF Sending
  <2> HIDE DEF m
  <2>2. Ordered(grown, 0, sent')
    BY <1>2, <1>b, OrderedAppend
  <2>3. SentBy(grown, s, r)
    BY <1>2, <1>b, <2>1, SentByAppend
  <2> QED
    BY <1>2, <1>b, <2>2, <2>3, AppendProperties
<1> HIDE DEF m, s, r, grown
<1>4. WaitOnlyForAbsent'
  <2> SUFFICES ASSUME NEW t \in Sessions, NEW x \in Roles, pending'[t][x] # << >>
               PROVE  t \in rooms /\ member[t][Other(x)] = NoPeer
    BY <1>3 DEF WaitOnlyForAbsent
  <2>1. CASE t = s /\ x = r
    BY <1>1, <2>1
  <2>2. CASE ~(t = s /\ x = r)
    BY <1>3, <2>2 DEF QueueInv, WaitOnlyForAbsent
  <2> QED
    BY <2>1, <2>2
<1>5. WithinCaps'
  <2>1. \A t \in Sessions, x \in Roles : Len(pending'[t][x]) <= PendingCap
    <3>1. Len(grown) <= PendingCap
      BY <1>1, <1>b, <1>c, LenProperties
    <3> QED
      BY <1>3, <3>1 DEF QueueInv, WithinCaps
  <2> QED
    BY <1>3, <2>1 DEF QueueInv, WithinCaps
<1>6. DeliveredInOrder'
  <2>2. \A q \in Peers : Ordered(inbox[q], read[q], sent')
    BY <1>2, OrderedWiden DEF QueueInv, DeliveredInOrder
  <2>3. \A t \in Sessions, x \in Roles : Ordered(pending[t][x], 0, sent')
    BY <1>2, OrderedWiden DEF QueueInv, DeliveredInOrder
  <2>4. \A t \in Sessions, x \in Roles : Ordered(pending'[t][x], 0, sent')
    BY <1>3, <1>c, <2>3
  <2> QED
    BY <1>3, <2>2, <2>4 DEF DeliveredInOrder
<1>7. NoCrossTalk'
  <2>1. \A t \in Sessions, x \in Roles : SentBy(pending'[t][x], t, x)
    BY <1>3, <1>c DEF QueueInv, NoCrossTalk
  <2>2. \A q \in Peers : SentBy(inbox'[q], at[q], Other(RoleOf(q)))
    BY <1>3 DEF QueueInv, NoCrossTalk
  <2> QED
    BY <1>3, <2>1, <2>2, CrossTalkFrame
<1> QED
  BY <1>3, <1>4, <1>5, <1>6, <1>7 DEF QueueInv, NeverHung

LEMMA ForwardDeliverQueues ==
  ASSUME HubInv, NEW p \in Peers, ForwardDeliver(p)
  PROVE  QueueInv'
<1> DEFINE to == Receiver(p)
           m == Stamped(p)
           grown == Append(inbox[to], m)
<1> USE RoleFacts, NilAssumption, CapAssumption DEF HubInv, SlotInv, TypeOK
<1>0. Sending(p) /\ Deliverable(p)
  BY DEF ForwardDeliver
<1>1. /\ at[p] \in Sessions /\ to \in Peers /\ at[to] = at[p]
      /\ RoleOf(to) = Other(RoleOf(p))
      /\ Len(inbox[to]) < SendCap
  BY <1>0 DEF Deliverable, Receiver, SlotsAreLive
<1>2. m \in Message /\ m.n = sent' /\ sent < sent' /\ sent' \in Nat /\ m.from = p
  BY <1>0, StampFacts
<1>3. /\ \A q \in Peers : inbox'[q] = IF q = to THEN grown ELSE inbox[q]
      /\ UNCHANGED <<rooms, member, pending, done, status, at, read, hung>>
  BY <1>1 DEF ForwardDeliver, roomVars
<1> HIDE DEF m, to
<1>4. WaitOnlyForAbsent'
  BY <1>3 DEF QueueInv, WaitOnlyForAbsent
<1>5. WithinCaps'
  <2>1. Len(grown) <= SendCap
    BY <1>1, <1>2, AppendProperties
  <2>2. \A q \in Peers : Len(inbox'[q]) <= SendCap
    BY <1>3, <2>1 DEF QueueInv, WithinCaps
  <2> QED
    BY <1>3, <2>2 DEF QueueInv, WithinCaps
<1>6. DeliveredInOrder'
  <2>1. Ordered(grown, read[to], sent')
    BY <1>1, <1>2, OrderedAppend DEF QueueInv, DeliveredInOrder
  <2>2. \A q \in Peers : Ordered(inbox[q], read[q], sent')
    BY <1>2, OrderedWiden DEF QueueInv, DeliveredInOrder
  <2>3. \A t \in Sessions, x \in Roles : Ordered(pending[t][x], 0, sent')
    BY <1>2, OrderedWiden DEF QueueInv, DeliveredInOrder
  <2> HIDE DEF grown
  <2>4. \A q \in Peers : Ordered(inbox'[q], read[q], sent')
    BY <1>3, <2>1, <2>2
  <2> QED
    BY <1>3, <2>3, <2>4 DEF DeliveredInOrder
<1>7. NoCrossTalk'
  <2>1. SentBy(inbox[to], at[p], RoleOf(p))
    BY <1>1 DEF QueueInv, NoCrossTalk
  <2>2. SentBy(grown, at[p], RoleOf(p))
    BY <1>0, <1>1, <1>2, <2>1, SentByAppend DEF Sending
  <2> HIDE DEF grown
  <2>3. \A q \in Peers : SentBy(inbox'[q], at[q], Other(RoleOf(q)))
    BY <1>1, <1>3, <2>2 DEF QueueInv, NoCrossTalk
  <2> QED
    BY <1>3, <2>3, CrossTalkFrame DEF QueueInv, NoCrossTalk
<1> QED
  BY <1>3, <1>4, <1>5, <1>6, <1>7 DEF QueueInv, NeverHung

(* An operation that only drops what waits in rooms that cease to exist    *)
(* and empties slots leaves the queues as they were.                       *)
LEMMA ShrinkQueues ==
  ASSUME HubInv,
         \A t \in Sessions, x \in Roles :
           /\ member'[t][x] \in {member[t][x], NoPeer}
           /\ \/ pending'[t][x] = << >>
              \/ pending'[t][x] = pending[t][x] /\ (t \in rooms => t \in rooms'),
         \A p \in Peers : status[p] # "new" => status'[p] # "new",
         UNCHANGED <<inbox, at, read, hung, sent>>
  PROVE  QueueInv'
<1> USE RoleFacts, CapAssumption DEF HubInv, SlotInv, TypeOK
<1>1. WaitOnlyForAbsent'
  BY DEF QueueInv, WaitOnlyForAbsent
<1>2. WithinCaps' /\ NeverHung'
  BY DEF QueueInv, WithinCaps, NeverHung
<1>3. DeliveredInOrder'
  <2>1. Ordered(<< >>, 0, sent)
    BY OrderedEmpty
  <2>2. \A t \in Sessions, x \in Roles : Ordered(pending'[t][x], 0, sent)
    BY <2>1 DEF QueueInv, DeliveredInOrder
  <2> QED
    BY <2>2 DEF QueueInv, DeliveredInOrder
<1>4. NoCrossTalk'
  <2>1. SendersStay
    BY DEF SendersStay
  <2>2. \A q \in Peers : SentByNext(inbox[q], at[q], Other(RoleOf(q)))
    BY <2>1, SentByStable DEF QueueInv, NoCrossTalk
  <2>3. \A t \in Sessions, x \in Roles : SentByNext(pending[t][x], t, x)
    BY <2>1, SentByStable DEF QueueInv, NoCrossTalk
  <2>4. \A t, x : SentByNext(<< >>, t, x)
    BY DEF SentByNext
  <2>5. \A q \in Peers : SentByNext(inbox'[q], at'[q], Other(RoleOf(q)))
    BY <2>2
  <2>6. \A t \in Sessions, x \in Roles : SentByNext(pending'[t][x], t, x)
    BY <2>3, <2>4
  <2> QED
    BY <2>5, <2>6, CrossTalkNext
<1> QED
  BY <1>1, <1>2, <1>3, <1>4 DEF QueueInv

LEMMA ReceiveQueues ==
  ASSUME HubInv, NEW p \in Peers, Receive(p)
  PROVE  QueueInv'
<1> DEFINE rest == Tail(inbox[p])
<1> USE RoleFacts, CapAssumption DEF HubInv, SlotInv, TypeOK
<1>1. /\ inbox[p] # << >> /\ rest \in Seq(Message) /\ Len(rest) <= Len(inbox[p])
      /\ \A q \in Peers : inbox'[q] = IF q = p THEN rest ELSE inbox[q]
      /\ \A q \in Peers : read'[q] = IF q = p THEN Head(inbox[p]).n ELSE read[q]
      /\ UNCHANGED <<rooms, member, pending, done, status, at, hung, sent>>
  BY HeadTailProperties, EmptySeq DEF Receive, roomVars
<1>2. WaitOnlyForAbsent' /\ NeverHung'
  BY <1>1 DEF QueueInv, WaitOnlyForAbsent, NeverHung
<1>3. WithinCaps'
  <2>1. \A q \in Peers : Len(inbox[q]) \in Nat /\ Len(inbox[q]) <= SendCap
    BY LenProperties DEF QueueInv, WithinCaps
  <2>2. Len(rest) <= SendCap
    BY <1>1, <2>1, LenProperties
  <2> HIDE DEF rest
  <2>3. \A q \in Peers : Len(inbox'[q]) <= SendCap
    BY <1>1, <2>1, <2>2
  <2> QED
    BY <1>1, <2>3 DEF QueueInv, WithinCaps
<1>4. DeliveredInOrder'
  <2>1. Ordered(rest, Head(inbox[p]).n, sent)
    BY <1>1, OrderedTail DEF QueueInv, DeliveredInOrder
  <2> HIDE DEF rest
  <2>2. \A q \in Peers : Ordered(inbox'[q], read'[q], sent)
    BY <1>1, <2>1 DEF QueueInv, DeliveredInOrder
  <2> QED
    BY <1>1, <2>2 DEF QueueInv, DeliveredInOrder
<1>5. NoCrossTalk'
  <2>1. SentBy(rest, at[p], Other(RoleOf(p)))
    BY <1>1, SentByTail DEF QueueInv, NoCrossTalk
  <2> HIDE DEF rest
  <2>2. \A q \in Peers : SentBy(inbox'[q], at[q], Other(RoleOf(q)))
    BY <1>1, <2>1 DEF QueueInv, NoCrossTalk
  <2> QED
    BY <1>1, <2>2, CrossTalkFrame DEF QueueInv, NoCrossTalk
<1> QED
  BY <1>2, <1>3, <1>4, <1>5 DEF QueueInv

LEMMA QueueStep == HubInv /\ [Next]_vars => QueueInv'
<1> SUFFICES ASSUME HubInv, [Next]_vars PROVE QueueInv'
  OBVIOUS
<1>1. ASSUME NEW p \in Peers, NEW s \in Sessions, Join(p, s) PROVE QueueInv'
  BY <1>1, JoinQueues
<1>2. ASSUME NEW p \in Peers, ForwardQueue(p) PROVE QueueInv'
  BY <1>2, ForwardQueueQueues
<1>3. ASSUME NEW p \in Peers, ForwardDeliver(p) PROVE QueueInv'
  BY <1>3, ForwardDeliverQueues
<1>4. ASSUME NEW p \in Peers, ForwardDrop(p) PROVE QueueInv'
  <2> USE <1>4, RoleFacts DEF HubInv, SlotInv, TypeOK, ForwardDrop, Sending, roomVars, peerVars
  <2>1. DeliveredInOrder'
    BY OrderedWiden DEF QueueInv, DeliveredInOrder
  <2> QED
    BY <2>1 DEF QueueInv, WaitOnlyForAbsent, WithinCaps, NeverHung, NoCrossTalk, SentBy
<1>5. ASSUME NEW p \in Peers, LeaveRoom(p) PROVE QueueInv'
  <2> USE <1>5, RoleFacts, EmptyRoomFacts DEF HubInv, SlotInv, TypeOK, LeaveRoom, WithoutPeer, Emptied
  <2>1. at[p] \in Sessions
    OBVIOUS
  <2>2. \A t \in Sessions, x \in Roles : member'[t][x] \in {member[t][x], NoPeer}
    BY <2>1
  <2>3. \A t \in Sessions, x \in Roles :
          \/ pending'[t][x] = << >>
          \/ pending'[t][x] = pending[t][x] /\ (t \in rooms => t \in rooms')
    BY <2>1
  <2>4. \A q \in Peers : status[q] # "new" => status'[q] # "new"
    OBVIOUS
  <2> QED
    BY <2>2, <2>3, <2>4, ShrinkQueues
<1>6. ASSUME NEW p \in Peers, LeaveGone(p) PROVE QueueInv'
  BY <1>6, ShrinkQueues DEF HubInv, SlotInv, TypeOK, LeaveGone, roomVars
<1>7. ASSUME NEW s \in Sessions, CloseSession(s) PROVE QueueInv'
  <2> USE <1>7, EmptyRoomFacts DEF HubInv, SlotInv, TypeOK, CloseSession
  <2>1. \A t \in Sessions, x \in Roles : member'[t][x] \in {member[t][x], NoPeer}
    OBVIOUS
  <2>2. \A t \in Sessions, x \in Roles :
          \/ pending'[t][x] = << >>
          \/ pending'[t][x] = pending[t][x] /\ (t \in rooms => t \in rooms')
    OBVIOUS
  <2> QED
    BY <2>1, <2>2, ShrinkQueues
<1>8. ASSUME NEW p \in Peers, Receive(p) PROVE QueueInv'
  BY <1>8, ReceiveQueues
<1>9. CASE UNCHANGED vars
  BY <1>9 DEF vars, roomVars, peerVars, HubInv, QueueInv, WaitOnlyForAbsent, WithinCaps,
              NeverHung, DeliveredInOrder, NoCrossTalk, SentBy
<1> QED
  BY <1>1, <1>2, <1>3, <1>4, <1>5, <1>6, <1>7, <1>8, <1>9 DEF Next

LEMMA HubInvInit == Init => HubInv
  BY SlotInit, QueueInit DEF HubInv

LEMMA HubInvStep == HubInv /\ [Next]_vars => HubInv'
  BY SlotStep, QueueStep DEF HubInv

THEOREM HubInvariant == Spec => []HubInv
  BY HubInvInit, HubInvStep, PTL DEF Spec

(* THEOREM: the maps, slots, queues and channels of the hub keep their     *)
(* types whatever the handlers do.                                         *)
THEOREM TypeCorrect == Spec => []TypeOK
<1>1. Init => TypeOK
  BY SlotInit DEF SlotInv
<1> QED
  BY <1>1, TypeStep, PTL DEF Spec

(* THEOREM: a room without peers and messages is not kept (hub.go:132-134).*)
THEOREM RoomsAreFreed == Spec => []NoLeakedRoom
  BY HubInvariant, PTL DEF HubInv, SlotInv

(* THEOREM: a slot holds a live peer of its role and session               *)
(* (hub.go:44-76, 118-135).                                                *)
THEOREM SlotsStayLive == Spec => []SlotsAreLive
  BY HubInvariant, PTL DEF HubInv, SlotInv

(* THEOREM: a peer that lost its slot was always told (hub.go:137-151).    *)
THEOREM EvictedAreTold == Spec => []EvictedIsTold
  BY HubInvariant, PTL DEF HubInv, SlotInv

(* THEOREM: with PendingCap <= SendCap, Join never blocks while it holds   *)
(* the mutex of the hub.                                                   *)
THEOREM JoinNeverBlocks == Spec => []NeverHung
  BY HubInvariant, PTL DEF HubInv, QueueInv

(* THEOREM: nothing waits for a peer that is connected (hub.go:87-115).    *)
THEOREM OnlyAbsentWait == Spec => []WaitOnlyForAbsent
  BY HubInvariant, PTL DEF HubInv, QueueInv

(* THEOREM: the queues keep their bounds (hub.go:51-53, 92, 105-112).      *)
THEOREM QueuesBounded == Spec => []WithinCaps
  BY HubInvariant, PTL DEF HubInv, QueueInv

(* THEOREM: messages arrive in order and never twice.                      *)
THEOREM OrderKept == Spec => []DeliveredInOrder
  BY HubInvariant, PTL DEF HubInv, QueueInv

(* THEOREM: sessions and roles do not hear each other's messages.          *)
THEOREM NoCrossTalkEver == Spec => []NoCrossTalk
  BY HubInvariant, PTL DEF HubInv, QueueInv

(***************************************************************************)
(* The hub implements the mailbox: each step of SignalHub is a step of     *)
(* SignalMailbox or leaves it unchanged.                                   *)
(***************************************************************************)
(* The two modules speak of the same roles, rooms and peers.               *)
LEMMA SameNames ==
  /\ Mailbox!Peers = Peers
  /\ Mailbox!Roles = Roles
  /\ Mailbox!Nobody = EmptyRoom
  /\ Mailbox!NoMail = NoMail
  /\ \A p : Mailbox!RoleOf(p) = RoleOf(p)
  /\ \A r : Mailbox!Other(r) = Other(r)
  BY DEF Mailbox!Peers, Peers, Mailbox!Roles, Roles, Mailbox!Nobody, EmptyRoom,
         Mailbox!NoMail, NoMail, Mailbox!RoleOf, RoleOf, Mailbox!Other, Other

LEMMA MailAt ==
  \A s \in Sessions, r \in Roles :
    /\ mailFor[s][r] = IF member[s][r] = NoPeer THEN pending[s][Other(r)]
                                                ELSE inbox[member[s][r]]
    /\ mailFor'[s][r] = IF member'[s][r] = NoPeer THEN pending'[s][Other(r)]
                                                  ELSE inbox'[member'[s][r]]
  BY DEF mailFor, MailFor

LEMMA MailUnchanged ==
  ASSUME \A s \in Sessions, r \in Roles : mailFor'[s][r] = mailFor[s][r]
  PROVE  mailFor' = mailFor
  BY DEF mailFor

LEMMA MailFrame ==
  ASSUME UNCHANGED <<member, pending, inbox>>
  PROVE  mailFor' = mailFor
  BY DEF mailFor, MailFor

LEMMA MailUpdated ==
  ASSUME NEW s \in Sessions, NEW r \in Roles, NEW q,
         \A t \in Sessions, x \in Roles :
           mailFor'[t][x] = IF t = s /\ x = r THEN q ELSE mailFor[t][x]
  PROVE  mailFor' = [mailFor EXCEPT ![s][r] = q]
<1> DEFINE old == mailFor[s]
           new == [old EXCEPT ![r] = q]
<1>1. /\ mailFor' = [t \in Sessions |-> [x \in Roles |-> mailFor'[t][x]]]
      /\ mailFor = [t \in Sessions |-> [x \in Roles |-> mailFor[t][x]]]
  BY DEF mailFor
<1>2. new = [x \in Roles |-> mailFor'[s][x]]
  BY <1>1
<1>3. mailFor' = [mailFor EXCEPT ![s] = new]
  BY <1>1, <1>2
<1> QED
  BY <1>3

LEMMA MailCleared ==
  ASSUME NEW s \in Sessions,
         \A t \in Sessions, x \in Roles :
           mailFor'[t][x] = IF t = s THEN << >> ELSE mailFor[t][x]
  PROVE  mailFor' = [mailFor EXCEPT ![s] = NoMail]
  BY DEF mailFor, NoMail

(* A peer sits in one slot at most: that of its role, in its session.      *)
LEMMA OneSlot ==
  ASSUME HubInv, NEW s \in Sessions, NEW r \in Roles, member[s][r] # NoPeer
  PROVE  /\ member[s][r] \in Peers
         /\ at[member[s][r]] = s
         /\ RoleOf(member[s][r]) = r
         /\ status[member[s][r]] = "joined"
         /\ ~done[member[s][r]]
  BY DEF HubInv, SlotInv, SlotsAreLive

LEMMA JoinEnters ==
  ASSUME HubInv, NEW p \in Peers, NEW s \in Sessions, Join(p, s)
  PROVE  Mailbox!Enter(p, s)
<1> DEFINE r == RoleOf(p)
<1> USE RoleFacts, NilAssumption DEF HubInv, SlotInv, TypeOK
<1>1. /\ r \in Roles /\ p # NoPeer
      /\ \A t \in Sessions, x \in Roles :
           /\ pending'[t][x] = IF t = s /\ x = Other(r) THEN << >> ELSE pending[t][x]
           /\ member'[t][x] = IF t = s /\ x = r THEN p ELSE member[t][x]
      /\ \A q \in Peers : inbox'[q] = IF q = p THEN pending[s][Other(r)] ELSE inbox[q]
      /\ status[p] = "new" /\ member[s][r] = NoPeer
  BY DEF Join, Flushed
<1>2. ASSUME NEW t \in Sessions, NEW x \in Roles
      PROVE  mailFor'[t][x] = mailFor[t][x]
  <2>m. /\ mailFor[t][x] = IF member[t][x] = NoPeer THEN pending[t][Other(x)]
                                                    ELSE inbox[member[t][x]]
        /\ mailFor'[t][x] = IF member'[t][x] = NoPeer THEN pending'[t][Other(x)]
                                                      ELSE inbox'[member'[t][x]]
    BY MailAt
  <2>1. CASE t = s /\ x = r
    BY <1>1, <2>1, <2>m
  <2>2. CASE ~(t = s /\ x = r) /\ member[t][x] = NoPeer
    <3>1. ~(t = s /\ Other(x) = Other(r))
      BY <1>1, <2>2
    <3> QED
      BY <1>1, <2>2, <3>1, <2>m
  <2>3. CASE ~(t = s /\ x = r) /\ member[t][x] # NoPeer
    <3>1. member[t][x] # p /\ member[t][x] \in Peers
      BY <1>1, <2>3, OneSlot
    <3> QED
      BY <1>1, <2>3, <3>1, <2>m
  <2> QED
    BY <2>1, <2>2, <2>3
<1>3. mailFor' = mailFor
  BY <1>2, MailUnchanged
<1>4. at[p] = NoSession
  BY <1>1 DEF NewIsBlank
<1> QED
  BY <1>1, <1>3, <1>4, SameNames DEF Mailbox!Enter, Join, Flushed

LEMMA ForwardQueuePosts ==
  ASSUME HubInv, NEW p \in Peers, ForwardQueue(p)
  PROVE  Mailbox!Post(p)
<1> DEFINE s == at[p]
           r == RoleOf(p)
           m == Stamped(p)
<1> USE RoleFacts, NilAssumption, CapAssumption DEF HubInv, SlotInv, TypeOK
<1>1. /\ Sending(p) /\ s \in Sessions /\ s \in rooms /\ r \in Roles
      /\ member[s][Other(r)] = NoPeer
      /\ Len(pending[s][r]) < PendingCap
      /\ UNCHANGED <<rooms, member, inbox, at>>
      /\ \A t \in Sessions, x \in Roles :
           pending'[t][x] = IF t = s /\ x = r THEN Append(pending[s][r], m)
                                              ELSE pending[t][x]
  BY DEF ForwardQueue, Queueable, Receiver, peerVars
<1> HIDE DEF m
<1>2. mailFor[s][Other(r)] = pending[s][r]
  BY <1>1, MailAt
<1>3. ASSUME NEW t \in Sessions, NEW x \in Roles
      PROVE  mailFor'[t][x] = IF t = s /\ x = Other(r)
                              THEN Append(mailFor[s][Other(r)], m)
                              ELSE mailFor[t][x]
  <2>m. /\ mailFor[t][x] = IF member[t][x] = NoPeer THEN pending[t][Other(x)]
                                                    ELSE inbox[member[t][x]]
        /\ mailFor'[t][x] = IF member'[t][x] = NoPeer THEN pending'[t][Other(x)]
                                                      ELSE inbox'[member'[t][x]]
    BY MailAt
  <2>1. CASE t = s /\ x = Other(r)
    BY <1>1, <1>2, <2>1, <2>m
  <2>2. CASE ~(t = s /\ x = Other(r))
    <3>1. ~(t = s /\ Other(x) = r)
      BY <1>1, <2>2
    <3> QED
      BY <1>1, <2>2, <3>1, <2>m
  <2> QED
    BY <2>1, <2>2
<1>4. mailFor' = [mailFor EXCEPT ![s][Other(r)] = Append(mailFor[s][Other(r)], m)]
  <2> DEFINE o == Other(r)
             q == Append(mailFor[s][o], m)
  <2>1. s \in Sessions /\ o \in Roles
    BY <1>1
  <2>2. \A t \in Sessions, x \in Roles :
          mailFor'[t][x] = IF t = s /\ x = o THEN q ELSE mailFor[t][x]
    BY <1>3
  <2> HIDE DEF s, o, q
  <2>3. mailFor' = [mailFor EXCEPT ![s][o] = q]
    BY <2>1, <2>2, MailUpdated
  <2> QED
    BY <2>3 DEF o, q
<1>5. Len(mailFor[s][Other(r)]) < SendCap
  BY <1>1, <1>2, LenProperties
<1>6. member[s] # EmptyRoom /\ s # NoSession
  BY <1>1 DEF NoLeakedRoom
<1> QED
  BY <1>1, <1>4, <1>5, <1>6, SameNames DEF Mailbox!Post, Sending, Stamped, m

LEMMA ForwardDeliverPosts ==
  ASSUME HubInv, NEW p \in Peers, ForwardDeliver(p)
  PROVE  Mailbox!Post(p)
<1> DEFINE s == at[p]
           r == RoleOf(p)
           to == Receiver(p)
           m == Stamped(p)
<1> USE RoleFacts, NilAssumption, CapAssumption DEF HubInv, SlotInv, TypeOK
<1>1. /\ Sending(p) /\ s \in Sessions /\ s \in rooms /\ r \in Roles
      /\ to = member[s][Other(r)] /\ to # NoPeer
      /\ Len(inbox[to]) < SendCap
      /\ UNCHANGED <<rooms, member, pending, at>>
      /\ inbox' = [inbox EXCEPT ![to] = Append(inbox[to], m)]
  BY DEF ForwardDeliver, Deliverable, Receiver, roomVars
<1> HIDE DEF m, to
<1>2. mailFor[s][Other(r)] = inbox[to] /\ to \in Peers
  BY <1>1, MailAt
<1>3. ASSUME NEW t \in Sessions, NEW x \in Roles
      PROVE  mailFor'[t][x] = IF t = s /\ x = Other(r)
                              THEN Append(mailFor[s][Other(r)], m)
                              ELSE mailFor[t][x]
  <2>m. /\ mailFor[t][x] = IF member[t][x] = NoPeer THEN pending[t][Other(x)]
                                                    ELSE inbox[member[t][x]]
        /\ mailFor'[t][x] = IF member'[t][x] = NoPeer THEN pending'[t][Other(x)]
                                                      ELSE inbox'[member'[t][x]]
    BY MailAt
  <2>1. CASE t = s /\ x = Other(r)
    BY <1>1, <1>2, <2>1, <2>m
  <2>2. CASE ~(t = s /\ x = Other(r))
    <3>1. member[t][x] # NoPeer => member[t][x] # to /\ member[t][x] \in Peers
      BY <1>1, <2>2, OneSlot
    <3> QED
      BY <1>1, <2>2, <3>1, <2>m
  <2> QED
    BY <2>1, <2>2
<1>4. mailFor' = [mailFor EXCEPT ![s][Other(r)] = Append(mailFor[s][Other(r)], m)]
  <2> DEFINE o == Other(r)
             q == Append(mailFor[s][o], m)
  <2>1. s \in Sessions /\ o \in Roles
    BY <1>1
  <2>2. \A t \in Sessions, x \in Roles :
          mailFor'[t][x] = IF t = s /\ x = o THEN q ELSE mailFor[t][x]
    BY <1>3
  <2> HIDE DEF s, o, q
  <2>3. mailFor' = [mailFor EXCEPT ![s][o] = q]
    BY <2>1, <2>2, MailUpdated
  <2> QED
    BY <2>3 DEF o, q
<1>5. member[s] # EmptyRoom /\ s # NoSession
  BY <1>1 DEF NoLeakedRoom
<1> QED
  BY <1>1, <1>2, <1>4, <1>5, SameNames DEF Mailbox!Post, Sending, Stamped, m

LEMMA ForwardDropRefuses ==
  ASSUME HubInv, NEW p \in Peers, ForwardDrop(p)
  PROVE  Mailbox!Refuse(p)
<1> DEFINE s == at[p]
           r == RoleOf(p)
<1> USE RoleFacts, NilAssumption, CapAssumption DEF HubInv, SlotInv, TypeOK
<1>1. /\ status[p] = "joined" /\ sent' = sent + 1 /\ r \in Roles
      /\ ~Queueable(p) /\ (Deliverable(p) => done[Receiver(p)])
      /\ UNCHANGED <<member, pending, inbox, at>>
  BY DEF ForwardDrop, Sending, roomVars, peerVars
<1>2. s \in Sessions /\ s # NoSession
  BY <1>1 DEF NewIsBlank
<1>3. mailFor' = mailFor
  BY <1>1, MailAt, MailUnchanged
<1>4. CASE s \notin rooms
  <2>1. member[s] = EmptyRoom
    BY <1>2, <1>4 DEF NoLeakedRoom
  <2> QED
    BY <1>1, <1>2, <1>3, <2>1, SameNames DEF Mailbox!Refuse
<1>5. CASE s \in rooms /\ member[s][Other(r)] = NoPeer
  <2>1. mailFor[s][Other(r)] = pending[s][r]
    BY <1>1, <1>2, <1>5, MailAt
  <2>2. Len(pending[s][r]) >= PendingCap
    BY <1>1, <1>2, <1>5, LenProperties DEF Queueable, Receiver
  <2> QED
    BY <1>1, <1>2, <1>3, <2>1, <2>2, SameNames DEF Mailbox!Refuse
<1>6. CASE s \in rooms /\ member[s][Other(r)] # NoPeer
  <2>1. member[s][Other(r)] \in Peers /\ ~done[member[s][Other(r)]]
    BY <1>1, <1>2, <1>6, OneSlot
  <2>2. mailFor[s][Other(r)] = inbox[member[s][Other(r)]]
    BY <1>1, <1>2, <1>6, MailAt
  <2>3. ~(Len(inbox[member[s][Other(r)]]) < SendCap)
    BY <1>1, <1>6, <2>1 DEF Deliverable, Receiver
  <2>4. Len(inbox[member[s][Other(r)]]) >= PendingCap
    BY <2>1, <2>3, LenProperties
  <2> QED
    BY <1>1, <1>2, <1>3, <2>2, <2>4, SameNames DEF Mailbox!Refuse
<1> QED
  BY <1>4, <1>5, <1>6

(* Leaving gives up the seat; a peer whose session was closed meanwhile,   *)
(* even if others are in it again, does not disturb them.                  *)
LEMMA LeaveRoomExits ==
  ASSUME HubInv, NEW p \in Peers, LeaveRoom(p)
  PROVE  Mailbox!Exit(p) \/ UNCHANGED Mailbox!mvars
<1> DEFINE s == at[p]
           r == RoleOf(p)
           rest == [x \in Roles |-> IF member[s][x] = p THEN NoPeer ELSE member[s][x]]
<1> USE RoleFacts, NilAssumption, EmptyRoomFacts DEF HubInv, SlotInv, TypeOK
<1>1. /\ s \in Sessions /\ s \in rooms /\ s # NoSession /\ r \in Roles /\ p # NoPeer
      /\ member' = [member EXCEPT ![s] = rest]
      /\ pending' = IF rest = EmptyRoom THEN [pending EXCEPT ![s] = NoMail] ELSE pending
      /\ UNCHANGED <<inbox, at, sent>>
  BY DEF LeaveRoom, WithoutPeer, Emptied
<1>2. \A x \in Roles : member[s][x] = p => x = r
  BY <1>1, OneSlot
<1>3. CASE member[s][r] # p
  <2>1. rest = member[s]
    BY <1>1, <1>2, <1>3
  <2>2. rest # EmptyRoom
    BY <1>1, <2>1 DEF NoLeakedRoom
  <2>3. member' = member /\ pending' = pending
    BY <1>1, <2>1, <2>2
  <2>4. mailFor' = mailFor
    BY <1>1, <2>3, MailFrame
  <2> QED
    BY <1>1, <2>3, <2>4 DEF Mailbox!mvars
<1>4. CASE member[s][r] = p
  <2>1. rest = [member[s] EXCEPT ![r] = NoPeer]
    BY <1>1, <1>2, <1>4
  <2>2. member' = [member EXCEPT ![s][r] = NoPeer]
    BY <1>1, <2>1
  <2>3. \A t \in Sessions, x \in Roles :
          member'[t][x] = IF t = s /\ x = r THEN NoPeer ELSE member[t][x]
    BY <1>1, <2>2
  <2>4. pending[s][Other(r)] = << >>
    <3>1. member[s][Other(Other(r))] # NoPeer
      BY <1>1, <1>4
    <3> QED
      BY <1>1, <3>1 DEF QueueInv, WaitOnlyForAbsent
  <2>5. rest = EmptyRoom <=> member[s][Other(r)] = NoPeer
    <3>1. \A x \in Roles : x = r \/ x = Other(r)
      OBVIOUS
    <3>2. rest[r] = NoPeer /\ rest[Other(r)] = member[s][Other(r)]
      BY <1>1, <1>2, <1>4
    <3>3. rest = EmptyRoom => rest[Other(r)] = NoPeer
      BY <1>1
    <3>4. rest[Other(r)] = NoPeer => \A x \in Roles : rest[x] = NoPeer
      BY <3>1, <3>2
    <3>5. (\A x \in Roles : rest[x] = NoPeer) => rest = EmptyRoom
      BY DEF EmptyRoom
    <3> QED
      BY <3>2, <3>3, <3>4, <3>5
  <2> HIDE DEF rest
  <2>6. CASE member[s][Other(r)] = NoPeer
    <3>1. \A t \in Sessions, x \in Roles :
            pending'[t][x] = IF t = s THEN << >> ELSE pending[t][x]
      BY <1>1, <2>5, <2>6
    <3>2. ASSUME NEW t \in Sessions, NEW x \in Roles
          PROVE  mailFor'[t][x] = IF t = s THEN << >> ELSE mailFor[t][x]
      <4>m. /\ mailFor[t][x] = IF member[t][x] = NoPeer THEN pending[t][Other(x)]
                                                        ELSE inbox[member[t][x]]
            /\ mailFor'[t][x] = IF member'[t][x] = NoPeer THEN pending'[t][Other(x)]
                                                          ELSE inbox'[member'[t][x]]
        BY MailAt
      <4>1. CASE t = s
        <5>1. x = r \/ x = Other(r)
          OBVIOUS
        <5>2. member'[s][x] = NoPeer
          BY <1>1, <2>3, <2>6, <5>1
        <5> QED
          BY <1>1, <3>1, <4>m, <4>1, <5>2
      <4>2. CASE t # s
        BY <1>1, <2>3, <3>1, <4>m, <4>2
      <4> QED
        BY <4>1, <4>2
    <3>3. mailFor' = [mailFor EXCEPT ![s] = NoMail]
      BY <1>1, <3>2, MailCleared
    <3> QED
      BY <1>1, <1>4, <2>2, <2>6, <3>3, SameNames DEF Mailbox!Exit
  <2>7. CASE member[s][Other(r)] # NoPeer
    <3>1. pending' = pending
      BY <1>1, <2>5, <2>7
    <3>2. ASSUME NEW t \in Sessions, NEW x \in Roles
          PROVE  mailFor'[t][x] = IF t = s /\ x = r THEN << >> ELSE mailFor[t][x]
      <4>m. /\ mailFor[t][x] = IF member[t][x] = NoPeer THEN pending[t][Other(x)]
                                                        ELSE inbox[member[t][x]]
            /\ mailFor'[t][x] = IF member'[t][x] = NoPeer THEN pending'[t][Other(x)]
                                                          ELSE inbox'[member'[t][x]]
        BY MailAt
      <4>1. CASE t = s /\ x = r
        BY <1>1, <2>3, <2>4, <3>1, <4>m, <4>1
      <4>2. CASE ~(t = s /\ x = r)
        BY <1>1, <2>3, <3>1, <4>m, <4>2
      <4> QED
        BY <4>1, <4>2
    <3> DEFINE q == << >>
    <3>3. \A t \in Sessions, x \in Roles :
            mailFor'[t][x] = IF t = s /\ x = r THEN q ELSE mailFor[t][x]
      BY <3>2
    <3> HIDE DEF s, r, q
    <3>4. mailFor' = [mailFor EXCEPT ![s][r] = q]
      BY <1>1, <3>3, MailUpdated
    <3> QED
      BY <1>1, <1>4, <2>2, <2>7, <3>4, SameNames DEF Mailbox!Exit, s, r, q
  <2> QED
    BY <2>6, <2>7
<1> QED
  BY <1>3, <1>4

LEMMA CloseSessionCloses ==
  ASSUME HubInv, NEW s \in Sessions, CloseSession(s)
  PROVE  Mailbox!Close(s)
<1> USE RoleFacts, EmptyRoomFacts DEF HubInv, SlotInv, TypeOK
<1>1. /\ s \in rooms
      /\ member' = [member EXCEPT ![s] = EmptyRoom]
      /\ pending' = [pending EXCEPT ![s] = NoMail]
      /\ UNCHANGED <<inbox, at, sent>>
  BY DEF CloseSession
<1>2. ASSUME NEW t \in Sessions, NEW x \in Roles
      PROVE  mailFor'[t][x] = IF t = s THEN << >> ELSE mailFor[t][x]
  <2>m. /\ mailFor[t][x] = IF member[t][x] = NoPeer THEN pending[t][Other(x)]
                                                    ELSE inbox[member[t][x]]
        /\ mailFor'[t][x] = IF member'[t][x] = NoPeer THEN pending'[t][Other(x)]
                                                      ELSE inbox'[member'[t][x]]
    BY MailAt
  <2>1. CASE t = s
    BY <1>1, <2>m, <2>1
  <2>2. CASE t # s
    BY <1>1, <2>m, <2>2
  <2> QED
    BY <2>1, <2>2
<1>3. mailFor' = [mailFor EXCEPT ![s] = NoMail]
  BY <1>2, MailCleared
<1>4. member[s] # EmptyRoom
  BY <1>1 DEF NoLeakedRoom
<1> QED
  BY <1>1, <1>3, <1>4, SameNames DEF Mailbox!Close

(* What a writer takes is the mail of the seat or, once the seat is given  *)
(* up, nothing the mailbox still knows.                                    *)
LEMMA ReceiveTakes ==
  ASSUME HubInv, NEW p \in Peers, Receive(p)
  PROVE  \/ \E s \in Sessions, r \in Roles : Mailbox!Take(s, r)
         \/ UNCHANGED Mailbox!mvars
<1> USE RoleFacts, NilAssumption DEF HubInv, SlotInv, TypeOK
<1>1. /\ inbox[p] # << >>
      /\ \A q \in Peers : inbox'[q] = IF q = p THEN Tail(inbox[p]) ELSE inbox[q]
      /\ UNCHANGED <<member, pending, at, sent>>
  BY DEF Receive, roomVars
<1>2. CASE \A s \in Sessions, r \in Roles : member[s][r] # p
  <2>1. ASSUME NEW s \in Sessions, NEW r \in Roles
        PROVE  mailFor'[s][r] = mailFor[s][r]
    <3>1. member[s][r] = NoPeer \/ member[s][r] \in Peers
      OBVIOUS
    <3>m. /\ mailFor[s][r] = IF member[s][r] = NoPeer THEN pending[s][Other(r)]
                                                      ELSE inbox[member[s][r]]
          /\ mailFor'[s][r] = IF member'[s][r] = NoPeer THEN pending'[s][Other(r)]
                                                        ELSE inbox'[member'[s][r]]
      BY MailAt
    <3> QED
      BY <1>1, <1>2, <3>1, <3>m
  <2> QED
    BY <1>1, <2>1, MailUnchanged DEF Mailbox!mvars
<1>3. ASSUME NEW s \in Sessions, NEW r \in Roles, member[s][r] = p
      PROVE  Mailbox!Take(s, r)
  <2>1. p # NoPeer /\ mailFor[s][r] = inbox[p]
    BY <1>3, MailAt
  <2>2. ASSUME NEW t \in Sessions, NEW x \in Roles
        PROVE  mailFor'[t][x] = IF t = s /\ x = r THEN Tail(mailFor[s][r])
                                                  ELSE mailFor[t][x]
    <3>m. /\ mailFor[t][x] = IF member[t][x] = NoPeer THEN pending[t][Other(x)]
                                                      ELSE inbox[member[t][x]]
          /\ mailFor'[t][x] = IF member'[t][x] = NoPeer THEN pending'[t][Other(x)]
                                                        ELSE inbox'[member'[t][x]]
      BY MailAt
    <3>1. CASE t = s /\ x = r
      BY <1>1, <1>3, <2>1, <3>m, <3>1
    <3>2. CASE ~(t = s /\ x = r)
      <4>1. member[t][x] # NoPeer => member[t][x] # p /\ member[t][x] \in Peers
        BY <1>3, <3>2, OneSlot
      <4> QED
        BY <1>1, <3>m, <3>2, <4>1
    <3> QED
      BY <3>1, <3>2
  <2> DEFINE q == Tail(mailFor[s][r])
  <2>3. \A t \in Sessions, x \in Roles :
          mailFor'[t][x] = IF t = s /\ x = r THEN q ELSE mailFor[t][x]
    BY <2>2
  <2> HIDE DEF q
  <2>4. mailFor' = [mailFor EXCEPT ![s][r] = q]
    BY <2>3, MailUpdated
  <2> QED
    BY <1>1, <1>3, <2>1, <2>4 DEF Mailbox!Take, q
<1> QED
  BY <1>2, <1>3

LEMMA MailboxInit == Init => Mailbox!Init
<1> SUFFICES ASSUME Init PROVE Mailbox!Init
  OBVIOUS
<1>1. mailFor = [s \in Sessions |-> NoMail]
  BY RoleFacts, EmptyRoomFacts DEF Init, mailFor, MailFor, NoMail
<1> QED
  BY <1>1, SameNames DEF Init, Mailbox!Init

LEMMA MailboxStep == HubInv /\ [Next]_vars => [Mailbox!Next]_(Mailbox!mvars)
<1> SUFFICES ASSUME HubInv, [Next]_vars
             PROVE  Mailbox!Next \/ UNCHANGED Mailbox!mvars
  OBVIOUS
<1> USE SameNames DEF Mailbox!Next
<1>1. ASSUME NEW p \in Peers, NEW s \in Sessions, Join(p, s) PROVE Mailbox!Next
  BY <1>1, JoinEnters
<1>2. ASSUME NEW p \in Peers, ForwardQueue(p) PROVE Mailbox!Next
  BY <1>2, ForwardQueuePosts
<1>3. ASSUME NEW p \in Peers, ForwardDeliver(p) PROVE Mailbox!Next
  BY <1>3, ForwardDeliverPosts
<1>4. ASSUME NEW p \in Peers, ForwardDrop(p) PROVE Mailbox!Next
  BY <1>4, ForwardDropRefuses
<1>5. ASSUME NEW p \in Peers, LeaveRoom(p)
      PROVE  Mailbox!Next \/ UNCHANGED Mailbox!mvars
  BY <1>5, LeaveRoomExits
<1>6. ASSUME NEW p \in Peers, LeaveGone(p) PROVE UNCHANGED Mailbox!mvars
  <2>1. mailFor' = mailFor
    BY <1>6 DEF LeaveGone, roomVars, mailFor, MailFor
  <2> QED
    BY <1>6, <2>1 DEF LeaveGone, roomVars, Mailbox!mvars
<1>7. ASSUME NEW s \in Sessions, CloseSession(s) PROVE Mailbox!Next
  BY <1>7, CloseSessionCloses
<1>8. ASSUME NEW p \in Peers, Receive(p)
      PROVE  Mailbox!Next \/ UNCHANGED Mailbox!mvars
  BY <1>8, ReceiveTakes
<1>9. CASE UNCHANGED vars
  BY <1>9 DEF vars, roomVars, peerVars, mailFor, MailFor, Mailbox!mvars
<1> QED
  BY <1>1, <1>2, <1>3, <1>4, <1>5, <1>6, <1>7, <1>8, <1>9 DEF Next

(* THEOREM: whatever the sessions, peers and capacities, the hub behaves   *)
(* as the mailbox: joining late loses and reorders nothing, and a message  *)
(* is refused only when the session is empty or its box is full.           *)
THEOREM HubImplementsMailbox == Spec => ImplementsMailbox
<1>1. Spec => Mailbox!Init /\ [][Mailbox!Next]_(Mailbox!mvars)
  BY MailboxInit, MailboxStep, HubInvariant, PTL DEF Spec
<1> QED
  BY <1>1 DEF ImplementsMailbox, Mailbox!Spec
=============================================================================
