------------------------------ MODULE SignalHub ------------------------------
(***************************************************************************)
(* The signalling hub of the API (src/internal/signal/hub.go).             *)
(*                                                                         *)
(* A session owns a room, a room has one slot per role.  A WebSocket       *)
(* handler Joins a room, Forwards what its connection reads to the peer in *)
(* the opposite slot, and Leaves; the HTTP handlers call CloseSession.     *)
(* Messages for an empty slot wait in the room (pending) and are flushed   *)
(* into the Send channel (inbox) of the peer that fills it.                *)
(*                                                                         *)
(* Every operation holds Hub.mu from its first to its last statement, so   *)
(* each is one action.  A Peer value is made by Join and never used again: *)
(* the constants Clients and Gateways are the Peer values that may be made.*)
(***************************************************************************)
EXTENDS Naturals, Sequences

CONSTANTS
  Sessions,      \* session identifiers, the keys of Hub.rooms
  Clients,       \* Peer values that Join may make for the role "client"
  Gateways,      \* Peer values that Join may make for the role "gateway"
  NoPeer,        \* nil in a slot
  NoSession,     \* the session of a Peer that was not made yet
  PendingCap,    \* 32, the bound of pendingClient and pendingGateway
  SendCap,       \* 32, the capacity of Peer.Send
  MaxMessages    \* bound: how many messages are forwarded in a behaviour

Peers == Clients \cup Gateways

ASSUME RolesAssumption == Clients \cap Gateways = {}
ASSUME NilAssumption == NoPeer \notin Peers /\ NoSession \notin Sessions
ASSUME CapAssumption ==
  /\ PendingCap \in Nat /\ SendCap \in Nat /\ MaxMessages \in Nat
  /\ PendingCap <= SendCap

VARIABLES
  rooms,     \* the keys of Hub.rooms
  member,    \* member[s][r]: the Peer in slot r of room s
  pending,   \* pending[s][r]: pendingClient / pendingGateway, by SENDER role
  inbox,     \* inbox[p]: the contents of p.Send
  done,      \* done[p]: p.done is closed
  status,    \* the life of a Peer: "new", then "joined", then "left"
  at,        \* the session p joined
  hung,      \* Join blocked on a full Send channel, with Hub.mu held
  sent,      \* history: messages forwarded so far; stamps the next one
  read       \* history: the stamp of the last message taken out of p.Send

roomVars == <<rooms, member, pending>>
peerVars == <<inbox, done, status, at, read>>
vars == <<roomVars, peerVars, hung, sent>>

Roles == {"client", "gateway"}
RoleOf(p) == IF p \in Clients THEN "client" ELSE "gateway"
Other(r) == IF r = "client" THEN "gateway" ELSE "client"

Message == [from : Peers, n : Nat]

EmptyRoom == [r \in Roles |-> NoPeer]
NoMail == [r \in Roles |-> << >>]

Init ==
  /\ rooms = {}
  /\ member = [s \in Sessions |-> EmptyRoom]
  /\ pending = [s \in Sessions |-> NoMail]
  /\ inbox = [p \in Peers |-> << >>]
  /\ done = [p \in Peers |-> FALSE]
  /\ status = [p \in Peers |-> "new"]
  /\ at = [p \in Peers |-> NoSession]
  /\ hung = FALSE
  /\ sent = 0
  /\ read = [p \in Peers |-> 0]

-----------------------------------------------------------------------------
(* The messages that wait for the role of p.                               *)
WrongFlushed(p, s) == pending[s][RoleOf(p)]
Flushed(p, s) == pending[s][Other(RoleOf(p))]

(* The slot must be free (otherwise Join returns an error and, the room    *)
(* being there, changes nothing).  The messages waiting for this role go   *)
(* into the new peer's Send channel while the mutex is held: with more of  *)
(* them than the channel holds, the send never returns.                    *)
Join(p, s) ==
  LET r == RoleOf(p)
      flush == Flushed(p, s)
  IN /\ ~hung
     /\ status[p] = "new"
     /\ member[s][r] = NoPeer
     /\ rooms' = rooms \cup {s}
     /\ member' = [member EXCEPT ![s][r] = p]
     /\ pending' = [pending EXCEPT ![s][Other(r)] = << >>]
     /\ inbox' = [inbox EXCEPT ![p] = flush]
     /\ status' = [status EXCEPT ![p] = "joined"]
     /\ at' = [at EXCEPT ![p] = s]
     /\ hung' = (Len(flush) > SendCap)
     /\ UNCHANGED <<done, sent, read>>

-----------------------------------------------------------------------------
(* Forward does not ask whether the sender still holds a slot: it looks up *)
(* the room of the session under which the sender joined.                  *)
ReceiverOfOwnRole(p) == member[at[p]][RoleOf(p)]
Receiver(p) == member[at[p]][Other(RoleOf(p))]

QueueableForAnyone(p) ==
  /\ at[p] \in rooms
  /\ Len(pending[at[p]][RoleOf(p)]) < PendingCap

QueueableOnceMore(p) ==
  /\ at[p] \in rooms
  /\ Receiver(p) = NoPeer
  /\ Len(pending[at[p]][RoleOf(p)]) <= PendingCap

Queueable(p) ==
  /\ at[p] \in rooms
  /\ Receiver(p) = NoPeer
  /\ Len(pending[at[p]][RoleOf(p)]) < PendingCap

Deliverable(p) ==
  /\ at[p] \in rooms
  /\ Receiver(p) # NoPeer
  /\ Len(inbox[Receiver(p)]) < SendCap

Stamped(p) == [from |-> p, n |-> sent + 1]

Sending(p) ==
  /\ ~hung
  /\ status[p] = "joined"
  /\ sent < MaxMessages
  /\ sent' = sent + 1

ForwardPush(p) ==
  /\ Sending(p)
  /\ Queueable(p)
  /\ pending' = [pending EXCEPT ![at[p]][RoleOf(p)] = <<Stamped(p)>> \o @]
  /\ UNCHANGED <<rooms, member, peerVars, hung>>

ForwardQueue(p) ==
  /\ Sending(p)
  /\ Queueable(p)
  /\ pending' = [pending EXCEPT ![at[p]][RoleOf(p)] = Append(@, Stamped(p))]
  /\ UNCHANGED <<rooms, member, peerVars, hung>>

ForwardDeliver(p) ==
  /\ Sending(p)
  /\ Deliverable(p)
  /\ inbox' = [inbox EXCEPT ![Receiver(p)] = Append(@, Stamped(p))]
  /\ UNCHANGED <<roomVars, done, status, at, read, hung>>

(* "room unavailable", "signaling queue full", "peer disconnected" (the    *)
(* select may pick the closed done channel even if Send has room) and      *)
(* "peer is not consuming": the message is gone, the caller ignores it.    *)
ForwardDrop(p) ==
  /\ Sending(p)
  /\ ~Queueable(p)
  /\ Deliverable(p) => done[Receiver(p)]
  /\ UNCHANGED <<roomVars, peerVars, hung>>

-----------------------------------------------------------------------------
(* The slots of a room after p gave up whichever it holds.                 *)
NobodyGone(slots, p) == slots
WithoutPeer(slots, p) == [r \in Roles |-> IF slots[r] = p THEN NoPeer ELSE slots[r]]

ClientGone(slots) == slots["client"] = NoPeer
Emptied(slots) == slots = EmptyRoom

(* Leave with the room still there: give up the own slot, close done, drop *)
(* the room (and what waits in it) when nobody is left.                    *)
LeaveRoom(p) ==
  LET s == at[p]
      rest == WithoutPeer(member[s], p)
  IN /\ ~hung
     /\ status[p] = "joined"
     /\ s \in rooms
     /\ member' = [member EXCEPT ![s] = rest]
     /\ rooms' = IF Emptied(rest) THEN rooms \ {s} ELSE rooms
     /\ pending' = IF Emptied(rest) THEN [pending EXCEPT ![s] = NoMail] ELSE pending
     /\ done' = [done EXCEPT ![p] = TRUE]
     /\ status' = [status EXCEPT ![p] = "left"]
     /\ UNCHANGED <<inbox, at, read, hung, sent>>

(* Leave with the room gone returns at once, without closing done.         *)
LeaveGone(p) ==
  /\ ~hung
  /\ status[p] = "joined"
  /\ at[p] \notin rooms
  /\ status' = [status EXCEPT ![p] = "left"]
  /\ UNCHANGED <<roomVars, inbox, done, at, read, hung, sent>>

OccupyingClient(s) == {p \in Peers : member[s]["client"] = p}
Occupants(s) == {p \in Peers : \E r \in Roles : member[s][r] = p}

CloseSession(s) ==
  /\ ~hung
  /\ s \in rooms
  /\ done' = [p \in Peers |-> done[p] \/ p \in Occupants(s)]
  /\ rooms' = rooms \ {s}
  /\ member' = [member EXCEPT ![s] = EmptyRoom]
  /\ pending' = [pending EXCEPT ![s] = NoMail]
  /\ UNCHANGED <<inbox, status, at, read, hung, sent>>

(* The writer goroutine of the handler takes a message.  It needs no mutex *)
(* and may win against a closed done channel, even after Leave.            *)
Receive(p) ==
  /\ inbox[p] # << >>
  /\ read' = [read EXCEPT ![p] = Head(inbox[p]).n]
  /\ inbox' = [inbox EXCEPT ![p] = Tail(@)]
  /\ UNCHANGED <<roomVars, done, status, at, hung, sent>>

Next ==
  \/ \E p \in Peers, s \in Sessions : Join(p, s)
  \/ \E p \in Peers : ForwardQueue(p)
  \/ \E p \in Peers : ForwardDeliver(p)
  \/ \E p \in Peers : ForwardDrop(p)
  \/ \E p \in Peers : LeaveRoom(p)
  \/ \E p \in Peers : LeaveGone(p)
  \/ \E s \in Sessions : CloseSession(s)
  \/ \E p \in Peers : Receive(p)

Spec == Init /\ [][Next]_vars

-----------------------------------------------------------------------------
(* Type invariant of the hub's maps, slots, queues and channels.           *)
TypeOK ==
  /\ rooms \subseteq Sessions
  /\ member \in [Sessions -> [Roles -> Peers \cup {NoPeer}]]
  /\ pending \in [Sessions -> [Roles -> Seq(Message)]]
  /\ inbox \in [Peers -> Seq(Message)]
  /\ done \in [Peers -> BOOLEAN]
  /\ status \in [Peers -> {"new", "joined", "left"}]
  /\ at \in [Peers -> Sessions \cup {NoSession}]
  /\ hung \in BOOLEAN
  /\ sent \in Nat
  /\ read \in [Peers -> Nat]

(* Hub.rooms leaks no room and loses none: a room is in the map exactly    *)
(* while somebody holds one of its slots (hub.go:50-54, 132-134, 150).     *)
NoLeakedRoom == \A s \in Sessions : s \in rooms <=> member[s] # EmptyRoom

(* A slot holds a peer of its own role, joined under that session, that    *)
(* has not left and whose done channel is open, so that the branch of      *)
(* Forward on receiver.done is never taken (hub.go:109).                   *)
SlotsAreLive ==
  \A s \in Sessions, r \in Roles :
    LET p == member[s][r]
    IN p # NoPeer => /\ p \in Peers
                     /\ RoleOf(p) = r
                     /\ at[p] = s
                     /\ status[p] = "joined"
                     /\ ~done[p]

(* Whoever lost its slot was told so: every peer that was made and is not  *)
(* in its slot any more has its done channel closed, on every path, the    *)
(* early return of Leave included.  Otherwise its writer goroutine and its *)
(* connection would stay for ever (hub.go:122-124).                        *)
EvictedIsTold ==
  \A p \in Peers :
    status[p] # "new" /\ ~done[p] => member[at[p]][RoleOf(p)] = p

(* Messages wait in a room only for a slot that is empty.  One that waited *)
(* while its addressee is connected would never be delivered: only Join    *)
(* empties the pending queues (hub.go:61-64, 70-73, 87).                   *)
WaitOnlyForAbsent ==
  \A s \in Sessions, r \in Roles :
    pending[s][r] # << >> => s \in rooms /\ member[s][Other(r)] = NoPeer

(* What waits never exceeds what a Send channel holds.                     *)
WithinCaps ==
  /\ \A s \in Sessions, r \in Roles : Len(pending[s][r]) <= PendingCap
  /\ \A p \in Peers : Len(inbox[p]) <= SendCap

(* Join never blocks on the new peer's channel while it holds Hub.mu,      *)
(* which would stop every operation of every session (hub.go:62, 71).      *)
NeverHung == ~hung

(* Stamps increase along q, from above lo up to hi.                        *)
Ordered(q, lo, hi) ==
  /\ lo <= hi
  /\ \A i \in 1..Len(q) : lo < q[i].n /\ q[i].n <= hi
  /\ \A i, j \in 1..Len(q) : i < j => q[i].n < q[j].n

(* Messages reach a peer in the order in which they were forwarded, those  *)
(* that waited for it before those that did not, and none is delivered     *)
(* twice: stamps increase along every queue and beyond what was read.      *)
DeliveredInOrder ==
  /\ \A p \in Peers : Ordered(inbox[p], read[p], sent)
  /\ \A s \in Sessions, r \in Roles : Ordered(pending[s][r], 0, sent)

(* Everything in q was forwarded by peers that joined s in role r.         *)
SentBy(q, s, r) ==
  \A i \in 1..Len(q) :
    LET p == q[i].from
    IN status[p] # "new" /\ at[p] = s /\ RoleOf(p) = r

(* A message only ever lies in the queue of the opposite role of the       *)
(* session under which its sender joined: no session hears another, no     *)
(* peer hears its own role (hub.go:82-86, 92-101).                         *)
NoCrossTalk ==
  /\ \A p \in Peers : SentBy(inbox[p], at[p], Other(RoleOf(p)))
  /\ \A s \in Sessions, r \in Roles : SentBy(pending[s][r], s, r)

-----------------------------------------------------------------------------
(* The hub as a mailbox: the mail for a role is the Send channel of the    *)
(* peer in the slot or, without one, what waits in the room.               *)
MailFor(s, r) ==
  IF member[s][r] = NoPeer THEN pending[s][Other(r)] ELSE inbox[member[s][r]]

mailFor == [s \in Sessions |-> [r \in Roles |-> MailFor(s, r)]]

Mailbox == INSTANCE SignalMailbox
  WITH occupant <- member, mail <- mailFor, home <- at, posted <- sent,
       MinCap <- PendingCap, MaxCap <- SendCap

(* Every step of the hub is a step of the mailbox or hidden from it: a     *)
(* joining peer gets exactly what waited for it, and a forwarded message   *)
(* is refused only if nobody is in the session or the box is full.         *)
ImplementsMailbox == Mailbox!Spec
=============================================================================
