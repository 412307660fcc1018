---------------------------- MODULE SignalMailbox ----------------------------
(***************************************************************************)
(* What the signalling hub promises, without rooms, channels and queues:   *)
(* a session is two seats and two boxes of mail.  Mail for a role is one   *)
(* sequence whether or not the seat is taken when it is posted; taking the *)
(* seat neither loses nor reorders it; it is lost only when the seat is    *)
(* given up, when nobody sits in the session any more, or when too much of *)
(* it waits.  SignalHub implements this (SignalHub!Mailbox).               *)
(***************************************************************************)
EXTENDS Naturals, Sequences

CONSTANTS
  Sessions, Clients, Gateways, NoPeer, NoSession,
  MinCap,       \* so much mail a box holds whatever the circumstances
  MaxCap        \* and never more than this

VARIABLES
  occupant,     \* occupant[s][r]: who sits in seat r of session s
  mail,         \* mail[s][r]: the mail FOR seat r
  home,         \* home[p]: the session p sits in, or sat in
  posted        \* how many messages were posted

mvars == <<occupant, mail, home, posted>>

Peers == Clients \cup Gateways
Roles == {"client", "gateway"}
RoleOf(p) == IF p \in Clients THEN "client" ELSE "gateway"
Other(r) == IF r = "client" THEN "gateway" ELSE "client"

Nobody == [r \in Roles |-> NoPeer]
NoMail == [r \in Roles |-> << >>]

Init ==
  /\ occupant = [s \in Sessions |-> Nobody]
  /\ mail = [s \in Sessions |-> NoMail]
  /\ home = [p \in Peers |-> NoSession]
  /\ posted = 0

Enter(p, s) ==
  /\ home[p] = NoSession
  /\ occupant[s][RoleOf(p)] = NoPeer
  /\ occupant' = [occupant EXCEPT ![s][RoleOf(p)] = p]
  /\ home' = [home EXCEPT ![p] = s]
  /\ UNCHANGED <<mail, posted>>

Post(p) ==
  LET s == home[p]
      to == Other(RoleOf(p))
  IN /\ s # NoSession
     /\ occupant[s] # Nobody
     /\ Len(mail[s][to]) < MaxCap
     /\ mail' = [mail EXCEPT ![s][to] = Append(@, [from |-> p, n |-> posted + 1])]
     /\ posted' = posted + 1
     /\ UNCHANGED <<occupant, home>>

Refuse(p) ==
  LET s == home[p]
      to == Other(RoleOf(p))
  IN /\ s # NoSession
     /\ occupant[s] = Nobody \/ Len(mail[s][to]) >= MinCap
     /\ posted' = posted + 1
     /\ UNCHANGED <<occupant, mail, home>>

Take(s, r) ==
  /\ occupant[s][r] # NoPeer
  /\ mail[s][r] # << >>
  /\ mail' = [mail EXCEPT ![s][r] = Tail(@)]
  /\ UNCHANGED <<occupant, home, posted>>

Exit(p) ==
  LET s == home[p]
      r == RoleOf(p)
  IN /\ s # NoSession
     /\ occupant[s][r] = p
     /\ occupant' = [occupant EXCEPT ![s][r] = NoPeer]
     /\ mail' = IF occupant[s][Other(r)] = NoPeer
                THEN [mail EXCEPT ![s] = NoMail]
                ELSE [mail EXCEPT ![s][r] = << >>]
     /\ UNCHANGED <<home, posted>>

Close(s) ==
  /\ occupant[s] # Nobody
  /\ occupant' = [occupant EXCEPT ![s] = Nobody]
  /\ mail' = [mail EXCEPT ![s] = NoMail]
  /\ UNCHANGED <<home, posted>>

Next ==
  \/ \E p \in Peers, s \in Sessions : Enter(p, s)
  \/ \E p \in Peers : Post(p) \/ Refuse(p) \/ Exit(p)
  \/ \E s \in Sessions, r \in Roles : Take(s, r)
  \/ \E s \in Sessions : Close(s)

Spec == Init /\ [][Next]_mvars
=============================================================================
