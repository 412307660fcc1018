-------------------------- MODULE NegotiationProofs --------------------------
(***************************************************************************)
(* Theorems about Negotiation, for every set of sessions, of clients and   *)
(* of gateway connections, and any number of candidates and failures.      *)
(***************************************************************************)
EXTENDS Negotiation, TLAPS

(***************************************************************************)
(* The mailbox and what its mail contains: the app sends offers and        *)
(* candidates, the gateway answers.                                        *)
(***************************************************************************)
Contents == {"offer", "ice", "answer"}
Letters == [from : Peers, n : Nat \ {0}]
ContentsFor(r) == IF r = "client" THEN {"answer"} ELSE {"offer", "ice"}

Lawful(s, r) ==
  \A i \in 1..Len(mail[s][r]) :
    mail[s][r][i].n <= posted /\ body[mail[s][r][i].n] \in ContentsFor(r)

BoxType ==
  /\ posted \in Nat /\ body \in Seq(Contents) /\ Len(body) = posted
  /\ mail \in [Sessions -> [Roles -> Seq(Letters)]]
  /\ \A s \in Sessions, r \in Roles : Lawful(s, r)

SeatType ==
  /\ occupant \in [Sessions -> [Roles -> Peers \cup {NoPeer}]]
  /\ home \in [Peers -> Sessions \cup {NoSession}]

LEMMA RoleFacts ==
  /\ \A p : RoleOf(p) \in Roles /\ Other(RoleOf(p)) \in Roles
  /\ \A c \in Clients : c \in Peers /\ RoleOf(c) = "client" /\ Other(RoleOf(c)) = "gateway"
  /\ \A g \in Gateways : g \in Peers /\ RoleOf(g) = "gateway" /\ Other(RoleOf(g)) = "client"
  BY NamesAssumption DEF Peers, Roles, RoleOf, Other

LEMMA LetterFacts ==
  ASSUME BoxType, NEW s \in Sessions, NEW r \in Roles, NEW i \in 1..Len(mail[s][r])
  PROVE  /\ mail[s][r][i].n \in 1..posted
         /\ body[mail[s][r][i].n] \in ContentsFor(r)
         /\ mail[s][r] \in Seq(Letters) /\ Len(mail[s][r]) \in Nat /\ i \in Nat
<1>1. mail[s][r] \in Seq(Letters) /\ Len(mail[s][r]) \in Nat /\ i \in Nat
  BY DEF BoxType
<1>2. mail[s][r][i] \in Letters
  BY <1>1
<1>3. mail[s][r][i].n \in Nat \ {0}
  BY <1>2 DEF Letters
<1>. QED BY <1>1, <1>3 DEF BoxType, Lawful

(* Mail that does not change, or is thrown away.                           *)
LEMMA Emptied ==
  ASSUME BoxType, UNCHANGED <<body, posted>>,
         mail' \in [Sessions -> [Roles -> Seq(Letters)]],
         \A s \in Sessions, r \in Roles : mail'[s][r] \in {mail[s][r], << >>}
  PROVE  /\ BoxType'
         /\ \A s \in Sessions, r \in Roles : \A x :
              /\ mail'[s][r] = mail[s][r] => InMail(s, r, x)' = InMail(s, r, x)
              /\ mail'[s][r] = << >> => InMail(s, r, x)' = {}
<1>1. ASSUME NEW s \in Sessions, NEW r \in Roles PROVE Lawful(s, r)'
  <2>1. CASE mail'[s][r] = mail[s][r]
    BY <2>1 DEF BoxType, Lawful
  <2>2. CASE mail'[s][r] = << >>
    BY <2>2 DEF Lawful
  <2>. QED BY <2>1, <2>2
<1>2. BoxType'
  BY <1>1 DEF BoxType
<1>3. ASSUME NEW s \in Sessions, NEW r \in Roles, NEW x
      PROVE  /\ mail'[s][r] = mail[s][r] => InMail(s, r, x)' = InMail(s, r, x)
             /\ mail'[s][r] = << >> => InMail(s, r, x)' = {}
  BY DEF InMail
<1>. QED BY <1>2, <1>3

LEMMA Closed ==
  ASSUME BoxType, SeatType, NEW S, CloseRooms(S)
  PROVE  /\ SeatType'
         /\ mail' \in [Sessions -> [Roles -> Seq(Letters)]]
         /\ \A s \in Sessions, r \in Roles : mail'[s][r] \in {mail[s][r], << >>}
         /\ posted' = posted /\ home' = home
  BY DEF BoxType, SeatType, CloseRooms, Nobody, NoMail

LEMMA Exited ==
  ASSUME BoxType, SeatType, NEW p \in Peers, Exit(p)
  PROVE  /\ SeatType'
         /\ mail' \in [Sessions -> [Roles -> Seq(Letters)]]
         /\ \A s \in Sessions, r \in Roles : mail'[s][r] \in {mail[s][r], << >>}
         /\ \A s \in Sessions, r \in Roles :
              s # home[p] \/ (r # RoleOf(p) /\ occupant[s][r] # NoPeer) => mail'[s][r] = mail[s][r]
         /\ posted' = posted /\ home' = home
<1>1. home[p] \in Sessions /\ RoleOf(p) \in Roles
  BY RoleFacts DEF SeatType, Exit
<1>2. /\ occupant' = [occupant EXCEPT ![home[p]][RoleOf(p)] = NoPeer]
      /\ UNCHANGED <<home, posted>>
  BY DEF Exit
<1>3. SeatType'
  BY <1>1, <1>2 DEF SeatType
<1>4. CASE occupant[home[p]][Other(RoleOf(p))] = NoPeer
  <2>1. mail' = [mail EXCEPT ![home[p]] = NoMail]
    BY <1>4 DEF Exit
  <2>2. NoMail \in [Roles -> Seq(Letters)] /\ \A r \in Roles : NoMail[r] = << >>
    BY DEF NoMail
  <2>3. \A r \in Roles : r # RoleOf(p) => r = Other(RoleOf(p))
    BY DEF Roles, Other, RoleOf
  <2>. QED BY <1>1, <1>2, <1>3, <1>4, <2>1, <2>2, <2>3 DEF BoxType
<1>5. CASE occupant[home[p]][Other(RoleOf(p))] # NoPeer
  <2>1. mail' = [mail EXCEPT ![home[p]][RoleOf(p)] = << >>]
    BY <1>5 DEF Exit
  <2>. QED BY <1>1, <1>2, <1>3, <2>1 DEF BoxType
<1>. QED BY <1>4, <1>5

LEMMA Entered ==
  ASSUME SeatType, NEW p \in Peers, NEW s \in Sessions, Enter(p, s)
  PROVE  /\ SeatType'
         /\ home[p] = NoSession /\ home' = [home EXCEPT ![p] = s]
         /\ \A t \in Sessions, r \in Roles :
              occupant'[t][r] = IF t = s /\ r = RoleOf(p) THEN p ELSE occupant[t][r]
         /\ UNCHANGED <<mail, posted>>
  BY RoleFacts DEF SeatType, Enter

(* The first letter of a box is taken.                                     *)
LEMMA Taken ==
  ASSUME BoxType, NEW s \in Sessions, NEW r \in Roles, Take(s, r), UNCHANGED body
  PROVE  /\ BoxType'
         /\ mail[s][r] # << >> /\ 1 \in 1..Len(mail[s][r])
         /\ Head(mail[s][r]) = mail[s][r][1]
         /\ UNCHANGED <<occupant, home, posted>>
         /\ \A t \in Sessions, q \in Roles : t # s \/ q # r => mail'[t][q] = mail[t][q]
         /\ \A t \in Sessions, q \in Roles : \A x :
              (t # s \/ q # r) => InMail(t, q, x)' = InMail(t, q, x)
         /\ \A x : InMail(s, r, x)' = {i \in 1..(Len(mail[s][r]) - 1) : i + 1 \in InMail(s, r, x)}
<1>. DEFINE q == mail[s][r]
<1>1. /\ q \in Seq(Letters) /\ q # << >> /\ mail' = [mail EXCEPT ![s][r] = Tail(q)]
      /\ UNCHANGED <<occupant, home, posted>>
  BY DEF Take, BoxType
<1>2. /\ Len(q) \in Nat /\ 1 \in 1..Len(q) /\ Head(q) = q[1]
      /\ Tail(q) \in Seq(Letters) /\ Len(Tail(q)) = Len(q) - 1
      /\ \A i \in 1..Len(Tail(q)) : Tail(q)[i] = q[i + 1] /\ i + 1 \in 1..Len(q)
  BY <1>1
<1>3. mail'[s][r] = Tail(q) /\ \A t \in Sessions, u \in Roles : t # s \/ u # r => mail'[t][u] = mail[t][u]
  BY <1>1 DEF BoxType
<1>4. mail' \in [Sessions -> [Roles -> Seq(Letters)]]
  BY <1>1, <1>2 DEF BoxType
<1>5. ASSUME NEW t \in Sessions, NEW u \in Roles PROVE Lawful(t, u)'
  <2>1. CASE t = s /\ u = r
    <3>1. Lawful(s, r)
      BY DEF BoxType
    <3>2. \A i \in 1..Len(mail'[s][r]) : mail'[s][r][i] = q[i + 1] /\ i + 1 \in 1..Len(q)
      BY <1>2, <1>3
    <3>. QED BY <1>1, <2>1, <3>1, <3>2 DEF Lawful
  <2>2. CASE ~(t = s /\ u = r)
    <3>1. mail'[t][u] = mail[t][u]
      BY <1>3, <2>2
    <3>. QED BY <1>1, <3>1 DEF BoxType, Lawful
  <2>. QED BY <2>1, <2>2
<1>6. BoxType'
  BY <1>1, <1>4, <1>5 DEF BoxType
<1>7. ASSUME NEW x PROVE InMail(s, r, x)' = {i \in 1..(Len(q) - 1) : i + 1 \in InMail(s, r, x)}
  BY <1>2, <1>3 DEF InMail
<1>8. ASSUME NEW t \in Sessions, NEW u \in Roles, NEW x, t # s \/ u # r
      PROVE  InMail(t, u, x)' = InMail(t, u, x)
  BY <1>3, <1>8 DEF InMail
<1>. QED BY <1>1, <1>2, <1>3, <1>6, <1>7, <1>8

(* A message that the hub takes.                                           *)
LEMMA Posted ==
  ASSUME BoxType, SeatType, NEW p \in Peers, Post(p),
         NEW s \in Sessions, s = home[p], NEW r \in Roles, r = Other(RoleOf(p)),
         NEW content \in ContentsFor(r), body' = Append(body, content)
  PROVE  /\ BoxType'
         /\ UNCHANGED <<occupant, home>>
         /\ Len(mail[s][r]) \in Nat /\ Len(mail'[s][r]) = Len(mail[s][r]) + 1
         /\ \A t \in Sessions, u \in Roles : t # s \/ u # r => mail'[t][u] = mail[t][u]
         /\ \A t \in Sessions, u \in Roles : \A x :
              t # s \/ u # r \/ x # content => InMail(t, u, x)' = InMail(t, u, x)
         /\ InMail(s, r, content)' = InMail(s, r, content) \cup {Len(mail[s][r]) + 1}
<1>1. /\ posted \in Nat /\ posted' = posted + 1 /\ UNCHANGED <<occupant, home>>
      /\ mail' = [mail EXCEPT ![s][r] = Append(mail[s][r], [from |-> p, n |-> posted + 1])]
  BY DEF Post, BoxType
<1>2. PICK letter \in Letters :
        letter.n = posted' /\ mail' = [mail EXCEPT ![s][r] = Append(mail[s][r], letter)]
  <2>1. [from |-> p, n |-> posted + 1] \in Letters /\ [from |-> p, n |-> posted + 1].n = posted'
    BY <1>1 DEF Letters
  <2>. QED BY <1>1, <2>1
<1>3. PICK q \in Seq(Letters) : q = mail[s][r]
  BY DEF BoxType
<1>4. /\ Len(q) \in Nat /\ Append(q, letter) \in Seq(Letters)
      /\ Len(Append(q, letter)) = Len(q) + 1
      /\ \A i \in 1..Len(q) : Append(q, letter)[i] = q[i]
      /\ Append(q, letter)[Len(q) + 1] = letter
  OBVIOUS
<1>5. /\ mail' \in [Sessions -> [Roles -> Seq(Letters)]]
      /\ mail'[s][r] = Append(q, letter)
      /\ \A t \in Sessions, u \in Roles : t # s \/ u # r => mail'[t][u] = mail[t][u]
  BY <1>2, <1>3, <1>4 DEF BoxType
<1>6. content \in Contents
  BY DEF ContentsFor, Contents
<1>7. /\ body' \in Seq(Contents) /\ Len(body') = posted'
      /\ \A n \in 1..posted : body'[n] = body[n]
      /\ body'[posted'] = content
  BY <1>1, <1>6 DEF BoxType
<1>8. ASSUME NEW t \in Sessions, NEW u \in Roles, NEW i \in 1..Len(mail[t][u])
      PROVE  /\ mail[t][u][i].n <= posted'
             /\ body'[mail[t][u][i].n] = body[mail[t][u][i].n]
             /\ body[mail[t][u][i].n] \in ContentsFor(u)
  <2>1. mail[t][u][i].n \in 1..posted /\ body[mail[t][u][i].n] \in ContentsFor(u)
    BY LetterFacts
  <2>. QED BY <1>1, <1>7, <2>1
<1>9. /\ 1..Len(mail'[s][r]) = (1..Len(q)) \cup {Len(q) + 1} /\ Len(q) + 1 \notin 1..Len(q)
      /\ \A i \in 1..Len(q) : mail'[s][r][i] = q[i]
      /\ mail'[s][r][Len(q) + 1] = letter
  BY <1>4, <1>5
<1>14. ASSUME NEW i \in 1..Len(q)
       PROVE  /\ mail'[s][r][i].n <= posted'
              /\ body'[mail'[s][r][i].n] = body[q[i].n]
              /\ body'[mail'[s][r][i].n] \in ContentsFor(r)
  <2>1. i \in 1..Len(mail[s][r]) /\ mail'[s][r][i] = mail[s][r][i] /\ q[i] = mail[s][r][i]
    BY <1>3, <1>9
  <2>2. /\ mail[s][r][i].n <= posted'
        /\ body'[mail[s][r][i].n] = body[mail[s][r][i].n]
        /\ body[mail[s][r][i].n] \in ContentsFor(r)
    BY <1>8, <2>1
  <2>. QED BY <2>1, <2>2
<1>10. BoxType'
  <2>1. ASSUME NEW t \in Sessions, NEW u \in Roles PROVE Lawful(t, u)'
    <3>1. CASE t = s /\ u = r
      <4>1. /\ mail'[s][r][Len(q) + 1].n <= posted'
            /\ body'[mail'[s][r][Len(q) + 1].n] \in ContentsFor(r)
        BY <1>1, <1>2, <1>7, <1>9
      <4>2. ASSUME NEW i \in 1..Len(q)
            PROVE  mail'[s][r][i].n <= posted' /\ body'[mail'[s][r][i].n] \in ContentsFor(r)
        BY <1>14
      <4>. QED BY <1>9, <3>1, <4>1, <4>2 DEF Lawful
    <3>2. CASE ~(t = s /\ u = r)
      <4>1. mail'[t][u] = mail[t][u]
        BY <1>5, <3>2
      <4>. QED BY <1>8, <4>1 DEF Lawful
    <3>. QED BY <3>1, <3>2
  <2>. QED BY <1>1, <1>5, <1>7, <2>1 DEF BoxType
<1>11. ASSUME NEW t \in Sessions, NEW u \in Roles, NEW x, t # s \/ u # r
       PROVE  InMail(t, u, x)' = InMail(t, u, x)
  <2>1. mail'[t][u] = mail[t][u]
    BY <1>5, <1>11
  <2>2. \A i \in 1..Len(mail[t][u]) : body'[mail[t][u][i].n] = body[mail[t][u][i].n]
    BY <1>8
  <2>3. InMail(t, u, x)' = {i \in 1..Len(mail[t][u]) : body'[mail[t][u][i].n] = x}
    BY <2>1 DEF InMail
  <2>. QED BY <2>2, <2>3 DEF InMail
<1>12. ASSUME NEW x
       PROVE  InMail(s, r, x)' = InMail(s, r, x) \cup (IF x = content THEN {Len(q) + 1} ELSE {})
  <2>1. InMail(s, r, x)' = {i \in 1..Len(mail'[s][r]) : body'[mail'[s][r][i].n] = x}
    BY DEF InMail
  <2>2. \A i \in 1..Len(q) : body'[mail'[s][r][i].n] = x <=> body[q[i].n] = x
    BY <1>14
  <2>3. body'[mail'[s][r][Len(q) + 1].n] = x <=> x = content
    BY <1>2, <1>7, <1>9
  <2>4. InMail(s, r, x) = {i \in 1..Len(q) : body[q[i].n] = x}
    BY <1>3 DEF InMail
  <2>. HIDE DEF InMail
  <2>. QED BY <1>9, <2>1, <2>2, <2>3, <2>4
<1>13. Len(mail[s][r]) \in Nat /\ Len(mail'[s][r]) = Len(mail[s][r]) + 1
  BY <1>3, <1>4, <1>5
<1>15. InMail(s, r, content)' = InMail(s, r, content) \cup {Len(mail[s][r]) + 1}
  BY <1>3, <1>12
<1>16. \A t \in Sessions, u \in Roles : \A x :
         t # s \/ u # r \/ x # content => InMail(t, u, x)' = InMail(t, u, x)
  <2>1. ASSUME NEW x, x # content PROVE InMail(s, r, x)' = InMail(s, r, x)
    <3>1. InMail(s, r, x)' = InMail(s, r, x) \cup (IF x = content THEN {Len(q) + 1} ELSE {})
      BY <1>12
    <3>. QED BY <2>1, <3>1
  <2>. QED BY <1>11, <2>1
<1>. QED BY <1>1, <1>5, <1>10, <1>13, <1>15, <1>16

(* A message that the hub refuses is lost; its content is recorded.        *)
LEMMA RefusedMail ==
  ASSUME BoxType, NEW p \in Peers, Refuse(p),
         NEW content \in Contents, body' = Append(body, content)
  PROVE  /\ BoxType'
         /\ UNCHANGED <<occupant, home, mail>>
         /\ \A t \in Sessions, u \in Roles : \A x : InMail(t, u, x)' = InMail(t, u, x)
<1>1. /\ posted \in Nat /\ posted' = posted + 1 /\ UNCHANGED <<occupant, home, mail>>
  BY DEF Refuse, BoxType
<1>2. /\ body' \in Seq(Contents) /\ Len(body') = posted'
      /\ \A n \in 1..posted : body'[n] = body[n]
  BY <1>1 DEF BoxType
<1>3. ASSUME NEW t \in Sessions, NEW u \in Roles, NEW i \in 1..Len(mail[t][u])
      PROVE  /\ mail[t][u][i].n <= posted'
             /\ body'[mail[t][u][i].n] = body[mail[t][u][i].n]
             /\ body[mail[t][u][i].n] \in ContentsFor(u)
  <2>1. mail[t][u][i].n \in 1..posted /\ body[mail[t][u][i].n] \in ContentsFor(u)
    BY LetterFacts
  <2>. QED BY <1>1, <1>2, <2>1
<1>4. BoxType'
  <2>1. ASSUME NEW t \in Sessions, NEW u \in Roles PROVE Lawful(t, u)'
    BY <1>1, <1>3 DEF Lawful
  <2>. QED BY <1>1, <1>2, <2>1 DEF BoxType
<1>5. \A t \in Sessions, u \in Roles : \A x : InMail(t, u, x)' = InMail(t, u, x)
  BY <1>1, <1>3 DEF InMail
<1>. QED BY <1>1, <1>4, <1>5

LEMMA MailFrame ==
  ASSUME UNCHANGED <<mvars, body>>
  PROVE  /\ BoxType => BoxType'
         /\ SeatType => SeatType'
         /\ UNCHANGED <<occupant, mail, home, posted>>
         /\ \A s, r, x : InMail(s, r, x)' = InMail(s, r, x)
  BY DEF mvars, BoxType, SeatType, Lawful, InMail

LEMMA SaidTypes ==
  ASSUME BoxType, SeatType, NEW p \in Peers,
         NEW content \in ContentsFor(Other(RoleOf(p))), Say(p, content)
  PROVE  /\ BoxType' /\ SeatType'
         /\ UNCHANGED <<occupant, home>>
<1>1. body' = Append(body, content) /\ content \in Contents
  BY DEF Say, ContentsFor, Contents
<1>2. CASE Post(p)
  <2>1. home[p] \in Sessions /\ Other(RoleOf(p)) \in Roles
    BY <1>2, RoleFacts DEF Post, SeatType
  <2>. QED BY <1>1, <1>2, <2>1, Posted DEF SeatType
<1>3. CASE Refuse(p)
  BY <1>1, <1>3, RefusedMail DEF SeatType
<1>. QED BY <1>2, <1>3 DEF Say

(***************************************************************************)
(* The types, with what they rest on: the names that the app and the       *)
(* gateway use in each of their phases are real ones.                      *)
(***************************************************************************)
Absent == {"none", "creating"}
NamesInv ==
  /\ \A c \in Clients : sid[c] = NoSession <=> app[c] \in Absent
  /\ \A c \in Clients : want[c] \in {NoSession, sid[c]}
  /\ phase = "starting" => want[gateway] \in {NoSession, target}
  /\ phase = "idle" => gateway = NoPeer /\ target = NoSession
  /\ phase # "idle" => gateway \in Gateways /\ target \in Sessions

TypeInv == NegTypeOK /\ BoxType /\ SeatType /\ NamesInv

ApiStep ==
  \/ \E c \in Clients : ReadPrevious(c) \/ CreateSession(c) \/ DeleteSession(c) \/ Logout(c)
  \/ \E p \in Peers : HandlerRefused(p) \/ HandlerLeaves(p)
  \/ \E s \in Sessions : Expire(s)
  \/ ApiRestarts
AppStep ==
  \E c \in Clients : ClientDials(c) \/ ClientJoins(c) \/ SendCandidate(c) \/ SendOffer(c) \/ ClientReads(c) \/ Quit(c)
LateJoin == \E p \in Peers : HandlerJoins(p)

LEMMA NegSteps == NegNext <=> ApiStep \/ LateJoin \/ AppStep \/ GatewayNext
  BY DEF NegNext, ApiStep, LateJoin, AppStep, HandlerStep

LEMMA TypeInit == NegInit => TypeInv
<1>. SUFFICES ASSUME NegInit PROVE TypeInv
  OBVIOUS
<1>1. /\ posted = 0 /\ body = << >> /\ body \in Seq(Contents) /\ Len(body) = 0
      /\ mail \in [Sessions -> [Roles -> Seq(Letters)]]
      /\ \A s \in Sessions, r \in Roles : mail[s][r] = << >>
  BY DEF NegInit, Init, NoMail
<1>2. BoxType
  BY <1>1 DEF BoxType, Lawful
<1>3. SeatType
  BY DEF NegInit, Init, Nobody, SeatType
<1>4. NegTypeOK
  BY <1>1, BoundsAssumption DEF NegInit, NegTypeOK
<1>. QED BY <1>2, <1>3, <1>4, RoleFacts DEF TypeInv, NamesInv, NegInit, Absent

(* The session that createSession makes.                                   *)
LEMMA Created ==
  ASSUME NEW c \in Clients, CreateSession(c)
  PROVE  \E s \in Sessions :
           /\ row[s] = "none"
           /\ row' = [t \in Sessions |->
                        IF t = s THEN "live"
                        ELSE IF row[t] \in {"live", "expired"} THEN "revoked" ELSE row[t]]
           /\ sid' = [sid EXCEPT ![c] = s]
           /\ app[c] = "creating" /\ app' = [app EXCEPT ![c] = "created"]
           /\ CloseRooms(Replaced(c)) /\ previous' = [previous EXCEPT ![c] = NoSession]
           /\ UNCHANGED <<body, want, candidates, phase, gateway, target, failures>>
<1>1. PICK s \in Sessions : s = CHOOSE t \in Sessions : row[t] = "none"
  BY DEF CreateSession
<1>2. row[s] = "none"
  BY <1>1 DEF CreateSession
<1>. QED BY <1>1, <1>2, Zenon DEF CreateSession, gatewayVars

LEMMA BodyType ==
  ASSUME BoxType' PROVE (Len(body) = posted /\ \A n \in 1..Len(body) : body[n] \in {"offer", "ice", "answer"})'
  BY DEF BoxType, Contents

LEMMA ApiTypes == TypeInv /\ ApiStep => TypeInv'
<1>. SUFFICES ASSUME TypeInv, ApiStep PROVE TypeInv'
  OBVIOUS
<1>. USE DEF TypeInv
<1>1. ASSUME NEW S, CloseRooms(S), UNCHANGED body PROVE BoxType' /\ SeatType'
  BY <1>1, Closed, Emptied
<1>2. ASSUME NEW c \in Clients, CreateSession(c) PROVE TypeInv'
  <2>1. PICK s \in Sessions :
           /\ row' = [t \in Sessions |->
                        IF t = s THEN "live"
                        ELSE IF row[t] \in {"live", "expired"} THEN "revoked" ELSE row[t]]
           /\ sid' = [sid EXCEPT ![c] = s]
           /\ app[c] = "creating" /\ app' = [app EXCEPT ![c] = "created"]
           /\ CloseRooms(Replaced(c)) /\ previous' = [previous EXCEPT ![c] = NoSession]
           /\ UNCHANGED <<body, want, candidates, phase, gateway, target, failures>>
    BY <1>2, Created
  <2>2. BoxType' /\ SeatType'
    BY <1>1, <2>1
  <2>3. NegTypeOK'
    BY <2>1, <2>2, BodyType DEF NegTypeOK
  <2>4. NamesInv'
    BY <2>1, NamesAssumption, RoleFacts DEF NamesInv, NegTypeOK, Absent
  <2>. QED BY <2>2, <2>3, <2>4
<1>7. ASSUME NEW c \in Clients, ReadPrevious(c) PROVE TypeInv'
  <2>1. Active \in Sessions \cup {NoSession}
    BY DEF Active, Live
  <2>2. /\ app[c] = "none" /\ app' = [app EXCEPT ![c] = "creating"]
        /\ previous' = [previous EXCEPT ![c] = Active]
        /\ UNCHANGED <<mvars, row, body, want, sid, candidates, phase, gateway, target, failures>>
    BY <1>7 DEF ReadPrevious, gatewayVars
  <2>3. NegTypeOK'
    BY <2>1, <2>2, MailFrame, BodyType DEF NegTypeOK
  <2>4. NamesInv'
    BY <2>2 DEF NamesInv, NegTypeOK, Absent
  <2>. QED BY <2>2, <2>3, <2>4, MailFrame
<1>3. ASSUME NEW c \in Clients, DeleteSession(c) \/ Logout(c) PROVE TypeInv'
  <2>1. /\ row' \in [Sessions -> {"none", "live", "expired", "revoked"}]
        /\ UNCHANGED <<body, want, app, previous, sid, candidates, phase, gateway, target, failures>>
    BY <1>3 DEF DeleteSession, Logout, NegTypeOK, appVars, gatewayVars
  <2>2. BoxType' /\ SeatType'
    BY <1>1, <1>3 DEF DeleteSession, Logout
  <2>. QED BY <2>1, <2>2, BodyType DEF NegTypeOK, NamesInv
<1>4. ASSUME NEW p \in Peers, HandlerLeaves(p) PROVE TypeInv'
  <2>1. /\ Exit(p) /\ UNCHANGED <<row, body, want, appVars, gatewayVars>>
    BY <1>4 DEF HandlerLeaves
  <2>2. BoxType' /\ SeatType'
    BY <2>1, Exited, Emptied
  <2>. QED BY <2>1, <2>2, BodyType DEF NegTypeOK, NamesInv, appVars, gatewayVars
<1>5. ASSUME NEW s \in Sessions, Expire(s) PROVE TypeInv'
  <2>1. /\ row' \in [Sessions -> {"none", "live", "expired", "revoked"}]
        /\ UNCHANGED <<mvars, body, want, app, previous, sid, candidates, phase, gateway, target, failures>>
    BY <1>5 DEF Expire, NegTypeOK, appVars, gatewayVars
  <2>. QED BY <2>1, MailFrame, BodyType DEF NegTypeOK, NamesInv
<1>6. CASE ApiRestarts
  <2>1. /\ UNCHANGED <<row, body, previous, sid, candidates>>
        /\ failures' \in Nat /\ CloseRooms(Sessions)
        /\ want' = [p \in Peers |-> NoSession]
    BY <1>6 DEF ApiRestarts, NegTypeOK
  <2>2. BoxType' /\ SeatType'
    BY <1>1, <2>1
  <2>3. /\ app' \in [Clients -> {"none", "creating", "created", "joined", "offered", "answered", "closed"}]
        /\ \A c \in Clients : app'[c] \in Absent <=> app[c] \in Absent
    BY <1>6 DEF ApiRestarts, NegTypeOK, NamesInv, Absent
  <2>4. Return \/ UNCHANGED <<phase, gateway, target>>
    BY <1>6 DEF ApiRestarts
  <2>5. NegTypeOK'
    BY <2>1, <2>2, <2>3, <2>4, BodyType DEF NegTypeOK, Return
  <2>6. NamesInv'
    BY <2>1, <2>3, <2>4, RoleFacts DEF NamesInv, Return
  <2>. QED BY <2>2, <2>5, <2>6
<1>8. ASSUME NEW p \in Peers, HandlerRefused(p) PROVE TypeInv'
  <2>1. /\ want' = [want EXCEPT ![p] = NoSession]
        /\ UNCHANGED <<mvars, row, body, appVars, gatewayVars>>
    BY <1>8 DEF HandlerRefused, Settles
  <2>. QED BY <2>1, MailFrame, BodyType DEF NegTypeOK, NamesInv, appVars, gatewayVars
<1>. QED BY <1>2, <1>3, <1>4, <1>5, <1>6, <1>7, <1>8 DEF ApiStep

(* A handler of a connection that is gone joins.                           *)
LEMMA Joins ==
  ASSUME TypeInv, NEW p \in Peers, HandlerJoins(p)
  PROVE  \E s \in Sessions :
           /\ s = want[p] /\ Enter(p, s) /\ Gone(p)
           /\ want' = [want EXCEPT ![p] = NoSession]
           /\ UNCHANGED <<row, body, app, previous, sid, candidates, phase, gateway, target, failures>>
  BY DEF HandlerJoins, Settles, TypeInv, NegTypeOK, appVars, gatewayVars

LEMMA LateTypes == TypeInv /\ LateJoin => TypeInv'
<1>. SUFFICES ASSUME TypeInv, NEW p \in Peers, HandlerJoins(p) PROVE TypeInv'
  BY DEF LateJoin
<1>1. PICK s \in Sessions :
        /\ Enter(p, s) /\ want' = [want EXCEPT ![p] = NoSession]
        /\ UNCHANGED <<row, body, app, previous, sid, candidates, phase, gateway, target, failures>>
  BY Joins
<1>2. SeatType' /\ BoxType'
  BY <1>1, Entered DEF TypeInv, BoxType, Lawful
<1>. QED BY <1>1, <1>2, BodyType DEF TypeInv, NegTypeOK, NamesInv

LEMMA AppTypes == TypeInv /\ AppStep => TypeInv'
<1>. SUFFICES ASSUME TypeInv, NEW c \in Clients,
                     ClientDials(c) \/ ClientJoins(c) \/ SendCandidate(c) \/ SendOffer(c) \/ ClientReads(c) \/ Quit(c)
              PROVE  TypeInv'
  BY DEF AppStep
<1>. USE DEF TypeInv
<1>1. c \in Peers /\ \A x \in {"offer", "ice"} : x \in ContentsFor(Other(RoleOf(c)))
  BY RoleFacts DEF ContentsFor
<1>2. UNCHANGED <<row, previous, sid, phase, gateway, target, failures>>
  BY DEF ClientDials, ClientJoins, SendCandidate, SendOffer, ClientReads, Quit, appVars, gatewayVars
<1>3. app[c] \notin Absent => sid[c] \in Sessions
  BY DEF NamesInv, NegTypeOK
<1>6. /\ want' \in [Peers -> Sessions \cup {NoSession}]
      /\ \A d \in Clients : want'[d] \in {NoSession, sid[d]}
      /\ \A g \in Gateways : want'[g] = want[g]
  <2>1. UNCHANGED want \/ \E s \in {NoSession, sid[c]} : want' = [want EXCEPT ![c] = s]
    BY DEF ClientDials, ClientJoins, SendCandidate, SendOffer, ClientReads, Quit, Finds, Settles
  <2>2. want \in [Peers -> Sessions \cup {NoSession}] /\ sid[c] \in Sessions \cup {NoSession}
    BY DEF NegTypeOK
  <2>3. \A d \in Clients : d \in Peers /\ want[d] \in {NoSession, sid[d]}
    BY RoleFacts DEF NamesInv
  <2>4. \A g \in Gateways : g \in Peers /\ g # c
    BY NamesAssumption, RoleFacts
  <2>. QED BY <1>1, <2>1, <2>2, <2>3, <2>4
<1>4. BoxType' /\ SeatType'
  <2>1. CASE ClientJoins(c)
    <3>1. sid[c] \in Sessions /\ Enter(c, sid[c]) /\ UNCHANGED body
      BY <1>3, <2>1 DEF ClientJoins, Settles, NamesInv, Absent
    <3>2. SeatType' /\ UNCHANGED <<mail, posted, body>>
      BY <1>1, <3>1, Entered
    <3>. QED BY <3>2 DEF BoxType, Lawful
  <2>2. CASE SendCandidate(c) \/ SendOffer(c)
    BY <1>1, <2>2, SaidTypes DEF SendCandidate, SendOffer
  <2>3. CASE ClientReads(c)
    <3>1. /\ sid[c] \in Sessions /\ "client" \in Roles
          /\ Take(sid[c], "client") /\ UNCHANGED body
      BY <1>3, <2>3 DEF ClientReads, Roles, Absent
    <3>2. BoxType' /\ UNCHANGED <<occupant, home>>
      BY <3>1, Taken
    <3>. QED BY <3>2 DEF SeatType
  <2>4. CASE ClientDials(c) \/ Quit(c)
    BY <2>4, MailFrame DEF ClientDials, Quit
  <2>. QED BY <2>1, <2>2, <2>3, <2>4
<1>5. /\ app' \in [Clients -> {"none", "creating", "created", "joined", "offered", "answered", "closed"}]
      /\ \A d \in Clients : app'[d] \in Absent <=> app[d] \in Absent
      /\ candidates' \in [Clients -> 0..MaxCandidates]
  <2>1. CASE ClientDials(c) \/ ClientJoins(c) \/ SendOffer(c) \/ ClientReads(c) \/ Quit(c)
    BY <2>1 DEF ClientDials, ClientJoins, SendOffer, ClientReads, Quit, NegTypeOK, Absent, appVars
  <2>2. CASE SendCandidate(c)
    BY <2>2, BoundsAssumption DEF SendCandidate, NegTypeOK
  <2>. QED BY <2>1, <2>2
<1>7. NegTypeOK'
  BY <1>2, <1>4, <1>5, <1>6, BodyType DEF NegTypeOK
<1>8. NamesInv'
  BY <1>2, <1>5, <1>6 DEF NamesInv
<1>. QED BY <1>4, <1>7, <1>8

LEMMA GatewayTypes == TypeInv /\ GatewayNext => TypeInv'
<1>. SUFFICES ASSUME TypeInv, GatewayNext PROVE TypeInv'
  OBVIOUS
<1>. USE DEF TypeInv
<1>1. UNCHANGED <<row, app, previous, sid, candidates>>
  BY DEF GatewayNext, Poll, Dial, GatewayJoins, DialRefused, ReadMessage, WriteAnswer, SignallingEnds, Connect,
     PeerFails, GatewayFails, appVars
<1>2. phase # "idle" => gateway \in Peers /\ gateway \in Gateways /\ target \in Sessions
  BY RoleFacts DEF NamesInv
<1>3. BoxType' /\ SeatType'
  <2>1. CASE GatewayJoins
    <3>1. target \in Sessions /\ gateway \in Peers /\ Enter(gateway, target) /\ UNCHANGED body
      BY <1>2, <2>1 DEF GatewayJoins, Settles, NamesInv
    <3>. QED BY <3>1, Entered DEF BoxType, Lawful
  <2>2. CASE ReadMessage
    BY <1>2, <2>2, Taken DEF ReadMessage, SeatType, Roles
  <2>3. CASE WriteAnswer
    <3>1. gateway \in Gateways /\ gateway \in Peers /\ "answer" \in ContentsFor(Other(RoleOf(gateway)))
      BY <1>2, <2>3, RoleFacts DEF WriteAnswer, ContentsFor
    <3>. QED BY <2>3, <3>1, SaidTypes DEF WriteAnswer
  <2>4. CASE Poll \/ Dial \/ DialRefused \/ SignallingEnds \/ Connect \/ PeerFails \/ GatewayFails
    BY <2>4, MailFrame DEF Poll, Dial, DialRefused, SignallingEnds, Connect, PeerFails, GatewayFails
  <2>. QED BY <2>1, <2>2, <2>3, <2>4 DEF GatewayNext
<1>4. failures' \in Nat
  BY DEF GatewayNext, Poll, Dial, GatewayJoins, DialRefused, ReadMessage, WriteAnswer, SignallingEnds,
     Connect, PeerFails, GatewayFails, NegTypeOK, gatewayVars
<1>7. /\ want' \in [Peers -> Sessions \cup {NoSession}]
      /\ \A c \in Clients : want'[c] = want[c]
      /\ phase' = "starting" => want'[gateway'] \in {NoSession, target'}
  <2>1. CASE Poll
    <3>1. UNCHANGED want /\ want[gateway'] = NoSession
      BY <2>1 DEF Poll, Free
    <3>. QED BY <3>1 DEF NegTypeOK
  <2>2. CASE Dial
    <3>1. want' = [want EXCEPT ![gateway] = target] /\ UNCHANGED <<gateway, target>>
      BY <2>2 DEF Dial, Finds, gatewayVars
    <3>2. gateway \in Peers /\ gateway \in Gateways /\ target \in Sessions
      BY <1>2, <2>2 DEF Dial
    <3>. QED BY <3>1, <3>2, NamesAssumption, RoleFacts DEF NegTypeOK
  <2>3. CASE GatewayJoins \/ DialRefused
    <3>1. want' \in {want, [want EXCEPT ![gateway] = NoSession]} /\ phase' # "starting"
      BY <2>3 DEF GatewayJoins, DialRefused, Settles, Return
    <3>2. gateway \in Gateways
      BY <1>2, <2>3 DEF GatewayJoins, DialRefused
    <3>. QED BY <3>1, <3>2, NamesAssumption, RoleFacts DEF NegTypeOK
  <2>4. CASE ~(Poll \/ Dial \/ GatewayJoins \/ DialRefused)
    <3>1. UNCHANGED want
      BY <2>4 DEF GatewayNext, ReadMessage, WriteAnswer, SignallingEnds, Connect, PeerFails, GatewayFails
    <3>2. phase' # "starting"
      BY <2>4 DEF GatewayNext, ReadMessage, Reaction, WriteAnswer, SignallingEnds, Connect, PeerFails,
         GatewayFails, Return
    <3>. QED BY <3>1, <3>2 DEF NegTypeOK
  <2>. QED BY <2>1, <2>2, <2>3, <2>4
<1>5. \/ Return
      \/ /\ phase' \in {"starting", "reading", "gathering", "answered", "connected"}
         /\ gateway' \in Gateways /\ target' \in Sessions
  <2>1. CASE Poll
    <3>1. gateway' \in Gateways
      BY <2>1 DEF Poll
    <3>. QED BY <2>1, <3>1 DEF Poll, Live
  <2>2. CASE ReadMessage
    <3>1. PICK x : \/ x = "idle" /\ Return
                   \/ x # "idle" /\ phase' = x /\ x \in {phase, "gathering"} /\ UNCHANGED <<gateway, target>>
      BY <2>2, Zenon DEF ReadMessage, Reaction
    <3>. QED BY <1>2, <2>2, <3>1 DEF ReadMessage
  <2>3. CASE Dial \/ GatewayJoins \/ WriteAnswer \/ Connect
    BY <1>2, <2>3 DEF Dial, GatewayJoins, WriteAnswer, Connect, gatewayVars
  <2>4. CASE DialRefused \/ SignallingEnds \/ PeerFails \/ GatewayFails
    BY <2>4 DEF DialRefused, SignallingEnds, PeerFails, GatewayFails
  <2>. QED BY <2>1, <2>2, <2>3, <2>4 DEF GatewayNext
<1>6. /\ phase' \in {"idle", "starting", "reading", "gathering", "answered", "connected"}
      /\ gateway' \in Gateways \cup {NoPeer} /\ target' \in Sessions \cup {NoSession}
      /\ phase' = "idle" => gateway' = NoPeer /\ target' = NoSession
      /\ phase' # "idle" => gateway' \in Gateways /\ target' \in Sessions
  BY <1>5 DEF Return
<1>8. NegTypeOK'
  BY <1>1, <1>3, <1>4, <1>6, <1>7, BodyType DEF NegTypeOK
<1>9. NamesInv'
  BY <1>1, <1>6, <1>7 DEF NamesInv
<1>. QED BY <1>3, <1>8, <1>9

LEMMA TypeStep == TypeInv /\ [NegNext]_negVars => TypeInv'
<1>1. TypeInv /\ UNCHANGED negVars => TypeInv'
  BY MailFrame, BodyType DEF TypeInv, negVars, appVars, gatewayVars, NegTypeOK, NamesInv
<1>. QED BY <1>1, NegSteps, ApiTypes, LateTypes, AppTypes, GatewayTypes

LEMMA TypeInvHolds == NegSpec => []TypeInv
  BY TypeInit, TypeStep, PTL DEF NegSpec

(* Types; the contents are those of the messages posted.                   *)
THEOREM NegTypeCorrect == NegSpec => []NegTypeOK
<1>1. TypeInv => NegTypeOK
  BY DEF TypeInv
<1>. QED BY <1>1, TypeInvHolds, PTL

(***************************************************************************)
(* What the parties do to the mailbox is what SignalMailbox allows, and    *)
(* the rooms it closes for more than one session.                          *)
(***************************************************************************)
Closures == {Live, Sessions, {}} \cup {{s} : s \in Sessions}
MailStep == Next \/ \E S \in Closures : CloseRooms(S)

LEMMA MailboxSteps == TypeInv /\ NegNext => MailStep \/ UNCHANGED mvars
<1>. SUFFICES ASSUME TypeInv, NegNext PROVE MailStep \/ UNCHANGED mvars
  OBVIOUS
<1>0. /\ \A c \in Clients : app[c] \notin Absent => sid[c] \in Sessions
      /\ phase # "idle" => gateway \in Peers /\ target \in Sessions
  BY RoleFacts DEF TypeInv, NamesInv, NegTypeOK
<1>1. CASE ApiStep
  <2>1. CASE \E c \in Clients : CreateSession(c) \/ Logout(c)
    <3>1. PICK c \in Clients : CloseRooms(Live) \/ CloseRooms(Replaced(c))
      BY <2>1 DEF CreateSession, Logout
    <3>2. Replaced(c) \in Closures
      BY DEF Replaced, Closures
    <3>. QED BY <3>1, <3>2 DEF MailStep, Closures
  <2>2. CASE \E c \in Clients : DeleteSession(c)
    <3>1. PICK c \in Clients : CloseRooms({sid[c]}) /\ sid[c] # NoSession
      BY <2>2 DEF DeleteSession
    <3>2. {sid[c]} \in Closures
      BY <3>1 DEF TypeInv, NegTypeOK, Closures
    <3>. QED BY <3>1, <3>2 DEF MailStep
  <2>3. CASE \E p \in Peers : HandlerLeaves(p)
    BY <2>3 DEF HandlerLeaves, MailStep, Next
  <2>4. CASE (\E s \in Sessions : Expire(s)) \/ ApiRestarts
    BY <2>4 DEF Expire, ApiRestarts, MailStep, Closures
  <2>5. CASE (\E c \in Clients : ReadPrevious(c)) \/ \E p \in Peers : HandlerRefused(p)
    BY <2>5 DEF ReadPrevious, HandlerRefused
  <2>. QED BY <1>1, <2>1, <2>2, <2>3, <2>4, <2>5 DEF ApiStep
<1>2. CASE AppStep
  <2>1. PICK c \in Clients :
          ClientDials(c) \/ ClientJoins(c) \/ SendCandidate(c) \/ SendOffer(c) \/ ClientReads(c) \/ Quit(c)
    BY <1>2 DEF AppStep
  <2>2. CASE ClientJoins(c)
    <3>1. Enter(c, sid[c]) /\ sid[c] \in Sessions
      BY <1>0, <2>2 DEF ClientJoins, Settles, TypeInv, NamesInv, Absent
    <3>. QED BY <3>1, RoleFacts DEF MailStep, Next
  <2>3. CASE SendCandidate(c) \/ SendOffer(c)
    BY <2>3, RoleFacts DEF SendCandidate, SendOffer, Say, MailStep, Next
  <2>4. CASE ClientReads(c)
    <3>1. sid[c] \in Sessions /\ "client" \in Roles /\ Take(sid[c], "client")
      BY <1>0, <2>4 DEF ClientReads, Roles, Absent
    <3>. QED BY <3>1 DEF MailStep, Next
  <2>5. CASE ClientDials(c) \/ Quit(c)
    BY <2>5 DEF ClientDials, Quit
  <2>. QED BY <2>1, <2>2, <2>3, <2>4, <2>5
<1>3. CASE GatewayNext
  <2>1. CASE GatewayJoins
    <3>1. Enter(gateway, target) /\ gateway \in Peers /\ target \in Sessions
      BY <1>0, <2>1 DEF GatewayJoins, Settles, TypeInv, NamesInv
    <3>. QED BY <3>1 DEF MailStep, Next
  <2>2. CASE ReadMessage
    <3>1. target \in Sessions /\ "gateway" \in Roles /\ Take(target, "gateway")
      BY <1>0, <2>2 DEF ReadMessage, Roles
    <3>. QED BY <3>1 DEF MailStep, Next
  <2>3. CASE WriteAnswer
    BY <1>0, <2>3 DEF WriteAnswer, Say, MailStep, Next
  <2>4. CASE Poll \/ Dial \/ DialRefused \/ SignallingEnds \/ Connect \/ PeerFails \/ GatewayFails
    BY <2>4 DEF Poll, Dial, DialRefused, SignallingEnds, Connect, PeerFails, GatewayFails
  <2>. QED BY <1>3, <2>1, <2>2, <2>3, <2>4 DEF GatewayNext
<1>4. CASE LateJoin
  BY <1>4, Joins DEF LateJoin, MailStep, Next
<1>. QED BY <1>1, <1>2, <1>3, <1>4, NegSteps

(* Who sits in a session sits in that one and in its seat; where nobody    *)
(* sits, no mail waits.                                                    *)
Seats ==
  \A s \in Sessions, r \in Roles :
    occupant[s][r] # NoPeer => RoleOf(occupant[s][r]) = r /\ home[occupant[s][r]] = s
Empty(s) == \A r \in Roles : occupant[s][r] = NoPeer
Bare(s) == \A r \in Roles : mail[s][r] = << >>
Quiet == \A s \in Sessions : Empty(s) => Bare(s)

LEMMA EmptyRooms ==
  ASSUME SeatType, BoxType, NEW s \in Sessions
  PROVE  (occupant[s] = Nobody <=> Empty(s)) /\ (mail[s] = NoMail <=> Bare(s))
<1>1. occupant[s] \in [Roles -> Peers \cup {NoPeer}] /\ mail[s] \in [Roles -> Seq(Letters)]
  BY DEF SeatType, BoxType
<1>. QED BY <1>1 DEF Nobody, Empty, NoMail, Bare

LEMMA SeatsStep ==
  ASSUME TypeInv, Seats, Quiet, MailStep
  PROVE  Seats' /\ Quiet'
<1>. USE DEF TypeInv
<1>1. CASE \E p \in Peers, s \in Sessions : Enter(p, s)
  <2>1. PICK p \in Peers, s \in Sessions : Enter(p, s)
    BY <1>1
  <2>2. /\ home[p] = NoSession /\ home' = [home EXCEPT ![p] = s] /\ UNCHANGED mail
        /\ \A t \in Sessions, r \in Roles :
             occupant'[t][r] = IF t = s /\ r = RoleOf(p) THEN p ELSE occupant[t][r]
    BY <2>1, Entered
  <2>3. p # NoPeer /\ RoleOf(p) \in Roles
    BY NamesAssumption, RoleFacts
  <2>4. \A t \in Sessions : Empty(t)' => Empty(t)
    BY <2>2, <2>3 DEF Empty
  <2>5. Quiet'
    BY <2>2, <2>4 DEF Quiet, Bare
  <2>6. Seats'
    BY <2>2, <2>3, NamesAssumption DEF Seats, SeatType
  <2>. QED BY <2>5, <2>6
<1>2. CASE \E p \in Peers : Post(p)
  <2>1. PICK p \in Peers : Post(p)
    BY <1>2
  <2>2. PICK s \in Sessions : s = home[p]
    BY <2>1 DEF Post, SeatType
  <2>3. UNCHANGED <<occupant, home>> /\ occupant[s] # Nobody
    BY <2>1, <2>2 DEF Post
  <2>4. \A t \in Sessions : t # s => mail'[t] = mail[t]
    BY <2>1, <2>2 DEF Post, BoxType
  <2>5. ~Empty(s)
    BY <2>3, EmptyRooms
  <2>. QED BY <2>3, <2>4, <2>5 DEF Seats, Quiet, Empty, Bare
<1>3. CASE \E p \in Peers : Refuse(p)
  BY <1>3 DEF Refuse, Seats, Quiet, Empty, Bare
<1>4. CASE \E s \in Sessions, r \in Roles : Take(s, r)
  <2>1. PICK s \in Sessions, r \in Roles : Take(s, r)
    BY <1>4
  <2>2. UNCHANGED <<occupant, home>> /\ occupant[s][r] # NoPeer
    BY <2>1 DEF Take
  <2>3. \A t \in Sessions : t # s => mail'[t] = mail[t]
    BY <2>1 DEF Take, BoxType
  <2>. QED BY <2>2, <2>3 DEF Seats, Quiet, Empty, Bare
<1>5. CASE \E p \in Peers : Exit(p)
  <2>1. PICK p \in Peers : Exit(p)
    BY <1>5
  <2>2. PICK s \in Sessions, r \in Roles : s = home[p] /\ r = RoleOf(p)
    BY <2>1, RoleFacts DEF Exit, SeatType
  <2>3. /\ occupant' = [occupant EXCEPT ![s][r] = NoPeer] /\ UNCHANGED home
        /\ mail' = IF occupant[s][Other(r)] = NoPeer
                   THEN [mail EXCEPT ![s] = NoMail]
                   ELSE [mail EXCEPT ![s][r] = << >>]
    BY <2>1, <2>2 DEF Exit
  <2>4. Seats'
    BY <2>3 DEF Seats, SeatType
  <2>5. \A t \in Sessions : t # s => occupant'[t] = occupant[t] /\ mail'[t] = mail[t]
    BY <2>3 DEF BoxType, SeatType
  <2>6. Empty(s)' => Bare(s)'
    <3>1. Other(r) \in Roles /\ Other(r) # r
      BY DEF Other, Roles
    <3>2. occupant'[s][Other(r)] = occupant[s][Other(r)]
      BY <2>3, <3>1 DEF SeatType
    <3>3. occupant[s][Other(r)] = NoPeer => mail'[s] = NoMail
      BY <2>3 DEF BoxType
    <3>. QED BY <3>1, <3>2, <3>3 DEF Empty, Bare, NoMail
  <2>. QED BY <2>4, <2>5, <2>6 DEF Quiet, Empty, Bare
<1>6. CASE (\E s \in Sessions : Close(s)) \/ \E S \in Closures : CloseRooms(S)
  <2>1. PICK S \in SUBSET Sessions :
          /\ UNCHANGED home
          /\ \A t \in Sessions : IF t \in S THEN occupant'[t] = Nobody /\ mail'[t] = NoMail
                                ELSE occupant'[t] = occupant[t] /\ mail'[t] = mail[t]
    <3>1. ASSUME NEW s \in Sessions, Close(s)
          PROVE  \A t \in Sessions : IF t \in {s} THEN occupant'[t] = Nobody /\ mail'[t] = NoMail
                                   ELSE occupant'[t] = occupant[t] /\ mail'[t] = mail[t]
      BY <3>1 DEF Close, SeatType, BoxType
    <3>2. ASSUME NEW S \in SUBSET Sessions, CloseRooms(S)
          PROVE  \A t \in Sessions : IF t \in S THEN occupant'[t] = Nobody /\ mail'[t] = NoMail
                                   ELSE occupant'[t] = occupant[t] /\ mail'[t] = mail[t]
      BY <3>2 DEF CloseRooms
    <3>3. UNCHANGED home
      BY <1>6 DEF Close, CloseRooms
    <3>4. Closures \subseteq SUBSET Sessions /\ \A s \in Sessions : {s} \in SUBSET Sessions
      BY DEF Closures, Live
    <3>. QED BY <1>6, <3>1, <3>2, <3>3, <3>4
  <2>2. Seats'
    BY <2>1 DEF Seats, Nobody
  <2>3. Quiet'
    BY <2>1 DEF Quiet, Empty, Bare, NoMail
  <2>. QED BY <2>2, <2>3
<1>. QED BY <1>1, <1>2, <1>3, <1>4, <1>5, <1>6 DEF MailStep, Next

(***************************************************************************)
(* The sessions: at most one is live; nobody knows one that was not        *)
(* created; each has its own client; the gateway of a serveSession sits, or *)
(* sat, in the session it serves.                                          *)
(***************************************************************************)
OneLive == \A s, t \in Sessions : row[s] = "live" /\ row[t] = "live" => s = t
Unknown ==
  \A s \in Sessions : row[s] = "none" =>
    /\ target # s
    /\ \A p \in Peers : home[p] # s /\ want[p] # s
    /\ \A c \in Clients : sid[c] # s
OwnSid == \A c, d \in Clients : sid[c] = sid[d] /\ sid[c] # NoSession => c = d
ClientHome ==
  \A c \in Clients :
    /\ home[c] \in {NoSession, sid[c]}
    /\ app[c] \in Absent \cup {"created"} => home[c] = NoSession
    /\ app[c] \in {"joined", "offered", "answered"} => home[c] = sid[c]
GatewayHome ==
  /\ phase = "starting" => home[gateway] = NoSession
  /\ Joined => home[gateway] = target

RoomInv == OneLive /\ Unknown /\ OwnSid /\ ClientHome /\ GatewayHome
BaseInv == TypeInv /\ Seats /\ Quiet /\ RoomInv

LEMMA BaseInit == NegInit => BaseInv
<1>. SUFFICES ASSUME NegInit PROVE BaseInv
  OBVIOUS
<1>1. TypeInv
  BY TypeInit
<1>2. Seats /\ Quiet
  BY DEF NegInit, Init, Seats, Quiet, Empty, Bare, Nobody, NoMail
<1>3. RoomInv
  BY RoleFacts, NamesAssumption
     DEF NegInit, Init, RoomInv, OneLive, Unknown, OwnSid, ClientHome, GatewayHome, Joined
<1>. QED BY <1>1, <1>2, <1>3 DEF BaseInv

LEMMA ApiRooms == BaseInv /\ ApiStep => RoomInv'
<1>. SUFFICES ASSUME BaseInv, ApiStep PROVE RoomInv'
  OBVIOUS
<1>. USE DEF BaseInv, RoomInv
<1>1. ASSUME NEW c \in Clients, CreateSession(c) PROVE RoomInv'
  <2>1. PICK s \in Sessions :
           /\ row[s] = "none"
           /\ row' = [t \in Sessions |->
                        IF t = s THEN "live"
                        ELSE IF row[t] \in {"live", "expired"} THEN "revoked" ELSE row[t]]
           /\ sid' = [sid EXCEPT ![c] = s]
           /\ app[c] = "creating" /\ app' = [app EXCEPT ![c] = "created"]
           /\ CloseRooms(Replaced(c)) /\ previous' = [previous EXCEPT ![c] = NoSession]
           /\ UNCHANGED <<body, want, candidates, phase, gateway, target, failures>>
    BY <1>1, Created
  <2>2. home' = home
    BY <2>1 DEF CloseRooms
  <2>3. sid[c] = NoSession /\ home[c] = NoSession /\ \A d \in Clients : sid[d] # s
    BY <2>1 DEF TypeInv, NamesInv, ClientHome, Unknown, Absent
  <2>4. OneLive'
    BY <2>1 DEF OneLive, TypeInv, NegTypeOK
  <2>5. Unknown'
    BY <2>1, <2>2 DEF Unknown, TypeInv, NegTypeOK
  <2>6. OwnSid'
    BY <2>1, <2>3 DEF OwnSid, TypeInv, NegTypeOK
  <2>7. ClientHome'
    BY <2>1, <2>2, <2>3 DEF ClientHome, TypeInv, NegTypeOK, Absent
  <2>8. GatewayHome'
    BY <2>1, <2>2 DEF GatewayHome, Joined
  <2>. QED BY <2>4, <2>5, <2>6, <2>7, <2>8
<1>2. CASE ~\E c \in Clients : CreateSession(c)
  <2>1. UNCHANGED <<home, sid>> /\ (Return \/ UNCHANGED <<phase, gateway, target>>)
    BY <1>2 DEF ApiStep, ReadPrevious, DeleteSession, Logout, HandlerRefused, HandlerLeaves, Expire, ApiRestarts,
       CloseRooms, Exit, mvars, appVars, gatewayVars
  <2>2. ASSUME NEW s \in Sessions
        PROVE  (row'[s] = "live" => row[s] = "live") /\ (row'[s] = "none" => row[s] = "none")
    BY <1>2 DEF ApiStep, ReadPrevious, DeleteSession, Logout, HandlerRefused, HandlerLeaves, Expire, ApiRestarts,
       TypeInv, NegTypeOK
  <2>3. \A p \in Peers : want'[p] \in {want[p], NoSession}
    BY <1>2 DEF ApiStep, ReadPrevious, DeleteSession, Logout, HandlerRefused, Settles, HandlerLeaves, Expire,
       ApiRestarts, TypeInv, NegTypeOK
  <2>4. ASSUME NEW c \in Clients
        PROVE  app'[c] = app[c] \/ app'[c] = "closed" \/ (app'[c] \in Absent /\ app[c] \in Absent)
    <3>1. CASE \E d \in Clients : ReadPrevious(d)
      BY <3>1 DEF ReadPrevious, TypeInv, NegTypeOK, Absent
    <3>2. CASE ApiRestarts
      BY <3>2 DEF ApiRestarts, Absent
    <3>3. CASE ~ApiRestarts /\ ~\E d \in Clients : ReadPrevious(d)
      BY <1>2, <3>3 DEF ApiStep, DeleteSession, Logout, HandlerRefused, HandlerLeaves, Expire, appVars
    <3>. QED BY <3>1, <3>2, <3>3
  <2>5. OneLive'
    BY <2>2 DEF OneLive
  <2>6. Unknown'
    BY <2>1, <2>2, <2>3, NamesAssumption DEF Unknown, Return
  <2>7. ClientHome'
    BY <2>1, <2>4 DEF ClientHome, Absent
  <2>8. GatewayHome'
    BY <2>1 DEF GatewayHome, Joined, Return
  <2>. QED BY <2>1, <2>5, <2>6, <2>7, <2>8 DEF OwnSid
<1>. QED BY <1>1, <1>2

LEMMA LateRooms == BaseInv /\ LateJoin => RoomInv'
<1>. SUFFICES ASSUME BaseInv, NEW p \in Peers, HandlerJoins(p) PROVE RoomInv'
  BY DEF LateJoin
<1>. USE DEF BaseInv, RoomInv
<1>1. PICK s \in Sessions :
        /\ s = want[p] /\ Enter(p, s) /\ Gone(p)
        /\ want' = [want EXCEPT ![p] = NoSession]
        /\ UNCHANGED <<row, body, app, previous, sid, candidates, phase, gateway, target, failures>>
  BY Joins
<1>2. home[p] = NoSession /\ home' = [home EXCEPT ![p] = s]
  BY <1>1, Entered DEF TypeInv
<1>3. Unknown'
  BY <1>1, <1>2, NamesAssumption DEF Unknown, TypeInv, SeatType, NegTypeOK
<1>4. ClientHome'
  <2>1. p \in Clients => app[p] = "closed" /\ s = sid[p]
    BY <1>1, NamesAssumption DEF Gone, TypeInv, NamesInv
  <2>. QED BY <1>1, <1>2, <2>1, RoleFacts DEF ClientHome, TypeInv, SeatType, Absent
<1>5. phase # "idle" => gateway # p /\ gateway \in Peers
  BY <1>1, NamesAssumption, RoleFacts DEF Gone, TypeInv, NamesInv
<1>6. GatewayHome'
  BY <1>1, <1>2, <1>5 DEF GatewayHome, Joined, TypeInv, SeatType
<1>. QED BY <1>1, <1>3, <1>4, <1>6 DEF OneLive, OwnSid

LEMMA AppRooms == BaseInv /\ AppStep => RoomInv'
<1>. SUFFICES ASSUME BaseInv, NEW c \in Clients,
                     ClientDials(c) \/ ClientJoins(c) \/ SendCandidate(c) \/ SendOffer(c) \/ ClientReads(c) \/ Quit(c)
              PROVE  RoomInv'
  BY DEF AppStep
<1>. USE DEF BaseInv, RoomInv
<1>1. UNCHANGED <<row, sid, phase, gateway, target>>
  BY DEF ClientDials, ClientJoins, SendCandidate, SendOffer, ClientReads, Quit, appVars, gatewayVars
<1>2. CASE ClientJoins(c)
  <2>1. /\ sid[c] \in Sessions /\ row[sid[c]] # "none"
        /\ home[c] = NoSession /\ home' = [home EXCEPT ![c] = sid[c]]
        /\ want' = [want EXCEPT ![c] = NoSession]
        /\ app' = [app EXCEPT ![c] = "joined"] /\ c \in Peers
    BY <1>2, RoleFacts DEF ClientJoins, Settles, Enter, TypeInv, NamesInv, NegTypeOK, Absent, Unknown
  <2>2. Unknown'
    BY <1>1, <2>1, NamesAssumption DEF Unknown, TypeInv, SeatType, NegTypeOK
  <2>3. ClientHome'
    BY <1>1, <2>1 DEF ClientHome, TypeInv, SeatType, NegTypeOK, Peers, Absent
  <2>4. gateway \in Gateways => home'[gateway] = home[gateway]
    BY <2>1, NamesAssumption DEF TypeInv, SeatType, Peers
  <2>5. GatewayHome'
    BY <1>1, <2>4 DEF GatewayHome, Joined, TypeInv, NamesInv
  <2>. QED BY <1>1, <2>2, <2>3, <2>5 DEF OneLive, OwnSid
<1>3. CASE ~ClientJoins(c)
  <2>1. UNCHANGED home
    BY <1>3 DEF ClientDials, SendCandidate, SendOffer, ClientReads, Quit, Say, Post, Refuse, Take, mvars
  <2>2. \A d \in Clients :
          /\ app'[d] \in Absent \cup {"created"} => app[d] = app'[d]
          /\ app'[d] \in {"joined", "offered", "answered"} =>
               app[d] \in {"joined", "offered", "answered"}
    BY <1>3 DEF ClientDials, SendCandidate, SendOffer, ClientReads, Quit, TypeInv, NegTypeOK, Absent, appVars
  <2>3. ClientHome'
    BY <1>1, <2>1, <2>2 DEF ClientHome
  <2>4. Unknown'
    <3>1. CASE ClientDials(c)
      <4>1. c \in Peers /\ row[sid[c]] = "live" /\ want' = [want EXCEPT ![c] = sid[c]]
        BY <3>1, RoleFacts DEF ClientDials, Finds
      <4>. QED BY <1>1, <2>1, <4>1 DEF Unknown, TypeInv, NegTypeOK
    <3>2. CASE ~ClientDials(c)
      <4>1. UNCHANGED want
        BY <1>3, <3>2 DEF SendCandidate, SendOffer, ClientReads, Quit
      <4>. QED BY <1>1, <2>1, <4>1 DEF Unknown
    <3>. QED BY <3>1, <3>2
  <2>. QED BY <1>1, <2>1, <2>3, <2>4 DEF OneLive, OwnSid, GatewayHome, Joined
<1>. QED BY <1>2, <1>3

LEMMA GatewayRooms == BaseInv /\ GatewayNext => RoomInv'
<1>. SUFFICES ASSUME BaseInv, GatewayNext PROVE RoomInv'
  OBVIOUS
<1>. USE DEF BaseInv, RoomInv
<1>1. UNCHANGED <<row, app, sid>>
  BY DEF GatewayNext, Poll, Dial, GatewayJoins, DialRefused, ReadMessage, WriteAnswer, SignallingEnds, Connect,
     PeerFails, GatewayFails, appVars
<1>2. OneLive' /\ OwnSid'
  BY <1>1 DEF OneLive, OwnSid
<1>3. CASE GatewayJoins
  <2>1. /\ gateway \in Gateways /\ gateway \in Peers /\ target \in Sessions /\ row[target] # "none"
        /\ home' = [home EXCEPT ![gateway] = target] /\ UNCHANGED <<gateway, target>>
        /\ want' = [want EXCEPT ![gateway] = NoSession]
        /\ phase' = "reading"
    BY <1>3, RoleFacts DEF GatewayJoins, Settles, Enter, TypeInv, NamesInv, Unknown
  <2>2. Unknown'
    BY <1>1, <2>1, NamesAssumption DEF Unknown, TypeInv, SeatType, NegTypeOK
  <2>3. \A c \in Clients : home'[c] = home[c]
    BY <2>1, NamesAssumption, RoleFacts DEF TypeInv, SeatType
  <2>4. ClientHome'
    BY <1>1, <2>3 DEF ClientHome
  <2>5. GatewayHome'
    BY <2>1 DEF GatewayHome, Joined, TypeInv, SeatType
  <2>. QED BY <1>2, <2>2, <2>4, <2>5
<1>4. CASE ~GatewayJoins
  <2>1. UNCHANGED home
    BY <1>4 DEF GatewayNext, Poll, Dial, DialRefused, ReadMessage, WriteAnswer, SignallingEnds, Connect,
       PeerFails, GatewayFails, Say, Post, Refuse, Take, mvars
  <2>2. \/ Return
        \/ phase' = "starting" /\ home[gateway'] = NoSession /\ row[target'] = "live" /\ target' \in Sessions
        \/ phase = "starting" /\ UNCHANGED <<phase, gateway, target>>
        \/ Joined /\ Joined' /\ UNCHANGED <<gateway, target>>
    <3>5. CASE Dial
      BY <3>5 DEF Dial, gatewayVars
    <3>1. CASE Poll
      <4>1. home[gateway'] = NoSession
        BY <3>1 DEF Poll, Free
      <4>. QED BY <3>1, <4>1 DEF Poll, Live
    <3>2. CASE ReadMessage
      <4>1. PICK x : \/ x = "idle" /\ Return
                     \/ x # "idle" /\ phase' = x /\ x \in {phase, "gathering"} /\ UNCHANGED <<gateway, target>>
        BY <3>2, Zenon DEF ReadMessage, Reaction
      <4>. QED BY <3>2, <4>1 DEF ReadMessage, Joined
    <3>3. CASE WriteAnswer \/ Connect
      BY <3>3 DEF WriteAnswer, Connect, Joined
    <3>4. CASE DialRefused \/ SignallingEnds \/ PeerFails \/ GatewayFails
      BY <3>4 DEF DialRefused, SignallingEnds, PeerFails, GatewayFails
    <3>. QED BY <1>4, <3>1, <3>2, <3>3, <3>4, <3>5 DEF GatewayNext
  <2>5. ASSUME NEW p \in Peers PROVE want'[p] \in {want[p], NoSession} \/ row[want'[p]] = "live"
    BY <1>4 DEF GatewayNext, Poll, Dial, Finds, DialRefused, Settles, ReadMessage, WriteAnswer, SignallingEnds,
       Connect, PeerFails, GatewayFails, TypeInv, NegTypeOK
  <2>3. Unknown'
    BY <1>1, <2>1, <2>2, <2>5, NamesAssumption DEF Unknown, Return
  <2>4. GatewayHome'
    BY <2>1, <2>2 DEF GatewayHome, Joined, Return
  <2>. QED BY <1>1, <1>2, <2>1, <2>3, <2>4 DEF ClientHome
<1>. QED BY <1>3, <1>4

LEMMA BaseStep == BaseInv /\ [NegNext]_negVars => BaseInv'
<1>. SUFFICES ASSUME BaseInv, [NegNext]_negVars PROVE BaseInv'
  OBVIOUS
<1>1. TypeInv'
  BY TypeStep DEF BaseInv
<1>2. CASE NegNext
  <2>1. Seats' /\ Quiet'
    <3>1. CASE MailStep
      BY <3>1, SeatsStep DEF BaseInv
    <3>2. CASE UNCHANGED mvars
      BY <3>2 DEF mvars, BaseInv, Seats, Quiet, Empty, Bare
    <3>. QED BY <1>2, <3>1, <3>2, MailboxSteps DEF BaseInv
  <2>. QED BY <1>1, <1>2, <2>1, NegSteps, ApiRooms, LateRooms, AppRooms, GatewayRooms DEF BaseInv
<1>3. CASE UNCHANGED negVars
  BY <1>1, <1>3 DEF negVars, mvars, appVars, gatewayVars, BaseInv, Seats, Quiet, Empty, Bare,
     RoomInv, OneLive, Unknown, OwnSid, ClientHome, GatewayHome, Joined
<1>. QED BY <1>2, <1>3

LEMMA BaseInvHolds == NegSpec => []BaseInv
  BY BaseInit, BaseStep, PTL DEF NegSpec

(***************************************************************************)
(* The negotiation uses the mailbox as SignalMailbox promises it: only a   *)
(* restart of the API closes more than one room in a step.                 *)
(***************************************************************************)
LEMMA OneRoomClosed ==
  ASSUME TypeInv, Quiet, NEW s \in Sessions, CloseRooms({s})
  PROVE  Close(s) \/ UNCHANGED mvars
<1>. USE DEF TypeInv
<1>1. /\ occupant' = [occupant EXCEPT ![s] = Nobody] /\ mail' = [mail EXCEPT ![s] = NoMail]
      /\ UNCHANGED <<home, posted>>
  BY DEF CloseRooms, SeatType, BoxType
<1>2. CASE occupant[s] # Nobody
  BY <1>1, <1>2 DEF Close
<1>3. CASE occupant[s] = Nobody
  <2>1. mail[s] = NoMail
    BY <1>3, EmptyRooms DEF Quiet
  <2>2. occupant' = occupant /\ mail' = mail
    BY <1>1, <1>3, <2>1 DEF SeatType, BoxType
  <2>. QED BY <1>1, <2>2 DEF mvars
<1>. QED BY <1>2, <1>3

LEMMA MailboxStep ==
  BaseInv /\ NegNext => Next \/ CloseRooms(Sessions) \/ UNCHANGED mvars
<1>. SUFFICES ASSUME BaseInv, NegNext, NEW S \in Closures, CloseRooms(S), S # Sessions
              PROVE  Next \/ UNCHANGED mvars
  BY MailboxSteps DEF MailStep, BaseInv
<1>1. CASE \E s \in Sessions : S = {s}
  BY <1>1, OneRoomClosed DEF BaseInv, Next
<1>2. CASE S = {}
  BY <1>2 DEF CloseRooms, mvars, BaseInv, TypeInv, SeatType, BoxType
<1>3. S = {} \/ \E s \in Sessions : S = {s}
  BY DEF Closures, Live, BaseInv, RoomInv, OneLive
<1>. QED BY <1>1, <1>2, <1>3

(* Every behaviour of the negotiation is one of the mailbox, except that   *)
(* the API may restart (ApiRestarts) and close every room at once.         *)
THEOREM NegotiationUsesMailbox == NegSpec => Init /\ [][Next \/ CloseRooms(Sessions)]_mvars
<1>1. NegInit => Init
  BY DEF NegInit
<1>2. BaseInv /\ [NegNext]_negVars => [Next \/ CloseRooms(Sessions)]_mvars
  BY MailboxStep DEF negVars
<1>. QED BY <1>1, <1>2, BaseInvHolds, PTL DEF NegSpec

(***************************************************************************)
(* The one offer of a session is in the mail, or being answered, or        *)
(* answered by what is in the mail, or none of it; before the app sends it *)
(* and after the answer was read, none of it.                              *)
(***************************************************************************)
Offers(s) == InMail(s, "gateway", "offer")
Answers(s) == InMail(s, "client", "answer")
Gathering(s) == target = s /\ phase = "gathering"
Single(X) == \A i, j \in X : i = j

OneOffer(s) ==
  /\ Single(Offers(s)) /\ Single(Answers(s))
  /\ Offers(s) # {} => ~Gathering(s) /\ Answers(s) = {}
  /\ Gathering(s) => Answers(s) = {}
NoOffer(s) == Offers(s) = {} /\ ~Gathering(s) /\ Answers(s) = {}

NotWaiting == {"created", "joined", "answered"}
OfferInv ==
  /\ \A s \in Sessions : OneOffer(s)
  /\ \A c \in Clients : app[c] \in NotWaiting => NoOffer(sid[c])

(* A step that brings no offer and no answer to a session.                 *)
Calm(s) ==
  /\ Offers(s)' \in {Offers(s), {}} /\ Answers(s)' \in {Answers(s), {}}
  /\ Gathering(s)' => Gathering(s)

LEMMA CalmKeeps ==
  ASSUME NEW s, OneOffer(s), Calm(s)
  PROVE  OneOffer(s)' /\ (NoOffer(s) => NoOffer(s)')
  BY DEF OneOffer, NoOffer, Calm, Single

LEMMA AllCalm ==
  ASSUME BaseInv, OfferInv, \A s \in Sessions : Calm(s), UNCHANGED sid,
         \A c \in Clients : app'[c] \in NotWaiting => app[c] \in NotWaiting
  PROVE  OfferInv'
<1>1. \A c \in Clients : app[c] \in NotWaiting => sid[c] \in Sessions
  BY DEF NotWaiting, BaseInv, TypeInv, NamesInv, NegTypeOK, Absent
<1>. QED BY <1>1, CalmKeeps DEF OfferInv

(* One session is disturbed; no app is waiting for nothing there.          *)
LEMMA OneStirred ==
  ASSUME BaseInv, OfferInv, NEW s \in Sessions, OneOffer(s)',
         \A t \in Sessions : t # s => Calm(t), UNCHANGED sid,
         \A c \in Clients : app'[c] \in NotWaiting =>
             (sid[c] = s /\ NoOffer(s)') \/ (sid[c] # s /\ app[c] \in NotWaiting)
  PROVE  OfferInv'
<1>1. \A c \in Clients : app[c] \in NotWaiting => sid[c] \in Sessions
  BY DEF NotWaiting, BaseInv, TypeInv, NamesInv, NegTypeOK, Absent
<1>2. \A t \in Sessions : t # s => OneOffer(t)' /\ (NoOffer(t) => NoOffer(t)')
  BY CalmKeeps DEF OfferInv
<1>3. \A t \in Sessions : OneOffer(t)'
  BY <1>2
<1>4. ASSUME NEW c \in Clients, app'[c] \in NotWaiting PROVE NoOffer(sid[c])'
  <2>1. CASE sid[c] = s /\ NoOffer(s)'
    BY <2>1
  <2>2. CASE sid[c] # s /\ app[c] \in NotWaiting
    <3>1. sid[c] \in Sessions /\ NoOffer(sid[c])
      BY <1>1, <2>2 DEF OfferInv
    <3>2. PICK t \in Sessions : t = sid[c] /\ t # s
      BY <2>2, <3>1
    <3>3. NoOffer(t)'
      BY <1>2, <3>1, <3>2
    <3>. QED BY <3>2, <3>3
  <2>. QED BY <1>4, <2>1, <2>2
<1>. QED BY <1>3, <1>4 DEF OfferInv

LEMMA UncreatedIsQuiet ==
  ASSUME BaseInv, NEW s \in Sessions, row[s] = "none"
  PROVE  NoOffer(s) /\ Bare(s)
<1>1. Empty(s)
  BY DEF BaseInv, Seats, Empty, RoomInv, Unknown, TypeInv, SeatType
<1>2. Bare(s) /\ target # s
  BY <1>1 DEF BaseInv, Quiet, RoomInv, Unknown
<1>3. \A r \in Roles : \A x : InMail(s, r, x) = {}
  BY <1>2 DEF Bare, InMail
<1>. QED BY <1>2, <1>3 DEF NoOffer, Offers, Answers, Gathering, Roles

LEMMA OfferInit == NegInit => OfferInv
<1>. SUFFICES ASSUME NegInit PROVE OfferInv
  OBVIOUS
<1>1. \A s \in Sessions : NoOffer(s)
  BY BaseInit, UncreatedIsQuiet DEF NegInit
<1>2. \A s \in Sessions : NoOffer(s) => OneOffer(s)
  BY DEF NoOffer, OneOffer, Single
<1>. QED BY <1>1, <1>2 DEF OfferInv, NegInit, NotWaiting

(* Mail that is thrown away, or left alone, is calm.                       *)
LEMMA CalmMail ==
  ASSUME NEW s \in Sessions, Gathering(s)' => Gathering(s),
         \A r \in Roles : \A x : InMail(s, r, x)' \in {InMail(s, r, x), {}}
  PROVE  Calm(s)
  BY DEF Calm, Offers, Answers, Roles

LEMMA SameMail ==
  ASSUME UNCHANGED <<mail, body>>
  PROVE  \A s \in Sessions, r \in Roles : \A x : InMail(s, r, x)' = InMail(s, r, x)
  BY DEF InMail

LEMMA ApiOffers == BaseInv /\ OfferInv /\ ApiStep => OfferInv'
<1>. SUFFICES ASSUME BaseInv, OfferInv, ApiStep PROVE OfferInv'
  OBVIOUS
<1>1. UNCHANGED body /\ \A s \in Sessions : Gathering(s)' => Gathering(s)
  BY DEF ApiStep, ReadPrevious, CreateSession, DeleteSession, Logout, HandlerRefused,
     HandlerLeaves, Expire, ApiRestarts, Return, Gathering, gatewayVars
<1>2. ASSUME NEW s \in Sessions PROVE Calm(s)
  <2>1. ASSUME NEW S, CloseRooms(S), NEW r \in Roles, NEW x
        PROVE  InMail(s, r, x)' \in {InMail(s, r, x), {}}
    BY <1>1, <2>1, Closed, Emptied DEF BaseInv, TypeInv
  <2>2. ASSUME NEW p \in Peers, Exit(p), NEW r \in Roles, NEW x
        PROVE  InMail(s, r, x)' \in {InMail(s, r, x), {}}
    BY <1>1, <2>2, Exited, Emptied DEF BaseInv, TypeInv
  <2>3. \/ \E S : CloseRooms(S)
        \/ \E p \in Peers : Exit(p)
        \/ UNCHANGED <<mail, body>>
    BY DEF ApiStep, ReadPrevious, CreateSession, DeleteSession, Logout, HandlerRefused,
     HandlerLeaves, Expire, ApiRestarts, mvars
  <2>. QED BY <1>1, <2>1, <2>2, <2>3, SameMail, CalmMail
<1>3. CASE \E c \in Clients : CreateSession(c)
  <2>1. PICK c \in Clients : CreateSession(c)
    BY <1>3
  <2>2. PICK s \in Sessions :
          row[s] = "none" /\ sid' = [sid EXCEPT ![c] = s] /\ app' = [app EXCEPT ![c] = "created"]
    BY <2>1, Created
  <2>3. NoOffer(s)'
    BY <1>2, <2>2, UncreatedIsQuiet, CalmKeeps DEF OfferInv
  <2>4. ASSUME NEW d \in Clients, app'[d] \in NotWaiting PROVE NoOffer(sid[d])'
    <3>1. CASE d = c
      BY <2>2, <2>3, <3>1 DEF BaseInv, TypeInv, NegTypeOK
    <3>2. CASE d # c
      <4>1. app[d] \in NotWaiting /\ sid'[d] = sid[d]
        BY <2>2, <2>4, <3>2 DEF BaseInv, TypeInv, NegTypeOK
      <4>2. NoOffer(sid[d]) /\ sid[d] \in Sessions
        BY <4>1 DEF OfferInv, NotWaiting, BaseInv, TypeInv, NamesInv, NegTypeOK, Absent
      <4>3. PICK t \in Sessions : t = sid[d]
        BY <4>2
      <4>4. NoOffer(t)'
        BY <1>2, <4>2, <4>3, CalmKeeps DEF OfferInv
      <4>. QED BY <4>1, <4>3, <4>4
    <3>. QED BY <3>1, <3>2
  <2>. QED BY <1>2, <2>4, CalmKeeps DEF OfferInv
<1>4. CASE ~\E c \in Clients : CreateSession(c)
  <2>1. UNCHANGED sid /\ \A c \in Clients : app'[c] \in NotWaiting => app[c] \in NotWaiting
    <3>1. CASE \E d \in Clients : ReadPrevious(d)
      BY <3>1 DEF ReadPrevious, BaseInv, TypeInv, NegTypeOK, NotWaiting
    <3>2. CASE ApiRestarts
      BY <3>2 DEF ApiRestarts, NotWaiting
    <3>3. CASE ~ApiRestarts /\ ~\E d \in Clients : ReadPrevious(d)
      BY <1>4, <3>3 DEF ApiStep, DeleteSession, Logout, HandlerRefused, HandlerLeaves, Expire, appVars
    <3>. QED BY <3>1, <3>2, <3>3
  <2>. QED BY <1>2, <2>1, AllCalm
<1>. QED BY <1>3, <1>4

LEMMA LateOffers == BaseInv /\ OfferInv /\ LateJoin => OfferInv'
<1>. SUFFICES ASSUME BaseInv, OfferInv, NEW p \in Peers, HandlerJoins(p) PROVE OfferInv'
  BY DEF LateJoin
<1>1. UNCHANGED <<mail, body, app, sid, phase, target>>
  BY Joins DEF Enter, BaseInv
<1>. QED BY <1>1, SameMail, CalmMail, AllCalm DEF Gathering

(* What is said reaches one box or none.                                   *)
LEMMA Said ==
  ASSUME TypeInv, NEW p \in Peers, NEW r \in Roles, r = Other(RoleOf(p)),
         NEW content \in ContentsFor(r), Say(p, content)
  PROVE  \E s \in Sessions :
           /\ s = home[p] /\ UNCHANGED <<occupant, home>>
           /\ \A t \in Sessions, u \in Roles : t # s \/ u # r => mail'[t][u] = mail[t][u]
           /\ \A t \in Sessions, u \in Roles : \A x :
                t # s \/ u # r \/ x # content => InMail(t, u, x)' = InMail(t, u, x)
           /\ \/ /\ Len(mail[s][r]) \in Nat /\ Len(mail'[s][r]) = Len(mail[s][r]) + 1
                 /\ InMail(s, r, content)' = InMail(s, r, content) \cup {Len(mail[s][r]) + 1}
              \/ /\ Refuse(p) /\ UNCHANGED mail
                 /\ InMail(s, r, content)' = InMail(s, r, content)
<1>. USE DEF TypeInv
<1>1. PICK s \in Sessions : s = home[p]
  BY DEF Say, Post, Refuse, SeatType
<1>2. content \in Contents /\ body' = Append(body, content)
  BY DEF Say, ContentsFor, Contents
<1>3. CASE Post(p)
  BY <1>1, <1>2, <1>3, Posted
<1>4. CASE Refuse(p)
  BY <1>1, <1>2, <1>4, RefusedMail
<1>. QED BY <1>3, <1>4 DEF Say

LEMMA AppOffers == BaseInv /\ OfferInv /\ AppStep => OfferInv'
<1>. SUFFICES ASSUME BaseInv, OfferInv, NEW c \in Clients,
                     ClientDials(c) \/ ClientJoins(c) \/ SendCandidate(c) \/ SendOffer(c) \/ ClientReads(c) \/ Quit(c)
              PROVE  OfferInv'
  BY DEF AppStep
<1>1. UNCHANGED <<sid, phase, target>>
  BY DEF ClientDials, ClientJoins, SendCandidate, SendOffer, ClientReads, Quit, appVars, gatewayVars
<1>2. /\ TypeInv /\ c \in Peers /\ Other(RoleOf(c)) = "gateway" /\ "gateway" \in Roles /\ "client" \in Roles
      /\ "ice" \in ContentsFor("gateway") /\ "offer" \in ContentsFor("gateway")
      /\ app[c] \notin Absent => sid[c] \in Sessions
  BY RoleFacts DEF BaseInv, ContentsFor, Roles, TypeInv, NamesInv, NegTypeOK, Absent
<1>3. \A d \in Clients : d # c => app'[d] = app[d] /\ (app[c] \notin Absent => sid[d] # sid[c])
  BY DEF ClientDials, ClientJoins, SendCandidate, SendOffer, ClientReads, Quit, BaseInv, TypeInv, NegTypeOK,
     RoomInv, OwnSid, NamesInv, appVars
<1>4. CASE ClientDials(c) \/ ClientJoins(c) \/ Quit(c)
  <2>1. UNCHANGED <<mail, body>>
    BY <1>4 DEF ClientDials, ClientJoins, Enter, Quit, mvars
  <2>2. \A s \in Sessions : Calm(s)
    BY <1>1, <2>1, SameMail, CalmMail DEF Gathering
  <2>3. app'[c] \in NotWaiting => app[c] \in NotWaiting
    BY <1>4 DEF ClientDials, ClientJoins, Quit, NotWaiting, BaseInv, TypeInv, NegTypeOK, appVars
  <2>. QED BY <1>1, <1>3, <2>2, <2>3, AllCalm
<1>5. CASE SendCandidate(c)
  <2>1. Say(c, "ice") /\ UNCHANGED app
    BY <1>5 DEF SendCandidate
  <2>2. \A s \in Sessions : Offers(s)' = Offers(s) /\ Answers(s)' = Answers(s)
    BY <1>2, <2>1, Said DEF Offers, Answers
  <2>3. \A s \in Sessions : Calm(s)
    BY <1>1, <2>2 DEF Calm, Gathering
  <2>. QED BY <1>1, <2>1, <2>3, AllCalm
<1>6. CASE SendOffer(c)
  <2>1. Say(c, "offer") /\ app[c] = "joined" /\ app'[c] = "offered"
    BY <1>6 DEF SendOffer, BaseInv, TypeInv, NegTypeOK
  <2>2. PICK s \in Sessions :
          /\ s = home[c]
          /\ \A t \in Sessions, u \in Roles : \A x :
               t # s \/ u # "gateway" \/ x # "offer" => InMail(t, u, x)' = InMail(t, u, x)
          /\ \/ InMail(s, "gateway", "offer")' = InMail(s, "gateway", "offer") \cup {Len(mail[s]["gateway"]) + 1}
             \/ InMail(s, "gateway", "offer")' = InMail(s, "gateway", "offer")
    BY <1>2, <2>1, Said
  <2>3. s = sid[c] /\ NoOffer(s)
    BY <2>1, <2>2 DEF BaseInv, RoomInv, ClientHome, OfferInv, NotWaiting
  <2>4. \A t \in Sessions : t # s => Calm(t)
    BY <1>1, <1>2, <2>2 DEF Calm, Offers, Answers, Gathering
  <2>5. Answers(s)' = {} /\ ~Gathering(s)' /\ Single(Offers(s))'
    BY <1>1, <1>2, <2>2, <2>3 DEF NoOffer, Offers, Answers, Gathering, Single
  <2>6. OneOffer(s)'
    BY <2>5 DEF OneOffer, Single
  <2>. QED BY <1>1, <1>3, <2>1, <2>3, <2>4, <2>6, OneStirred DEF NotWaiting, Absent
<1>7. CASE ClientReads(c)
  <2>1. /\ app[c] = "offered" /\ Take(sid[c], "client") /\ UNCHANGED body
    BY <1>7 DEF ClientReads
  <2>2. PICK s \in Sessions : s = sid[c]
    BY <1>2, <2>1 DEF Absent
  <2>3. /\ 1 \in 1..Len(mail[s]["client"])
        /\ \A t \in Sessions, q \in Roles : \A x :
             t # s \/ q # "client" => InMail(t, q, x)' = InMail(t, q, x)
        /\ \A x : InMail(s, "client", x)' =
             {i \in 1..(Len(mail[s]["client"]) - 1) : i + 1 \in InMail(s, "client", x)}
    BY <1>2, <2>1, <2>2, Taken DEF TypeInv
  <2>4. 1 \in Answers(s)
    <3>1. body[mail[s]["client"][1].n] \in ContentsFor("client")
      BY <1>2, <2>3, LetterFacts DEF TypeInv
    <3>. QED BY <2>3, <3>1 DEF Answers, InMail, ContentsFor
  <2>5. Offers(s) = {} /\ ~Gathering(s) /\ \A i \in Answers(s) : i = 1
    BY <2>4 DEF OfferInv, OneOffer, Single
  <2>6. \A t \in Sessions : t # s => Calm(t)
    BY <1>1, <1>2, <2>3 DEF Calm, Offers, Answers, Gathering
  <2>7. Answers(s)' = {}
    <3>1. Answers(s)' = {i \in 1..(Len(mail[s]["client"]) - 1) : i + 1 \in Answers(s)}
      BY <2>3 DEF Answers
    <3>. QED BY <2>5, <3>1
  <2>8. NoOffer(s)'
    BY <1>1, <1>2, <2>3, <2>5, <2>7 DEF NoOffer, Offers, Gathering
  <2>9. OneOffer(s)'
    BY <2>8 DEF NoOffer, OneOffer, Single
  <2>10. ASSUME NEW d \in Clients, app'[d] \in NotWaiting
         PROVE  (sid[d] = s /\ NoOffer(s)') \/ (sid[d] # s /\ app[d] \in NotWaiting)
    BY <1>3, <2>1, <2>2, <2>8, <2>10 DEF Absent
  <2>. QED BY <1>1, <2>6, <2>9, <2>10, OneStirred
<1>. QED BY <1>4, <1>5, <1>6, <1>7

LEMMA GatewayOffers == BaseInv /\ OfferInv /\ GatewayNext => OfferInv'
<1>. SUFFICES ASSUME BaseInv, OfferInv, GatewayNext PROVE OfferInv'
  OBVIOUS
<1>1. UNCHANGED <<app, sid>>
  BY DEF GatewayNext, Poll, Dial, GatewayJoins, DialRefused, ReadMessage, WriteAnswer, SignallingEnds, Connect,
     PeerFails, GatewayFails, appVars
<1>2. /\ TypeInv /\ "gateway" \in Roles /\ "client" \in Roles
      /\ phase # "idle" => target \in Sessions /\ gateway \in Peers /\ Other(RoleOf(gateway)) = "client"
  BY RoleFacts DEF BaseInv, Roles, TypeInv, NamesInv
<1>3. CASE ~(ReadMessage \/ WriteAnswer)
  <2>1. UNCHANGED <<mail, body>> /\ (phase' # "gathering" \/ UNCHANGED <<phase, target>>)
    BY <1>3 DEF GatewayNext, Poll, Dial, GatewayJoins, DialRefused, SignallingEnds, Connect, PeerFails, GatewayFails,
       Return, Enter, mvars, gatewayVars
  <2>2. \A s \in Sessions : Calm(s)
    BY <2>1, SameMail, CalmMail DEF Gathering
  <2>. QED BY <1>1, <2>2, AllCalm
<1>4. CASE ReadMessage
  <2>1. PICK s \in Sessions : s = target
    BY <1>2, <1>4 DEF ReadMessage
  <2>2. phase \in {"reading", "answered", "connected"} /\ Take(s, "gateway") /\ UNCHANGED body
    BY <1>4, <2>1 DEF ReadMessage
  <2>3. /\ 1 \in 1..Len(mail[s]["gateway"]) /\ Head(mail[s]["gateway"]) = mail[s]["gateway"][1]
        /\ \A t \in Sessions, q \in Roles : \A x :
             t # s \/ q # "gateway" => InMail(t, q, x)' = InMail(t, q, x)
        /\ \A x : InMail(s, "gateway", x)' =
             {i \in 1..(Len(mail[s]["gateway"]) - 1) : i + 1 \in InMail(s, "gateway", x)}
    BY <1>2, <2>2, Taken DEF TypeInv
  <2>4. PICK first : first = body[mail[s]["gateway"][1].n]
    OBVIOUS
  <2>5. /\ first = "offer" => phase' = "gathering" /\ target' = s
        /\ first # "offer" => phase' # "gathering"
    BY <1>4, <2>1, <2>2, <2>3, <2>4 DEF ReadMessage, Reaction, Return
  <2>6. ~Gathering(s) /\ OneOffer(s)
    BY <2>2 DEF Gathering, OfferInv
  <2>7. \A t \in Sessions : t # s => Calm(t)
    BY <1>2, <2>3, <2>5 DEF Calm, Offers, Answers, Gathering
  <2>8. /\ Answers(s)' = Answers(s)
        /\ Offers(s)' = {i \in 1..(Len(mail[s]["gateway"]) - 1) : i + 1 \in Offers(s)}
        /\ 1 \in Offers(s) <=> first = "offer"
    <3>1. Answers(s)' = Answers(s)
      BY <1>2, <2>3 DEF Answers
    <3>2. Offers(s)' = {i \in 1..(Len(mail[s]["gateway"]) - 1) : i + 1 \in Offers(s)}
      BY <2>3 DEF Offers
    <3>3. 1 \in Offers(s) <=> first = "offer"
      BY <2>3, <2>4 DEF Offers, InMail
    <3>. QED BY <3>1, <3>2, <3>3
  <2>9. CASE first = "offer"
    <3>1. Offers(s)' = {} /\ Answers(s)' = {} /\ Offers(s) # {}
      BY <2>6, <2>8, <2>9 DEF OneOffer, Single
    <3>2. OneOffer(s)'
      BY <3>1 DEF OneOffer, Single
    <3>. QED BY <1>1, <2>7, <3>1, <3>2, OneStirred DEF OfferInv, NoOffer
  <2>10. CASE first # "offer"
    <3>1. ~Gathering(s)' /\ Single(Offers(s))' /\ (Offers(s) = {} => Offers(s)' = {})
      BY <2>5, <2>6, <2>8, <2>10 DEF OneOffer, Single, Gathering
    <3>2. OneOffer(s)' /\ (NoOffer(s) => NoOffer(s)')
      BY <2>6, <2>8, <3>1 DEF OneOffer, NoOffer, Single
    <3>. QED BY <1>1, <2>7, <3>2, OneStirred DEF OfferInv
  <2>. QED BY <2>9, <2>10
<1>5. CASE WriteAnswer
  <2>1. Say(gateway, "answer") /\ phase = "gathering" /\ phase' = "answered" /\ "answer" \in ContentsFor("client")
    BY <1>5 DEF WriteAnswer, ContentsFor
  <2>2. PICK s \in Sessions :
          /\ s = home[gateway]
          /\ \A t \in Sessions, u \in Roles : \A x :
               t # s \/ u # "client" \/ x # "answer" => InMail(t, u, x)' = InMail(t, u, x)
          /\ \/ InMail(s, "client", "answer")' = InMail(s, "client", "answer") \cup {Len(mail[s]["client"]) + 1}
             \/ InMail(s, "client", "answer")' = InMail(s, "client", "answer")
    BY <1>2, <2>1, Said
  <2>3. Gathering(s)
    BY <2>1, <2>2 DEF BaseInv, RoomInv, GatewayHome, Joined, Gathering
  <2>4. Offers(s) = {} /\ Answers(s) = {}
    BY <2>3 DEF OfferInv, OneOffer
  <2>5. ~Gathering(s)' /\ Offers(s)' = {} /\ Single(Answers(s))'
    BY <1>2, <2>1, <2>2, <2>4 DEF Gathering, Offers, Answers, Single
  <2>6. OneOffer(s)'
    BY <2>5 DEF OneOffer, Single
  <2>7. \A t \in Sessions : t # s => Calm(t)
    BY <1>2, <2>1, <2>2 DEF Calm, Offers, Answers, Gathering
  <2>. QED BY <1>1, <2>3, <2>6, <2>7, OneStirred DEF OfferInv, NoOffer
<1>. QED BY <1>3, <1>4, <1>5

LEMMA OfferInvHolds == NegSpec => []OfferInv
<1>1. BaseInv /\ OfferInv /\ UNCHANGED negVars => OfferInv'
  <2>. SUFFICES ASSUME BaseInv, OfferInv, UNCHANGED negVars PROVE OfferInv'
    OBVIOUS
  <2>1. UNCHANGED <<mail, body, app, sid, phase, target>>
    BY DEF negVars, mvars, appVars, gatewayVars
  <2>. QED BY <2>1, SameMail, CalmMail, AllCalm DEF Gathering
<1>2. BaseInv /\ OfferInv /\ [NegNext]_negVars => OfferInv'
  BY <1>1, NegSteps, ApiOffers, LateOffers, AppOffers, GatewayOffers
<1>. QED BY <1>2, OfferInit, BaseInvHolds, PTL DEF NegSpec

(* An answer reaches the app only while it waits for one, and there is one *)
(* at most, whatever fails and is tried again.                             *)
THEOREM AnswersAreAwaited == NegSpec => []AnswerIsAwaited
<1>1. BaseInv /\ OfferInv => AnswerIsAwaited
  <2>. SUFFICES ASSUME BaseInv, OfferInv, NEW c \in Clients, Seated(c),
                       NEW i \in Answers(sid[c])
                PROVE  app[c] \in {"offered", "closed"} /\ Answers(sid[c]) = {i}
    BY DEF AnswerIsAwaited, Answers
  <2>1. app[c] \notin Absent /\ sid[c] \in Sessions
    BY DEF Seated, BaseInv, RoomInv, ClientHome, TypeInv, NamesInv, NegTypeOK, Absent
  <2>2. app[c] \notin NotWaiting /\ Single(Answers(sid[c]))
    BY <2>1 DEF OfferInv, OneOffer, NoOffer
  <2>. QED BY <2>1, <2>2 DEF Single, NotWaiting, Absent, BaseInv, TypeInv, NegTypeOK
<1>. QED BY <1>1, BaseInvHolds, OfferInvHolds, PTL

(***************************************************************************)
(* Until it sends its offer an app has sent candidates only, so the hub    *)
(* has room for the offer if it holds all the candidates of an app.        *)
(***************************************************************************)
Early == {"created", "joined"}
Load(s) == Len(mail[s]["gateway"])
FewBefore == \A c \in Clients : app[c] \in Early => Load(sid[c]) <= candidates[c]

LEMMA LoadType ==
  ASSUME BaseInv PROVE \A s \in Sessions : Load(s) \in Nat
<1>. SUFFICES ASSUME NEW s \in Sessions PROVE Load(s) \in Nat
  OBVIOUS
<1>1. mail[s]["gateway"] \in Seq(Letters)
  BY DEF BaseInv, TypeInv, BoxType, Roles
<1>. QED BY <1>1 DEF Load

LEMMA LoadTypeAfter ==
  ASSUME BaseInv' PROVE \A s \in Sessions : Load(s)' \in Nat
<1>1. \A s \in Sessions : mail'[s]["gateway"] \in Seq(Letters)
  BY DEF BaseInv, TypeInv, BoxType, Roles
<1>. QED BY <1>1 DEF Load

LEMMA FewKept ==
  ASSUME BaseInv, BaseInv', FewBefore, UNCHANGED candidates,
         \A c \in Clients : app'[c] \in Early =>
           app[c] \in Early /\ sid'[c] = sid[c] /\ Load(sid[c])' <= Load(sid[c])
  PROVE  FewBefore'
<1>. SUFFICES ASSUME NEW c \in Clients, app'[c] \in Early
              PROVE  Load(sid[c])' <= candidates'[c]
  BY DEF FewBefore
<1>1. sid[c] \in Sessions /\ sid'[c] = sid[c]
  <2>1. app[c] \notin Absent /\ sid'[c] = sid[c]
    BY DEF Early, Absent
  <2>. QED BY <2>1 DEF BaseInv, TypeInv, NamesInv, NegTypeOK
<1>2. PICK s \in Sessions : s = sid[c]
  BY <1>1
<1>3. Load(s) \in Nat /\ Load(s)' \in Nat
  BY LoadType, LoadTypeAfter
<1>4. Load(s)' <= Load(s) /\ Load(s) <= candidates[c]
  BY <1>1, <1>2 DEF FewBefore
<1>5. Load(s)' <= candidates'[c]
  BY <1>3, <1>4 DEF BaseInv, TypeInv, NegTypeOK
<1>. QED BY <1>1, <1>2, <1>5

LEMMA ApiLoads ==
  ASSUME BaseInv, ApiStep, NEW s \in Sessions
  PROVE  /\ \A r \in Roles : mail'[s][r] \in {mail[s][r], << >>}
         /\ Load(s)' <= Load(s)
<1>1. ASSUME NEW S, CloseRooms(S) PROVE \A r \in Roles : mail'[s][r] \in {mail[s][r], << >>}
  BY <1>1, Closed DEF BaseInv, TypeInv
<1>2. ASSUME NEW p \in Peers, Exit(p) PROVE \A r \in Roles : mail'[s][r] \in {mail[s][r], << >>}
  BY <1>2, Exited DEF BaseInv, TypeInv
<1>3. (\E S : CloseRooms(S)) \/ (\E p \in Peers : Exit(p)) \/ mail' = mail
  BY DEF ApiStep, ReadPrevious, CreateSession, DeleteSession, Logout, HandlerRefused,
     HandlerLeaves, Expire, ApiRestarts, mvars
<1>4. \A r \in Roles : mail'[s][r] \in {mail[s][r], << >>}
  BY <1>1, <1>2, <1>3
<1>5. Load(s) \in Nat /\ Load(s)' \in {Load(s), 0}
  <2>1. mail'[s]["gateway"] \in {mail[s]["gateway"], << >>}
    BY <1>4 DEF Roles
  <2>. QED BY <2>1, LoadType DEF Load
<1>. QED BY <1>4, <1>5

LEMMA FewStep ==
  ASSUME BaseInv, BaseInv', FewBefore, NegNext
  PROVE  FewBefore'
<1>0. /\ \A c \in Clients : app[c] \in Early => sid[c] \in Sessions
      /\ \A s \in Sessions : Load(s) \in Nat
      /\ candidates \in [Clients -> Nat] /\ "gateway" \in Roles /\ "client" \in Roles
  <2>1. \A c \in Clients : app[c] \in Early => app[c] \notin Absent
    BY DEF Early, Absent
  <2>2. \A c \in Clients : app[c] \in Early => sid[c] \in Sessions
    BY <2>1 DEF BaseInv, TypeInv, NamesInv, NegTypeOK
  <2>. QED BY <2>2, LoadType, BoundsAssumption DEF BaseInv, TypeInv, NegTypeOK, Roles
<1>1. CASE ApiStep
  <2>1. \A s \in Sessions : Load(s)' <= Load(s)
    BY <1>1, ApiLoads
  <2>2. UNCHANGED candidates
    BY <1>1 DEF ApiStep, ReadPrevious, CreateSession, DeleteSession, Logout, HandlerRefused,
     HandlerLeaves, Expire, ApiRestarts, appVars
  <2>3. CASE \E c \in Clients : CreateSession(c)
    <3>1. PICK c \in Clients : CreateSession(c)
      BY <2>3
    <3>2. PICK s \in Sessions :
            row[s] = "none" /\ sid' = [sid EXCEPT ![c] = s] /\ app' = [app EXCEPT ![c] = "created"]
      BY <3>1, Created
    <3>3. Bare(s)
      BY <3>2, UncreatedIsQuiet
    <3>4. mail'[s]["gateway"] = << >>
      BY <1>0, <1>1, <3>3, ApiLoads DEF Bare
    <3>5. Load(s)' = 0
      BY <3>4 DEF Load
    <3>6. ASSUME NEW d \in Clients, app'[d] \in Early PROVE Load(sid[d])' <= candidates'[d]
      <4>1. CASE d = c
        BY <1>0, <2>2, <3>2, <3>5, <4>1 DEF BaseInv, TypeInv, NegTypeOK
      <4>2. CASE d # c
        <5>1. app[d] \in Early /\ sid'[d] = sid[d]
          BY <3>2, <3>6, <4>2 DEF BaseInv, TypeInv, NegTypeOK
        <5>2. PICK t \in Sessions : t = sid[d]
          BY <1>0, <5>1
        <5>3. Load(t)' <= Load(t) /\ Load(t) <= candidates[d] /\ Load(t) \in Nat /\ Load(t)' \in Nat
          BY <1>0, <2>1, <5>1, <5>2, LoadType, LoadTypeAfter DEF FewBefore
        <5>4. Load(t)' <= candidates'[d]
          BY <1>0, <2>2, <5>3
        <5>. QED BY <5>1, <5>2, <5>4
      <4>. QED BY <4>1, <4>2
    <3>. QED BY <3>6 DEF FewBefore
  <2>4. CASE ~\E c \in Clients : CreateSession(c)
    <3>1. UNCHANGED sid /\ \A c \in Clients : app'[c] \in Early => app[c] \in Early
      <4>1. CASE \E d \in Clients : ReadPrevious(d)
        BY <4>1 DEF ReadPrevious, BaseInv, TypeInv, NegTypeOK, Early
      <4>2. CASE ApiRestarts
        BY <4>2 DEF ApiRestarts, Early
      <4>3. CASE ~ApiRestarts /\ ~\E d \in Clients : ReadPrevious(d)
        BY <1>1, <2>4, <4>3 DEF ApiStep, DeleteSession, Logout, HandlerRefused, HandlerLeaves, Expire, appVars
      <4>. QED BY <4>1, <4>2, <4>3
    <3>. QED BY <1>0, <2>1, <2>2, <3>1, FewKept
  <2>. QED BY <2>3, <2>4
<1>2. CASE AppStep
  <2>. PICK c \in Clients :
         ClientDials(c) \/ ClientJoins(c) \/ SendCandidate(c) \/ SendOffer(c) \/ ClientReads(c) \/ Quit(c)
    BY <1>2 DEF AppStep
  <2>1. UNCHANGED sid /\ \A d \in Clients : app'[d] \in Early => app[d] \in Early
    BY DEF ClientDials, ClientJoins, SendCandidate, SendOffer, ClientReads, Quit, Early, BaseInv, TypeInv, NegTypeOK, appVars
  <2>2. /\ c \in Peers /\ Other(RoleOf(c)) = "gateway"
        /\ "ice" \in ContentsFor("gateway") /\ "offer" \in ContentsFor("gateway")
        /\ app[c] \notin Absent => sid[c] \in Sessions
        /\ \A d \in Clients : d # c /\ app[c] \notin Absent => sid[d] # sid[c]
    BY RoleFacts DEF ContentsFor, BaseInv, TypeInv, NamesInv, NegTypeOK, Absent, RoomInv, OwnSid
  <2>3. CASE ClientDials(c) \/ ClientJoins(c) \/ Quit(c)
    <3>1. UNCHANGED <<mail, candidates>>
      BY <2>3 DEF ClientDials, ClientJoins, Enter, Quit, mvars, appVars
    <3>. QED BY <1>0, <2>1, <3>1, FewKept DEF Load
  <2>4. CASE ClientReads(c)
    <3>1. app[c] = "offered" /\ Take(sid[c], "client") /\ UNCHANGED <<candidates, body>>
      BY <2>4 DEF ClientReads
    <3>2. \A s \in Sessions : Load(s)' = Load(s)
      BY <1>0, <2>2, <3>1, Taken DEF Load, BaseInv, TypeInv, Absent
    <3>. QED BY <1>0, <2>1, <3>1, <3>2, FewKept
  <2>5. CASE SendCandidate(c) \/ SendOffer(c)
    <3>1. PICK x \in ContentsFor("gateway") : Say(c, x) /\ app[c] \notin Absent
      BY <2>2, <2>5 DEF SendCandidate, SendOffer, Absent
    <3>2. PICK s \in Sessions :
            /\ s = home[c]
            /\ \A t \in Sessions : t # s => Load(t)' = Load(t)
            /\ Load(s)' = Load(s) + 1 \/ Load(s)' = Load(s)
      BY <1>0, <2>2, <3>1, Said DEF Load, BaseInv
    <3>3. s = sid[c]
      BY <3>2, NamesAssumption DEF BaseInv, RoomInv, ClientHome
    <3>4. CASE SendOffer(c)
      <4>1. app'[c] = "offered" /\ UNCHANGED candidates
        BY <3>4 DEF SendOffer, BaseInv, TypeInv, NegTypeOK
      <4>2. \A d \in Clients : app'[d] \in Early => sid[d] # s
        BY <2>2, <3>1, <3>3, <4>1 DEF Early
      <4>. QED BY <1>0, <2>1, <3>2, <4>1, <4>2, FewKept
    <3>5. CASE SendCandidate(c)
      <4>1. UNCHANGED app /\ candidates' = [candidates EXCEPT ![c] = @ + 1]
        BY <3>5 DEF SendCandidate
      <4>2. ASSUME NEW d \in Clients, app'[d] \in Early PROVE Load(sid[d])' <= candidates'[d]
        <5>1. PICK t \in Sessions : t = sid[d] /\ Load(t) <= candidates[d]
          BY <1>0, <2>1, <4>2 DEF FewBefore
        <5>2. IF d = c THEN Load(t)' <= Load(t) + 1 ELSE Load(t)' = Load(t)
          BY <1>0, <2>2, <3>1, <3>2, <3>3, <5>1
        <5>3. Load(t)' <= candidates'[d]
          BY <1>0, <4>1, <5>1, <5>2, LoadType, LoadTypeAfter
        <5>. QED BY <2>1, <5>1, <5>3
      <4>. QED BY <4>2 DEF FewBefore
    <3>. QED BY <2>5, <3>4, <3>5
  <2>. QED BY <2>3, <2>4, <2>5
<1>3. CASE GatewayNext
  <2>1. UNCHANGED <<app, sid, candidates>>
    BY <1>3 DEF GatewayNext, Poll, Dial, GatewayJoins, DialRefused, ReadMessage, WriteAnswer, SignallingEnds, Connect,
       PeerFails, GatewayFails, appVars
  <2>2. /\ phase # "idle" => target \in Sessions /\ gateway \in Peers /\ Other(RoleOf(gateway)) = "client"
        /\ "answer" \in ContentsFor("client")
    BY RoleFacts DEF BaseInv, TypeInv, NamesInv, ContentsFor
  <2>3. ASSUME NEW s \in Sessions PROVE Load(s)' <= Load(s)
    <3>1. CASE ReadMessage
      <4>1. target \in Sessions /\ Take(target, "gateway")
        BY <2>2, <3>1 DEF ReadMessage
      <4>2. mail[target]["gateway"] \in Seq(Letters) /\ mail[target]["gateway"] # << >>
        BY <1>0, <4>1 DEF Take, BaseInv, TypeInv, BoxType
      <4>3. mail'[s]["gateway"] = IF s = target THEN Tail(mail[s]["gateway"]) ELSE mail[s]["gateway"]
        BY <1>0, <4>1 DEF Take, BaseInv, TypeInv, BoxType
      <4>. QED BY <1>0, <4>2, <4>3 DEF Load
    <3>2. CASE WriteAnswer
      <4>1. Say(gateway, "answer") /\ phase # "idle"
        BY <3>2 DEF WriteAnswer
      <4>2. Load(s)' = Load(s)
        BY <1>0, <2>2, <4>1, Said DEF Load, BaseInv
      <4>. QED BY <1>0, <4>2
    <3>3. CASE ~(ReadMessage \/ WriteAnswer)
      <4>1. UNCHANGED mail
        BY <1>3, <3>3 DEF GatewayNext, Poll, Dial, GatewayJoins, DialRefused, SignallingEnds, Connect, PeerFails,
           GatewayFails, Enter, mvars
      <4>. QED BY <1>0, <4>1 DEF Load
    <3>. QED BY <3>1, <3>2, <3>3
  <2>. QED BY <1>0, <2>1, <2>3, FewKept
<1>4. CASE LateJoin
  <2>1. UNCHANGED <<mail, app, sid, candidates>>
    BY <1>4, Joins DEF LateJoin, Enter, BaseInv
  <2>. QED BY <1>0, <2>1, FewKept DEF Load
<1>. QED BY <1>1, <1>2, <1>3, <1>4, NegSteps

LEMMA FewBeforeHolds == NegSpec => []FewBefore
<1>1. NegInit => FewBefore
  BY DEF NegInit, FewBefore, Early
<1>2. BaseInv /\ BaseInv' /\ FewBefore /\ [NegNext]_negVars => FewBefore'
  <2>1. FewBefore /\ UNCHANGED negVars => FewBefore'
    BY DEF negVars, mvars, appVars, FewBefore, Load
  <2>. QED BY <2>1, FewStep
<1>. QED BY <1>1, <1>2, BaseInvHolds, PTL DEF NegSpec

(***************************************************************************)
(* An offer that was sent is accounted for while its app waits seated.     *)
(***************************************************************************)
LeftBehind(s) == \E g \in Gateways : home[g] = s /\ g # gateway
Kept(s) == Offers(s) # {} \/ Answers(s) # {} \/ Gathering(s) \/ LeftBehind(s)
Waits(c) == app[c] = "offered" /\ Seated(c)
Accounted == \A c \in Clients : Waits(c) => Kept(sid[c])

(* Nobody who left a seat sits down again.                                 *)
LEMMA SeatLost ==
  ASSUME BaseInv, NegNext, NEW p \in Peers, home[p] # NoSession
  PROVE  home'[p] = home[p] /\ (Seated(p)' => Seated(p))
<1>. USE DEF BaseInv, TypeInv
<1>1. p # NoPeer /\ home[p] \in Sessions /\ RoleOf(p) \in Roles
  BY NamesAssumption, RoleFacts DEF SeatType
<1>2. CASE \E q \in Peers, s \in Sessions : Enter(q, s)
  <2>1. PICK q \in Peers, s \in Sessions : Enter(q, s)
    BY <1>2
  <2>2. /\ q # p /\ home'[p] = home[p]
        /\ \A t \in Sessions, r \in Roles :
             occupant'[t][r] = IF t = s /\ r = RoleOf(q) THEN q ELSE occupant[t][r]
    BY <2>1, Entered DEF SeatType
  <2>. QED BY <1>1, <2>2 DEF Seated
<1>3. CASE \E q \in Peers : Post(q) \/ Refuse(q)
  BY <1>3 DEF Post, Refuse, Seated
<1>4. CASE \E s \in Sessions, r \in Roles : Take(s, r)
  BY <1>4 DEF Take, Seated
<1>5. CASE \E q \in Peers : Exit(q)
  <2>1. PICK q \in Peers : Exit(q)
    BY <1>5
  <2>2. home' = home /\ occupant'[home[p]][RoleOf(p)] \in {occupant[home[p]][RoleOf(p)], NoPeer}
    BY <1>1, <2>1 DEF Exit, SeatType
  <2>. QED BY <1>1, <2>2 DEF Seated
<1>6. CASE \E s \in Sessions : Close(s)
  <2>1. PICK s \in Sessions : Close(s)
    BY <1>6
  <2>2. home' = home /\ occupant'[home[p]][RoleOf(p)] \in {occupant[home[p]][RoleOf(p)], NoPeer}
    BY <1>1, <2>1 DEF Close, Nobody, SeatType
  <2>. QED BY <1>1, <2>2 DEF Seated
<1>7. CASE \E S : CloseRooms(S)
  <2>1. PICK S : CloseRooms(S)
    BY <1>7
  <2>2. home' = home /\ occupant'[home[p]][RoleOf(p)] \in {occupant[home[p]][RoleOf(p)], NoPeer}
    BY <1>1, <2>1 DEF CloseRooms, Nobody, SeatType
  <2>. QED BY <1>1, <2>2 DEF Seated
<1>8. CASE UNCHANGED mvars
  BY <1>8 DEF mvars, Seated
<1>. QED BY <1>2, <1>3, <1>4, <1>5, <1>6, <1>7, <1>8, MailboxSteps DEF MailStep, Next

LEMMA KeptSame ==
  ASSUME NEW s, Kept(s), Offers(s)' = Offers(s), Answers(s)' = Answers(s),
         Gathering(s) => Gathering(s)', LeftBehind(s) => LeftBehind(s)'
  PROVE  Kept(s)'
  BY DEF Kept

(* An app that waits has its own session, and sits there.                  *)
LEMMA WaitingSeat ==
  ASSUME BaseInv, NEW c \in Clients, app[c] = "offered"
  PROVE  /\ c \in Peers /\ sid[c] \in Sessions /\ home[c] = sid[c] /\ home[c] # NoSession
         /\ Seated(c) <=> occupant[sid[c]]["client"] = c
<1>1. sid[c] \in Sessions /\ home[c] = sid[c]
  BY DEF BaseInv, TypeInv, NamesInv, NegTypeOK, Absent, RoomInv, ClientHome
<1>. QED BY <1>1, NamesAssumption, RoleFacts DEF Seated

LEMMA ApiAccounts ==
  ASSUME BaseInv, Accounted, ApiStep, NEW c \in Clients, Waits(c)'
  PROVE  Kept(sid[c])'
<1>. USE DEF BaseInv, TypeInv
<1>1. app[c] = "offered" /\ sid'[c] = sid[c]
  <2>1. CASE \E d \in Clients : CreateSession(d)
    <3>1. PICK d \in Clients, s \in Sessions :
            sid' = [sid EXCEPT ![d] = s] /\ app' = [app EXCEPT ![d] = "created"]
      BY <2>1, Created
    <3>. QED BY <3>1 DEF Waits, NegTypeOK
  <2>2. CASE \E d \in Clients : ReadPrevious(d)
    BY <2>2 DEF ReadPrevious, Waits, NegTypeOK
  <2>3. CASE ApiRestarts
    BY <2>3 DEF ApiRestarts, Waits
  <2>4. CASE ~ApiRestarts /\ ~\E d \in Clients : CreateSession(d) \/ ReadPrevious(d)
    BY <2>4 DEF ApiStep, DeleteSession, Logout, HandlerRefused, HandlerLeaves, Expire, appVars, Waits
  <2>. QED BY <2>1, <2>2, <2>3, <2>4
<1>2. PICK s \in Sessions :
        /\ s = sid[c] /\ c \in Peers /\ c # NoPeer /\ home[c] = s /\ home[c] # NoSession
        /\ RoleOf(c) = "client" /\ "client" \in Roles /\ "gateway" \in Roles
  BY <1>1, WaitingSeat, RoleFacts, NamesAssumption DEF Roles
<1>12. ~ApiRestarts
  <2>1. ASSUME CloseRooms(Sessions) PROVE FALSE
    <3>1. occupant'[s]["client"] = NoPeer /\ home' = home
      BY <1>2, <2>1 DEF CloseRooms, Nobody
    <3>. QED BY <1>2, <3>1 DEF Waits, Seated
  <2>. QED BY <2>1 DEF ApiRestarts
<1>3. /\ UNCHANGED <<body, phase, target, gateway>>
      /\ home' = home
  BY <1>12 DEF ApiStep, ReadPrevious, CreateSession, DeleteSession, Logout, HandlerRefused, HandlerLeaves,
     Expire, gatewayVars, CloseRooms, Exit, mvars
<1>4. occupant'[s]["client"] = c /\ occupant[s]["client"] = c /\ Kept(s)
  <2>1. Seated(c)
    BY <1>2, SeatLost, NegSteps DEF Waits
  <2>. QED BY <1>1, <1>2, <1>3, <2>1 DEF Accounted, Waits, Seated
<1>5. ASSUME \A r \in Roles : mail'[s][r] = mail[s][r] PROVE Kept(s)'
  <2>1. \A r \in Roles : \A x : InMail(s, r, x)' = InMail(s, r, x)
    BY <1>3, <1>5 DEF InMail
  <2>. QED BY <1>2, <1>3, <1>4, <2>1, KeptSame DEF Offers, Answers, Gathering, LeftBehind
<1>6. ASSUME NEW S, CloseRooms(S) PROVE Kept(s)'
  <2>1. s \notin S
    BY <1>2, <1>4, <1>6 DEF CloseRooms, Nobody
  <2>. QED BY <1>5, <1>6, <2>1 DEF CloseRooms
<1>7. ASSUME NEW p \in Peers, HandlerLeaves(p) PROVE Kept(s)'
  <2>1. Exit(p)
    BY <1>7 DEF HandlerLeaves
  <2>2. CASE home[p] # s
    <3>1. \A r \in Roles : mail'[s][r] = mail[s][r]
      BY <2>1, <2>2, Exited
    <3>. QED BY <1>5, <3>1
  <2>3. CASE home[p] = s
    <3>1. RoleOf(p) # "client"
      BY <1>2, <1>4, <2>1, <2>3 DEF Exit, SeatType
    <3>2. p \in Gateways /\ p # gateway
      BY <1>7, <3>1 DEF HandlerLeaves, Gone, Peers, RoleOf
    <3>3. LeftBehind(s)'
      BY <1>3, <2>3, <3>2 DEF LeftBehind
    <3>. QED BY <3>3 DEF Kept
  <2>. QED BY <2>2, <2>3
<1>8. ASSUME NEW t \in Sessions, Expire(t) PROVE Kept(s)'
  BY <1>5, <1>8 DEF Expire, mvars
<1>13. ASSUME UNCHANGED mvars PROVE Kept(s)'
  BY <1>5, <1>13 DEF mvars
<1>9. \/ \E S : CloseRooms(S)
      \/ \E p \in Peers : HandlerLeaves(p)
      \/ \E t \in Sessions : Expire(t)
      \/ UNCHANGED mvars
  BY DEF ApiStep, ReadPrevious, CreateSession, DeleteSession, Logout, HandlerRefused, ApiRestarts
<1>10. Kept(s)'
  BY <1>6, <1>7, <1>8, <1>9, <1>13
<1>11. sid'[c] = s
  BY <1>1, <1>2
<1>. QED BY <1>10, <1>11

LEMMA LateAccounts ==
  ASSUME BaseInv, Accounted, LateJoin, NEW c \in Clients, Waits(c)'
  PROVE  Kept(sid[c])'
<1>1. PICK p \in Peers : HandlerJoins(p)
  BY DEF LateJoin
<1>2. PICK t \in Sessions :
        /\ Enter(p, t) /\ UNCHANGED <<row, body, app, sid, phase, gateway, target>>
  BY <1>1, Joins DEF BaseInv
<1>3. app[c] = "offered" /\ c \in Peers /\ home[c] # NoSession
  BY <1>2, WaitingSeat DEF Waits
<1>4. PICK s \in Sessions : s = sid[c] /\ Kept(s)
  <2>1. Seated(c)
    BY <1>3, SeatLost, NegSteps DEF Waits
  <2>. QED BY <1>3, <2>1, WaitingSeat DEF Accounted, Waits
<1>5. /\ home[p] = NoSession /\ home' = [home EXCEPT ![p] = t] /\ UNCHANGED mail
  BY <1>2, Entered DEF BaseInv, TypeInv
<1>6. LeftBehind(s) => LeftBehind(s)'
  BY <1>2, <1>5, NamesAssumption, RoleFacts DEF LeftBehind, BaseInv, TypeInv, SeatType
<1>7. Offers(s)' = Offers(s) /\ Answers(s)' = Answers(s)
  BY <1>2, <1>5, SameMail DEF Offers, Answers, Roles
<1>8. Kept(s)'
  BY <1>2, <1>4, <1>6, <1>7, KeptSame DEF Gathering
<1>. QED BY <1>2, <1>4, <1>8

LEMMA AppAccounts ==
  ASSUME MaxCandidates < MinCap, BaseInv, FewBefore, Accounted, AppStep,
         NEW c \in Clients, Waits(c)'
  PROVE  Kept(sid[c])'
<1>. PICK d \in Clients :
       ClientDials(d) \/ ClientJoins(d) \/ SendCandidate(d) \/ SendOffer(d) \/ ClientReads(d) \/ Quit(d)
  BY DEF AppStep
<1>1. UNCHANGED <<sid, phase, target, gateway>>
  BY DEF ClientDials, ClientJoins, SendCandidate, SendOffer, ClientReads, Quit, appVars, gatewayVars
<1>2. /\ TypeInv /\ "gateway" \in Roles /\ "client" \in Roles /\ d \in Peers /\ Other(RoleOf(d)) = "gateway"
      /\ "ice" \in ContentsFor("gateway") /\ "offer" \in ContentsFor("gateway")
      /\ app[d] \notin Absent => sid[d] \in Sessions /\ (d # c => sid[c] # sid[d])
      /\ \A e \in Clients : app[e] \in {"joined", "offered"} => home[e] = sid[e] /\ e \in Peers
  BY RoleFacts DEF BaseInv, Roles, ContentsFor, TypeInv, NamesInv, NegTypeOK, Absent, RoomInv, OwnSid, ClientHome
<1>3. app'[c] = "offered"
  BY DEF Waits
<1>4. app[c] \in {"joined", "offered"}
  BY <1>3 DEF ClientDials, ClientJoins, SendCandidate, SendOffer, ClientReads, Quit, BaseInv, TypeInv, NegTypeOK,
     appVars
<1>5. /\ home[c] = sid[c] /\ c \in Peers /\ home[c] # NoSession /\ sid[c] \in Sessions
      /\ occupant[sid[c]]["client"] = c /\ Seated(c)
  <2>1. home[c] = sid[c] /\ c \in Peers /\ RoleOf(c) = "client" /\ sid[c] \in Sessions /\ home[c] # NoSession
    BY <1>2, <1>4, RoleFacts, NamesAssumption DEF BaseInv, TypeInv, NamesInv, NegTypeOK, Absent
  <2>2. Seated(c)
    BY <2>1, SeatLost, NegSteps DEF Waits
  <2>. QED BY <2>1, <2>2 DEF Seated
<1>6. PICK s \in Sessions : s = sid[c]
  BY <1>5
<1>7. CASE app[c] = "joined"
  <2>1. SendOffer(d) /\ d = c
    BY <1>3, <1>7 DEF ClientDials, ClientJoins, SendCandidate, SendOffer, ClientReads, Quit, BaseInv, TypeInv, NegTypeOK,
     appVars
  <2>2. Say(c, "offer")
    BY <2>1 DEF SendOffer
  <2>3. CASE Refuse(c)
    <3>1. occupant[s] # Nobody
      BY <1>2, <1>5, <1>6, NamesAssumption DEF Nobody
    <3>2. Load(s) >= MinCap
      BY <1>2, <1>5, <1>6, <2>1, <2>3, <3>1 DEF Refuse, Load
    <3>3. Load(s) <= candidates[c] /\ Load(s) \in Nat
      BY <1>6, <1>7, LoadType DEF FewBefore, Early
    <3>4. FALSE
      BY <3>2, <3>3, BoundsAssumption DEF BaseInv, TypeInv, NegTypeOK
    <3>. QED BY <3>4
  <2>4. CASE ~Refuse(c)
    <3>1. PICK t \in Sessions :
            t = home[c] /\ InMail(t, "gateway", "offer")' = InMail(t, "gateway", "offer") \cup {Len(mail[t]["gateway"]) + 1}
      BY <1>2, <2>1, <2>2, <2>4, Said
    <3>2. t = s /\ Offers(t)' # {}
      BY <1>5, <1>6, <3>1 DEF Offers
    <3>3. Kept(s)'
      BY <3>2 DEF Kept
    <3>4. sid'[c] = s
      BY <1>1, <1>6
    <3>. QED BY <3>3, <3>4
  <2>. QED BY <2>3, <2>4
<1>8. CASE app[c] = "offered"
  <2>1. Kept(s)
    BY <1>5, <1>6, <1>8 DEF Accounted, Waits
  <2>2. Offers(s)' = Offers(s) /\ Answers(s)' = Answers(s)
    <3>1. CASE ClientDials(d) \/ ClientJoins(d) \/ Quit(d)
      <4>1. UNCHANGED <<mail, body>>
        BY <3>1 DEF ClientDials, ClientJoins, Enter, Quit, mvars
      <4>. QED BY <1>2, <4>1, SameMail DEF Offers, Answers
    <3>2. CASE SendCandidate(d)
      <4>1. Say(d, "ice")
        BY <3>2 DEF SendCandidate
      <4>. QED BY <1>2, <4>1, Said DEF Offers, Answers
    <3>3. CASE SendOffer(d)
      <4>1. Say(d, "offer") /\ app[d] = "joined" /\ home[d] # s
        BY <1>2, <1>6, <1>8, <3>3 DEF SendOffer, Absent
      <4>. QED BY <1>2, <4>1, Said DEF Offers, Answers
    <3>4. CASE ClientReads(d)
      <4>1. /\ app[d] = "offered" /\ app'[d] = "answered" /\ Take(sid[d], "client") /\ UNCHANGED body
        BY <3>4 DEF ClientReads, BaseInv, TypeInv, NegTypeOK
      <4>2. sid[d] # s /\ sid[d] \in Sessions
        BY <1>2, <1>3, <1>6, <4>1 DEF Absent
      <4>. QED BY <1>2, <4>1, <4>2, Taken DEF Offers, Answers, TypeInv
    <3>. QED BY <3>1, <3>2, <3>3, <3>4
  <2>3. \A g \in Gateways : home'[g] = home[g]
    BY NamesAssumption DEF ClientDials, ClientJoins, SendCandidate, SendOffer, ClientReads, Quit, Enter, Say, Post,
       Refuse, Take, mvars, BaseInv, TypeInv, SeatType, Peers
  <2>4. Kept(s)'
    BY <1>1, <2>1, <2>2, <2>3, KeptSame DEF Gathering, LeftBehind
  <2>5. sid'[c] = s
    BY <1>1, <1>6
  <2>. QED BY <2>4, <2>5
<1>. QED BY <1>4, <1>7, <1>8

LEMMA GatewayAccounts ==
  ASSUME 0 < MinCap, BaseInv, OfferInv, Accounted, GatewayNext, NEW c \in Clients, Waits(c)'
  PROVE  Kept(sid[c])'
<1>1. UNCHANGED <<app, sid>>
  BY DEF GatewayNext, Poll, Dial, GatewayJoins, DialRefused, ReadMessage, WriteAnswer, SignallingEnds, Connect,
     PeerFails, GatewayFails, appVars
<1>2. /\ TypeInv /\ "gateway" \in Roles /\ "client" \in Roles
      /\ phase # "idle" => /\ target \in Sessions /\ gateway \in Peers /\ gateway \in Gateways
                          /\ Other(RoleOf(gateway)) = "client"
      /\ phase = "idle" => gateway = NoPeer
      /\ "answer" \in ContentsFor("client")
  BY RoleFacts DEF BaseInv, Roles, TypeInv, NamesInv, ContentsFor
<1>3. /\ app[c] = "offered" /\ sid[c] \in Sessions /\ c \in Peers /\ home[c] = sid[c]
      /\ home[c] # NoSession
  BY <1>1, WaitingSeat DEF Waits
<1>4. PICK s \in Sessions : s = sid[c]
  BY <1>3
<1>5. occupant[s]["client"] = c /\ Kept(s) /\ sid'[c] = s
  <2>1. Seated(c)
    BY <1>3, SeatLost, NegSteps DEF Waits
  <2>. QED BY <1>1, <1>3, <1>4, <2>1, WaitingSeat DEF Accounted, Waits
<1>6. Gathering(s) => home[gateway] = s
  BY DEF BaseInv, RoomInv, GatewayHome, Gathering, Joined
<1>7. SUFFICES Kept(s)'
  BY <1>5
<1>8. ASSUME UNCHANGED <<mvars, body>> PROVE Offers(s)' = Offers(s) /\ Answers(s)' = Answers(s) /\ home' = home
  BY <1>8, MailFrame DEF Offers, Answers
<1>15. CASE Dial
  <2>1. UNCHANGED <<mvars, body, phase, gateway, target>>
    BY <1>15 DEF Dial, gatewayVars
  <2>. QED BY <1>5, <1>8, <2>1, KeptSame DEF Gathering, LeftBehind
<1>9. CASE Poll
  <2>1. phase = "idle" /\ home[gateway'] = NoSession /\ UNCHANGED <<mvars, body>>
    BY <1>9 DEF Poll, Free
  <2>2. LeftBehind(s)'  \/ ~LeftBehind(s)
    BY <1>8, <2>1, NamesAssumption DEF LeftBehind
  <2>. QED BY <1>5, <1>8, <2>1, <2>2, KeptSame DEF Gathering
<1>10. CASE GatewayJoins
  <2>1. phase = "starting" /\ UNCHANGED <<mail, body, gateway>> /\ home' = [home EXCEPT ![gateway] = want[gateway]]
    BY <1>10 DEF GatewayJoins, Enter
  <2>2. Offers(s)' = Offers(s) /\ Answers(s)' = Answers(s)
    BY <1>2, <2>1, SameMail DEF Offers, Answers
  <2>3. LeftBehind(s) => LeftBehind(s)'
    BY <1>2, <2>1 DEF LeftBehind, TypeInv, SeatType, Peers
  <2>. QED BY <1>5, <2>1, <2>2, <2>3, KeptSame DEF Gathering
<1>11. CASE Connect
  <2>1. phase = "answered" /\ UNCHANGED <<mvars, body, gateway>>
    BY <1>11 DEF Connect
  <2>. QED BY <1>5, <1>8, <2>1, KeptSame DEF Gathering, LeftBehind
<1>12. CASE DialRefused \/ SignallingEnds \/ PeerFails \/ GatewayFails
  <2>1. gateway' = NoPeer /\ UNCHANGED <<mvars, body>>
    BY <1>12 DEF DialRefused, SignallingEnds, PeerFails, GatewayFails, Return
  <2>2. Gathering(s) \/ LeftBehind(s) => LeftBehind(s)'
    BY <1>2, <1>6, <1>8, <2>1, NamesAssumption DEF Gathering, LeftBehind, Peers
  <2>. QED BY <1>5, <1>8, <2>1, <2>2 DEF Kept
<1>13. CASE ReadMessage
  <2>0. PICK t \in Sessions : t = target
    BY <1>2, <1>13 DEF ReadMessage
  <2>1. /\ phase \in {"reading", "answered", "connected"}
        /\ Take(t, "gateway") /\ UNCHANGED <<body, home>>
    BY <1>13, <2>0 DEF ReadMessage, Take
  <2>2. PICK first : first = body[mail[t]["gateway"][1].n]
    OBVIOUS
  <2>3. /\ 1 \in 1..Len(mail[t]["gateway"])
        /\ Head(mail[t]["gateway"]) = mail[t]["gateway"][1]
        /\ \A u \in Sessions, q \in Roles : \A x :
             u # t \/ q # "gateway" => InMail(u, q, x)' = InMail(u, q, x)
        /\ \A x : InMail(t, "gateway", x)' =
             {i \in 1..(Len(mail[t]["gateway"]) - 1) : i + 1 \in InMail(t, "gateway", x)}
    BY <1>2, <2>1, Taken DEF TypeInv
  <2>4. /\ first = "offer" => phase' = "gathering" /\ UNCHANGED <<gateway, target>>
        /\ gateway' \in {gateway, NoPeer}
    BY <1>13, <2>0, <2>1, <2>2, <2>3 DEF ReadMessage, Reaction, Return
  <2>5. Answers(s)' = Answers(s)
    BY <1>2, <2>3 DEF Answers
  <2>6. ~Gathering(s)
    BY <2>1 DEF Gathering
  <2>7. LeftBehind(s) => LeftBehind(s)'
    BY <2>1, <2>4, NamesAssumption DEF LeftBehind, Peers
  <2>8. CASE s # t
    <3>1. Offers(s)' = Offers(s)
      BY <1>2, <2>3, <2>8 DEF Offers
    <3>. QED BY <1>5, <2>5, <2>6, <2>7, <3>1, KeptSame
  <2>9. CASE s = t /\ first = "offer"
    BY <2>0, <2>4, <2>9 DEF Kept, Gathering
  <2>10. CASE s = t /\ first # "offer"
    <3>1. 1 \notin Offers(s)
      BY <2>2, <2>10 DEF Offers, InMail
    <3>2. Offers(s)' = {i \in 1..(Len(mail[s]["gateway"]) - 1) : i + 1 \in Offers(s)}
      BY <2>3, <2>10 DEF Offers
    <3>3. ASSUME NEW i \in Offers(s) PROVE i - 1 \in Offers(s)'
      <4>1. i \in 1..Len(mail[s]["gateway"]) /\ i # 1 /\ Len(mail[s]["gateway"]) \in Nat
        BY <3>1, <3>3, LoadType DEF Offers, InMail, Load
      <4>2. i - 1 \in 1..(Len(mail[s]["gateway"]) - 1) /\ (i - 1) + 1 = i
        BY <4>1
      <4>. QED BY <3>2, <3>3, <4>2
    <3>4. Offers(s) # {} => Offers(s)' # {}
      BY <3>3
    <3>. QED BY <1>5, <2>5, <2>6, <2>7, <3>4 DEF Kept
  <2>. QED BY <2>8, <2>9, <2>10
<1>14. CASE WriteAnswer
  <2>1. /\ Say(gateway, "answer") /\ phase = "gathering" /\ UNCHANGED gateway
        /\ home[gateway] = target /\ target \in Sessions
    BY <1>2, <1>14 DEF WriteAnswer, BaseInv, RoomInv, GatewayHome, Joined
  <2>2. PICK t \in Sessions :
          /\ t = home[gateway] /\ UNCHANGED home
          /\ \A u \in Sessions, q \in Roles : \A x :
               u # t \/ q # "client" \/ x # "answer" => InMail(u, q, x)' = InMail(u, q, x)
          /\ \/ InMail(t, "client", "answer")' = InMail(t, "client", "answer") \cup {Len(mail[t]["client"]) + 1}
             \/ Refuse(gateway) /\ InMail(t, "client", "answer")' = InMail(t, "client", "answer")
    BY <1>2, <2>1, Said
  <2>3. Offers(s)' = Offers(s)
    BY <1>2, <2>2 DEF Offers
  <2>4. LeftBehind(s) => LeftBehind(s)'
    BY <2>1, <2>2 DEF LeftBehind
  <2>5. CASE s # target
    <3>1. Answers(s)' = Answers(s) /\ ~Gathering(s)
      BY <1>2, <2>1, <2>2, <2>5 DEF Answers, Gathering
    <3>. QED BY <1>5, <2>3, <2>4, <3>1, KeptSame
  <2>6. CASE s = target
    <3>1. ~Refuse(gateway)
      <4>1. Answers(s) = {}
        BY <2>1, <2>6 DEF OfferInv, OneOffer, Gathering
      <4>2. PICK q \in Seq(Letters) : q = mail[s]["client"]
        BY <1>2 DEF TypeInv, BoxType
      <4>3. 1 \notin 1..Len(q)
        <5>1. SUFFICES ASSUME 1 \in 1..Len(mail[s]["client"]) PROVE FALSE
          BY <4>2
        <5>2. body[mail[s]["client"][1].n] \in ContentsFor("client")
          BY <1>2, <5>1, LetterFacts DEF TypeInv
        <5>. QED BY <4>1, <5>1, <5>2 DEF Answers, InMail, ContentsFor
      <4>4. Len(mail[s]["client"]) = 0
        BY <4>2, <4>3
      <4>5. occupant[s] # Nobody
        BY <1>2, <1>3, <1>5, NamesAssumption DEF Nobody
      <4>. QED BY <1>2, <2>1, <2>6, <4>4, <4>5, BoundsAssumption DEF Refuse
    <3>2. Answers(s)' # {}
      BY <2>1, <2>2, <2>6, <3>1 DEF Answers
    <3>. QED BY <3>2 DEF Kept
  <2>. QED BY <2>5, <2>6
<1>. QED BY <1>9, <1>10, <1>11, <1>12, <1>13, <1>14, <1>15 DEF GatewayNext

(* The app sends one offer.  While it waits, the offer is in the mail, a   *)
(* gateway is answering it, the answer is in the mail, or a serveSession   *)
(* that had joined this session gave up: provided that the hub holds all   *)
(* the candidates that an app sends.                                       *)
THEOREM OffersAreKept ==
  ASSUME MaxCandidates < MinCap
  PROVE  NegSpec => []OfferIsAccountedFor
<1>1. NegInit => Accounted
  BY DEF NegInit, Accounted, Waits
<1>2. BaseInv /\ OfferInv /\ FewBefore /\ Accounted /\ [NegNext]_negVars => Accounted'
  <2>. SUFFICES ASSUME BaseInv, OfferInv, FewBefore, Accounted, [NegNext]_negVars,
                       NEW c \in Clients, Waits(c)'
                PROVE  Kept(sid[c])'
    BY DEF Accounted
  <2>1. CASE NegNext
    <3>1. 0 < MinCap
      BY BoundsAssumption
    <3>. QED BY <2>1, <3>1, NegSteps, ApiAccounts, LateAccounts, AppAccounts, GatewayAccounts
  <2>2. CASE UNCHANGED negVars
    <3>1. UNCHANGED <<mvars, body, app, sid, occupant, mail, home, phase, target, gateway>>
      BY <2>2 DEF negVars, mvars, appVars, gatewayVars
    <3>2. Waits(c) /\ c \in Clients
      BY <3>1 DEF Waits, Seated
    <3>3. PICK s \in Sessions : s = sid[c] /\ Kept(s)
      BY <3>2, WaitingSeat DEF Accounted, Waits
    <3>4. Kept(s)'
      BY <3>1, <3>3, SameMail, KeptSame DEF Offers, Answers, Gathering, LeftBehind, Roles
    <3>5. sid'[c] = s
      BY <3>1, <3>3
    <3>. QED BY <3>4, <3>5
  <2>. QED BY <2>1, <2>2
<1>3. Accounted => OfferIsAccountedFor
  BY DEF Accounted, Waits, Kept, Offers, Answers, Gathering, LeftBehind, OfferIsAccountedFor
<1>. QED BY <1>1, <1>2, <1>3, BaseInvHolds, OfferInvHolds, FewBeforeHolds, PTL DEF NegSpec
=============================================================================
