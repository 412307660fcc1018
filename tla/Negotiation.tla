----------------------------- MODULE Negotiation -----------------------------
(***************************************************************************)
(* How a remote session comes about: the app creates it and sends an offer *)
(* and candidates (src/ios/AndroidPessoal/WebRTCClient.swift, AppModel),   *)
(* the gateway polls the API, joins the session's signalling, answers and  *)
(* streams until something ends (src/internal/gateway/gateway.go: Run,     *)
(* serveSession), over the signalling hub as SignalMailbox promises it.    *)
(*                                                                         *)
(* Each connect of the app makes a WebRTCClient, which creates a session   *)
(* and joins it once; each serveSession joins once.  Both are peers of the *)
(* mailbox.  A mailbox numbers its messages; body says what they contain.  *)
(* The signal handler of the API checks the session, then joins the hub;   *)
(* createSession reads the session whose room it will close, then commits. *)
(* Anything may come between.  A deletion or logout is one step: whoever   *)
(* joins between its statements is disconnected by the last of them.       *)
(***************************************************************************)
EXTENDS SignalMailbox, Functions, FiniteSets

CONSTANTS
  MaxCandidates,  \* bound: candidates that an app sends
  MaxEvents,      \* bound: candidates of all apps, sessions that are expired, and
                  \* failures of the gateway, its connections, scrcpy and the API,
                  \* together
  MayExpire       \* whether sessions live long enough to expire

ASSUME NamesAssumption ==
  NoPeer \notin Peers /\ NoSession \notin Sessions /\ Clients \cap Gateways = {}
ASSUME MayExpireAssumption == MayExpire \in BOOLEAN
ASSUME BoundsAssumption ==
  MaxCandidates \in Nat /\ MaxEvents \in Nat /\ MinCap \in Nat /\ MaxCap \in Nat

VARIABLES
  row,         \* row[s] of remote_sessions: "none", "live", "expired", "revoked"
  body,        \* body[n]: the content of the n-th message
  want,        \* want[p]: the session that the handler of p found live, and
               \* has not joined yet
  app,         \* app[c]: "none", "creating", "created", "joined", "offered",
               \* "answered", "closed"
  previous,    \* previous[c]: the session that was active when c began to create
  sid,         \* sid[c]: the session c created
  candidates,  \* candidates[c]: how many c sent
  phase,       \* the gateway: "idle", "starting", "reading", "gathering",
               \* "answered", "connected"
  gateway,     \* the peer of the present serveSession
  target,      \* and its session
  failures     \* how many failures there were

appVars == <<app, previous, sid, candidates>>
gatewayVars == <<phase, gateway, target, failures>>
negVars == <<mvars, row, body, want, appVars, gatewayVars>>

NegInit ==
  /\ Init
  /\ row = [s \in Sessions |-> "none"]
  /\ body = << >>
  /\ want = [p \in Peers |-> NoSession]
  /\ previous = [c \in Clients |-> NoSession]
  /\ app = [c \in Clients |-> "none"]
  /\ sid = [c \in Clients |-> NoSession]
  /\ candidates = [c \in Clients |-> 0]
  /\ phase = "idle" /\ gateway = NoPeer /\ target = NoSession /\ failures = 0

-----------------------------------------------------------------------------
(* The API.                                                                *)
MayHappen ==
  SumFunction(candidates) + failures + Cardinality({s \in Sessions : row[s] = "expired"}) < MaxEvents

Live == {s \in Sessions : row[s] = "live"}
Seated(p) == home[p] # NoSession /\ occupant[home[p]][RoleOf(p)] = p

(* createSession and logout close the room of the active session,          *)
(* deleteSession that of its own.                                          *)
CloseRooms(S) ==
  /\ occupant' = [s \in Sessions |-> IF s \in S THEN Nobody ELSE occupant[s]]
  /\ mail' = [s \in Sessions |-> IF s \in S THEN NoMail ELSE mail[s]]
  /\ UNCHANGED <<home, posted>>

Active == IF Live = {} THEN NoSession ELSE CHOOSE s \in Live : TRUE

(* The first statement of createSession.                                   *)
ReadPrevious(c) ==
  /\ app[c] = "none"
  /\ c = CHOOSE d \in Clients : app[d] = "none"
  /\ app' = [app EXCEPT ![c] = "creating"]
  /\ previous' = [previous EXCEPT ![c] = Active]
  /\ UNCHANGED <<mvars, row, body, want, sid, candidates, gatewayVars>>

ReplacedNone(c) == {}
Replaced(c) == {previous[c]} \cap Sessions

(* The rest of it.  New clients and sessions are alike: any unused will do.*)
CreateSession(c) ==
  /\ app[c] = "creating"
  /\ \E s \in Sessions : row[s] = "none"
  /\ LET s == CHOOSE t \in Sessions : row[t] = "none"
     IN /\ row' = [t \in Sessions |->
                     IF t = s THEN "live"
                     ELSE IF row[t] \in {"live", "expired"} THEN "revoked" ELSE row[t]]
        /\ sid' = [sid EXCEPT ![c] = s]
  /\ CloseRooms(Replaced(c))
  /\ app' = [app EXCEPT ![c] = "created"]
  /\ previous' = [previous EXCEPT ![c] = NoSession]
  /\ UNCHANGED <<body, want, candidates, gatewayVars>>

DeleteSession(c) ==
  /\ app[c] = "closed"
  /\ sid[c] # NoSession
  /\ row[sid[c]] \in {"live", "expired"}
  /\ row' = [row EXCEPT ![sid[c]] = "revoked"]
  /\ CloseRooms({sid[c]})
  /\ UNCHANGED <<body, want, appVars, gatewayVars>>

(* logout revokes the active session of the user, whoever created it.      *)
Logout(c) ==
  /\ app[c] = "closed"
  /\ Live # {}
  /\ row' = [s \in Sessions |-> IF s \in Live THEN "revoked" ELSE row[s]]
  /\ CloseRooms(Live)
  /\ UNCHANGED <<body, want, appVars, gatewayVars>>

Expire(s) ==
  /\ MayExpire /\ MayHappen
  /\ row[s] = "live"
  /\ row' = [row EXCEPT ![s] = "expired"]
  /\ UNCHANGED <<mvars, body, want, appVars, gatewayVars>>

(* serveSession returns: its deferred calls close everything it opened.    *)
Return == phase' = "idle" /\ gateway' = NoPeer /\ target' = NoSession

(* The API is started again: the rows are in the database, the hub is new, *)
(* every connection is broken and every request, but an app may create     *)
(* again.                                                                  *)
Dialled == phase = "starting" /\ want[gateway] # NoSession
ApiRestarts ==
  /\ (\E s \in Sessions : occupant[s] # Nobody) \/ (\E p \in Peers : want[p] # NoSession)
  /\ MayHappen
  /\ failures' = failures + 1
  /\ CloseRooms(Sessions)
  /\ want' = [p \in Peers |-> NoSession]
  /\ app' = [c \in Clients |-> IF app[c] = "creating" THEN "none"
                               ELSE IF want[c] # NoSession THEN "closed" ELSE app[c]]
  /\ IF Dialled THEN Return ELSE UNCHANGED <<phase, gateway, target>>
  /\ UNCHANGED <<row, body, previous, sid, candidates>>

(* Forward, with its content; a message the hub refuses is lost.           *)
SayUnrecorded(p, content) == (Post(p) \/ Refuse(p)) /\ UNCHANGED body
Say(p, content) == (Post(p) \/ Refuse(p)) /\ body' = Append(body, content)

(* The handler of a connection: it looks for the session, joins the hub,   *)
(* and leaves it when the connection has ended.  One whose client or       *)
(* gateway is gone before it joins does not know.                          *)
Gone(p) == IF p \in Clients THEN app[p] = "closed" ELSE gateway # p
Finds(p, s) == row[s] = "live" /\ want[p] = NoSession /\ want' = [want EXCEPT ![p] = s]
Settles(p) == want[p] # NoSession /\ want' = [want EXCEPT ![p] = NoSession]

HandlerJoins(p) ==
  /\ Gone(p)
  /\ Settles(p) /\ Enter(p, want[p])
  /\ UNCHANGED <<row, body, appVars, gatewayVars>>

HandlerRefused(p) ==
  /\ Gone(p)
  /\ Settles(p) /\ occupant[want[p]][RoleOf(p)] # NoPeer
  /\ UNCHANGED <<mvars, row, body, appVars, gatewayVars>>

HandlerLeaves(p) ==
  /\ Seated(p) /\ Gone(p)
  /\ Exit(p)
  /\ UNCHANGED <<row, body, want, appVars, gatewayVars>>

HandlerStep(p) == HandlerJoins(p) \/ HandlerRefused(p) \/ HandlerLeaves(p)

-----------------------------------------------------------------------------
(* The app.                                                                *)
ClientDials(c) ==
  /\ app[c] = "created"
  /\ Finds(c, sid[c])
  /\ UNCHANGED <<mvars, row, body, appVars, gatewayVars>>

ClientJoins(c) ==
  /\ app[c] = "created"
  /\ Settles(c) /\ Enter(c, want[c])
  /\ app' = [app EXCEPT ![c] = "joined"]
  /\ UNCHANGED <<row, body, previous, sid, candidates, gatewayVars>>

(* didGenerate starts a task for each candidate once the local description *)
(* is set, connect sends the offer after that: either may be first.        *)
SendCandidate(c) ==
  /\ app[c] \in {"joined", "offered", "answered"}
  /\ candidates[c] < MaxCandidates /\ MayHappen
  /\ Say(c, "ice")
  /\ candidates' = [candidates EXCEPT ![c] = @ + 1]
  /\ UNCHANGED <<row, want, app, previous, sid, gatewayVars>>

SendOffer(c) ==
  /\ app[c] = "joined"
  /\ Say(c, "offer")
  /\ app' = [app EXCEPT ![c] = "offered"]
  /\ UNCHANGED <<row, want, previous, sid, candidates, gatewayVars>>

(* handle: the gateway sends nothing but answers.                          *)
ClientReads(c) ==
  /\ Seated(c)
  /\ app[c] = "offered"
  /\ Take(sid[c], "client")
  /\ app' = [app EXCEPT ![c] = "answered"]
  /\ UNCHANGED <<row, body, want, previous, sid, candidates, gatewayVars>>

(* The user disconnects, the app vanishes, or the join is refused.         *)
Quit(c) ==
  /\ app[c] \notin {"none", "creating", "closed"}
  /\ app' = [app EXCEPT ![c] = "closed"]
  /\ UNCHANGED <<mvars, row, body, want, previous, sid, candidates, gatewayVars>>

-----------------------------------------------------------------------------
(* The gateway.                                                            *)
Joined == phase \notin {"idle", "starting"}
ClientOf(s) == CHOOSE c \in Clients : sid[c] = s
AppIn(s) == IF \E c \in Clients : sid[c] = s THEN app[ClientOf(s)] ELSE "none"

Free(g) == home[g] = NoSession /\ want[g] = NoSession

(* activeSession, and serveSession up to the start of scrcpy.              *)
Poll ==
  /\ phase = "idle"
  /\ \E g \in Gateways : Free(g)
  /\ \E s \in Live : target' = s
  /\ phase' = "starting"
  /\ gateway' = CHOOSE g \in Gateways : Free(g)
  /\ UNCHANGED <<mvars, row, body, want, appVars, failures>>

Dial ==
  /\ phase = "starting"
  /\ Finds(gateway, target)
  /\ UNCHANGED <<mvars, row, body, appVars, gatewayVars>>

GatewayJoins ==
  /\ phase = "starting"
  /\ Settles(gateway) /\ Enter(gateway, want[gateway])
  /\ phase' = "reading"
  /\ UNCHANGED <<row, body, appVars, gateway, target, failures>>

(* 404, or 409 while the handler of an earlier connection holds the seat.  *)
DialRefused ==
  /\ phase = "starting"
  /\ \/ want[gateway] = NoSession /\ row[target] # "live" /\ UNCHANGED want
     \/ Settles(gateway) /\ occupant[target]["gateway"] # NoPeer
  /\ Return
  /\ UNCHANGED <<mvars, row, body, appVars, failures>>

(* What the loop does with a message: the offer is set and an answer made, *)
(* a candidate before it is an error of AddICECandidate that ends it.      *)
ReactionWithoutOffer(content) == IF content = "ice" /\ phase = "reading" THEN "idle" ELSE phase
Reaction(content) ==
  IF content = "offer" THEN "gathering"
  ELSE IF phase = "reading" THEN "idle" ELSE phase

ReadMessage ==
  /\ phase \in {"reading", "answered", "connected"}
  /\ Seated(gateway)
  /\ Take(target, "gateway")
  /\ LET next == Reaction(body[Head(mail[target]["gateway"]).n])
     IN IF next = "idle" THEN Return
        ELSE phase' = next /\ UNCHANGED <<gateway, target>>
  /\ UNCHANGED <<row, body, want, appVars, failures>>

(* The candidates are gathered and the answer is written.                  *)
AnswerOnAndOn ==
  /\ phase = "gathering"
  /\ Seated(gateway)
  /\ Say(gateway, "answer")
  /\ UNCHANGED <<row, want, appVars, gatewayVars>>
WriteAnswer ==
  /\ phase = "gathering"
  /\ Seated(gateway)
  /\ Say(gateway, "answer")
  /\ phase' = "answered"
  /\ UNCHANGED <<row, want, appVars, gateway, target, failures>>

(* The API closed the connection: the read, or the write, fails.           *)
SignallingEnds ==
  /\ Joined
  /\ ~Seated(gateway)
  /\ Return
  /\ UNCHANGED <<mvars, row, body, want, appVars, failures>>

Connect ==
  /\ phase = "answered"
  /\ AppIn(target) = "answered"
  /\ phase' = "connected"
  /\ UNCHANGED <<mvars, row, body, want, appVars, gateway, target, failures>>

(* The state of the peer connection becomes failed once nobody answers its *)
(* checks any more; before an offer there is nothing to fail.              *)
PeerFails ==
  /\ phase \in {"answered", "connected"}
  /\ AppIn(target) = "closed"
  /\ Return
  /\ UNCHANGED <<mvars, row, body, want, appVars, failures>>

(* scrcpy does not start, gathering takes more than 12 s, a connection     *)
(* breaks, the gateway is restarted.                                       *)
GatewayFails ==
  /\ phase # "idle"
  /\ MayHappen
  /\ failures' = failures + 1
  /\ Return
  /\ UNCHANGED <<mvars, row, body, want, appVars>>

GatewayNext ==
  \/ Poll \/ Dial \/ GatewayJoins \/ DialRefused \/ ReadMessage \/ WriteAnswer
  \/ SignallingEnds \/ Connect \/ PeerFails \/ GatewayFails

NegNext ==
  \/ \E c \in Clients : \/ ReadPrevious(c) \/ CreateSession(c) \/ DeleteSession(c) \/ Logout(c)
                        \/ ClientDials(c) \/ ClientJoins(c)
                        \/ SendCandidate(c) \/ SendOffer(c) \/ ClientReads(c) \/ Quit(c)
  \/ \E p \in Peers : HandlerStep(p)
  \/ \E s \in Sessions : Expire(s)
  \/ ApiRestarts
  \/ GatewayNext

NegSpec == NegInit /\ [][NegNext]_negVars

(* The gateway's loop runs, retries after a second, and notices what ended; *)
(* the API's handlers go on, and notice connections that ended, at the     *)
(* latest after 45 s.  The app does what it does, and nothing has to fail. *)
Fairness ==
  /\ WF_negVars(Poll) /\ WF_negVars(Dial \/ GatewayJoins \/ DialRefused)
  /\ WF_negVars(ReadMessage) /\ WF_negVars(WriteAnswer)
  /\ WF_negVars(SignallingEnds) /\ WF_negVars(PeerFails)
  /\ \A p \in Peers : WF_negVars(HandlerStep(p))

FairNegSpec == NegSpec /\ Fairness

-----------------------------------------------------------------------------
(* Properties.                                                             *)

(* Types; the contents are those of the messages posted.                   *)
NegTypeOK ==
  /\ row \in [Sessions -> {"none", "live", "expired", "revoked"}]
  /\ Len(body) = posted
  /\ \A n \in 1..Len(body) : body[n] \in {"offer", "ice", "answer"}
  /\ want \in [Peers -> Sessions \cup {NoSession}]
  /\ app \in [Clients -> {"none", "creating", "created", "joined", "offered", "answered", "closed"}]
  /\ previous \in [Clients -> Sessions \cup {NoSession}]
  /\ sid \in [Clients -> Sessions \cup {NoSession}]
  /\ candidates \in [Clients -> 0..MaxCandidates]
  /\ phase \in {"idle", "starting", "reading", "gathering", "answered", "connected"}
  /\ gateway \in Gateways \cup {NoPeer}
  /\ target \in Sessions \cup {NoSession}
  /\ failures \in Nat

InMail(s, role, content) == {i \in 1..Len(mail[s][role]) : body[mail[s][role][i].n] = content}

(* An answer reaches the app only while it waits for one, and there is one *)
(* at most: a second one, or one without an offer, makes handle throw and  *)
(* ends the app's signalling.  Gateways that fail and retry in the same    *)
(* session, with an answer of the earlier one still in the mail, do not    *)
(* break this.                                                             *)
AnswerIsAwaited ==
  \A c \in Clients : Seated(c) =>
    \A i \in InMail(sid[c], "client", "answer") :
      /\ app[c] \in {"offered", "closed"}
      /\ InMail(sid[c], "client", "answer") = {i}

(* The app sends one offer.  While it waits, the offer is in the mail, a   *)
(* gateway is answering it, the answer is in the mail, or a serveSession   *)
(* that had joined this session gave up; no delay of the gateway, refusal  *)
(* or retry before it joins loses the offer.                               *)
OfferIsAccountedFor ==
  \A c \in Clients : (app[c] = "offered" /\ Seated(c)) =>
    \/ InMail(sid[c], "gateway", "offer") # {}
    \/ InMail(sid[c], "client", "answer") # {}
    \/ target = sid[c] /\ phase = "gathering"
    \/ \E g \in Gateways : home[g] = sid[c] /\ g # gateway

(* A session whose app is connected gets the gateway, wherever the gateway *)
(* was when the session was created; and the gateway does not stay in a    *)
(* session that was revoked.  Both as long as no session expires, none     *)
(* ends between the gateway's check and its join, and createSession closes *)
(* the room of the session it replaces (no other was created meanwhile):   *)
(* otherwise the gateway stays in a room that nobody closes.               *)
NoneExpires == [](\A s \in Sessions : row[s] # "expired")
NoneOvertaken == [](Dialled => row[target] = "live")
NoneOverlap == [](\A c \in Clients : app[c] = "creating" => Live \subseteq {previous[c]})
Orderly == NoneExpires /\ NoneOvertaken /\ NoneOverlap

SessionIsServed ==
  \A s \in Sessions :
    (row[s] = "live" /\ occupant[s]["client"] # NoPeer) ~>
      \/ Joined /\ target = s
      \/ row[s] # "live" \/ occupant[s]["client"] = NoPeer
UnexpiredIsServed == Orderly => SessionIsServed

RevokedIsLeft ==
  Orderly => \A s \in Sessions : (row[s] = "revoked" /\ target = s) ~> target # s
=============================================================================
