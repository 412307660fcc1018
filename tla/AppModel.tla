------------------------------- MODULE AppModel -------------------------------
(***************************************************************************)
(* Signing in and out of the app: signIn, connect and disconnect of        *)
(* src/ios/AndroidPessoal/AppModel.swift with the calls they await of      *)
(* APIClient.swift and WebRTCClient.swift, and the callbacks of the client *)
(* that change the phase.                                                  *)
(*                                                                         *)
(* A tap starts a task on the main actor; the part of a task between two   *)
(* awaits is one step, and any other task or callback may come between.    *)
(* The k-th signIn makes the k-th APIClient and, if it gets that far, the  *)
(* k-th session and WebRTCClient, so they all go by the number of the      *)
(* signIn.  A request is served by the API or lost; the app goes on when   *)
(* it is answered, or gives it up, and the API may still serve what the    *)
(* app gave up.                                                            *)
(***************************************************************************)
EXTENDS Naturals, Sequences, FiniteSets

CONSTANTS
  MaxSignIns,      \* bound: taps on "Entrar"
  MaxDisconnects,  \* bound: taps on the X and on "Voltar"
  MaxTaps,         \* bound: all of them, the one that overtakes counting twice
  MaxLost          \* bound: requests that the app gives up

ASSUME AppAssumption ==
  /\ MaxSignIns \in Nat /\ MaxDisconnects \in Nat
  /\ MaxTaps \in Nat /\ MaxLost \in Nat

SignIns == 1..MaxSignIns
Disconnects == 1..MaxDisconnects
None == 0
NoneOr(S) == S \cup {None}

VARIABLES
  \* AppModel
  phase,    \* "signedOut", "connecting", "connected", "failed"
  api,      \* api
  current,  \* webRTC
  signIn,   \* signIn[k]: the await at which the k-th signIn is
  leaving,  \* leaving[d]: the await at which the d-th disconnect is
  victim,   \* victim[d]: the client it disconnects
  account,  \* account[d]: the APIClient it logs out
  \* APIClient and WebRTCClient
  held,     \* held[k]: whether the k-th APIClient has its tokens
  spent,    \* the APIClients whose tokens no refresh is granted for any more
  client,   \* client[k]: "new" (nothing to close yet), "open", "closed"
  signal,   \* signal[k], receiveSignals: "none", "reading", "ended", "told"
  link,     \* link[k], the peer connection: "none", "answered", "up", "open"
            \* (a data channel is), "failed"
  calls,    \* calls[k]: callbacks of the peer connection yet to run
  \* the API
  row,      \* row[k] of remote_sessions: "none", "live", "revoked"
  create,   \* create[k], createSession: "none" under way, "sent", "served"
  delete,   \* delete[d], deleteSession: the same
  logout,   \* logout[d], logout: the same
  \* history
  lost,     \* requests the app gave up
  overtook  \* whether a disconnect came before a client could be closed,
            \* or while another disconnect was not over

phaseVars == <<phase, api, current>>
taskVars == <<signIn, leaving, victim, account>>
tokenVars == <<held, spent>>
clientVars == <<client, signal, link, calls>>
requestVars == <<row, create, delete, logout>>
ghostVars == <<lost, overtook>>
vars == <<phaseVars, taskVars, tokenVars, clientVars, requestVars, ghostVars>>

Init ==
  /\ phase = "signedOut" /\ api = None /\ current = None
  /\ signIn = [k \in SignIns |-> "idle"]
  /\ leaving = [d \in Disconnects |-> "idle"]
  /\ victim = [d \in Disconnects |-> None]
  /\ account = [d \in Disconnects |-> None]
  /\ held = [k \in SignIns |-> FALSE] /\ spent = {}
  /\ client = [k \in SignIns |-> "new"]
  /\ signal = [k \in SignIns |-> "none"]
  /\ link = [k \in SignIns |-> "none"]
  /\ calls = [k \in SignIns |-> << >>]
  /\ row = [k \in SignIns |-> "none"]
  /\ create = [k \in SignIns |-> "none"]
  /\ delete = [d \in Disconnects |-> "none"]
  /\ logout = [d \in Disconnects |-> "none"]
  /\ lost = {} /\ overtook = FALSE

-----------------------------------------------------------------------------
(* signIn and connect.                                                     *)
GoesOn(k, stage) == signIn' = [signIn EXCEPT ![k] = stage]

(* The catch of signIn: whatever is thrown ends the task and shows.        *)
EndsUnshown(k) == GoesOn(k, "failed") /\ UNCHANGED phase
Throws(k) == GoesOn(k, "failed") /\ phase' = "failed"

Taps == Cardinality({k \in SignIns : signIn[k] # "idle"})
        + Cardinality({d \in Disconnects : leaving[d] # "idle"})
        + (IF overtook THEN 1 ELSE 0)

(* The login view is shown while signed out; taps come in order.           *)
MayTapSignIn(k) ==
  /\ phase = "signedOut"
  /\ signIn[k] = "idle" /\ Taps < MaxTaps
  /\ \A j \in 1..(k - 1) : signIn[j] # "idle"

SignIn(k) ==
  /\ MayTapSignIn(k)
  /\ phase' = "connecting"
  /\ GoesOn(k, "login")
  /\ UNCHANGED <<api, current, leaving, victim, account, tokenVars, clientVars, requestVars, ghostVars>>

(* The server address is no https URL.                                     *)
SignInRefused(k) ==
  /\ MayTapSignIn(k)
  /\ Throws(k)
  /\ UNCHANGED <<api, current, leaving, victim, account, tokenVars, clientVars, requestVars, ghostVars>>

(* login is answered: its APIClient becomes the model's, connect begins.   *)
LoginAnswered(k) ==
  /\ signIn[k] = "login"
  /\ held' = [held EXCEPT ![k] = TRUE]
  /\ api' = k
  /\ phase' = "connecting"
  /\ GoesOn(k, "authorizing")
  /\ UNCHANGED <<spent, current, leaving, victim, account, clientVars, requestVars, ghostVars>>

LoginFails(k) ==
  /\ signIn[k] = "login"
  /\ Throws(k)
  /\ UNCHANGED <<api, current, leaving, victim, account, tokenVars, clientVars, requestVars, ghostVars>>

(* refreshIfNeeded precedes every request.  Its own request may be lost, or *)
(* it ends the tokens: the API took them and the answer was lost, or it    *)
(* refuses what a logout, here or on another iPhone, revoked.  The access  *)
(* token being used up by then, no request of this client is sent again.   *)
Usable(k) == held[k] /\ k \notin spent
Spends(k) == held[k] /\ spent' = spent \cup {k}

(* authorizedRequest of createSession, on the actor; no refresh is due,    *)
(* login just returned.                                                    *)
SendCreate(k) ==
  /\ signIn[k] = "authorizing" /\ Usable(k)
  /\ create' = [create EXCEPT ![k] = "sent"]
  /\ GoesOn(k, "creating")
  /\ UNCHANGED <<phaseVars, leaving, victim, account, tokenVars, clientVars, row, delete, logout, ghostVars>>

NotAuthenticated(k) ==
  /\ signIn[k] = "authorizing" /\ ~Usable(k)
  /\ Throws(k)
  /\ UNCHANGED <<api, current, leaving, victim, account, tokenVars, clientVars, requestVars, ghostVars>>

(* The client is the model's before it connects.                           *)
CreateAnswered(k) ==
  /\ signIn[k] = "creating" /\ create[k] = "served"
  /\ create' = [create EXCEPT ![k] = "none"]
  /\ current' = k
  /\ GoesOn(k, "connecting")
  /\ UNCHANGED <<phase, api, leaving, victim, account, tokenVars, clientVars, row, delete, logout, ghostVars>>

(* The app gives a request up: it never arrives, arrives later, or only    *)
(* its answer was lost.                                                    *)
GivesUp(request, i) ==
  /\ Cardinality(lost) < MaxLost
  /\ lost' = lost \cup {<<request, i>>}
  /\ UNCHANGED overtook
Afterwards(status) == {"none"} \cup ({"sent"} \cap {status})

CreateFails(k) ==
  /\ signIn[k] = "creating"
  /\ GivesUp("create", k)
  /\ \E status \in Afterwards(create[k]) : create' = [create EXCEPT ![k] = status]
  /\ Throws(k)
  /\ UNCHANGED <<api, current, leaving, victim, account, tokenVars, clientVars, row, delete, logout>>

(* WebRTCClient.connect, once signalRequest returned: the socket and the   *)
(* peer connection are made and receiveSignals starts reading.             *)
OpenClient(k) ==
  /\ signIn[k] = "connecting" /\ Usable(k)
  /\ client' = [client EXCEPT ![k] = "open"]
  /\ signal' = [signal EXCEPT ![k] = "reading"]
  /\ GoesOn(k, "offering")
  /\ UNCHANGED <<phaseVars, leaving, victim, account, tokenVars, link, calls, requestVars, ghostVars>>

(* The tokens were forgotten, or a refresh of them failed.                 *)
SignalRequestFails(k) ==
  /\ signIn[k] = "connecting"
  /\ Throws(k)
  /\ Spends(k) \/ UNCHANGED spent
  /\ UNCHANGED <<api, current, leaving, victim, account, held, clientVars, requestVars, ghostVars>>

SendOffer(k) ==
  /\ signIn[k] = "offering" /\ client[k] = "open"
  /\ GoesOn(k, "done")
  /\ UNCHANGED <<phaseVars, leaving, victim, account, tokenVars, clientVars, requestVars, ghostVars>>

(* createOffer on a closed connection, or send on a socket that ended.     *)
OfferFails(k) ==
  /\ signIn[k] = "offering" /\ (client[k] = "closed" \/ signal[k] # "reading")
  /\ Throws(k)
  /\ UNCHANGED <<api, current, leaving, victim, account, tokenVars, clientVars, requestVars, ghostVars>>

-----------------------------------------------------------------------------
(* disconnect.                                                             *)
(* The end of disconnect, once nothing is left to await.                   *)
SignedOut(d) ==
  /\ leaving' = [leaving EXCEPT ![d] = "done"]
  /\ current' = None
  /\ phase' = "signedOut"

HasTokens == api # None /\ held[api]

(* await api?.logout(): there is nothing to wait for without an api or its *)
(* tokens.  A refresh that fails leaves the tokens where they are; it is a *)
(* loss of its own only if no request of this client spent them before.    *)
NothingToLogOut(d) ==
  /\ ~HasTokens
  /\ SignedOut(d)
  /\ UNCHANGED <<account, logout, lost, spent>>

LogoutUnsent(d) ==
  /\ HasTokens
  /\ \/ /\ Usable(api)
        /\ Cardinality(lost) < MaxLost
        /\ lost' = lost \cup {<<"logout", d>>}
        /\ UNCHANGED spent
     \/ Spends(api) /\ UNCHANGED lost
  /\ SignedOut(d)
  /\ UNCHANGED <<account, logout>>

LogoutSent(d) ==
  /\ HasTokens /\ Usable(api)
  /\ logout' = [logout EXCEPT ![d] = "sent"]
  /\ account' = [account EXCEPT ![d] = api]
  /\ leaving' = [leaving EXCEPT ![d] = "loggingOut"]
  /\ UNCHANGED <<phase, current, lost, spent>>

LogOut(d) == NothingToLogOut(d) \/ LogoutUnsent(d) \/ LogoutSent(d)

Opening(k) == signIn[k] \in {"login", "authorizing", "creating", "connecting"}
Leaving(d) == leaving[d] \notin {"idle", "done"}
Overtakes == (\E k \in SignIns : Opening(k)) \/ (\E d \in Disconnects : Leaving(d))

(* The session view is shown in every other phase.  Its two buttons are    *)
(* never disabled: a second tap starts a second disconnect.                *)
TapDisconnect(d) ==
  /\ phase # "signedOut"
  /\ leaving[d] = "idle"
  /\ \A e \in 1..(d - 1) : leaving[e] # "idle"
  /\ Taps + (IF Overtakes /\ ~overtook THEN 1 ELSE 0) < MaxTaps
  /\ overtook' = (overtook \/ Overtakes)

(* Without a client, disconnect comes to the logout at once.               *)
DisconnectWithout(d) ==
  /\ TapDisconnect(d) /\ current = None
  /\ LogOut(d)
  /\ UNCHANGED <<api, signIn, victim, held, clientVars, row, create, delete>>

(* WebRTCClient.disconnect closes what there is and deletes the session,   *)
(* for which it needs the tokens.                                          *)
Deletes(d) ==
  /\ TapDisconnect(d) /\ current # None
  /\ victim' = [victim EXCEPT ![d] = current]
  /\ delete' = [delete EXCEPT ![d] = IF Usable(current) THEN "sent" ELSE "none"]
  /\ leaving' = [leaving EXCEPT ![d] = "deleting"]
  /\ UNCHANGED <<phaseVars, signIn, account, tokenVars, signal, link, calls, row, create, logout, lost>>

DisconnectUnlessFailed(d) ==
  /\ Deletes(d)
  /\ client' = [client EXCEPT ![current] =
                  IF @ = "open" /\ phase # "failed" THEN "closed" ELSE @]
Disconnect(d) ==
  /\ Deletes(d)
  /\ client' = [client EXCEPT ![current] = IF @ = "open" THEN "closed" ELSE @]

(* deleteSession returns nothing, whether it was answered or not.          *)
DeleteReturns(d) ==
  /\ leaving[d] = "deleting"
  /\ \/ /\ delete[d] # "sent"
        /\ delete' = [delete EXCEPT ![d] = "none"]
        /\ UNCHANGED <<spent, ghostVars>>
     \/ /\ delete[d] # "none"
        /\ GivesUp("delete", d)
        /\ \E status \in Afterwards(delete[d]) : delete' = [delete EXCEPT ![d] = status]
        /\ UNCHANGED spent
     \/ /\ delete[d] = "sent"
        /\ delete' = [delete EXCEPT ![d] = "none"]
        /\ Spends(victim[d])
        /\ UNCHANGED ghostVars
  /\ leaving' = [leaving EXCEPT ![d] = "deleted"]
  /\ UNCHANGED <<phaseVars, signIn, victim, account, held, clientVars, row, create, logout>>

(* Back on the main actor.  Its queue is in order: callbacks that came     *)
(* before the peer connection was closed have run by now.                  *)
Returned(d) == leaving[d] = "deleted" /\ calls[victim[d]] = << >>

LogoutOnlyIfDeleted(d) ==
  /\ Returned(d)
  /\ IF <<"delete", d>> \in lost
     THEN SignedOut(d) /\ UNCHANGED <<account, logout, lost, spent>>
     ELSE LogOut(d)
  /\ UNCHANGED <<api, signIn, victim, held, clientVars, row, create, delete, overtook>>
LogoutAfterDelete(d) ==
  /\ Returned(d)
  /\ LogOut(d)
  /\ UNCHANGED <<api, signIn, victim, held, clientVars, row, create, delete, overtook>>

(* logout forgets the tokens, whether it was answered or not.              *)
LogoutReturns(d) ==
  /\ leaving[d] = "loggingOut"
  /\ \/ /\ logout[d] = "served"
        /\ logout' = [logout EXCEPT ![d] = "none"]
        /\ UNCHANGED <<lost, overtook>>
     \/ /\ GivesUp("logout", d)
        /\ \E status \in Afterwards(logout[d]) : logout' = [logout EXCEPT ![d] = status]
  /\ held' = [held EXCEPT ![account[d]] = FALSE]
  /\ SignedOut(d)
  /\ UNCHANGED <<api, signIn, victim, account, spent, clientVars, row, create, delete>>

-----------------------------------------------------------------------------
(* The API serves what it was sent, in any order, also when the app did not *)
(* wait.  createSession revokes the sessions that are left, logout the     *)
(* active one, whoever created it.                                         *)
Revoked(S) == [k \in SignIns |-> IF k \in S /\ row[k] = "live" THEN "revoked" ELSE row[k]]

ServeCreate(k) ==
  /\ create[k] = "sent"
  /\ create' = [create EXCEPT ![k] = "served"]
  /\ row' = [Revoked(SignIns) EXCEPT ![k] = "live"]
  /\ UNCHANGED <<phaseVars, taskVars, tokenVars, clientVars, delete, logout, ghostVars>>

ServeDelete(d) ==
  /\ delete[d] = "sent"
  /\ delete' = [delete EXCEPT ![d] = "served"]
  /\ row' = Revoked({victim[d]})
  /\ UNCHANGED <<phaseVars, taskVars, tokenVars, clientVars, create, logout, ghostVars>>

ServeLogout(d) ==
  /\ logout[d] = "sent"
  /\ logout' = [logout EXCEPT ![d] = "served"]
  /\ row' = Revoked(SignIns)
  /\ UNCHANGED <<phaseVars, taskVars, tokenVars, clientVars, create, delete, ghostVars>>

(* The user signs in on another iPhone.                                    *)
TakenOver(k) ==
  /\ row[k] = "live"
  /\ row' = Revoked({k})
  /\ UNCHANGED <<phaseVars, taskVars, tokenVars, clientVars, create, delete, logout, ghostVars>>

-----------------------------------------------------------------------------
(* Signalling and media, with a gateway that answers the offer of a live   *)
(* session and leaves it when it is revoked.                               *)
GatewayAnswers(k) ==
  /\ signIn[k] = "done" /\ client[k] = "open" /\ signal[k] = "reading"
  /\ row[k] = "live" /\ link[k] = "none"
  /\ link' = [link EXCEPT ![k] = "answered"]
  /\ UNCHANGED <<phaseVars, taskVars, tokenVars, client, signal, calls, requestVars, ghostVars>>

Reports(k, call) == calls' = [calls EXCEPT ![k] = Append(@, call)]

(* ICE is connected, then a data channel opens: each is reported.          *)
LinkUp(k) ==
  /\ client[k] = "open" /\ link[k] \in {"answered", "up"}
  /\ link' = [link EXCEPT ![k] = IF @ = "answered" THEN "up" ELSE "open"]
  /\ Reports(k, "connected")
  /\ UNCHANGED <<phaseVars, taskVars, tokenVars, client, signal, requestVars, ghostVars>>

LinkFails(k) ==
  /\ client[k] = "open" /\ link[k] \in {"answered", "up", "open"}
  /\ link' = [link EXCEPT ![k] = "failed"]
  /\ Reports(k, "failed")
  /\ UNCHANGED <<phaseVars, taskVars, tokenVars, client, signal, requestVars, ghostVars>>

(* receive throws: the API refused or closed the connection, the app       *)
(* cancelled the socket, or the network broke it.                          *)
SignalEnds(k) ==
  /\ signal[k] = "reading"
  /\ signal' = [signal EXCEPT ![k] = "ended"]
  /\ UNCHANGED <<phaseVars, taskVars, tokenVars, client, link, calls, requestVars, ghostVars>>

(* onFailure and onState, each in a task of its own on the main actor, set *)
(* the phase whatever the model is at: signed out, or with another client. *)
TellSignalEnded(k) ==
  /\ signal[k] = "ended"
  /\ signal' = [signal EXCEPT ![k] = "told"]
  /\ phase' = "failed"
  /\ UNCHANGED <<api, current, taskVars, tokenVars, client, link, calls, requestVars, ghostVars>>

TellConnectedOnly(k) ==
  /\ calls[k] # << >>
  /\ phase' = IF Head(calls[k]) = "connected" THEN "connected" ELSE phase
  /\ calls' = [calls EXCEPT ![k] = Tail(@)]
  /\ UNCHANGED <<api, current, taskVars, tokenVars, client, signal, link, requestVars, ghostVars>>
TellLink(k) ==
  /\ calls[k] # << >>
  /\ phase' = Head(calls[k])
  /\ calls' = [calls EXCEPT ![k] = Tail(@)]
  /\ UNCHANGED <<api, current, taskVars, tokenVars, client, signal, link, requestVars, ghostVars>>

-----------------------------------------------------------------------------
SignInStep(k) ==
  \/ LoginAnswered(k) \/ LoginFails(k) \/ SendCreate(k) \/ NotAuthenticated(k)
  \/ CreateAnswered(k) \/ CreateFails(k) \/ OpenClient(k) \/ SignalRequestFails(k)
  \/ SendOffer(k) \/ OfferFails(k)
ClientStep(k) ==
  \/ GatewayAnswers(k) \/ LinkUp(k) \/ LinkFails(k) \/ SignalEnds(k)
  \/ TellSignalEnded(k) \/ TellLink(k)
DisconnectStep(d) == DeleteReturns(d) \/ LogoutAfterDelete(d) \/ LogoutReturns(d)

Next ==
  \/ \E k \in SignIns : \/ SignIn(k) \/ SignInRefused(k) \/ SignInStep(k)
                         \/ ServeCreate(k) \/ TakenOver(k) \/ ClientStep(k)
  \/ \E d \in Disconnects : \/ DisconnectWithout(d) \/ Disconnect(d) \/ DisconnectStep(d)
                             \/ ServeDelete(d) \/ ServeLogout(d)

Spec == Init /\ [][Next]_vars

(* Tasks and callbacks run, requests are answered or time out after a      *)
(* minute, the API closes the signalling of a revoked session and the      *)
(* gateway leaves it (Negotiation), which ends the peer connection.        *)
(* Nobody has to tap, and nothing is promised of the answer to an offer.   *)
Fairness ==
  /\ \A k \in SignIns :
       /\ WF_vars(SignInStep(k)) /\ WF_vars(ServeCreate(k))
       /\ WF_vars(TellSignalEnded(k)) /\ WF_vars(TellLink(k))
       /\ WF_vars((client[k] = "closed" \/ row[k] # "live") /\ SignalEnds(k))
       /\ WF_vars(row[k] # "live" /\ LinkFails(k))
  /\ \A d \in Disconnects :
       WF_vars(DisconnectStep(d)) /\ WF_vars(ServeDelete(d)) /\ WF_vars(ServeLogout(d))

FairSpec == Spec /\ Fairness

-----------------------------------------------------------------------------
(* Properties.                                                             *)
Requests == {"none", "sent", "served"}
TokensOK == held \in [SignIns -> BOOLEAN] /\ spent \subseteq NoneOr(SignIns)

(* Types of the model, its clients and the requests.                       *)
TypeOK ==
  /\ phase \in {"signedOut", "connecting", "connected", "failed"}
  /\ api \in NoneOr(SignIns) /\ current \in NoneOr(SignIns)
  /\ signIn \in [SignIns -> {"idle", "login", "authorizing", "creating", "connecting",
                             "offering", "done", "failed"}]
  /\ leaving \in [Disconnects -> {"idle", "deleting", "deleted", "loggingOut", "done"}]
  /\ victim \in [Disconnects -> NoneOr(SignIns)]
  /\ account \in [Disconnects -> NoneOr(SignIns)]
  /\ TokensOK
  /\ client \in [SignIns -> {"new", "open", "closed"}]
  /\ signal \in [SignIns -> {"none", "reading", "ended", "told"}]
  /\ link \in [SignIns -> {"none", "answered", "up", "open", "failed"}]
  /\ calls \in [SignIns -> Seq({"connected", "failed"})]
  /\ row \in [SignIns -> {"none", "live", "revoked"}]
  /\ create \in [SignIns -> Requests]
  /\ delete \in [Disconnects -> Requests]
  /\ logout \in [Disconnects -> Requests]
  /\ overtook \in BOOLEAN

(* A model that shows the login view holds no client that still receives   *)
(* the screen and sound of the Android: whatever failed before, and        *)
(* whichever callbacks come late, each client that was opened is the one   *)
(* the next disconnect closes.  Without a disconnect that overtakes a      *)
(* signIn or another disconnect.                                           *)
SignedOutIsSilent ==
  phase = "signedOut" /\ ~overtook => \A k \in SignIns : client[k] # "open"

(* deleteSession and logout both swallow their errors, but either revokes  *)
(* the session: one loss, of the request, its answer or the request of the *)
(* refresh before it, leaves no session of a user who signed out.  Only    *)
(* the session of a client that spent its tokens can stay: then neither    *)
(* of the two is sent.                                                     *)
OneLossIsHarmless ==
  /\ phase = "signedOut" /\ ~overtook
  /\ Cardinality(lost) <= 1 /\ \A k \in SignIns : <<"create", k>> \notin lost
  => \A k \in SignIns : row[k] = "live" => k \in spent

(* "Conectando" does not stay for ever, unless for the gateway's answer to *)
(* an offer that was sent in a live session (for which the app sets no     *)
(* time limit).                                                            *)
AwaitsAnswer(k) == signIn[k] = "done" /\ row[k] = "live" /\ client[k] = "open"
ConnectingEnds ==
  phase = "connecting" ~> phase # "connecting" \/ \E k \in SignIns : AwaitsAnswer(k)

(* When another iPhone takes the session over, the app does not go on      *)
(* showing that it is connected: a "connected" that comes late is followed *)
(* by a failure.                                                           *)
TakeoverIsShown ==
  \A k \in SignIns :
    (phase = "connected" /\ current = k /\ row[k] = "revoked")
      ~> (phase # "connected" \/ current # k \/ overtook)
=============================================================================
