---------------------------- MODULE AppModelProofs ----------------------------
(***************************************************************************)
(* Theorems about AppModel, for any number of sign-ins, disconnects and    *)
(* lost requests.                                                          *)
(***************************************************************************)
EXTENDS AppModel, FiniteSetTheorems, TLAPS

USE DEF SignIns, Disconnects, None, NoneOr, Requests

LEMMA InitTypeOK == Init => TypeOK
<1>1. Init => calls \in [SignIns -> Seq({"connected", "failed"})]
  BY DEF Init
<1>2. Init => held \in [SignIns -> BOOLEAN]
  <2>1. [k \in SignIns |-> FALSE] \in [SignIns -> BOOLEAN]
    OBVIOUS
  <2> QED BY <2>1, Zenon DEF Init
<1>4. Init => overtook \in BOOLEAN
  BY Zenon DEF Init
<1>3. Init => /\ phase = "signedOut" /\ api = None /\ current = None
              /\ victim \in [Disconnects -> NoneOr(SignIns)]
              /\ account \in [Disconnects -> NoneOr(SignIns)]
  BY DEF Init
<1>5. Init => TokensOK
  BY <1>2, Zenon DEF Init, TokensOK
<1> QED BY <1>1, <1>3, <1>4, <1>5 DEF Init, TypeOK

LEMMA RevokedType ==
  ASSUME TypeOK, NEW S PROVE Revoked(S) \in [SignIns -> {"none", "live", "revoked"}]
  BY DEF TypeOK, Revoked

(* Tokens stay, or those of a client are spent.                            *)
LEMMA TokensType ==
  ASSUME TokensOK, UNCHANGED tokenVars \/ (UNCHANGED held /\ (UNCHANGED spent \/ \E k \in NoneOr(SignIns) : Spends(k)))
  PROVE  TokensOK'
  BY Zenon DEF TokensOK, tokenVars, Spends

LEMMA LogOutType ==
  ASSUME TypeOK, NEW d \in Disconnects, LogOut(d)
  PROVE  /\ phase' \in {"signedOut", "connecting", "connected", "failed"}
         /\ current' \in NoneOr(SignIns)
         /\ leaving' \in [Disconnects -> {"idle", "deleting", "deleted", "loggingOut", "done"}]
         /\ account' \in [Disconnects -> NoneOr(SignIns)]
         /\ logout' \in [Disconnects -> Requests]
         /\ UNCHANGED spent \/ \E k \in NoneOr(SignIns) : Spends(k)
<1>1. UNCHANGED spent \/ \E k \in NoneOr(SignIns) : Spends(k)
  BY DEF TypeOK, LogOut, NothingToLogOut, LogoutUnsent, LogoutSent, HasTokens
<1> QED BY <1>1 DEF TypeOK, LogOut, NothingToLogOut, LogoutUnsent, LogoutSent, SignedOut, HasTokens

LEMMA SignInTypeOK ==
  ASSUME TypeOK, NEW k \in SignIns,
         SignIn(k) \/ SignInRefused(k) \/ SignInStep(k)
  PROVE  TypeOK'
<1> USE DEF TypeOK, phaseVars, clientVars, requestVars, ghostVars, GoesOn, Throws
<1>0. CASE ~LoginAnswered(k)
  <2>0. TokensOK'
    <3>1. UNCHANGED tokenVars \/ (UNCHANGED held /\ (UNCHANGED spent \/ \E j \in NoneOr(SignIns) : Spends(j)))
      BY <1>0, Zenon DEF SignInStep, SignIn, SignInRefused, LoginFails, SendCreate, NotAuthenticated,
         CreateAnswered, CreateFails, OpenClient, SignalRequestFails, SendOffer, OfferFails
    <3> QED BY <3>1, TokensType
  <2>1. CASE SignIn(k) \/ SignInRefused(k)
    BY <2>0, <2>1 DEF SignIn, SignInRefused
  <2>2. CASE LoginFails(k)
    BY <2>0, <2>2 DEF LoginFails
  <2>3. CASE SendCreate(k) \/ NotAuthenticated(k)
    BY <2>0, <2>3 DEF SendCreate, NotAuthenticated
  <2>4. CASE CreateAnswered(k)
    BY <2>0, <2>4 DEF CreateAnswered
  <2>5. CASE CreateFails(k)
    BY <2>0, <2>5 DEF CreateFails, GivesUp, Afterwards
  <2>6. CASE OpenClient(k) \/ SignalRequestFails(k)
    BY <2>0, <2>6 DEF OpenClient, SignalRequestFails
  <2>7. CASE SendOffer(k) \/ OfferFails(k)
    BY <2>0, <2>7 DEF SendOffer, OfferFails
  <2> QED BY <1>0, <2>1, <2>2, <2>3, <2>4, <2>5, <2>6, <2>7 DEF SignInStep
<1>1. CASE LoginAnswered(k)
  <2>1. TokensOK'
    BY <1>1, Zenon DEF LoginAnswered, TokensOK
  <2> QED BY <1>1, <2>1 DEF LoginAnswered
<1> QED BY <1>0, <1>1

LEMMA ServeCreateTypeOK ==
  ASSUME TypeOK, NEW k \in SignIns, ServeCreate(k) \/ TakenOver(k)
  PROVE  TypeOK'
<1>1. Revoked(SignIns) \in [SignIns -> {"none", "live", "revoked"}]
  BY RevokedType
<1>2. Revoked({k}) \in [SignIns -> {"none", "live", "revoked"}]
  BY RevokedType
<1>3. row' \in [SignIns -> {"none", "live", "revoked"}]
  BY <1>1, <1>2 DEF ServeCreate, TakenOver
<1>4. TokensOK'
  BY TokensType DEF TypeOK, ServeCreate, TakenOver
<1> QED BY <1>3, <1>4 DEF ServeCreate, TakenOver, TypeOK, phaseVars, taskVars, clientVars, ghostVars

LEMMA ServeLeaveTypeOK ==
  ASSUME TypeOK, NEW d \in Disconnects, ServeDelete(d) \/ ServeLogout(d)
  PROVE  TypeOK'
<1>1. row' \in [SignIns -> {"none", "live", "revoked"}]
  BY RevokedType DEF ServeDelete, ServeLogout
<1>2. TokensOK'
  BY TokensType DEF TypeOK, ServeDelete, ServeLogout
<1> QED BY <1>1, <1>2 DEF ServeDelete, ServeLogout, TypeOK, phaseVars, taskVars, clientVars, ghostVars

LEMMA ClientTypeOK ==
  ASSUME TypeOK, NEW k \in SignIns, ClientStep(k)
  PROVE  TypeOK'
<1> USE DEF TypeOK, phaseVars, taskVars, clientVars, requestVars, ghostVars
<1>0. TokensOK'
  BY TokensType DEF ClientStep, GatewayAnswers, LinkUp, LinkFails, SignalEnds, TellSignalEnded, TellLink
<1>1. CASE GatewayAnswers(k) \/ SignalEnds(k) \/ TellSignalEnded(k)
  BY <1>0, <1>1 DEF GatewayAnswers, SignalEnds, TellSignalEnded
<1>2. CASE LinkUp(k) \/ LinkFails(k)
  <2>1. /\ link' \in [SignIns -> {"none", "answered", "up", "open", "failed"}]
        /\ \E call \in {"connected", "failed"} : Reports(k, call)
        /\ UNCHANGED <<phaseVars, taskVars, client, signal, requestVars, ghostVars>>
    BY <1>2 DEF LinkUp, LinkFails
  <2>2. PICK call \in {"connected", "failed"} : Reports(k, call)
    BY <2>1
  <2>3. Append(calls[k], call) \in Seq({"connected", "failed"})
    OBVIOUS
  <2>4. calls' \in [SignIns -> Seq({"connected", "failed"})]
    BY <2>2, <2>3 DEF Reports
  <2> QED BY <1>0, <2>1, <2>4
<1>3. CASE TellLink(k)
  <2>0. calls[k] \in Seq({"connected", "failed"}) /\ calls[k] # << >>
    BY <1>3 DEF TellLink
  <2>1. Head(calls[k]) \in {"connected", "failed"} /\ Tail(calls[k]) \in Seq({"connected", "failed"})
    BY <2>0
  <2> QED BY <1>0, <1>3, <2>1 DEF TellLink
<1> QED BY <1>1, <1>2, <1>3 DEF ClientStep

LEMMA DisconnectTypeOK ==
  ASSUME TypeOK, NEW d \in Disconnects,
         DisconnectWithout(d) \/ Disconnect(d) \/ DisconnectStep(d)
  PROVE  TypeOK'
<1> USE DEF clientVars, phaseVars, ghostVars
<1>1. CASE DisconnectWithout(d)
  <2>1. TokensOK'
    BY <1>1, LogOutType, TokensType DEF DisconnectWithout, TypeOK
  <2> QED BY <1>1, <2>1, LogOutType DEF DisconnectWithout, TapDisconnect, TypeOK
<1>2. CASE Disconnect(d)
  <2>1. TokensOK'
    BY <1>2, TokensType DEF Disconnect, Deletes, TypeOK
  <2> QED BY <1>2, <2>1 DEF Disconnect, Deletes, TapDisconnect, TypeOK
<1>3. CASE DeleteReturns(d)
  <2>1. UNCHANGED spent \/ \E k \in NoneOr(SignIns) : Spends(k)
    BY <1>3 DEF DeleteReturns, TypeOK
  <2>2. TokensOK'
    BY <1>3, <2>1, TokensType DEF DeleteReturns, TypeOK
  <2> QED BY <1>3, <2>2 DEF DeleteReturns, GivesUp, Afterwards, TypeOK
<1>4. CASE LogoutAfterDelete(d)
  <2>1. TokensOK'
    BY <1>4, LogOutType, TokensType DEF LogoutAfterDelete, TypeOK
  <2> QED BY <1>4, <2>1, LogOutType DEF LogoutAfterDelete, TypeOK
<1>5. CASE LogoutReturns(d)
  <2>1. logout' \in [Disconnects -> Requests] /\ overtook' \in BOOLEAN
    BY <1>5 DEF LogoutReturns, GivesUp, Afterwards, TypeOK
  <2>2. TokensOK'
    BY <1>5, Zenon DEF LogoutReturns, TokensOK, TypeOK
  <2>3. leaving' \in [Disconnects -> {"idle", "deleting", "deleted", "loggingOut", "done"}]
    BY <1>5 DEF LogoutReturns, SignedOut, TypeOK
  <2> QED BY <1>5, <2>1, <2>2, <2>3 DEF LogoutReturns, SignedOut, TypeOK
<1> QED BY <1>1, <1>2, <1>3, <1>4, <1>5 DEF DisconnectStep

LEMMA NextTypeOK == TypeOK /\ [Next]_vars => TypeOK'
<1> SUFFICES ASSUME TypeOK, [Next]_vars PROVE TypeOK'
  OBVIOUS
<1>1. CASE UNCHANGED vars
  <2>1. TokensOK'
    BY <1>1, TokensType DEF vars, TypeOK
  <2> QED BY <1>1, <2>1 DEF vars, phaseVars, taskVars, clientVars, requestVars, ghostVars, TypeOK
<1>2. ASSUME NEW k \in SignIns, SignIn(k) \/ SignInRefused(k) \/ SignInStep(k) PROVE TypeOK'
  BY <1>2, SignInTypeOK
<1>3. ASSUME NEW k \in SignIns, ServeCreate(k) \/ TakenOver(k) PROVE TypeOK'
  BY <1>3, ServeCreateTypeOK
<1>4. ASSUME NEW k \in SignIns, ClientStep(k) PROVE TypeOK'
  BY <1>4, ClientTypeOK
<1>5. ASSUME NEW d \in Disconnects, DisconnectWithout(d) \/ Disconnect(d) \/ DisconnectStep(d) PROVE TypeOK'
  BY <1>5, DisconnectTypeOK
<1>6. ASSUME NEW d \in Disconnects, ServeDelete(d) \/ ServeLogout(d) PROVE TypeOK'
  BY <1>6, ServeLeaveTypeOK
<1> QED BY <1>1, <1>2, <1>3, <1>4, <1>5, <1>6, Zenon DEF Next

(* The model, its clients and its requests keep their types.               *)
THEOREM AppTypeCorrect == Spec => []TypeOK
<1>1. Init => TypeOK BY InitTypeOK
<1>2. TypeOK /\ [Next]_vars => TypeOK' BY NextTypeOK
<1> QED BY <1>1, <1>2, PTL DEF Spec

-----------------------------------------------------------------------------
(* As long as no disconnect overtook anything, either one signIn is on its *)
(* way to a client, or one disconnect away from one, or neither; a client  *)
(* that is open, or about to be, is the model's; and none is open while    *)
(* one is on its way or away, or while the login view is shown.            *)
Quiet == \A k \in SignIns : client[k] # "open"
Unhurried ==
  /\ \A k \in SignIns : client[k] = "open" => current = k
  /\ \A k \in SignIns : signIn[k] = "connecting" => current = k
  /\ \A k \in SignIns : Opening(k) =>
       /\ Quiet /\ phase # "signedOut"
       /\ \A j \in SignIns : Opening(j) => j = k
       /\ \A d \in Disconnects : ~Leaving(d)
  /\ \A d \in Disconnects : Leaving(d) =>
       /\ Quiet /\ phase # "signedOut"
       /\ \A e \in Disconnects : Leaving(e) => e = d
  /\ phase = "signedOut" => Quiet

IInv == TypeOK /\ (~overtook => Unhurried)

LEMMA InitIInv == Init => IInv
  BY InitTypeOK DEF Init, IInv, Unhurried, Quiet, Opening, Leaving

(* A signIn that goes on, or ends, without touching the clients.           *)
LEMMA StageUnhurried ==
  ASSUME TypeOK, Unhurried, NEW k \in SignIns, NEW stage, stage # "connecting",
         signIn' = [signIn EXCEPT ![k] = stage],
         UNCHANGED <<current, leaving, client>>,
         phase' = phase \/ phase' # "signedOut",
         stage \in {"login", "authorizing", "creating"} =>
           /\ Quiet /\ phase' # "signedOut"
           /\ \A j \in SignIns : Opening(j) => j = k
           /\ \A d \in Disconnects : ~Leaving(d)
  PROVE  Unhurried'
<1>1. /\ \A j \in SignIns : j # k => signIn'[j] = signIn[j]
      /\ signIn'[k] = stage
  BY DEF TypeOK
<1>2. \A j \in SignIns : j # k => (Opening(j)' <=> Opening(j))
  BY <1>1 DEF Opening
<1>3. Opening(k)' => stage \in {"login", "authorizing", "creating"}
  BY <1>1 DEF Opening
<1>4. Quiet' = Quiet /\ \A d \in Disconnects : Leaving(d)' = Leaving(d)
  BY DEF Quiet, Leaving
<1>5. \A j \in SignIns : client'[j] = "open" => current' = j
  BY DEF Unhurried
<1>6. \A j \in SignIns : signIn'[j] = "connecting" => current' = j
  BY <1>1 DEF Unhurried
<1>7. ASSUME NEW j \in SignIns, Opening(j)'
      PROVE  /\ Quiet' /\ phase' # "signedOut"
             /\ \A i \in SignIns : Opening(i)' => i = j
             /\ \A d \in Disconnects : ~Leaving(d)'
  <2>1. CASE j = k
    BY <1>2, <1>3, <1>4, <1>7, <2>1
  <2>2. CASE j # k
    <3>1. Opening(j)
      BY <1>2, <1>7, <2>2
    <3>2. ~Opening(k)'
      BY <1>3, <2>2, <3>1
    <3> QED BY <1>2, <1>4, <2>2, <3>1, <3>2 DEF Unhurried
  <2> QED BY <2>1, <2>2
<1>8. ASSUME NEW d \in Disconnects, Leaving(d)'
      PROVE  /\ Quiet' /\ phase' # "signedOut"
             /\ \A e \in Disconnects : Leaving(e)' => e = d
  BY <1>4, <1>8 DEF Unhurried
<1>9. phase' = "signedOut" => Quiet'
  BY <1>4 DEF Unhurried
<1> QED BY <1>5, <1>6, <1>7, <1>8, <1>9 DEF Unhurried

(* What a step of signIn, of a client or of the API can change.            *)
LEMMA SignInUnhurried ==
  ASSUME TypeOK, Unhurried, NEW k \in SignIns,
         SignIn(k) \/ SignInRefused(k) \/ SignInStep(k)
  PROVE  Unhurried'
<1> USE DEF phaseVars, clientVars, GoesOn, Throws
<1>1. CASE SignIn(k) \/ SignInRefused(k)
  <2>1. /\ phase = "signedOut" /\ signIn[k] = "idle"
        /\ \/ phase' = "connecting" /\ signIn' = [signIn EXCEPT ![k] = "login"]
           \/ phase' = "failed" /\ signIn' = [signIn EXCEPT ![k] = "failed"]
        /\ UNCHANGED <<current, leaving, client>>
    BY <1>1 DEF SignIn, SignInRefused, MayTapSignIn
  <2> QED BY <2>1, StageUnhurried DEF Unhurried, Opening
<1>2. CASE LoginAnswered(k) \/ LoginFails(k)
  <2>1. /\ signIn[k] = "login"
        /\ \/ phase' = "connecting" /\ signIn' = [signIn EXCEPT ![k] = "authorizing"]
           \/ phase' = "failed" /\ signIn' = [signIn EXCEPT ![k] = "failed"]
        /\ UNCHANGED <<current, leaving, client>>
    BY <1>2 DEF LoginAnswered, LoginFails
  <2> QED BY <2>1, StageUnhurried DEF Unhurried, Opening
<1>3. CASE SendCreate(k) \/ NotAuthenticated(k)
  <2>1. /\ signIn[k] = "authorizing"
        /\ \/ phase' = phase /\ signIn' = [signIn EXCEPT ![k] = "creating"]
           \/ phase' = "failed" /\ signIn' = [signIn EXCEPT ![k] = "failed"]
        /\ UNCHANGED <<current, leaving, client>>
    BY <1>3, Zenon DEF SendCreate, NotAuthenticated
  <2> QED BY <2>1, StageUnhurried DEF Unhurried, Opening
<1>4. CASE CreateAnswered(k)
  BY <1>4 DEF CreateAnswered, TypeOK, Unhurried, Quiet, Opening, Leaving
<1>5. CASE CreateFails(k)
  BY <1>5, StageUnhurried DEF CreateFails
<1>6. CASE OpenClient(k)
  BY <1>6 DEF OpenClient, TypeOK, Unhurried, Quiet, Opening, Leaving
<1>7. CASE SignalRequestFails(k)
  BY <1>7, StageUnhurried DEF SignalRequestFails
<1>8. CASE SendOffer(k) \/ OfferFails(k)
  <2>1. /\ signIn[k] = "offering"
        /\ \/ phase' = phase /\ signIn' = [signIn EXCEPT ![k] = "done"]
           \/ phase' = "failed" /\ signIn' = [signIn EXCEPT ![k] = "failed"]
        /\ UNCHANGED <<current, leaving, client>>
    BY <1>8 DEF SendOffer, OfferFails
  <2> QED BY <2>1, StageUnhurried DEF Unhurried, Opening
<1> QED BY <1>1, <1>2, <1>3, <1>4, <1>5, <1>6, <1>7, <1>8 DEF SignInStep

LEMMA OtherUnhurried ==
  ASSUME TypeOK, Unhurried, UNCHANGED <<current, signIn, leaving, client>>,
         phase' = phase \/ phase' # "signedOut"
  PROVE  Unhurried'
  BY DEF Unhurried, Quiet, Opening, Leaving

LEMMA ClientUnhurried ==
  ASSUME TypeOK, Unhurried, NEW k \in SignIns, ClientStep(k)
  PROVE  Unhurried'
<1>1. UNCHANGED <<current, signIn, leaving, client>>
  BY DEF ClientStep, GatewayAnswers, LinkUp, LinkFails, SignalEnds, TellSignalEnded, TellLink,
         phaseVars, taskVars
<1>2. phase' = phase \/ phase' # "signedOut"
  <2>1. CASE TellLink(k)
    <3>1. calls[k] \in Seq({"connected", "failed"}) /\ calls[k] # << >>
      BY <2>1 DEF TellLink, TypeOK
    <3>2. Head(calls[k]) \in {"connected", "failed"}
      BY <3>1
    <3> QED BY <2>1, <3>2 DEF TellLink
  <2>2. CASE ~TellLink(k)
    BY <2>2 DEF ClientStep, GatewayAnswers, LinkUp, LinkFails, SignalEnds, TellSignalEnded, phaseVars
  <2> QED BY <2>1, <2>2
<1> QED BY <1>1, <1>2, OtherUnhurried

LEMMA DisconnectUnhurried ==
  ASSUME TypeOK, Unhurried, NEW d \in Disconnects, ~overtook, ~overtook',
         DisconnectWithout(d) \/ Disconnect(d) \/ DisconnectStep(d)
  PROVE  Unhurried'
<1> USE DEF TypeOK, Unhurried, Quiet, Opening, Leaving, phaseVars, clientVars, ghostVars
<1>1. CASE DisconnectWithout(d)
  <2>1. ~Overtakes
    BY <1>1, Zenon DEF DisconnectWithout, TapDisconnect
  <2>2. /\ phase # "signedOut" /\ current = None /\ UNCHANGED <<signIn, client>>
        /\ LogOut(d)
    BY <1>1 DEF DisconnectWithout, TapDisconnect
  <2>3. Quiet
    BY <2>2
  <2>4. \/ SignedOut(d)
        \/ leaving' = [leaving EXCEPT ![d] = "loggingOut"] /\ UNCHANGED <<phase, current>>
    BY <2>2 DEF LogOut, NothingToLogOut, LogoutUnsent, LogoutSent
  <2>5. CASE SignedOut(d)
    BY <2>1, <2>2, <2>3, <2>5 DEF SignedOut, Overtakes
  <2>6. CASE leaving' = [leaving EXCEPT ![d] = "loggingOut"] /\ UNCHANGED <<phase, current>>
    BY <2>1, <2>2, <2>3, <2>6 DEF Overtakes
  <2> QED BY <2>4, <2>5, <2>6
<1>2. CASE Disconnect(d)
  <2>1. ~Overtakes
    BY <1>2, Zenon DEF Disconnect, Deletes, TapDisconnect
  <2>2. /\ phase # "signedOut" /\ current # None /\ UNCHANGED <<phase, current, signIn>>
        /\ leaving' = [leaving EXCEPT ![d] = "deleting"]
        /\ client' = [client EXCEPT ![current] = IF @ = "open" THEN "closed" ELSE @]
    BY <1>2 DEF Disconnect, Deletes, TapDisconnect
  <2>3. \A k \in SignIns : client'[k] # "open"
    BY <2>2
  <2> QED BY <2>1, <2>2, <2>3 DEF Overtakes
<1>3. CASE DeleteReturns(d)
  <2>1. /\ leaving[d] = "deleting" /\ leaving' = [leaving EXCEPT ![d] = "deleted"]
        /\ UNCHANGED <<phase, current, signIn, client>>
    BY <1>3 DEF DeleteReturns
  <2> QED BY <2>1
<1>4. CASE LogoutAfterDelete(d)
  <2>1. /\ leaving[d] = "deleted" /\ LogOut(d) /\ UNCHANGED <<signIn, client>>
    BY <1>4 DEF LogoutAfterDelete, Returned
  <2>2. \/ SignedOut(d)
        \/ leaving' = [leaving EXCEPT ![d] = "loggingOut"] /\ UNCHANGED <<phase, current>>
    BY <2>1 DEF LogOut, NothingToLogOut, LogoutUnsent, LogoutSent
  <2>3. Quiet /\ ~\E k \in SignIns : Opening(k)
    BY <2>1
  <2>4. CASE SignedOut(d)
    BY <2>1, <2>3, <2>4 DEF SignedOut
  <2>5. CASE leaving' = [leaving EXCEPT ![d] = "loggingOut"] /\ UNCHANGED <<phase, current>>
    BY <2>1, <2>3, <2>5
  <2> QED BY <2>2, <2>4, <2>5
<1>5. CASE LogoutReturns(d)
  BY <1>5 DEF LogoutReturns, SignedOut
<1> QED BY <1>1, <1>2, <1>3, <1>4, <1>5 DEF DisconnectStep

(* A disconnect that overtook something is never forgotten.                *)
LEMMA OvertookStays == [Next]_vars /\ overtook => overtook'
<1> SUFFICES ASSUME Next, overtook PROVE overtook'
  BY DEF vars, ghostVars
<1> USE DEF ghostVars
<1>1. ASSUME NEW k \in SignIns,
             SignIn(k) \/ SignInRefused(k) \/ SignInStep(k) \/ ServeCreate(k) \/ TakenOver(k) \/ ClientStep(k)
      PROVE  overtook' = overtook
  BY <1>1 DEF SignIn, SignInRefused, SignInStep, LoginAnswered, LoginFails, SendCreate, NotAuthenticated,
     CreateAnswered, CreateFails, GivesUp, OpenClient, SignalRequestFails, SendOffer, OfferFails,
     ServeCreate, TakenOver, ClientStep, GatewayAnswers, LinkUp, LinkFails, SignalEnds,
     TellSignalEnded, TellLink
<1>2. ASSUME NEW d \in Disconnects, DisconnectWithout(d) \/ Disconnect(d) PROVE overtook'
  BY <1>2, Zenon DEF DisconnectWithout, Disconnect, Deletes, TapDisconnect
<1>3. ASSUME NEW d \in Disconnects, DisconnectStep(d) \/ ServeDelete(d) \/ ServeLogout(d)
      PROVE  overtook' = overtook
  BY <1>3 DEF DisconnectStep, DeleteReturns, LogoutAfterDelete, LogoutReturns, GivesUp, ServeDelete,
     ServeLogout
<1> QED BY <1>1, <1>2, <1>3, Zenon DEF Next

LEMMA NextIInv == IInv /\ [Next]_vars => IInv'
<1> SUFFICES ASSUME IInv, [Next]_vars, ~overtook' PROVE Unhurried'
  BY NextTypeOK, Zenon DEF IInv
<1>1. TypeOK /\ Unhurried /\ ~overtook
  BY OvertookStays, Zenon DEF IInv
<1>2. CASE UNCHANGED vars
  BY <1>1, <1>2, OtherUnhurried DEF vars, phaseVars, taskVars, clientVars
<1>3. ASSUME NEW k \in SignIns, SignIn(k) \/ SignInRefused(k) \/ SignInStep(k) PROVE Unhurried'
  BY <1>1, <1>3, SignInUnhurried
<1>4. ASSUME NEW k \in SignIns, ServeCreate(k) \/ TakenOver(k) PROVE Unhurried'
  BY <1>1, <1>4, OtherUnhurried DEF ServeCreate, TakenOver, phaseVars, taskVars, clientVars
<1>5. ASSUME NEW k \in SignIns, ClientStep(k) PROVE Unhurried'
  BY <1>1, <1>5, ClientUnhurried
<1>6. ASSUME NEW d \in Disconnects, DisconnectWithout(d) \/ Disconnect(d) \/ DisconnectStep(d)
      PROVE  Unhurried'
  BY <1>1, <1>6, DisconnectUnhurried
<1>7. ASSUME NEW d \in Disconnects, ServeDelete(d) \/ ServeLogout(d) PROVE Unhurried'
  BY <1>1, <1>7, OtherUnhurried DEF ServeDelete, ServeLogout, phaseVars, taskVars, clientVars
<1> QED BY <1>2, <1>3, <1>4, <1>5, <1>6, <1>7, Zenon DEF Next

(* However many sign-ins, failures and late callbacks came before, no      *)
(* client is open while the login view is shown, unless a disconnect was   *)
(* tapped before there was a client to close.                              *)
THEOREM SignedOutIsSilentEver == Spec => []SignedOutIsSilent
<1>1. Init => IInv BY InitIInv
<1>2. IInv /\ [Next]_vars => IInv' BY NextIInv
<1>3. IInv => SignedOutIsSilent BY DEF IInv, Unhurried, Quiet, SignedOutIsSilent
<1> QED BY <1>1, <1>2, <1>3, PTL DEF Spec

-----------------------------------------------------------------------------
(* The session, as long as no disconnect overtook anything and at most one *)
(* request was given up, no createSession among them.                      *)
USE DEF tokenVars

Small ==
  /\ \A x, y \in lost : x = y
  /\ \A k \in SignIns : <<"create", k>> \notin lost

(* No session is left, but those of clients that spent their tokens.       *)
NoneLive == \A k \in SignIns : row[k] = "live" => k \in spent

(* Where the session that is live is known.  A signIn with an APIClient    *)
(* has made it the model's, and so has a client; a live session has its    *)
(* client, or is about to be answered.                                     *)
Held ==
  /\ phase = "signedOut" => current = None
  /\ current # None => api = current /\ held[current]
  /\ \A k \in SignIns :
       /\ signIn[k] \in {"login", "authorizing", "creating"} => current = None
       /\ signIn[k] \in {"authorizing", "creating", "connecting"} => api = k /\ held[k]
       /\ create[k] # "none" => signIn[k] = "creating"
       /\ row[k] = "live" =>
            k \in spent \/ current = k \/ (signIn[k] = "creating" /\ create[k] = "served")

(* How far a disconnect has come with that session: it asked for its end   *)
(* and was answered, or gave that up and asks again by the logout.         *)
Ending ==
  \A d \in Disconnects :
    /\ leaving[d] \in {"deleting", "deleted"} => victim[d] = current /\ current # None
    /\ leaving[d] = "deleting" =>
         /\ delete[d] \in {"sent", "served"} \/ current \in spent
         /\ delete[d] = "served" => row[current] # "live"
    /\ leaving[d] = "deleted" =>
         row[current] # "live" \/ current \in spent \/ <<"delete", d>> \in lost
    /\ leaving[d] = "loggingOut" =>
         /\ NoneLive \/ <<"delete", d>> \in lost
         /\ logout[d] = "served" => NoneLive

Traced == Held /\ Ending

LEMMA LostIsFinite == IsFiniteSet(lost) /\ [Next]_vars => IsFiniteSet(lost')
<1> SUFFICES ASSUME IsFiniteSet(lost), [Next]_vars
             PROVE  lost' = lost \/ \E x : lost' = lost \cup {x}
  BY FS_AddElement
<1> USE DEF ghostVars
<1>1. ASSUME NEW k \in SignIns,
             SignIn(k) \/ SignInRefused(k) \/ SignInStep(k) \/ ServeCreate(k) \/ TakenOver(k) \/ ClientStep(k)
      PROVE  lost' = lost \/ \E x : lost' = lost \cup {x}
  BY <1>1 DEF SignIn, SignInRefused, SignInStep, LoginAnswered, LoginFails, SendCreate, NotAuthenticated,
     CreateAnswered, CreateFails, GivesUp, OpenClient, SignalRequestFails, SendOffer, OfferFails,
     ServeCreate, TakenOver, ClientStep, GatewayAnswers, LinkUp, LinkFails, SignalEnds,
     TellSignalEnded, TellLink
<1>2. ASSUME NEW d \in Disconnects,
             DisconnectWithout(d) \/ Disconnect(d) \/ DisconnectStep(d) \/ ServeDelete(d) \/ ServeLogout(d)
      PROVE  lost' = lost \/ \E x : lost' = lost \cup {x}
  BY <1>2 DEF DisconnectWithout, Disconnect, Deletes, DisconnectStep, DeleteReturns, LogoutAfterDelete,
     LogoutReturns, LogOut, NothingToLogOut, LogoutUnsent, LogoutSent, GivesUp, ServeDelete, ServeLogout
<1> QED BY <1>1, <1>2, Zenon DEF Next, vars

LEMMA AtMostOne ==
  ASSUME NEW S, IsFiniteSet(S), Cardinality(S) <= 1
  PROVE  \A x, y \in S : x = y
<1>1. Cardinality(S) = 0 \/ Cardinality(S) = 1
  BY FS_CardinalityType
<1>2. S = {} \/ \E x : S = {x}
  BY <1>1, FS_EmptySet, FS_Singleton
<1> QED BY <1>2

(* A step that leaves the requests and the session alone.                  *)
LEMMA TracedFrame ==
  ASSUME Traced, UNCHANGED <<api, current, signIn, leaving, victim, held, requestVars, lost>>,
         phase' = phase \/ phase' # "signedOut", spent \subseteq spent'
  PROVE  Traced'
  BY DEF Traced, Held, Ending, NoneLive, requestVars

(* A session that ends.                                                    *)
LEMMA TracedRevoked ==
  ASSUME TypeOK, Traced, NEW S, row' = Revoked(S),
         UNCHANGED <<phaseVars, taskVars, tokenVars, create, lost>>,
         \A d \in Disconnects :
           /\ \/ delete'[d] = delete[d]
              \/ delete[d] = "sent" /\ delete'[d] = "served" /\ victim[d] \in S
           /\ \/ logout'[d] = logout[d]
              \/ logout'[d] = "served" /\ S = SignIns
  PROVE  Traced'
<1> USE DEF phaseVars, taskVars
<1>1. \A k \in SignIns : row'[k] = "live" => row[k] = "live" /\ k \notin S
  BY DEF Revoked
<1>2. Held'
  BY <1>1 DEF Traced, Held
<1>3. current \in NoneOr(SignIns)
  BY DEF TypeOK
<1>4. NoneLive => NoneLive'
  BY <1>1 DEF NoneLive
<1>5. S = SignIns => NoneLive'
  BY <1>1 DEF NoneLive
<1>6. ASSUME NEW d \in Disconnects
      PROVE  /\ leaving'[d] \in {"deleting", "deleted"} => victim'[d] = current' /\ current' # None
             /\ leaving'[d] = "deleting" =>
                  /\ delete'[d] \in {"sent", "served"} \/ current' \in spent'
                  /\ delete'[d] = "served" => row'[current'] # "live"
             /\ leaving'[d] = "deleted" =>
                  row'[current'] # "live" \/ current' \in spent' \/ <<"delete", d>> \in lost'
             /\ leaving'[d] = "loggingOut" =>
                  /\ NoneLive' \/ <<"delete", d>> \in lost'
                  /\ logout'[d] = "served" => NoneLive'
  <2>1. leaving[d] \in {"deleting", "deleted"} => current \in SignIns /\ victim[d] = current
    BY <1>3 DEF Traced, Ending
  <2>2. CASE leaving[d] = "deleting"
    <3>1. /\ delete[d] \in {"sent", "served"} \/ current \in spent
          /\ delete[d] = "served" => row[current] # "live"
      BY <2>2 DEF Traced, Ending
    <3>2. CASE delete'[d] = delete[d]
      BY <1>1, <2>1, <2>2, <3>1, <3>2
    <3>3. CASE delete'[d] # delete[d]
      <4>1. delete'[d] = "served" /\ current \in S
        BY <2>1, <2>2, <3>3
      <4> QED BY <1>1, <2>1, <2>2, <4>1
    <3> QED BY <3>2, <3>3
  <2>3. CASE leaving[d] = "deleted"
    BY <1>1, <2>1, <2>3 DEF Traced, Ending
  <2>4. CASE leaving[d] = "loggingOut"
    BY <1>4, <1>5, <2>4 DEF Traced, Ending
  <2> QED BY <2>2, <2>3, <2>4
<1> QED BY <1>2, <1>6 DEF Traced, Ending

(* A signIn that goes on, or ends, without changing api, client or session.*)
LEMMA HeldStage ==
  ASSUME TypeOK, Held, NEW k \in SignIns, NEW stage,
         signIn[k] # "creating",
         signIn' = [signIn EXCEPT ![k] = stage],
         UNCHANGED <<api, current, held, row>>,
         phase' = phase \/ phase' # "signedOut",
         stage \in {"login", "authorizing", "creating"} => current = None,
         stage \in {"authorizing", "creating", "connecting"} => api = k /\ held[k],
         \A j \in SignIns : create'[j] = create[j] \/ (j = k /\ stage = "creating"),
         spent \subseteq spent'
  PROVE  Held'
<1>1. signIn'[k] = stage /\ \A j \in SignIns : j # k => signIn'[j] = signIn[j]
  BY DEF TypeOK
<1>2. \A j \in SignIns : create'[j] # "none" => signIn'[j] = "creating"
  BY <1>1 DEF Held
<1>3. \A j \in SignIns :
        row'[j] = "live" =>
          j \in spent' \/ current' = j \/ (signIn'[j] = "creating" /\ create'[j] = "served")
  BY <1>1 DEF Held
<1> QED BY <1>1, <1>2, <1>3 DEF Held

(* signIn.  While it is on its way nobody leaves.                          *)
LEMMA TracedSignIn ==
  ASSUME TypeOK, Unhurried, Traced, Small', NEW k \in SignIns,
         SignIn(k) \/ SignInRefused(k) \/ SignInStep(k)
  PROVE  Traced'
<1> USE DEF TypeOK, phaseVars, clientVars, requestVars, ghostVars, GoesOn, Throws
<1>1. Held'
  <2>1. CASE SignIn(k) \/ SignInRefused(k)
    <3>1. /\ phase = "signedOut" /\ signIn[k] = "idle"
          /\ \E stage \in {"login", "failed"} : signIn' = [signIn EXCEPT ![k] = stage]
          /\ phase' # "signedOut" /\ UNCHANGED <<api, current, held, spent, row, create>>
      BY <2>1 DEF SignIn, SignInRefused, MayTapSignIn
    <3>2. Held /\ current = None
      BY <3>1 DEF Traced, Held
    <3>3. PICK stage \in {"login", "failed"} : signIn' = [signIn EXCEPT ![k] = stage]
      BY <3>1
    <3> HIDE DEF TypeOK
    <3> QED BY <3>1, <3>2, <3>3, HeldStage
  <2>2. CASE LoginAnswered(k)
    <3>1. \A j \in SignIns : Opening(j) => j = k
      BY <2>2 DEF LoginAnswered, Unhurried, Opening
    <3>2. \A j \in SignIns : j # k => signIn[j] \notin {"login", "authorizing", "creating", "connecting"}
      BY <3>1 DEF Opening
    <3>3. current = None
      BY <2>2 DEF LoginAnswered, Traced, Held
    <3>4. held'[k]
      BY <2>2, Zenon DEF LoginAnswered, TokensOK
    <3> QED BY <2>2, <3>2, <3>3, <3>4 DEF LoginAnswered, Traced, Held
  <2>3. CASE LoginFails(k)
    <3>1. /\ signIn[k] = "login" /\ signIn' = [signIn EXCEPT ![k] = "failed"]
          /\ phase' # "signedOut" /\ UNCHANGED <<api, current, tokenVars, row, create>>
      BY <2>3 DEF LoginFails
    <3> HIDE DEF TypeOK
    <3> QED BY <3>1, HeldStage DEF Traced
  <2>4. CASE SendCreate(k)
    <3>2. signIn[k] = "authorizing" /\ UNCHANGED <<phase, api, current, tokenVars, row>>
      BY <2>4 DEF SendCreate
    <3>3. signIn' = [signIn EXCEPT ![k] = "creating"] /\ create' = [create EXCEPT ![k] = "sent"]
      BY <2>4 DEF SendCreate
    <3>4. \A j \in SignIns : create'[j] = create[j] \/ j = k
      BY <3>3
    <3>5. Held /\ current = None /\ api = k /\ held[k]
      BY <3>2 DEF Traced, Held
    <3> HIDE DEF TypeOK
    <3> QED BY <3>2, <3>3, <3>4, <3>5, HeldStage
  <2>9. CASE NotAuthenticated(k)
    <3>1. /\ signIn[k] = "authorizing" /\ signIn' = [signIn EXCEPT ![k] = "failed"]
          /\ phase' # "signedOut" /\ UNCHANGED <<api, current, tokenVars, row, create>>
      BY <2>9 DEF NotAuthenticated
    <3> HIDE DEF TypeOK
    <3> QED BY <3>1, HeldStage DEF Traced
  <2>5. CASE CreateAnswered(k)
    <3>1. \A j \in SignIns : Opening(j) => j = k
      BY <2>5 DEF CreateAnswered, Unhurried, Opening
    <3>2. \A j \in SignIns : j # k => signIn[j] \notin {"login", "authorizing", "creating", "connecting"}
      BY <3>1 DEF Opening
    <3>3. phase # "signedOut"
      BY <2>5 DEF CreateAnswered, Unhurried, Opening
    <3>4. \A j \in SignIns : row[j] = "live" => j = k \/ j \in spent
      BY <2>5, <3>2 DEF CreateAnswered, Traced, Held
    <3> QED BY <2>5, <3>2, <3>3, <3>4 DEF CreateAnswered, Traced, Held
  <2>6. CASE CreateFails(k)
    BY <2>6 DEF CreateFails, GivesUp, Small
  <2>7. CASE OpenClient(k) \/ SignalRequestFails(k)
    <3>1. /\ signIn[k] = "connecting"
          /\ \E stage \in {"offering", "failed"} : signIn' = [signIn EXCEPT ![k] = stage]
          /\ phase' = phase \/ phase' # "signedOut"
          /\ spent \subseteq spent'
          /\ UNCHANGED <<api, current, held, row, create>>
      BY <2>7 DEF OpenClient, SignalRequestFails, Spends
    <3>2. PICK stage \in {"offering", "failed"} : signIn' = [signIn EXCEPT ![k] = stage]
      BY <3>1
    <3> HIDE DEF TypeOK
    <3> QED BY <3>1, <3>2, HeldStage DEF Traced
  <2>8. CASE SendOffer(k) \/ OfferFails(k)
    <3>1. /\ signIn[k] = "offering"
          /\ \E stage \in {"done", "failed"} : signIn' = [signIn EXCEPT ![k] = stage]
          /\ phase' = phase \/ phase' # "signedOut"
          /\ UNCHANGED <<api, current, held, spent, row, create>>
      BY <2>8 DEF SendOffer, OfferFails
    <3> QED BY <3>1, HeldStage DEF Traced
  <2> QED BY <2>1, <2>2, <2>3, <2>4, <2>5, <2>6, <2>7, <2>8, <2>9 DEF SignInStep
<1>2. Ending'
  <2>1. CASE CreateAnswered(k)
    <3>1. \A d \in Disconnects : ~Leaving(d)
      BY <2>1 DEF CreateAnswered, Unhurried, Opening
    <3>2. \A d \in Disconnects : leaving'[d] \in {"idle", "done"}
      BY <2>1, <3>1 DEF CreateAnswered, Leaving
    <3> QED BY <3>2 DEF Ending
  <2>2. CASE CreateFails(k)
    BY <2>2 DEF CreateFails, GivesUp, Small
  <2>3. CASE ~CreateAnswered(k) /\ ~CreateFails(k)
    <3>1. UNCHANGED <<current, leaving, victim, row, delete, logout, lost>> /\ spent \subseteq spent'
      BY <2>3 DEF Spends, SignIn, SignInRefused, SignInStep, LoginAnswered, LoginFails, SendCreate,
         NotAuthenticated, OpenClient, SignalRequestFails, SendOffer, OfferFails
    <3> QED BY <3>1 DEF Traced, Ending, NoneLive
  <2> QED BY <2>1, <2>2, <2>3
<1> QED BY <1>1, <1>2 DEF Traced

(* The API creates only while nobody leaves, for the signIn that waits.    *)
LEMMA TracedServeCreate ==
  ASSUME TypeOK, Unhurried, Traced, NEW k \in SignIns, ServeCreate(k)
  PROVE  Traced'
<1> USE DEF TypeOK, ServeCreate, phaseVars, taskVars, ghostVars
<1>1. signIn[k] = "creating"
  BY DEF Traced, Held
<1>2. \A d \in Disconnects : leaving'[d] \in {"idle", "done"}
  BY <1>1 DEF Unhurried, Opening, Leaving
<1>3. \A j \in SignIns : row'[j] = "live" => j = k
  BY DEF Revoked
<1>4. Held'
  BY <1>1, <1>3 DEF Traced, Held
<1> QED BY <1>2, <1>4 DEF Traced, Ending

(* The logout of a disconnect that has nothing left to delete, or has lost *)
(* the delete.                                                             *)
LEMMA TracedLogOut ==
  ASSUME TypeOK, Unhurried, Traced, Small', NEW d \in Disconnects,
         LogOut(d), UNCHANGED <<api, signIn, victim, held, row, create, delete>>,
         \A k \in SignIns : ~Opening(k),
         \A e \in Disconnects : Leaving(e) => e = d,
         NoneLive \/ (HasTokens /\ api = current /\ <<"delete", d>> \in lost)
  PROVE  Traced'
<1> USE DEF TypeOK
<1>1. \A k \in SignIns : signIn[k] \notin {"login", "authorizing", "creating", "connecting"}
  BY DEF Opening
<1>2. \A e \in Disconnects : e # d => leaving[e] \in {"idle", "done"}
  BY DEF Leaving
<1>3. CASE LogoutSent(d)
  <2>1. Held'
    BY <1>3 DEF LogoutSent, Traced, Held
  <2>2. leaving'[d] = "loggingOut" /\ logout'[d] = "sent" /\ \A e \in Disconnects : e # d => leaving'[e] \in {"idle", "done"}
    BY <1>2, <1>3 DEF LogoutSent
  <2>3. NoneLive' \/ <<"delete", d>> \in lost'
    BY <1>3 DEF LogoutSent, NoneLive
  <2> QED BY <2>1, <2>2, <2>3 DEF Traced, Ending
<1>4. CASE NothingToLogOut(d) \/ LogoutUnsent(d)
  <2>1. SignedOut(d) /\ spent \subseteq spent'
    BY <1>4 DEF NothingToLogOut, LogoutUnsent, Spends
  <2>2. NoneLive'
    <3>1. CASE NoneLive
      BY <2>1, <3>1 DEF NoneLive
    <3>2. CASE ~NoneLive
      <4>1. HasTokens /\ api = current /\ <<"delete", d>> \in lost
        BY <3>2
      <4>2. LogoutUnsent(d)
        BY <1>4, <4>1 DEF NothingToLogOut
      <4>3. <<"logout", d>> \notin lost'
        <5>1. <<"delete", d>> \in lost'
          BY <4>1, <4>2 DEF LogoutUnsent
        <5> QED BY <5>1 DEF Small
      <4>4. spent' = spent \cup {current}
        BY <4>1, <4>2, <4>3 DEF LogoutUnsent, Spends
      <4>5. \A k \in SignIns : row[k] = "live" => k \in spent \/ k = current
        BY <1>1 DEF Traced, Held
      <4> QED BY <4>4, <4>5 DEF NoneLive
    <3> QED BY <3>1, <3>2
  <2>3. \A e \in Disconnects : leaving'[e] \in {"idle", "done"}
    BY <1>2, <2>1 DEF SignedOut
  <2>4. Held'
    BY <1>1, <2>1, <2>2 DEF SignedOut, Traced, Held, NoneLive
  <2> QED BY <2>3, <2>4 DEF Traced, Ending
<1> QED BY <1>3, <1>4 DEF LogOut

LEMMA TracedDisconnect ==
  ASSUME TypeOK, Unhurried, Traced, Small', ~overtook', NEW d \in Disconnects,
         DisconnectWithout(d) \/ Disconnect(d) \/ DisconnectStep(d)
  PROVE  Traced'
<1> USE DEF TypeOK, phaseVars, clientVars, ghostVars
<1>0. \A k \in SignIns : row[k] = "live" => k \in spent \/ current = k \/ Opening(k)
  BY DEF Traced, Held, Opening
<1>1. CASE DisconnectWithout(d)
  <2>1. ~Overtakes /\ current = None /\ LogOut(d)
        /\ UNCHANGED <<api, signIn, victim, held, row, create, delete>>
    BY <1>1, Zenon DEF DisconnectWithout, TapDisconnect
  <2>2. /\ \A k \in SignIns : ~Opening(k)
        /\ \A e \in Disconnects : ~Leaving(e)
    BY <2>1 DEF Overtakes
  <2>3. NoneLive
    BY <1>0, <2>1, <2>2 DEF NoneLive
  <2> QED BY <2>1, <2>2, <2>3, TracedLogOut
<1>2. CASE Disconnect(d)
  <2>1. ~Overtakes /\ current # None
    BY <1>2, Zenon DEF Disconnect, Deletes, TapDisconnect
  <2>2. \A e \in Disconnects : leaving[e] \in {"idle", "done"}
    BY <2>1 DEF Overtakes, Leaving
  <2>3. held[current]
    BY <2>1 DEF Traced, Held
  <2>4. /\ UNCHANGED <<phase, api, current, signIn, held, spent, row, create, lost>>
        /\ victim' = [victim EXCEPT ![d] = current]
        /\ delete' = [delete EXCEPT ![d] = IF Usable(current) THEN "sent" ELSE "none"]
        /\ leaving' = [leaving EXCEPT ![d] = "deleting"]
    BY <1>2 DEF Disconnect, Deletes
  <2>5. Held'
    BY <2>4 DEF Traced, Held
  <2>6. delete'[d] = "sent" \/ (delete'[d] = "none" /\ current \in spent)
    BY <2>3, <2>4 DEF Usable
  <2>7. /\ victim'[d] = current' /\ current' # None /\ leaving'[d] = "deleting"
        /\ delete'[d] = "sent" \/ (delete'[d] = "none" /\ current' \in spent')
        /\ \A e \in Disconnects : e # d => leaving'[e] \in {"idle", "done"}
    BY <2>1, <2>2, <2>4, <2>6
  <2> QED BY <2>5, <2>7 DEF Traced, Ending
<1>3. CASE DeleteReturns(d)
  <2>1. /\ leaving[d] = "deleting" /\ leaving' = [leaving EXCEPT ![d] = "deleted"]
        /\ UNCHANGED <<phase, api, current, signIn, victim, held, row, create, logout>>
    BY <1>3 DEF DeleteReturns
  <2>2. \A e \in Disconnects : e # d => leaving[e] \in {"idle", "done"}
    BY <2>1 DEF Unhurried, Leaving
  <2>3. spent \subseteq spent'
    BY <1>3 DEF DeleteReturns, Spends
  <2>4. row[current] # "live" \/ current \in spent' \/ <<"delete", d>> \in lost'
    <3>1. /\ delete[d] \in {"sent", "served"} \/ current \in spent
          /\ delete[d] = "served" => row[current] # "live"
          /\ victim[d] = current
      BY <2>1 DEF Traced, Ending
    <3> QED BY <1>3, <2>3, <3>1 DEF DeleteReturns, GivesUp, Spends
  <2>5. Held'
    BY <2>1, <2>3 DEF Traced, Held
  <2>6. /\ victim'[d] = current' /\ current' # None /\ leaving'[d] = "deleted"
        /\ row'[current'] # "live" \/ current' \in spent' \/ <<"delete", d>> \in lost'
        /\ \A e \in Disconnects : e # d => leaving'[e] \in {"idle", "done"}
    BY <2>1, <2>2, <2>4 DEF Traced, Ending
  <2> QED BY <2>5, <2>6 DEF Traced, Ending
<1>4. CASE LogoutAfterDelete(d)
  <2>1. /\ leaving[d] = "deleted" /\ LogOut(d)
        /\ UNCHANGED <<api, signIn, victim, held, row, create, delete>>
    BY <1>4 DEF LogoutAfterDelete, Returned
  <2>2. /\ \A k \in SignIns : ~Opening(k)
        /\ \A e \in Disconnects : Leaving(e) => e = d
    BY <2>1 DEF Unhurried, Leaving
  <2>3. /\ HasTokens /\ api = current
        /\ row[current] # "live" \/ current \in spent \/ <<"delete", d>> \in lost
    BY <2>1 DEF Traced, Held, Ending, HasTokens
  <2>4. NoneLive \/ <<"delete", d>> \in lost
    BY <1>0, <2>2, <2>3 DEF NoneLive
  <2> QED BY <2>1, <2>2, <2>3, <2>4, TracedLogOut
<1>5. CASE LogoutReturns(d)
  <2>1. /\ leaving[d] = "loggingOut" /\ SignedOut(d)
        /\ UNCHANGED <<api, signIn, victim, spent, row, create, delete>>
    BY <1>5 DEF LogoutReturns
  <2>2. /\ \A k \in SignIns : ~Opening(k)
        /\ \A e \in Disconnects : Leaving(e) => e = d
    BY <2>1 DEF Unhurried, Leaving
  <2>3. NoneLive
    <3>1. CASE logout[d] = "served"
      BY <2>1, <3>1 DEF Traced, Ending
    <3>2. CASE GivesUp("logout", d)
      <4>1. <<"logout", d>> \in lost' /\ lost \subseteq lost' /\ <<"logout", d>> # <<"delete", d>>
        BY <3>2 DEF GivesUp
      <4>2. <<"delete", d>> \notin lost
        BY <4>1 DEF Small
      <4> QED BY <2>1, <4>2 DEF Traced, Ending
    <3> QED BY <1>5, <3>1, <3>2 DEF LogoutReturns
  <2>4. \A e \in Disconnects : leaving'[e] \in {"idle", "done"}
    BY <2>1, <2>2 DEF SignedOut, Leaving
  <2>5. \A k \in SignIns : signIn[k] \notin {"login", "authorizing", "creating", "connecting"}
    BY <2>2 DEF Opening
  <2>6. Held'
    BY <2>1, <2>3, <2>5 DEF SignedOut, Traced, Held, NoneLive
  <2> QED BY <2>4, <2>6 DEF Traced, Ending
<1> QED BY <1>1, <1>2, <1>3, <1>4, <1>5 DEF DisconnectStep

(* What was given up stays given up.                                       *)
LEMMA SmallStays == [Next]_vars /\ Small' => Small
<1> SUFFICES ASSUME [Next]_vars, Small' PROVE lost \subseteq lost'
  BY DEF Small
<1> USE DEF ghostVars
<1>1. ASSUME NEW k \in SignIns,
             SignIn(k) \/ SignInRefused(k) \/ SignInStep(k) \/ ServeCreate(k) \/ TakenOver(k) \/ ClientStep(k)
      PROVE  lost \subseteq lost'
  BY <1>1 DEF SignIn, SignInRefused, SignInStep, LoginAnswered, LoginFails, SendCreate, NotAuthenticated,
     CreateAnswered, CreateFails, GivesUp, OpenClient, SignalRequestFails, SendOffer, OfferFails,
     ServeCreate, TakenOver, ClientStep, GatewayAnswers, LinkUp, LinkFails, SignalEnds,
     TellSignalEnded, TellLink
<1>2. ASSUME NEW d \in Disconnects,
             DisconnectWithout(d) \/ Disconnect(d) \/ DisconnectStep(d) \/ ServeDelete(d) \/ ServeLogout(d)
      PROVE  lost \subseteq lost'
  BY <1>2 DEF DisconnectWithout, Disconnect, Deletes, DisconnectStep, DeleteReturns, LogoutAfterDelete,
     LogoutReturns, LogOut, NothingToLogOut, LogoutUnsent, LogoutSent, GivesUp, ServeDelete, ServeLogout
<1> QED BY <1>1, <1>2, Zenon DEF Next, vars

LossInv == IInv /\ IsFiniteSet(lost) /\ (~overtook /\ Small => Traced)

LEMMA LossInit == Init => LossInv
  BY InitIInv, FS_EmptySet DEF Init, LossInv, Traced, Held, Ending, NoneLive

LEMMA LossStep == LossInv /\ [Next]_vars => LossInv'
<1> SUFFICES ASSUME LossInv, [Next]_vars, ~overtook', Small' PROVE Traced'
  BY NextIInv, LostIsFinite DEF LossInv
<1>1. TypeOK /\ Unhurried /\ Traced
  BY OvertookStays, SmallStays, Zenon DEF LossInv, IInv
<1>2. CASE UNCHANGED vars
  BY <1>1, <1>2, TracedFrame DEF vars, phaseVars, taskVars, ghostVars
<1>3. ASSUME NEW k \in SignIns, SignIn(k) \/ SignInRefused(k) \/ SignInStep(k) PROVE Traced'
  BY <1>1, <1>3, TracedSignIn
<1>4. ASSUME NEW k \in SignIns, ServeCreate(k) PROVE Traced'
  BY <1>1, <1>4, TracedServeCreate
<1>5. ASSUME NEW k \in SignIns, TakenOver(k) PROVE Traced'
  BY <1>1, <1>5, TracedRevoked DEF TakenOver, ghostVars
<1>6. ASSUME NEW k \in SignIns, ClientStep(k) PROVE Traced'
  <2>1. UNCHANGED <<api, current, signIn, leaving, victim, held, spent, requestVars, lost>>
    BY <1>6 DEF ClientStep, GatewayAnswers, LinkUp, LinkFails, SignalEnds, TellSignalEnded, TellLink,
       phaseVars, taskVars, ghostVars
  <2>2. phase' = phase \/ phase' # "signedOut"
    <3>1. CASE TellLink(k)
      <4>1. calls[k] \in Seq({"connected", "failed"}) /\ calls[k] # << >>
        BY <1>1, <3>1 DEF TellLink, TypeOK
      <4>2. Head(calls[k]) \in {"connected", "failed"}
        BY <4>1
      <4> QED BY <3>1, <4>2 DEF TellLink
    <3>2. CASE ~TellLink(k)
      BY <1>6, <3>2 DEF ClientStep, GatewayAnswers, LinkUp, LinkFails, SignalEnds, TellSignalEnded, phaseVars
    <3> QED BY <3>1, <3>2
  <2> QED BY <1>1, <2>1, <2>2, TracedFrame
<1>7. ASSUME NEW d \in Disconnects, DisconnectWithout(d) \/ Disconnect(d) \/ DisconnectStep(d)
      PROVE  Traced'
  BY <1>1, <1>7, TracedDisconnect
<1>8. ASSUME NEW d \in Disconnects, ServeDelete(d) PROVE Traced'
  <2>1. \A e \in Disconnects :
          \/ delete'[e] = delete[e]
          \/ delete[e] = "sent" /\ delete'[e] = "served" /\ victim[e] \in {victim[d]}
    BY <1>1, <1>8 DEF ServeDelete, TypeOK
  <2> QED BY <1>1, <1>8, <2>1, TracedRevoked DEF ServeDelete, ghostVars
<1>9. ASSUME NEW d \in Disconnects, ServeLogout(d) PROVE Traced'
  <2>1. \A e \in Disconnects : logout'[e] = logout[e] \/ logout'[e] = "served"
    BY <1>1, <1>9 DEF ServeLogout, TypeOK
  <2> QED BY <1>1, <1>9, <2>1, TracedRevoked DEF ServeLogout, ghostVars
<1> QED BY <1>2, <1>3, <1>4, <1>5, <1>6, <1>7, <1>8, <1>9, Zenon DEF Next

(* Whatever order requests are served in, and whoever takes the session    *)
(* over: after one lost delete, logout or request of a refresh, a user who *)
(* signed out leaves no session but of clients that spent their tokens     *)
(* (AppModel.swift, disconnect).                                           *)
THEOREM OneLossIsHarmlessEver == Spec => []OneLossIsHarmless
<1>1. Init => LossInv BY LossInit
<1>2. LossInv /\ [Next]_vars => LossInv' BY LossStep
<1>3. LossInv => OneLossIsHarmless
  <2> SUFFICES ASSUME LossInv, phase = "signedOut", ~overtook, Cardinality(lost) <= 1,
                      \A k \in SignIns : <<"create", k>> \notin lost
               PROVE  \A k \in SignIns : row[k] = "live" => k \in spent
    BY DEF OneLossIsHarmless
  <2>1. Small
    BY AtMostOne DEF Small, LossInv
  <2>2. Held /\ Unhurried
    BY <2>1 DEF LossInv, IInv, Traced
  <2> QED BY <2>2 DEF Held, Unhurried, Opening
<1> QED BY <1>1, <1>2, <1>3, PTL DEF Spec
=============================================================================
