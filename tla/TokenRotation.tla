---------------------------- MODULE TokenRotation ----------------------------
(***************************************************************************)
(* Refresh tokens: login, refresh and logout of the API                    *)
(* (src/internal/httpapi/server.go, src/internal/store/store.go) and the   *)
(* app's APIClient that keeps and renews them                              *)
(* (src/ios/AndroidPessoal/APIClient.swift).                               *)
(*                                                                         *)
(* A call is one task of the app inside the actor APIClient.  The actor is *)
(* left at every await, so the calls of one client interleave; the handler *)
(* that answers a call is a goroutine that touches the database in         *)
(* separate statements, and it goes on when the app has given up.  Answers *)
(* may be lost, handlers may fail between two statements (an SQL error, a  *)
(* cancelled context, a restart of the API), clocks move on.               *)
(*                                                                         *)
(* There is one user.  A token and its digest are the same value: they are *)
(* random and unique.  The keychain is left out: the app writes its entry  *)
(* and deletes it, but never reads it.                                     *)
(***************************************************************************)
EXTENDS Naturals, FiniteSets

CONSTANTS
  Tokens,    \* the refresh tokens a behaviour may make
  Clients,   \* APIClient objects, one per signIn
  Calls,     \* tasks that call one of their operations, once each
  NoToken, NoClient

ASSUME NamesAssumption == NoToken \notin Tokens /\ NoClient \notin Clients

VARIABLES
  row,       \* row[t] of refresh_tokens; a deleted row is remembered by what
             \* deleted it: "none", "valid", "expired", "consumed", "revoked"
  owner,     \* owner[t]: the client whose login t descends from (history)
  access,    \* access[c]: the app's access token: "none", "fresh", or "stale"
             \* (less than a minute left)
  refresh,   \* refresh[c]: the app's refresh token
  call,      \* call[k]: what the task does, for which client, with which token
  app,       \* app[k]: where the task waits: "idle", "tokens", "leaving",
             \* or how it ended: "done", "failed"
  handler,   \* handler[k]: the server's side: "none", "granted", "saved",
             \* "refused", "failed"; of a logout "revoking", "revoked"
  ended      \* clients that a logout found with no handler between the two
             \* statements of a refresh (history)

storeVars == <<row, owner, ended>>
clientVars == <<access, refresh>>
vars == <<storeVars, clientVars, call, app, handler>>

Idle == [kind |-> "none", client |-> NoClient, token |-> NoToken, got |-> NoToken]
CallsOf(c) == {k \in Calls : call[k].client = c}

Init ==
  /\ row = [t \in Tokens |-> "none"]
  /\ owner = [t \in Tokens |-> NoClient]
  /\ access = [c \in Clients |-> "none"]
  /\ refresh = [c \in Clients |-> NoToken]
  /\ call = [k \in Calls |-> Idle]
  /\ app = [k \in Calls |-> "idle"]
  /\ handler = [k \in Calls |-> "none"]
  /\ ended = {}

-----------------------------------------------------------------------------
(* The app.                                                                *)
Begin(k, kind, c, token, state) ==
  /\ app[k] = "idle"
  /\ call' = [call EXCEPT ![k] = [Idle EXCEPT !.kind = kind, !.client = c, !.token = token]]
  /\ app' = [app EXCEPT ![k] = state]
  /\ UNCHANGED <<storeVars, clientVars, handler>>

(* signIn makes an APIClient and logs in before anyone else knows it.      *)
Login(k, c) ==
  /\ CallsOf(c) = {}
  /\ Begin(k, "login", c, NoToken, "tokens")

(* createSession, deleteSession and signalRequest begin with               *)
(* refreshIfNeeded; unless the access token is stale it changes nothing.   *)
Use(k, c) ==
  /\ access[c] = "stale"
  /\ refresh[c] # NoToken
  /\ Begin(k, "use", c, refresh[c], "tokens")

(* Nothing happens without a refresh token.                                *)
Logout(k, c) ==
  /\ refresh[c] # NoToken
  /\ Begin(k, "logout", c, refresh[c], IF access[c] = "stale" THEN "tokens" ELSE "leaving")

(* What apply assigns.                                                     *)
AdoptAccessOnly(k) ==
  /\ access' = [access EXCEPT ![call[k].client] = "fresh"]
  /\ refresh' = [refresh EXCEPT ![call[k].client] =
                   IF @ = NoToken THEN call[k].got ELSE @]
Adopt(k) ==
  /\ access' = [access EXCEPT ![call[k].client] = "fresh"]
  /\ refresh' = [refresh EXCEPT ![call[k].client] = call[k].got]

(* The answer with new tokens: they replace whatever the client has by     *)
(* now.  The keychain may fail after the assignments: the call fails, the  *)
(* tokens stay.  A logout goes on to its own request.                      *)
Apply(k) ==
  /\ app[k] = "tokens"
  /\ handler[k] = "saved"
  /\ Adopt(k)
  /\ \/ /\ call[k].kind = "logout"
        /\ app' = [app EXCEPT ![k] = "leaving"]
        /\ handler' = [handler EXCEPT ![k] = "none"]
     \/ /\ call[k].kind # "logout"
        /\ app' = [app EXCEPT ![k] = "done"]
        /\ UNCHANGED handler
     \/ app' = [app EXCEPT ![k] = "failed"] /\ UNCHANGED handler
  /\ UNCHANGED <<storeVars, call>>

(* An error answer, a timeout or a lost connection ends the call; a logout *)
(* returns without having forgotten the tokens.                            *)
GiveUp(k) ==
  /\ app[k] = "tokens"
  /\ app' = [app EXCEPT ![k] = "failed"]
  /\ UNCHANGED <<storeVars, clientVars, call, handler>>

(* Once it has sent its request, a logout forgets the tokens whatever the  *)
(* answer is, also without one.                                            *)
LogoutReturns(k) ==
  /\ app[k] = "leaving"
  /\ access' = [access EXCEPT ![call[k].client] = "none"]
  /\ refresh' = [refresh EXCEPT ![call[k].client] = NoToken]
  /\ app' = [app EXCEPT ![k] = "done"]
  /\ UNCHANGED <<storeVars, call, handler>>

AccessExpires(c) ==
  /\ access[c] = "fresh"
  /\ access' = [access EXCEPT ![c] = "stale"]
  /\ UNCHANGED <<storeVars, refresh, call, app, handler>>

-----------------------------------------------------------------------------
(* The API.  A request that was sent may reach it after the app gave up.   *)
Answer(k, state) == handler' = [handler EXCEPT ![k] = state]
Asked(k) == app[k] \in {"tokens", "failed"} /\ handler[k] = "none"

(* login: the limiter, the password.                                       *)
Authenticate(k) ==
  /\ Asked(k)
  /\ call[k].kind = "login"
  /\ \E verdict \in {"granted", "refused"} : Answer(k, verdict)
  /\ UNCHANGED <<storeVars, clientVars, call, app>>

(* refresh: one transaction finds the unexpired row and deletes it.        *)
AcceptableOnceMade(t) == row[t] # "none"
Acceptable(t) == row[t] = "valid"
Unspent(t) == row
Spent(t) == [row EXCEPT ![t] = "consumed"]

ConsumeRefreshToken(k) ==
  /\ Asked(k)
  /\ call[k].kind # "login"
  /\ IF Acceptable(call[k].token)
     THEN row' = Spent(call[k].token) /\ Answer(k, "granted")
     ELSE row' = row /\ Answer(k, "refused")
  /\ UNCHANGED <<owner, ended, clientVars, call, app>>

(* issueTokens, for login and refresh.                                     *)
IssueTokens(k, t) ==
  /\ handler[k] = "granted"
  /\ row[t] = "none"
  /\ row' = [row EXCEPT ![t] = "valid"]
  /\ owner' = [owner EXCEPT ![t] = call[k].client]
  /\ call' = [call EXCEPT ![k].got = t]
  /\ Answer(k, "saved")
  /\ UNCHANGED <<ended, clientVars, app>>

(* logout: two DELETEs, of the token presented, which a refresh on the way  *)
(* may have replaced, and of all of the user's.  (A 401 for an access token *)
(* that expired on the way changes nothing, like a lost request.)          *)
RevokeRefreshToken(k) ==
  /\ app[k] \in {"leaving", "done"}
  /\ call[k].kind = "logout"
  /\ handler[k] = "none"
  /\ row' = [row EXCEPT ![call[k].token] = IF @ \in {"valid", "expired"} THEN "revoked" ELSE @]
  /\ Answer(k, "revoking")
  /\ UNCHANGED <<owner, ended, clientVars, call, app>>

Revoked ==
  [t \in Tokens |-> IF row[t] \in {"valid", "expired"} THEN "revoked" ELSE row[t]]

RevokeAllRefreshTokens(k) ==
  /\ handler[k] = "revoking"
  /\ row' = Revoked
  /\ ended' = ended \cup {c \in Clients : /\ \E t \in Tokens : owner[t] = c
                                          /\ \A j \in CallsOf(c) : handler[j] # "granted"}
  /\ Answer(k, "revoked")
  /\ UNCHANGED <<owner, clientVars, call, app>>

HandlerFails(k) ==
  /\ handler[k] \in {"granted", "revoking"}
  /\ Answer(k, "failed")
  /\ UNCHANGED <<storeVars, clientVars, call, app>>

TokenExpires(t) ==
  /\ row[t] = "valid"
  /\ row' = [row EXCEPT ![t] = "expired"]
  /\ UNCHANGED <<owner, ended, clientVars, call, app, handler>>

Next ==
  \/ \E k \in Calls :
       \/ \E c \in Clients : Login(k, c) \/ Use(k, c) \/ Logout(k, c)
       \/ Apply(k) \/ GiveUp(k) \/ LogoutReturns(k)
       \/ Authenticate(k) \/ ConsumeRefreshToken(k)
       \/ \E t \in Tokens : IssueTokens(k, t)
       \/ RevokeRefreshToken(k) \/ RevokeAllRefreshTokens(k) \/ HandlerFails(k)
  \/ \E c \in Clients : AccessExpires(c)
  \/ \E t \in Tokens : TokenExpires(t)

Spec == Init /\ [][Next]_vars

-----------------------------------------------------------------------------
(* Properties.                                                             *)

(* Types; a token that was made has an owner, a call that refreshes        *)
(* presents a token.                                                       *)
TypeOK ==
  /\ row \in [Tokens -> {"none", "valid", "expired", "consumed", "revoked"}]
  /\ owner \in [Tokens -> Clients \cup {NoClient}]
  /\ ended \subseteq Clients
  /\ access \in [Clients -> {"none", "fresh", "stale"}]
  /\ refresh \in [Clients -> Tokens \cup {NoToken}]
  /\ call \in [Calls -> [kind : {"none", "login", "use", "logout"}, client : Clients \cup {NoClient},
                         token : Tokens \cup {NoToken}, got : Tokens \cup {NoToken}]]
  /\ app \in [Calls -> {"idle", "tokens", "leaving", "done", "failed"}]
  /\ handler \in [Calls -> {"none", "granted", "saved", "refused", "failed", "revoking", "revoked"}]
  /\ \A t \in Tokens : row[t] # "none" <=> owner[t] # NoClient
  /\ \A k \in Calls : call[k].kind \in {"use", "logout"} => call[k].token # NoToken

(* A login has one credential at a time: a valid token, or a handler about *)
(* to save one.  Concurrent refreshes with the same token and repetitions  *)
(* of a refresh whose answer was lost never make two (the transaction of   *)
(* ConsumeRefreshToken).                                                   *)
Valid(c) == {t \in Tokens : row[t] = "valid" /\ owner[t] = c}
Granted(c) == {k \in CallsOf(c) : handler[k] = "granted"}
OneCredentialPerLogin ==
  \A c \in Clients :
    /\ \A t, u \in Valid(c) : t = u
    /\ \A j, k \in Granted(c) : j = k
    /\ Valid(c) = {} \/ Granted(c) = {}

(* The app holds a token that was spent only while the call that spent it  *)
(* has not been answered, or because it failed: calls that interleave in   *)
(* the actor never lock a client out by themselves, whichever of them      *)
(* refreshes and whenever a logout forgets the tokens.                     *)
NotLockedOut ==
  \A c \in Clients :
    (refresh[c] # NoToken /\ row[refresh[c]] = "consumed") =>
      \E k \in CallsOf(c) :
        /\ call[k].token = refresh[c]
        /\ handler[k] \in {"granted", "saved", "failed"}
        /\ app[k] \in {"tokens", "failed"}

(* A logout ends every login of the user, other apps' too, save those that *)
(* were between the two statements of a refresh at that moment: no token   *)
(* of an ended login is ever valid again, although refreshes with its      *)
(* tokens may still be on their way.                                       *)
LogoutEndsLogins == \A c \in ended : Valid(c) = {}
=============================================================================
