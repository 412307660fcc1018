------------------------- MODULE TokenRotationProofs -------------------------
(***************************************************************************)
(* Theorems about TokenRotation, for any tokens, clients and calls.        *)
(***************************************************************************)
EXTENDS TokenRotation, TLAPS

(* A call that is under way belongs to a client and, unless it logs in,    *)
(* presents a token of that client; what it was given belongs to the       *)
(* client too, and so does what the client holds.  A client logs in once,  *)
(* with its first call; until that is granted it has no tokens.            *)
Ownership ==
  /\ \A k \in Calls : app[k] # "idle" => call[k].client \in Clients /\ call[k].kind # "none"
  /\ \A k \in Calls : app[k] = "idle" => handler[k] = "none" /\ call[k] = Idle
  /\ \A k \in Calls : call[k].token # NoToken => owner[call[k].token] = call[k].client
  /\ \A k \in Calls : call[k].got # NoToken => owner[call[k].got] = call[k].client
  /\ \A k \in Calls : handler[k] = "saved" => call[k].got # NoToken
  /\ \A c \in Clients : refresh[c] # NoToken => owner[refresh[c]] = c
  /\ \A t \in Tokens : owner[t] # NoClient => CallsOf(owner[t]) # {}

LoginIsFirst ==
  \A j \in Calls : (call[j].kind = "login" /\ handler[j] = "none") =>
    /\ \A t \in Tokens : owner[t] # call[j].client
    /\ \A k \in CallsOf(call[j].client) : k = j

IInv == TypeOK /\ Ownership /\ LoginIsFirst

LEMMA InitIInv == Init => IInv
  BY NamesAssumption DEF Init, IInv, TypeOK, Ownership, LoginIsFirst, Idle, CallsOf

LEMMA NoIdleTokens ==
  TypeOK /\ Ownership =>
    /\ \A j \in Calls : call[j].token # NoToken => owner[call[j].token] # NoClient
    /\ \A j \in Calls : call[j].got # NoToken => owner[call[j].got] # NoClient
  BY NamesAssumption DEF TypeOK, Ownership, Idle

LEMMA NextTypeOK == IInv /\ [Next]_vars => TypeOK'
<1> SUFFICES ASSUME IInv, [Next]_vars PROVE TypeOK'
  OBVIOUS
<1> USE NamesAssumption DEF storeVars, clientVars
<1>1. ASSUME NEW k \in Calls, NEW c \in Clients, Login(k, c) PROVE TypeOK'
  BY <1>1 DEF Login, Begin, IInv, TypeOK, Ownership, Idle
<1>2. ASSUME NEW k \in Calls, NEW c \in Clients, Use(k, c) PROVE TypeOK'
  BY <1>2 DEF Use, Begin, IInv, TypeOK, Ownership, Idle
<1>3. ASSUME NEW k \in Calls, NEW c \in Clients, Logout(k, c) PROVE TypeOK'
  BY <1>3 DEF Logout, Begin, IInv, TypeOK, Ownership, Idle
<1>4. ASSUME NEW k \in Calls, Apply(k) PROVE TypeOK'
  <2>1. call[k].client \in Clients /\ call[k].got \in Tokens
    BY <1>4 DEF Apply, IInv, TypeOK, Ownership
  <2>2. /\ access' \in [Clients -> {"none", "fresh", "stale"}]
        /\ refresh' \in [Clients -> Tokens \cup {NoToken}]
    BY <1>4, <2>1 DEF Apply, Adopt, IInv, TypeOK
  <2>3. /\ app' \in [Calls -> {"idle", "tokens", "leaving", "done", "failed"}]
        /\ handler' \in [Calls -> {"none", "granted", "saved", "refused", "failed", "revoking", "revoked"}]
    BY <1>4 DEF Apply, IInv, TypeOK
  <2> QED BY <1>4, <2>2, <2>3 DEF Apply, IInv, TypeOK
<1>5. ASSUME NEW k \in Calls, GiveUp(k) PROVE TypeOK'
  BY <1>5 DEF GiveUp, IInv, TypeOK, Ownership, Idle
<1>6. ASSUME NEW k \in Calls, LogoutReturns(k) PROVE TypeOK'
  BY <1>6 DEF LogoutReturns, IInv, TypeOK, Ownership, Idle
<1>7. ASSUME NEW k \in Calls, Authenticate(k) PROVE TypeOK'
  BY <1>7 DEF Authenticate, Asked, Answer, IInv, TypeOK, Ownership, Idle
<1>8. ASSUME NEW k \in Calls, ConsumeRefreshToken(k) PROVE TypeOK'
  <2>1. row' \in [Tokens -> {"none", "valid", "expired", "consumed", "revoked"}]
    BY <1>8 DEF ConsumeRefreshToken, Spent, IInv, TypeOK
  <2>2. handler' \in [Calls -> {"none", "granted", "saved", "refused", "failed", "revoking", "revoked"}]
    BY <1>8 DEF ConsumeRefreshToken, Answer, IInv, TypeOK
  <2>3. \A t \in Tokens : row'[t] # "none" <=> row[t] # "none"
    BY <1>8 DEF ConsumeRefreshToken, Acceptable, Spent, IInv, TypeOK
  <2>4. UNCHANGED <<owner, ended, access, refresh, call, app>>
    BY <1>8 DEF ConsumeRefreshToken
  <2> QED BY <2>1, <2>2, <2>3, <2>4 DEF IInv, TypeOK
<1>9. ASSUME NEW k \in Calls, NEW t \in Tokens, IssueTokens(k, t) PROVE TypeOK'
  <2>1. row' \in [Tokens -> {"none", "valid", "expired", "consumed", "revoked"}]
    BY <1>9 DEF IssueTokens, IInv, TypeOK
  <2>2. handler' \in [Calls -> {"none", "granted", "saved", "refused", "failed", "revoking", "revoked"}]
    BY <1>9 DEF IssueTokens, Answer, IInv, TypeOK
  <2>3. call[k].client \in Clients
    BY <1>9 DEF IssueTokens, IInv, TypeOK, Ownership
  <2>4. owner' \in [Tokens -> Clients \cup {NoClient}]
    BY <1>9, <2>3 DEF IssueTokens, IInv, TypeOK
  <2>5. \A u \in Tokens : row'[u] # "none" <=> owner'[u] # NoClient
    BY <1>9, <2>3 DEF IssueTokens, IInv, TypeOK
  <2>6. /\ call' \in [Calls -> [kind : {"none", "login", "use", "logout"}, client : Clients \cup {NoClient},
                              token : Tokens \cup {NoToken}, got : Tokens \cup {NoToken}]]
        /\ \A j \in Calls : call'[j].kind = call[j].kind /\ call'[j].token = call[j].token
    BY <1>9 DEF IssueTokens, IInv, TypeOK
  <2>7. UNCHANGED <<ended, access, refresh, app>>
    BY <1>9 DEF IssueTokens
  <2> QED BY <2>1, <2>2, <2>4, <2>5, <2>6, <2>7 DEF IInv, TypeOK
<1>10. ASSUME NEW k \in Calls, RevokeRefreshToken(k) PROVE TypeOK'
  BY <1>10 DEF RevokeRefreshToken, Answer, IInv, TypeOK, Ownership, Idle
<1>11. ASSUME NEW k \in Calls, RevokeAllRefreshTokens(k) PROVE TypeOK'
  BY <1>11 DEF RevokeAllRefreshTokens, Answer, Revoked, IInv, TypeOK, Ownership, Idle
<1>12. ASSUME NEW k \in Calls, HandlerFails(k) PROVE TypeOK'
  BY <1>12 DEF HandlerFails, Answer, IInv, TypeOK, Ownership, Idle
<1>13. ASSUME NEW c \in Clients, AccessExpires(c) PROVE TypeOK'
  BY <1>13 DEF AccessExpires, IInv, TypeOK, Ownership, Idle
<1>14. ASSUME NEW t \in Tokens, TokenExpires(t) PROVE TypeOK'
  BY <1>14 DEF TokenExpires, IInv, TypeOK, Ownership, Idle
<1>15. CASE UNCHANGED vars
  BY <1>15 DEF vars, IInv, TypeOK, Ownership, Idle
<1> QED BY <1>1, <1>2, <1>3, <1>4, <1>5, <1>6, <1>7, <1>8, <1>9, <1>10, <1>11, <1>12, <1>13, <1>14, <1>15 DEF Next

LEMMA NextOwnership == IInv /\ [Next]_vars => Ownership'
<1> SUFFICES ASSUME IInv, [Next]_vars PROVE Ownership'
  OBVIOUS
<1> USE NamesAssumption DEF storeVars, clientVars
<1>1. ASSUME NEW k \in Calls, NEW c \in Clients, Login(k, c) PROVE Ownership'
  BY <1>1 DEF Login, Begin, IInv, TypeOK, Ownership, Idle, CallsOf
<1>2. ASSUME NEW k \in Calls, NEW c \in Clients, Use(k, c) PROVE Ownership'
  BY <1>2 DEF Use, Begin, IInv, TypeOK, Ownership, Idle, CallsOf
<1>3. ASSUME NEW k \in Calls, NEW c \in Clients, Logout(k, c) PROVE Ownership'
  BY <1>3 DEF Logout, Begin, IInv, TypeOK, Ownership, Idle, CallsOf
<1>4. ASSUME NEW k \in Calls, Apply(k) PROVE Ownership'
  BY <1>4 DEF Apply, Adopt, IInv, TypeOK, Ownership, Idle, CallsOf
<1>5. ASSUME NEW k \in Calls, GiveUp(k) PROVE Ownership'
  BY <1>5 DEF GiveUp, IInv, TypeOK, Ownership, Idle, CallsOf
<1>6. ASSUME NEW k \in Calls, LogoutReturns(k) PROVE Ownership'
  BY <1>6 DEF LogoutReturns, IInv, TypeOK, Ownership, Idle, CallsOf
<1>7. ASSUME NEW k \in Calls, Authenticate(k) PROVE Ownership'
  BY <1>7 DEF Authenticate, Asked, Answer, IInv, TypeOK, Ownership, Idle, CallsOf
<1>8. ASSUME NEW k \in Calls, ConsumeRefreshToken(k) PROVE Ownership'
  BY <1>8 DEF ConsumeRefreshToken, Asked, Answer, Acceptable, Spent, IInv, TypeOK, Ownership, Idle, CallsOf
<1>9. ASSUME NEW k \in Calls, NEW t \in Tokens, IssueTokens(k, t) PROVE Ownership'
  <2>1. app[k] # "idle" /\ call[k].client \in Clients /\ owner[t] = NoClient
    BY <1>9 DEF IssueTokens, IInv, TypeOK, Ownership
  <2>2. \A u \in Tokens : owner[u] # NoClient => owner'[u] = owner[u]
    BY <1>9, <2>1 DEF IssueTokens, IInv, TypeOK
  <2>3. /\ owner'[t] = call[k].client
        /\ \A j \in Calls : /\ call'[j].kind = call[j].kind
                            /\ call'[j].client = call[j].client
                            /\ call'[j].token = call[j].token
                            /\ j # k => call'[j] = call[j] /\ handler'[j] = handler[j]
        /\ call'[k].got = t
    BY <1>9 DEF IssueTokens, Answer, IInv, TypeOK
  <2>4. /\ \A j \in Calls : call[j].token # NoToken => owner[call[j].token] # NoClient
        /\ \A j \in Calls : call[j].got # NoToken => owner[call[j].got] # NoClient
    BY NoIdleTokens DEF IInv
  <2>5. UNCHANGED <<app, refresh>>
    BY <1>9 DEF IssueTokens
  <2>6. (\A j \in Calls : call[j].token # NoToken => owner[call[j].token] = call[j].client)'
    BY <2>2, <2>3, <2>4 DEF IInv, TypeOK, Ownership
  <2>7. (\A j \in Calls : call[j].got # NoToken => owner[call[j].got] = call[j].client)'
    BY <2>2, <2>3, <2>4 DEF IInv, TypeOK, Ownership
  <2>8. (\A c \in Clients : refresh[c] # NoToken => owner[refresh[c]] = c)'
    BY <2>2, <2>5 DEF IInv, TypeOK, Ownership
  <2>9. (\A u \in Tokens : owner[u] # NoClient => CallsOf(owner[u]) # {})'
    <3> SUFFICES ASSUME NEW u \in Tokens, owner'[u] # NoClient
                 PROVE  \E j \in Calls : call'[j].client = owner'[u]
      BY DEF CallsOf
    <3>1. CASE u = t
      BY <3>1, <2>3
    <3>2. CASE u # t
      <4>1. owner'[u] = owner[u]
        BY <3>2, <1>9 DEF IssueTokens, IInv, TypeOK
      <4> QED BY <4>1, <2>3 DEF IInv, Ownership, CallsOf
    <3> QED BY <3>1, <3>2
  <2> QED BY <2>1, <2>3, <2>5, <2>6, <2>7, <2>8, <2>9 DEF IInv, Ownership
<1>10. ASSUME NEW k \in Calls, RevokeRefreshToken(k) PROVE Ownership'
  BY <1>10 DEF RevokeRefreshToken, Answer, IInv, TypeOK, Ownership, Idle, CallsOf
<1>11. ASSUME NEW k \in Calls, RevokeAllRefreshTokens(k) PROVE Ownership'
  BY <1>11 DEF RevokeAllRefreshTokens, Answer, Revoked, IInv, TypeOK, Ownership, Idle, CallsOf
<1>12. ASSUME NEW k \in Calls, HandlerFails(k) PROVE Ownership'
  BY <1>12 DEF HandlerFails, Answer, IInv, TypeOK, Ownership, Idle, CallsOf
<1>13. ASSUME NEW c \in Clients, AccessExpires(c) PROVE Ownership'
  BY <1>13 DEF AccessExpires, IInv, TypeOK, Ownership, Idle, CallsOf
<1>14. ASSUME NEW t \in Tokens, TokenExpires(t) PROVE Ownership'
  BY <1>14 DEF TokenExpires, IInv, TypeOK, Ownership, Idle, CallsOf
<1>15. CASE UNCHANGED vars
  BY <1>15 DEF vars, IInv, TypeOK, Ownership, Idle, CallsOf
<1> QED BY <1>1, <1>2, <1>3, <1>4, <1>5, <1>6, <1>7, <1>8, <1>9, <1>10, <1>11, <1>12, <1>13, <1>14, <1>15 DEF Next

LEMMA NextLogin == IInv /\ [Next]_vars => LoginIsFirst'
<1> SUFFICES ASSUME IInv, [Next]_vars PROVE LoginIsFirst'
  OBVIOUS
<1> USE NamesAssumption DEF storeVars, clientVars
<1>1. ASSUME NEW k \in Calls, NEW c \in Clients, Login(k, c) PROVE LoginIsFirst'
  BY <1>1 DEF Login, Begin, IInv, TypeOK, Ownership, LoginIsFirst, Idle, CallsOf
<1>2. ASSUME NEW k \in Calls, NEW c \in Clients, Use(k, c) PROVE LoginIsFirst'
  BY <1>2 DEF Use, Begin, IInv, TypeOK, Ownership, LoginIsFirst, Idle, CallsOf
<1>3. ASSUME NEW k \in Calls, NEW c \in Clients, Logout(k, c) PROVE LoginIsFirst'
  BY <1>3 DEF Logout, Begin, IInv, TypeOK, Ownership, LoginIsFirst, Idle, CallsOf
<1>4. ASSUME NEW k \in Calls, Apply(k) PROVE LoginIsFirst'
  BY <1>4 DEF Apply, Adopt, IInv, TypeOK, Ownership, LoginIsFirst, Idle, CallsOf
<1>5. ASSUME NEW k \in Calls, GiveUp(k) PROVE LoginIsFirst'
  BY <1>5 DEF GiveUp, IInv, TypeOK, Ownership, LoginIsFirst, Idle, CallsOf
<1>6. ASSUME NEW k \in Calls, LogoutReturns(k) PROVE LoginIsFirst'
  BY <1>6 DEF LogoutReturns, IInv, TypeOK, Ownership, LoginIsFirst, Idle, CallsOf
<1>7. ASSUME NEW k \in Calls, Authenticate(k) PROVE LoginIsFirst'
  BY <1>7 DEF Authenticate, Asked, Answer, IInv, TypeOK, Ownership, LoginIsFirst, Idle, CallsOf
<1>8. ASSUME NEW k \in Calls, ConsumeRefreshToken(k) PROVE LoginIsFirst'
  BY <1>8 DEF ConsumeRefreshToken, Asked, Answer, Acceptable, Spent, IInv, TypeOK, Ownership, LoginIsFirst, Idle, CallsOf
<1>9. ASSUME NEW k \in Calls, NEW t \in Tokens, IssueTokens(k, t) PROVE LoginIsFirst'
  BY <1>9 DEF IssueTokens, Answer, IInv, TypeOK, Ownership, LoginIsFirst, Idle, CallsOf
<1>10. ASSUME NEW k \in Calls, RevokeRefreshToken(k) PROVE LoginIsFirst'
  BY <1>10 DEF RevokeRefreshToken, Answer, IInv, TypeOK, Ownership, LoginIsFirst, Idle, CallsOf
<1>11. ASSUME NEW k \in Calls, RevokeAllRefreshTokens(k) PROVE LoginIsFirst'
  BY <1>11 DEF RevokeAllRefreshTokens, Answer, Revoked, IInv, TypeOK, Ownership, LoginIsFirst, Idle, CallsOf
<1>12. ASSUME NEW k \in Calls, HandlerFails(k) PROVE LoginIsFirst'
  BY <1>12 DEF HandlerFails, Answer, IInv, TypeOK, Ownership, LoginIsFirst, Idle, CallsOf
<1>13. ASSUME NEW c \in Clients, AccessExpires(c) PROVE LoginIsFirst'
  BY <1>13 DEF AccessExpires, IInv, TypeOK, Ownership, LoginIsFirst, Idle, CallsOf
<1>14. ASSUME NEW t \in Tokens, TokenExpires(t) PROVE LoginIsFirst'
  BY <1>14 DEF TokenExpires, IInv, TypeOK, Ownership, LoginIsFirst, Idle, CallsOf
<1>15. CASE UNCHANGED vars
  BY <1>15 DEF vars, IInv, TypeOK, Ownership, LoginIsFirst, Idle, CallsOf
<1> QED BY <1>1, <1>2, <1>3, <1>4, <1>5, <1>6, <1>7, <1>8, <1>9, <1>10, <1>11, <1>12, <1>13, <1>14, <1>15 DEF Next

LEMMA NextIInv == IInv /\ [Next]_vars => IInv'
  BY NextTypeOK, NextOwnership, NextLogin DEF IInv

LEMMA NextCredential == (IInv /\ OneCredentialPerLogin) /\ [Next]_vars => OneCredentialPerLogin'
<1> SUFFICES ASSUME (IInv /\ OneCredentialPerLogin), [Next]_vars PROVE OneCredentialPerLogin'
  OBVIOUS
<1> USE NamesAssumption DEF storeVars, clientVars
<1>1. ASSUME NEW k \in Calls, NEW c \in Clients, Login(k, c) PROVE OneCredentialPerLogin'
  BY <1>1 DEF Login, Begin, IInv, TypeOK, Ownership, LoginIsFirst, OneCredentialPerLogin, Valid, Granted, Idle, CallsOf
<1>2. ASSUME NEW k \in Calls, NEW c \in Clients, Use(k, c) PROVE OneCredentialPerLogin'
  BY <1>2 DEF Use, Begin, IInv, TypeOK, Ownership, LoginIsFirst, OneCredentialPerLogin, Valid, Granted, Idle, CallsOf
<1>3. ASSUME NEW k \in Calls, NEW c \in Clients, Logout(k, c) PROVE OneCredentialPerLogin'
  BY <1>3 DEF Logout, Begin, IInv, TypeOK, Ownership, LoginIsFirst, OneCredentialPerLogin, Valid, Granted, Idle, CallsOf
<1>4. ASSUME NEW k \in Calls, Apply(k) PROVE OneCredentialPerLogin'
  BY <1>4 DEF Apply, Adopt, IInv, TypeOK, Ownership, LoginIsFirst, OneCredentialPerLogin, Valid, Granted, Idle, CallsOf
<1>5. ASSUME NEW k \in Calls, GiveUp(k) PROVE OneCredentialPerLogin'
  BY <1>5 DEF GiveUp, IInv, TypeOK, Ownership, LoginIsFirst, OneCredentialPerLogin, Valid, Granted, Idle, CallsOf
<1>6. ASSUME NEW k \in Calls, LogoutReturns(k) PROVE OneCredentialPerLogin'
  BY <1>6 DEF LogoutReturns, IInv, TypeOK, Ownership, LoginIsFirst, OneCredentialPerLogin, Valid, Granted, Idle, CallsOf
<1>7. ASSUME NEW k \in Calls, Authenticate(k) PROVE OneCredentialPerLogin'
  BY <1>7 DEF Authenticate, Asked, Answer, IInv, TypeOK, Ownership, LoginIsFirst, OneCredentialPerLogin, Valid, Granted, Idle, CallsOf
<1>8. ASSUME NEW k \in Calls, ConsumeRefreshToken(k) PROVE OneCredentialPerLogin'
  <2>1. CASE Acceptable(call[k].token)
    <3>1. call[k].token \in Valid(call[k].client) /\ call[k].client \in Clients
      BY <1>8, <2>1 DEF ConsumeRefreshToken, Asked, Acceptable, Valid, IInv, TypeOK, Ownership
    <3>2. /\ Valid(call[k].client) = {call[k].token}
          /\ Granted(call[k].client) = {}
      BY <3>1 DEF OneCredentialPerLogin
    <3>3. /\ Valid(call[k].client)' = {}
          /\ Granted(call[k].client)' = {k}
      BY <1>8, <2>1, <3>2 DEF ConsumeRefreshToken, Answer, Spent, Valid, Granted, CallsOf, IInv, TypeOK
    <3>4. \A c \in Clients : c # call[k].client => Valid(c)' \subseteq Valid(c) /\ Granted(c)' = Granted(c)
      BY <1>8, <2>1 DEF ConsumeRefreshToken, Answer, Spent, Valid, Granted, CallsOf, IInv, TypeOK
    <3>5. call' = call
      BY <1>8 DEF ConsumeRefreshToken
    <3>6. ASSUME NEW c \in Clients
          PROVE  /\ \A t, u \in Valid(c)' : t = u
                 /\ \A j, l \in Granted(c)' : j = l
                 /\ Valid(c)' = {} \/ Granted(c)' = {}
      <4>1. CASE c = call[k].client
        BY <4>1, <3>3, <3>5 DEF Valid, Granted, CallsOf
      <4>2. CASE c # call[k].client
        BY <4>2, <3>4 DEF OneCredentialPerLogin
      <4> QED BY <4>1, <4>2
    <3> QED BY <3>6 DEF OneCredentialPerLogin
  <2>2. CASE ~Acceptable(call[k].token)
    <3>1. \A c \in Clients : Valid(c)' = Valid(c) /\ Granted(c)' \subseteq Granted(c)
      BY <1>8, <2>2 DEF ConsumeRefreshToken, Answer, Valid, Granted, CallsOf, IInv, TypeOK
    <3> QED BY <3>1 DEF OneCredentialPerLogin
  <2> QED BY <2>1, <2>2
<1>9. ASSUME NEW k \in Calls, NEW t \in Tokens, IssueTokens(k, t) PROVE OneCredentialPerLogin'
  BY <1>9 DEF IssueTokens, Answer, IInv, TypeOK, Ownership, LoginIsFirst, OneCredentialPerLogin, Valid, Granted, Idle, CallsOf
<1>10. ASSUME NEW k \in Calls, RevokeRefreshToken(k) PROVE OneCredentialPerLogin'
  BY <1>10 DEF RevokeRefreshToken, Answer, IInv, TypeOK, Ownership, LoginIsFirst, OneCredentialPerLogin, Valid, Granted, Idle, CallsOf
<1>11. ASSUME NEW k \in Calls, RevokeAllRefreshTokens(k) PROVE OneCredentialPerLogin'
  BY <1>11 DEF RevokeAllRefreshTokens, Answer, Revoked, IInv, TypeOK, Ownership, LoginIsFirst, OneCredentialPerLogin, Valid, Granted, Idle, CallsOf
<1>12. ASSUME NEW k \in Calls, HandlerFails(k) PROVE OneCredentialPerLogin'
  BY <1>12 DEF HandlerFails, Answer, IInv, TypeOK, Ownership, LoginIsFirst, OneCredentialPerLogin, Valid, Granted, Idle, CallsOf
<1>13. ASSUME NEW c \in Clients, AccessExpires(c) PROVE OneCredentialPerLogin'
  BY <1>13 DEF AccessExpires, IInv, TypeOK, Ownership, LoginIsFirst, OneCredentialPerLogin, Valid, Granted, Idle, CallsOf
<1>14. ASSUME NEW t \in Tokens, TokenExpires(t) PROVE OneCredentialPerLogin'
  BY <1>14 DEF TokenExpires, IInv, TypeOK, Ownership, LoginIsFirst, OneCredentialPerLogin, Valid, Granted, Idle, CallsOf
<1>15. CASE UNCHANGED vars
  BY <1>15 DEF vars, IInv, TypeOK, Ownership, LoginIsFirst, OneCredentialPerLogin, Valid, Granted, Idle, CallsOf
<1> QED BY <1>1, <1>2, <1>3, <1>4, <1>5, <1>6, <1>7, <1>8, <1>9, <1>10, <1>11, <1>12, <1>13, <1>14, <1>15 DEF Next

(* Of an ended login nothing can come any more: no valid token, no handler *)
(* about to save one, and a new one would take a login.                    *)
EndedInv ==
  \A c \in ended : Valid(c) = {} /\ Granted(c) = {} /\ \E t \in Tokens : owner[t] = c

LEMMA NextEnded == (IInv /\ EndedInv) /\ [Next]_vars => EndedInv'
<1> SUFFICES ASSUME (IInv /\ EndedInv), [Next]_vars PROVE EndedInv'
  OBVIOUS
<1> USE NamesAssumption DEF storeVars, clientVars
<1>1. ASSUME NEW k \in Calls, NEW c \in Clients, Login(k, c) PROVE EndedInv'
  BY <1>1 DEF Login, Begin, IInv, TypeOK, Ownership, LoginIsFirst, EndedInv, Valid, Granted, Idle, CallsOf
<1>2. ASSUME NEW k \in Calls, NEW c \in Clients, Use(k, c) PROVE EndedInv'
  BY <1>2 DEF Use, Begin, IInv, TypeOK, Ownership, LoginIsFirst, EndedInv, Valid, Granted, Idle, CallsOf
<1>3. ASSUME NEW k \in Calls, NEW c \in Clients, Logout(k, c) PROVE EndedInv'
  BY <1>3 DEF Logout, Begin, IInv, TypeOK, Ownership, LoginIsFirst, EndedInv, Valid, Granted, Idle, CallsOf
<1>4. ASSUME NEW k \in Calls, Apply(k) PROVE EndedInv'
  BY <1>4 DEF Apply, Adopt, IInv, TypeOK, Ownership, LoginIsFirst, EndedInv, Valid, Granted, Idle, CallsOf
<1>5. ASSUME NEW k \in Calls, GiveUp(k) PROVE EndedInv'
  BY <1>5 DEF GiveUp, IInv, TypeOK, Ownership, LoginIsFirst, EndedInv, Valid, Granted, Idle, CallsOf
<1>6. ASSUME NEW k \in Calls, LogoutReturns(k) PROVE EndedInv'
  BY <1>6 DEF LogoutReturns, IInv, TypeOK, Ownership, LoginIsFirst, EndedInv, Valid, Granted, Idle, CallsOf
<1>7. ASSUME NEW k \in Calls, Authenticate(k) PROVE EndedInv'
  BY <1>7 DEF Authenticate, Asked, Answer, IInv, TypeOK, Ownership, LoginIsFirst, EndedInv, Valid, Granted, Idle, CallsOf
<1>8. ASSUME NEW k \in Calls, ConsumeRefreshToken(k) PROVE EndedInv'
  BY <1>8 DEF ConsumeRefreshToken, Asked, Answer, Acceptable, Spent, IInv, TypeOK, Ownership, LoginIsFirst, EndedInv, Valid, Granted, Idle, CallsOf
<1>9. ASSUME NEW k \in Calls, NEW t \in Tokens, IssueTokens(k, t) PROVE EndedInv'
  BY <1>9 DEF IssueTokens, Answer, IInv, TypeOK, Ownership, LoginIsFirst, EndedInv, Valid, Granted, Idle, CallsOf
<1>10. ASSUME NEW k \in Calls, RevokeRefreshToken(k) PROVE EndedInv'
  BY <1>10 DEF RevokeRefreshToken, Answer, IInv, TypeOK, Ownership, LoginIsFirst, EndedInv, Valid, Granted, Idle, CallsOf
<1>11. ASSUME NEW k \in Calls, RevokeAllRefreshTokens(k) PROVE EndedInv'
  BY <1>11 DEF RevokeAllRefreshTokens, Answer, Revoked, IInv, TypeOK, Ownership, LoginIsFirst, EndedInv, Valid, Granted, Idle, CallsOf
<1>12. ASSUME NEW k \in Calls, HandlerFails(k) PROVE EndedInv'
  BY <1>12 DEF HandlerFails, Answer, IInv, TypeOK, Ownership, LoginIsFirst, EndedInv, Valid, Granted, Idle, CallsOf
<1>13. ASSUME NEW c \in Clients, AccessExpires(c) PROVE EndedInv'
  BY <1>13 DEF AccessExpires, IInv, TypeOK, Ownership, LoginIsFirst, EndedInv, Valid, Granted, Idle, CallsOf
<1>14. ASSUME NEW t \in Tokens, TokenExpires(t) PROVE EndedInv'
  BY <1>14 DEF TokenExpires, IInv, TypeOK, Ownership, LoginIsFirst, EndedInv, Valid, Granted, Idle, CallsOf
<1>15. CASE UNCHANGED vars
  BY <1>15 DEF vars, IInv, TypeOK, Ownership, LoginIsFirst, EndedInv, Valid, Granted, Idle, CallsOf
<1> QED BY <1>1, <1>2, <1>3, <1>4, <1>5, <1>6, <1>7, <1>8, <1>9, <1>10, <1>11, <1>12, <1>13, <1>14, <1>15 DEF Next

(* A token that lies in an answer the app has not applied yet is nobody's: *)
(* no client holds it, no call presents it, nobody spent it, and no other  *)
(* answer contains it.                                                     *)
AnswerIsUnused ==
  \A k \in Calls : (app[k] = "tokens" /\ handler[k] = "saved") =>
    /\ \A c \in Clients : refresh[c] # call[k].got
    /\ \A j \in Calls : call[j].token # call[k].got
    /\ \A j \in Calls : j # k => call[j].got # call[k].got
    /\ row[call[k].got] # "consumed"

LEMMA NextUnused == (IInv /\ AnswerIsUnused) /\ [Next]_vars => AnswerIsUnused'
<1> SUFFICES ASSUME (IInv /\ AnswerIsUnused), [Next]_vars PROVE AnswerIsUnused'
  OBVIOUS
<1> USE NamesAssumption DEF storeVars, clientVars
<1>1. ASSUME NEW k \in Calls, NEW c \in Clients, Login(k, c) PROVE AnswerIsUnused'
  BY <1>1 DEF Login, Begin, IInv, TypeOK, Ownership, LoginIsFirst, AnswerIsUnused, Idle, CallsOf
<1>2. ASSUME NEW k \in Calls, NEW c \in Clients, Use(k, c) PROVE AnswerIsUnused'
  BY <1>2 DEF Use, Begin, IInv, TypeOK, Ownership, LoginIsFirst, AnswerIsUnused, Idle, CallsOf
<1>3. ASSUME NEW k \in Calls, NEW c \in Clients, Logout(k, c) PROVE AnswerIsUnused'
  BY <1>3 DEF Logout, Begin, IInv, TypeOK, Ownership, LoginIsFirst, AnswerIsUnused, Idle, CallsOf
<1>4. ASSUME NEW k \in Calls, Apply(k) PROVE AnswerIsUnused'
  BY <1>4 DEF Apply, Adopt, IInv, TypeOK, Ownership, LoginIsFirst, AnswerIsUnused, Idle, CallsOf
<1>5. ASSUME NEW k \in Calls, GiveUp(k) PROVE AnswerIsUnused'
  BY <1>5 DEF GiveUp, IInv, TypeOK, Ownership, LoginIsFirst, AnswerIsUnused, Idle, CallsOf
<1>6. ASSUME NEW k \in Calls, LogoutReturns(k) PROVE AnswerIsUnused'
  BY <1>6 DEF LogoutReturns, IInv, TypeOK, Ownership, LoginIsFirst, AnswerIsUnused, Idle, CallsOf
<1>7. ASSUME NEW k \in Calls, Authenticate(k) PROVE AnswerIsUnused'
  BY <1>7 DEF Authenticate, Asked, Answer, IInv, TypeOK, Ownership, LoginIsFirst, AnswerIsUnused, Idle, CallsOf
<1>8. ASSUME NEW k \in Calls, ConsumeRefreshToken(k) PROVE AnswerIsUnused'
  BY <1>8 DEF ConsumeRefreshToken, Asked, Answer, Acceptable, Spent, IInv, TypeOK, Ownership, LoginIsFirst, AnswerIsUnused, Idle, CallsOf
<1>9. ASSUME NEW k \in Calls, NEW t \in Tokens, IssueTokens(k, t) PROVE AnswerIsUnused'
  BY <1>9 DEF IssueTokens, Answer, IInv, TypeOK, Ownership, LoginIsFirst, AnswerIsUnused, Idle, CallsOf
<1>10. ASSUME NEW k \in Calls, RevokeRefreshToken(k) PROVE AnswerIsUnused'
  BY <1>10 DEF RevokeRefreshToken, Answer, IInv, TypeOK, Ownership, LoginIsFirst, AnswerIsUnused, Idle, CallsOf
<1>11. ASSUME NEW k \in Calls, RevokeAllRefreshTokens(k) PROVE AnswerIsUnused'
  BY <1>11 DEF RevokeAllRefreshTokens, Answer, Revoked, IInv, TypeOK, Ownership, LoginIsFirst, AnswerIsUnused, Idle, CallsOf
<1>12. ASSUME NEW k \in Calls, HandlerFails(k) PROVE AnswerIsUnused'
  BY <1>12 DEF HandlerFails, Answer, IInv, TypeOK, Ownership, LoginIsFirst, AnswerIsUnused, Idle, CallsOf
<1>13. ASSUME NEW c \in Clients, AccessExpires(c) PROVE AnswerIsUnused'
  BY <1>13 DEF AccessExpires, IInv, TypeOK, Ownership, LoginIsFirst, AnswerIsUnused, Idle, CallsOf
<1>14. ASSUME NEW t \in Tokens, TokenExpires(t) PROVE AnswerIsUnused'
  BY <1>14 DEF TokenExpires, IInv, TypeOK, Ownership, LoginIsFirst, AnswerIsUnused, Idle, CallsOf
<1>15. CASE UNCHANGED vars
  BY <1>15 DEF vars, IInv, TypeOK, Ownership, LoginIsFirst, AnswerIsUnused, Idle, CallsOf
<1> QED BY <1>1, <1>2, <1>3, <1>4, <1>5, <1>6, <1>7, <1>8, <1>9, <1>10, <1>11, <1>12, <1>13, <1>14, <1>15 DEF Next

LEMMA NextNotLocked == (IInv /\ AnswerIsUnused /\ NotLockedOut) /\ [Next]_vars => NotLockedOut'
<1> SUFFICES ASSUME (IInv /\ AnswerIsUnused /\ NotLockedOut), [Next]_vars PROVE NotLockedOut'
  OBVIOUS
<1> USE NamesAssumption DEF storeVars, clientVars
<1>1. ASSUME NEW k \in Calls, NEW c \in Clients, Login(k, c) PROVE NotLockedOut'
  BY <1>1 DEF Login, Begin, IInv, TypeOK, Ownership, LoginIsFirst, AnswerIsUnused, NotLockedOut, Idle, CallsOf
<1>2. ASSUME NEW k \in Calls, NEW c \in Clients, Use(k, c) PROVE NotLockedOut'
  BY <1>2 DEF Use, Begin, IInv, TypeOK, Ownership, LoginIsFirst, AnswerIsUnused, NotLockedOut, Idle, CallsOf
<1>3. ASSUME NEW k \in Calls, NEW c \in Clients, Logout(k, c) PROVE NotLockedOut'
  BY <1>3 DEF Logout, Begin, IInv, TypeOK, Ownership, LoginIsFirst, AnswerIsUnused, NotLockedOut, Idle, CallsOf
<1>4. ASSUME NEW k \in Calls, Apply(k) PROVE NotLockedOut'
  BY <1>4 DEF Apply, Adopt, IInv, TypeOK, Ownership, LoginIsFirst, AnswerIsUnused, NotLockedOut, Idle, CallsOf
<1>5. ASSUME NEW k \in Calls, GiveUp(k) PROVE NotLockedOut'
  BY <1>5 DEF GiveUp, IInv, TypeOK, Ownership, LoginIsFirst, AnswerIsUnused, NotLockedOut, Idle, CallsOf
<1>6. ASSUME NEW k \in Calls, LogoutReturns(k) PROVE NotLockedOut'
  BY <1>6 DEF LogoutReturns, IInv, TypeOK, Ownership, LoginIsFirst, AnswerIsUnused, NotLockedOut, Idle, CallsOf
<1>7. ASSUME NEW k \in Calls, Authenticate(k) PROVE NotLockedOut'
  BY <1>7 DEF Authenticate, Asked, Answer, IInv, TypeOK, Ownership, LoginIsFirst, AnswerIsUnused, NotLockedOut, Idle, CallsOf
<1>8. ASSUME NEW k \in Calls, ConsumeRefreshToken(k) PROVE NotLockedOut'
  BY <1>8 DEF ConsumeRefreshToken, Asked, Answer, Acceptable, Spent, IInv, TypeOK, Ownership, LoginIsFirst, AnswerIsUnused, NotLockedOut, Idle, CallsOf
<1>9. ASSUME NEW k \in Calls, NEW t \in Tokens, IssueTokens(k, t) PROVE NotLockedOut'
  BY <1>9 DEF IssueTokens, Answer, IInv, TypeOK, Ownership, LoginIsFirst, AnswerIsUnused, NotLockedOut, Idle, CallsOf
<1>10. ASSUME NEW k \in Calls, RevokeRefreshToken(k) PROVE NotLockedOut'
  BY <1>10 DEF RevokeRefreshToken, Answer, IInv, TypeOK, Ownership, LoginIsFirst, AnswerIsUnused, NotLockedOut, Idle, CallsOf
<1>11. ASSUME NEW k \in Calls, RevokeAllRefreshTokens(k) PROVE NotLockedOut'
  BY <1>11 DEF RevokeAllRefreshTokens, Answer, Revoked, IInv, TypeOK, Ownership, LoginIsFirst, AnswerIsUnused, NotLockedOut, Idle, CallsOf
<1>12. ASSUME NEW k \in Calls, HandlerFails(k) PROVE NotLockedOut'
  BY <1>12 DEF HandlerFails, Answer, IInv, TypeOK, Ownership, LoginIsFirst, AnswerIsUnused, NotLockedOut, Idle, CallsOf
<1>13. ASSUME NEW c \in Clients, AccessExpires(c) PROVE NotLockedOut'
  BY <1>13 DEF AccessExpires, IInv, TypeOK, Ownership, LoginIsFirst, AnswerIsUnused, NotLockedOut, Idle, CallsOf
<1>14. ASSUME NEW t \in Tokens, TokenExpires(t) PROVE NotLockedOut'
  BY <1>14 DEF TokenExpires, IInv, TypeOK, Ownership, LoginIsFirst, AnswerIsUnused, NotLockedOut, Idle, CallsOf
<1>15. CASE UNCHANGED vars
  BY <1>15 DEF vars, IInv, TypeOK, Ownership, LoginIsFirst, AnswerIsUnused, NotLockedOut, Idle, CallsOf
<1> QED BY <1>1, <1>2, <1>3, <1>4, <1>5, <1>6, <1>7, <1>8, <1>9, <1>10, <1>11, <1>12, <1>13, <1>14, <1>15 DEF Next

(* The states of the app, the handlers and the rows keep their types.      *)
THEOREM TokenTypeCorrect == Spec => []TypeOK
<1>1. IInv => TypeOK
  BY DEF IInv
<1> QED BY InitIInv, NextIInv, <1>1, PTL DEF Spec

(* Concurrent, repeated and unanswered refreshes (server.go:refresh) leave *)
(* a login with one credential at most.                                    *)
THEOREM OneCredentialEver == Spec => []OneCredentialPerLogin
<1>1. Init => OneCredentialPerLogin
  BY DEF Init, OneCredentialPerLogin, Valid, Granted, CallsOf
<1> QED BY InitIInv, NextIInv, NextCredential, <1>1, PTL DEF Spec

(* RevokeAllRefreshTokens ends every login that was not in the middle of a *)
(* refresh, for good.                                                      *)
THEOREM LogoutIsFinal == Spec => []LogoutEndsLogins
<1>1. Init => EndedInv
  BY DEF Init, EndedInv
<1>2. EndedInv => LogoutEndsLogins
  BY DEF EndedInv, LogoutEndsLogins
<1> QED BY InitIInv, NextIInv, NextEnded, <1>1, <1>2, PTL DEF Spec

(* APIClient's calls do not spend each other's tokens: one that was spent  *)
(* and not replaced has an unanswered or failed call to account for it.    *)
THEOREM NeverLockedOut == Spec => []NotLockedOut
<1>1. Init => AnswerIsUnused /\ NotLockedOut
  BY NamesAssumption DEF Init, AnswerIsUnused, NotLockedOut
<1> QED BY InitIInv, NextIInv, NextUnused, NextNotLocked, <1>1, PTL DEF Spec
=============================================================================
