---------------- MODULE AuthSessions ----------------
(***************************************************************************)
(* Signing in and out of one account: auth.service.ts with the token,      *)
(* session, password, MFA and lockout services, the account updates of     *)
(* users.service.ts, and the reset that a platform operator forces. A      *)
(* request runs one operation; it is numbered by the order in which the    *)
(* requests begin, and the session, the MFA temporary token or the reset   *)
(* token it issues carries its number; number 0 is what there was before.  *)
(* Every await of the code that other requests can get between is a step   *)
(* of its own; each UPDATE and cache call is atomic.                       *)
(***************************************************************************)
EXTENDS Naturals, FiniteSets

CONSTANTS Requests,           \* 1..n
          RecoveryCodes,      \* the recovery codes of the account
          LockoutMaxAttempts, \* LOCKOUT_MAX_ATTEMPTS
          MaxTotpAttempts,    \* MfaTokenService.MAX_TOTP_ATTEMPTS
          AuthPlots           \* [kinds, mfa, legacy, faults]: operations, account, crashes and lapses

AuthKinds == {"login", "refresh", "totp", "recovery", "logout", "logoutAll", "revokeOthers", "forgot", "reset",
              "force", "verifyEmail", "deactivate", "activate", "enableMfa", "disableMfa"}

ASSUME AuthAssumption ==
  /\ IsFiniteSet(Requests) /\ Requests = 1..Cardinality(Requests)
  /\ AuthPlots \subseteq [kinds : SUBSET AuthKinds, mfa : BOOLEAN, legacy : BOOLEAN, faults : Nat]
  /\ LockoutMaxAttempts \in Nat \ {0}
  /\ MaxTotpAttempts \in Nat \ {0}

VARIABLES user,      \* the row of the users table
          sessions,  \* the refresh tokens, each with the requests its line of exchanges and logins comes from
          temps,     \* the MFA temporary tokens of the cache and their failed codes
          resets,    \* the password reset tokens
          mailToken, \* the e-mail verification token
          lockout,   \* the failed logins the cache counts
          request,   \* what every request is doing
          spent,     \* history: <<kind, id, request>> of every credential that was accepted
          together,  \* history: the pairs of requests that overlapped
          authPlot   \* the plot, and the faults left

authVars == <<user, sessions, temps, resets, mailToken, lockout, request, spent, together, authPlot>>

Issued == Requests \cup {0}
OldPassword == 0
NoSession == [state |-> "none", used |-> "no", under |-> 0, line |-> {}, holder |-> 0]
NoAttempts == [attempts |-> 0, locked |-> FALSE]
NoRow == [password |-> 0, legacy |-> FALSE, active |-> FALSE, verified |-> FALSE, mfa |-> FALSE, codes |-> {}]
Waiting == [kind |-> "none", at |-> "idle", token |-> 0, typed |-> "nothing", row |-> NoRow,
            codes |-> {}, victims |-> {}, count |-> NoAttempts, under |-> 0]

\* A password is named by the reset request that set it; 0 is the first one.
AuthInit ==
  \E plot \in AuthPlots :
    /\ authPlot = plot
    /\ user = [password |-> OldPassword, legacy |-> plot.legacy, active |-> TRUE, verified |-> FALSE,
               mfa |-> plot.mfa, codes |-> IF plot.mfa THEN RecoveryCodes ELSE {}]
    /\ sessions = [s \in Issued |-> IF s = 0 THEN [NoSession EXCEPT !.state = "valid"] ELSE NoSession]
    /\ temps = [t \in Issued |-> [state |-> IF t = 0 /\ plot.mfa THEN "live" ELSE "none", attempts |-> 0, under |-> 0]]
    /\ resets = [r \in Issued |-> IF r = 0 THEN "valid" ELSE "none"]
    /\ mailToken = "valid"
    /\ lockout = NoAttempts
    /\ request = [q \in Requests |-> Waiting]
    /\ spent = {}
    /\ together = {}

Running(q) == request[q].at \notin {"idle", "done"}
At(q, step) == request[q].at = step
Goes(q, step) == request' = [request EXCEPT ![q].at = step]
Spends(kind, id, q) == spent' = spent \cup {<<kind, id, q>>}

FirstStep(kind) ==
  CASE kind = "login" -> "lockout"
    [] kind = "refresh" -> "lock"
    [] kind \in {"totp", "recovery"} -> "temp"
    [] kind \in {"logout", "logoutAll", "revokeOthers"} -> "sweep"
    [] kind = "forgot" -> "void"
    [] kind = "reset" -> "claim"
    [] kind = "force" -> "password"
    [] kind = "verifyEmail" -> "mail"
    [] kind \in {"deactivate", "activate"} -> "row"
    [] kind = "enableMfa" -> "enable"
    [] kind = "disableMfa" -> "disable"

\* What a client can present: tokens issued so far, and what it types.
TokensFor(kind) ==
  CASE kind \in {"refresh", "logout", "revokeOthers"} -> {s \in Issued : sessions[s].state # "none"}
    [] kind \in {"totp", "recovery"} -> {t \in Issued : temps[t].state # "none"}
    [] kind = "reset" -> {r \in Issued : resets[r] # "none"}
    [] OTHER -> {0}

TypedFor(kind) ==
  CASE kind = "login" -> {"first password", "latest password", "wrong"}
    [] kind = "totp" -> {"right", "wrong"}
    [] kind = "recovery" -> RecoveryCodes
    [] kind = "verifyEmail" -> {"signed in", "signed out"}
    [] kind = "force" -> {"notify", "silent"}
    [] OTHER -> {"nothing"}

Begin(q) ==
  /\ At(q, "idle")
  /\ \A r \in Requests : r < q => ~At(r, "idle")
  /\ \E kind \in authPlot.kinds : \E token \in TokensFor(kind), typed \in TypedFor(kind) :
       request' = [request EXCEPT ![q] = [Waiting EXCEPT !.kind = kind, !.at = FirstStep(kind),
                                                         !.token = token, !.typed = typed]]
  /\ together' = together \cup {{q, r} : r \in {x \in Requests : Running(x)}}
  /\ UNCHANGED <<user, sessions, temps, resets, mailToken, lockout, spent, authPlot>>

(* --- login --- *)

CheckLockout(q) ==
  /\ At(q, "lockout")
  /\ Goes(q, IF lockout.locked THEN "done" ELSE "load")
  /\ UNCHANGED <<user, sessions, temps, resets, mailToken, lockout, spent, together, authPlot>>

\* Nobody knows the password of a forced reset.
PasswordMatches(typed) ==
  \/ typed = "first password" /\ user.password = OldPassword
  \/ typed = "latest password" /\ \A q \in Requests : q = user.password => request[q].kind = "reset"

AfterPassword(row) == IF row.mfa THEN "issue" ELSE "clear"

\* The user is read once; the password is verified against that row.
LoadUser(q) ==
  /\ At(q, "load")
  /\ request' = [request EXCEPT ![q].at =
                   CASE ~user.active -> "done"
                     [] user.active /\ ~PasswordMatches(request[q].typed) -> "miss"
                     [] user.active /\ PasswordMatches(request[q].typed) ->
                          IF user.legacy THEN "upgrade" ELSE AfterPassword(user),
                   ![q].row = user, ![q].under = user.password]
  /\ UNCHANGED <<user, sessions, temps, resets, mailToken, lockout, spent, together, authPlot>>

\* validatePassword replaces a bcrypt hash by an Argon2id hash of the same password.
UpgradeHash(q) ==
  /\ At(q, "upgrade")
  /\ user' = [user EXCEPT !.password = request[q].row.password, !.legacy = FALSE]
  /\ Goes(q, AfterPassword(request[q].row))
  /\ UNCHANGED <<sessions, temps, resets, mailToken, lockout, spent, together, authPlot>>

IssueTempToken(q) ==
  /\ At(q, "issue")
  /\ temps' = [temps EXCEPT ![q] = [state |-> "live", attempts |-> 0, under |-> request[q].under]]
  /\ Goes(q, "done")
  /\ UNCHANGED <<user, sessions, resets, mailToken, lockout, spent, together, authPlot>>

ClearAttempts(q) ==
  /\ At(q, "clear")
  /\ lockout' = NoAttempts
  /\ Spends("login", 0, q)
  /\ Goes(q, "store")
  /\ UNCHANGED <<user, sessions, temps, resets, mailToken, together, authPlot>>

LineOf(q) ==
  {q} \cup CASE request[q].kind = "refresh" -> sessions[request[q].token].line
              [] request[q].kind \in {"totp", "recovery"} -> {request[q].token} \ {0}
              [] OTHER -> {}

\* storeRefreshToken, on a connection of its own.
StoreSession(q) ==
  /\ At(q, "store")
  /\ sessions' = [sessions EXCEPT ![q] = [NoSession EXCEPT !.state = "valid", !.under = request[q].under,
                                                           !.line = LineOf(q)]]
  /\ Goes(q, IF request[q].kind = "refresh" THEN "commit" ELSE "done")
  /\ UNCHANGED <<user, temps, resets, mailToken, lockout, spent, together, authPlot>>

\* recordFailedAttempt reads the count and writes it back.
ReadAttempts(q) ==
  /\ At(q, "miss")
  /\ request' = [request EXCEPT ![q].at = "count", ![q].count = lockout]
  /\ UNCHANGED <<user, sessions, temps, resets, mailToken, lockout, spent, together, authPlot>>

Counted(info) ==
  [attempts |-> info.attempts + 1, locked |-> info.locked \/ info.attempts + 1 >= LockoutMaxAttempts]

CountAttempt(q) ==
  /\ At(q, "count")
  /\ lockout' = Counted(request[q].count)
  /\ Spends("miss", 0, q)
  /\ Goes(q, "done")
  /\ UNCHANGED <<user, sessions, temps, resets, mailToken, together, authPlot>>

(* --- the second factor --- *)

ReadTempToken(q) ==
  LET t == request[q].token IN
  /\ At(q, "temp")
  /\ request' = [request EXCEPT ![q].at = IF temps[t].state = "live" THEN "verify" ELSE "done",
                                ![q].under = temps[t].under]
  /\ UNCHANGED <<user, sessions, temps, resets, mailToken, lockout, spent, together, authPlot>>

(* A TOTP code is checked against the secret, a recovery code against the  *)
(* list read.  disableMfa writes `secret ?? undefined`, which leaves the    *)
(* secret in the row, and verifyMfaTotp asks for the secret alone: a token *)
(* issued while MFA was on is answered after it was switched off.          *)
VerifyCode(q) ==
  LET typed == request[q].typed IN
  /\ At(q, "verify")
  /\ IF request[q].kind = "totp"
       THEN Goes(q, IF typed = "right" THEN "consume" ELSE "wrong code")
       ELSE request' = [request EXCEPT ![q].at = IF typed \in user.codes THEN "burn" ELSE "wrong code",
                                      ![q].codes = user.codes]
  /\ UNCHANGED <<user, sessions, temps, resets, mailToken, lockout, spent, together, authPlot>>

RemainingCodes(codes, code) == codes \ {code}

BurnCode(q) ==
  /\ At(q, "burn")
  /\ user' = [user EXCEPT !.codes = RemainingCodes(request[q].codes, request[q].typed)]
  /\ Spends("code", request[q].typed, q)
  /\ Goes(q, "consume")
  /\ UNCHANGED <<sessions, temps, resets, mailToken, lockout, together, authPlot>>

\* The increment is atomic; a token with too many wrong codes is deleted next.
CountWrongCode(q) ==
  LET t == request[q].token IN
  /\ At(q, "wrong code")
  /\ temps' = [temps EXCEPT ![t].attempts = @ + 1]
  /\ Spends("wrong code", t, q)
  /\ Goes(q, IF temps[t].attempts + 1 >= MaxTotpAttempts THEN "invalidate" ELSE "miss")
  /\ UNCHANGED <<user, sessions, resets, mailToken, lockout, together, authPlot>>

\* consumeTempToken deletes the token and its count of wrong codes.
Consumed(temp) == [temp EXCEPT !.state = "gone", !.attempts = 0]

InvalidateTempToken(q) ==
  /\ At(q, "invalidate")
  /\ temps' = [temps EXCEPT ![request[q].token] = Consumed(@)]
  /\ Goes(q, "miss")
  /\ UNCHANGED <<user, sessions, resets, mailToken, lockout, spent, together, authPlot>>

ConsumeTempToken(q) ==
  /\ At(q, "consume")
  /\ temps' = [temps EXCEPT ![request[q].token] = Consumed(@)]
  /\ Spends("temp", request[q].token, q)
  /\ Goes(q, "clear")
  /\ UNCHANGED <<user, sessions, resets, mailToken, lockout, together, authPlot>>

(* enableMfa switches MFA on, then writes new recovery codes; disableMfa   *)
(* switches it off, then empties the list.  The secret is there since MFA  *)
(* was set up and stays; a new secret (generateMfaSecret) is not modelled. *)
SwitchMfa(q) ==
  /\ At(q, "enable") \/ At(q, "disable")
  /\ user' = [user EXCEPT !.mfa = At(q, "enable")]
  /\ Goes(q, "codes")
  /\ UNCHANGED <<sessions, temps, resets, mailToken, lockout, spent, together, authPlot>>

WriteCodes(q) ==
  /\ At(q, "codes")
  /\ user' = [user EXCEPT !.codes = IF request[q].kind = "enableMfa" THEN RecoveryCodes ELSE {}]
  /\ Goes(q, "done")
  /\ UNCHANGED <<sessions, temps, resets, mailToken, lockout, spent, together, authPlot>>

(* --- refresh: one transaction that locks the row of the token --- *)

MayExchange(s) == sessions[s].state = "valid" /\ sessions[s].holder = 0

(* A revoked token is answered within the grace time after its use, and    *)
(* refused after it. (The revocation of all tokens that such a refusal     *)
(* writes is in the same transaction as the exception that follows, and is *)
(* rolled back with it.)                                                   *)
LockToken(q) ==
  LET s == request[q].token IN
  /\ At(q, "lock")
  /\ MayExchange(s) \/ sessions[s].holder = 0
  /\ LET accepted == user.active /\ MayExchange(s)
         grace    == user.active /\ sessions[s].state = "revoked" /\ sessions[s].used = "grace"
     IN
     /\ request' = [request EXCEPT ![q].at = IF accepted \/ grace THEN "store" ELSE "done",
                                   ![q].typed = IF accepted THEN "exchange" ELSE "grace",
                                   ![q].under = sessions[s].under]
     /\ sessions' = IF accepted \/ grace THEN [sessions EXCEPT ![s].holder = q] ELSE sessions
  /\ UNCHANGED <<user, temps, resets, mailToken, lockout, spent, together, authPlot>>

CommitRefresh(q) ==
  LET s == request[q].token IN
  /\ At(q, "commit")
  /\ IF request[q].typed = "exchange"
       THEN /\ sessions' = [sessions EXCEPT ![s] = [@ EXCEPT !.state = "revoked", !.used = "grace", !.holder = 0]]
            /\ Spends("session", s, q)
       ELSE /\ sessions' = [sessions EXCEPT ![s].holder = 0]
            /\ UNCHANGED spent
  /\ Goes(q, "done")
  /\ UNCHANGED <<user, temps, resets, mailToken, lockout, together, authPlot>>

GraceEnds(s) ==
  /\ sessions[s].used = "grace"
  /\ sessions' = [sessions EXCEPT ![s].used = "old"]
  /\ UNCHANGED <<user, temps, resets, mailToken, lockout, request, spent, together, authPlot>>

\* A refresh token expires; cleanupExpiredTokens deletes it.
ExpireSession(s) ==
  /\ authPlot.faults > 0
  /\ sessions[s].state \in {"valid", "revoked"}
  /\ sessions[s].holder = 0
  /\ sessions' = [sessions EXCEPT ![s].state = "expired"]
  /\ authPlot' = [authPlot EXCEPT !.faults = @ - 1]
  /\ UNCHANGED <<user, temps, resets, mailToken, lockout, request, spent, together>>

(* --- revoking: one UPDATE of the rows that match when it starts; it waits *)
(* for the rows a refresh has locked                                        *)

\* A plausible slip: revoking all sessions takes only the first one.
VictimsFirst(q) == {s \in Issued : sessions[s].state = "valid" /\ s = 0}

Victims(q) ==
  LET valid == {s \in Issued : sessions[s].state = "valid"} IN
  CASE request[q].kind = "logout" -> valid \cap {request[q].token}
    [] request[q].kind = "revokeOthers" -> valid \ {request[q].token}
    [] OTHER -> valid

StartRevoke(q) ==
  /\ At(q, "sweep")
  /\ request' = [request EXCEPT ![q].at = "sweeping", ![q].victims = Victims(q)]
  /\ UNCHANGED <<user, sessions, temps, resets, mailToken, lockout, spent, together, authPlot>>

FinishRevoke(q) ==
  /\ At(q, "sweeping")
  /\ \A s \in request[q].victims : sessions[s].holder = 0
  /\ sessions' = [s \in Issued |-> IF s \in request[q].victims /\ sessions[s].state = "valid"
                                     THEN [sessions[s] EXCEPT !.state = "revoked"]
                                     ELSE sessions[s]]
  /\ Goes(q, IF request[q].typed = "notify" THEN "void" ELSE "done")
  /\ UNCHANGED <<user, temps, resets, mailToken, lockout, spent, together, authPlot>>

(* --- forgotten passwords --- *)

VoidResets(q) ==
  /\ At(q, "void")
  /\ resets' = [r \in Issued |-> IF resets[r] = "valid" THEN "used" ELSE resets[r]]
  /\ Goes(q, "offer")
  /\ UNCHANGED <<user, sessions, temps, mailToken, lockout, spent, together, authPlot>>

OfferReset(q) ==
  /\ At(q, "offer")
  /\ resets' = [resets EXCEPT ![q] = "valid"]
  /\ Goes(q, "done")
  /\ UNCHANGED <<user, sessions, temps, mailToken, lockout, spent, together, authPlot>>

ClaimReset(q) ==
  /\ At(q, "claim")
  /\ Goes(q, IF resets[request[q].token] = "valid" THEN "password" ELSE "done")
  /\ UNCHANGED <<user, sessions, temps, resets, mailToken, lockout, spent, together, authPlot>>

(* resetPassword goes on to use up its token; the reset that a platform    *)
(* operator forces revokes the sessions and then, unless it is silent,     *)
(* sends a link as if the password had been forgotten.                     *)
SetPassword(q) ==
  /\ At(q, "password")
  /\ user' = [user EXCEPT !.password = q, !.legacy = FALSE]
  /\ Goes(q, IF request[q].kind = "reset" THEN "mark" ELSE "sweep")
  /\ UNCHANGED <<sessions, temps, resets, mailToken, lockout, spent, together, authPlot>>

MarkReset(q) ==
  /\ At(q, "mark")
  /\ resets' = [resets EXCEPT ![request[q].token] = "used"]
  /\ Spends("reset", request[q].token, q)
  /\ Goes(q, "sweep")
  /\ UNCHANGED <<user, sessions, temps, mailToken, lockout, together, authPlot>>

(* --- changes of the account --- *)

\* verifyEmail looks for an unused token, and saves it as used before it updates the user.
ReadMailToken(q) ==
  /\ At(q, "mail")
  /\ Goes(q, IF mailToken = "valid" THEN "use" ELSE "done")
  /\ UNCHANGED <<user, sessions, temps, resets, mailToken, lockout, spent, together, authPlot>>

UseMailToken(q) ==
  /\ At(q, "use")
  /\ mailToken' = "used"
  /\ Goes(q, "row")
  /\ UNCHANGED <<user, sessions, temps, resets, lockout, spent, together, authPlot>>

(* UsersService.update loads the row; without a signed-in tenant, as when  *)
(* the link of the mail is opened elsewhere, the tenant-scoped repository  *)
(* refuses.                                                                *)
LoadRow(q) ==
  /\ At(q, "row")
  /\ request' = [request EXCEPT ![q].at = IF request[q].typed = "signed out" THEN "done" ELSE "save",
                                ![q].row = user]
  /\ UNCHANGED <<user, sessions, temps, resets, mailToken, lockout, spent, together, authPlot>>

\* A plausible slip: emailVerified is not among the fields copied.
SavedRowUnverified(row, kind) ==
  [row EXCEPT !.codes = user.codes, !.active = IF kind \in {"activate", "deactivate"} THEN kind = "activate" ELSE @]

\* It then saves the columns it loaded, with the change; the codes are not loaded.
SavedRow(row, kind) ==
  [row EXCEPT !.codes = user.codes, !.verified = @ \/ kind = "verifyEmail",
              !.active = IF kind \in {"activate", "deactivate"} THEN kind = "activate" ELSE @]

\* UserDeactivatedHandler revokes all sessions.
SaveRow(q) ==
  LET row == request[q].row
      saved == SavedRow(row, request[q].kind)
  IN
  /\ At(q, "save")
  /\ user' = saved
  /\ Goes(q, IF row.active /\ ~saved.active THEN "sweep" ELSE "done")
  /\ UNCHANGED <<sessions, temps, resets, mailToken, lockout, spent, together, authPlot>>

(* --- faults --- *)

\* The process dies within a request; PostgreSQL rolls back and lets the row go.
CrashRequest(q) ==
  /\ Running(q)
  /\ ~At(q, "crashed")
  /\ authPlot.faults > 0
  /\ Goes(q, "crashed")
  /\ sessions' = [s \in Issued |-> IF sessions[s].holder = q THEN [sessions[s] EXCEPT !.holder = 0] ELSE sessions[s]]
  /\ authPlot' = [authPlot EXCEPT !.faults = @ - 1]
  /\ UNCHANGED <<user, temps, resets, mailToken, lockout, spent, together>>

AuthNext ==
  \/ \E q \in Requests :
       \/ Begin(q) \/ CheckLockout(q) \/ LoadUser(q) \/ UpgradeHash(q) \/ IssueTempToken(q)
       \/ ClearAttempts(q) \/ StoreSession(q) \/ ReadAttempts(q) \/ CountAttempt(q)
       \/ ReadTempToken(q) \/ VerifyCode(q) \/ BurnCode(q) \/ CountWrongCode(q)
       \/ InvalidateTempToken(q) \/ ConsumeTempToken(q) \/ SwitchMfa(q) \/ WriteCodes(q)
       \/ LockToken(q) \/ CommitRefresh(q) \/ StartRevoke(q) \/ FinishRevoke(q)
       \/ VoidResets(q) \/ OfferReset(q) \/ ClaimReset(q) \/ SetPassword(q) \/ MarkReset(q)
       \/ ReadMailToken(q) \/ UseMailToken(q) \/ LoadRow(q) \/ SaveRow(q) \/ CrashRequest(q)
  \/ \E s \in Issued : GraceEnds(s) \/ ExpireSession(s)

AuthSpec == AuthInit /\ [][AuthNext]_authVars

(* The rows, the cache entries and the histories have the values the code  *)
(* can write.                                                              *)
AuthTypeOK ==
  /\ user.password \in Issued /\ user.codes \subseteq RecoveryCodes
  /\ {user.legacy, user.active, user.verified, user.mfa} \subseteq BOOLEAN
  /\ \A s \in Issued :
       /\ sessions[s].state \in {"none", "valid", "revoked", "expired"}
       /\ sessions[s].used \in {"no", "grace", "old"}
       /\ {sessions[s].under, sessions[s].holder} \subseteq Issued /\ sessions[s].line \subseteq Requests
       /\ temps[s].state \in {"none", "live", "gone"} /\ temps[s].attempts \in 0..Cardinality(Requests)
       /\ resets[s] \in {"none", "valid", "used"}
  /\ lockout.attempts \in 0..Cardinality(Requests) /\ lockout.locked \in BOOLEAN
  /\ together \subseteq SUBSET Requests

Of(kind) == {q \in Requests : request[q].kind = kind}
Overlapped(q, r) == {q, r} \in together
PasswordSetters == Of("reset") \cup Of("force")
AccountWriters == Of("login") \cup Of("verifyEmail") \cup Of("activate") \cup Of("deactivate")

\* Some writer of the whole row overlapped one that changed a part of it.
LostAccountChange(changers) == \E c \in changers, w \in AccountWriters : Overlapped(c, w)

(* A second factor completes a login that gave its password before: the    *)
(* temporary token it presents is not taken back by what r changes.        *)
BeganBefore(q, r) == request[q].kind \in {"totp", "recovery"} /\ request[q].token < r

(* Resetting a password, oneself or by an operator, ends the sessions that *)
(* were opened with the old one. A session that outlives it was stored by  *)
(* a request that overlapped the reset (the UPDATE does not see it), or by *)
(* the second factor of a login that began before it, comes from a token   *)
(* used again within its grace time, the reset has not ended or its        *)
(* process died, or another request wrote the old hash back.               *)
SessionsFollowPassword ==
  \A s \in Issued : (sessions[s].state = "valid" /\ sessions[s].under # user.password) =>
    \/ \E r \in PasswordSetters :
         ~At(r, "done") \/ \E q \in sessions[s].line : Overlapped(r, q) \/ BeganBefore(q, r)
    \/ \E q \in sessions[s].line : request[q].typed = "grace"
    \/ LostAccountChange(PasswordSetters)

(* A deactivated account has no session, but for those of requests that    *)
(* overlapped the deactivation and of second factors of logins that began  *)
(* before it; unless the row was saved from an older copy.                 *)
DeactivationEndsSessions ==
  \A s \in Issued : (sessions[s].state = "valid" /\ ~user.active) =>
    \/ \E d \in Of("deactivate") :
         ~At(d, "done") \/ \E q \in sessions[s].line : Overlapped(d, q) \/ BeganBefore(q, d)
    \/ LostAccountChange(Of("activate"))
    \/ \E v, w \in Of("verifyEmail") : Overlapped(v, w)

SessionsEndWithTheAccount == SessionsFollowPassword /\ DeactivationEndsSessions

(* A temporary token, a reset token or a recovery code is accepted once,   *)
(* unless two requests that present it overlap - for a recovery code, also *)
(* when the list was written by one that overlapped its use. A refresh     *)
(* token is exchanged once, however its requests overlap.                  *)
SpentOnce ==
  \A a \in spent, b \in spent :
    (a[1] \in {"temp", "reset", "code", "session"} /\ a[1] = b[1] /\ a[2] = b[2] /\ a[3] < b[3]) =>
      /\ a[1] # "session"
      /\ \/ Overlapped(a[3], b[3])
         \/ a[1] = "code" /\ \E r \in Of("recovery") \cup Of("enableMfa") : r \notin {a[3], b[3]} /\
              (Overlapped(a[3], r) \/ request[r].kind = "enableMfa")

(* MAX_TOTP_ATTEMPTS wrong codes close a temporary token: no request that  *)
(* began after they were answered gets in with it.                         *)
WrongCodesCloseTheToken ==
  \A a \in spent : a[1] = "temp" =>
    Cardinality({m \in Requests : m < a[3] /\ At(m, "done") /\ ~Overlapped(m, a[3])
                                  /\ <<"wrong code", a[2], m>> \in spent}) < MaxTotpAttempts

(* Two links that both reset the password were offered by requests that    *)
(* overlapped: the link of a forgotten or forced reset voids all others.   *)
LatestLinkOnly ==
  \A r \in Issued, q \in Requests :
    (r < q /\ resets[r] = "valid" /\ resets[q] = "valid") => Overlapped(r, q)

CredentialsAreSpentOnce == SpentOnce /\ WrongCodesCloseTheToken

(* A used verification link has verified the address, unless its request   *)
(* is still running, died, came without a signed-in tenant, or lost its    *)
(* write to an overlapping one.                                            *)
UsedLinkVerifies ==
  mailToken = "used" =>
    \/ user.verified
    \/ \E v \in Of("verifyEmail") : ~At(v, "done") \/ request[v].typed = "signed out"
    \/ LostAccountChange(Of("verifyEmail"))

\* The failures since the last success that ran alone.
FailuresCounted ==
  LET alone == {q \in Requests : <<"login", 0, q>> \in spent /\ \A r \in Requests : ~Overlapped(q, r)}
  IN  {m \in Requests : <<"miss", 0, m>> \in spent /\ \A c \in alone : c < m}

(* The lockout never counts more failures than there were since the last   *)
(* success that ran alone, and exactly as many when no two requests ran at *)
(* once: overlapping ones read the count and write it back.                *)
LockoutCounts ==
  /\ lockout.attempts <= Cardinality(FailuresCounted)
  /\ together = {} => lockout.attempts = Cardinality(FailuresCounted)

============================================================
