-------------------------- MODULE AuthSessionsProofs --------------------------
(***************************************************************************)
(* For any number of requests of all kinds, recovery codes and faults: the *)
(* sessions of AuthSessions end with the password and the account, a       *)
(* credential is spent once unless two requests overlapped, the latest     *)
(* reset link alone works, a used verification link verifies, and failed   *)
(* logins are counted.                                                     *)
(***************************************************************************)
EXTENDS AuthSessions, FiniteSetTheorems, TLAPS

(* The types of the rows, the cache entries and the requests. *)
AuthSteps == {"idle", "done", "crashed", "lockout", "load", "miss", "count", "upgrade", "issue", "clear", "store",
              "lock", "commit", "temp", "verify", "wrong code", "invalidate", "burn", "consume", "sweep", "sweeping",
              "void", "offer", "claim", "password", "mark", "mail", "use", "row", "save", "enable", "disable", "codes"}

TypedValues == {"first password", "latest password", "right", "wrong", "signed in", "signed out", "notify", "silent",
                "nothing", "exchange", "grace"} \cup RecoveryCodes

UserRow == [password : Issued, legacy : BOOLEAN, active : BOOLEAN, verified : BOOLEAN, mfa : BOOLEAN,
            codes : SUBSET RecoveryCodes]
SessionRow == [state : {"none", "valid", "revoked", "expired"}, used : {"no", "grace", "old"}, under : Issued,
               line : SUBSET Requests, holder : Issued]
TempRow == [state : {"none", "live", "gone"}, attempts : Nat, under : Issued]
Failures == [attempts : Nat, locked : BOOLEAN]
RequestRow == [kind : AuthKinds \cup {"none"}, at : AuthSteps, token : Issued, typed : TypedValues, row : UserRow,
               codes : SUBSET RecoveryCodes, victims : SUBSET Issued, count : Failures, under : Issued]

AccountTyped ==
  /\ user \in UserRow
  /\ sessions \in [Issued -> SessionRow]
  /\ temps \in [Issued -> TempRow]
  /\ lockout \in Failures
  /\ request \in [Requests -> RequestRow]
  /\ authPlot \in [kinds : SUBSET AuthKinds, mfa : BOOLEAN, legacy : BOOLEAN, faults : Nat]

(* Requests are numbered from 1; 0 is what there was before them. *)
LEMMA RequestsNumbered == \A q \in Requests : q \in Nat /\ q > 0 /\ q \in Issued
<1>1. Cardinality(Requests) \in Nat
  BY AuthAssumption, FS_CardinalityType
<1> QED BY <1>1, AuthAssumption DEF Issued

LEMMA IssuedNumbered == \A t \in Issued : t \in Nat /\ (t \in Requests \/ t = 0)
BY RequestsNumbered DEF Issued

LEMMA FirstTyped == NoSession \in SessionRow /\ NoAttempts \in Failures /\ NoRow \in UserRow /\ Waiting \in RequestRow
<1>1. 0 \in Issued
  BY DEF Issued
<1>2. NoSession \in SessionRow /\ NoAttempts \in Failures /\ NoRow \in UserRow
  BY <1>1 DEF NoSession, SessionRow, NoAttempts, Failures, NoRow, UserRow
<1> QED BY <1>1, <1>2 DEF Waiting, RequestRow, AuthSteps, TypedValues

LEMMA AccountTypedFirst == AuthInit => AccountTyped
<1> SUFFICES ASSUME AuthInit PROVE AccountTyped
  OBVIOUS
<1>1. PICK plot \in AuthPlots :
        /\ authPlot = plot
        /\ user = [password |-> OldPassword, legacy |-> plot.legacy, active |-> TRUE, verified |-> FALSE,
                   mfa |-> plot.mfa, codes |-> IF plot.mfa THEN RecoveryCodes ELSE {}]
        /\ sessions = [s \in Issued |-> IF s = 0 THEN [NoSession EXCEPT !.state = "valid"] ELSE NoSession]
        /\ temps = [t \in Issued |-> [state |-> IF t = 0 /\ plot.mfa THEN "live" ELSE "none", attempts |-> 0, under |-> 0]]
  BY DEF AuthInit
<1>2. 0 \in Issued /\ OldPassword \in Issued
  BY DEF Issued, OldPassword
<1>3. plot \in [kinds : SUBSET AuthKinds, mfa : BOOLEAN, legacy : BOOLEAN, faults : Nat]
  BY AuthAssumption
<1>4. user \in UserRow
  BY <1>1, <1>2, <1>3 DEF UserRow
<1>5. sessions \in [Issued -> SessionRow]
  BY <1>1, <1>2, FirstTyped DEF SessionRow
<1>6. temps \in [Issued -> TempRow]
  BY <1>1, <1>2 DEF TempRow
<1>7. lockout \in Failures /\ request \in [Requests -> RequestRow]
  BY FirstTyped DEF AuthInit
<1> QED BY <1>1, <1>3, <1>4, <1>5, <1>6, <1>7 DEF AccountTyped

(* One request moves. *)
LEMMA RequestTyped ==
  ASSUME AccountTyped, NEW q \in Requests, NEW new \in RequestRow, request' = [request EXCEPT ![q] = new]
  PROVE  request' \in [Requests -> RequestRow]
BY DEF AccountTyped

(* One request goes to another step of its. *)
LEMMA GoesTyped ==
  ASSUME AccountTyped, NEW q \in Requests, NEW step \in AuthSteps, Goes(q, step)
  PROVE  /\ request' \in [Requests -> RequestRow]
         /\ request'[q] = [request[q] EXCEPT !.at = step]
         /\ \A r \in Requests : r # q => request'[r] = request[r]
<1>1. request[q] \in RequestRow
  BY DEF AccountTyped
<1>2. [request[q] EXCEPT !.at = step] \in RequestRow
  BY <1>1 DEF RequestRow
<1> QED BY <1>2 DEF Goes, AccountTyped
(* A request moves, and the rows keep their types. *)
LEMMA AccountTypedStep == AccountTyped /\ [AuthNext]_authVars => AccountTyped'
<1> SUFFICES ASSUME AccountTyped, [AuthNext]_authVars PROVE AccountTyped'
  OBVIOUS
<1> USE RequestsNumbered
<1>a. \A q \in Requests : request[q] \in RequestRow
  BY DEF AccountTyped
<1>b. \A s \in Issued : sessions[s] \in SessionRow /\ temps[s] \in TempRow
  BY DEF AccountTyped
<1>1. ASSUME NEW q \in Requests, Begin(q) PROVE AccountTyped'
  <2>1. PICK kind \in authPlot.kinds : \E token \in TokensFor(kind), typed \in TypedFor(kind) :
          request' = [request EXCEPT ![q] = [Waiting EXCEPT !.kind = kind, !.at = FirstStep(kind),
                                                            !.token = token, !.typed = typed]]
    BY <1>1 DEF Begin
  <2>2. PICK token \in TokensFor(kind), typed \in TypedFor(kind) :
          request' = [request EXCEPT ![q] = [Waiting EXCEPT !.kind = kind, !.at = FirstStep(kind),
                                                            !.token = token, !.typed = typed]]
    BY <2>1
  <2>3. kind \in AuthKinds
    BY DEF AccountTyped
  <2>4. FirstStep(kind) \in AuthSteps
    BY <2>3 DEF AuthKinds, FirstStep, AuthSteps
  <2>5. token \in Issued
    BY <2>3 DEF AuthKinds, TokensFor, Issued
  <2>6. typed \in TypedValues
    BY <2>3 DEF AuthKinds, TypedFor, TypedValues
  <2>7. [Waiting EXCEPT !.kind = kind, !.at = FirstStep(kind), !.token = token, !.typed = typed] \in RequestRow
    BY <2>3, <2>4, <2>5, <2>6, FirstTyped DEF RequestRow
  <2>8. request' \in [Requests -> RequestRow]
    BY <2>2, <2>7, RequestTyped
  <2> QED BY <2>8, <1>1 DEF Begin, AccountTyped
<1>2. ASSUME NEW q \in Requests, CheckLockout(q) \/ VerifyCode(q) PROVE AccountTyped'
  <2>1. user.codes \in SUBSET RecoveryCodes
    BY DEF AccountTyped, UserRow
  <2>2. request' \in [Requests -> RequestRow]
    <3>1. CASE CheckLockout(q)
      BY <3>1, GoesTyped DEF CheckLockout, AuthSteps
    <3>2. CASE VerifyCode(q) /\ request[q].kind = "totp"
      BY <3>2, GoesTyped DEF VerifyCode, AuthSteps
    <3>3. CASE VerifyCode(q) /\ request[q].kind # "totp"
      <4>1. PICK at \in AuthSteps : request' = [request EXCEPT ![q].at = at, ![q].codes = user.codes]
        BY <3>3 DEF VerifyCode, AuthSteps
      <4>2. [request[q] EXCEPT !.at = at, !.codes = user.codes] \in RequestRow
        BY <1>a, <2>1 DEF RequestRow
      <4>3. request' = [request EXCEPT ![q] = [request[q] EXCEPT !.at = at, !.codes = user.codes]]
        BY <4>1 DEF AccountTyped
      <4> QED BY <4>2, <4>3, RequestTyped
    <3> QED BY <1>2, <3>1, <3>2, <3>3
  <2> QED BY <2>2, <1>2 DEF CheckLockout, VerifyCode, AccountTyped
<1>3. ASSUME NEW q \in Requests, LoadUser(q) PROVE AccountTyped'
  <2>1. user \in UserRow /\ user.password \in Issued
    BY DEF AccountTyped, UserRow
  <2>2. PICK at \in AuthSteps :
          request' = [request EXCEPT ![q].at = at, ![q].row = user, ![q].under = user.password]
    <3>1. user.active \in BOOLEAN /\ user.legacy \in BOOLEAN /\ user.mfa \in BOOLEAN
      BY <2>1 DEF UserRow
    <3>2. AfterPassword(user) \in AuthSteps
      BY <3>1 DEF AfterPassword, AuthSteps
    <3> DEFINE step == CASE ~user.active -> "done"
                         [] user.active /\ ~PasswordMatches(request[q].typed) -> "miss"
                         [] user.active /\ PasswordMatches(request[q].typed) ->
                              IF user.legacy THEN "upgrade" ELSE AfterPassword(user)
    <3>3. step \in AuthSteps
      BY <3>1, <3>2 DEF AuthSteps
    <3> QED BY <3>3, <1>3 DEF LoadUser
  <2>3. [request[q] EXCEPT !.at = at, !.row = user, !.under = user.password] \in RequestRow
    BY <1>a, <2>1 DEF RequestRow
  <2>4. request' = [request EXCEPT ![q] = [request[q] EXCEPT !.at = at, !.row = user, !.under = user.password]]
    BY <2>2 DEF AccountTyped
  <2>5. request' \in [Requests -> RequestRow]
    BY <2>3, <2>4, RequestTyped
  <2> QED BY <2>5, <1>3 DEF LoadUser, AccountTyped
<1>4. ASSUME NEW q \in Requests, UpgradeHash(q) PROVE AccountTyped'
  <2>1. request[q].row \in UserRow
    BY <1>a DEF RequestRow
  <2>2. user' \in UserRow
    BY <2>1, <1>4 DEF UpgradeHash, UserRow, AccountTyped
  <2>3. AfterPassword(request[q].row) \in AuthSteps
    BY <2>1 DEF AfterPassword, UserRow, AuthSteps
  <2>4. request' \in [Requests -> RequestRow]
    BY <2>3, <1>4, GoesTyped DEF UpgradeHash
  <2> QED BY <2>2, <2>4, <1>4 DEF UpgradeHash, AccountTyped
<1>5. ASSUME NEW q \in Requests, IssueTempToken(q) PROVE AccountTyped'
  <2>1. request[q].under \in Issued
    BY <1>a DEF RequestRow
  <2>2. temps' \in [Issued -> TempRow]
    BY <2>1, <1>5 DEF IssueTempToken, TempRow, AccountTyped
  <2>3. request' \in [Requests -> RequestRow]
    BY <1>5, GoesTyped DEF IssueTempToken, AuthSteps
  <2> QED BY <2>2, <2>3, <1>5 DEF IssueTempToken, AccountTyped
<1>6. ASSUME NEW q \in Requests, ClearAttempts(q) PROVE AccountTyped'
  <2>1. request' \in [Requests -> RequestRow]
    BY <1>6, GoesTyped DEF ClearAttempts, AuthSteps
  <2> QED BY <2>1, <1>6, FirstTyped DEF ClearAttempts, AccountTyped
<1>7. ASSUME NEW q \in Requests, StoreSession(q) PROVE AccountTyped'
  <2>1. request[q].under \in Issued /\ request[q].token \in Issued
    BY <1>a DEF RequestRow
  <2>2. LineOf(q) \in SUBSET Requests
    <3>1. request[q].kind = "refresh" => sessions[request[q].token].line \subseteq Requests
      BY <1>b, <2>1 DEF SessionRow
    <3>2. request[q].token # 0 => request[q].token \in Requests
      BY <2>1, IssuedNumbered
    <3> QED BY <3>1, <3>2 DEF LineOf
  <2>3. [NoSession EXCEPT !.state = "valid", !.under = request[q].under, !.line = LineOf(q)] \in SessionRow
    BY <2>1, <2>2, FirstTyped DEF SessionRow
  <2>4. sessions' \in [Issued -> SessionRow]
    BY <2>3, <1>7 DEF StoreSession, AccountTyped
  <2>5. request' \in [Requests -> RequestRow]
    BY <1>7, GoesTyped DEF StoreSession, AuthSteps
  <2> QED BY <2>4, <2>5, <1>7 DEF StoreSession, AccountTyped
<1>8. ASSUME NEW q \in Requests, ReadAttempts(q) \/ CountAttempt(q) PROVE AccountTyped'
  <2>1. CASE ReadAttempts(q)
    <3>1. [request[q] EXCEPT !.at = "count", !.count = lockout] \in RequestRow
      <4>1. lockout \in Failures /\ "count" \in AuthSteps
        BY DEF AccountTyped, AuthSteps
      <4> QED BY <1>a, <4>1 DEF RequestRow
    <3>2. request' = [request EXCEPT ![q] = [request[q] EXCEPT !.at = "count", !.count = lockout]]
      BY <2>1 DEF ReadAttempts, AccountTyped
    <3>3. request' \in [Requests -> RequestRow]
      BY <3>1, <3>2, RequestTyped
    <3> QED BY <3>3, <2>1 DEF ReadAttempts, AccountTyped
  <2>2. CASE CountAttempt(q)
    <3>1. request' \in [Requests -> RequestRow]
      BY <2>2, GoesTyped DEF CountAttempt, AuthSteps
    <3>2. request[q].count \in Failures
      BY <1>a DEF RequestRow
    <3>3. Counted(request[q].count) \in Failures
      BY <3>2 DEF Counted, Failures
    <3> QED BY <3>1, <3>3, <2>2 DEF CountAttempt, AccountTyped
  <2> QED BY <1>8, <2>1, <2>2
<1>9. ASSUME NEW q \in Requests, ReadTempToken(q) PROVE AccountTyped'
  <2>1. PICK at \in AuthSteps : request' = [request EXCEPT ![q].at = at, ![q].under = temps[request[q].token].under]
    BY <1>9 DEF ReadTempToken, AuthSteps
  <2>2. temps[request[q].token].under \in Issued
    BY <1>a, <1>b DEF RequestRow, TempRow
  <2>3. [request[q] EXCEPT !.at = at, !.under = temps[request[q].token].under] \in RequestRow
    BY <1>a, <2>2 DEF RequestRow
  <2>4. request' = [request EXCEPT ![q] = [request[q] EXCEPT !.at = at, !.under = temps[request[q].token].under]]
    BY <2>1 DEF AccountTyped
  <2>5. request' \in [Requests -> RequestRow]
    BY <2>3, <2>4, RequestTyped
  <2> QED BY <2>5, <1>9 DEF ReadTempToken, AccountTyped
<1>10. ASSUME NEW q \in Requests, BurnCode(q) \/ SwitchMfa(q) \/ WriteCodes(q) PROVE AccountTyped'
  <2>1. request' \in [Requests -> RequestRow]
    BY <1>10, GoesTyped DEF BurnCode, SwitchMfa, WriteCodes, AuthSteps
  <2>2. RemainingCodes(request[q].codes, request[q].typed) \subseteq RecoveryCodes
    BY <1>a DEF RemainingCodes, RequestRow
  <2>3. user' \in UserRow
    <3>1. user \in UserRow
      BY DEF AccountTyped
    <3>2. /\ \A codes \in SUBSET RecoveryCodes : [user EXCEPT !.codes = codes] \in UserRow
          /\ \A mfa \in BOOLEAN : [user EXCEPT !.mfa = mfa] \in UserRow
      BY <3>1 DEF UserRow
    <3>3. CASE BurnCode(q)
      BY <3>2, <3>3, <2>2 DEF BurnCode
    <3>4. CASE SwitchMfa(q)
      BY <3>2, <3>4 DEF SwitchMfa, At
    <3>5. CASE WriteCodes(q)
      <4>1. PICK codes \in SUBSET RecoveryCodes : user' = [user EXCEPT !.codes = codes]
        BY <3>5 DEF WriteCodes
      <4> QED BY <3>2, <4>1
    <3> QED BY <1>10, <3>3, <3>4, <3>5
  <2> QED BY <2>1, <2>3, <1>10 DEF BurnCode, SwitchMfa, WriteCodes, AccountTyped
<1>11. ASSUME NEW q \in Requests, CountWrongCode(q) \/ InvalidateTempToken(q) \/ ConsumeTempToken(q)
       PROVE  AccountTyped'
  <2>1. request' \in [Requests -> RequestRow]
    BY <1>11, GoesTyped DEF CountWrongCode, InvalidateTempToken, ConsumeTempToken, AuthSteps
  <2>2. request[q].token \in Issued
    BY <1>a DEF RequestRow
  <2>3. temps[request[q].token] \in TempRow
    BY <1>b, <2>2
  <2>4. /\ [temps[request[q].token] EXCEPT !.attempts = @ + 1] \in TempRow
        /\ Consumed(temps[request[q].token]) \in TempRow
    <3>1. temps[request[q].token].attempts + 1 \in Nat
      BY <2>3 DEF TempRow
    <3> QED BY <2>3, <3>1 DEF Consumed, TempRow
  <2>5. \A new \in TempRow : [temps EXCEPT ![request[q].token] = new] \in [Issued -> TempRow]
    BY <2>2 DEF AccountTyped
  <2>6. temps' = [temps EXCEPT ![request[q].token] = [temps[request[q].token] EXCEPT !.attempts = @ + 1]]
          \/ temps' = [temps EXCEPT ![request[q].token] = Consumed(temps[request[q].token])]
    BY <1>11, <2>2 DEF CountWrongCode, InvalidateTempToken, ConsumeTempToken, AccountTyped
  <2>7. temps' \in [Issued -> TempRow]
    BY <2>4, <2>5, <2>6
  <2> QED BY <2>1, <2>7, <1>11 DEF CountWrongCode, InvalidateTempToken, ConsumeTempToken, AccountTyped
<1>12. ASSUME NEW q \in Requests, LockToken(q) PROVE AccountTyped'
  <2>1. request[q].token \in Issued /\ sessions[request[q].token] \in SessionRow
    BY <1>a, <1>b DEF RequestRow
  <2>2. PICK at \in AuthSteps, typed \in TypedValues :
          request' = [request EXCEPT ![q].at = at, ![q].typed = typed, ![q].under = sessions[request[q].token].under]
    <3>1. PICK at \in {"store", "done"}, typed \in {"exchange", "grace"} :
            request' = [request EXCEPT ![q].at = at, ![q].typed = typed, ![q].under = sessions[request[q].token].under]
      BY <1>12 DEF LockToken
    <3>2. at \in AuthSteps
      BY DEF AuthSteps
    <3>3. typed \in TypedValues
      BY DEF TypedValues
    <3> QED BY <3>1, <3>2, <3>3
  <2>3. [request[q] EXCEPT !.at = at, !.typed = typed, !.under = sessions[request[q].token].under] \in RequestRow
    BY <1>a, <2>1 DEF RequestRow, SessionRow
  <2>4. request' = [request EXCEPT ![q] = [request[q] EXCEPT !.at = at, !.typed = typed,
                                                            !.under = sessions[request[q].token].under]]
    BY <2>2 DEF AccountTyped
  <2>5. request' \in [Requests -> RequestRow]
    BY <2>3, <2>4, RequestTyped
  <2>6. [sessions EXCEPT ![request[q].token].holder = q] \in [Issued -> SessionRow]
    BY <2>1 DEF SessionRow, AccountTyped
  <2>7. sessions' \in [Issued -> SessionRow]
    BY <2>6, <1>12 DEF LockToken, AccountTyped
  <2> QED BY <2>5, <2>7, <1>12 DEF LockToken, AccountTyped
<1>13. ASSUME NEW q \in Requests, CommitRefresh(q) PROVE AccountTyped'
  <2>1. request[q].token \in Issued /\ sessions[request[q].token] \in SessionRow /\ 0 \in Issued
    BY <1>a, <1>b DEF RequestRow, Issued
  <2>2. /\ [sessions[request[q].token] EXCEPT !.state = "revoked", !.used = "grace", !.holder = 0] \in SessionRow
        /\ [sessions[request[q].token] EXCEPT !.holder = 0] \in SessionRow
    BY <2>1 DEF SessionRow
  <2>3. sessions' \in [Issued -> SessionRow]
    BY <2>1, <2>2, <1>13 DEF CommitRefresh, AccountTyped
  <2>4. request' \in [Requests -> RequestRow]
    BY <1>13, GoesTyped DEF CommitRefresh, AuthSteps
  <2> QED BY <2>3, <2>4, <1>13 DEF CommitRefresh, AccountTyped
<1>14. ASSUME NEW q \in Requests, StartRevoke(q) PROVE AccountTyped'
  <2>1. Victims(q) \in SUBSET Issued
    <3> DEFINE valid == {s \in Issued : sessions[s].state = "valid"}
    <3>1. valid \subseteq Issued
      OBVIOUS
    <3> HIDE DEF valid
    <3>2. Victims(q) = CASE request[q].kind = "logout" -> valid \cap {request[q].token}
                         [] request[q].kind = "revokeOthers" -> valid \ {request[q].token}
                         [] OTHER -> valid
      BY DEF Victims, valid
    <3>3. Victims(q) \subseteq valid
      BY <3>2
    <3> QED BY <3>1, <3>3
  <2>2. [request[q] EXCEPT !.at = "sweeping", !.victims = Victims(q)] \in RequestRow
    <3>1. PICK victims \in SUBSET Issued : victims = Victims(q)
      BY <2>1
    <3>2. "sweeping" \in AuthSteps
      BY DEF AuthSteps
    <3>3. [request[q] EXCEPT !.at = "sweeping", !.victims = victims] \in RequestRow
      BY <1>a, <3>2 DEF RequestRow
    <3> QED BY <3>1, <3>3
  <2>3. request' = [request EXCEPT ![q] = [request[q] EXCEPT !.at = "sweeping", !.victims = Victims(q)]]
    BY <1>14 DEF StartRevoke, AccountTyped
  <2>4. request' \in [Requests -> RequestRow]
    BY <2>2, <2>3, RequestTyped
  <2> QED BY <2>4, <1>14 DEF StartRevoke, AccountTyped
<1>15. ASSUME NEW q \in Requests, FinishRevoke(q) PROVE AccountTyped'
  <2>1. request' \in [Requests -> RequestRow]
    BY <1>15, GoesTyped DEF FinishRevoke, AuthSteps
  <2>2. \A s \in Issued : [sessions[s] EXCEPT !.state = "revoked"] \in SessionRow
    BY <1>b DEF SessionRow
  <2>3. sessions' \in [Issued -> SessionRow]
    BY <1>b, <2>2, <1>15 DEF FinishRevoke
  <2> QED BY <2>1, <2>3, <1>15 DEF FinishRevoke, AccountTyped
<1>16. ASSUME NEW q \in Requests,
              VoidResets(q) \/ OfferReset(q) \/ ClaimReset(q) \/ MarkReset(q) \/ ReadMailToken(q) \/ UseMailToken(q)
       PROVE  AccountTyped'
  <2>1. PICK step \in AuthSteps : Goes(q, step)
    BY <1>16 DEF VoidResets, OfferReset, ClaimReset, MarkReset, ReadMailToken, UseMailToken, AuthSteps
  <2>2. request' \in [Requests -> RequestRow]
    BY <2>1, GoesTyped
  <2> QED BY <2>2, <1>16 DEF VoidResets, OfferReset, ClaimReset, MarkReset, ReadMailToken, UseMailToken, AccountTyped
<1>17. ASSUME NEW q \in Requests, SetPassword(q) PROVE AccountTyped'
  <2>1. request' \in [Requests -> RequestRow]
    BY <1>17, GoesTyped DEF SetPassword, AuthSteps
  <2>2. user' \in UserRow
    BY <1>17 DEF SetPassword, UserRow, AccountTyped
  <2> QED BY <2>1, <2>2, <1>17 DEF SetPassword, AccountTyped
<1>18. ASSUME NEW q \in Requests, LoadRow(q) PROVE AccountTyped'
  <2>1. PICK at \in AuthSteps : request' = [request EXCEPT ![q].at = at, ![q].row = user]
    BY <1>18 DEF LoadRow, AuthSteps
  <2>2. [request[q] EXCEPT !.at = at, !.row = user] \in RequestRow
    BY <1>a DEF RequestRow, AccountTyped
  <2>3. request' = [request EXCEPT ![q] = [request[q] EXCEPT !.at = at, !.row = user]]
    BY <2>1 DEF AccountTyped
  <2>4. request' \in [Requests -> RequestRow]
    BY <2>2, <2>3, RequestTyped
  <2> QED BY <2>4, <1>18 DEF LoadRow, AccountTyped
<1>19. ASSUME NEW q \in Requests, SaveRow(q) PROVE AccountTyped'
  <2>1. request[q].row \in UserRow
    BY <1>a DEF RequestRow
  <2>2. SavedRow(request[q].row, request[q].kind) \in UserRow
    BY <2>1 DEF SavedRow, UserRow, AccountTyped
  <2>3. request' \in [Requests -> RequestRow]
    BY <1>19, GoesTyped DEF SaveRow, AuthSteps
  <2> QED BY <2>2, <2>3, <1>19 DEF SaveRow, AccountTyped
<1>20. ASSUME NEW q \in Requests, CrashRequest(q) PROVE AccountTyped'
  <2>1. request' \in [Requests -> RequestRow]
    BY <1>20, GoesTyped DEF CrashRequest, AuthSteps
  <2>2. \A s \in Issued : [sessions[s] EXCEPT !.holder = 0] \in SessionRow
    BY <1>b DEF SessionRow, Issued
  <2>3. sessions' \in [Issued -> SessionRow]
    BY <1>b, <2>2, <1>20 DEF CrashRequest
  <2>4. authPlot' \in [kinds : SUBSET AuthKinds, mfa : BOOLEAN, legacy : BOOLEAN, faults : Nat]
    BY <1>20 DEF CrashRequest, AccountTyped
  <2> QED BY <2>1, <2>3, <2>4, <1>20 DEF CrashRequest, AccountTyped
<1>21. ASSUME NEW s \in Issued, GraceEnds(s) PROVE AccountTyped'
  BY <1>21 DEF GraceEnds, AccountTyped, SessionRow
<1>22. ASSUME NEW s \in Issued, ExpireSession(s) PROVE AccountTyped'
  <2>1. sessions' \in [Issued -> SessionRow]
    BY <1>22 DEF ExpireSession, AccountTyped, SessionRow
  <2>2. authPlot' \in [kinds : SUBSET AuthKinds, mfa : BOOLEAN, legacy : BOOLEAN, faults : Nat]
    BY <1>22 DEF ExpireSession, AccountTyped
  <2> QED BY <2>1, <2>2, <1>22 DEF ExpireSession, AccountTyped
<1>23. CASE UNCHANGED authVars
  BY <1>23 DEF authVars, AccountTyped
<1> QED BY <1>1, <1>2, <1>3, <1>4, <1>5, <1>6, <1>7, <1>8, <1>9, <1>10, <1>11, <1>12, <1>13, <1>14, <1>15, <1>16,
           <1>17, <1>18, <1>19, <1>20, <1>21, <1>22, <1>23 DEF AuthNext
----------------------------------------------------------------------------
SecondFactors == {"totp", "recovery"}
Setters == {"reset", "force"}
RowWriters == {"login", "verifyEmail", "activate", "deactivate"}

(* The request of a login, of a second factor or of an exchange that will  *)
(* issue something under the password it has seen.                         *)
Carries(q) == request[q].at \in {"upgrade", "issue", "clear", "store", "verify", "burn", "consume"}

(* What a request of each kind may be doing.                               *)
StepsOf(kind) ==
  CASE kind = "none" -> {"idle"}
    [] kind = "login" -> {"lockout", "load", "miss", "count", "upgrade", "issue", "clear", "store"}
    [] kind = "refresh" -> {"lock", "store", "commit"}
    [] kind \in SecondFactors -> {"temp", "verify", "wrong code", "invalidate", "miss", "count",
                                  "burn", "consume", "clear", "store"}
    [] kind \in {"logout", "logoutAll", "revokeOthers"} -> {"sweep", "sweeping"}
    [] kind = "forgot" -> {"void", "offer"}
    [] kind = "reset" -> {"claim", "password", "mark", "sweep", "sweeping"}
    [] kind = "force" -> {"password", "sweep", "sweeping", "void", "offer"}
    [] kind = "verifyEmail" -> {"mail", "use", "row", "save"}
    [] kind = "deactivate" -> {"row", "save", "sweep", "sweeping"}
    [] kind = "activate" -> {"row", "save"}
    [] kind = "enableMfa" -> {"enable", "codes"}
    [] kind = "disableMfa" -> {"disable", "codes"}

Fits(q) ==
  /\ request[q].at \in StepsOf(request[q].kind) \/ (request[q].kind # "none" /\ request[q].at \in {"done", "crashed"})
  /\ (request[q].kind \notin {"refresh", "recovery", "force"} \/ At(q, "lock")) => request[q].typed \notin {"grace", "notify"}

RequestStepsFit == \A q \in Requests : Fits(q)

(* Requests begin in their order, and one that is under way has overlapped *)
(* all that began after it.                                                *)
InOrder ==
  \A r \in Requests, q \in Requests : r < q /\ ~At(q, "idle") =>
    ~At(r, "idle") /\ (Running(r) => Overlapped(r, q))

(* A token in a request's hand has been issued, and only by its own        *)
(* request, which has then nothing more to issue.                          *)
TokensIssued ==
  \A q \in Requests :
    /\ request[q].kind = "refresh" => sessions[request[q].token].state # "none"
    /\ request[q].kind \in SecondFactors => temps[request[q].token].state # "none"
    /\ sessions[q].state # "none" => request[q].at \in {"commit", "done", "crashed"}
    /\ temps[q].state # "none" => request[q].kind = "login" /\ At(q, "done")

(* What excuses a session, or a temporary token, from the changes that     *)
(* requests of these kinds make, for good: how its line came about.        *)
Crossed(line, kinds) ==
  \E r \in Requests : request[r].kind \in kinds /\ \E q \in line : Overlapped(r, q) \/ BeganBefore(q, r)
LineExcused(line) == Crossed(line, Setters) \/ \E q \in line : request[q].typed = "grace"
FactorCrossed(t, kinds) ==
  \E r \in Requests : request[r].kind \in kinds /\ (t < r \/ (t \in Requests /\ Overlapped(r, t)))
Lost(changers, writers) ==
  \E c \in Requests, w \in Requests :
    request[c].kind \in changers /\ request[w].kind \in writers /\ Overlapped(c, w)

(* r has yet to revoke the session s. *)
Sweeps(r, s) == \/ request[r].at \in {"mark", "sweep", "crashed"}
                \/ At(r, "sweeping") /\ s \in request[r].victims

(* The password a writer of the whole row is about to write back, and that *)
(* under which a token was or is to be issued, is the current one, but for *)
(* those excused and those the reset of the current one has yet to revoke. *)
CarriesCurrent(q) == Carries(q) => request[q].under = user.password \/ LineExcused(LineOf(q))
FactorCurrent(t) ==
  temps[t].state # "none" => temps[t].under = user.password \/ FactorCrossed(t, Setters)
SessionCurrent(s) ==
  sessions[s].state = "valid" =>
    \/ sessions[s].under = user.password
    \/ LineExcused(sessions[s].line)
    \/ user.password \in Requests /\ request[user.password].kind \in Setters /\ Sweeps(user.password, s)
WritesCurrent(q) == request[q].at \in {"upgrade", "save"} => request[q].row.password = user.password

PasswordLost == Lost(Setters, RowWriters)
PasswordInv ==
  ~PasswordLost => /\ \A q \in Requests : WritesCurrent(q) /\ CarriesCurrent(q)
                   /\ \A t \in Issued : FactorCurrent(t) /\ SessionCurrent(t)

(* An account is shut when it is inactive, or about to be saved so by a    *)
(* deactivation that found it so.                                          *)
Closes(w) == request[w].kind = "deactivate" /\ At(w, "save") /\ ~request[w].row.active
Shut == ~user.active \/ \E w \in Requests : Closes(w)
Reopened == Lost({"activate"}, RowWriters) \/ Lost({"verifyEmail"}, {"verifyEmail"})

CarriesCrossed(q) == Carries(q) => Crossed(LineOf(q), {"deactivate"})
SessionRevoked(d, s) ==
  sessions[s].state = "valid" => Crossed(sessions[s].line, {"deactivate"}) \/ Sweeps(d, s)
Deactivated == \E d \in Requests : request[d].kind = "deactivate" /\ \A s \in Issued : SessionRevoked(d, s)
FactorsCrossed == \A t \in Issued : temps[t].state # "none" => FactorCrossed(t, {"deactivate"})
LinksKnow(v) == request[v].kind = "verifyEmail" /\ At(v, "save") /\ ~request[v].row.active => ~user.active

ActivityInv ==
  ~Reopened => /\ \A v \in Requests : LinksKnow(v)
               /\ Shut => (\A q \in Requests : CarriesCrossed(q)) /\ FactorsCrossed /\ Deactivated

AccountInv == AccountTyped /\ RequestStepsFit /\ InOrder /\ TokensIssued /\ PasswordInv /\ ActivityInv

(* The invariant implies what the run checks. *)
LEMMA AccountSuffices == AccountInv => SessionsEndWithTheAccount
<1> SUFFICES ASSUME AccountInv PROVE SessionsEndWithTheAccount
  OBVIOUS
<1>1. SessionsFollowPassword
  <2> SUFFICES ASSUME NEW s \in Issued, sessions[s].state = "valid", sessions[s].under # user.password
               PROVE  \/ \E r \in PasswordSetters :
                           ~At(r, "done") \/ \E q \in sessions[s].line : Overlapped(r, q) \/ BeganBefore(q, r)
                      \/ \E q \in sessions[s].line : request[q].typed = "grace"
                      \/ LostAccountChange(PasswordSetters)
    BY DEF SessionsFollowPassword
  <2>1. \A r \in Requests : request[r].kind \in Setters <=> r \in PasswordSetters
    BY DEF Setters, PasswordSetters, Of
  <2>2. PasswordLost => LostAccountChange(PasswordSetters)
    BY <2>1 DEF PasswordLost, Lost, LostAccountChange, RowWriters, AccountWriters, Of
  <2>3. CASE PasswordLost
    BY <2>2, <2>3
  <2>4. CASE LineExcused(sessions[s].line)
    BY <2>1, <2>4 DEF LineExcused, Crossed
  <2>5. CASE user.password \in Requests /\ request[user.password].kind \in Setters /\ Sweeps(user.password, s)
    <3>1. user.password \in PasswordSetters /\ ~At(user.password, "done")
      BY <2>1, <2>5 DEF Sweeps, At
    <3> QED BY <3>1
  <2> QED BY <2>3, <2>4, <2>5 DEF AccountInv, PasswordInv, SessionCurrent
<1>2. DeactivationEndsSessions
  <2> SUFFICES ASSUME NEW s \in Issued, sessions[s].state = "valid", ~user.active
               PROVE  \/ \E d \in Of("deactivate") :
                           ~At(d, "done") \/ \E q \in sessions[s].line : Overlapped(d, q) \/ BeganBefore(q, d)
                      \/ LostAccountChange(Of("activate"))
                      \/ \E v, w \in Of("verifyEmail") : Overlapped(v, w)
    BY DEF DeactivationEndsSessions
  <2>1. CASE Reopened
    BY <2>1 DEF Reopened, Lost, LostAccountChange, RowWriters, AccountWriters, Of
  <2>2. CASE ~Reopened
    <3>1. PICK d \in Requests : request[d].kind = "deactivate" /\ SessionRevoked(d, s)
      BY <2>2 DEF AccountInv, ActivityInv, Shut, Deactivated
    <3>2. CASE Sweeps(d, s)
      <4>1. d \in Of("deactivate") /\ ~At(d, "done")
        BY <3>1, <3>2 DEF Sweeps, At, Of
      <4> QED BY <4>1
    <3>3. CASE Crossed(sessions[s].line, {"deactivate"})
      BY <3>3 DEF Crossed, Of
    <3> QED BY <3>1, <3>2, <3>3 DEF SessionRevoked
  <2> QED BY <2>1, <2>2
<1> QED BY <1>1, <1>2 DEF SessionsEndWithTheAccount

LEMMA AccountFirst == AuthInit => AccountInv
<1> SUFFICES ASSUME AuthInit PROVE AccountInv
  OBVIOUS
<1>1. AccountTyped
  BY AccountTypedFirst
<1>2. \A q \in Requests : request[q] = Waiting /\ request[q].kind = "none" /\ request[q].at = "idle"
                          /\ request[q].typed = "nothing"
  BY DEF AuthInit, Waiting
<1>3. RequestStepsFit
  <2>1. StepsOf("none") = {"idle"}
    BY DEF StepsOf, SecondFactors
  <2> QED BY <1>2, <2>1 DEF RequestStepsFit, Fits, At
<1>9. InOrder
  BY <1>2 DEF InOrder, At
<1>4. \A s \in Issued : sessions[s] = IF s = 0 THEN [NoSession EXCEPT !.state = "valid"] ELSE NoSession
  BY DEF AuthInit
<1>5. PICK plot \in AuthPlots :
        /\ user = [password |-> OldPassword, legacy |-> plot.legacy, active |-> TRUE, verified |-> FALSE,
                   mfa |-> plot.mfa, codes |-> IF plot.mfa THEN RecoveryCodes ELSE {}]
        /\ temps = [t \in Issued |-> [state |-> IF t = 0 /\ plot.mfa THEN "live" ELSE "none", attempts |-> 0, under |-> 0]]
  BY DEF AuthInit
<1>6. TokensIssued
  BY <1>2, <1>4, <1>5, RequestsNumbered DEF TokensIssued, NoSession, SecondFactors
<1>7. PasswordInv
  <2>1. user.password = 0
    BY <1>5 DEF OldPassword
  <2>2. \A s \in Issued : sessions[s].under = 0 /\ temps[s].under = 0
    BY <1>4, <1>5 DEF NoSession
  <2> QED BY <1>2, <2>1, <2>2 DEF PasswordInv, WritesCurrent, CarriesCurrent, Carries, FactorCurrent, SessionCurrent
<1>8. ActivityInv
  <2>1. user.active
    BY <1>5
  <2> QED BY <1>2, <2>1 DEF ActivityInv, LinksKnow, At, Shut, Closes
<1> QED BY <1>1, <1>3, <1>6, <1>7, <1>8, <1>9 DEF AccountInv
(* What a request is doing tells its kind. *)
LEMMA KindFits ==
  ASSUME AccountTyped, RequestStepsFit, NEW q \in Requests
  PROVE  LET kind == request[q].kind
             at   == request[q].at
         IN /\ at = "idle" <=> kind = "none"
            /\ at \in {"lockout", "load", "upgrade", "issue"} => kind = "login"
            /\ at \in {"lock", "commit"} => kind = "refresh"
            /\ at \in {"temp", "verify", "burn", "consume", "wrong code", "invalidate"} => kind \in SecondFactors
            /\ at \in {"miss", "count", "clear"} => kind \in SecondFactors \cup {"login"}
            /\ at = "store" => kind \in SecondFactors \cup {"login", "refresh"}
            /\ at \in {"claim", "mark"} => kind = "reset"
            /\ at = "password" => kind \in Setters
            /\ at \in {"void", "offer"} => kind \in {"forgot", "force"}
            /\ at \in {"sweep", "sweeping"} => kind \in {"logout", "logoutAll", "revokeOthers", "reset", "force", "deactivate"}
            /\ at \in {"mail", "use"} => kind = "verifyEmail"
            /\ at \in {"row", "save"} => kind \in {"verifyEmail", "activate", "deactivate"}
            /\ at \in {"enable", "disable", "codes"} => kind \in {"enableMfa", "disableMfa"}
<1>1. request[q].kind \in AuthKinds \cup {"none"}
  BY DEF AccountTyped, RequestRow
<1>2. request[q].at \in StepsOf(request[q].kind) \/ (request[q].kind # "none" /\ request[q].at \in {"done", "crashed"})
  BY DEF RequestStepsFit, Fits
<1>3. request[q].kind = "none" => request[q].at \in {"idle"}
  BY <1>2 DEF StepsOf, SecondFactors
<1>4. request[q].kind = "login" => request[q].at \in {"lockout", "load", "miss", "count", "upgrade", "issue", "clear", "store"} \cup {"done", "crashed"}
  BY <1>2 DEF StepsOf, SecondFactors
<1>5. request[q].kind = "refresh" => request[q].at \in {"lock", "store", "commit"} \cup {"done", "crashed"}
  BY <1>2 DEF StepsOf, SecondFactors
<1>6. request[q].kind \in SecondFactors => request[q].at \in {"temp", "verify", "wrong code", "invalidate", "miss", "count", "burn", "consume", "clear", "store"} \cup {"done", "crashed"}
  BY <1>2 DEF StepsOf, SecondFactors
<1>7. request[q].kind \in {"logout", "logoutAll", "revokeOthers"} => request[q].at \in {"sweep", "sweeping"} \cup {"done", "crashed"}
  BY <1>2 DEF StepsOf, SecondFactors
<1>8. request[q].kind = "forgot" => request[q].at \in {"void", "offer"} \cup {"done", "crashed"}
  BY <1>2 DEF StepsOf, SecondFactors
<1>9. request[q].kind = "reset" => request[q].at \in {"claim", "password", "mark", "sweep", "sweeping"} \cup {"done", "crashed"}
  BY <1>2 DEF StepsOf, SecondFactors
<1>10. request[q].kind = "force" => request[q].at \in {"password", "sweep", "sweeping", "void", "offer"} \cup {"done", "crashed"}
  BY <1>2 DEF StepsOf, SecondFactors
<1>11. request[q].kind = "verifyEmail" => request[q].at \in {"mail", "use", "row", "save"} \cup {"done", "crashed"}
  BY <1>2 DEF StepsOf, SecondFactors
<1>12. request[q].kind = "deactivate" => request[q].at \in {"row", "save", "sweep", "sweeping"} \cup {"done", "crashed"}
  BY <1>2 DEF StepsOf, SecondFactors
<1>13. request[q].kind = "activate" => request[q].at \in {"row", "save"} \cup {"done", "crashed"}
  BY <1>2 DEF StepsOf, SecondFactors
<1>14. request[q].kind \in {"enableMfa", "disableMfa"} => request[q].at \in {"enable", "disable", "codes"} \cup {"done", "crashed"}
  BY <1>2 DEF StepsOf, SecondFactors
<1> QED BY <1>1, <1>3, <1>4, <1>5, <1>6, <1>7, <1>8, <1>9,
           <1>10, <1>11, <1>12, <1>13, <1>14 DEF AuthKinds, SecondFactors, Setters

(* What no step takes back: who overlapped whom, what a request presents,  *)
(* the password and the line of what was issued.                           *)
Kept ==
  /\ together \subseteq together'
  /\ \A q \in Requests : ~At(q, "idle") =>
       /\ request'[q].kind = request[q].kind /\ request'[q].token = request[q].token
       /\ request[q].typed = "grace" => request'[q].typed = "grace"
       /\ request'[q].at # "idle"
       /\ At(q, "done") => request'[q].at = "done"
  /\ \A s \in Issued : sessions[s].state # "none" =>
       sessions'[s].state # "none" /\ sessions'[s].line = sessions[s].line /\ sessions'[s].under = sessions[s].under
  /\ \A t \in Issued : temps[t].state # "none" =>
       temps'[t].state # "none" /\ temps'[t].under = temps[t].under

(* What excuses a session or a temporary token excuses it for good. *)
LEMMA CrossingsStay ==
  ASSUME AccountTyped, RequestStepsFit, Kept, NEW line \in SUBSET Requests, NEW kinds, "none" \notin kinds, Crossed(line, kinds)
  PROVE  Crossed(line, kinds)'
<1>1. PICK r \in Requests, q \in line : request[r].kind \in kinds /\ (Overlapped(r, q) \/ BeganBefore(q, r))
  BY DEF Crossed
<1>2. request'[r].kind \in kinds
  BY <1>1, KindFits DEF Kept, At
<1>3. Overlapped(r, q) => Overlapped(r, q)'
  BY DEF Overlapped, Kept
<1>4. BeganBefore(q, r) => BeganBefore(q, r)'
  BY KindFits DEF BeganBefore, Kept, At
<1> QED BY <1>1, <1>2, <1>3, <1>4 DEF Crossed

LEMMA ExcusesStay ==
  ASSUME AccountTyped, RequestStepsFit, Kept, NEW line \in SUBSET Requests, LineExcused(line)
  PROVE  LineExcused(line)'
<1>1. Crossed(line, Setters) => Crossed(line, Setters)'
  BY CrossingsStay DEF Setters
<1>2. ASSUME NEW q \in line, request[q].typed = "grace" PROVE request'[q].typed = "grace"
  <2>1. request[q].kind # "none"
    BY <1>2 DEF RequestStepsFit, Fits
  <2> QED BY <1>2, <2>1, KindFits DEF Kept, At
<1> QED BY <1>1, <1>2 DEF LineExcused

LEMMA FactorsStayCrossed ==
  ASSUME AccountTyped, RequestStepsFit, Kept, NEW t \in Issued, NEW kinds, "none" \notin kinds, FactorCrossed(t, kinds)
  PROVE  FactorCrossed(t, kinds)'
<1>1. PICK r \in Requests : request[r].kind \in kinds /\ (t < r \/ (t \in Requests /\ Overlapped(r, t)))
  BY DEF FactorCrossed
<1>2. request'[r].kind \in kinds
  BY <1>1, KindFits DEF Kept, At
<1> QED BY <1>1, <1>2 DEF FactorCrossed, Overlapped, Kept

LEMMA LossesStay ==
  ASSUME AccountTyped, RequestStepsFit, Kept, NEW changers, NEW writers, "none" \notin changers, "none" \notin writers,
         Lost(changers, writers)
  PROVE  Lost(changers, writers)'
<1>1. PICK c \in Requests, w \in Requests :
        request[c].kind \in changers /\ request[w].kind \in writers /\ Overlapped(c, w)
  BY DEF Lost
<1>2. request'[c].kind \in changers /\ request'[w].kind \in writers /\ Overlapped(c, w)'
  BY <1>1, KindFits DEF Kept, At, Overlapped
<1> QED BY <1>2 DEF Lost
(* What a step does to a request: the requests that go on, the passwords   *)
(* and rows they pick up, and the sessions they still have to revoke.      *)
RequestGoesOn(q) ==
  /\ At(q, "idle") => request'[q] = request[q] \/ Begin(q)
  /\ request[q].at \in {"commit", "crashed"} => request'[q].at \in {"commit", "crashed", "done"}
  /\ ~At(q, "idle") =>
    /\ request'[q].kind = request[q].kind /\ request'[q].token = request[q].token
    /\ request[q].typed = "grace" => request'[q].typed = "grace"
    /\ request'[q].at # "idle"
    /\ At(q, "done") => request'[q].at = "done"
PicksUp(q) ==
  request'[q].at \in {"upgrade", "issue", "clear", "store", "verify", "burn", "consume"} =>
    \/ Carries(q) /\ request'[q].under = request[q].under
    \/ At(q, "load") /\ user.active /\ request'[q].under = user.password
    \/ At(q, "temp") /\ temps[request[q].token].state # "none" /\ request'[q].under = temps[request[q].token].under
    \/ /\ At(q, "lock") /\ user.active
       /\ \/ request'[q].typed = "grace"
          \/ sessions[request[q].token].state = "valid" /\ request'[q].under = sessions[request[q].token].under
CopiesRow(q) ==
  request'[q].at \in {"upgrade", "save"} =>
    request'[q].row = user \/ (request'[q].at = request[q].at /\ request'[q].row = request[q].row)
StillSweeps(q) ==
  request[q].kind \in Setters \cup {"deactivate"} => \A s \in Issued :
    (Sweeps(q, s) /\ sessions[s].state = "valid" /\ sessions'[s].state = "valid") =>
      \/ request'[q].at \in {"mark", "sweep", "crashed"}
      \/ request'[q].at = "sweeping" /\ s \in request'[q].victims
Advances(q) == RequestGoesOn(q) /\ PicksUp(q) /\ CopiesRow(q) /\ StillSweeps(q)

LEMMA RequestStands ==
  ASSUME AccountTyped, NEW q \in Requests, request'[q] = request[q]
  PROVE  Advances(q)
BY DEF Advances, RequestGoesOn, PicksUp, Carries, CopiesRow, StillSweeps, Sweeps, At

(* A request that goes to another step keeps all else, and the others stand. *)
LEMMA Going ==
  ASSUME AccountTyped, NEW q \in Requests, NEW step, Goes(q, step)
  PROVE  /\ request'[q] = [request[q] EXCEPT !.at = step]
         /\ request'[q].at = step /\ request'[q].kind = request[q].kind /\ request'[q].token = request[q].token
         /\ request'[q].typed = request[q].typed /\ request'[q].under = request[q].under
         /\ request'[q].row = request[q].row /\ request'[q].victims = request[q].victims
         /\ \A r \in Requests : r # q => request'[r] = request[r]
<1>1. request[q] \in RequestRow
  BY DEF AccountTyped
<1>2. request'[q] = [request[q] EXCEPT !.at = step] /\ \A r \in Requests : r # q => request'[r] = request[r]
  BY DEF Goes, AccountTyped
<1> QED BY <1>1, <1>2 DEF RequestRow

(* A step that neither picks up nor ends a revocation. *)
LEMMA GoingOn ==
  ASSUME AccountTyped, NEW q \in Requests, NEW step, Goes(q, step), ~At(q, "idle"), ~At(q, "done"), step # "idle",
         step \in {"upgrade", "issue", "clear", "store", "verify", "burn", "consume"} => Carries(q),
         step \notin {"upgrade", "save"},
         request[q].at \in {"mark", "sweep", "sweeping", "crashed"} => step \in {"mark", "sweep", "crashed"},
         request[q].at \in {"commit", "crashed"} => step \in {"crashed", "done"}
  PROVE  \A r \in Requests : Advances(r)
<1>1. /\ request'[q].at = step /\ request'[q].kind = request[q].kind /\ request'[q].token = request[q].token
      /\ request'[q].typed = request[q].typed /\ request'[q].under = request[q].under
      /\ \A r \in Requests : r # q => request'[r] = request[r]
  BY Going
<1>2. RequestGoesOn(q) /\ PicksUp(q) /\ CopiesRow(q)
  BY <1>1 DEF RequestGoesOn, PicksUp, CopiesRow, At
<1>3. StillSweeps(q)
  BY <1>1 DEF StillSweeps, Sweeps, At
<1>4. Advances(q)
  BY <1>2, <1>3 DEF Advances
<1> QED BY <1>1, <1>4, RequestStands

(* Every step of the system advances every request as above. *)
LEMMA RequestsAdvance ==
  ASSUME AccountTyped, RequestStepsFit, [AuthNext]_authVars
  PROVE  \A q \in Requests : Advances(q)
<1>a. \A q \in Requests : request[q] \in RequestRow
  BY DEF AccountTyped
<1>1. ASSUME NEW q \in Requests, Begin(q) PROVE \A r \in Requests : Advances(r)
  <2>1. PICK kind \in authPlot.kinds : \E token \in TokensFor(kind), typed \in TypedFor(kind) :
          request' = [request EXCEPT ![q] = [Waiting EXCEPT !.kind = kind, !.at = FirstStep(kind),
                                                            !.token = token, !.typed = typed]]
    BY <1>1 DEF Begin
  <2>2. PICK token \in TokensFor(kind), typed \in TypedFor(kind) :
          request' = [request EXCEPT ![q] = [Waiting EXCEPT !.kind = kind, !.at = FirstStep(kind),
                                                            !.token = token, !.typed = typed]]
    BY <2>1
  <2>3. kind \in AuthKinds
    BY DEF AccountTyped
  <2>4. FirstStep(kind) \notin {"upgrade", "issue", "clear", "store", "verify", "burn", "consume", "save"}
    BY <2>3 DEF AuthKinds, FirstStep
  <2>5. request'[q].at = FirstStep(kind) /\ \A r \in Requests : r # q => request'[r] = request[r]
    BY <2>2 DEF AccountTyped, Waiting
  <2>6. At(q, "idle") /\ request[q].kind = "none"
    BY <1>1, KindFits DEF Begin, At
  <2>7. Advances(q)
    BY <1>1, <2>4, <2>5, <2>6 DEF Advances, RequestGoesOn, At, PicksUp, CopiesRow, StillSweeps, Setters
  <2> QED BY <2>5, <2>7, RequestStands
<1>2. ASSUME NEW q \in Requests, CheckLockout(q) \/ CountAttempt(q) \/ CountWrongCode(q) \/ InvalidateTempToken(q)
      PROVE  \A r \in Requests : Advances(r)
  BY <1>2, GoingOn DEF CheckLockout, CountAttempt, CountWrongCode, InvalidateTempToken, At
<1>3. ASSUME NEW q \in Requests, LoadUser(q) PROVE \A r \in Requests : Advances(r)
  <2>1. user.active \in BOOLEAN /\ user.legacy \in BOOLEAN /\ user.mfa \in BOOLEAN
    BY DEF AccountTyped, UserRow
  <2>2. AfterPassword(user) \in {"issue", "clear"}
    BY <2>1 DEF AfterPassword
  <2> DEFINE step == CASE ~user.active -> "done"
                       [] user.active /\ ~PasswordMatches(request[q].typed) -> "miss"
                       [] user.active /\ PasswordMatches(request[q].typed) ->
                            IF user.legacy THEN "upgrade" ELSE AfterPassword(user)
  <2>3. step \in {"done", "miss", "upgrade", "issue", "clear"} /\ (step \notin {"done"} => user.active)
    BY <2>1, <2>2
  <2>4. request' = [request EXCEPT ![q].at = step, ![q].row = user, ![q].under = user.password]
    BY <1>3 DEF LoadUser
  <2> HIDE DEF step
  <2>5. request'[q] = [request[q] EXCEPT !.at = step, !.row = user, !.under = user.password]
        /\ \A r \in Requests : r # q => request'[r] = request[r]
    BY <2>4 DEF AccountTyped
  <2>6. request'[q].at = step /\ request'[q].row = user /\ request'[q].under = user.password
        /\ request'[q].kind = request[q].kind /\ request'[q].token = request[q].token /\ request'[q].typed = request[q].typed
    BY <1>a, <2>5 DEF RequestRow
  <2>7. Advances(q)
    BY <1>3, <2>3, <2>6 DEF LoadUser, Advances, RequestGoesOn, PicksUp, CopiesRow, StillSweeps, Sweeps, At
  <2> QED BY <2>5, <2>7, RequestStands
<1>4. ASSUME NEW q \in Requests, UpgradeHash(q) PROVE \A r \in Requests : Advances(r)
  <2>1. request[q].row.mfa \in BOOLEAN
    BY <1>a DEF RequestRow, UserRow
  <2>2. AfterPassword(request[q].row) \in {"issue", "clear"}
    BY <2>1 DEF AfterPassword
  <2> QED BY <1>4, <2>2, GoingOn DEF UpgradeHash, At, Carries
<1>5. ASSUME NEW q \in Requests,
             IssueTempToken(q) \/ ClearAttempts(q) \/ StoreSession(q) \/ BurnCode(q) \/ ConsumeTempToken(q)
      PROVE  \A r \in Requests : Advances(r)
  BY <1>5, GoingOn DEF IssueTempToken, ClearAttempts, StoreSession, BurnCode, ConsumeTempToken, At, Carries
<1>6. ASSUME NEW q \in Requests, ReadAttempts(q) PROVE \A r \in Requests : Advances(r)
  <2>1. request'[q] = [request[q] EXCEPT !.at = "count", !.count = lockout]
        /\ \A r \in Requests : r # q => request'[r] = request[r]
    BY <1>6 DEF ReadAttempts, AccountTyped
  <2>2. request'[q].at = "count"
        /\ request'[q].kind = request[q].kind /\ request'[q].token = request[q].token /\ request'[q].typed = request[q].typed
    BY <1>a, <2>1 DEF RequestRow
  <2>3. Advances(q)
    BY <1>6, <2>2 DEF ReadAttempts, Advances, RequestGoesOn, PicksUp, CopiesRow, StillSweeps, Sweeps, At
  <2> QED BY <2>1, <2>3, RequestStands
<1>7. ASSUME NEW q \in Requests, ReadTempToken(q) PROVE \A r \in Requests : Advances(r)
  <2> DEFINE t == request[q].token
             step == IF temps[t].state = "live" THEN "verify" ELSE "done"
  <2>1. request'[q] = [request[q] EXCEPT !.at = step, !.under = temps[t].under]
        /\ \A r \in Requests : r # q => request'[r] = request[r]
    BY <1>7 DEF ReadTempToken, AccountTyped
  <2>2. request'[q].at = step /\ request'[q].under = temps[t].under
        /\ request'[q].kind = request[q].kind /\ request'[q].token = request[q].token /\ request'[q].typed = request[q].typed
    BY <1>a, <2>1 DEF RequestRow
  <2>3. At(q, "temp") /\ step \in {"verify", "done"} /\ (step = "verify" => temps[t].state # "none")
    BY <1>7 DEF ReadTempToken
  <2> HIDE DEF step
  <2>4. RequestGoesOn(q) /\ CopiesRow(q) /\ StillSweeps(q)
    BY <2>2, <2>3 DEF RequestGoesOn, CopiesRow, StillSweeps, Sweeps, At
  <2>5. PicksUp(q)
    BY <2>2, <2>3 DEF PicksUp
  <2>6. Advances(q)
    BY <2>4, <2>5 DEF Advances
  <2> QED BY <2>1, <2>6, RequestStands
<1>8. ASSUME NEW q \in Requests, VerifyCode(q) PROVE \A r \in Requests : Advances(r)
  <2>1. CASE request[q].kind = "totp"
    <3>1. PICK step \in {"done", "consume", "wrong code"} : Goes(q, step)
      BY <1>8, <2>1 DEF VerifyCode
    <3> QED BY <1>8, <3>1, GoingOn DEF VerifyCode, At, Carries
  <2>2. CASE request[q].kind # "totp"
    <3>1. PICK step \in {"burn", "wrong code"} : request' = [request EXCEPT ![q].at = step, ![q].codes = user.codes]
      BY <1>8, <2>2 DEF VerifyCode
    <3>2. request'[q] = [request[q] EXCEPT !.at = step, !.codes = user.codes]
          /\ \A r \in Requests : r # q => request'[r] = request[r]
      BY <3>1 DEF AccountTyped
    <3>3. request'[q].at = step /\ request'[q].under = request[q].under
          /\ request'[q].kind = request[q].kind /\ request'[q].token = request[q].token /\ request'[q].typed = request[q].typed
      BY <1>a, <3>2 DEF RequestRow
    <3>4. Advances(q)
      BY <1>8, <3>3 DEF VerifyCode, Advances, RequestGoesOn, PicksUp, Carries, CopiesRow, StillSweeps, Sweeps, At
    <3> QED BY <3>2, <3>4, RequestStands
  <2> QED BY <2>1, <2>2
<1>9. ASSUME NEW q \in Requests, LockToken(q) PROVE \A r \in Requests : Advances(r)
  <2> DEFINE s == request[q].token
             accepted == user.active /\ MayExchange(s)
             grace == user.active /\ sessions[s].state = "revoked" /\ sessions[s].used = "grace"
             step == IF accepted \/ grace THEN "store" ELSE "done"
             typed == IF accepted THEN "exchange" ELSE "grace"
  <2>1. request'[q] = [request[q] EXCEPT !.at = step, !.typed = typed, !.under = sessions[s].under]
        /\ \A r \in Requests : r # q => request'[r] = request[r]
    BY <1>9 DEF LockToken, AccountTyped
  <2>2. request'[q].at = step /\ request'[q].under = sessions[s].under /\ request'[q].typed = typed
        /\ request'[q].kind = request[q].kind /\ request'[q].token = request[q].token
    BY <1>a, <2>1 DEF RequestRow
  <2>3. At(q, "lock") /\ request[q].typed # "grace"
    BY <1>9 DEF LockToken, RequestStepsFit, Fits
  <2>4. RequestGoesOn(q) /\ CopiesRow(q) /\ StillSweeps(q)
    BY <2>2, <2>3 DEF RequestGoesOn, CopiesRow, StillSweeps, Sweeps, At
  <2>5. PicksUp(q)
    BY <2>2, <2>3 DEF PicksUp, MayExchange
  <2> QED BY <2>1, <2>4, <2>5, RequestStands DEF Advances
<1>10. ASSUME NEW q \in Requests, StartRevoke(q) PROVE \A r \in Requests : Advances(r)
  <2>1. request'[q] = [request[q] EXCEPT !.at = "sweeping", !.victims = Victims(q)]
        /\ \A r \in Requests : r # q => request'[r] = request[r]
    BY <1>10 DEF StartRevoke, AccountTyped
  <2>2. request'[q].at = "sweeping" /\ request'[q].victims = Victims(q)
        /\ request'[q].kind = request[q].kind /\ request'[q].token = request[q].token /\ request'[q].typed = request[q].typed
    BY <1>a, <2>1 DEF RequestRow
  <2>3. request[q].kind \in Setters \cup {"deactivate"} => Victims(q) = {s \in Issued : sessions[s].state = "valid"}
    BY DEF Setters, Victims
  <2>4. RequestGoesOn(q) /\ CopiesRow(q) /\ PicksUp(q)
    BY <1>10, <2>2 DEF StartRevoke, RequestGoesOn, CopiesRow, PicksUp, At
  <2>5. StillSweeps(q)
    BY <2>2, <2>3 DEF StillSweeps
  <2> QED BY <2>1, <2>4, <2>5, RequestStands DEF Advances
<1>11. ASSUME NEW q \in Requests, FinishRevoke(q) PROVE \A r \in Requests : Advances(r)
  <2>1. PICK step \in {"void", "done"} : Goes(q, step)
    BY <1>11 DEF FinishRevoke
  <2>2. RequestGoesOn(q) /\ CopiesRow(q) /\ PicksUp(q)
    BY <1>11, <2>1, Going DEF FinishRevoke, RequestGoesOn, CopiesRow, PicksUp, At
  <2>3. ASSUME NEW s \in Issued, s \in request[q].victims, sessions[s].state = "valid"
        PROVE  sessions'[s].state # "valid"
    BY <1>11, <2>3 DEF FinishRevoke, AccountTyped, SessionRow
  <2>4. StillSweeps(q)
    BY <1>11, <2>3 DEF FinishRevoke, StillSweeps, Sweeps, At
  <2>5. Advances(q)
    BY <2>2, <2>4 DEF Advances
  <2>6. \A r \in Requests : r # q => request'[r] = request[r]
    BY <2>1, Going
  <2> QED BY <2>5, <2>6, RequestStands
<1>12. ASSUME NEW q \in Requests, SwitchMfa(q) \/ WriteCodes(q) \/ VoidResets(q) \/ OfferReset(q) \/ CommitRefresh(q)
       PROVE  \A r \in Requests : Advances(r)
  BY <1>12, GoingOn DEF SwitchMfa, WriteCodes, VoidResets, OfferReset, CommitRefresh, At
<1>13. ASSUME NEW q \in Requests, ClaimReset(q) \/ SetPassword(q) \/ MarkReset(q)
       PROVE  \A r \in Requests : Advances(r)
  BY <1>13, GoingOn DEF ClaimReset, SetPassword, MarkReset, At
<1>14. ASSUME NEW q \in Requests, ReadMailToken(q) \/ UseMailToken(q) \/ SaveRow(q)
       PROVE  \A r \in Requests : Advances(r)
  BY <1>14, GoingOn DEF ReadMailToken, UseMailToken, SaveRow, At
<1>15. ASSUME NEW q \in Requests, LoadRow(q) PROVE \A r \in Requests : Advances(r)
  <2> DEFINE step == IF request[q].typed = "signed out" THEN "done" ELSE "save"
  <2>1. request'[q] = [request[q] EXCEPT !.at = step, !.row = user]
        /\ \A r \in Requests : r # q => request'[r] = request[r]
    BY <1>15 DEF LoadRow, AccountTyped
  <2>2. request'[q].at = step /\ request'[q].row = user
        /\ request'[q].kind = request[q].kind /\ request'[q].token = request[q].token /\ request'[q].typed = request[q].typed
    BY <1>a, <2>1 DEF RequestRow
  <2>4. step \in {"done", "save"} /\ At(q, "row")
    BY <1>15 DEF LoadRow
  <2> HIDE DEF step
  <2>5. RequestGoesOn(q) /\ PicksUp(q) /\ StillSweeps(q)
    BY <2>2, <2>4 DEF RequestGoesOn, PicksUp, StillSweeps, Sweeps, At
  <2>6. CopiesRow(q)
    BY <2>2 DEF CopiesRow
  <2>3. Advances(q)
    BY <2>5, <2>6 DEF Advances
  <2> QED BY <2>1, <2>3, RequestStands
<1>16. ASSUME NEW q \in Requests, CrashRequest(q) PROVE \A r \in Requests : Advances(r)
  BY <1>16, GoingOn DEF CrashRequest, Running, At
<1>17. CASE UNCHANGED request
  BY <1>17, RequestStands
<1>18. ASSUME NEW s \in Issued, GraceEnds(s) \/ ExpireSession(s) PROVE UNCHANGED request
  BY <1>18 DEF GraceEnds, ExpireSession
<1>19. CASE UNCHANGED authVars
  BY <1>17, <1>19 DEF authVars
<1> QED BY <1>1, <1>2, <1>3, <1>4, <1>5, <1>6, <1>7, <1>8, <1>9, <1>10, <1>11, <1>12, <1>13, <1>14, <1>15, <1>16,
           <1>17, <1>18, <1>19 DEF AuthNext
(* What a step does to what was issued.                                    *)
SessionGoesOn(s) ==
  /\ sessions[s].state # "none" =>
       sessions'[s].state # "none" /\ sessions'[s].line = sessions[s].line /\ sessions'[s].under = sessions[s].under
  /\ sessions'[s].state = "valid" => sessions[s].state \in {"valid", "none"}
  /\ (sessions'[s].state # "none" /\ sessions[s].state = "none") =>
       /\ s \in Requests /\ At(s, "store") /\ request'[s].at \in {"commit", "done"}
       /\ sessions'[s].under = request[s].under /\ sessions'[s].line = LineOf(s)
TempGoesOn(t) ==
  /\ temps[t].state # "none" => temps'[t].state # "none" /\ temps'[t].under = temps[t].under
  /\ (temps'[t].state # "none" /\ temps[t].state = "none") =>
       t \in Requests /\ At(t, "issue") /\ request'[t].at = "done" /\ temps'[t].under = request[t].under

(* Every step keeps what was issued, and issues what its request carries. *)
LEMMA SessionsGoOn ==
  ASSUME AccountTyped, RequestStepsFit, TokensIssued, [AuthNext]_authVars
  PROVE  \A s \in Issued : SessionGoesOn(s)
<1>a. \A s \in Issued : sessions[s] \in SessionRow
  BY DEF AccountTyped
<1>1. ASSUME NEW q \in Requests, StoreSession(q) PROVE \A s \in Issued : SessionGoesOn(s)
  <2>1. q \in Issued /\ sessions[q].state = "none"
    BY <1>1, RequestsNumbered DEF TokensIssued, StoreSession, At
  <2>2. \A s \in Issued : s # q => sessions'[s] = sessions[s]
    BY <1>1 DEF StoreSession, AccountTyped
  <2>3. sessions'[q] = [NoSession EXCEPT !.state = "valid", !.under = request[q].under, !.line = LineOf(q)]
    BY <1>1, <2>1 DEF StoreSession, AccountTyped
  <2>4. sessions'[q].under = request[q].under /\ sessions'[q].line = LineOf(q)
    BY <2>3 DEF NoSession
  <2>5. request'[q].at \in {"commit", "done"}
    BY <1>1, Going DEF StoreSession
  <2>6. SessionGoesOn(q)
    BY <1>1, <2>1, <2>4, <2>5 DEF SessionGoesOn, StoreSession
  <2> QED BY <2>2, <2>6 DEF SessionGoesOn
<1>2. ASSUME NEW q \in Requests, LockToken(q) PROVE \A s \in Issued : SessionGoesOn(s)
  <2>1. PICK t \in Issued : sessions' = sessions \/ sessions' = [sessions EXCEPT ![t].holder = q]
    BY <1>2 DEF LockToken, AccountTyped, RequestRow
  <2> QED BY <1>a, <2>1 DEF SessionGoesOn, AccountTyped, SessionRow
<1>3. ASSUME NEW q \in Requests, CommitRefresh(q) PROVE \A s \in Issued : SessionGoesOn(s)
  <2>a. request[q].token \in Issued /\ sessions[request[q].token].state # "none"
    BY <1>a, <1>3, KindFits DEF CommitRefresh, TokensIssued, At, AccountTyped, RequestRow
  <2>1. PICK t \in Issued :
          \/ /\ sessions' = [sessions EXCEPT ![t] = [@ EXCEPT !.state = "revoked", !.used = "grace", !.holder = 0]]
             /\ sessions[t].state # "none"
          \/ sessions' = [sessions EXCEPT ![t].holder = 0]
    BY <1>3, <2>a DEF CommitRefresh
  <2>2. CASE sessions' = [sessions EXCEPT ![t].holder = 0]
    BY <1>a, <2>2 DEF SessionGoesOn, AccountTyped, SessionRow
  <2>3. CASE /\ sessions' = [sessions EXCEPT ![t] = [@ EXCEPT !.state = "revoked", !.used = "grace", !.holder = 0]]
             /\ sessions[t].state # "none"
    <3>1. \A s \in Issued : s # t => sessions'[s] = sessions[s]
      BY <2>3 DEF AccountTyped
    <3>2. sessions'[t] = [sessions[t] EXCEPT !.state = "revoked", !.used = "grace", !.holder = 0]
      BY <2>3 DEF AccountTyped
    <3>3. sessions'[t].state = "revoked" /\ sessions'[t].line = sessions[t].line /\ sessions'[t].under = sessions[t].under
      BY <1>a, <3>2 DEF SessionRow
    <3>4. SessionGoesOn(t)
      BY <2>3, <3>3 DEF SessionGoesOn
    <3>5. \A s \in Issued : s # t => SessionGoesOn(s)
      BY <1>a, <3>1 DEF SessionGoesOn, SessionRow
    <3> QED BY <3>4, <3>5
  <2> QED BY <2>1, <2>2, <2>3
<1>4. ASSUME NEW q \in Requests, FinishRevoke(q) PROVE \A s \in Issued : SessionGoesOn(s)
  BY <1>a, <1>4 DEF FinishRevoke, SessionGoesOn, SessionRow
<1>5. ASSUME NEW q \in Requests, CrashRequest(q) PROVE \A s \in Issued : SessionGoesOn(s)
  BY <1>a, <1>5 DEF CrashRequest, SessionGoesOn, SessionRow
<1>6. ASSUME NEW s \in Issued, GraceEnds(s) \/ ExpireSession(s) PROVE \A t \in Issued : SessionGoesOn(t)
  BY <1>a, <1>6 DEF GraceEnds, ExpireSession, SessionGoesOn, SessionRow, AccountTyped
<1>7. CASE UNCHANGED sessions
  BY <1>a, <1>7 DEF SessionGoesOn, SessionRow
<1>8. ASSUME NEW q \in Requests,
             \/ Begin(q) \/ CheckLockout(q) \/ LoadUser(q) \/ UpgradeHash(q) \/ IssueTempToken(q)
             \/ ClearAttempts(q) \/ ReadAttempts(q) \/ CountAttempt(q)
             \/ ReadTempToken(q) \/ VerifyCode(q) \/ BurnCode(q) \/ CountWrongCode(q)
             \/ InvalidateTempToken(q) \/ ConsumeTempToken(q) \/ SwitchMfa(q) \/ WriteCodes(q)
             \/ StartRevoke(q) \/ VoidResets(q) \/ OfferReset(q) \/ ClaimReset(q) \/ SetPassword(q) \/ MarkReset(q)
             \/ ReadMailToken(q) \/ UseMailToken(q) \/ LoadRow(q) \/ SaveRow(q)
      PROVE  UNCHANGED sessions
  BY <1>8 DEF Begin, CheckLockout, LoadUser, UpgradeHash, IssueTempToken, ClearAttempts, ReadAttempts, CountAttempt,
     ReadTempToken, VerifyCode, BurnCode, CountWrongCode, InvalidateTempToken, ConsumeTempToken, SwitchMfa, WriteCodes,
     StartRevoke, VoidResets, OfferReset, ClaimReset, SetPassword, MarkReset, ReadMailToken, UseMailToken, LoadRow, SaveRow
<1>9. CASE UNCHANGED authVars
  BY <1>7, <1>9 DEF authVars
<1> QED BY <1>1, <1>2, <1>3, <1>4, <1>5, <1>6, <1>7, <1>8, <1>9 DEF AuthNext

LEMMA TempsGoOn ==
  ASSUME AccountTyped, RequestStepsFit, TokensIssued, [AuthNext]_authVars
  PROVE  \A t \in Issued : TempGoesOn(t)
<1>a. \A t \in Issued : temps[t] \in TempRow
  BY DEF AccountTyped
<1>1. ASSUME NEW q \in Requests, IssueTempToken(q) PROVE \A t \in Issued : TempGoesOn(t)
  <2>1. temps'[q] = [state |-> "live", attempts |-> 0, under |-> request[q].under]
        /\ \A t \in Issued : t # q => temps'[t] = temps[t]
    BY <1>1, RequestsNumbered DEF IssueTempToken, AccountTyped
  <2>2. temps[q].state = "none"
    BY <1>1 DEF TokensIssued, IssueTempToken, At
  <2>3. request'[q].at = "done"
    BY <1>1, Going DEF IssueTempToken
  <2> QED BY <1>1, <2>1, <2>2, <2>3 DEF TempGoesOn, IssueTempToken
<1>2. ASSUME NEW q \in Requests, CountWrongCode(q) \/ InvalidateTempToken(q) \/ ConsumeTempToken(q)
      PROVE  \A t \in Issued : TempGoesOn(t)
  <2>a. request[q].token \in Issued /\ temps[request[q].token].state # "none"
    BY <1>2, KindFits DEF CountWrongCode, InvalidateTempToken, ConsumeTempToken, TokensIssued, At, AccountTyped, RequestRow
  <2>1. PICK t \in Issued : /\ temps[t].state # "none"
                           /\ \/ temps' = [temps EXCEPT ![t].attempts = @ + 1]
                              \/ temps' = [temps EXCEPT ![t] = Consumed(@)]
    BY <1>2, <2>a DEF CountWrongCode, InvalidateTempToken, ConsumeTempToken
  <2>2. \A x \in TempRow : Consumed(x) \in TempRow /\ Consumed(x).state = "gone" /\ Consumed(x).under = x.under
    BY DEF Consumed, TempRow
  <2>3. CASE temps' = [temps EXCEPT ![t].attempts = @ + 1]
    BY <1>a, <2>3 DEF TempGoesOn, AccountTyped, TempRow
  <2>4. CASE temps' = [temps EXCEPT ![t] = Consumed(@)]
    <3>1. temps'[t] = Consumed(temps[t]) /\ \A u \in Issued : u # t => temps'[u] = temps[u]
      BY <2>4 DEF AccountTyped
    <3>2. temps'[t].state = "gone" /\ temps'[t].under = temps[t].under
      BY <1>a, <2>2, <3>1
    <3>3. TempGoesOn(t)
      BY <2>1, <3>2 DEF TempGoesOn
    <3>4. \A u \in Issued : u # t => TempGoesOn(u)
      BY <1>a, <3>1 DEF TempGoesOn
    <3> QED BY <3>3, <3>4
  <2> QED BY <2>1, <2>3, <2>4
<1>7. CASE UNCHANGED temps
  BY <1>a, <1>7 DEF TempGoesOn, TempRow
<1>8. ASSUME NEW q \in Requests,
             \/ Begin(q) \/ CheckLockout(q) \/ LoadUser(q) \/ UpgradeHash(q)
             \/ ClearAttempts(q) \/ StoreSession(q) \/ ReadAttempts(q) \/ CountAttempt(q)
             \/ ReadTempToken(q) \/ VerifyCode(q) \/ BurnCode(q) \/ SwitchMfa(q) \/ WriteCodes(q)
             \/ LockToken(q) \/ CommitRefresh(q) \/ StartRevoke(q) \/ FinishRevoke(q)
             \/ VoidResets(q) \/ OfferReset(q) \/ ClaimReset(q) \/ SetPassword(q) \/ MarkReset(q)
             \/ ReadMailToken(q) \/ UseMailToken(q) \/ LoadRow(q) \/ SaveRow(q) \/ CrashRequest(q)
      PROVE  UNCHANGED temps
  BY <1>8 DEF Begin, CheckLockout, LoadUser, UpgradeHash, ClearAttempts, StoreSession, ReadAttempts, CountAttempt,
     ReadTempToken, VerifyCode, BurnCode, SwitchMfa, WriteCodes, LockToken, CommitRefresh, StartRevoke, FinishRevoke,
     VoidResets, OfferReset, ClaimReset, SetPassword, MarkReset, ReadMailToken, UseMailToken, LoadRow, SaveRow, CrashRequest
<1>9. ASSUME NEW s \in Issued, GraceEnds(s) \/ ExpireSession(s) PROVE UNCHANGED temps
  BY <1>9 DEF GraceEnds, ExpireSession
<1>10. CASE UNCHANGED authVars
  BY <1>7, <1>10 DEF authVars
<1> QED BY <1>1, <1>2, <1>7, <1>8, <1>9, <1>10 DEF AuthNext

(* What a step does to the password and to the state of the account. *)
UserGoesOn ==
  /\ \/ user'.password = user.password
     \/ \E q \in Requests : SetPassword(q)
     \/ \E q \in Requests : request[q].at \in {"upgrade", "save"} /\ user'.password = request[q].row.password
  /\ user'.active = user.active \/ \E q \in Requests : SaveRow(q)

(* Every step keeps what no step takes back. *)
LEMMA StepKeeps ==
  ASSUME AccountTyped, RequestStepsFit, TokensIssued, [AuthNext]_authVars
  PROVE  Kept
<1>1. together \subseteq together'
  <2>1. ASSUME NEW q \in Requests, Begin(q) PROVE together \subseteq together'
    BY <2>1 DEF Begin
  <2>2. ASSUME NEW q \in Requests,
               \/ CheckLockout(q) \/ LoadUser(q) \/ UpgradeHash(q) \/ IssueTempToken(q)
               \/ ClearAttempts(q) \/ StoreSession(q) \/ ReadAttempts(q) \/ CountAttempt(q)
               \/ ReadTempToken(q) \/ VerifyCode(q) \/ BurnCode(q) \/ CountWrongCode(q)
               \/ InvalidateTempToken(q) \/ ConsumeTempToken(q) \/ SwitchMfa(q) \/ WriteCodes(q)
        PROVE  UNCHANGED together
    BY <2>2 DEF CheckLockout, LoadUser, UpgradeHash, IssueTempToken, ClearAttempts, StoreSession, ReadAttempts,
       CountAttempt, ReadTempToken, VerifyCode, BurnCode, CountWrongCode, InvalidateTempToken, ConsumeTempToken,
       SwitchMfa, WriteCodes
  <2>3. ASSUME NEW q \in Requests,
               \/ LockToken(q) \/ CommitRefresh(q) \/ StartRevoke(q) \/ FinishRevoke(q)
               \/ VoidResets(q) \/ OfferReset(q) \/ ClaimReset(q) \/ SetPassword(q) \/ MarkReset(q)
               \/ ReadMailToken(q) \/ UseMailToken(q) \/ LoadRow(q) \/ SaveRow(q) \/ CrashRequest(q)
        PROVE  UNCHANGED together
    BY <2>3 DEF LockToken, CommitRefresh, StartRevoke, FinishRevoke, VoidResets, OfferReset, ClaimReset, SetPassword,
       MarkReset, ReadMailToken, UseMailToken, LoadRow, SaveRow, CrashRequest
  <2>4. ASSUME NEW s \in Issued, GraceEnds(s) \/ ExpireSession(s) PROVE UNCHANGED together
    BY <2>4 DEF GraceEnds, ExpireSession
  <2>5. CASE UNCHANGED authVars
    BY <2>5 DEF authVars
  <2> QED BY <2>1, <2>2, <2>3, <2>4, <2>5 DEF AuthNext
<1>2. \A q \in Requests : RequestGoesOn(q)
  BY RequestsAdvance DEF Advances
<1> QED BY <1>1, <1>2, SessionsGoOn, TempsGoOn DEF Kept, RequestGoesOn, SessionGoesOn, TempGoesOn

LEMMA UserGoes ==
  ASSUME AccountTyped, [AuthNext]_authVars
  PROVE  UserGoesOn
<1>a. user \in UserRow
  BY DEF AccountTyped
<1>1. ASSUME NEW q \in Requests, UpgradeHash(q) PROVE UserGoesOn
  BY <1>a, <1>1 DEF UpgradeHash, UserGoesOn, UserRow, At
<1>2. ASSUME NEW q \in Requests, SaveRow(q) PROVE UserGoesOn
  <2>1. request[q].row \in UserRow
    BY DEF AccountTyped, RequestRow
  <2>2. user'.password = request[q].row.password
    BY <1>2, <2>1 DEF SaveRow, SavedRow, UserRow
  <2> QED BY <1>2, <2>2 DEF SaveRow, UserGoesOn, At
<1>3. ASSUME NEW q \in Requests, SetPassword(q) PROVE UserGoesOn
  BY <1>a, <1>3 DEF SetPassword, UserGoesOn, UserRow
<1>4. ASSUME NEW q \in Requests, BurnCode(q) \/ SwitchMfa(q) \/ WriteCodes(q) PROVE UserGoesOn
  BY <1>a, <1>4 DEF BurnCode, SwitchMfa, WriteCodes, UserGoesOn, UserRow
<1>5. CASE UNCHANGED user
  BY <1>5 DEF UserGoesOn
<1>6. ASSUME NEW q \in Requests,
             \/ Begin(q) \/ CheckLockout(q) \/ LoadUser(q) \/ IssueTempToken(q)
             \/ ClearAttempts(q) \/ StoreSession(q) \/ ReadAttempts(q) \/ CountAttempt(q)
             \/ ReadTempToken(q) \/ VerifyCode(q) \/ CountWrongCode(q)
             \/ InvalidateTempToken(q) \/ ConsumeTempToken(q)
             \/ LockToken(q) \/ CommitRefresh(q) \/ StartRevoke(q) \/ FinishRevoke(q)
             \/ VoidResets(q) \/ OfferReset(q) \/ ClaimReset(q) \/ MarkReset(q)
             \/ ReadMailToken(q) \/ UseMailToken(q) \/ LoadRow(q) \/ CrashRequest(q)
      PROVE  UNCHANGED user
  BY <1>6 DEF Begin, CheckLockout, LoadUser, IssueTempToken, ClearAttempts, StoreSession, ReadAttempts, CountAttempt,
     ReadTempToken, VerifyCode, CountWrongCode, InvalidateTempToken, ConsumeTempToken, LockToken, CommitRefresh,
     StartRevoke, FinishRevoke, VoidResets, OfferReset, ClaimReset, MarkReset, ReadMailToken, UseMailToken, LoadRow,
     CrashRequest
<1>7. ASSUME NEW s \in Issued, GraceEnds(s) \/ ExpireSession(s) PROVE UNCHANGED user
  BY <1>7 DEF GraceEnds, ExpireSession
<1>8. CASE UNCHANGED authVars
  BY <1>5, <1>8 DEF authVars
<1> QED BY <1>1, <1>2, <1>3, <1>4, <1>5, <1>6, <1>7, <1>8 DEF AuthNext

(* Two requests under way have overlapped. *)
LEMMA OverlapsBoth ==
  ASSUME InOrder, NEW q \in Requests, NEW r \in Requests, q # r, Running(q), Running(r)
  PROVE  Overlapped(q, r) /\ Overlapped(r, q)
<1>1. q < r \/ r < q
  BY RequestsNumbered
<1>2. {q, r} = {r, q}
  OBVIOUS
<1> QED BY <1>1, <1>2 DEF InOrder, Overlapped, Running, At

LEMMA StaysInOrder ==
  ASSUME AccountTyped, RequestStepsFit, TokensIssued, InOrder, [AuthNext]_authVars
  PROVE  InOrder'
<1> SUFFICES ASSUME NEW r \in Requests, NEW q \in Requests, r < q, request'[q].at # "idle"
             PROVE  request'[r].at # "idle" /\ (request'[r].at # "done" => {r, q} \in together')
  BY DEF InOrder, Running, Overlapped, At
<1>1. RequestGoesOn(q) /\ RequestGoesOn(r) /\ Kept
  BY RequestsAdvance, StepKeeps DEF Advances
<1>2. CASE ~At(q, "idle")
  BY <1>1, <1>2 DEF InOrder, RequestGoesOn, Kept, Running, Overlapped, At
<1>3. CASE At(q, "idle")
  <2>1. Begin(q)
    BY <1>1, <1>3 DEF RequestGoesOn, At
  <2>2. ~At(r, "idle")
    BY <2>1 DEF Begin
  <2>3. Running(r) => {r, q} \in together'
    <3>1. {r, q} = {q, r}
      OBVIOUS
    <3> QED BY <2>1, <3>1 DEF Begin
  <2> QED BY <1>1, <2>2, <2>3 DEF RequestGoesOn, Running, At
<1> QED BY <1>2, <1>3

LEMMA TokensStayIssued ==
  ASSUME AccountTyped, RequestStepsFit, TokensIssued, [AuthNext]_authVars
  PROVE  TokensIssued'
<1> SUFFICES ASSUME NEW q \in Requests
             PROVE  /\ request'[q].kind = "refresh" => sessions'[request'[q].token].state # "none"
                    /\ request'[q].kind \in SecondFactors => temps'[request'[q].token].state # "none"
                    /\ sessions'[q].state # "none" => request'[q].at \in {"commit", "done", "crashed"}
                    /\ temps'[q].state # "none" => request'[q].kind = "login" /\ request'[q].at = "done"
  BY DEF TokensIssued, At
<1>1. RequestGoesOn(q) /\ Kept /\ SessionGoesOn(q) /\ TempGoesOn(q)
  BY RequestsAdvance, StepKeeps, SessionsGoOn, TempsGoOn, RequestsNumbered DEF Advances
<1>2. request[q].token \in Issued
  BY DEF AccountTyped, RequestRow
<1>3. sessions'[q].state # "none" => request'[q].at \in {"commit", "done", "crashed"}
  <2>1. CASE sessions[q].state # "none"
    BY <1>1, <2>1 DEF TokensIssued, RequestGoesOn, At
  <2>2. CASE sessions[q].state = "none"
    BY <1>1, <2>2 DEF SessionGoesOn
  <2> QED BY <2>1, <2>2
<1>4. temps'[q].state # "none" => request'[q].kind = "login" /\ request'[q].at = "done"
  <2>1. CASE temps[q].state # "none"
    BY <1>1, <2>1 DEF TokensIssued, RequestGoesOn, At
  <2>2. CASE temps[q].state = "none"
    BY <1>1, <2>2, KindFits DEF TempGoesOn, RequestGoesOn, At
  <2> QED BY <2>1, <2>2
<1>5. CASE ~At(q, "idle")
  BY <1>1, <1>2, <1>3, <1>4, <1>5 DEF RequestGoesOn, TokensIssued, Kept
<1>6. CASE request'[q] = request[q]
  BY <1>1, <1>2, <1>3, <1>4, <1>6 DEF TokensIssued, Kept
<1>7. CASE Begin(q)
  <2>1. PICK kind \in authPlot.kinds : \E token \in TokensFor(kind), typed \in TypedFor(kind) :
          request' = [request EXCEPT ![q] = [Waiting EXCEPT !.kind = kind, !.at = FirstStep(kind),
                                                            !.token = token, !.typed = typed]]
    BY <1>7 DEF Begin
  <2>2. PICK token \in TokensFor(kind), typed \in TypedFor(kind) :
          request' = [request EXCEPT ![q] = [Waiting EXCEPT !.kind = kind, !.at = FirstStep(kind),
                                                            !.token = token, !.typed = typed]]
    BY <2>1
  <2>3. request'[q].kind = kind /\ request'[q].token = token
    BY <2>2 DEF AccountTyped, Waiting
  <2>4. kind = "refresh" => sessions[token].state # "none"
    BY DEF TokensFor
  <2>5. kind \in SecondFactors => temps[token].state # "none"
    BY DEF TokensFor, SecondFactors
  <2>6. UNCHANGED <<sessions, temps>>
    BY <1>7 DEF Begin
  <2> QED BY <1>3, <1>4, <2>3, <2>4, <2>5, <2>6
<1> QED BY <1>1, <1>5, <1>6, <1>7 DEF RequestGoesOn
----------------------------------------------------------------------------
(* What a request of each kind does next, as its kind does. *)
LEMMA Fitting ==
  ASSUME AccountTyped, RequestStepsFit, NEW q \in Requests, NEW step, Goes(q, step), ~At(q, "idle"),
         step \in StepsOf(request[q].kind) \cup {"done", "crashed"}, step # "lock"
  PROVE  RequestStepsFit'
<1>1. request[q].kind # "none"
  BY KindFits DEF At
<1>2. /\ request'[q].at = step /\ request'[q].kind = request[q].kind /\ request'[q].typed = request[q].typed
      /\ \A r \in Requests : r # q => request'[r] = request[r]
  BY Going
<1>3. Fits(q)'
  BY <1>1, <1>2 DEF RequestStepsFit, Fits, At
<1>4. \A r \in Requests : r # q => Fits(r)'
  BY <1>2 DEF RequestStepsFit, Fits, At
<1> QED BY <1>3, <1>4 DEF RequestStepsFit

LEMMA FittingToo ==
  ASSUME AccountTyped, RequestStepsFit, NEW q \in Requests, NEW new \in RequestRow, request' = [request EXCEPT ![q] = new],
         new.at \in StepsOf(new.kind) \/ (new.kind # "none" /\ new.at \in {"done", "crashed"}),
         (new.kind \notin {"refresh", "recovery", "force"} \/ new.at = "lock") => new.typed \notin {"grace", "notify"}
  PROVE  RequestStepsFit'
<1>1. request'[q] = new /\ \A r \in Requests : r # q => request'[r] = request[r]
  BY DEF AccountTyped
<1>2. Fits(q)'
  BY <1>1 DEF Fits, At
<1>3. \A r \in Requests : r # q => Fits(r)'
  BY <1>1 DEF RequestStepsFit, Fits, At
<1> QED BY <1>2, <1>3 DEF RequestStepsFit

LEMMA StepsStayFit ==
  ASSUME AccountTyped, RequestStepsFit, [AuthNext]_authVars
  PROVE  RequestStepsFit'
<1>a. \A q \in Requests : request[q] \in RequestRow
  BY DEF AccountTyped
<1>1. ASSUME NEW q \in Requests, Begin(q) PROVE RequestStepsFit'
  <2>1. PICK kind \in authPlot.kinds : \E token \in TokensFor(kind), typed \in TypedFor(kind) :
          request' = [request EXCEPT ![q] = [Waiting EXCEPT !.kind = kind, !.at = FirstStep(kind),
                                                            !.token = token, !.typed = typed]]
    BY <1>1 DEF Begin
  <2>2. PICK token \in TokensFor(kind), typed \in TypedFor(kind) :
          request' = [request EXCEPT ![q] = [Waiting EXCEPT !.kind = kind, !.at = FirstStep(kind),
                                                            !.token = token, !.typed = typed]]
    BY <2>1
  <2>3. kind \in AuthKinds
    BY DEF AccountTyped
  <2>4. FirstStep(kind) \in StepsOf(kind) /\ (FirstStep(kind) = "lock" => kind = "refresh") /\ kind # "none"
    BY <2>3 DEF AuthKinds, FirstStep, StepsOf, SecondFactors
  <2>5. kind \notin {"recovery", "force"} => typed \notin {"grace", "notify"}
    BY DEF TypedFor
  <2>6. /\ request'[q].at = FirstStep(kind) /\ request'[q].kind = kind /\ request'[q].typed = typed
        /\ \A r \in Requests : r # q => request'[r] = request[r]
    BY <2>2 DEF AccountTyped, Waiting
  <2>7. Fits(q)'
    BY <2>4, <2>5, <2>6 DEF Fits, At
  <2>8. \A r \in Requests : r # q => Fits(r)'
    BY <2>6 DEF RequestStepsFit, Fits, At
  <2> QED BY <2>7, <2>8 DEF RequestStepsFit
<1>2. ASSUME NEW q \in Requests, CheckLockout(q) \/ CountAttempt(q) PROVE RequestStepsFit'
  BY <1>2, KindFits, Fitting DEF CheckLockout, CountAttempt, At, StepsOf, SecondFactors
<1>3. ASSUME NEW q \in Requests, LoadUser(q) PROVE RequestStepsFit'
  <2>1. user \in UserRow /\ user.active \in BOOLEAN /\ user.legacy \in BOOLEAN /\ user.mfa \in BOOLEAN /\ user.password \in Issued
    BY DEF AccountTyped, UserRow
  <2>2. AfterPassword(user) \in {"issue", "clear"}
    BY <2>1 DEF AfterPassword
  <2>3. PICK at \in {"done", "miss", "upgrade", "issue", "clear"} :
          request' = [request EXCEPT ![q].at = at, ![q].row = user, ![q].under = user.password]
    BY <1>3, <2>1, <2>2 DEF LoadUser
  <2> DEFINE new == [request[q] EXCEPT !.at = at, !.row = user, !.under = user.password]
  <2>4. request' = [request EXCEPT ![q] = new]
    BY <2>3 DEF AccountTyped
  <2>x. at \in AuthSteps
    BY DEF AuthSteps
  <2>5. new \in RequestRow
    BY <1>a, <2>1, <2>x DEF RequestRow
  <2>6. new.at = at /\ new.kind = request[q].kind /\ new.typed = request[q].typed
    BY <1>a DEF RequestRow
  <2>7. request[q].kind = "login" /\ request[q].typed \notin {"grace", "notify"}
    BY <1>3, KindFits DEF LoadUser, At, RequestStepsFit, Fits
  <2>8. at \in StepsOf("login") \cup {"done"}
    BY DEF StepsOf, SecondFactors
  <2> QED BY <2>4, <2>5, <2>6, <2>7, <2>8, FittingToo
<1>4. ASSUME NEW q \in Requests, UpgradeHash(q) PROVE RequestStepsFit'
  <2>1. AfterPassword(request[q].row) \in {"issue", "clear"}
    BY DEF AfterPassword
  <2> QED BY <1>4, <2>1, KindFits, Fitting DEF UpgradeHash, At, StepsOf, SecondFactors
<1>5. ASSUME NEW q \in Requests, IssueTempToken(q) \/ ClearAttempts(q) PROVE RequestStepsFit'
  BY <1>5, KindFits, Fitting DEF IssueTempToken, ClearAttempts, At, StepsOf, SecondFactors
<1>6. ASSUME NEW q \in Requests, StoreSession(q) PROVE RequestStepsFit'
  BY <1>6, KindFits, Fitting DEF StoreSession, At, StepsOf, SecondFactors
<1>7. ASSUME NEW q \in Requests, ReadAttempts(q) PROVE RequestStepsFit'
  <2> DEFINE new == [request[q] EXCEPT !.at = "count", !.count = lockout]
  <2>1. request' = [request EXCEPT ![q] = new]
    BY <1>7 DEF ReadAttempts, AccountTyped
  <2>2. lockout \in Failures
    BY DEF AccountTyped
  <2>x. "count" \in AuthSteps
    BY DEF AuthSteps
  <2>3. new \in RequestRow
    BY <1>a, <2>2, <2>x DEF RequestRow
  <2>4. new.at = "count" /\ new.kind = request[q].kind /\ new.typed = request[q].typed
    BY <1>a DEF RequestRow
  <2>5. At(q, "miss") /\ request[q].kind \in SecondFactors \cup {"login"}
    BY <1>7, KindFits DEF ReadAttempts, At
  <2>6. "count" \in StepsOf(request[q].kind)
    BY <2>5 DEF StepsOf, SecondFactors
  <2> QED BY <2>1, <2>3, <2>4, <2>5, <2>6, FittingToo DEF RequestStepsFit, Fits
<1>8. ASSUME NEW q \in Requests, ReadTempToken(q) PROVE RequestStepsFit'
  <2>1. PICK at \in {"verify", "done"}, under \in Issued : request' = [request EXCEPT ![q].at = at, ![q].under = under]
    BY <1>8 DEF ReadTempToken, AccountTyped, RequestRow, TempRow
  <2> DEFINE new == [request[q] EXCEPT !.at = at, !.under = under]
  <2>2. request' = [request EXCEPT ![q] = new]
    BY <2>1 DEF AccountTyped
  <2>x. at \in AuthSteps
    BY DEF AuthSteps
  <2>3. new \in RequestRow
    BY <1>a, <2>x DEF RequestRow
  <2>4. new.at = at /\ new.kind = request[q].kind /\ new.typed = request[q].typed
    BY <1>a DEF RequestRow
  <2>5. request[q].kind \in SecondFactors
    BY <1>8, KindFits DEF ReadTempToken, At
  <2>6. at \in StepsOf(request[q].kind) \cup {"done"} /\ request[q].kind # "none"
    BY <2>5 DEF StepsOf, SecondFactors
  <2>7. request[q].kind \notin {"refresh", "recovery", "force"} => request[q].typed \notin {"grace", "notify"}
    BY DEF RequestStepsFit, Fits
  <2> HIDE DEF new
  <2> QED BY <2>2, <2>3, <2>4, <2>6, <2>7, FittingToo
<1>9. ASSUME NEW q \in Requests, VerifyCode(q) PROVE RequestStepsFit'
  <2>1. request[q].kind \in SecondFactors /\ ~At(q, "idle")
    BY <1>9, KindFits DEF VerifyCode, At
  <2>2. {"consume", "wrong code", "burn"} \subseteq StepsOf(request[q].kind)
    BY <2>1 DEF StepsOf, SecondFactors
  <2>3. CASE request[q].kind = "totp"
    <3>1. PICK step \in {"done", "consume", "wrong code"} : Goes(q, step)
      BY <1>9, <2>3 DEF VerifyCode
    <3> QED BY <2>1, <2>2, <3>1, Fitting
  <2>4. CASE request[q].kind # "totp"
    <3>1. PICK at \in {"burn", "wrong code"} : request' = [request EXCEPT ![q].at = at, ![q].codes = user.codes]
      BY <1>9, <2>4 DEF VerifyCode
    <3> DEFINE new == [request[q] EXCEPT !.at = at, !.codes = user.codes]
    <3>2. request' = [request EXCEPT ![q] = new]
      BY <3>1 DEF AccountTyped
    <3>3. user.codes \in SUBSET RecoveryCodes
      BY DEF AccountTyped, UserRow
    <3>x. at \in AuthSteps
      BY DEF AuthSteps
    <3>4. new \in RequestRow
      BY <1>a, <3>3, <3>x DEF RequestRow
    <3>5. new.at = at /\ new.kind = request[q].kind /\ new.typed = request[q].typed
      BY <1>a DEF RequestRow
    <3>6. at \in StepsOf(request[q].kind) /\ at # "lock"
      BY <2>2
    <3>7. request[q].kind \notin {"refresh", "recovery", "force"} => request[q].typed \notin {"grace", "notify"}
      BY DEF RequestStepsFit, Fits
    <3> HIDE DEF new
    <3> QED BY <3>2, <3>4, <3>5, <3>6, <3>7, FittingToo
  <2> QED BY <2>3, <2>4
<1>10. ASSUME NEW q \in Requests, BurnCode(q) \/ CountWrongCode(q) PROVE RequestStepsFit'
  BY <1>10, KindFits, Fitting DEF BurnCode, CountWrongCode, At, StepsOf, SecondFactors
<1>11. ASSUME NEW q \in Requests, InvalidateTempToken(q) \/ ConsumeTempToken(q) PROVE RequestStepsFit'
  BY <1>11, KindFits, Fitting DEF InvalidateTempToken, ConsumeTempToken, At, StepsOf, SecondFactors
<1>12. ASSUME NEW q \in Requests, SwitchMfa(q) \/ WriteCodes(q) PROVE RequestStepsFit'
  BY <1>12, KindFits, Fitting DEF SwitchMfa, WriteCodes, At, StepsOf, SecondFactors
<1>13. ASSUME NEW q \in Requests, LockToken(q) PROVE RequestStepsFit'
  <2>1. PICK at \in {"store", "done"}, typed \in {"exchange", "grace"}, under \in Issued :
          request' = [request EXCEPT ![q].at = at, ![q].typed = typed, ![q].under = under]
    <3>1. sessions[request[q].token].under \in Issued
      BY DEF AccountTyped, RequestRow, SessionRow
    <3> QED BY <1>13, <3>1 DEF LockToken
  <2> DEFINE new == [request[q] EXCEPT !.at = at, !.typed = typed, !.under = under]
  <2>2. request' = [request EXCEPT ![q] = new]
    BY <2>1 DEF AccountTyped
  <2>x. at \in AuthSteps
    BY DEF AuthSteps
  <2>3. new \in RequestRow
    BY <1>a, <2>x DEF RequestRow, TypedValues
  <2>4. new.at = at /\ new.kind = request[q].kind
    BY <1>a DEF RequestRow
  <2>5. request[q].kind = "refresh"
    BY <1>13, KindFits DEF LockToken, At
  <2>6. at \in StepsOf("refresh") \cup {"done"}
    BY DEF StepsOf, SecondFactors
  <2> HIDE DEF new
  <2> QED BY <2>2, <2>3, <2>4, <2>5, <2>6, FittingToo
<1>14. ASSUME NEW q \in Requests, CommitRefresh(q) PROVE RequestStepsFit'
  BY <1>14, KindFits, Fitting DEF CommitRefresh, At
<1>15. ASSUME NEW q \in Requests, StartRevoke(q) PROVE RequestStepsFit'
  <2> DEFINE new == [request[q] EXCEPT !.at = "sweeping", !.victims = Victims(q)]
  <2>1. request' = [request EXCEPT ![q] = new]
    BY <1>15 DEF StartRevoke, AccountTyped
  <2>2. Victims(q) \in SUBSET Issued
    BY DEF Victims
  <2>x. "sweeping" \in AuthSteps
    BY DEF AuthSteps
  <2>3. new \in RequestRow
    BY <1>a, <2>2, <2>x DEF RequestRow
  <2>4. new.at = "sweeping" /\ new.kind = request[q].kind /\ new.typed = request[q].typed
    BY <1>a DEF RequestRow
  <2>5. /\ request[q].kind \in {"logout", "logoutAll", "revokeOthers", "reset", "force", "deactivate"}
        /\ request[q].kind = "deactivate" => request[q].typed \notin {"grace", "notify"}
    BY <1>15, KindFits DEF StartRevoke, At, RequestStepsFit, Fits
  <2>6. "sweeping" \in StepsOf(request[q].kind)
    BY <2>5 DEF StepsOf, SecondFactors
  <2>7. request[q].kind \notin {"refresh", "recovery", "force"} => request[q].typed \notin {"grace", "notify"}
    BY DEF RequestStepsFit, Fits
  <2> HIDE DEF new
  <2> QED BY <2>1, <2>3, <2>4, <2>5, <2>6, <2>7, FittingToo
<1>16. ASSUME NEW q \in Requests, FinishRevoke(q) PROVE RequestStepsFit'
  <2>1. CASE request[q].typed = "notify" /\ request[q].kind = "force"
    BY <1>16, <2>1, Fitting DEF FinishRevoke, At, StepsOf, SecondFactors
  <2>2. CASE request[q].typed # "notify"
    BY <1>16, <2>2, Fitting DEF FinishRevoke, At
  <2>3. request[q].typed = "notify" => request[q].kind = "force"
    BY <1>16, KindFits DEF FinishRevoke, At, RequestStepsFit, Fits, SecondFactors
  <2> QED BY <2>1, <2>2, <2>3
<1>17. ASSUME NEW q \in Requests, VoidResets(q) \/ OfferReset(q) PROVE RequestStepsFit'
  BY <1>17, KindFits, Fitting DEF VoidResets, OfferReset, At, StepsOf, SecondFactors
<1>18. ASSUME NEW q \in Requests, ClaimReset(q) \/ SetPassword(q) \/ MarkReset(q) PROVE RequestStepsFit'
  BY <1>18, KindFits, Fitting DEF ClaimReset, SetPassword, MarkReset, At, StepsOf, SecondFactors, Setters
<1>19. ASSUME NEW q \in Requests, ReadMailToken(q) \/ UseMailToken(q) PROVE RequestStepsFit'
  BY <1>19, KindFits, Fitting DEF ReadMailToken, UseMailToken, At, StepsOf, SecondFactors
<1>20. ASSUME NEW q \in Requests, LoadRow(q) PROVE RequestStepsFit'
  <2>1. PICK at \in {"done", "save"} : request' = [request EXCEPT ![q].at = at, ![q].row = user]
    BY <1>20 DEF LoadRow
  <2> DEFINE new == [request[q] EXCEPT !.at = at, !.row = user]
  <2>2. request' = [request EXCEPT ![q] = new]
    BY <2>1 DEF AccountTyped
  <2>3. user \in UserRow
    BY DEF AccountTyped
  <2>x. at \in AuthSteps
    BY DEF AuthSteps
  <2>4. new \in RequestRow
    BY <1>a, <2>3, <2>x DEF RequestRow
  <2>5. new.at = at /\ new.kind = request[q].kind /\ new.typed = request[q].typed
    BY <1>a DEF RequestRow
  <2>6. /\ request[q].kind \in {"verifyEmail", "activate", "deactivate"}
        /\ request[q].kind = "deactivate" => request[q].typed \notin {"grace", "notify"}
    BY <1>20, KindFits DEF LoadRow, At, RequestStepsFit, Fits
  <2>7. at \in StepsOf(request[q].kind) \cup {"done"}
    BY <2>6 DEF StepsOf, SecondFactors
  <2> HIDE DEF new
  <2>8. request[q].kind \notin {"refresh", "recovery", "force"} => request[q].typed \notin {"grace", "notify"}
    BY DEF RequestStepsFit, Fits
  <2> QED BY <2>2, <2>4, <2>5, <2>6, <2>7, <2>8, FittingToo
<1>21. ASSUME NEW q \in Requests, SaveRow(q) PROVE RequestStepsFit'
  <2>1. request[q].kind \in {"verifyEmail", "activate", "deactivate"} /\ ~At(q, "idle")
    BY <1>21, KindFits DEF SaveRow, At
  <2>2. PICK step \in {"sweep", "done"} : Goes(q, step) /\ (step = "sweep" => request[q].kind = "deactivate")
    <3>1. request[q].kind \in {"verifyEmail", "activate"} =>
            ~(request[q].row.active /\ ~SavedRow(request[q].row, request[q].kind).active)
      BY <1>a DEF SavedRow, RequestRow, UserRow
    <3> QED BY <1>21, <2>1, <3>1 DEF SaveRow
  <2>3. step = "sweep" => step \in StepsOf(request[q].kind)
    BY <2>2 DEF StepsOf, SecondFactors
  <2> QED BY <2>1, <2>2, <2>3, Fitting
<1>22. ASSUME NEW q \in Requests, CrashRequest(q) PROVE RequestStepsFit'
  BY <1>22, Fitting DEF CrashRequest, Running, At
<1>23. CASE UNCHANGED request
  BY <1>23 DEF RequestStepsFit, Fits, At
<1>24. ASSUME NEW s \in Issued, GraceEnds(s) \/ ExpireSession(s) PROVE UNCHANGED request
  BY <1>24 DEF GraceEnds, ExpireSession
<1>25. CASE UNCHANGED authVars
  BY <1>23, <1>25 DEF authVars
<1> QED BY <1>1, <1>2, <1>3, <1>4, <1>5, <1>6, <1>7, <1>8, <1>9, <1>10, <1>11, <1>12, <1>13, <1>14, <1>15, <1>16,
           <1>17, <1>18, <1>19, <1>20, <1>21, <1>22, <1>23, <1>24, <1>25 DEF AuthNext
(* The line of what a request is to issue.                                 *)
LEMMA LinesStay ==
  ASSUME AccountTyped, TokensIssued, Kept, NEW q \in Requests, ~At(q, "idle")
  PROVE  LineOf(q)' = LineOf(q)
<1>1. request'[q].kind = request[q].kind /\ request'[q].token = request[q].token /\ request[q].token \in Issued
  BY DEF Kept, AccountTyped, RequestRow
<1>2. CASE request[q].kind = "refresh"
  BY <1>1, <1>2 DEF TokensIssued, Kept, LineOf
<1>3. CASE request[q].kind # "refresh"
  BY <1>1, <1>3 DEF LineOf
<1> QED BY <1>2, <1>3

LEMMA LineTyped ==
  ASSUME AccountTyped, NEW q \in Requests
  PROVE  LineOf(q) \in SUBSET Requests /\ q \in LineOf(q)
<1>1. request[q].token \in Issued /\ sessions[request[q].token].line \in SUBSET Requests
  BY DEF AccountTyped, RequestRow, SessionRow
<1>2. request[q].token # 0 => request[q].token \in Requests
  BY <1>1 DEF Issued
<1> QED BY <1>1, <1>2 DEF LineOf

(* Who overlapped a change that is not over is excused, and so is the      *)
(* temporary token of a login that did, and all that comes from it.        *)
LEMMA RunningCrosses ==
  ASSUME InOrder, NEW q \in Requests, NEW r \in Requests, q # r, Running(q), Running(r),
         NEW kinds, request[r].kind \in kinds, NEW line, q \in line
  PROVE  Crossed(line, kinds)
BY OverlapsBoth DEF Crossed

LEMMA FactorsCross ==
  ASSUME InOrder, TokensIssued, NEW t \in Issued, NEW r \in Requests, Running(r), request[r].kind # "login",
         NEW kinds, request[r].kind \in kinds, temps[t].state # "none"
  PROVE  FactorCrossed(t, kinds)
<1>1. CASE t \in Requests /\ r < t
  <2>1. ~At(t, "idle")
    BY <1>1 DEF TokensIssued, At
  <2> QED BY <1>1, <2>1 DEF InOrder, FactorCrossed
<1>2. CASE t \in Requests /\ r = t
  BY <1>2 DEF TokensIssued
<1>3. CASE t < r
  BY <1>3 DEF FactorCrossed
<1>4. (t \in Requests /\ (r < t \/ r = t)) \/ t < r
  BY IssuedNumbered, RequestsNumbered
<1> QED BY <1>1, <1>2, <1>3, <1>4

LEMMA SecondFactorCrosses ==
  ASSUME AccountTyped, NEW q \in Requests, request[q].kind \in SecondFactors, NEW kinds, FactorCrossed(request[q].token, kinds)
  PROVE  Crossed(LineOf(q), kinds)
<1> DEFINE t == request[q].token
<1>1. PICK r \in Requests : request[r].kind \in kinds /\ (t < r \/ (t \in Requests /\ Overlapped(r, t)))
  BY DEF FactorCrossed
<1>2. CASE t < r
  BY <1>1, <1>2, LineTyped DEF Crossed, BeganBefore, SecondFactors
<1>3. CASE t \in Requests /\ Overlapped(r, t)
  <2>1. t \in LineOf(q)
    BY <1>3, RequestsNumbered DEF LineOf, SecondFactors
  <2> QED BY <1>1, <1>3, <2>1 DEF Crossed
<1> QED BY <1>1, <1>2, <1>3

LEMMA LoginFactorCrosses ==
  ASSUME AccountTyped, NEW q \in Requests, request[q].kind = "login", NEW kinds, Crossed(LineOf(q), kinds)
  PROVE  FactorCrossed(q, kinds)
<1>1. LineOf(q) = {q}
  BY DEF LineOf
<1>2. ~\E r \in Requests : BeganBefore(q, r)
  BY DEF BeganBefore
<1> QED BY <1>1, <1>2 DEF Crossed, FactorCrossed

LEMMA ExchangeCrosses ==
  ASSUME AccountTyped, NEW q \in Requests, request[q].kind = "refresh"
  PROVE  /\ \A kinds : Crossed(sessions[request[q].token].line, kinds) => Crossed(LineOf(q), kinds)
         /\ LineExcused(sessions[request[q].token].line) => LineExcused(LineOf(q))
<1>1. sessions[request[q].token].line \subseteq LineOf(q)
  BY DEF LineOf
<1> QED BY <1>1 DEF Crossed, LineExcused
(* The invariant when the password stays. *)
LEMMA SamePasswordStep ==
  ASSUME AccountInv, [AuthNext]_authVars, ~PasswordLost, user'.password = user.password
  PROVE  /\ \A q \in Requests : WritesCurrent(q)' /\ CarriesCurrent(q)'
         /\ \A t \in Issued : FactorCurrent(t)' /\ SessionCurrent(t)'
<1> USE DEF AccountInv
<1>1. Kept /\ \A q \in Requests : Advances(q)
  BY StepKeeps, RequestsAdvance
<1>2. /\ \A q \in Requests : WritesCurrent(q) /\ CarriesCurrent(q)
      /\ \A t \in Issued : FactorCurrent(t) /\ SessionCurrent(t)
  BY DEF PasswordInv
<1>3. ASSUME NEW q \in Requests PROVE WritesCurrent(q)'
  BY <1>1, <1>2 DEF WritesCurrent, Advances, CopiesRow
<1>4. ASSUME NEW q \in Requests, ~At(q, "idle"), LineExcused(LineOf(q)) PROVE LineExcused(LineOf(q))'
  <2>1. PICK line \in SUBSET Requests : line = LineOf(q)
    BY LineTyped
  <2>2. LineExcused(line)' /\ LineOf(q)' = line
    BY <1>1, <1>4, <2>1, ExcusesStay, LinesStay
  <2> QED BY <2>2 DEF LineExcused, Crossed
<1>5. ASSUME NEW q \in Requests PROVE CarriesCurrent(q)'
  <2> SUFFICES ASSUME request'[q].at \in {"upgrade", "issue", "clear", "store", "verify", "burn", "consume"}
               PROVE  request'[q].under = user.password \/ LineExcused(LineOf(q))'
    BY DEF CarriesCurrent, Carries
  <2>1. PicksUp(q) /\ RequestGoesOn(q)
    BY <1>1 DEF Advances
  <2>2. CASE Carries(q) /\ request'[q].under = request[q].under
    BY <1>2, <1>4, <2>2 DEF CarriesCurrent, Carries, At
  <2>3. CASE request'[q].under = user.password
    BY <2>3
  <2>4. CASE At(q, "temp") /\ temps[request[q].token].state # "none" /\ request'[q].under = temps[request[q].token].under
    <3>1. request[q].token \in Issued /\ request[q].kind \in SecondFactors /\ ~At(q, "idle")
      BY <2>4, KindFits DEF At, AccountTyped, RequestRow
    <3>2. FactorCrossed(request[q].token, Setters) => LineExcused(LineOf(q))
      BY <3>1, SecondFactorCrosses DEF LineExcused
    <3> QED BY <1>2, <1>4, <2>4, <3>1, <3>2 DEF FactorCurrent
  <2>5. CASE At(q, "lock") /\ request'[q].typed = "grace"
    <3>1. q \in LineOf(q) /\ LineOf(q)' = LineOf(q)
      BY <1>1, <2>5, LineTyped, LinesStay DEF At
    <3> QED BY <2>5, <3>1 DEF LineExcused
  <2>6. CASE /\ At(q, "lock") /\ sessions[request[q].token].state = "valid"
             /\ request'[q].under = sessions[request[q].token].under
    <3>1. request[q].token \in Issued /\ request[q].kind = "refresh" /\ ~At(q, "idle") /\ ~At(q, "done")
      BY <2>6, KindFits DEF At, AccountTyped, RequestRow
    <3> DEFINE s == request[q].token
               p == user.password
    <3>2. CASE LineExcused(sessions[s].line)
      BY <1>4, <3>1, <3>2, ExchangeCrosses
    <3>3. CASE p \in Requests /\ request[p].kind \in Setters /\ Sweeps(p, s)
      <4>1. p # q
        BY <3>1, <3>3 DEF Setters
      <4>2. Running(p) /\ Running(q)
        BY <3>1, <3>3 DEF Sweeps, Running, At
      <4>3. LineExcused(LineOf(q))
        BY <3>3, <4>1, <4>2, RunningCrosses, LineTyped DEF LineExcused
      <4> QED BY <1>4, <3>1, <4>3
    <3>4. CASE sessions[s].under = p
      BY <2>6, <3>4
    <3> QED BY <1>2, <2>6, <3>1, <3>2, <3>3, <3>4 DEF SessionCurrent
  <2> QED BY <2>1, <2>2, <2>3, <2>4, <2>5, <2>6 DEF PicksUp
<1>6. ASSUME NEW t \in Issued PROVE FactorCurrent(t)'
  <2> SUFFICES ASSUME temps'[t].state # "none"
               PROVE  temps'[t].under = user.password \/ FactorCrossed(t, Setters)'
    BY DEF FactorCurrent
  <2>1. TempGoesOn(t)
    BY TempsGoOn
  <2>2. FactorCrossed(t, Setters) => FactorCrossed(t, Setters)'
    BY <1>1, FactorsStayCrossed DEF Setters
  <2>3. CASE temps[t].state # "none"
    BY <1>2, <2>1, <2>2, <2>3 DEF TempGoesOn, FactorCurrent
  <2>4. CASE temps[t].state = "none"
    <3>1. t \in Requests /\ At(t, "issue") /\ temps'[t].under = request[t].under
      BY <2>1, <2>4 DEF TempGoesOn
    <3>2. request[t].kind = "login" /\ request[t].typed # "grace"
      BY <3>1, KindFits DEF At, RequestStepsFit, Fits
    <3>3. LineOf(t) = {t}
      BY <3>2 DEF LineOf
    <3>4. LineExcused(LineOf(t)) => Crossed(LineOf(t), Setters)
      BY <3>2, <3>3 DEF LineExcused
    <3>5. LineExcused(LineOf(t)) => FactorCrossed(t, Setters)
      BY <3>1, <3>2, <3>4, LoginFactorCrosses
    <3>6. request[t].under = user.password \/ LineExcused(LineOf(t))
      BY <1>2, <3>1 DEF CarriesCurrent, Carries, At
    <3> QED BY <2>2, <3>1, <3>5, <3>6
  <2> QED BY <2>3, <2>4
<1>7. ASSUME NEW s \in Issued PROVE SessionCurrent(s)'
  <2> SUFFICES ASSUME sessions'[s].state = "valid"
               PROVE  \/ sessions'[s].under = user.password
                      \/ LineExcused(sessions[s].line)'
                      \/ user.password \in Requests /\ request'[user.password].kind \in Setters
                         /\ Sweeps(user.password, s)'
    BY DEF SessionCurrent
  <2>1. SessionGoesOn(s) /\ sessions[s] \in SessionRow
    BY SessionsGoOn DEF AccountTyped
  <2>2. CASE sessions[s].state = "valid"
    <3>1. sessions'[s].line = sessions[s].line /\ sessions'[s].under = sessions[s].under
      BY <2>1, <2>2 DEF SessionGoesOn
    <3>2. PICK line \in SUBSET Requests : line = sessions[s].line
      BY <2>1 DEF SessionRow
    <3>3. LineExcused(sessions[s].line) => LineExcused(sessions[s].line)'
      <4>1. LineExcused(line) => LineExcused(line)'
        BY <1>1, ExcusesStay
      <4> QED BY <3>1, <3>2, <4>1 DEF LineExcused, Crossed
    <3>4. CASE user.password \in Requests /\ request[user.password].kind \in Setters /\ Sweeps(user.password, s)
      <4>1. PICK p \in Requests : p = user.password
        BY <3>4
      <4>2. Advances(p) /\ ~At(p, "idle")
        BY <1>1, <3>4, <4>1 DEF Sweeps, At
      <4>3. Sweeps(p, s)' /\ request'[p].kind \in Setters
        BY <2>2, <3>4, <4>1, <4>2 DEF Advances, RequestGoesOn, StillSweeps, Sweeps, At
      <4> QED BY <4>1, <4>3 DEF Sweeps, At
    <3> QED BY <1>2, <2>2, <3>1, <3>3, <3>4 DEF SessionCurrent
  <2>3. CASE sessions[s].state # "valid"
    <3>1. /\ s \in Requests /\ At(s, "store") /\ sessions'[s].under = request[s].under
          /\ sessions'[s].line = LineOf(s)
      BY <2>1, <2>3 DEF SessionGoesOn
    <3>2. request[s].under = user.password \/ LineExcused(LineOf(s))
      BY <1>2, <3>1 DEF CarriesCurrent, Carries, At
    <3>3. PICK line \in SUBSET Requests : line = LineOf(s)
      BY <3>1, LineTyped
    <3>4. LineExcused(line) => LineExcused(line)'
      BY <1>1, ExcusesStay
    <3>5. LineExcused(LineOf(s)) => LineExcused(sessions[s].line)'
      BY <3>1, <3>3, <3>4 DEF LineExcused, Crossed
    <3> QED BY <3>1, <3>2, <3>5
  <2> QED BY <2>2, <2>3
<1> QED BY <1>3, <1>5, <1>6, <1>7
(* A new password is the number of the request that set it, which has yet  *)
(* to revoke the sessions; all who carry the old one overlap it.           *)
LEMMA PasswordStep == AccountInv /\ [AuthNext]_authVars => PasswordInv'
<1> SUFFICES ASSUME AccountInv, [AuthNext]_authVars, ~PasswordLost'
             PROVE  /\ \A q \in Requests : WritesCurrent(q)' /\ CarriesCurrent(q)'
                    /\ \A t \in Issued : FactorCurrent(t)' /\ SessionCurrent(t)'
  BY DEF PasswordInv
<1> USE DEF AccountInv
<1>1. Kept /\ \A q \in Requests : Advances(q)
  BY StepKeeps, RequestsAdvance
<1>2. ~PasswordLost
  BY <1>1, LossesStay DEF PasswordLost, Setters, RowWriters
<1>3. CASE user'.password = user.password
  BY <1>2, <1>3, SamePasswordStep
<1>4. ASSUME NEW q \in Requests, request[q].at \in {"upgrade", "save"}, user'.password = request[q].row.password
      PROVE  user'.password = user.password
  BY <1>2, <1>4 DEF PasswordInv, WritesCurrent
<1>5. ASSUME NEW q \in Requests, SetPassword(q)
      PROVE  /\ \A r \in Requests : WritesCurrent(r)' /\ CarriesCurrent(r)'
             /\ \A t \in Issued : FactorCurrent(t)' /\ SessionCurrent(t)'
  <2>1. /\ request[q].kind \in Setters /\ Running(q) /\ At(q, "password")
        /\ request'[q].at \in {"mark", "sweep"} /\ request'[q].kind = request[q].kind
        /\ \A r \in Requests : r # q => request'[r] = request[r]
    <3>1. At(q, "password") /\ request[q].kind \in Setters /\ Running(q)
      BY <1>5, KindFits DEF SetPassword, Running, At
    <3>2. PICK step \in {"mark", "sweep"} : Goes(q, step)
      BY <1>5 DEF SetPassword
    <3> QED BY <3>1, <3>2, Going
  <2>2. user'.password = q
    BY <1>5 DEF SetPassword, AccountTyped, UserRow
  <2>3. UNCHANGED <<sessions, temps>>
    BY <1>5 DEF SetPassword
  <2>4. request[q].kind # "login" /\ request[q].kind \notin RowWriters
    BY <2>1 DEF Setters, RowWriters
  <2>5. InOrder' /\ TokensIssued' /\ AccountTyped'
    BY StaysInOrder, TokensStayIssued, AccountTypedStep
  <2>6. ASSUME NEW r \in Requests PROVE WritesCurrent(r)'
    <3> SUFFICES ASSUME request'[r].at \in {"upgrade", "save"} PROVE FALSE
      BY DEF WritesCurrent
    <3>1. r # q /\ request[r].at \in {"upgrade", "save"}
      BY <2>1
    <3>2. request[r].kind \in RowWriters /\ Running(r)
      BY <3>1, KindFits DEF RowWriters, Running
    <3>3. Overlapped(q, r)
      BY <2>1, <3>1, <3>2, OverlapsBoth
    <3> QED BY <1>2, <2>1, <3>2, <3>3 DEF PasswordLost, Lost
  <2>7. ASSUME NEW r \in Requests PROVE CarriesCurrent(r)'
    <3> SUFFICES ASSUME request'[r].at \in {"upgrade", "issue", "clear", "store", "verify", "burn", "consume"}
                 PROVE  LineExcused(LineOf(r))'
      BY DEF CarriesCurrent, Carries
    <3>1. r # q /\ Running(r) /\ ~At(r, "idle")
      BY <2>1 DEF Running, At
    <3>2. PICK line \in SUBSET Requests : line = LineOf(r) /\ r \in line
      BY LineTyped
    <3>3. LineExcused(line)
      BY <2>1, <3>1, <3>2, RunningCrosses DEF LineExcused
    <3>4. LineExcused(line)' /\ LineOf(r)' = line
      BY <1>1, <3>1, <3>2, <3>3, ExcusesStay, LinesStay
    <3> QED BY <3>4 DEF LineExcused, Crossed
  <2>8. ASSUME NEW t \in Issued PROVE FactorCurrent(t)'
    <3> SUFFICES ASSUME temps[t].state # "none" PROVE FactorCrossed(t, Setters)'
      BY <2>3 DEF FactorCurrent
    <3>1. FactorCrossed(t, Setters)
      BY <2>1, <2>4, FactorsCross
    <3> QED BY <1>1, <3>1, FactorsStayCrossed DEF Setters
  <2>9. ASSUME NEW s \in Issued PROVE SessionCurrent(s)'
    <3>1. Sweeps(q, s)' /\ request'[q].kind \in Setters
      BY <2>1 DEF Sweeps
    <3> QED BY <2>2, <3>1 DEF SessionCurrent, Sweeps, At
  <2> QED BY <2>6, <2>7, <2>8, <2>9
<1> QED BY <1>3, <1>4, <1>5, UserGoes DEF UserGoesOn

(* A shut account stays crossed by the deactivation. *)
LEMMA ShutStep ==
  ASSUME AccountInv, [AuthNext]_authVars, ~Reopened, Shut
  PROVE  (\A q \in Requests : CarriesCrossed(q)') /\ FactorsCrossed' /\ Deactivated'
<1> USE DEF AccountInv
<1> DEFINE Kinds == {"deactivate"}
<1>1. Kept /\ \A q \in Requests : Advances(q)
  BY StepKeeps, RequestsAdvance
<1>2. (\A q \in Requests : CarriesCrossed(q)) /\ FactorsCrossed /\ Deactivated
  BY DEF ActivityInv
<1>3. ASSUME NEW q \in Requests, ~At(q, "idle"), Crossed(LineOf(q), Kinds) PROVE Crossed(LineOf(q), Kinds)'
  <2>1. PICK line \in SUBSET Requests : line = LineOf(q)
    BY LineTyped
  <2>2. Crossed(line, Kinds)' /\ LineOf(q)' = line
    BY <1>1, <1>3, <2>1, CrossingsStay, LinesStay
  <2> QED BY <2>2 DEF Crossed
<1>4. ASSUME NEW q \in Requests, Running(q), request[q].kind # "deactivate", user.active
      PROVE  Crossed(LineOf(q), Kinds)
  <2>1. PICK w \in Requests : Closes(w)
    BY <1>4 DEF Shut
  <2>2. Running(w) /\ w # q /\ request[w].kind \in Kinds
    BY <1>4, <2>1 DEF Closes, Running, At
  <2> QED BY <1>4, <2>2, RunningCrosses, LineTyped
<1>5. ASSUME NEW q \in Requests PROVE CarriesCrossed(q)'
  <2> SUFFICES ASSUME request'[q].at \in {"upgrade", "issue", "clear", "store", "verify", "burn", "consume"}
               PROVE  Crossed(LineOf(q), Kinds)'
    BY DEF CarriesCrossed, Carries
  <2>1. PicksUp(q)
    BY <1>1 DEF Advances
  <2>2. CASE Carries(q)
    BY <1>2, <1>3, <2>2 DEF CarriesCrossed, Carries, At
  <2>3. CASE request[q].at \in {"load", "lock"} /\ user.active
    BY <1>3, <1>4, <2>3, KindFits DEF Running, At
  <2>4. CASE At(q, "temp") /\ temps[request[q].token].state # "none"
    <3>1. request[q].token \in Issued /\ request[q].kind \in SecondFactors /\ ~At(q, "idle")
      BY <2>4, KindFits DEF At, AccountTyped, RequestRow
    <3>2. FactorCrossed(request[q].token, Kinds)
      BY <1>2, <2>4, <3>1 DEF FactorsCrossed
    <3> QED BY <1>3, <3>1, <3>2, SecondFactorCrosses
  <2> QED BY <2>1, <2>2, <2>3, <2>4 DEF PicksUp, At
<1>6. FactorsCrossed'
  <2> SUFFICES ASSUME NEW t \in Issued, temps'[t].state # "none" PROVE FactorCrossed(t, Kinds)'
    BY DEF FactorsCrossed
  <2>1. FactorCrossed(t, Kinds)
    <3>1. CASE temps[t].state # "none"
      BY <1>2, <3>1 DEF FactorsCrossed
    <3>2. CASE temps[t].state = "none"
      <4>1. t \in Requests /\ At(t, "issue")
        BY <3>2, TempsGoOn DEF TempGoesOn
      <4>2. request[t].kind = "login"
        BY <4>1, KindFits DEF At
      <4>3. Crossed(LineOf(t), Kinds)
        BY <1>2, <4>1 DEF CarriesCrossed, Carries, At
      <4> QED BY <4>1, <4>2, <4>3, LoginFactorCrosses
    <3> QED BY <3>1, <3>2
  <2> QED BY <1>1, <2>1, FactorsStayCrossed
<1>7. Deactivated'
  <2>1. PICK d \in Requests : request[d].kind = "deactivate" /\ \A s \in Issued : SessionRevoked(d, s)
    BY <1>2 DEF Deactivated
  <2>2. request'[d].kind = "deactivate"
    BY <1>1, <2>1, KindFits DEF Kept, At
  <2>3. ASSUME NEW s \in Issued PROVE SessionRevoked(d, s)'
    <3> SUFFICES ASSUME sessions'[s].state = "valid" PROVE Crossed(sessions[s].line, Kinds)' \/ Sweeps(d, s)'
      BY DEF SessionRevoked
    <3>1. SessionGoesOn(s) /\ sessions[s] \in SessionRow
      BY SessionsGoOn DEF AccountTyped
    <3>2. CASE sessions[s].state = "valid"
      <4>1. PICK line \in SUBSET Requests : line = sessions[s].line /\ sessions'[s].line = line
        BY <3>1, <3>2 DEF SessionGoesOn, SessionRow
      <4>2. Crossed(sessions[s].line, Kinds) => Crossed(line, Kinds)'
        BY <1>1, <4>1, CrossingsStay
      <4>3. Crossed(line, Kinds)' => Crossed(sessions[s].line, Kinds)'
        BY <4>1 DEF Crossed
      <4>4. Sweeps(d, s) => Sweeps(d, s)'
        BY <1>1, <2>1, <3>2 DEF Advances, StillSweeps, Sweeps, At
      <4> QED BY <2>1, <3>2, <4>2, <4>3, <4>4 DEF SessionRevoked
    <3>3. CASE sessions[s].state # "valid"
      <4>1. s \in Requests /\ At(s, "store") /\ sessions'[s].line = LineOf(s)
        BY <3>1, <3>3 DEF SessionGoesOn
      <4>2. PICK line \in SUBSET Requests : line = LineOf(s)
        BY <4>1, LineTyped
      <4>3. Crossed(line, Kinds)'
        BY <1>1, <1>2, <4>1, <4>2, CrossingsStay DEF CarriesCrossed, Carries, At
      <4> QED BY <4>1, <4>2, <4>3 DEF Crossed
    <3> QED BY <3>2, <3>3
  <2> QED BY <2>2, <2>3 DEF Deactivated
<1> QED BY <1>5, <1>6, <1>7
(* A row that is saved inactive was loaded from, or closes, an account     *)
(* that is shut, unless the account was reopened meanwhile.                *)
LEMMA SaveRowStep ==
  ASSUME AccountInv, NEW q \in Requests, SaveRow(q), AccountTyped', Kept, ~Reopened
  PROVE  /\ \A v \in Requests : LinksKnow(v)'
         /\ Shut' => \/ Shut
                     \/ request[q].kind = "deactivate" /\ request[q].row.active
<1> USE DEF AccountInv
<1>1. /\ At(q, "save") /\ Running(q) /\ request[q].kind \in {"verifyEmail", "activate", "deactivate"}
      /\ request[q].row \in UserRow /\ user' = SavedRow(request[q].row, request[q].kind)
  BY KindFits DEF SaveRow, Running, At, AccountTyped, RequestRow
<1>2. request'[q].at \in {"sweep", "done"} /\ \A r \in Requests : r # q => request'[r] = request[r]
  <2>1. PICK step \in {"sweep", "done"} : Goes(q, step)
    BY DEF SaveRow
  <2> QED BY <2>1, Going
<1>3. user'.active = IF request[q].kind \in {"activate", "deactivate"} THEN request[q].kind = "activate"
                     ELSE request[q].row.active
  BY <1>1 DEF SavedRow, UserRow
<1>4. ASSUME NEW w \in Requests, Closes(w)' PROVE Closes(w)
  BY <1>2, <1>4 DEF Closes, At
<1>5. ASSUME NEW v \in Requests PROVE LinksKnow(v)'
  <2> SUFFICES ASSUME request'[v].kind = "verifyEmail", request'[v].at = "save", ~request'[v].row.active, user'.active
               PROVE  FALSE
    BY DEF LinksKnow, At
  <2>1. v # q /\ request'[v] = request[v] /\ Running(v)
    BY <1>2 DEF Running, At
  <2>2. Overlapped(q, v)
    BY <1>1, <2>1, OverlapsBoth
  <2>3. request[q].kind \in {"activate", "verifyEmail"}
    BY <1>1, <1>3
  <2> QED BY <1>1, <2>1, <2>2, <2>3 DEF Reopened, Lost, RowWriters
<1>6. ASSUME Shut', request[q].kind = "activate" PROVE FALSE
  <2>1. user'.active
    BY <1>3, <1>6
  <2>2. PICK w \in Requests : Closes(w)
    BY <1>4, <1>6, <2>1 DEF Shut
  <2>3. w # q /\ Running(w) /\ request[w].kind = "deactivate"
    BY <1>6, <2>2 DEF Closes, Running, At
  <2>4. Overlapped(q, w)
    BY <1>1, <2>3, OverlapsBoth
  <2> QED BY <1>6, <2>3, <2>4 DEF Reopened, Lost, RowWriters
<1>7. ASSUME Shut', request[q].kind = "verifyEmail" PROVE Shut
  <2>1. CASE request[q].row.active
    <3>1. user'.active
      BY <1>3, <1>7, <2>1
    <3> QED BY <1>4, <1>7, <3>1 DEF Shut
  <2>2. CASE ~request[q].row.active
    BY <1>1, <1>7, <2>2 DEF ActivityInv, LinksKnow, Shut
  <2> QED BY <2>1, <2>2
<1>8. ASSUME request[q].kind = "deactivate", ~request[q].row.active PROVE Shut
  BY <1>1, <1>8 DEF Shut, Closes
<1> QED BY <1>1, <1>5, <1>6, <1>7, <1>8

(* The account is shut by a deactivation that has yet to revoke the         *)
(* sessions, and all who carry a login past it overlap it.                 *)
LEMMA ActivityStep == AccountInv /\ [AuthNext]_authVars => ActivityInv'
<1> SUFFICES ASSUME AccountInv, [AuthNext]_authVars, ~Reopened'
             PROVE  /\ \A v \in Requests : LinksKnow(v)'
                    /\ Shut' => (\A q \in Requests : CarriesCrossed(q)') /\ FactorsCrossed' /\ Deactivated'
  BY DEF ActivityInv
<1> USE DEF AccountInv
<1>1. Kept /\ \A q \in Requests : Advances(q)
  BY StepKeeps, RequestsAdvance
<1>2. ~Reopened
  BY <1>1, LossesStay DEF Reopened, RowWriters
<1>3. Shut => (\A q \in Requests : CarriesCrossed(q)') /\ FactorsCrossed' /\ Deactivated'
  BY <1>2, ShutStep
<1>4. AccountTyped'
  BY AccountTypedStep
<1>5. CASE user'.active = user.active
  <2>1. ASSUME NEW q \in Requests, request'[q].kind # "none", request'[q].at = "save", ~request'[q].row.active
        PROVE  ~user.active \/ (request[q].kind = request'[q].kind /\ At(q, "save") /\ ~request[q].row.active)
    <3>1. CopiesRow(q) /\ RequestGoesOn(q)
      BY <1>1 DEF Advances
    <3> QED BY <2>1, <3>1 DEF CopiesRow, RequestGoesOn, At
  <2>2. \A v \in Requests : LinksKnow(v)'
    BY <1>2, <1>5, <2>1 DEF ActivityInv, LinksKnow, At
  <2>3. Shut' => Shut
    BY <1>5, <2>1 DEF Shut, Closes, At
  <2> QED BY <1>3, <2>2, <2>3
<1>6. ASSUME NEW q \in Requests, SaveRow(q)
      PROVE  /\ \A v \in Requests : LinksKnow(v)'
             /\ Shut' => (\A r \in Requests : CarriesCrossed(r)') /\ FactorsCrossed' /\ Deactivated'
  <2>1. /\ \A v \in Requests : LinksKnow(v)'
        /\ Shut' => \/ Shut
                    \/ request[q].kind = "deactivate" /\ request[q].row.active
    BY <1>1, <1>2, <1>4, <1>6, SaveRowStep
  <2>2. CASE request[q].kind = "deactivate" /\ request[q].row.active
    <3> DEFINE Kinds == {"deactivate"}
    <3>1. ~SavedRow(request[q].row, request[q].kind).active
      BY <2>2 DEF SavedRow, AccountTyped, RequestRow, UserRow
    <3>2. Goes(q, "sweep") /\ Running(q) /\ request[q].kind \in Kinds
      BY <1>6, <2>2, <3>1 DEF SaveRow, Running, At
    <3>3. /\ request'[q].at = "sweep" /\ request'[q].kind = "deactivate"
          /\ \A r \in Requests : r # q => request'[r] = request[r]
      BY <2>2, <3>2, Going
    <3>4. ASSUME NEW r \in Requests PROVE CarriesCrossed(r)'
      <4> SUFFICES ASSUME request'[r].at \in {"upgrade", "issue", "clear", "store", "verify", "burn", "consume"}
                   PROVE  Crossed(LineOf(r), Kinds)'
        BY DEF CarriesCrossed, Carries
      <4>1. r # q /\ Running(r) /\ ~At(r, "idle")
        BY <3>3 DEF Running, At
      <4>2. PICK line \in SUBSET Requests : line = LineOf(r) /\ r \in line
        BY LineTyped
      <4>3. Crossed(line, Kinds)
        BY <3>2, <4>1, <4>2, RunningCrosses
      <4>4. Crossed(line, Kinds)' /\ LineOf(r)' = line
        BY <1>1, <4>1, <4>2, <4>3, CrossingsStay, LinesStay
      <4> QED BY <4>4 DEF Crossed
    <3>5. FactorsCrossed'
      <4> SUFFICES ASSUME NEW t \in Issued, temps[t].state # "none" PROVE FactorCrossed(t, Kinds)'
        BY <1>6 DEF FactorsCrossed, SaveRow
      <4>1. FactorCrossed(t, Kinds)
        BY <2>2, <3>2, FactorsCross
      <4> QED BY <1>1, <4>1, FactorsStayCrossed
    <3>6. Deactivated'
      BY <3>3 DEF Deactivated, SessionRevoked, Sweeps
    <3> QED BY <2>1, <3>4, <3>5, <3>6
  <2> QED BY <1>3, <2>1, <2>2
<1> QED BY <1>5, <1>6, UserGoes DEF UserGoesOn

LEMMA AccountStep == AccountInv /\ [AuthNext]_authVars => AccountInv'
<1> SUFFICES ASSUME AccountInv, [AuthNext]_authVars PROVE AccountInv'
  OBVIOUS
<1>1. AccountTyped /\ RequestStepsFit /\ InOrder /\ TokensIssued
  BY DEF AccountInv
<1>2. AccountTyped' /\ RequestStepsFit' /\ InOrder' /\ TokensIssued'
  BY <1>1, AccountTypedStep, StepsStayFit, StaysInOrder, TokensStayIssued
<1> QED BY <1>2, PasswordStep, ActivityStep DEF AccountInv

----------------------------------------------------------------------------
(* A session that is valid was opened with the current password, and its   *)
(* account is active, but for the exceptions SessionsFollowPassword and    *)
(* DeactivationEndsSessions name: resetPassword, a forced reset and the    *)
(* handler of UserDeactivatedEvent revoke all others, whatever number of   *)
(* logins, exchanges, second factors and updates of the row run beside     *)
(* them, and however they crash.                                           *)
THEOREM SessionsAlwaysEnd == AuthSpec => []SessionsEndWithTheAccount
<1>1. AuthInit => AccountInv
  BY AccountFirst
<1>2. AccountInv /\ [AuthNext]_authVars => AccountInv'
  BY AccountStep
<1>3. AccountInv => SessionsEndWithTheAccount
  BY AccountSuffices
<1> QED BY <1>1, <1>2, <1>3, PTL DEF AuthSpec

----------------------------------------------------------------------------
(* What was spent, and where its request is since.                         *)
SpentRows ==
  ({"login", "miss"} \X {0} \X Requests) \cup ({"wrong code", "temp", "session", "reset"} \X Issued \X Requests)
    \cup ({"code"} \X RecoveryCodes \X Requests)
SpentTyped ==
  /\ spent \subseteq SpentRows
  /\ resets \in [Issued -> {"none", "valid", "used"}]
  /\ together \subseteq SUBSET Requests
SpentInPlace ==
  \A q \in Requests :
    /\ \A kind, id : <<kind, id, q>> \in spent => ~At(q, "idle")
    /\ <<"login", 0, q>> \in spent => request[q].at \in {"store", "commit", "done", "crashed"}
    /\ <<"miss", 0, q>> \in spent => request[q].at \in {"done", "crashed"}
    /\ \A t \in Issued : <<"wrong code", t, q>> \in spent =>
         /\ request[q].at \in {"invalidate", "miss", "count", "done", "crashed"}
         /\ request[q].kind \in SecondFactors /\ request[q].token = t
    /\ \A c \in RecoveryCodes : <<"code", c, q>> \in spent => request[q].kind = "recovery"

(* Between the voiding of all links and the offer of its own a request     *)
(* finds valid only links of requests that overlapped it.                  *)
LinksHeld == \A q \in Requests : request[q].kind = "reset" => resets[request[q].token] # "none"
LinksInv ==
  /\ LinksHeld
  /\ \A q \in Requests : resets[q] # "none" => request[q].at \in {"done", "crashed"}
  /\ \A q \in Requests : At(q, "offer") \/ resets[q] = "valid" =>
       \A r \in Issued \ {q} : resets[r] = "valid" => r \in Requests /\ Overlapped(q, r)

(* Unless a writer of the row overlapped a verification, whoever is about  *)
(* to save the row knows whether the address is verified.                  *)
VerificationLost == Lost({"verifyEmail"}, RowWriters)
Verifies(v) == request[v].kind = "verifyEmail" /\ (request[v].at \in {"row", "save", "crashed"} \/ request[v].typed = "signed out")
MailInv ==
  ~VerificationLost =>
    /\ \A w \in Requests : At(w, "save") => request[w].row.verified = user.verified
    /\ mailToken = "used" => user.verified \/ \E v \in Requests : Verifies(v)

(* A request that has read the count of failures read no more than there   *)
(* are, for nobody who gets in beside it gets in alone.                    *)
LockoutInv ==
  /\ LockoutCounts
  /\ \A q \in Requests : At(q, "count") =>
       /\ request[q].count.attempts <= Cardinality(FailuresCounted)
       /\ together = {} => request[q].count.attempts = Cardinality(FailuresCounted)

(* The wrong codes of a temporary token: each is counted, and as long as   *)
(* the token is live only those that did not close it were answered.       *)
WrongFor(t) == {m \in Requests : <<"wrong code", t, m>> \in spent}
PassedBy(t) == {m \in WrongFor(t) : request[m].at \notin {"invalidate", "crashed"}}
WrongBefore(q, t) ==
  {m \in Requests : m < q /\ At(m, "done") /\ ~Overlapped(m, q) /\ <<"wrong code", t, m>> \in spent}
UsesFactor(q, t) == request[q].token = t /\ request[q].at \in {"verify", "burn", "consume"}
FactorInv ==
  /\ \A t \in Issued : /\ temps[t].attempts <= Cardinality(WrongFor(t))
                       /\ temps[t].state = "live" => /\ Cardinality(PassedBy(t)) <= temps[t].attempts
                                                     /\ Cardinality(PassedBy(t)) < MaxTotpAttempts
  /\ \A t \in Issued, q \in Requests :
       UsesFactor(q, t) \/ <<"temp", t, q>> \in spent => Cardinality(WrongBefore(q, t)) < MaxTotpAttempts

(* A credential that was accepted is used up, and who still has it in hand *)
(* overlapped the request that used it.                                    *)
FactorsOnce ==
  \A t \in Issued, p \in Requests : <<"temp", t, p>> \in spent =>
    /\ temps[t].state = "gone"
    /\ \A q \in Requests \ {p} : UsesFactor(q, t) \/ <<"temp", t, q>> \in spent => Overlapped(p, q)
UsesLink(q, t) == request[q].kind = "reset" /\ request[q].token = t /\ request[q].at \in {"password", "mark"}
LinksOnce ==
  \A t \in Issued, p \in Requests : <<"reset", t, p>> \in spent =>
    /\ resets[t] = "used"
    /\ \A q \in Requests \ {p} : UsesLink(q, t) \/ <<"reset", t, q>> \in spent => Overlapped(p, q)
Exchanges(q) == request[q].kind = "refresh" /\ request[q].at \in {"store", "commit"}
HoldsOn(q) ==
  Exchanges(q) =>
    /\ sessions[request[q].token].holder = q
    /\ request[q].typed = "exchange" => sessions[request[q].token].state = "valid"

ExchangedOnce ==
  /\ \A q \in Requests : HoldsOn(q)
  /\ \A s \in Issued, p \in Requests : <<"session", s, p>> \in spent =>
       /\ sessions[s].state \notin {"none", "valid"}
       /\ \A q \in Requests : <<"session", s, q>> \in spent => q = p

(* A recovery code that was used is on no list, the account's or one that  *)
(* a request is about to write back, unless another request with a         *)
(* recovery code overlapped its use, or new codes were made.               *)
UsedAlone(p) == \A r \in Requests \ {p} : /\ request[r].kind # "enableMfa"
                                          /\ request[r].kind = "recovery" => ~Overlapped(p, r)
CodesOnce ==
  /\ \A q \in Requests : At(q, "burn") => request[q].kind = "recovery" /\ request[q].typed \in request[q].codes
  /\ \A c \in RecoveryCodes, p \in Requests : <<"code", c, p>> \in spent /\ UsedAlone(p) =>
       /\ c \notin user.codes
       /\ \A q \in Requests : At(q, "burn") => c \notin request[q].codes
       /\ \A q \in Requests : p < q => <<"code", c, q>> \notin spent

SignInInv ==
  /\ SpentTyped /\ SpentInPlace /\ LinksInv /\ MailInv /\ LockoutInv /\ FactorInv
  /\ FactorsOnce /\ LinksOnce /\ ExchangedOnce /\ CodesOnce

(* --- the credentials: what a step does --- *)

(* From step to step, where the invariant of the credentials needs it. *)
Path(from, to) ==
  /\ from # to /\ from \notin {"done", "crashed"} /\ to # "idle"
  /\ to = "verify" => from = "temp"
  /\ to = "burn" => from = "verify"
  /\ to = "consume" => from \in {"verify", "burn"}
  /\ to = "offer" => from = "void"
  /\ to = "save" => from = "row"
  /\ to = "count" => from = "miss"
  /\ to = "mark" => from = "password"
  /\ to = "password" => from \in {"idle", "claim"}
  /\ to = "commit" => from = "store"
  /\ to = "store" => from \in {"clear", "lock"}
  /\ from = "store" => to \in {"commit", "done", "crashed"}
  /\ from = "commit" => to \in {"done", "crashed"}
  /\ from = "row" => to \in {"save", "done", "crashed"}
  /\ from = "wrong code" => to \in {"invalidate", "miss", "crashed"}
  /\ from = "invalidate" => to \in {"miss", "crashed"}
  /\ from = "miss" => to \in {"count", "crashed"}
  /\ from = "count" => to \in {"done", "crashed"}

(* A request moves, and takes with it what it has.                         *)
Strides(q) ==
  /\ Path(request[q].at, request'[q].at)
  /\ At(q, "idle") => Begin(q)
  /\ ~At(q, "idle") =>
       /\ request'[q].kind = request[q].kind /\ request'[q].token = request[q].token
       /\ request'[q].typed = request[q].typed \/ LockToken(q)
       /\ request'[q].row = request[q].row \/ LoadUser(q) \/ LoadRow(q)
       /\ request'[q].codes = request[q].codes \/ VerifyCode(q)
       /\ request'[q].count = request[q].count \/ ReadAttempts(q)

OthersStay(q) == \A r \in Requests : r # q => request'[r] = request[r]

(* Who writes what. *)
RequestWrites(q) ==
  /\ spent' = spent \/ ClearAttempts(q) \/ CountAttempt(q) \/ BurnCode(q) \/ CountWrongCode(q)
                    \/ ConsumeTempToken(q) \/ CommitRefresh(q) \/ MarkReset(q)
  /\ resets' = resets \/ VoidResets(q) \/ OfferReset(q) \/ MarkReset(q)
  /\ temps' = temps \/ IssueTempToken(q) \/ CountWrongCode(q) \/ InvalidateTempToken(q) \/ ConsumeTempToken(q)
  /\ sessions' = sessions \/ StoreSession(q) \/ LockToken(q) \/ CommitRefresh(q) \/ FinishRevoke(q) \/ CrashRequest(q)
  /\ lockout' = lockout \/ ClearAttempts(q) \/ CountAttempt(q)
  /\ mailToken' = mailToken \/ UseMailToken(q)
  /\ together' = together \/ Begin(q)
  /\ user'.codes = user.codes \/ BurnCode(q) \/ WriteCodes(q)
  /\ user'.verified = user.verified \/ SaveRow(q)

(* What it does at a step. *)
Does(q) ==
  /\ At(q, "temp") => ReadTempToken(q) \/ CrashRequest(q)
  /\ At(q, "verify") => VerifyCode(q) \/ CrashRequest(q)
  /\ At(q, "wrong code") => CountWrongCode(q) \/ CrashRequest(q)
  /\ At(q, "invalidate") => InvalidateTempToken(q) \/ CrashRequest(q)
  /\ At(q, "miss") => ReadAttempts(q) \/ CrashRequest(q)
  /\ At(q, "lock") => LockToken(q) \/ CrashRequest(q)
  /\ At(q, "void") => VoidResets(q) \/ CrashRequest(q)
  /\ At(q, "claim") => ClaimReset(q) \/ CrashRequest(q)
  /\ At(q, "row") => LoadRow(q) \/ CrashRequest(q)
  /\ At(q, "save") => SaveRow(q) \/ CrashRequest(q)

Moves(q) == Strides(q) /\ OthersStay(q) /\ RequestWrites(q) /\ Does(q)

(* A request goes to another step and keeps all it has. *)
LEMMA Walking ==
  ASSUME AccountTyped, NEW q \in Requests, NEW step, Goes(q, step), ~At(q, "idle"), Path(request[q].at, step)
  PROVE  Strides(q) /\ OthersStay(q)
<1>1. request[q] \in RequestRow
  BY DEF AccountTyped
<1>2. request'[q] = [request[q] EXCEPT !.at = step] /\ OthersStay(q)
  BY DEF Goes, AccountTyped, OthersStay
<1>3. /\ request'[q].at = step /\ request'[q].kind = request[q].kind /\ request'[q].token = request[q].token
      /\ request'[q].typed = request[q].typed /\ request'[q].row = request[q].row
      /\ request'[q].codes = request[q].codes /\ request'[q].count = request[q].count
  BY <1>1, <1>2 DEF RequestRow
<1> QED BY <1>2, <1>3 DEF Strides

LEMMA WhoWrites ==
  ASSUME AccountTyped, NEW q \in Requests,
         \/ Begin(q) \/ CheckLockout(q) \/ LoadUser(q) \/ UpgradeHash(q) \/ IssueTempToken(q)
         \/ ClearAttempts(q) \/ StoreSession(q) \/ ReadAttempts(q) \/ CountAttempt(q)
         \/ ReadTempToken(q) \/ VerifyCode(q) \/ BurnCode(q) \/ CountWrongCode(q)
         \/ InvalidateTempToken(q) \/ ConsumeTempToken(q) \/ SwitchMfa(q) \/ WriteCodes(q)
         \/ LockToken(q) \/ CommitRefresh(q) \/ StartRevoke(q) \/ FinishRevoke(q)
         \/ VoidResets(q) \/ OfferReset(q) \/ ClaimReset(q) \/ SetPassword(q) \/ MarkReset(q)
         \/ ReadMailToken(q) \/ UseMailToken(q) \/ LoadRow(q) \/ SaveRow(q) \/ CrashRequest(q)
  PROVE  RequestWrites(q)
<1>a. user \in UserRow
  BY DEF AccountTyped
<1>1. ASSUME Begin(q) PROVE RequestWrites(q)
  BY <1>1 DEF Begin, RequestWrites
<1>2. ASSUME CheckLockout(q) \/ LoadUser(q) \/ ReadAttempts(q) \/ ReadTempToken(q) \/ VerifyCode(q) \/ StartRevoke(q)
      PROVE  RequestWrites(q)
  BY <1>2 DEF CheckLockout, LoadUser, ReadAttempts, ReadTempToken, VerifyCode, StartRevoke, RequestWrites
<1>3. ASSUME ClaimReset(q) \/ ReadMailToken(q) \/ LoadRow(q) PROVE RequestWrites(q)
  BY <1>3 DEF ClaimReset, ReadMailToken, LoadRow, RequestWrites
<1>4. ASSUME UpgradeHash(q) \/ SwitchMfa(q) \/ SetPassword(q) PROVE RequestWrites(q)
  <2>1. user'.codes = user.codes /\ user'.verified = user.verified
    BY <1>a, <1>4 DEF UpgradeHash, SwitchMfa, SetPassword, UserRow
  <2> QED BY <2>1, <1>4 DEF UpgradeHash, SwitchMfa, SetPassword, RequestWrites
<1>5. ASSUME IssueTempToken(q) PROVE RequestWrites(q)
  BY <1>5 DEF IssueTempToken, RequestWrites
<1>6. ASSUME ClearAttempts(q) PROVE RequestWrites(q)
  BY <1>6 DEF ClearAttempts, RequestWrites
<1>7. ASSUME StoreSession(q) PROVE RequestWrites(q)
  BY <1>7 DEF StoreSession, RequestWrites
<1>8. ASSUME CountAttempt(q) PROVE RequestWrites(q)
  BY <1>8 DEF CountAttempt, RequestWrites
<1>9. ASSUME BurnCode(q) PROVE RequestWrites(q)
  <2>1. user'.verified = user.verified
    BY <1>a, <1>9 DEF BurnCode, UserRow
  <2>2. UNCHANGED <<sessions, temps, resets, mailToken, lockout, together>>
    BY <1>9 DEF BurnCode
  <2> QED BY <2>1, <2>2, <1>9 DEF RequestWrites
<1>10. ASSUME CountWrongCode(q) \/ InvalidateTempToken(q) \/ ConsumeTempToken(q) PROVE RequestWrites(q)
  <2>1. UNCHANGED <<user, sessions, resets, mailToken, lockout, together>>
    BY <1>10 DEF CountWrongCode, InvalidateTempToken, ConsumeTempToken
  <2>2. InvalidateTempToken(q) => spent' = spent
    BY DEF InvalidateTempToken
  <2> QED BY <2>1, <2>2, <1>10 DEF RequestWrites
<1>11. ASSUME WriteCodes(q) PROVE RequestWrites(q)
  <2>1. user'.verified = user.verified
    BY <1>a, <1>11 DEF WriteCodes, UserRow
  <2>2. UNCHANGED <<sessions, temps, resets, mailToken, lockout, spent, together>>
    BY <1>11 DEF WriteCodes
  <2> QED BY <2>1, <2>2, <1>11 DEF RequestWrites
<1>12. ASSUME LockToken(q) \/ FinishRevoke(q) \/ CrashRequest(q) PROVE RequestWrites(q)
  <2>1. UNCHANGED <<user, temps, resets, mailToken, lockout, spent, together>>
    BY <1>12 DEF LockToken, FinishRevoke, CrashRequest
  <2> QED BY <2>1, <1>12 DEF RequestWrites
<1>13. ASSUME CommitRefresh(q) PROVE RequestWrites(q)
  <2>1. UNCHANGED <<user, temps, resets, mailToken, lockout, together>>
    BY <1>13 DEF CommitRefresh
  <2> QED BY <2>1, <1>13 DEF RequestWrites
<1>14. ASSUME VoidResets(q) \/ OfferReset(q) \/ MarkReset(q) PROVE RequestWrites(q)
  <2>1. UNCHANGED <<user, sessions, temps, mailToken, lockout, together>>
    BY <1>14 DEF VoidResets, OfferReset, MarkReset
  <2>2. ~MarkReset(q) => spent' = spent
    BY <1>14 DEF VoidResets, OfferReset
  <2> QED BY <2>1, <2>2, <1>14 DEF RequestWrites
<1>15. ASSUME UseMailToken(q) PROVE RequestWrites(q)
  BY <1>15 DEF UseMailToken, RequestWrites
<1>16. ASSUME SaveRow(q) PROVE RequestWrites(q)
  <2>1. user'.codes = user.codes
    <3>1. request[q].row \in UserRow
      BY DEF AccountTyped, RequestRow
    <3> QED BY <1>16, <3>1 DEF SaveRow, SavedRow, UserRow
  <2>2. UNCHANGED <<sessions, temps, resets, mailToken, lockout, spent, together>>
    BY <1>16 DEF SaveRow
  <2> QED BY <2>1, <2>2, <1>16 DEF RequestWrites
<1> QED BY <1>1, <1>2, <1>3, <1>4, <1>5, <1>6, <1>7, <1>8, <1>9, <1>10, <1>11, <1>12, <1>13, <1>14, <1>15, <1>16

(* Every action of a request moves it, and no other. *)
LEMMA RequestMoves ==
  ASSUME AccountTyped, RequestStepsFit, NEW q \in Requests,
         \/ Begin(q) \/ CheckLockout(q) \/ LoadUser(q) \/ UpgradeHash(q) \/ IssueTempToken(q)
         \/ ClearAttempts(q) \/ StoreSession(q) \/ ReadAttempts(q) \/ CountAttempt(q)
         \/ ReadTempToken(q) \/ VerifyCode(q) \/ BurnCode(q) \/ CountWrongCode(q)
         \/ InvalidateTempToken(q) \/ ConsumeTempToken(q) \/ SwitchMfa(q) \/ WriteCodes(q)
         \/ LockToken(q) \/ CommitRefresh(q) \/ StartRevoke(q) \/ FinishRevoke(q)
         \/ VoidResets(q) \/ OfferReset(q) \/ ClaimReset(q) \/ SetPassword(q) \/ MarkReset(q)
         \/ ReadMailToken(q) \/ UseMailToken(q) \/ LoadRow(q) \/ SaveRow(q) \/ CrashRequest(q)
  PROVE  Moves(q)
<1>a. request[q] \in RequestRow
  BY DEF AccountTyped
<1>1. ASSUME Begin(q) PROVE Moves(q)
  <2>1. PICK kind \in authPlot.kinds : \E token \in TokensFor(kind), typed \in TypedFor(kind) :
          request' = [request EXCEPT ![q] = [Waiting EXCEPT !.kind = kind, !.at = FirstStep(kind),
                                                            !.token = token, !.typed = typed]]
    BY <1>1 DEF Begin
  <2>2. PICK token \in TokensFor(kind), typed \in TypedFor(kind) :
          request' = [request EXCEPT ![q] = [Waiting EXCEPT !.kind = kind, !.at = FirstStep(kind),
                                                            !.token = token, !.typed = typed]]
    BY <2>1
  <2>3. kind \in AuthKinds
    BY DEF AccountTyped
  <2>4. FirstStep(kind) \in {"lockout", "lock", "temp", "sweep", "void", "claim", "password", "mail", "row", "enable", "disable"}
    BY <2>3 DEF AuthKinds, FirstStep
  <2>5. request'[q].at = FirstStep(kind) /\ OthersStay(q) /\ At(q, "idle")
    BY <1>1, <2>2 DEF AccountTyped, Waiting, OthersStay, Begin
  <2>6. Path(request[q].at, request'[q].at)
    BY <2>4, <2>5 DEF Path, At
  <2>7. Does(q)
    BY <2>5 DEF Does, At
  <2>8. RequestWrites(q)
    BY <1>1, WhoWrites
  <2> QED BY <1>1, <2>5, <2>6, <2>7, <2>8 DEF Moves, Strides
<1>2. ASSUME CheckLockout(q) \/ IssueTempToken(q) \/ ClearAttempts(q) \/ StoreSession(q) \/ CountAttempt(q) PROVE Moves(q)
  <2>1. PICK step : Goes(q, step) /\ ~At(q, "idle") /\ Path(request[q].at, step)
    BY <1>2 DEF CheckLockout, IssueTempToken, ClearAttempts, StoreSession, CountAttempt, Path, At
  <2>2. Does(q)
    BY <1>2 DEF CheckLockout, IssueTempToken, ClearAttempts, StoreSession, CountAttempt, Does, At
  <2> QED BY <1>2, <2>1, <2>2, Walking, WhoWrites DEF Moves
<1>3. ASSUME UpgradeHash(q) PROVE Moves(q)
  <2>1. AfterPassword(request[q].row) \in {"issue", "clear"}
    BY DEF AfterPassword
  <2>2. PICK step : Goes(q, step) /\ ~At(q, "idle") /\ Path(request[q].at, step)
    BY <1>3, <2>1 DEF UpgradeHash, Path, At
  <2>3. Does(q)
    BY <1>3 DEF UpgradeHash, Does, At
  <2> QED BY <1>3, <2>2, <2>3, Walking, WhoWrites DEF Moves
<1>4. ASSUME BurnCode(q) \/ CountWrongCode(q) \/ InvalidateTempToken(q) \/ ConsumeTempToken(q) \/ SwitchMfa(q)
             \/ WriteCodes(q) \/ CommitRefresh(q) \/ FinishRevoke(q)
      PROVE  Moves(q)
  <2>1. PICK step : Goes(q, step) /\ ~At(q, "idle") /\ Path(request[q].at, step)
    BY <1>4 DEF BurnCode, CountWrongCode, InvalidateTempToken, ConsumeTempToken, SwitchMfa, WriteCodes, CommitRefresh,
       FinishRevoke, Path, At
  <2>2. Does(q)
    <3>1. request[q].at \in {"burn", "wrong code", "invalidate", "consume", "enable", "disable", "codes", "commit", "sweeping"}
      BY <1>4 DEF BurnCode, CountWrongCode, InvalidateTempToken, ConsumeTempToken, SwitchMfa, WriteCodes, CommitRefresh,
         FinishRevoke, At
    <3>2. (At(q, "wrong code") => CountWrongCode(q)) /\ (At(q, "invalidate") => InvalidateTempToken(q))
      BY <1>4 DEF BurnCode, CountWrongCode, InvalidateTempToken, ConsumeTempToken, SwitchMfa, WriteCodes, CommitRefresh,
         FinishRevoke, At
    <3> QED BY <3>1, <3>2 DEF Does, At
  <2> QED BY <1>4, <2>1, <2>2, Walking, WhoWrites DEF Moves
<1>5. ASSUME VoidResets(q) \/ OfferReset(q) \/ ClaimReset(q) \/ SetPassword(q) \/ MarkReset(q)
             \/ ReadMailToken(q) \/ UseMailToken(q) \/ SaveRow(q)
      PROVE  Moves(q)
  <2>1. PICK step : Goes(q, step) /\ ~At(q, "idle") /\ Path(request[q].at, step)
    BY <1>5 DEF VoidResets, OfferReset, ClaimReset, SetPassword, MarkReset, ReadMailToken, UseMailToken, SaveRow, Path, At
  <2>2. Does(q)
    <3>1. request[q].at \in {"void", "offer", "claim", "password", "mark", "mail", "use", "save"}
      BY <1>5 DEF VoidResets, OfferReset, ClaimReset, SetPassword, MarkReset, ReadMailToken, UseMailToken, SaveRow, At
    <3>2. (At(q, "void") => VoidResets(q)) /\ (At(q, "claim") => ClaimReset(q)) /\ (At(q, "save") => SaveRow(q))
      BY <1>5 DEF VoidResets, OfferReset, ClaimReset, SetPassword, MarkReset, ReadMailToken, UseMailToken, SaveRow, At
    <3> QED BY <3>1, <3>2 DEF Does, At
  <2> QED BY <1>5, <2>1, <2>2, Walking, WhoWrites DEF Moves
<1>6. ASSUME CrashRequest(q) PROVE Moves(q)
  <2>1. Goes(q, "crashed") /\ ~At(q, "idle") /\ Path(request[q].at, "crashed")
    BY <1>6 DEF CrashRequest, Running, At, Path
  <2>2. Does(q)
    BY <1>6 DEF Does
  <2> QED BY <1>6, <2>1, <2>2, Walking, WhoWrites DEF Moves
<1>7. ASSUME LoadUser(q) PROVE Moves(q)
  <2>1. user.active \in BOOLEAN /\ user.legacy \in BOOLEAN /\ user.mfa \in BOOLEAN
    BY DEF AccountTyped, UserRow
  <2>2. AfterPassword(user) \in {"issue", "clear"}
    BY <2>1 DEF AfterPassword
  <2> DEFINE step == CASE ~user.active -> "done"
                       [] user.active /\ ~PasswordMatches(request[q].typed) -> "miss"
                       [] user.active /\ PasswordMatches(request[q].typed) ->
                            IF user.legacy THEN "upgrade" ELSE AfterPassword(user)
  <2>3. step \in {"done", "miss", "upgrade", "issue", "clear"}
    BY <2>1, <2>2
  <2>4. request' = [request EXCEPT ![q].at = step, ![q].row = user, ![q].under = user.password] /\ At(q, "load")
    BY <1>7 DEF LoadUser
  <2> HIDE DEF step
  <2>5. request'[q] = [request[q] EXCEPT !.at = step, !.row = user, !.under = user.password] /\ OthersStay(q)
    BY <2>4 DEF AccountTyped, OthersStay
  <2>6. /\ request'[q].at = step /\ request'[q].kind = request[q].kind /\ request'[q].token = request[q].token
        /\ request'[q].typed = request[q].typed /\ request'[q].codes = request[q].codes
        /\ request'[q].count = request[q].count
    BY <1>a, <2>5 DEF RequestRow
  <2>7. Strides(q)
    BY <1>7, <2>3, <2>4, <2>6 DEF Strides, Path, At
  <2>8. Does(q)
    BY <2>4 DEF Does, At
  <2> QED BY <1>7, <2>5, <2>7, <2>8, WhoWrites DEF Moves
<1>8. ASSUME ReadAttempts(q) PROVE Moves(q)
  <2>1. request'[q] = [request[q] EXCEPT !.at = "count", !.count = lockout] /\ OthersStay(q) /\ At(q, "miss")
    BY <1>8 DEF ReadAttempts, AccountTyped, OthersStay
  <2>2. /\ request'[q].at = "count" /\ request'[q].kind = request[q].kind /\ request'[q].token = request[q].token
        /\ request'[q].typed = request[q].typed /\ request'[q].codes = request[q].codes /\ request'[q].row = request[q].row
    BY <1>a, <2>1 DEF RequestRow
  <2>3. Strides(q) /\ Does(q)
    BY <1>8, <2>1, <2>2 DEF Strides, Path, At, Does
  <2> QED BY <1>8, <2>1, <2>3, WhoWrites DEF Moves
<1>9. ASSUME ReadTempToken(q) PROVE Moves(q)
  <2> DEFINE t == request[q].token
             step == IF temps[t].state = "live" THEN "verify" ELSE "done"
  <2>1. request'[q] = [request[q] EXCEPT !.at = step, !.under = temps[t].under] /\ OthersStay(q) /\ At(q, "temp")
    BY <1>9 DEF ReadTempToken, AccountTyped, OthersStay
  <2>2. step \in {"verify", "done"}
    OBVIOUS
  <2> HIDE DEF step
  <2>3. /\ request'[q].at = step /\ request'[q].kind = request[q].kind /\ request'[q].token = request[q].token
        /\ request'[q].typed = request[q].typed /\ request'[q].codes = request[q].codes /\ request'[q].row = request[q].row
        /\ request'[q].count = request[q].count
    BY <1>a, <2>1 DEF RequestRow
  <2>4. Strides(q) /\ Does(q)
    BY <1>9, <2>1, <2>2, <2>3 DEF Strides, Path, At, Does
  <2> QED BY <1>9, <2>1, <2>4, WhoWrites DEF Moves
<1>10. ASSUME VerifyCode(q) PROVE Moves(q)
  <2>0. At(q, "verify")
    BY <1>10 DEF VerifyCode
  <2>1. CASE request[q].kind = "totp"
    <3>1. PICK step \in {"done", "consume", "wrong code"} : Goes(q, step)
      BY <1>10, <2>1 DEF VerifyCode
    <3>2. ~At(q, "idle") /\ Path(request[q].at, step) /\ Does(q)
      BY <1>10, <2>0 DEF Path, At, Does
    <3> QED BY <1>10, <3>1, <3>2, Walking, WhoWrites DEF Moves
  <2>2. CASE request[q].kind # "totp"
    <3>1. PICK step \in {"burn", "wrong code"} : request' = [request EXCEPT ![q].at = step, ![q].codes = user.codes]
      BY <1>10, <2>2 DEF VerifyCode
    <3>2. request'[q] = [request[q] EXCEPT !.at = step, !.codes = user.codes] /\ OthersStay(q)
      BY <3>1 DEF AccountTyped, OthersStay
    <3>3. /\ request'[q].at = step /\ request'[q].kind = request[q].kind /\ request'[q].token = request[q].token
          /\ request'[q].typed = request[q].typed /\ request'[q].row = request[q].row
          /\ request'[q].count = request[q].count
      BY <1>a, <3>2 DEF RequestRow
    <3>4. Strides(q) /\ Does(q)
      BY <1>10, <2>0, <3>3 DEF Strides, Path, At, Does
    <3> QED BY <1>10, <3>2, <3>4, WhoWrites DEF Moves
  <2> QED BY <2>1, <2>2
<1>11. ASSUME LockToken(q) PROVE Moves(q)
  <2>1. PICK step \in {"store", "done"}, typed \in {"exchange", "grace"} :
          request' = [request EXCEPT ![q].at = step, ![q].typed = typed, ![q].under = sessions[request[q].token].under]
    BY <1>11 DEF LockToken
  <2>2. request'[q] = [request[q] EXCEPT !.at = step, !.typed = typed, !.under = sessions[request[q].token].under]
        /\ OthersStay(q) /\ At(q, "lock")
    BY <1>11, <2>1 DEF AccountTyped, OthersStay, LockToken
  <2>3. /\ request'[q].at = step /\ request'[q].kind = request[q].kind /\ request'[q].token = request[q].token
        /\ request'[q].row = request[q].row /\ request'[q].codes = request[q].codes /\ request'[q].count = request[q].count
    BY <1>a, <2>2 DEF RequestRow
  <2>4. Strides(q) /\ Does(q)
    BY <1>11, <2>2, <2>3 DEF Strides, Path, At, Does
  <2> QED BY <1>11, <2>2, <2>4, WhoWrites DEF Moves
<1>12. ASSUME StartRevoke(q) PROVE Moves(q)
  <2>1. request'[q] = [request[q] EXCEPT !.at = "sweeping", !.victims = Victims(q)] /\ OthersStay(q) /\ At(q, "sweep")
    BY <1>12 DEF StartRevoke, AccountTyped, OthersStay
  <2>2. /\ request'[q].at = "sweeping" /\ request'[q].kind = request[q].kind /\ request'[q].token = request[q].token
        /\ request'[q].typed = request[q].typed /\ request'[q].codes = request[q].codes /\ request'[q].row = request[q].row
        /\ request'[q].count = request[q].count
    BY <1>a, <2>1 DEF RequestRow
  <2>3. Strides(q) /\ Does(q)
    BY <2>1, <2>2 DEF Strides, Path, At, Does
  <2> QED BY <1>12, <2>1, <2>3, WhoWrites DEF Moves
<1>13. ASSUME LoadRow(q) PROVE Moves(q)
  <2>1. PICK step \in {"done", "save"} : request' = [request EXCEPT ![q].at = step, ![q].row = user]
    BY <1>13 DEF LoadRow
  <2>2. request'[q] = [request[q] EXCEPT !.at = step, !.row = user] /\ OthersStay(q) /\ At(q, "row")
    BY <1>13, <2>1 DEF AccountTyped, OthersStay, LoadRow
  <2>3. /\ request'[q].at = step /\ request'[q].kind = request[q].kind /\ request'[q].token = request[q].token
        /\ request'[q].typed = request[q].typed /\ request'[q].codes = request[q].codes
        /\ request'[q].count = request[q].count
    BY <1>a, <2>2 DEF RequestRow
  <2>4. Strides(q) /\ Does(q)
    BY <1>13, <2>2, <2>3 DEF Strides, Path, At, Does
  <2> QED BY <1>13, <2>2, <2>4, WhoWrites DEF Moves
<1> QED BY <1>1, <1>2, <1>3, <1>4, <1>5, <1>6, <1>7, <1>8, <1>9, <1>10, <1>11, <1>12, <1>13

(* Time passes: a session that nobody holds leaves its grace time, or      *)
(* expires.                                                                *)
Passes ==
  /\ UNCHANGED <<user, temps, resets, mailToken, lockout, request, spent, together>>
  /\ \A s \in Issued : sessions[s].holder # 0 =>
       sessions'[s].holder = sessions[s].holder /\ sessions'[s].state = sessions[s].state

LEMMA StepMoves ==
  ASSUME AccountTyped, RequestStepsFit, [AuthNext]_authVars
  PROVE  (\E q \in Requests : Moves(q)) \/ Passes
<1>a. sessions \in [Issued -> SessionRow] /\ \A s \in Issued : sessions[s] \in SessionRow
  BY DEF AccountTyped
<1>1. ASSUME NEW s \in Issued, GraceEnds(s) \/ ExpireSession(s) PROVE Passes
  <2>1. UNCHANGED <<user, temps, resets, mailToken, lockout, request, spent, together>>
    BY <1>1 DEF GraceEnds, ExpireSession
  <2>2. CASE GraceEnds(s)
    <3>1. \A x \in Issued : sessions'[x].holder = sessions[x].holder /\ sessions'[x].state = sessions[x].state
      BY <1>a, <2>2 DEF GraceEnds, SessionRow
    <3> QED BY <2>1, <3>1 DEF Passes
  <2>3. CASE ExpireSession(s)
    <3>1. \A x \in Issued : x # s => sessions'[x] = sessions[x]
      BY <1>a, <2>3 DEF ExpireSession
    <3>2. sessions[s].holder = 0
      BY <2>3 DEF ExpireSession
    <3> QED BY <2>1, <3>1, <3>2 DEF Passes
  <2> QED BY <1>1, <2>2, <2>3
<1>2. CASE UNCHANGED authVars
  BY <1>2 DEF authVars, Passes
<1> QED BY <1>1, <1>2, RequestMoves DEF AuthNext

(* What a request spends, and when. *)
NewRow(kind, id, q) ==
  \/ kind = "login" /\ id = 0 /\ ClearAttempts(q)
  \/ kind = "miss" /\ id = 0 /\ CountAttempt(q)
  \/ kind = "code" /\ id = request[q].typed /\ BurnCode(q)
  \/ kind = "wrong code" /\ id = request[q].token /\ CountWrongCode(q)
  \/ kind = "temp" /\ id = request[q].token /\ ConsumeTempToken(q)
  \/ kind = "session" /\ id = request[q].token /\ CommitRefresh(q) /\ request[q].typed = "exchange"
  \/ kind = "reset" /\ id = request[q].token /\ MarkReset(q)

SpendsOn(q) ==
  /\ spent \subseteq spent'
  /\ \A kind, id, r : <<kind, id, r>> \in spent' => <<kind, id, r>> \in spent \/ (r = q /\ NewRow(kind, id, q))

LEMMA MoveSpends ==
  ASSUME NEW q \in Requests, Moves(q)
  PROVE  SpendsOn(q) /\ (spent' = spent \/ \E kind, id : spent' = spent \cup {<<kind, id, q>>} /\ NewRow(kind, id, q))
<1>1. ASSUME NEW kind, NEW id, spent' = spent \cup {<<kind, id, q>>}, NewRow(kind, id, q)
      PROVE  SpendsOn(q)
  <2>1. ASSUME NEW k, NEW i, NEW r, <<k, i, r>> \in spent', <<k, i, r>> \notin spent PROVE r = q /\ NewRow(k, i, q)
    <3>1. <<k, i, r>> = <<kind, id, q>>
      BY <1>1, <2>1
    <3>2. k = kind /\ i = id /\ r = q
      BY <3>1
    <3> QED BY <1>1, <3>2
  <2> QED BY <1>1, <2>1 DEF SpendsOn
<1>2. spent' = spent => SpendsOn(q)
  BY DEF SpendsOn
<1>3. spent' = spent \/ \E kind, id : spent' = spent \cup {<<kind, id, q>>} /\ NewRow(kind, id, q)
  <2>1. CASE ClearAttempts(q)
    <3>1. spent' = spent \cup {<<"login", 0, q>>} /\ NewRow("login", 0, q)
      BY <2>1 DEF ClearAttempts, Spends, NewRow
    <3> QED BY <3>1
  <2>2. CASE CountAttempt(q)
    <3>1. spent' = spent \cup {<<"miss", 0, q>>} /\ NewRow("miss", 0, q)
      BY <2>2 DEF CountAttempt, Spends, NewRow
    <3> QED BY <3>1
  <2>3. CASE BurnCode(q)
    <3>1. spent' = spent \cup {<<"code", request[q].typed, q>>} /\ NewRow("code", request[q].typed, q)
      BY <2>3 DEF BurnCode, Spends, NewRow
    <3> QED BY <3>1
  <2>4. CASE CountWrongCode(q)
    <3>1. spent' = spent \cup {<<"wrong code", request[q].token, q>>} /\ NewRow("wrong code", request[q].token, q)
      BY <2>4 DEF CountWrongCode, Spends, NewRow
    <3> QED BY <3>1
  <2>5. CASE ConsumeTempToken(q)
    <3>1. spent' = spent \cup {<<"temp", request[q].token, q>>} /\ NewRow("temp", request[q].token, q)
      BY <2>5 DEF ConsumeTempToken, Spends, NewRow
    <3> QED BY <3>1
  <2>6. CASE CommitRefresh(q)
    <3>1. CASE request[q].typed = "exchange"
      <4>1. spent' = spent \cup {<<"session", request[q].token, q>>} /\ NewRow("session", request[q].token, q)
        BY <2>6, <3>1 DEF CommitRefresh, Spends, NewRow
      <4> QED BY <4>1
    <3>2. CASE request[q].typed # "exchange"
      BY <2>6, <3>2 DEF CommitRefresh
    <3> QED BY <3>1, <3>2
  <2>7. CASE MarkReset(q)
    <3>1. spent' = spent \cup {<<"reset", request[q].token, q>>} /\ NewRow("reset", request[q].token, q)
      BY <2>7 DEF MarkReset, Spends, NewRow
    <3> QED BY <3>1
  <2> QED BY <2>1, <2>2, <2>3, <2>4, <2>5, <2>6, <2>7 DEF Moves, RequestWrites
<1> QED BY <1>1, <1>2, <1>3

(* Kinds and tokens stay with a request that has begun. *)
LEMMA MovesKeep ==
  ASSUME NEW q \in Requests, Moves(q), NEW r \in Requests, ~At(r, "idle")
  PROVE  /\ request'[r].kind = request[r].kind /\ request'[r].token = request[r].token /\ request'[r].at # "idle"
         /\ request[r].at \in {"done", "crashed"} => request'[r] = request[r]
BY DEF Moves, Strides, OthersStay, Path, At

LEMMA SpentTypedMove ==
  ASSUME AccountTyped, RequestStepsFit, CodesOnce, SpentTyped, NEW q \in Requests, Moves(q)
  PROVE  SpentTyped'
<1>a. request[q].token \in Issued
  BY DEF AccountTyped, RequestRow
<1>1. spent' \subseteq SpentRows
  <2>1. ASSUME NEW kind, NEW id, NewRow(kind, id, q) PROVE <<kind, id, q>> \in SpentRows
    <3>1. kind = "code" => id \in RecoveryCodes
      BY <2>1 DEF NewRow, BurnCode, CodesOnce, AccountTyped, RequestRow
    <3>2. \/ kind \in {"login", "miss"} /\ id = 0
          \/ kind \in {"wrong code", "temp", "session", "reset"} /\ id \in Issued
          \/ kind = "code" /\ id \in RecoveryCodes
      BY <1>a, <2>1, <3>1 DEF NewRow
    <3> QED BY <3>2 DEF SpentRows
  <2> QED BY <2>1, MoveSpends DEF SpentTyped
<1>2. resets' \in [Issued -> {"none", "valid", "used"}]
  <2>1. VoidResets(q) => resets' \in [Issued -> {"none", "valid", "used"}]
    BY DEF VoidResets, SpentTyped
  <2>2. OfferReset(q) \/ MarkReset(q) => resets' \in [Issued -> {"none", "valid", "used"}]
    BY DEF OfferReset, MarkReset, SpentTyped
  <2> QED BY <2>1, <2>2 DEF Moves, RequestWrites, SpentTyped
<1>3. together' \subseteq SUBSET Requests
  <2>1. Begin(q) => together' = together \cup {{q, r} : r \in {x \in Requests : Running(x)}}
    BY DEF Begin
  <2>2. {{q, r} : r \in {x \in Requests : Running(x)}} \subseteq SUBSET Requests
    OBVIOUS
  <2> QED BY <2>1, <2>2 DEF Moves, RequestWrites, SpentTyped
<1> QED BY <1>1, <1>2, <1>3 DEF SpentTyped

LEMMA SpentInPlaceMove ==
  ASSUME AccountTyped, RequestStepsFit, CodesOnce, SpentInPlace, NEW q \in Requests, Moves(q)
  PROVE  SpentInPlace'
<1>s. SpendsOn(q)
  BY MoveSpends
<1> SUFFICES ASSUME NEW r \in Requests
             PROVE  /\ \A kind, id : <<kind, id, r>> \in spent' => request'[r].at # "idle"
                    /\ <<"login", 0, r>> \in spent' => request'[r].at \in {"store", "commit", "done", "crashed"}
                    /\ <<"miss", 0, r>> \in spent' => request'[r].at \in {"done", "crashed"}
                    /\ \A t \in Issued : <<"wrong code", t, r>> \in spent' =>
                         /\ request'[r].at \in {"invalidate", "miss", "count", "done", "crashed"}
                         /\ request'[r].kind \in SecondFactors /\ request'[r].token = t
                    /\ \A c \in RecoveryCodes : <<"code", c, r>> \in spent' => request'[r].kind = "recovery"
  BY DEF SpentInPlace, At
<1>1. ASSUME NEW kind, NEW id, <<kind, id, r>> \in spent' PROVE ~At(r, "idle") /\ request'[r].at # "idle"
  <2>1. CASE <<kind, id, r>> \in spent
    BY <2>1, MovesKeep DEF SpentInPlace
  <2>2. CASE NewRow(kind, id, q) /\ r = q
    <3>1. ~At(q, "idle")
      BY <2>2 DEF NewRow, ClearAttempts, CountAttempt, BurnCode, CountWrongCode, ConsumeTempToken, CommitRefresh, MarkReset, At
    <3> QED BY <2>2, <3>1, MovesKeep
  <2> QED BY <1>1, <1>s, <2>1, <2>2 DEF SpendsOn
<1>p. request'[r] = request[r] \/ (r = q /\ Path(request[r].at, request'[r].at))
  BY DEF Moves, OthersStay, Strides
<1>2. <<"login", 0, r>> \in spent' => request'[r].at \in {"store", "commit", "done", "crashed"}
  <2>1. CASE <<"login", 0, r>> \in spent
    BY <1>p, <2>1 DEF SpentInPlace, Path
  <2>2. CASE NewRow("login", 0, q) /\ r = q
    BY <2>2, Going DEF NewRow, ClearAttempts
  <2> QED BY <1>s, <2>1, <2>2 DEF SpendsOn
<1>3. <<"miss", 0, r>> \in spent' => request'[r].at \in {"done", "crashed"}
  <2>1. CASE <<"miss", 0, r>> \in spent
    BY <1>p, <2>1 DEF SpentInPlace, Path
  <2>2. CASE NewRow("miss", 0, q) /\ r = q
    BY <2>2, Going DEF NewRow, CountAttempt
  <2> QED BY <1>s, <2>1, <2>2 DEF SpendsOn
<1>4. ASSUME NEW t \in Issued, <<"wrong code", t, r>> \in spent'
      PROVE  /\ request'[r].at \in {"invalidate", "miss", "count", "done", "crashed"}
             /\ request'[r].kind \in SecondFactors /\ request'[r].token = t
  <2>0. request'[r].kind = request[r].kind /\ request'[r].token = request[r].token
    BY <1>1, <1>4, MovesKeep
  <2>1. CASE <<"wrong code", t, r>> \in spent
    BY <1>p, <2>0, <2>1 DEF SpentInPlace, Path
  <2>2. CASE NewRow("wrong code", t, q) /\ r = q
    <3>1. CountWrongCode(q) /\ t = request[q].token
      BY <2>2 DEF NewRow
    <3>2. request[q].kind \in SecondFactors
      BY <3>1, KindFits DEF CountWrongCode, At
    <3>3. PICK step \in {"invalidate", "miss"} : Goes(q, step)
      BY <3>1 DEF CountWrongCode
    <3>4. request'[q].at = step
      BY <3>3, Going
    <3>5. r = q /\ t = request[q].token
      BY <2>2, <3>1
    <3>6. step \in {"invalidate", "miss", "count", "done", "crashed"}
      OBVIOUS
    <3> QED BY <2>0, <3>2, <3>4, <3>5, <3>6
  <2>3. <<"wrong code", t, r>> \in spent \/ (r = q /\ NewRow("wrong code", t, q))
    BY <1>4, <1>s DEF SpendsOn
  <2> QED BY <2>1, <2>2, <2>3
<1>5. ASSUME NEW c \in RecoveryCodes, <<"code", c, r>> \in spent' PROVE request'[r].kind = "recovery"
  <2>0. request'[r].kind = request[r].kind
    BY <1>1, <1>5, MovesKeep
  <2>1. CASE <<"code", c, r>> \in spent
    BY <2>0, <2>1 DEF SpentInPlace
  <2>2. CASE NewRow("code", c, q) /\ r = q
    <3>1. BurnCode(q)
      BY <2>2 DEF NewRow
    <3> QED BY <2>0, <2>2, <3>1 DEF CodesOnce, BurnCode
  <2> QED BY <1>5, <1>s, <2>1, <2>2 DEF SpendsOn
<1> QED BY <1>1, <1>2, <1>3, <1>4, <1>5

(* --- the links of forgotten passwords --- *)

LEMMA LinksMove ==
  ASSUME AccountInv, SpentTyped, LinksInv, Kept, NEW q \in Requests, Moves(q)
  PROVE  LinksInv'
<1>o. \A x \in Requests : \A r : Overlapped(x, r) => Overlapped(x, r)'
  BY DEF Overlapped, Kept
<1>r. /\ resets \in [Issued -> {"none", "valid", "used"}] /\ q \in Issued
      /\ request[q].token \in Issued
  BY RequestsNumbered DEF SpentTyped, AccountInv, AccountTyped, RequestRow
<1>q. Path(request[q].at, request'[q].at)
  BY DEF Moves, Strides
<1>p. \A x \in Requests : x # q => request'[x] = request[x]
  BY DEF Moves, OthersStay
<1>h. LinksHeld'
  <2>1. ASSUME NEW r \in Issued, resets[r] # "none" PROVE resets'[r] # "none"
    BY <1>r, <2>1 DEF Moves, RequestWrites, VoidResets, OfferReset, MarkReset
  <2>2. ASSUME NEW x \in Requests, ~At(x, "idle"), request'[x].kind = "reset" PROVE resets'[request'[x].token] # "none"
    <3>1. request[x].kind = "reset" /\ request'[x].token = request[x].token /\ request[x].token \in Issued
      BY <2>2, MovesKeep DEF AccountInv, AccountTyped, RequestRow
    <3> QED BY <2>1, <3>1 DEF LinksInv, LinksHeld
  <2>3. ASSUME Begin(q), request'[q].kind = "reset" PROVE resets'[request'[q].token] # "none"
    <3>1. PICK kind \in authPlot.kinds : \E token \in TokensFor(kind), typed \in TypedFor(kind) :
            request' = [request EXCEPT ![q] = [Waiting EXCEPT !.kind = kind, !.at = FirstStep(kind),
                                                              !.token = token, !.typed = typed]]
      BY <2>3 DEF Begin
    <3>2. PICK token \in TokensFor(kind), typed \in TypedFor(kind) :
            request' = [request EXCEPT ![q] = [Waiting EXCEPT !.kind = kind, !.at = FirstStep(kind),
                                                              !.token = token, !.typed = typed]]
      BY <3>1
    <3>3. request'[q].kind = kind /\ request'[q].token = token
      BY <3>2 DEF AccountInv, AccountTyped, Waiting
    <3>4. resets[token] # "none" /\ resets' = resets
      BY <2>3, <3>3 DEF Begin, TokensFor
    <3> QED BY <3>3, <3>4
  <2>4. ASSUME NEW x \in Requests, At(x, "idle"), request'[x] = request[x] PROVE request'[x].kind # "reset"
    BY <2>4, KindFits DEF AccountInv, At
  <2>5. \A x \in Requests : At(x, "idle") => (x = q /\ Begin(q)) \/ request'[x] = request[x]
    BY <1>p DEF Moves, Strides
  <2> QED BY <2>2, <2>3, <2>4, <2>5 DEF LinksHeld
<1>1. CASE VoidResets(q)
  <2>1. \A r \in Issued : resets'[r] # "valid" /\ (resets'[r] # "none" => resets[r] # "none")
    BY <1>1, <1>r DEF VoidResets
  <2>2. ~(request[q].at \in {"done", "crashed"})
    BY <1>1 DEF VoidResets, At
  <2> QED BY <1>h, <1>p, <2>1, <2>2, RequestsNumbered DEF LinksInv, At
<1>2. CASE OfferReset(q)
  <2>1. resets'[q] = "valid" /\ \A r \in Issued : r # q => resets'[r] = resets[r]
    BY <1>2, <1>r DEF OfferReset
  <2>2. request'[q].at = "done" /\ At(q, "offer")
    BY <1>2, Going DEF OfferReset, AccountInv
  <2>3. ASSUME NEW x \in Requests, resets'[x] # "none" PROVE request'[x].at \in {"done", "crashed"}
    BY <1>p, <2>1, <2>2, <2>3, RequestsNumbered DEF LinksInv
  <2>4. ASSUME NEW x \in Requests, request'[x].at = "offer" \/ resets'[x] = "valid",
               NEW r \in Issued \ {x}, resets'[r] = "valid"
        PROVE  r \in Requests /\ Overlapped(x, r)'
    <3>1. CASE x = q
      BY <1>o, <2>1, <2>2, <2>4, <3>1 DEF LinksInv
    <3>2. CASE x # q /\ r # q
      BY <1>o, <1>p, <2>1, <2>4, <3>2, RequestsNumbered DEF LinksInv, At
    <3>3. CASE x # q /\ r = q
      <4>1. CASE At(x, "offer")
        BY <1>o, <2>2, <3>3, <4>1, OverlapsBoth DEF AccountInv, Running, At
      <4>2. CASE resets[x] = "valid"
        <5>1. Overlapped(q, x)
          BY <2>2, <3>3, <4>2, RequestsNumbered DEF LinksInv
        <5>2. {q, x} = {x, q}
          OBVIOUS
        <5> QED BY <1>o, <3>3, <5>1, <5>2 DEF Overlapped
      <4> QED BY <1>p, <2>1, <2>4, <3>3, <4>1, <4>2, RequestsNumbered DEF At
    <3> QED BY <3>1, <3>2, <3>3
  <2> QED BY <1>h, <2>3, <2>4 DEF LinksInv, At
<1>3. CASE ~VoidResets(q) /\ ~OfferReset(q)
  <2>1. /\ \A r \in Issued : resets'[r] = "valid" => resets[r] = "valid"
        /\ \A r \in Issued : resets'[r] # "none" => resets[r] # "none"
    <3>1. CASE MarkReset(q)
      <4>1. resets' = [resets EXCEPT ![request[q].token] = "used"]
        BY <3>1 DEF MarkReset
      <4>2. resets[request[q].token] # "none"
        BY <3>1, KindFits DEF LinksInv, LinksHeld, MarkReset, AccountInv, At
      <4> QED BY <1>r, <4>1, <4>2
    <3>2. CASE resets' = resets
      BY <3>2
    <3> QED BY <1>3, <3>1, <3>2 DEF Moves, RequestWrites
  <2>2. \A x \in Requests : request'[x].at = "offer" => At(x, "offer")
    <3>1. request'[q].at = "offer" => At(q, "offer")
      <4>1. ASSUME request'[q].at = "offer" PROVE FALSE
        <5>1. At(q, "void")
          BY <1>q, <4>1 DEF Path, At
        <5>2. CrashRequest(q) => request'[q].at = "crashed"
          BY Going DEF CrashRequest, AccountInv
        <5> QED BY <1>3, <4>1, <5>1, <5>2 DEF Moves, Does
      <4> QED BY <4>1
    <3> QED BY <1>p, <3>1 DEF At
  <2>4. ASSUME NEW x \in Requests, resets'[x] # "none" PROVE request'[x].at \in {"done", "crashed"}
    <3>0. x \in Issued
      BY RequestsNumbered
    <3>1. resets[x] # "none"
      BY <2>1, <2>4, <3>0
    <3>2. request[x].at \in {"done", "crashed"}
      BY <3>1 DEF LinksInv
    <3> QED BY <3>2, MovesKeep DEF At
  <2>5. ASSUME NEW x \in Requests, request'[x].at = "offer" \/ resets'[x] = "valid",
               NEW r \in Issued \ {x}, resets'[r] = "valid"
        PROVE  r \in Requests /\ Overlapped(x, r)'
    <3>1. x \in Issued
      BY RequestsNumbered
    <3>2. (At(x, "offer") \/ resets[x] = "valid") /\ resets[r] = "valid"
      BY <2>1, <2>2, <2>5, <3>1
    <3> QED BY <1>o, <3>2 DEF LinksInv
  <2> QED BY <1>h, <2>4, <2>5 DEF LinksInv, At
<1> QED BY <1>1, <1>2, <1>3

(* --- the verification of the address --- *)

LEMMA MailMove ==
  ASSUME AccountInv, MailInv, Kept, NEW q \in Requests, Moves(q)
  PROVE  MailInv'
<1> USE DEF AccountInv
<1>1. VerificationLost => VerificationLost'
  <2>1. "none" \notin {"verifyEmail"} /\ "none" \notin RowWriters
    BY DEF RowWriters
  <2> QED BY <2>1, LossesStay DEF VerificationLost
<1> SUFFICES ASSUME ~VerificationLost
             PROVE  /\ \A w \in Requests : request'[w].at = "save" => request'[w].row.verified = user'.verified
                    /\ mailToken' = "used" => user'.verified \/ \E v \in Requests : Verifies(v)'
  BY <1>1 DEF MailInv, At
<1>2. /\ \A w \in Requests : At(w, "save") => request[w].row.verified = user.verified
      /\ mailToken = "used" => user.verified \/ \E v \in Requests : Verifies(v)
  BY DEF MailInv
<1>p. \A x \in Requests : x # q => request'[x] = request[x]
  BY DEF Moves, OthersStay
<1>q. Path(request[q].at, request'[q].at)
  BY DEF Moves, Strides
<1>k. \A x \in Requests : At(x, "save") => request[x].kind \in {"verifyEmail", "activate", "deactivate"}
  BY KindFits DEF At
<1>3. CASE SaveRow(q)
  <2>1. At(q, "save") /\ user' = SavedRow(request[q].row, request[q].kind) /\ request[q].row \in UserRow
    BY <1>3 DEF SaveRow, AccountTyped, RequestRow
  <2>2. user'.verified = (request[q].row.verified \/ request[q].kind = "verifyEmail") /\ request'[q].at # "save"
    <3>1. request[q].row.verified \in BOOLEAN
      BY <2>1 DEF UserRow
    <3>2. request'[q].at # "save"
      BY <1>q, <2>1 DEF Path, At
    <3>3. user'.verified = (request[q].row.verified \/ request[q].kind = "verifyEmail")
      BY <2>1, <3>1 DEF SavedRow, UserRow
    <3> QED BY <3>2, <3>3
  <2>v. user.verified \in BOOLEAN /\ user'.verified \in BOOLEAN /\ (user.verified => user'.verified)
    <3>1. user.verified \in BOOLEAN /\ request[q].row.verified \in BOOLEAN
      BY <2>1 DEF AccountTyped, UserRow
    <3> QED BY <1>2, <2>1, <2>2, <3>1
  <2>3. ASSUME NEW w \in Requests, request'[w].at = "save" PROVE request'[w].row.verified = user'.verified
    <3>1. w # q /\ request'[w] = request[w] /\ At(w, "save")
      BY <1>p, <2>2, <2>3 DEF At
    <3>2. CASE request[q].kind = "verifyEmail"
      <4>1. Overlapped(q, w)
        BY <2>1, <3>1, OverlapsBoth DEF Running, At
      <4>2. request[w].kind \in RowWriters
        BY <1>k, <3>1 DEF RowWriters
      <4>3. Lost({"verifyEmail"}, RowWriters)
        BY <3>2, <4>1, <4>2 DEF Lost
      <4> QED BY <4>3 DEF VerificationLost
    <3>3. CASE request[q].kind # "verifyEmail"
      <4>1. request[q].row.verified = user.verified /\ request[w].row.verified = user.verified
        BY <1>2, <2>1, <3>1
      <4>2. user'.verified = user.verified
        BY <2>2, <2>v, <3>3, <4>1
      <4> QED BY <3>1, <4>1, <4>2
    <3> QED BY <3>2, <3>3
  <2>4. ASSUME mailToken' = "used" PROVE user'.verified \/ \E v \in Requests : Verifies(v)'
    <3>1. mailToken = "used"
      BY <1>3, <2>4 DEF SaveRow
    <3>2. CASE user.verified
      BY <2>v, <3>2
    <3>3. CASE \E v \in Requests : Verifies(v)
      <4>1. PICK v \in Requests : Verifies(v)
        BY <3>3
      <4>2. CASE v = q
        <5>1. request[q].kind = "verifyEmail"
          BY <4>1, <4>2 DEF Verifies
        <5> QED BY <2>2, <5>1
      <4>3. CASE v # q
        BY <1>p, <4>1, <4>3 DEF Verifies
      <4> QED BY <4>2, <4>3
    <3> QED BY <1>2, <3>1, <3>2, <3>3
  <2> QED BY <2>3, <2>4
<1>4. CASE ~SaveRow(q)
  <2>1. user'.verified = user.verified
    BY <1>4 DEF Moves, RequestWrites
  <2>2. ASSUME NEW w \in Requests, request'[w].at = "save" PROVE request'[w].row.verified = user'.verified
    <3>1. CASE request'[w] = request[w]
      BY <1>2, <2>1, <2>2, <3>1 DEF At
    <3>2. CASE w = q
      <4>1. At(q, "row")
        BY <1>q, <2>2, <3>2 DEF Path, At
      <4>2. CrashRequest(q) => request'[q].at = "crashed"
        BY Going DEF CrashRequest
      <4>3. LoadRow(q)
        BY <2>2, <3>2, <4>1, <4>2 DEF Moves, Does
      <4>4. request'[q].row = user
        <5>1. request[q] \in RequestRow
          BY DEF AccountTyped
        <5>2. PICK step : request' = [request EXCEPT ![q].at = step, ![q].row = user]
          BY <4>3 DEF LoadRow
        <5>3. request'[q] = [request[q] EXCEPT !.at = step, !.row = user]
          BY <5>2 DEF AccountTyped
        <5> QED BY <5>1, <5>3 DEF RequestRow
      <4> QED BY <2>1, <3>2, <4>4
    <3> QED BY <1>p, <3>1, <3>2
  <2>3. ASSUME mailToken' = "used" PROVE user'.verified \/ \E v \in Requests : Verifies(v)'
    <3>1. CASE UseMailToken(q)
      <4>1. request'[q].at = "row" /\ request'[q].kind = request[q].kind /\ request[q].kind = "verifyEmail"
        BY <3>1, Going, KindFits DEF UseMailToken, At
      <4> QED BY <4>1 DEF Verifies
    <3>2. CASE mailToken = "used"
      <4>1. CASE user.verified
        BY <2>1, <4>1
      <4>2. CASE \E v \in Requests : Verifies(v)
        <5>1. PICK v \in Requests : Verifies(v)
          BY <4>2
        <5>2. CASE v # q
          BY <1>p, <5>1, <5>2 DEF Verifies
        <5>3. CASE v = q
          <6>1. ~At(q, "idle") /\ request[q].kind = "verifyEmail"
            BY <5>1, <5>3, KindFits DEF Verifies, At
          <6>2. request'[q].kind = "verifyEmail" /\ (request'[q].typed = request[q].typed \/ LockToken(q))
            BY <6>1 DEF Moves, Strides
          <6>3. ~LockToken(q)
            BY <6>1, KindFits DEF LockToken, At
          <6>4. CASE request[q].typed = "signed out"
            BY <6>2, <6>3, <6>4 DEF Verifies
          <6>5. CASE request[q].at = "crashed"
            BY <1>q, <6>5 DEF Path
          <6>6. CASE request[q].at = "save"
            <7>1. CrashRequest(q)
              BY <1>4, <6>6 DEF Moves, Does, At
            <7>2. request'[q].at = "crashed"
              BY <7>1, Going DEF CrashRequest
            <7> QED BY <6>2, <7>2 DEF Verifies
          <6>7. CASE request[q].at = "row" /\ request[q].typed # "signed out"
            <7>1. request'[q].at \in {"save", "crashed"}
              <8>1. CrashRequest(q) => request'[q].at = "crashed"
                BY Going DEF CrashRequest
              <8>2. LoadRow(q) => request'[q].at = "save"
                <9>1. ASSUME LoadRow(q) PROVE request' = [request EXCEPT ![q].at = "save", ![q].row = user]
                  BY <6>7, <9>1 DEF LoadRow
                <9>2. ASSUME LoadRow(q) PROVE request'[q] = [request[q] EXCEPT !.at = "save", !.row = user]
                  BY <9>1, <9>2 DEF AccountTyped
                <9>3. request[q] \in RequestRow
                  BY DEF AccountTyped
                <9> QED BY <9>2, <9>3 DEF RequestRow
              <8> QED BY <6>7, <8>1, <8>2 DEF Moves, Does, At
            <7> QED BY <6>2, <7>1 DEF Verifies
          <6> QED BY <5>1, <5>3, <6>4, <6>5, <6>6, <6>7 DEF Verifies
        <5> QED BY <5>2, <5>3
      <4> QED BY <1>2, <3>2, <4>1, <4>2
    <3> QED BY <2>3, <3>1, <3>2 DEF Moves, RequestWrites
  <2> QED BY <2>2, <2>3
<1> QED BY <1>3, <1>4

(* --- the lockout --- *)

(* A success that no other request overlapped, and the failures after it. *)
Alone(c) == <<"login", 0, c>> \in spent /\ \A r \in Requests : ~Overlapped(c, r)
MissedAfter(m) == <<"miss", 0, m>> \in spent /\ \A c \in Requests : Alone(c) => c < m

LEMMA FailuresAre == FailuresCounted = {m \in Requests : MissedAfter(m)}
BY DEF FailuresCounted, MissedAfter, Alone

LEMMA FailuresFinite == IsFiniteSet(FailuresCounted) /\ Cardinality(FailuresCounted) \in Nat
                        /\ Cardinality(FailuresCounted) <= Cardinality(Requests)
<1>1. FailuresCounted \subseteq Requests
  BY FailuresAre
<1> QED BY <1>1, AuthAssumption, FS_Subset, FS_CardinalityType

LEMMA FailuresFiniteThen == IsFiniteSet(FailuresCounted') /\ Cardinality(FailuresCounted') \in Nat
<1>1. FailuresCounted' \subseteq Requests
  BY DEF FailuresCounted
<1> QED BY <1>1, AuthAssumption, FS_Subset, FS_CardinalityType

(* Who is under way has overlapped, or began after, every success. *)
LEMMA AfterSuccess ==
  ASSUME AccountInv, SpentInPlace, NEW q \in Requests, Running(q), NEW c \in Requests, Alone(c), c # q
  PROVE  c < q
<1>1. ~At(c, "idle")
  BY DEF Alone, SpentInPlace
<1>2. ~Overlapped(c, q) /\ {c, q} = {q, c}
  BY DEF Alone
<1>3. ~(q < c)
  BY <1>1, <1>2 DEF AccountInv, InOrder, Overlapped
<1> QED BY <1>3, RequestsNumbered

LEMMA NothingTogether ==
  ASSUME AccountInv, together = {}, NEW q \in Requests, Running(q), NEW r \in Requests, Running(r)
  PROVE  q = r
BY OverlapsBoth DEF AccountInv, Overlapped

LEMMA SameFailures ==
  ASSUME Kept, together' = together,
         \A r : <<"login", 0, r>> \in spent' <=> <<"login", 0, r>> \in spent,
         \A r : <<"miss", 0, r>> \in spent' <=> <<"miss", 0, r>> \in spent
  PROVE  FailuresCounted' = FailuresCounted
BY DEF FailuresCounted, Overlapped

LEMMA LockoutMove ==
  ASSUME AccountInv, SpentTyped, SpentInPlace, LockoutInv, Kept, NEW q \in Requests, Moves(q)
  PROVE  LockoutInv'
<1> USE DEF AccountInv
<1> DEFINE C == Cardinality(FailuresCounted)
           D == Cardinality(FailuresCounted')
<1>a. /\ C \in Nat /\ D \in Nat /\ lockout.attempts \in Nat /\ \A x \in Requests : request[x].count.attempts \in Nat
      /\ C = Cardinality(FailuresCounted) /\ D = Cardinality(FailuresCounted')
  BY FailuresFinite, FailuresFiniteThen DEF AccountTyped, RequestRow, Failures
<1>b. /\ lockout.attempts <= C /\ (together = {} => lockout.attempts = C)
      /\ \A x \in Requests : At(x, "count") =>
           request[x].count.attempts <= C /\ (together = {} => request[x].count.attempts = C)
  BY DEF LockoutInv, LockoutCounts
<1> HIDE DEF C, D
<1>p. \A x \in Requests : x # q => request'[x] = request[x]
  BY DEF Moves, OthersStay
<1>q. Path(request[q].at, request'[q].at)
  BY DEF Moves, Strides
<1>t. together \subseteq together'
  BY DEF Kept
<1>s. SpendsOn(q)
  BY MoveSpends
<1> SUFFICES /\ lockout'.attempts <= D /\ (together' = {} => lockout'.attempts = D)
             /\ \A x \in Requests : request'[x].at = "count" =>
                  request'[x].count.attempts <= D /\ (together' = {} => request'[x].count.attempts = D)
  BY <1>a DEF LockoutInv, LockoutCounts, At
<1>1. CASE ClearAttempts(q)
  <2>1. /\ lockout'.attempts = 0 /\ spent' = spent \cup {<<"login", 0, q>>} /\ together' = together
        /\ At(q, "clear") /\ request'[q].at = "store"
    BY <1>1, Going DEF ClearAttempts, Spends, NoAttempts
  <2>r. Running(q)
    BY <2>1 DEF Running, At
  <2>2. \A r : /\ <<"miss", 0, r>> \in spent' <=> <<"miss", 0, r>> \in spent
               /\ r # q => (<<"login", 0, r>> \in spent' <=> <<"login", 0, r>> \in spent)
    BY <2>1
  <2>3. together' = {} => D = 0
    <3> SUFFICES ASSUME together' = {} PROVE D = 0
      OBVIOUS
    <3>1. ASSUME NEW m \in FailuresCounted' PROVE FALSE
      <4>1. m \in Requests /\ <<"miss", 0, m>> \in spent /\ \A c \in Requests : Alone(c)' => c < m
        BY <2>2, <3>1 DEF FailuresCounted, Alone
      <4>2. request[m].at \in {"done", "crashed"} /\ ~At(m, "idle")
        BY <4>1 DEF SpentInPlace, At
      <4>3. Alone(q)'
        BY <2>1 DEF Alone, Overlapped
      <4>4. q < m
        BY <4>1, <4>3
      <4>5. Overlapped(q, m)
        BY <2>r, <4>1, <4>2, <4>4 DEF InOrder
      <4> QED BY <2>1, <4>5 DEF Overlapped
    <3>2. FailuresCounted' = {}
      BY <3>1
    <3> QED BY <1>a, <3>2, FS_EmptySet
  <2>4. ASSUME NEW x \in Requests, request'[x].at = "count"
        PROVE  request'[x].count.attempts <= D /\ (together' = {} => request'[x].count.attempts = D)
    <3>1. x # q /\ request'[x] = request[x] /\ At(x, "count")
      BY <1>p, <2>1, <2>4 DEF At
    <3>2. Running(x)
      BY <3>1 DEF Running, At
    <3>3. Overlapped(q, x)
      BY <2>r, <3>1, <3>2, OverlapsBoth
    <3>4. ~Alone(q)' /\ together # {} /\ together' # {}
      BY <2>1, <3>3 DEF Alone, Overlapped
    <3>5. \A c \in Requests : Alone(c)' <=> Alone(c) \/ (c = q /\ Alone(q)')
      BY <2>1, <2>2 DEF Alone, Overlapped
    <3>6. \A c \in Requests : Alone(c)' => Alone(c)
      BY <3>4, <3>5
    <3>7. FailuresCounted \subseteq FailuresCounted'
      <4>1. ASSUME NEW m \in Requests, MissedAfter(m) PROVE MissedAfter(m)'
        BY <2>2, <3>6, <4>1 DEF MissedAfter
      <4>2. FailuresCounted' = {m \in Requests : MissedAfter(m)'}
        BY DEF FailuresCounted, MissedAfter, Alone
      <4> QED BY <4>1, <4>2, FailuresAre
    <3>8. C <= D
      BY <1>a, <3>7, FS_Subset, FailuresFiniteThen
    <3> QED BY <1>a, <1>b, <3>1, <3>4, <3>8
  <2> QED BY <1>a, <2>1, <2>3, <2>4
<1>2. CASE CountAttempt(q)
  <2>1. /\ lockout' = Counted(request[q].count) /\ spent' = spent \cup {<<"miss", 0, q>>} /\ together' = together
        /\ At(q, "count") /\ request'[q].at = "done"
    BY <1>2, Going DEF CountAttempt, Spends
  <2>r. Running(q)
    BY <2>1 DEF Running, At
  <2>2. lockout'.attempts = request[q].count.attempts + 1
    BY <2>1 DEF Counted
  <2>3. \A r : /\ <<"login", 0, r>> \in spent' <=> <<"login", 0, r>> \in spent
               /\ <<"miss", 0, r>> \in spent' <=> <<"miss", 0, r>> \in spent \/ r = q
    BY <2>1
  <2>4. q \notin FailuresCounted
    <3>1. <<"miss", 0, q>> \notin spent
      BY <2>1 DEF SpentInPlace, At
    <3> QED BY <3>1 DEF FailuresCounted
  <2>5. FailuresCounted' = FailuresCounted \cup {q}
    <3>1. \A c \in Requests : Alone(c)' <=> Alone(c)
      BY <2>1, <2>3 DEF Alone, Overlapped
    <3>2. \A c \in Requests : Alone(c) => c # q
      BY <2>1 DEF Alone, SpentInPlace, At
    <3>3. \A c \in Requests : Alone(c) => c < q
      BY <2>r, <3>2, AfterSuccess
    <3>4. \A m \in Requests : MissedAfter(m)' <=> MissedAfter(m) \/ m = q
      BY <2>3, <3>1, <3>3 DEF MissedAfter
    <3>5. FailuresCounted' = {m \in Requests : MissedAfter(m)'}
      BY DEF FailuresCounted, MissedAfter, Alone
    <3> QED BY <3>4, <3>5, FailuresAre
  <2>6. D = C + 1
    <3>1. Cardinality(FailuresCounted \cup {q}) = Cardinality(FailuresCounted) + 1
      BY <2>4, FailuresFinite, FS_AddElement
    <3> QED BY <1>a, <2>5, <3>1
  <2>7. ASSUME NEW x \in Requests, request'[x].at = "count"
        PROVE  request'[x].count.attempts <= D /\ (together' = {} => request'[x].count.attempts = D)
    <3>1. x # q /\ request'[x] = request[x] /\ At(x, "count")
      BY <1>p, <2>1, <2>7 DEF At
    <3>2. Running(x)
      BY <3>1 DEF Running, At
    <3>3. together' # {}
      BY <2>1, <2>r, <3>1, <3>2, NothingTogether
    <3> QED BY <1>a, <1>b, <2>6, <3>1, <3>3
  <2>8. request[q].count.attempts <= C /\ (together = {} => request[q].count.attempts = C)
    BY <1>b, <2>1
  <2> QED BY <1>a, <2>1, <2>2, <2>6, <2>7, <2>8
<1>3. CASE Begin(q)
  <2>1. spent' = spent /\ lockout' = lockout
    BY <1>3 DEF Begin
  <2>2. FailuresCounted \subseteq FailuresCounted'
    <3>1. \A c \in Requests : Alone(c)' => Alone(c)
      BY <1>t, <2>1 DEF Alone, Overlapped
    <3>2. \A m \in Requests : MissedAfter(m) => MissedAfter(m)'
      BY <2>1, <3>1 DEF MissedAfter
    <3>3. FailuresCounted' = {m \in Requests : MissedAfter(m)'}
      BY DEF FailuresCounted, MissedAfter, Alone
    <3> QED BY <3>2, <3>3, FailuresAre
  <2>3. C <= D
    BY <1>a, <2>2, FS_Subset, FailuresFiniteThen
  <2>4. together' = {} => together = {} /\ D = C
    <3>1. together' = {} => together = {}
      BY <1>t
    <3>2. ASSUME together' = {} PROVE FailuresCounted' = FailuresCounted
      <4>1. together' = together
        BY <3>1, <3>2
      <4> QED BY <2>1, <4>1, SameFailures
    <3> QED BY <1>a, <3>1, <3>2
  <2>5. ASSUME NEW x \in Requests, request'[x].at = "count" PROVE request'[x] = request[x] /\ At(x, "count")
    <3>1. At(q, "idle")
      BY <1>3 DEF Begin
    <3>2. request'[q].at # "count"
      BY <1>q, <3>1 DEF Path, At
    <3> QED BY <1>p, <2>5, <3>2 DEF At
  <2> QED BY <1>a, <1>b, <2>1, <2>3, <2>4, <2>5
<1>4. CASE ~ClearAttempts(q) /\ ~CountAttempt(q) /\ ~Begin(q)
  <2>1. lockout' = lockout /\ together' = together
    BY <1>4 DEF Moves, RequestWrites
  <2>2. D = C
    <3>1. ~NewRow("login", 0, q) /\ ~NewRow("miss", 0, q)
      BY <1>4 DEF NewRow
    <3>2. \A r : /\ <<"login", 0, r>> \in spent' <=> <<"login", 0, r>> \in spent
                 /\ <<"miss", 0, r>> \in spent' <=> <<"miss", 0, r>> \in spent
      BY <1>s, <3>1 DEF SpendsOn
    <3>3. FailuresCounted' = FailuresCounted
      BY <2>1, <3>2, SameFailures
    <3> QED BY <1>a, <3>3
  <2>3. ASSUME NEW x \in Requests, request'[x].at = "count"
        PROVE  request'[x].count.attempts <= D /\ (together' = {} => request'[x].count.attempts = D)
    <3>1. CASE request'[x] = request[x]
      BY <1>b, <2>1, <2>2, <2>3, <3>1 DEF At
    <3>2. CASE x = q
      <4>1. At(q, "miss")
        BY <1>q, <2>3, <3>2 DEF Path, At
      <4>2. CrashRequest(q) => request'[q].at = "crashed"
        BY Going DEF CrashRequest
      <4>3. ReadAttempts(q)
        BY <2>3, <3>2, <4>1, <4>2 DEF Moves, Does
      <4>4. request'[q].count = lockout
        <5>1. request'[q] = [request[q] EXCEPT !.at = "count", !.count = lockout]
          BY <4>3 DEF ReadAttempts, AccountTyped
        <5>2. request[q] \in RequestRow
          BY DEF AccountTyped
        <5> QED BY <5>1, <5>2 DEF RequestRow
      <4> QED BY <1>b, <2>1, <2>2, <3>2, <4>4
    <3> QED BY <1>p, <3>1, <3>2
  <2> QED BY <1>b, <2>1, <2>2, <2>3
<1> QED BY <1>1, <1>2, <1>3, <1>4

(* --- the second factor --- *)

LEMMA SetsOfRequests ==
  \A S \in SUBSET Requests : /\ IsFiniteSet(S) /\ Cardinality(S) \in Nat /\ Cardinality(S) <= Cardinality(Requests)
                             /\ \A R \in SUBSET S : Cardinality(R) <= Cardinality(S)
<1>1. ASSUME NEW S \in SUBSET Requests
      PROVE  IsFiniteSet(S) /\ Cardinality(S) \in Nat /\ Cardinality(S) <= Cardinality(Requests)
  BY AuthAssumption, FS_Subset, FS_CardinalityType
<1>2. ASSUME NEW S \in SUBSET Requests, NEW R \in SUBSET S PROVE Cardinality(R) <= Cardinality(S)
  BY <1>1, FS_Subset
<1> QED BY <1>1, <1>2

LEMMA AddRequest ==
  \A S \in SUBSET Requests : \A x : x \notin S => Cardinality(S \cup {x}) = Cardinality(S) + 1
<1> SUFFICES ASSUME NEW S \in SUBSET Requests, NEW x, x \notin S PROVE Cardinality(S \cup {x}) = Cardinality(S) + 1
  OBVIOUS
<1>1. IsFiniteSet(S)
  BY SetsOfRequests
<1> QED BY <1>1, FS_AddElement

(* The wrong codes of a token while no other is counted for it.            *)
LEMMA WrongCodesStay ==
  ASSUME AccountTyped, SpentInPlace, NEW q \in Requests, Moves(q), NEW t \in Issued, ~NewRow("wrong code", t, q),
         ~(InvalidateTempToken(q) /\ request[q].token = t)
  PROVE  WrongFor(t)' = WrongFor(t) /\ PassedBy(t)' \subseteq PassedBy(t)
<1>1. \A m \in Requests : <<"wrong code", t, m>> \in spent' <=> <<"wrong code", t, m>> \in spent
  BY MoveSpends DEF SpendsOn
<1>2. WrongFor(t)' = WrongFor(t)
  BY <1>1 DEF WrongFor
<1>3. ASSUME NEW m \in Requests, <<"wrong code", t, m>> \in spent, request'[m].at \notin {"invalidate", "crashed"}
      PROVE  request[m].at \notin {"invalidate", "crashed"}
  <2>1. CASE request'[m] = request[m]
    BY <1>3, <2>1
  <2>2. CASE m = q /\ Path(request[q].at, request'[q].at)
    <3>1. request[q].token = t
      BY <1>3, <2>2 DEF SpentInPlace
    <3>2. ~CrashRequest(q)
      <4>1. CrashRequest(q) => request'[q].at = "crashed"
        BY Going DEF CrashRequest
      <4> QED BY <1>3, <2>2, <4>1
    <3>3. request[q].at # "invalidate"
      BY <3>1, <3>2 DEF Moves, Does, At
    <3> QED BY <2>2, <3>3 DEF Path
  <2> QED BY <2>1, <2>2 DEF Moves, OthersStay, Strides
<1>4. PassedBy(t)' \subseteq PassedBy(t)
  BY <1>1, <1>3 DEF PassedBy, WrongFor
<1> QED BY <1>2, <1>4

CountsWrong(t) ==
  /\ temps[t].attempts <= Cardinality(WrongFor(t))
  /\ temps[t].state = "live" => /\ Cardinality(PassedBy(t)) <= temps[t].attempts
                                /\ Cardinality(PassedBy(t)) < MaxTotpAttempts

LEMMA CountsWrongMove ==
  ASSUME AccountInv, SpentInPlace, NEW q \in Requests, Moves(q), NEW t \in Issued, CountsWrong(t)
  PROVE  CountsWrong(t)'
<1> USE DEF AccountInv
<1>a. /\ temps \in [Issued -> TempRow] /\ temps[t] \in TempRow /\ temps[t].attempts \in Nat /\ request[q].token \in Issued
      /\ MaxTotpAttempts \in Nat \ {0} /\ q \in Issued
  BY AuthAssumption, RequestsNumbered DEF AccountTyped, TempRow, RequestRow
<1>b. /\ WrongFor(t) \in SUBSET Requests /\ PassedBy(t) \in SUBSET Requests
      /\ WrongFor(t)' \in SUBSET Requests /\ PassedBy(t)' \in SUBSET Requests
  BY DEF WrongFor, PassedBy
<1>c. /\ Cardinality(WrongFor(t)) \in Nat /\ Cardinality(PassedBy(t)) \in Nat
      /\ Cardinality(WrongFor(t)') \in Nat /\ Cardinality(PassedBy(t)') \in Nat
  BY <1>b, SetsOfRequests
<1> SUFFICES /\ temps'[t].attempts <= Cardinality(WrongFor(t)')
             /\ temps'[t].state = "live" => /\ Cardinality(PassedBy(t)') <= temps'[t].attempts
                                            /\ Cardinality(PassedBy(t)') < MaxTotpAttempts
  BY DEF CountsWrong
<1>1. CASE CountWrongCode(q) /\ request[q].token = t
  <2>1. /\ temps' = [temps EXCEPT ![t].attempts = temps[t].attempts + 1]
        /\ spent' = spent \cup {<<"wrong code", t, q>>} /\ At(q, "wrong code")
        /\ Goes(q, IF temps[t].attempts + 1 >= MaxTotpAttempts THEN "invalidate" ELSE "miss")
    BY <1>1, <1>a DEF CountWrongCode, Spends
  <2>2. temps'[t].attempts = temps[t].attempts + 1 /\ temps'[t].state = temps[t].state
    <3>1. temps'[t] = [temps[t] EXCEPT !.attempts = temps[t].attempts + 1]
      BY <1>a, <2>1
    <3> QED BY <1>a, <3>1 DEF TempRow
  <2>3. q \notin WrongFor(t)
    BY <2>1 DEF WrongFor, SpentInPlace, At
  <2>4. WrongFor(t)' = WrongFor(t) \cup {q}
    <3>1. \A m \in Requests : <<"wrong code", t, m>> \in spent' <=> <<"wrong code", t, m>> \in spent \/ m = q
      BY <2>1
    <3> QED BY <3>1 DEF WrongFor
  <2>5. Cardinality(WrongFor(t)') = Cardinality(WrongFor(t)) + 1
    BY <1>b, <2>3, <2>4, AddRequest
  <2>6. \A m \in Requests : m # q => request'[m] = request[m]
    BY DEF Moves, OthersStay
  <2>7. q \notin PassedBy(t)
    BY <2>3 DEF PassedBy
  <2>8. CASE temps[t].attempts + 1 >= MaxTotpAttempts
    <3>1. request'[q].at = "invalidate"
      BY <2>1, <2>8, Going
    <3>2. PassedBy(t)' = PassedBy(t)
      <4>1. \A m \in Requests : m \in PassedBy(t)' <=> m \in PassedBy(t)
        BY <2>4, <2>6, <2>7, <3>1 DEF PassedBy
      <4> QED BY <1>b, <4>1
    <3> QED BY <1>a, <1>c, <2>2, <2>5, <3>2 DEF CountsWrong
  <2>9. CASE ~(temps[t].attempts + 1 >= MaxTotpAttempts)
    <3>1. request'[q].at = "miss"
      BY <2>1, <2>9, Going
    <3>2. PassedBy(t)' = PassedBy(t) \cup {q}
      <4>1. \A m \in Requests : m \in PassedBy(t)' <=> m \in PassedBy(t) \/ m = q
        BY <2>4, <2>6, <3>1 DEF PassedBy
      <4> QED BY <1>b, <4>1
    <3>3. Cardinality(PassedBy(t)') = Cardinality(PassedBy(t)) + 1
      BY <1>b, <2>7, <3>2, AddRequest
    <3> QED BY <1>a, <1>c, <2>2, <2>5, <2>9, <3>3 DEF CountsWrong
  <2> QED BY <2>8, <2>9
<1>2. CASE (InvalidateTempToken(q) \/ ConsumeTempToken(q)) /\ request[q].token = t
  <2>1. temps' = [temps EXCEPT ![t] = Consumed(temps[t])]
    BY <1>2, <1>a DEF InvalidateTempToken, ConsumeTempToken
  <2>2. temps'[t].attempts = 0 /\ temps'[t].state = "gone"
    BY <1>a, <2>1 DEF Consumed, TempRow
  <2> QED BY <1>c, <2>2
<1>3. CASE IssueTempToken(q) /\ t = q
  <2>1. temps'[t].attempts = 0 /\ spent' = spent /\ At(q, "issue")
    BY <1>3, <1>a DEF IssueTempToken
  <2>2. ASSUME NEW m \in PassedBy(t)' PROVE FALSE
    <3>1. m \in Requests /\ <<"wrong code", t, m>> \in spent
      BY <2>1, <2>2 DEF PassedBy, WrongFor
    <3>2. request[m].kind \in SecondFactors /\ request[m].token = t
      BY <3>1 DEF SpentInPlace
    <3>3. temps[q].state # "none"
      BY <1>3, <3>1, <3>2 DEF TokensIssued
    <3> QED BY <2>1, <3>3 DEF TokensIssued, At
  <2>3. PassedBy(t)' = {}
    BY <2>2
  <2>4. Cardinality(PassedBy(t)') = 0
    BY <2>3, FS_EmptySet
  <2> QED BY <1>a, <1>c, <2>1, <2>4
<1>4. CASE /\ ~(CountWrongCode(q) /\ request[q].token = t)
           /\ ~((InvalidateTempToken(q) \/ ConsumeTempToken(q)) /\ request[q].token = t)
           /\ ~(IssueTempToken(q) /\ t = q)
  <2>1. temps'[t] = temps[t]
    <3>1. CASE CountWrongCode(q)
      BY <1>4, <1>a, <3>1 DEF CountWrongCode
    <3>2. CASE InvalidateTempToken(q) \/ ConsumeTempToken(q)
      BY <1>4, <1>a, <3>2 DEF InvalidateTempToken, ConsumeTempToken
    <3>3. CASE IssueTempToken(q)
      BY <1>4, <1>a, <3>3 DEF IssueTempToken
    <3> QED BY <3>1, <3>2, <3>3 DEF Moves, RequestWrites
  <2>2. ~NewRow("wrong code", t, q)
    BY <1>4 DEF NewRow
  <2>3. WrongFor(t)' = WrongFor(t) /\ PassedBy(t)' \subseteq PassedBy(t)
    BY <1>4, <2>2, WrongCodesStay
  <2>4. Cardinality(PassedBy(t)') <= Cardinality(PassedBy(t))
    BY <1>b, <2>3, SetsOfRequests
  <2> QED BY <1>a, <1>c, <2>1, <2>3, <2>4 DEF CountsWrong
<1> QED BY <1>1, <1>2, <1>3, <1>4

(* What was answered before a request began is settled when it does. *)
LEMMA WrongBeforeSettled ==
  ASSUME AccountInv, SpentInPlace, Kept, NEW q \in Requests, Moves(q), NEW t \in Issued, NEW x \in Requests, ~At(x, "idle")
  PROVE  WrongBefore(x, t)' \subseteq WrongBefore(x, t)
<1> SUFFICES ASSUME NEW m \in Requests, m < x, request'[m].at = "done", ~Overlapped(m, x)', <<"wrong code", t, m>> \in spent'
             PROVE  At(m, "done") /\ ~Overlapped(m, x) /\ <<"wrong code", t, m>> \in spent
  BY DEF WrongBefore, At
<1>1. ~Overlapped(m, x)
  BY DEF Overlapped, Kept
<1>2. ~At(m, "idle") /\ ~Running(m)
  BY <1>1 DEF AccountInv, InOrder
<1>3. At(m, "done")
  BY <1>2 DEF Running, At
<1>4. ~NewRow("wrong code", t, m)
  BY <1>3 DEF NewRow, CountWrongCode, At
<1>5. <<"wrong code", t, m>> \in spent
  <2>1. <<"wrong code", t, m>> \in spent \/ (m = q /\ NewRow("wrong code", t, q))
    BY MoveSpends DEF SpendsOn
  <2> QED BY <1>4, <2>1
<1> QED BY <1>1, <1>3, <1>5

(* Who comes to use a temporary token, or has spent it: it found it live   *)
(* in this step, or used it before.                                        *)
LEMMA ComesToUse ==
  ASSUME AccountInv, NEW q \in Requests, Moves(q), NEW t \in Issued, NEW x \in Requests,
         UsesFactor(x, t)' \/ <<"temp", t, x>> \in spent'
  PROVE  \/ ~At(x, "idle") /\ temps[t].state = "live" /\ x = q /\ At(q, "temp") /\ temps' = temps
            /\ <<"temp", t, q>> \notin spent' \ spent
         \/ UsesFactor(x, t) \/ <<"temp", t, x>> \in spent
<1> USE DEF AccountInv
<1>1. CASE <<"temp", t, x>> \in spent'
  <2>1. <<"temp", t, x>> \in spent \/ (x = q /\ NewRow("temp", t, q))
    BY <1>1, MoveSpends DEF SpendsOn
  <2>2. NewRow("temp", t, q) => UsesFactor(q, t)
    BY DEF NewRow, ConsumeTempToken, UsesFactor, At
  <2> QED BY <2>1, <2>2
<1>2. CASE UsesFactor(x, t)' /\ request'[x] = request[x]
  BY <1>2 DEF UsesFactor
<1>3. CASE UsesFactor(x, t)' /\ x = q /\ <<"temp", t, x>> \notin spent'
  <2>1. Path(request[q].at, request'[q].at)
    BY DEF Moves, Strides
  <2>2. request'[q].token = t /\ request'[q].at \in {"verify", "burn", "consume"}
    BY <1>3 DEF UsesFactor
  <2>3. request[q].at \in {"temp", "verify", "burn"}
    BY <2>1, <2>2 DEF Path
  <2>4. request[q].token = t /\ ~At(q, "idle")
    BY <2>2, <2>3, MovesKeep DEF At
  <2>5. CASE At(q, "temp")
    <3>1. CrashRequest(q) => request'[q].at = "crashed"
      BY Going DEF CrashRequest
    <3>2. ReadTempToken(q)
      BY <2>2, <2>5, <3>1 DEF Moves, Does
    <3>3. temps[t].state = "live" /\ temps' = temps
      <4>1. request'[q].at = IF temps[t].state = "live" THEN "verify" ELSE "done"
        <5>1. request'[q] = [request[q] EXCEPT !.at = IF temps[t].state = "live" THEN "verify" ELSE "done",
                                               !.under = temps[t].under]
          BY <2>4, <3>2 DEF ReadTempToken, AccountTyped
        <5>2. request[q] \in RequestRow
          BY DEF AccountTyped
        <5> QED BY <5>1, <5>2 DEF RequestRow
      <4>2. temps' = temps
        BY <3>2 DEF ReadTempToken
      <4> QED BY <2>2, <4>1, <4>2
    <3> QED BY <1>3, <2>4, <2>5, <3>3
  <2>6. CASE ~At(q, "temp")
    BY <1>3, <2>3, <2>4, <2>6 DEF UsesFactor, At
  <2> QED BY <2>5, <2>6
<1> QED BY <1>1, <1>2, <1>3 DEF Moves, OthersStay

LEMMA FactorMove ==
  ASSUME AccountInv, SpentInPlace, FactorInv, Kept, NEW q \in Requests, Moves(q)
  PROVE  FactorInv'
<1>1. ASSUME NEW t \in Issued PROVE CountsWrong(t)'
  <2>1. CountsWrong(t)
    BY DEF FactorInv, CountsWrong
  <2> QED BY <2>1, CountsWrongMove
<1>2. ASSUME NEW t \in Issued, NEW x \in Requests, UsesFactor(x, t)' \/ <<"temp", t, x>> \in spent'
      PROVE  Cardinality(WrongBefore(x, t)') < MaxTotpAttempts
  <2>a. WrongBefore(x, t)' \in SUBSET Requests /\ WrongBefore(x, t) \in SUBSET Requests /\ PassedBy(t) \in SUBSET Requests
    BY DEF WrongBefore, PassedBy, WrongFor
  <2>b. /\ Cardinality(WrongBefore(x, t)') \in Nat /\ Cardinality(WrongBefore(x, t)) \in Nat
        /\ Cardinality(PassedBy(t)) \in Nat /\ MaxTotpAttempts \in Nat
    BY <2>a, SetsOfRequests, AuthAssumption
  <2>1. CASE ~At(x, "idle") /\ temps[t].state = "live"
    <3>1. WrongBefore(x, t)' \subseteq WrongBefore(x, t)
      BY <2>1, WrongBeforeSettled
    <3>2. WrongBefore(x, t) \subseteq PassedBy(t)
      BY DEF WrongBefore, PassedBy, WrongFor, At
    <3>3. Cardinality(WrongBefore(x, t)') <= Cardinality(PassedBy(t))
      BY <2>a, <3>1, <3>2, SetsOfRequests
    <3>4. Cardinality(PassedBy(t)) < MaxTotpAttempts
      BY <2>1 DEF FactorInv
    <3> QED BY <2>b, <3>3, <3>4
  <2>2. CASE UsesFactor(x, t) \/ <<"temp", t, x>> \in spent
    <3>1. ~At(x, "idle")
      BY <2>2 DEF UsesFactor, SpentInPlace, At
    <3>2. Cardinality(WrongBefore(x, t)') <= Cardinality(WrongBefore(x, t))
      BY <2>a, <3>1, WrongBeforeSettled, SetsOfRequests
    <3>3. Cardinality(WrongBefore(x, t)) < MaxTotpAttempts
      BY <2>2 DEF FactorInv
    <3> QED BY <2>b, <3>2, <3>3
  <2> QED BY <1>2, <2>1, <2>2, ComesToUse
<1> QED BY <1>1, <1>2 DEF FactorInv, CountsWrong

(* --- credentials that are accepted once --- *)

LEMMA OverlapIsMutual == \A p, q : Overlapped(p, q) => Overlapped(q, p)
<1> SUFFICES ASSUME NEW p, NEW q, Overlapped(p, q) PROVE Overlapped(q, p)
  OBVIOUS
<1>1. {p, q} = {q, p}
  OBVIOUS
<1> QED BY <1>1 DEF Overlapped

LEMMA FactorsOnceMove ==
  ASSUME AccountInv, SpentInPlace, FactorsOnce, Kept, NEW q \in Requests, Moves(q)
  PROVE  FactorsOnce'
<1> USE DEF AccountInv
<1>o. \A x, r : Overlapped(x, r) => Overlapped(x, r)'
  BY DEF Overlapped, Kept
<1> SUFFICES ASSUME NEW t \in Issued, NEW p \in Requests, <<"temp", t, p>> \in spent'
             PROVE  /\ temps'[t].state = "gone"
                    /\ \A x \in Requests \ {p} : UsesFactor(x, t)' \/ <<"temp", t, x>> \in spent' => Overlapped(p, x)'
  BY DEF FactorsOnce
<1>r. /\ temps \in [Issued -> TempRow] /\ temps[t] \in TempRow /\ request[q].token \in Issued /\ q \in Issued
  BY RequestsNumbered DEF AccountTyped, RequestRow
<1>1. CASE <<"temp", t, p>> \in spent
  <2>1. temps[t].state = "gone"
    BY <1>1 DEF FactorsOnce
  <2>2. temps'[t].state = "gone"
    <3>1. CASE IssueTempToken(q)
      <4>1. t # q
        BY <2>1, <3>1 DEF TokensIssued, IssueTempToken, At
      <4> QED BY <1>r, <2>1, <3>1, <4>1 DEF IssueTempToken
    <3>2. CASE CountWrongCode(q)
      BY <1>r, <2>1, <3>2 DEF CountWrongCode, TempRow
    <3>3. CASE InvalidateTempToken(q) \/ ConsumeTempToken(q)
      <4>1. temps' = [temps EXCEPT ![request[q].token] = Consumed(temps[request[q].token])]
        BY <1>r, <3>3 DEF InvalidateTempToken, ConsumeTempToken
      <4>2. Consumed(temps[t]).state = "gone"
        BY <1>r DEF Consumed, TempRow
      <4> QED BY <1>r, <2>1, <4>1, <4>2
    <3> QED BY <2>1, <3>1, <3>2, <3>3 DEF Moves, RequestWrites
  <2>3. ASSUME NEW x \in Requests \ {p}, UsesFactor(x, t)' \/ <<"temp", t, x>> \in spent' PROVE Overlapped(p, x)'
    <3>1. UsesFactor(x, t) \/ <<"temp", t, x>> \in spent
      BY <2>1, <2>3, ComesToUse
    <3> QED BY <1>1, <1>o, <3>1 DEF FactorsOnce
  <2> QED BY <2>2, <2>3
<1>2. CASE <<"temp", t, p>> \notin spent
  <2>1. p = q /\ ConsumeTempToken(q) /\ t = request[q].token /\ At(q, "consume")
    <3>1. p = q /\ NewRow("temp", t, q)
      BY <1>2, MoveSpends DEF SpendsOn
    <3> QED BY <3>1 DEF NewRow, ConsumeTempToken
  <2>2. temps'[t].state = "gone"
    BY <1>r, <2>1 DEF ConsumeTempToken, Consumed, TempRow
  <2>3. ASSUME NEW x \in Requests \ {p}, UsesFactor(x, t)' \/ <<"temp", t, x>> \in spent' PROVE Overlapped(p, x)'
    <3>1. UsesFactor(x, t) \/ <<"temp", t, x>> \in spent
      BY <2>1, <2>3, ComesToUse DEF At
    <3>2. CASE UsesFactor(x, t)
      <4>1. Running(x) /\ Running(q) /\ x # q
        BY <2>1, <3>2 DEF UsesFactor, Running, At
      <4> QED BY <1>o, <2>1, <4>1, OverlapsBoth
    <3>3. CASE <<"temp", t, x>> \in spent
      <4>1. UsesFactor(q, t) /\ x # q
        BY <2>1 DEF UsesFactor, At
      <4>2. Overlapped(x, q)
        BY <3>3, <4>1 DEF FactorsOnce
      <4> QED BY <1>o, <2>1, <4>2, OverlapIsMutual
    <3> QED BY <3>1, <3>2, <3>3
  <2> QED BY <2>2, <2>3
<1> QED BY <1>1, <1>2

LEMMA ComesToReset ==
  ASSUME AccountInv, SpentTyped, NEW q \in Requests, Moves(q), NEW t \in Issued, NEW x \in Requests,
         UsesLink(x, t)' \/ <<"reset", t, x>> \in spent'
  PROVE  \/ resets[t] = "valid" /\ x = q /\ At(q, "claim")
         \/ UsesLink(x, t) \/ <<"reset", t, x>> \in spent
<1> USE DEF AccountInv
<1>1. CASE <<"reset", t, x>> \in spent'
  <2>1. <<"reset", t, x>> \in spent \/ (x = q /\ NewRow("reset", t, q))
    BY <1>1, MoveSpends DEF SpendsOn
  <2>2. NewRow("reset", t, q) => UsesLink(q, t)
    BY KindFits DEF NewRow, MarkReset, UsesLink, At
  <2> QED BY <2>1, <2>2
<1>2. CASE UsesLink(x, t)' /\ request'[x] = request[x]
  BY <1>2 DEF UsesLink
<1>3. CASE UsesLink(x, t)' /\ x = q
  <2>1. Path(request[q].at, request'[q].at)
    BY DEF Moves, Strides
  <2>2. request'[q].token = t /\ request'[q].at \in {"password", "mark"} /\ request'[q].kind = "reset"
    BY <1>3 DEF UsesLink
  <2>3. request[q].at \in {"idle", "claim", "password"}
    BY <2>1, <2>2 DEF Path
  <2>4. ~At(q, "idle")
    <3>1. ASSUME Begin(q) PROVE request'[q].kind = "reset" => request'[q].at = "claim"
      <4>1. PICK kind \in authPlot.kinds : \E token \in TokensFor(kind), typed \in TypedFor(kind) :
              request' = [request EXCEPT ![q] = [Waiting EXCEPT !.kind = kind, !.at = FirstStep(kind),
                                                                !.token = token, !.typed = typed]]
        BY <3>1 DEF Begin
      <4>2. request'[q].kind = kind /\ request'[q].at = FirstStep(kind)
        BY <4>1 DEF AccountTyped, Waiting
      <4>3. FirstStep("reset") = "claim"
        BY DEF FirstStep
      <4> QED BY <4>2, <4>3
    <3>2. At(q, "idle") => Begin(q)
      BY DEF Moves, Strides
    <3> QED BY <2>2, <3>1, <3>2
  <2>5. request[q].token = t /\ request[q].kind = "reset"
    BY <2>2, <2>4, MovesKeep
  <2>6. CASE At(q, "claim")
    <3>1. CrashRequest(q) => request'[q].at = "crashed"
      BY Going DEF CrashRequest
    <3>2. ClaimReset(q)
      BY <2>2, <2>6, <3>1 DEF Moves, Does
    <3>3. PICK step : Goes(q, step) /\ step = IF resets[t] = "valid" THEN "password" ELSE "done"
      BY <2>5, <3>2 DEF ClaimReset
    <3>4. request'[q].at = step
      BY <3>3, Going
    <3> QED BY <1>3, <2>2, <2>6, <3>3, <3>4
  <2>7. CASE ~At(q, "claim")
    BY <1>3, <2>3, <2>4, <2>5, <2>7 DEF UsesLink, At
  <2> QED BY <2>6, <2>7
<1> QED BY <1>1, <1>2, <1>3 DEF Moves, OthersStay

LEMMA LinksOnceMove ==
  ASSUME AccountInv, SpentTyped, LinksInv, LinksOnce, Kept, NEW q \in Requests, Moves(q)
  PROVE  LinksOnce'
<1> USE DEF AccountInv
<1>o. \A x, r : Overlapped(x, r) => Overlapped(x, r)'
  BY DEF Overlapped, Kept
<1> SUFFICES ASSUME NEW t \in Issued, NEW p \in Requests, <<"reset", t, p>> \in spent'
             PROVE  /\ resets'[t] = "used"
                    /\ \A x \in Requests \ {p} : UsesLink(x, t)' \/ <<"reset", t, x>> \in spent' => Overlapped(p, x)'
  BY DEF LinksOnce
<1>r. /\ resets \in [Issued -> {"none", "valid", "used"}] /\ request[q].token \in Issued /\ q \in Issued
  BY RequestsNumbered DEF AccountTyped, RequestRow, SpentTyped
<1>1. CASE <<"reset", t, p>> \in spent
  <2>1. resets[t] = "used"
    BY <1>1 DEF LinksOnce
  <2>2. resets'[t] = "used"
    <3>1. CASE OfferReset(q)
      <4>1. t # q
        BY <2>1, <3>1 DEF LinksInv, OfferReset, At
      <4> QED BY <1>r, <2>1, <3>1, <4>1 DEF OfferReset
    <3>2. CASE VoidResets(q)
      BY <1>r, <2>1, <3>2 DEF VoidResets
    <3>3. CASE MarkReset(q)
      BY <1>r, <2>1, <3>3 DEF MarkReset
    <3> QED BY <2>1, <3>1, <3>2, <3>3 DEF Moves, RequestWrites
  <2>3. ASSUME NEW x \in Requests \ {p}, UsesLink(x, t)' \/ <<"reset", t, x>> \in spent' PROVE Overlapped(p, x)'
    <3>1. UsesLink(x, t) \/ <<"reset", t, x>> \in spent
      BY <2>1, <2>3, ComesToReset
    <3> QED BY <1>1, <1>o, <3>1 DEF LinksOnce
  <2> QED BY <2>2, <2>3
<1>2. CASE <<"reset", t, p>> \notin spent
  <2>1. p = q /\ MarkReset(q) /\ t = request[q].token /\ At(q, "mark")
    <3>1. p = q /\ NewRow("reset", t, q)
      BY <1>2, MoveSpends DEF SpendsOn
    <3> QED BY <3>1 DEF NewRow, MarkReset
  <2>2. resets'[t] = "used"
    BY <1>r, <2>1 DEF MarkReset
  <2>3. ASSUME NEW x \in Requests \ {p}, UsesLink(x, t)' \/ <<"reset", t, x>> \in spent' PROVE Overlapped(p, x)'
    <3>1. UsesLink(x, t) \/ <<"reset", t, x>> \in spent
      BY <2>1, <2>3, ComesToReset DEF At
    <3>2. CASE UsesLink(x, t)
      <4>1. Running(x) /\ Running(q) /\ x # q
        BY <2>1, <3>2 DEF UsesLink, Running, At
      <4> QED BY <1>o, <2>1, <4>1, OverlapsBoth
    <3>3. CASE <<"reset", t, x>> \in spent
      <4>1. UsesLink(q, t) /\ x # q
        BY <2>1, KindFits DEF UsesLink, At
      <4>2. Overlapped(x, q)
        BY <3>3, <4>1 DEF LinksOnce
      <4> QED BY <1>o, <2>1, <4>2, OverlapIsMutual
    <3> QED BY <3>1, <3>2, <3>3
  <2> QED BY <2>2, <2>3
<1> QED BY <1>1, <1>2

LEMMA HoldsOnMove ==
  ASSUME AccountInv, \A x \in Requests : HoldsOn(x), NEW q \in Requests, Moves(q), NEW x \in Requests
  PROVE  HoldsOn(x)'
<1> USE DEF AccountInv
<1>a. /\ sessions \in [Issued -> SessionRow] /\ \A s \in Issued : sessions[s] \in SessionRow
      /\ q \in Issued /\ q # 0 /\ x # 0 /\ \A r \in Requests : request[r].token \in Issued
  BY RequestsNumbered DEF AccountTyped, RequestRow
<1>q. Path(request[q].at, request'[q].at)
  BY DEF Moves, Strides
<1> SUFFICES ASSUME request'[x].kind = "refresh", request'[x].at \in {"store", "commit"}
             PROVE  /\ sessions'[request'[x].token].holder = x
                    /\ request'[x].typed = "exchange" => sessions'[request'[x].token].state = "valid"
  BY DEF HoldsOn, Exchanges
<1>1. CASE x # q
  <2>1. request'[x] = request[x] /\ Exchanges(x)
    BY <1>1 DEF Moves, OthersStay, Exchanges
  <2> DEFINE t == request[x].token
  <2>2. t \in Issued /\ sessions[t].holder = x /\ (request[x].typed = "exchange" => sessions[t].state = "valid")
    BY <1>a, <2>1 DEF HoldsOn
  <2>3. sessions'[t].holder = sessions[t].holder /\ sessions'[t].state = sessions[t].state
    <3>1. CASE StoreSession(q)
      <4>1. sessions[t].state # "none" /\ sessions[q].state = "none"
        BY <2>1, <3>1 DEF TokensIssued, Exchanges, StoreSession, At
      <4> QED BY <1>a, <2>2, <3>1, <4>1 DEF StoreSession
    <3>2. CASE LockToken(q)
      <4>1. sessions[request[q].token].holder = 0
        BY <3>2 DEF LockToken, MayExchange
      <4>2. t # request[q].token
        BY <1>a, <2>2, <4>1
      <4>3. sessions' = sessions \/ sessions' = [sessions EXCEPT ![request[q].token].holder = q]
        BY <3>2 DEF LockToken
      <4> QED BY <1>a, <2>2, <4>2, <4>3
    <3>3. CASE CommitRefresh(q)
      <4>1. Exchanges(q)
        BY <3>3, KindFits DEF CommitRefresh, Exchanges, At
      <4>2. sessions[request[q].token].holder = q
        BY <4>1 DEF HoldsOn
      <4>3. t # request[q].token
        BY <1>1, <2>2, <4>2
      <4>4. \A s \in Issued : s # request[q].token => sessions'[s] = sessions[s]
        BY <1>a, <3>3 DEF CommitRefresh
      <4> QED BY <2>2, <4>3, <4>4
    <3>4. CASE FinishRevoke(q)
      <4>1. t \notin request[q].victims
        BY <1>a, <2>2, <3>4 DEF FinishRevoke
      <4> QED BY <2>2, <3>4, <4>1 DEF FinishRevoke
    <3>5. CASE CrashRequest(q)
      BY <1>1, <2>2, <3>5 DEF CrashRequest
    <3>6. CASE sessions' = sessions
      BY <3>6
    <3> QED BY <3>1, <3>2, <3>3, <3>4, <3>5, <3>6 DEF Moves, RequestWrites
  <2> QED BY <2>1, <2>2, <2>3
<1>2. CASE x = q
  <2> DEFINE t == request[q].token
  <2>1. request[q].at \in {"clear", "lock", "store"}
    BY <1>2, <1>q DEF Path
  <2>2. t \in Issued /\ request'[q].kind = request[q].kind /\ request'[q].token = t /\ request[q].kind = "refresh"
    BY <1>2, <1>a, <2>1, MovesKeep DEF At
  <2>3. request[q].at # "clear"
    BY <2>2, KindFits DEF SecondFactors
  <2>4. CASE At(q, "store")
    <3>1. request'[q].at = "commit"
      BY <1>2, <1>q, <2>4 DEF Path, At
    <3>2. sessions'[t].holder = sessions[t].holder /\ sessions'[t].state = sessions[t].state
      <4>1. CASE StoreSession(q)
        <5>1. sessions[t].state # "none" /\ sessions[q].state = "none"
          BY <2>2, <2>4 DEF TokensIssued, At
        <5> QED BY <1>a, <2>2, <4>1, <5>1 DEF StoreSession
      <4>2. CASE sessions' = sessions
        BY <4>2
      <4>3. ~CrashRequest(q)
        <5>1. CrashRequest(q) => request'[q].at = "crashed"
          BY Going DEF CrashRequest
        <5> QED BY <3>1, <5>1
      <4> QED BY <2>4, <4>1, <4>2, <4>3 DEF Moves, RequestWrites, LockToken, CommitRefresh, FinishRevoke, At
    <3>3. request'[q].typed = request[q].typed
      BY <2>4 DEF Moves, Strides, LockToken, At
    <3> QED BY <1>2, <2>2, <2>4, <3>2, <3>3 DEF HoldsOn, Exchanges, At
  <2>5. CASE At(q, "lock")
    <3>1. CrashRequest(q) => request'[q].at = "crashed"
      BY Going DEF CrashRequest
    <3>2. LockToken(q)
      BY <1>2, <2>5, <3>1 DEF Moves, Does
    <3> DEFINE accepted == user.active /\ MayExchange(t)
               grace == user.active /\ sessions[t].state = "revoked" /\ sessions[t].used = "grace"
    <3>3. /\ request' = [request EXCEPT ![q].at = IF accepted \/ grace THEN "store" ELSE "done",
                                        ![q].typed = IF accepted THEN "exchange" ELSE "grace",
                                        ![q].under = sessions[t].under]
          /\ sessions' = IF accepted \/ grace THEN [sessions EXCEPT ![t].holder = q] ELSE sessions
      BY <3>2 DEF LockToken
    <3>4. accepted => sessions[t].state = "valid"
      BY DEF MayExchange
    <3> HIDE DEF accepted, grace
    <3>5. request'[q] = [request[q] EXCEPT !.at = IF accepted \/ grace THEN "store" ELSE "done",
                                           !.typed = IF accepted THEN "exchange" ELSE "grace",
                                           !.under = sessions[t].under]
      BY <3>3 DEF AccountTyped
    <3>6. /\ request'[q].at = (IF accepted \/ grace THEN "store" ELSE "done")
          /\ request'[q].typed = (IF accepted THEN "exchange" ELSE "grace")
      <4>1. request[q] \in RequestRow
        BY DEF AccountTyped
      <4> QED BY <3>5, <4>1 DEF RequestRow
    <3>7. (accepted \/ grace) /\ sessions' = [sessions EXCEPT ![t].holder = q]
      BY <1>2, <3>3, <3>6
    <3>8. sessions'[t].holder = q /\ sessions'[t].state = sessions[t].state
      BY <1>a, <2>2, <3>7 DEF SessionRow
    <3>9. request'[q].typed = "exchange" => accepted
      BY <3>6
    <3> QED BY <1>2, <2>2, <3>4, <3>8, <3>9
  <2> QED BY <2>1, <2>3, <2>4, <2>5 DEF At
<1> QED BY <1>1, <1>2

LEMMA ExchangedOnceMove ==
  ASSUME AccountInv, ExchangedOnce, NEW q \in Requests, Moves(q), \A s \in Issued : SessionGoesOn(s)
  PROVE  ExchangedOnce'
<1> USE DEF AccountInv
<1>1. \A x \in Requests : HoldsOn(x)
  BY DEF ExchangedOnce, HoldsOn
<1>2. \A x \in Requests : HoldsOn(x)'
  BY <1>1, HoldsOnMove
<1>3. ASSUME NEW s \in Issued, NEW p \in Requests, <<"session", s, p>> \in spent'
      PROVE  /\ sessions'[s].state \notin {"none", "valid"}
             /\ \A x \in Requests : <<"session", s, x>> \in spent' => x = p
  <2>a. request[q].token \in Issued /\ sessions[s] \in SessionRow
    BY DEF AccountTyped, RequestRow
  <2>0. \A x \in Requests : <<"session", s, x>> \in spent' => <<"session", s, x>> \in spent \/ (x = q /\ NewRow("session", s, q))
    BY MoveSpends DEF SpendsOn
  <2>1. NewRow("session", s, q) => /\ s = request[q].token /\ sessions[s].state = "valid" /\ sessions'[s].state = "revoked"
    <3> SUFFICES ASSUME NewRow("session", s, q)
                 PROVE  s = request[q].token /\ sessions[s].state = "valid" /\ sessions'[s].state = "revoked"
      OBVIOUS
    <3>1. s = request[q].token /\ CommitRefresh(q) /\ request[q].typed = "exchange"
      BY DEF NewRow
    <3>2. Exchanges(q)
      BY <3>1, KindFits DEF CommitRefresh, Exchanges, At
    <3>3. sessions[s].state = "valid"
      BY <1>1, <3>1, <3>2 DEF HoldsOn
    <3>4. sessions' = [sessions EXCEPT ![s] = [sessions[s] EXCEPT !.state = "revoked", !.used = "grace", !.holder = 0]]
      BY <3>1 DEF CommitRefresh, AccountTyped
    <3>5. sessions'[s] = [sessions[s] EXCEPT !.state = "revoked", !.used = "grace", !.holder = 0]
      BY <3>4 DEF AccountTyped
    <3>6. sessions'[s].state = "revoked"
      BY <2>a, <3>5 DEF SessionRow
    <3> QED BY <3>1, <3>3, <3>6
  <2>2. CASE NewRow("session", s, q)
    <3>1. \A x \in Requests : <<"session", s, x>> \notin spent
      BY <2>1, <2>2 DEF ExchangedOnce
    <3> QED BY <1>3, <2>0, <2>1, <2>2, <3>1
  <2>3. CASE ~NewRow("session", s, q)
    <3>1. \A x \in Requests : <<"session", s, x>> \in spent' => <<"session", s, x>> \in spent
      BY <2>0, <2>3
    <3>2. sessions[s].state \notin {"none", "valid"} /\ \A x \in Requests : <<"session", s, x>> \in spent => x = p
      BY <1>3, <3>1 DEF ExchangedOnce
    <3>3. sessions'[s].state \notin {"none", "valid"}
      BY <3>2 DEF SessionGoesOn
    <3> QED BY <3>1, <3>2, <3>3
  <2> QED BY <2>2, <2>3
<1> QED BY <1>2, <1>3 DEF ExchangedOnce, HoldsOn

(* When time passes, a row that is held stays as it is. *)
LEMMA ExchangedOncePasses ==
  ASSUME AccountInv, ExchangedOnce, Passes, \A s \in Issued : SessionGoesOn(s)
  PROVE  ExchangedOnce'
<1> USE DEF AccountInv
<1>1. request' = request /\ spent' = spent
  BY DEF Passes
<1>2. ASSUME NEW q \in Requests, Exchanges(q) PROVE HoldsOn(q)'
  <2>1. sessions[request[q].token].holder = q /\ (request[q].typed = "exchange" => sessions[request[q].token].state = "valid")
    BY <1>2 DEF ExchangedOnce, HoldsOn
  <2>2. request[q].token \in Issued /\ q # 0
    BY RequestsNumbered DEF AccountTyped, RequestRow
  <2> QED BY <1>1, <2>1, <2>2 DEF HoldsOn, Passes
<1>3. \A s \in Issued, p \in Requests : <<"session", s, p>> \in spent => sessions'[s].state \notin {"none", "valid"}
  BY DEF ExchangedOnce, SessionGoesOn
<1> QED BY <1>1, <1>2, <1>3 DEF ExchangedOnce, Exchanges, HoldsOn

(* Who uses a recovery code alone has used it alone before. *)
LEMMA UsedAloneBefore ==
  ASSUME AccountInv, Kept, NEW p \in Requests, UsedAlone(p)'
  PROVE  UsedAlone(p)
<1> USE DEF AccountInv
<1> SUFFICES ASSUME NEW r \in Requests \ {p}
             PROVE  request[r].kind # "enableMfa" /\ (request[r].kind = "recovery" => ~Overlapped(p, r))
  BY DEF UsedAlone
<1>1. request'[r].kind # "enableMfa" /\ (request'[r].kind = "recovery" => {p, r} \notin together')
  BY DEF UsedAlone, Overlapped
<1>2. CASE At(r, "idle")
  BY <1>2, KindFits DEF At
<1>3. CASE ~At(r, "idle")
  BY <1>1, <1>3 DEF Kept, Overlapped
<1> QED BY <1>2, <1>3

LEMMA CodesInHand ==
  ASSUME AccountInv, CodesOnce, NEW q \in Requests, Moves(q), NEW x \in Requests, request'[x].at = "burn"
  PROVE  /\ request'[x].kind = "recovery" /\ request'[x].typed \in request'[x].codes
         /\ \/ At(x, "burn") /\ request'[x].codes = request[x].codes
            \/ request'[x].codes = user.codes
<1> USE DEF AccountInv
<1>1. CASE x # q
  <2>1. request'[x] = request[x]
    BY <1>1 DEF Moves, OthersStay
  <2>2. At(x, "burn")
    BY <2>1 DEF At
  <2> QED BY <2>1, <2>2 DEF CodesOnce
<1>2. CASE x = q
  <2>1. Path(request[q].at, request'[q].at)
    BY DEF Moves, Strides
  <2>2. At(q, "verify")
    BY <1>2, <2>1 DEF Path, At
  <2>3. ~CrashRequest(q)
    <3>1. CrashRequest(q) => request'[q].at = "crashed"
      BY Going DEF CrashRequest
    <3> QED BY <1>2, <3>1
  <2>4. VerifyCode(q)
    BY <2>2, <2>3 DEF Moves, Does
  <2>5. request[q].kind # "totp"
    <3>1. ASSUME request[q].kind = "totp" PROVE FALSE
      <4>1. PICK step \in {"done", "consume", "wrong code"} : Goes(q, step)
        BY <2>4, <3>1 DEF VerifyCode
      <4>2. request'[q].at = step
        BY <4>1, Going
      <4> QED BY <1>2, <4>2
    <3> QED BY <3>1
  <2>6. request[q].kind = "recovery"
    BY <2>2, <2>5, KindFits DEF SecondFactors, At
  <2> DEFINE step == IF request[q].typed \in user.codes THEN "burn" ELSE "wrong code"
  <2>7. request' = [request EXCEPT ![q].at = step, ![q].codes = user.codes]
    BY <2>4, <2>5 DEF VerifyCode
  <2>8. step = "wrong code" \/ request[q].typed \in user.codes
    OBVIOUS
  <2> HIDE DEF step
  <2>9. request[q] \in RequestRow /\ request'[q] = [request[q] EXCEPT !.at = step, !.codes = user.codes]
    BY <2>7 DEF AccountTyped
  <2>10. /\ request'[q].at = step /\ request'[q].kind = request[q].kind /\ request'[q].typed = request[q].typed
         /\ request'[q].codes = user.codes
    BY <2>9 DEF RequestRow
  <2> QED BY <1>2, <2>6, <2>8, <2>10
<1> QED BY <1>1, <1>2

LEMMA CodesOnceMove ==
  ASSUME AccountInv, SpentInPlace, CodesOnce, Kept, NEW q \in Requests, Moves(q)
  PROVE  CodesOnce'
<1> USE DEF AccountInv
<1>1. ASSUME NEW x \in Requests, request'[x].at = "burn"
      PROVE  request'[x].kind = "recovery" /\ request'[x].typed \in request'[x].codes
  BY <1>1, CodesInHand
<1>2. ASSUME NEW c \in RecoveryCodes, NEW p \in Requests, <<"code", c, p>> \in spent', UsedAlone(p)'
      PROVE  /\ c \notin user'.codes
             /\ \A x \in Requests : request'[x].at = "burn" => c \notin request'[x].codes
             /\ \A x \in Requests : p < x => <<"code", c, x>> \notin spent'
  <2>1. UsedAlone(p)
    BY <1>2, UsedAloneBefore
  <2>2. \A x \in Requests : <<"code", c, x>> \in spent' => <<"code", c, x>> \in spent \/ (x = q /\ NewRow("code", c, q))
    BY MoveSpends DEF SpendsOn
  <2>3. \A x : Overlapped(p, x) => Overlapped(p, x)'
    BY DEF Overlapped, Kept
  <2>4. NewRow("code", c, q) => BurnCode(q) /\ c = request[q].typed /\ At(q, "burn")
    BY DEF NewRow, BurnCode
  <2>5. CASE <<"code", c, p>> \in spent
    <3>1. /\ c \notin user.codes
          /\ \A x \in Requests : At(x, "burn") => c \notin request[x].codes
          /\ \A x \in Requests : p < x => <<"code", c, x>> \notin spent
      BY <2>1, <2>5 DEF CodesOnce
    <3>2. c \notin user'.codes
      <4>1. user \in UserRow
        BY DEF AccountTyped
      <4>2. CASE BurnCode(q)
        <5>1. c \notin request[q].codes
          BY <3>1, <4>2 DEF BurnCode
        <5>2. user'.codes = RemainingCodes(request[q].codes, request[q].typed)
          BY <4>1, <4>2 DEF BurnCode, UserRow
        <5> QED BY <5>1, <5>2 DEF RemainingCodes
      <4>3. CASE WriteCodes(q)
        <5>1. request[p].kind = "recovery"
          BY <2>5 DEF SpentInPlace
        <5>2. request[q].kind # "enableMfa"
          BY <2>1, <5>1 DEF UsedAlone
        <5>3. user'.codes = {}
          BY <4>1, <4>3, <5>2 DEF WriteCodes, UserRow
        <5> QED BY <5>3
      <4> QED BY <3>1, <4>2, <4>3 DEF Moves, RequestWrites
    <3>3. ASSUME NEW x \in Requests, request'[x].at = "burn" PROVE c \notin request'[x].codes
      BY <3>1, <3>3, CodesInHand
    <3>4. ASSUME NEW x \in Requests, p < x, <<"code", c, x>> \in spent' PROVE FALSE
      <4>1. x = q /\ NewRow("code", c, q)
        BY <2>2, <3>1, <3>4
      <4>2. request[q].typed \in request[q].codes
        BY <2>4, <4>1 DEF CodesOnce
      <4> QED BY <2>4, <3>1, <4>1, <4>2
    <3> QED BY <3>2, <3>3, <3>4
  <2>6. CASE <<"code", c, p>> \notin spent
    <3>1. p = q /\ BurnCode(q) /\ c = request[q].typed /\ At(q, "burn")
      BY <1>2, <2>2, <2>4, <2>6
    <3>2. c \notin user'.codes
      <4>1. user'.codes = RemainingCodes(request[q].codes, request[q].typed)
        BY <3>1 DEF BurnCode, AccountTyped, UserRow
      <4> QED BY <3>1, <4>1 DEF RemainingCodes
    <3>3. Running(p)
      BY <3>1 DEF Running, At
    <3>4. ASSUME NEW x \in Requests, request'[x].at = "burn" PROVE c \notin request'[x].codes
      <4>1. x # q
        <5>1. Path(request[q].at, request'[q].at)
          BY DEF Moves, Strides
        <5> QED BY <3>1, <3>4, <5>1 DEF Path, At
      <4>2. request'[x] = request[x]
        BY <4>1 DEF Moves, OthersStay
      <4>3. At(x, "burn") /\ request[x].kind = "recovery" /\ Running(x)
        BY <3>4, <4>2 DEF At, CodesOnce, Running
      <4>4. Overlapped(p, x)
        BY <3>1, <3>3, <4>1, <4>3, OverlapsBoth
      <4> QED BY <2>1, <3>1, <4>1, <4>3, <4>4 DEF UsedAlone
    <3>5. ASSUME NEW x \in Requests, p < x, <<"code", c, x>> \in spent' PROVE FALSE
      <4>1. x # p
        BY <3>5, RequestsNumbered
      <4>2. <<"code", c, x>> \in spent
        BY <2>2, <3>1, <3>5, <4>1
      <4>3. ~At(x, "idle") /\ request[x].kind = "recovery"
        BY <4>2 DEF SpentInPlace
      <4>4. Overlapped(p, x)
        BY <3>3, <3>5, <4>3 DEF InOrder
      <4> QED BY <2>1, <4>1, <4>3, <4>4 DEF UsedAlone
    <3> QED BY <3>2, <3>4, <3>5
  <2> QED BY <2>5, <2>6
<1> QED BY <1>1, <1>2 DEF CodesOnce, At

LEMMA SignInFirst == AuthInit => SignInInv
<1> SUFFICES ASSUME AuthInit PROVE SignInInv
  OBVIOUS
<1>1. \A q \in Requests : request[q] = Waiting /\ request[q].kind = "none" /\ request[q].at = "idle"
  BY DEF AuthInit, Waiting
<1>2. spent = {} /\ together = {} /\ mailToken = "valid" /\ lockout.attempts = 0
      /\ resets = [r \in Issued |-> IF r = 0 THEN "valid" ELSE "none"]
  BY DEF AuthInit, NoAttempts
<1>3. PICK plot \in AuthPlots :
        temps = [t \in Issued |-> [state |-> IF t = 0 /\ plot.mfa THEN "live" ELSE "none", attempts |-> 0, under |-> 0]]
  BY DEF AuthInit
<1>4. SpentTyped /\ SpentInPlace
  BY <1>2 DEF SpentTyped, SpentInPlace
<1>5. LinksInv
  BY <1>1, <1>2, RequestsNumbered DEF LinksInv, LinksHeld, At, Issued
<1>6. MailInv
  BY <1>1, <1>2 DEF MailInv, At
<1>7. LockoutInv
  <2>1. FailuresCounted = {}
    BY <1>2 DEF FailuresCounted
  <2>2. Cardinality(FailuresCounted) = 0
    BY <2>1, FS_EmptySet
  <2> QED BY <1>1, <1>2, <2>2 DEF LockoutInv, LockoutCounts, At
<1>8. FactorInv
  <2>1. \A t \in Issued : WrongFor(t) = {} /\ PassedBy(t) = {} /\ \A q \in Requests : WrongBefore(q, t) = {}
    BY <1>2 DEF WrongFor, PassedBy, WrongBefore
  <2>2. Cardinality({}) = 0 /\ 0 < MaxTotpAttempts
    BY FS_EmptySet, AuthAssumption
  <2>3. \A t \in Issued : temps[t].attempts = 0
    BY <1>3
  <2>4. ASSUME NEW t \in Issued
        PROVE  /\ temps[t].attempts <= Cardinality(WrongFor(t))
               /\ Cardinality(PassedBy(t)) <= temps[t].attempts /\ Cardinality(PassedBy(t)) < MaxTotpAttempts
    <3>1. Cardinality(WrongFor(t)) = 0 /\ Cardinality(PassedBy(t)) = 0
      BY <2>1, <2>2
    <3> QED BY <2>2, <2>3, <3>1
  <2>5. ASSUME NEW t \in Issued, NEW q \in Requests PROVE Cardinality(WrongBefore(q, t)) < MaxTotpAttempts
    <3>1. Cardinality(WrongBefore(q, t)) = 0
      BY <2>1, <2>2
    <3> QED BY <2>2, <3>1
  <2> QED BY <2>4, <2>5 DEF FactorInv
<1>9. FactorsOnce /\ LinksOnce /\ ExchangedOnce /\ CodesOnce
  BY <1>1, <1>2 DEF FactorsOnce, LinksOnce, ExchangedOnce, HoldsOn, Exchanges, CodesOnce, At
<1> QED BY <1>4, <1>5, <1>6, <1>7, <1>8, <1>9 DEF SignInInv

(* When time passes, nothing but the sessions changes. *)
LEMMA SignInPasses ==
  ASSUME AccountInv, SignInInv, Passes, \A s \in Issued : SessionGoesOn(s)
  PROVE  SignInInv'
<1>u. UNCHANGED <<user, temps, resets, mailToken, lockout, request, spent, together>>
  BY DEF Passes
<1>1. SpentTyped' /\ SpentInPlace'
  BY <1>u DEF SignInInv, SpentTyped, SpentInPlace, At
<1>2. LinksInv'
  BY <1>u DEF SignInInv, LinksInv, LinksHeld, At, Overlapped
<1>3. MailInv'
  <2>1. VerificationLost' <=> VerificationLost
    BY <1>u DEF VerificationLost, Lost, Overlapped
  <2> QED BY <1>u, <2>1 DEF SignInInv, MailInv, Verifies, At
<1>4. LockoutInv'
  <2>1. FailuresCounted' = FailuresCounted
    BY <1>u DEF FailuresCounted, Overlapped
  <2> QED BY <1>u, <2>1 DEF SignInInv, LockoutInv, LockoutCounts, At
<1>5. FactorInv'
  <2>1. \A t : WrongFor(t)' = WrongFor(t) /\ PassedBy(t)' = PassedBy(t)
    BY <1>u DEF WrongFor, PassedBy
  <2>2. \A t, q : WrongBefore(q, t)' = WrongBefore(q, t) /\ (UsesFactor(q, t)' <=> UsesFactor(q, t))
    BY <1>u DEF WrongBefore, UsesFactor, At, Overlapped
  <2> QED BY <1>u, <2>1, <2>2 DEF SignInInv, FactorInv
<1>6. FactorsOnce' /\ LinksOnce'
  BY <1>u DEF SignInInv, FactorsOnce, LinksOnce, UsesFactor, UsesLink, Overlapped
<1>7. CodesOnce'
  <2>1. \A p : UsedAlone(p)' <=> UsedAlone(p)
    BY <1>u DEF UsedAlone, Overlapped
  <2> QED BY <1>u, <2>1 DEF SignInInv, CodesOnce, At
<1>8. ExchangedOnce'
  BY ExchangedOncePasses DEF SignInInv
<1> QED BY <1>1, <1>2, <1>3, <1>4, <1>5, <1>6, <1>7, <1>8 DEF SignInInv

LEMMA SignInStep == AccountInv /\ SignInInv /\ [AuthNext]_authVars => SignInInv'
<1> SUFFICES ASSUME AccountInv, SignInInv, [AuthNext]_authVars PROVE SignInInv'
  OBVIOUS
<1>1. AccountTyped /\ RequestStepsFit /\ InOrder /\ TokensIssued
  BY DEF AccountInv
<1>2. Kept /\ \A s \in Issued : SessionGoesOn(s)
  BY <1>1, StepKeeps, SessionsGoOn
<1>3. ASSUME NEW q \in Requests, Moves(q) PROVE SignInInv'
  <2> USE <1>1, <1>2, <1>3 DEF SignInInv
  <2>1. SpentTyped' /\ SpentInPlace'
    BY SpentTypedMove, SpentInPlaceMove
  <2>2. LinksInv' /\ MailInv' /\ LockoutInv'
    BY LinksMove, MailMove, LockoutMove
  <2>3. FactorInv' /\ FactorsOnce' /\ LinksOnce'
    BY FactorMove, FactorsOnceMove, LinksOnceMove
  <2>4. ExchangedOnce' /\ CodesOnce'
    BY ExchangedOnceMove, CodesOnceMove
  <2> QED BY <2>1, <2>2, <2>3, <2>4
<1>4. CASE Passes
  BY <1>2, <1>4, SignInPasses
<1> QED BY <1>1, <1>3, <1>4, StepMoves

(* A row of what was spent has a kind, a number and a request. *)
LEMMA SpentRow ==
  ASSUME NEW a \in SpentRows
  PROVE  /\ a = <<a[1], a[2], a[3]>> /\ a[3] \in Requests
         /\ a[1] \in {"wrong code", "temp", "session", "reset"} => a[2] \in Issued
         /\ a[1] = "code" => a[2] \in RecoveryCodes
<1>1. ASSUME a \in {"login", "miss"} \X {0} \X Requests
      PROVE  a = <<a[1], a[2], a[3]>> /\ a[3] \in Requests /\ a[1] \in {"login", "miss"}
  BY <1>1
<1>2. ASSUME a \in {"wrong code", "temp", "session", "reset"} \X Issued \X Requests
      PROVE  /\ a = <<a[1], a[2], a[3]>> /\ a[3] \in Requests /\ a[2] \in Issued
             /\ a[1] \in {"wrong code", "temp", "session", "reset"}
  <2>1. ASSUME NEW kinds, a \in kinds \X Issued \X Requests
        PROVE  a = <<a[1], a[2], a[3]>> /\ a[3] \in Requests /\ a[2] \in Issued /\ a[1] \in kinds
    BY <2>1
  <2> QED BY <1>2, <2>1
<1>3. ASSUME a \in {"code"} \X RecoveryCodes \X Requests
      PROVE  a = <<a[1], a[2], a[3]>> /\ a[3] \in Requests /\ a[2] \in RecoveryCodes /\ a[1] = "code"
  BY <1>3
<1> QED BY <1>1, <1>2, <1>3 DEF SpentRows

(* What the run checks follows. *)
LEMMA AcceptedOnce == AccountInv /\ SignInInv => SpentOnce
<1> SUFFICES ASSUME AccountInv, SignInInv, NEW a \in spent, NEW b \in spent,
                    a[1] \in {"temp", "reset", "code", "session"}, a[1] = b[1], a[2] = b[2], a[3] < b[3]
             PROVE  /\ a[1] # "session"
                    /\ \/ Overlapped(a[3], b[3])
                       \/ a[1] = "code" /\ \E r \in Of("recovery") \cup Of("enableMfa") : r \notin {a[3], b[3]} /\
                            (Overlapped(a[3], r) \/ request[r].kind = "enableMfa")
  BY DEF SpentOnce
<1>1. a \in SpentRows /\ b \in SpentRows
  BY DEF SignInInv, SpentTyped
<1> DEFINE kind == a[1]
           id == a[2]
           p == a[3]
           q == b[3]
<1>2. /\ p \in Requests /\ q \in Requests /\ <<kind, id, p>> \in spent /\ <<kind, id, q>> \in spent
      /\ kind = "code" => id \in RecoveryCodes
      /\ kind \in {"temp", "reset", "session"} => id \in Issued
  <2>1. a = <<kind, id, p>> /\ b = <<kind, id, q>>
    BY <1>1, SpentRow
  <2> QED BY <1>1, <2>1, SpentRow
<1>3. p < q /\ kind \in {"temp", "reset", "code", "session"} /\ p # q
  BY <1>2, RequestsNumbered
<1> HIDE DEF kind, id, p, q
<1>4. CASE kind = "session"
  BY <1>2, <1>3, <1>4 DEF SignInInv, ExchangedOnce
<1>5. CASE kind = "temp"
  BY <1>2, <1>3, <1>5 DEF SignInInv, FactorsOnce, kind, p, q
<1>6. CASE kind = "reset"
  BY <1>2, <1>3, <1>6 DEF SignInInv, LinksOnce, kind, p, q
<1>7. CASE kind = "code"
  <2>1. ~UsedAlone(p)
    BY <1>2, <1>3, <1>7 DEF SignInInv, CodesOnce
  <2>2. PICK r \in Requests \ {p} : request[r].kind = "enableMfa" \/ (request[r].kind = "recovery" /\ Overlapped(p, r))
    BY <2>1 DEF UsedAlone
  <2>3. request[q].kind = "recovery"
    BY <1>2, <1>7 DEF SignInInv, SpentInPlace
  <2>4. r = q => Overlapped(p, q)
    BY <2>2, <2>3
  <2>5. r \in Of("recovery") \cup Of("enableMfa") /\ (Overlapped(p, r) \/ request[r].kind = "enableMfa")
    BY <2>2 DEF Of
  <2> QED BY <1>7, <2>4, <2>5 DEF kind, p, q
<1> QED BY <1>3, <1>4, <1>5, <1>6, <1>7

LEMMA WrongCodesClose == AccountInv /\ SignInInv => WrongCodesCloseTheToken
<1> SUFFICES ASSUME AccountInv, SignInInv, NEW a \in spent, a[1] = "temp"
             PROVE  Cardinality(WrongBefore(a[3], a[2])) < MaxTotpAttempts
  BY DEF WrongCodesCloseTheToken, WrongBefore
<1>1. a \in SpentRows
  BY DEF SignInInv, SpentTyped
<1>2. a = <<"temp", a[2], a[3]>> /\ a[2] \in Issued /\ a[3] \in Requests
  BY <1>1, SpentRow
<1> QED BY <1>2 DEF SignInInv, FactorInv

LEMMA SignInSuffices ==
  AccountInv /\ SignInInv => AuthTypeOK /\ CredentialsAreSpentOnce /\ LatestLinkOnly /\ UsedLinkVerifies /\ LockoutCounts
<1> SUFFICES ASSUME AccountInv, SignInInv
             PROVE  AuthTypeOK /\ CredentialsAreSpentOnce /\ LatestLinkOnly /\ UsedLinkVerifies /\ LockoutCounts
  OBVIOUS
<1>a. AccountTyped /\ LockoutCounts /\ resets \in [Issued -> {"none", "valid", "used"}]
  BY DEF AccountInv, SignInInv, LockoutInv, SpentTyped
<1>1. AuthTypeOK
  <2>1. Cardinality(Requests) \in Nat
    BY AuthAssumption, FS_CardinalityType
  <2>2. user.password \in Issued /\ user.codes \subseteq RecoveryCodes
        /\ {user.legacy, user.active, user.verified, user.mfa} \subseteq BOOLEAN
    BY <1>a DEF AccountTyped, UserRow
  <2>3. ASSUME NEW s \in Issued
        PROVE  /\ sessions[s].state \in {"none", "valid", "revoked", "expired"}
               /\ sessions[s].used \in {"no", "grace", "old"}
               /\ {sessions[s].under, sessions[s].holder} \subseteq Issued /\ sessions[s].line \subseteq Requests
               /\ temps[s].state \in {"none", "live", "gone"} /\ temps[s].attempts \in 0..Cardinality(Requests)
               /\ resets[s] \in {"none", "valid", "used"}
    <3>1. sessions[s] \in SessionRow /\ temps[s] \in TempRow
      BY <1>a DEF AccountTyped
    <3>2. temps[s].attempts <= Cardinality(WrongFor(s))
      BY DEF SignInInv, FactorInv
    <3>3. Cardinality(WrongFor(s)) \in Nat /\ Cardinality(WrongFor(s)) <= Cardinality(Requests)
      BY SetsOfRequests DEF WrongFor
    <3>4. temps[s].attempts \in 0..Cardinality(Requests)
      BY <2>1, <3>1, <3>2, <3>3 DEF TempRow
    <3> QED BY <1>a, <3>1, <3>4 DEF SessionRow, TempRow
  <2>4. lockout.attempts \in 0..Cardinality(Requests) /\ lockout.locked \in BOOLEAN
    <3>1. lockout.attempts \in Nat /\ lockout.locked \in BOOLEAN
      BY <1>a DEF AccountTyped, Failures
    <3>2. lockout.attempts <= Cardinality(FailuresCounted)
      BY <1>a DEF LockoutCounts
    <3> QED BY <2>1, <3>1, <3>2, FailuresFinite
  <2>5. together \subseteq SUBSET Requests
    BY DEF SignInInv, SpentTyped
  <2> QED BY <2>2, <2>3, <2>4, <2>5 DEF AuthTypeOK
<1>2. CredentialsAreSpentOnce
  BY AcceptedOnce, WrongCodesClose DEF CredentialsAreSpentOnce
<1>3. LatestLinkOnly
  <2> SUFFICES ASSUME NEW r \in Issued, NEW q \in Requests, r < q, resets[r] = "valid", resets[q] = "valid"
               PROVE  Overlapped(r, q)
    BY DEF LatestLinkOnly
  <2>1. r # q
    BY IssuedNumbered
  <2>2. Overlapped(q, r)
    BY <2>1 DEF SignInInv, LinksInv
  <2> QED BY <2>2, OverlapIsMutual
<1>4. UsedLinkVerifies
  <2> SUFFICES ASSUME mailToken = "used", ~user.verified, ~LostAccountChange(Of("verifyEmail"))
               PROVE  \E v \in Of("verifyEmail") : ~At(v, "done") \/ request[v].typed = "signed out"
    BY DEF UsedLinkVerifies
  <2>1. ~VerificationLost
    BY DEF VerificationLost, Lost, LostAccountChange, AccountWriters, RowWriters, Of
  <2>2. PICK v \in Requests : Verifies(v)
    BY <2>1 DEF SignInInv, MailInv
  <2> QED BY <2>2 DEF Verifies, Of, At
<1> QED BY <1>a, <1>1, <1>2, <1>3, <1>4

(* Every way of signing in keeps what it promises, whatever number of      *)
(* requests run beside each other and however they crash: a credential is  *)
(* accepted once but for the overlaps that SpentOnce names, wrong codes    *)
(* close their temporary token, only the latest reset link works, a used   *)
(* verification link has verified the address and the lockout counts the   *)
(* failures there were.                                                    *)
THEOREM SignInsAlwaysRight ==
  AuthSpec => [](AuthTypeOK /\ CredentialsAreSpentOnce /\ LatestLinkOnly /\ UsedLinkVerifies /\ LockoutCounts)
<1>1. AuthInit => AccountInv /\ SignInInv
  BY AccountFirst, SignInFirst
<1>2. AccountInv /\ SignInInv /\ [AuthNext]_authVars => (AccountInv /\ SignInInv)'
  BY AccountStep, SignInStep
<1>3. AccountInv /\ SignInInv => AuthTypeOK /\ CredentialsAreSpentOnce /\ LatestLinkOnly /\ UsedLinkVerifies /\ LockoutCounts
  BY SignInSuffices
<1> QED BY <1>1, <1>2, <1>3, PTL DEF AuthSpec
=============================================================================
