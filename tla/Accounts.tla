------------------------------ MODULE Accounts ------------------------------
(***************************************************************************)
(* The account behind one phone number: one-time codes and sessions        *)
(* (auth_service.go) and the users row (user_service.go).                  *)
(*                                                                         *)
(* A code is asked for, verified and consumed; verifying it finds or       *)
(* creates the user and starts a session, which is a family of refresh     *)
(* tokens: each refresh revokes the token it is given and adds the next    *)
(* one.  A revoked token that comes back ends its family.  Every method    *)
(* reads, decides, and writes by id in later statements; none is in a      *)
(* transaction.                                                            *)
(*                                                                         *)
(* One purpose of codes is modelled, and the 24 hours the daily cap looks  *)
(* back do not end.  Access tokens (which no table holds), devices, the    *)
(* log of login attempts, replaced_by_id and, of the users row, the        *)
(* profile, the status and the times are left out: no code reads them to   *)
(* decide anything, so that a suspended user is treated like an active one *)
(* (and MarkPhoneVerified and AdminSetStatus change nothing that counts).  *)
(***************************************************************************)
EXTENDS Integers, FiniteSets

CONSTANTS
    MaxPerDay,           \* OTP_MAX_REQUESTS_PER_DAY
    MaxAttempts,         \* OTP_MAX_ATTEMPTS
    Tokens,              \* the refresh_tokens rows that may be created
    Requests,            \* request slots
    None,                \* no row
    NoJob                \* job[r] of a slot that serves no request

VARIABLES
    user,                \* the users row of the number: deleted or not, or None
    code,                \* code[k]: the k-th otp_challenges row, or None
    token,               \* token[t]: the refresh_tokens row, or None
    job,                 \* job[r]: the request in slot r, or NoJob
    logins,              \* history variable: logins[k], the sessions from code k
    overlaps,            \* history variable: which requests have overlapped
    overtaken            \* history variable: the requests that were in flight
                         \* when the user was deleted

vars == <<user, code, token, job, logins, overlaps, overtaken>>

-----------------------------------------------------------------------------
\* More than are ever requested, see LimitsNearlyKept.
Codes == 1 .. MaxPerDay + Cardinality(Requests)

User == {"kept", "deleted"}

\* "active": neither consumed nor expired.
Code == [attempts : Nat, active : BOOLEAN]

\* "family" is the first token of the rotation chain.
Token == [family : Tokens, revoked : BOOLEAN, expired : BOOLEAN]

Job == [step : {"count", "insert"}]
         \cup [step : {"wrong", "consume", "find", "create", "start"}, code : Codes]
         \cup [step : {"end", "check", "revoke", "renew"}, token : Tokens]

ASSUME AccountsAssumption ==
    /\ MaxPerDay \in Nat \ {0} /\ MaxAttempts \in Nat \ {0}
    /\ Requests # {} /\ IsFiniteSet(Requests)
    /\ NoJob \notin Job /\ None \notin User \cup Code \cup Token \cup Tokens

TypeOK ==
    /\ user \in User \cup {None}
    /\ code \in [Codes -> Code \cup {None}]
    /\ token \in [Tokens -> Token \cup {None}]
    /\ job \in [Requests -> Job \cup {NoJob}]
    /\ logins \in [Codes -> Nat]
    /\ overlaps \subseteq {"verify", "refresh"}
    /\ overtaken \subseteq Requests

Init ==
    /\ user = None
    /\ code = [k \in Codes |-> None]
    /\ token = [t \in Tokens |-> None]
    /\ job = [r \in Requests |-> NoJob]
    /\ logins = [k \in Codes |-> 0]
    /\ overlaps = {}
    /\ overtaken = {}

Free(r) == job[r] = NoJob

At(r, step) == job[r] # NoJob /\ job[r].step = step

Become(r, newJob) == job' = [job EXCEPT ![r] = newJob] /\ UNCHANGED overtaken

Goto(r, step) == Become(r, [job[r] EXCEPT !.step = step])

Done(r) == job' = [job EXCEPT ![r] = NoJob] /\ overtaken' = overtaken \ {r}

\* The codes requested in the last 24 hours.
Requested == {k \in Codes : code[k] # None}

\* GetLatestActiveOTP: the newest of them.
Active == {k \in Requested : code[k].active}

LatestActive == {k \in Active : \A l \in Active : l <= k}

Exists(t) == token[t] # None

Live(t) == Exists(t) /\ ~ token[t].revoked /\ ~ token[t].expired

\* Mutant: the deleted row is found too.
MutantFound == user # None

\* GetByID and GetByPhoneOrEmail: the row, unless it is soft-deleted.
Found == user = "kept"

\* The requests in flight that verify code k, and those that refresh a family.
Verifying(k) == {r \in Requests : ~ Free(r) /\ "code" \in DOMAIN job[r] /\ job[r].code = k}

Refreshing(f) == {r \in Requests : /\ job[r] # NoJob
                                   /\ job[r].step \in {"check", "revoke", "renew"}
                                   /\ token[job[r].token].family = f}

-----------------------------------------------------------------------------
(***************************************************************************)
(* RequestOTP.                                                             *)
(***************************************************************************)

\* The resend cooldown keeps no request out for certain: it is skipped when the
\* latest code cannot be read, or has been consumed.
RequestOTP(r) ==
    /\ Free(r)
    /\ Become(r, [step |-> "count"])
    /\ UNCHANGED <<user, code, token, logins, overlaps>>

CountRecentOTPRequests(r) ==
    /\ At(r, "count")
    /\ IF Cardinality(Requested) < MaxPerDay THEN Goto(r, "insert") ELSE Done(r)
    /\ UNCHANGED <<user, code, token, logins, overlaps>>

\* The code stays valid if sending it fails.
CreateOTPChallenge(r) ==
    /\ At(r, "insert")
    /\ \E k \in Codes \ Requested :
         /\ \A l \in Codes \ Requested : k <= l
         /\ code' = [code EXCEPT ![k] = [attempts |-> 0, active |-> TRUE]]
    /\ Done(r)
    /\ UNCHANGED <<user, token, logins, overlaps>>

-----------------------------------------------------------------------------
(***************************************************************************)
(* VerifyOTP.                                                              *)
(***************************************************************************)

\* Mutant: the attempts are not looked at.
MutantMayTry(k) == TRUE

MayTry(k) == code[k].attempts < MaxAttempts

\* The latest code is read, and the code that was typed compared with it.
VerifyOTP(r, right) ==
    /\ Free(r)
    /\ \E k \in LatestActive :
         /\ MayTry(k)
         /\ Become(r, [step |-> IF right THEN "consume" ELSE "wrong", code |-> k])
         /\ overlaps' = IF Verifying(k) = {} THEN overlaps ELSE overlaps \cup {"verify"}
    /\ UNCHANGED <<user, code, token, logins>>

IncrementOTPAttempt(r) ==
    /\ At(r, "wrong")
    /\ code' = [code EXCEPT ![job[r].code].attempts = @ + 1]
    /\ Done(r)
    /\ UNCHANGED <<user, token, logins, overlaps>>

\* Mutant: the code stays active.
MutantConsumeOTP(r) ==
    /\ At(r, "consume")
    /\ Goto(r, "find")
    /\ UNCHANGED <<user, code, token, logins, overlaps>>

ConsumeOTP(r) ==
    /\ At(r, "consume")
    /\ code' = [code EXCEPT ![job[r].code].active = FALSE]
    /\ Goto(r, "find")
    /\ UNCHANGED <<user, token, logins, overlaps>>

\* GetByPhoneOrEmail.
FindUser(r) ==
    /\ At(r, "find")
    /\ Goto(r, IF Found THEN "start" ELSE "create")
    /\ UNCHANGED <<user, code, token, logins, overlaps>>

\* phone_number is UNIQUE, and the row of a deleted user keeps it.
CreateUser(r) ==
    /\ At(r, "create")
    /\ IF user # None THEN Done(r) /\ UNCHANGED user
       ELSE user' = "kept" /\ Goto(r, "start")
    /\ UNCHANGED <<code, token, logins, overlaps>>

\* issueTokenPair: the first token of a new family.
StartSession(r) ==
    /\ At(r, "start")
    /\ \E t \in Tokens :
         /\ ~ Exists(t)
         /\ token' = [token EXCEPT ![t] = [family |-> t, revoked |-> FALSE, expired |-> FALSE]]
    /\ logins' = [logins EXCEPT ![job[r].code] = @ + 1]
    /\ Done(r)
    /\ UNCHANGED <<user, code, overlaps>>

-----------------------------------------------------------------------------
(***************************************************************************)
(* RefreshTokens and Logout.                                               *)
(***************************************************************************)

\* Mutant: a token that was logged out is as good as any.
MutantRefreshTokens(r, t) ==
    /\ Free(r)
    /\ Exists(t) /\ ~ token[t].expired
    /\ Become(r, [step |-> "check", token |-> t])
    /\ overlaps' = IF Refreshing(token[t].family) # {} THEN overlaps \cup {"refresh"} ELSE overlaps
    /\ UNCHANGED <<user, code, token, logins>>

\* Any token ever issued may be presented, also again.
RefreshTokens(r, t) ==
    /\ Free(r)
    /\ Exists(t) /\ (token[t].revoked \/ Live(t))
    /\ Become(r, [step |-> IF token[t].revoked THEN "end" ELSE "check", token |-> t])
    /\ overlaps' = IF Live(t) /\ Refreshing(token[t].family) # {}
                   THEN overlaps \cup {"refresh"} ELSE overlaps
    /\ UNCHANGED <<user, code, token, logins>>

\* Mutant: only the token that came back is revoked.
MutantOfFamily(t) == {t}

OfFamily(t) == {u \in Tokens : Exists(u) /\ token[u].family = token[t].family}

RevokeRefreshTokenFamily(r) ==
    /\ At(r, "end")
    /\ token' = [t \in Tokens |-> IF t \in OfFamily(job[r].token)
                                  THEN [token[t] EXCEPT !.revoked = TRUE] ELSE token[t]]
    /\ Done(r)
    /\ UNCHANGED <<user, code, logins, overlaps>>

\* The status is not looked at: a suspended user's session goes on.
CheckUser(r) ==
    /\ At(r, "check")
    /\ IF Found THEN Goto(r, "revoke") ELSE Done(r)
    /\ UNCHANGED <<user, code, token, logins, overlaps>>

\* Mutant: the presented token stays valid.
MutantRevokeRefreshToken(r) ==
    /\ At(r, "revoke")
    /\ Goto(r, "renew")
    /\ UNCHANGED <<user, code, token, logins, overlaps>>

RevokeRefreshToken(r) ==
    /\ At(r, "revoke")
    /\ token' = [token EXCEPT ![job[r].token].revoked = TRUE]
    /\ Goto(r, "renew")
    /\ UNCHANGED <<user, code, logins, overlaps>>

CreateRefreshToken(r) ==
    /\ At(r, "renew")
    /\ \E t \in Tokens :
         /\ ~ Exists(t)
         /\ token' = [token EXCEPT ![t] = [family |-> token[job[r].token].family,
                                           revoked |-> FALSE, expired |-> FALSE]]
    /\ Done(r)
    /\ UNCHANGED <<user, code, logins, overlaps>>

Logout(t) ==
    /\ Exists(t)
    /\ token' = [token EXCEPT ![t].revoked = TRUE]
    /\ UNCHANGED <<user, code, job, logins, overlaps, overtaken>>

-----------------------------------------------------------------------------
(***************************************************************************)
(* The users row, time, and failures.                                      *)
(***************************************************************************)

DeactivateMe ==
    /\ user # None
    /\ user' = "deleted"
    /\ overtaken' = {r \in Requests : ~ Free(r)}
    /\ UNCHANGED <<code, token, job, logins, overlaps>>

CodeExpires(k) ==
    /\ k \in Active
    /\ code' = [code EXCEPT ![k].active = FALSE]
    /\ UNCHANGED <<user, token, job, logins, overlaps, overtaken>>

TokenExpires(t) ==
    /\ Live(t)
    /\ token' = [token EXCEPT ![t].expired = TRUE]
    /\ UNCHANGED <<user, code, job, logins, overlaps, overtaken>>

\* A statement fails, or the process ends, in the middle of a request.
Abort(r) ==
    /\ ~ Free(r)
    /\ Done(r)
    /\ UNCHANGED <<user, code, token, logins, overlaps>>

CodeStep(r) ==
    \/ RequestOTP(r) \/ CountRecentOTPRequests(r) \/ CreateOTPChallenge(r)
    \/ \E right \in BOOLEAN : VerifyOTP(r, right)
    \/ IncrementOTPAttempt(r) \/ ConsumeOTP(r)
    \/ FindUser(r) \/ CreateUser(r) \/ StartSession(r)

SessionStep(r) ==
    \/ \E t \in Tokens : RefreshTokens(r, t)
    \/ RevokeRefreshTokenFamily(r) \/ CheckUser(r) \/ RevokeRefreshToken(r)
    \/ CreateRefreshToken(r)

Time ==
    \/ \E k \in Codes : CodeExpires(k)
    \/ \E t \in Tokens : TokenExpires(t)

Next ==
    \/ \E r \in Requests : CodeStep(r) \/ SessionStep(r) \/ Abort(r)
    \/ \E t \in Tokens : Logout(t)
    \/ DeactivateMe
    \/ Time

Spec == Init /\ [][Next]_vars

-----------------------------------------------------------------------------
\* Property of RequestOTP and VerifyOTP: the daily cap, and the limit of wrong
\* attempts of a code, are passed by less than the requests in flight at once.
LimitsNearlyKept ==
    /\ Cardinality(Requested) < MaxPerDay + Cardinality(Requests)
    /\ \A k \in Requested : code[k].attempts < MaxAttempts + Cardinality(Requests)

\* Property of VerifyOTP: a code starts at most one session, unless two requests
\* verify it at once.
OneSessionPerCode ==
    "verify" \notin overlaps => \A k \in Codes : logins[k] <= 1

\* Property of RefreshTokens ("rotates the refresh token"): one token of a
\* family is valid at a time, unless two refreshes of the family overlap.
OneLiveToken ==
    "refresh" \notin overlaps =>
        \A t, u \in Tokens : Live(t) /\ Live(u) /\ token[t].family = token[u].family => t = u

\* A session goes on while its family has a valid token or is being refreshed.
Open(f) ==
    \/ \E t \in Tokens : Live(t) /\ token[t].family = f
    \/ Refreshing(f) # {}

\* A reused token of family f ends the session.
Ending(f) ==
    \E r \in Requests : RevokeRefreshTokenFamily(r) /\ token[job[r].token].family = f

\* Property of RefreshTokens ("kill the whole family") and Logout: reuse ends a
\* session that nobody is refreshing, and a session that has ended, by reuse,
\* a logout, a lapse or a refresh that broke off, is never taken up again,
\* whatever old token of it is presented: only another code starts a session.
EndedStaysEnded ==
    [][\A f \in Tokens :
          (Exists(f) /\ ~ Open(f)) \/ (Ending(f) /\ Refreshing(f) = {}) => ~ Open(f)']_vars

\* Property of DeactivateMe: a deleted user gets no new session and no new
\* token, except from a request that was in flight.
DeletedStaysOut ==
    [][\A r \in Requests :
          user = "deleted" /\ (StartSession(r) \/ CreateRefreshToken(r)) => r \in overtaken]_vars
=============================================================================
