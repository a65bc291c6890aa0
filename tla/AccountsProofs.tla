--------------------------- MODULE AccountsProofs ---------------------------
(***************************************************************************)
(* Proofs about Accounts, for any limits, tokens and number of requests:   *)
(* what a code and a refresh token are good for, that an ended session and *)
(* a deleted user stay out, and by how much the limits can be passed.      *)
(*                                                                         *)
(* What makes these inductive: a code that is being verified has started   *)
(* no session yet, and is spent once its request is past ConsumeOTP; the   *)
(* token a refresh works on is the only one of its family that can be      *)
(* valid, and none is once it has been revoked; a limit is met when it is  *)
(* checked, and what has been let past it since is still in flight.        *)
(***************************************************************************)
EXTENDS Accounts, FiniteSetTheorems, TLAPS

USE AccountsAssumption

CodeSteps == {"wrong", "consume", "find", "create", "start"}

TokenSteps == {"end", "check", "revoke", "renew"}

\* What a request has read exists, and nothing is ever removed.
KnownInv ==
    /\ \A r \in Requests : job[r] # NoJob =>
         /\ job[r].step \in CodeSteps => code[job[r].code] # None
         /\ job[r].step \in TokenSteps => Exists(job[r].token)
    /\ \A t \in Tokens : Exists(t) => Exists(token[t].family)

TypeInv == TypeOK /\ KnownInv

IsActive(k) == code[k] # None /\ code[k].active

CodeInv ==
    /\ \A k \in Codes : code[k] = None => logins[k] = 0
    /\ "verify" \notin overlaps =>
         \A k \in Codes :
            /\ logins[k] <= 1
            /\ \A q, r \in Verifying(k) : q = r
            /\ IsActive(k) \/ Verifying(k) # {} => logins[k] = 0
            /\ \A r \in Verifying(k) :
                  IsActive(k) => job[r].step \in {"wrong", "consume"}

IsLiveOf(f, t) == Live(t) /\ token[t].family = f

TokenInv ==
    "refresh" \notin overlaps =>
       \A f \in Tokens :
          /\ \A q, r \in Refreshing(f) : q = r
          /\ \A t, u \in Tokens : IsLiveOf(f, t) /\ IsLiveOf(f, u) => t = u
          /\ \A r \in Refreshing(f), t \in Tokens :
                IsLiveOf(f, t) => t = job[r].token /\ job[r].step # "renew"

\* Nothing of a session is left, see Open.
Over(f) == Refreshing(f) = {} /\ \A t \in Tokens : ~ IsLiveOf(f, t)

\* Only who was overtaken gets past the checks of a deleted user.
DeletedInv ==
    user = "deleted" =>
       \A r \in Requests :
          job[r] # NoJob /\ job[r].step \in {"start", "revoke", "renew"} => r \in overtaken

Inserting == {r \in Requests : At(r, "insert")}

Wrong(k) == {r \in Requests : At(r, "wrong") /\ job[r].code = k}

LimitsInv ==
    /\ Cardinality(Requested) + Cardinality(Inserting) < MaxPerDay + Cardinality(Requests)
    /\ \A k \in Requested :
          code[k].attempts + Cardinality(Wrong(k)) < MaxAttempts + Cardinality(Requests)

\* How the request in slot r may go on, and what is known when it does.
Follows(r, newJob) ==
    \/ newJob = NoJob
    \/ newJob.step = "count"
    \/ newJob.step = "insert" /\ Cardinality(Requested) < MaxPerDay
    \/ /\ newJob.step \in {"wrong", "consume"} /\ job[r] = NoJob
       /\ IsActive(newJob.code) /\ MayTry(newJob.code)
       /\ Verifying(newJob.code) # {} => "verify" \in overlaps'
    \/ /\ newJob.step = "find" /\ At(r, "consume") /\ newJob.code = job[r].code
       /\ ~ IsActive(newJob.code)'
    \/ /\ newJob.step \in {"create", "start"} /\ (At(r, "find") \/ At(r, "create"))
       /\ newJob.code = job[r].code
       /\ newJob.step = "start" => user' = "kept"
    \/ newJob.step = "end"
    \/ /\ newJob.step = "check" /\ job[r] = NoJob /\ Live(newJob.token)
       /\ Refreshing(token[newJob.token].family) # {} => "refresh" \in overlaps'
    \/ /\ newJob.step = "revoke" /\ At(r, "check") /\ newJob.token = job[r].token
       /\ user = "kept"
    \/ /\ newJob.step = "renew" /\ At(r, "revoke") /\ newJob.token = job[r].token
       /\ ~ Live(newJob.token)'

-----------------------------------------------------------------------------
(***************************************************************************)
(* Types, and what every request has read.                                 *)
(***************************************************************************)

LEMMA CodesNat == Codes \subseteq Nat /\ IsFiniteSet(Codes)
  <1>1. Cardinality(Requests) \in Nat
    BY FS_CardinalityType
  <1>2. QED
    BY <1>1, FS_Interval DEF Codes

LEMMA JobAt ==
    ASSUME TypeInv, NEW r \in Requests, job[r] # NoJob
    PROVE  /\ job[r] \in Job
           /\ job[r].step \in CodeSteps =>
                /\ job[r] \in [step : CodeSteps, code : Codes]
                /\ code[job[r].code] \in Code
           /\ job[r].step \in TokenSteps =>
                /\ job[r] \in [step : TokenSteps, token : Tokens]
                /\ token[job[r].token] \in Token
           /\ job[r].step \in {"count", "insert"} \cup CodeSteps \cup TokenSteps
           /\ "code" \in DOMAIN job[r] <=> job[r].step \in CodeSteps
  <1>1. job[r] \in Job
    BY DEF TypeInv, TypeOK
  <1>2. /\ job[r].step \in CodeSteps => job[r] \in [step : CodeSteps, code : Codes]
        /\ job[r].step \in TokenSteps => job[r] \in [step : TokenSteps, token : Tokens]
        /\ job[r].step \in {"count", "insert"} \cup CodeSteps \cup TokenSteps
    BY <1>1 DEF Job, CodeSteps, TokenSteps
  <1>3. "code" \in DOMAIN job[r] <=> job[r].step \in CodeSteps
    BY <1>1 DEF Job, CodeSteps
  <1>4. /\ job[r].step \in CodeSteps => code[job[r].code] \in Code
        /\ job[r].step \in TokenSteps => token[job[r].token] \in Token
    BY <1>2 DEF TypeInv, TypeOK, KnownInv, Exists
  <1>5. QED
    BY <1>1, <1>2, <1>3, <1>4

\* A request may go on to any step that has read the same.
LEMMA GotoIn ==
    ASSUME TypeInv, NEW r \in Requests, job[r] # NoJob, NEW step,
           \/ job[r].step \in CodeSteps /\ step \in CodeSteps
           \/ job[r].step \in TokenSteps /\ step \in TokenSteps
           \/ job[r].step \in {"count", "insert"} /\ step \in {"count", "insert"}
    PROVE  /\ [job[r] EXCEPT !.step = step] \in Job
           /\ [job[r] EXCEPT !.step = step].step = step
           /\ step \in CodeSteps => [job[r] EXCEPT !.step = step].code = job[r].code
           /\ step \in TokenSteps => [job[r] EXCEPT !.step = step].token = job[r].token
  <1>1. CASE job[r].step \in CodeSteps /\ step \in CodeSteps
    <2>1. job[r] \in [step : CodeSteps, code : Codes]
      BY <1>1, JobAt
    <2>2. QED
      BY <1>1, <2>1 DEF Job, CodeSteps, TokenSteps
  <1>2. CASE job[r].step \in TokenSteps /\ step \in TokenSteps
    <2>1. job[r] \in [step : TokenSteps, token : Tokens]
      BY <1>2, JobAt
    <2>2. QED
      BY <1>2, <2>1 DEF Job, CodeSteps, TokenSteps
  <1>3. CASE job[r].step \in {"count", "insert"} /\ step \in {"count", "insert"}
    <2>1. job[r] \in [step : {"count", "insert"}]
      BY <1>3, JobAt DEF Job
    <2>2. QED
      BY <1>3, <2>1 DEF Job, CodeSteps, TokenSteps
  <1>4. QED
    BY <1>1, <1>2, <1>3

\* A slot changes hands, or moves on, and ends up with something to go by.
LEMMA SlotType ==
    ASSUME TypeInv, NEW r \in Requests, NEW newJob \in Job \cup {NoJob},
           job' = [job EXCEPT ![r] = newJob],
           newJob # NoJob => /\ newJob.step \in CodeSteps => code'[newJob.code] # None
                             /\ newJob.step \in TokenSteps => token'[newJob.token] # None,
           user' \in User \cup {None},
           code' \in [Codes -> Code \cup {None}],
           \A k \in Codes : code[k] # None => code'[k] # None,
           token' \in [Tokens -> Token \cup {None}],
           \A t \in Tokens : token[t] # None => token'[t] # None,
           \A t \in Tokens : token'[t] # None => token'[token'[t].family] # None,
           logins' \in [Codes -> Nat],
           overlaps' \subseteq {"verify", "refresh"},
           overtaken' \subseteq Requests
    PROVE  TypeInv'
  <1>1. TypeOK'
    BY DEF TypeInv, TypeOK
  <1>2. ASSUME NEW q \in Requests, job'[q] # NoJob
        PROVE  /\ job'[q].step \in CodeSteps => code'[job'[q].code] # None
               /\ job'[q].step \in TokenSteps => token'[job'[q].token] # None
    <2>1. CASE q = r
      BY <1>2, <2>1 DEF TypeInv, TypeOK
    <2>2. CASE q # r
      <3>1. job'[q] = job[q] /\ job[q] # NoJob
        BY <1>2, <2>2 DEF TypeInv, TypeOK
      <3>2. /\ job[q].step \in CodeSteps => job[q].code \in Codes
            /\ job[q].step \in TokenSteps => job[q].token \in Tokens
        BY <3>1, JobAt
      <3>3. QED
        BY <3>1, <3>2 DEF TypeInv, KnownInv, Exists
    <2>3. QED
      BY <2>1, <2>2
  <1>3. KnownInv'
    BY <1>2 DEF KnownInv, Exists
  <1>4. QED
    BY <1>1, <1>3 DEF TypeInv

\* A request that changes no row but the latest marks of history.
LEMMA MoveType ==
    ASSUME TypeInv, NEW r \in Requests, NEW newJob \in Job \cup {NoJob},
           job' = [job EXCEPT ![r] = newJob],
           newJob # NoJob => /\ newJob.step \in CodeSteps => code[newJob.code] # None
                             /\ newJob.step \in TokenSteps => token[newJob.token] # None,
           UNCHANGED <<user, code, token, logins>>,
           overlaps' \subseteq {"verify", "refresh"}, overtaken' \subseteq Requests
    PROVE  TypeInv'
  <1>1. /\ user \in User \cup {None} /\ code \in [Codes -> Code \cup {None}]
        /\ token \in [Tokens -> Token \cup {None}]
        /\ logins \in [Codes -> Nat]
    BY DEF TypeInv, TypeOK
  <1>2. /\ \A t \in Tokens : token[t] # None => token[token[t].family] # None
    BY DEF TypeInv, KnownInv, Exists
  <1>3. QED
    BY <1>1, <1>2, SlotType

\* What a request that goes on, or ends, has read is still there.
LEMMA StillKnown ==
    ASSUME TypeInv, NEW r \in Requests, job[r] # NoJob,
           NEW step \in CodeSteps \cup TokenSteps \cup {"count", "insert"},
           job[r].step \in CodeSteps <=> step \in CodeSteps,
           job[r].step \in TokenSteps <=> step \in TokenSteps,
           Goto(r, step)
    PROVE  \E newJob \in Job :
             /\ job' = [job EXCEPT ![r] = newJob] /\ newJob.step = step
             /\ overtaken' = overtaken
             /\ step \in CodeSteps => newJob.code = job[r].code /\ code[newJob.code] # None
             /\ step \in TokenSteps => newJob.token = job[r].token /\ token[newJob.token] # None
  <1>0. /\ step \in CodeSteps => code[job[r].code] # None
        /\ step \in TokenSteps => token[job[r].token] # None
    BY DEF TypeInv, KnownInv, Exists
  <1>1. \/ job[r].step \in CodeSteps /\ step \in CodeSteps
        \/ job[r].step \in TokenSteps /\ step \in TokenSteps
        \/ job[r].step \in {"count", "insert"} /\ step \in {"count", "insert"}
    BY JobAt
  <1>2. job' = [job EXCEPT ![r] = [job[r] EXCEPT !.step = step]] /\ overtaken' = overtaken
    BY DEF Goto, Become
  <1> DEFINE newJob == [job[r] EXCEPT !.step = step]
  <1>3. /\ newJob \in Job /\ newJob.step = step
        /\ step \in CodeSteps => newJob.code = job[r].code
        /\ step \in TokenSteps => newJob.token = job[r].token
    BY <1>1, GotoIn
  <1>4. job' = [job EXCEPT ![r] = newJob]
    BY <1>2
  <1> HIDE DEF newJob
  <1>5. QED
    BY <1>0, <1>2, <1>3, <1>4

LEMMA TypeInit == Init => TypeInv
  <1> SUFFICES ASSUME Init PROVE TypeInv
    OBVIOUS
  <1>1. TypeOK
    BY DEF Init, TypeOK
  <1>2. KnownInv
    BY DEF Init, KnownInv, Exists
  <1>3. QED
    BY <1>1, <1>2 DEF TypeInv

LEMMA DoneType ==
    ASSUME TypeInv, NEW r \in Requests, Done(r)
    PROVE  /\ job' = [job EXCEPT ![r] = NoJob]
           /\ overtaken' \subseteq Requests
           /\ job' \in [Requests -> Job \cup {NoJob}]
  BY DEF Done, TypeInv, TypeOK

LEMMA RequestKeepsType ==
    ASSUME TypeInv, NEW r \in Requests
    PROVE  /\ RequestOTP(r) => TypeInv'
           /\ CountRecentOTPRequests(r) => TypeInv'
           /\ CreateOTPChallenge(r) => TypeInv'
  <1>1. ASSUME RequestOTP(r) PROVE TypeInv'
    <2>1. [step |-> "count"] \in Job
      BY DEF Job
    <2>2. /\ job' = [job EXCEPT ![r] = [step |-> "count"]] /\ overtaken' = overtaken
          /\ UNCHANGED <<user, code, token, logins, overlaps>>
      BY <1>1 DEF RequestOTP, Become
    <2>3. QED
      BY <2>1, <2>2, MoveType DEF CodeSteps, TokenSteps, TypeInv, TypeOK
  <1>2. ASSUME CountRecentOTPRequests(r) PROVE TypeInv'
    <2>1. /\ UNCHANGED <<user, code, token, logins, overlaps>>
          /\ job[r] # NoJob /\ job[r].step = "count"
          /\ Done(r) \/ Goto(r, "insert")
      BY <1>2 DEF CountRecentOTPRequests, At
    <2>2. CASE Done(r)
      BY <2>1, <2>2, MoveType, DoneType DEF TypeInv, TypeOK
    <2>3. CASE Goto(r, "insert")
      <3>1. PICK newJob \in Job : /\ job' = [job EXCEPT ![r] = newJob] /\ newJob.step = "insert"
                                  /\ overtaken' = overtaken
        BY <2>1, <2>3, StillKnown DEF CodeSteps, TokenSteps
      <3>2. QED
        BY <2>1, <3>1, MoveType DEF CodeSteps, TokenSteps, TypeInv, TypeOK
    <2>4. QED
      BY <2>1, <2>2, <2>3
  <1>3. ASSUME CreateOTPChallenge(r) PROVE TypeInv'
    <2>0. PICK k \in Codes : code' = [code EXCEPT ![k] = [attempts |-> 0, active |-> TRUE]]
      BY <1>3 DEF CreateOTPChallenge
    <2>1. code' \in [Codes -> Code \cup {None}]
      BY <1>3, <2>0 DEF CreateOTPChallenge, TypeInv, TypeOK, Code
    <2>2. \A l \in Codes : code[l] # None => code'[l] # None
      <3>1. [attempts |-> 0, active |-> TRUE] \in Code
        BY DEF Code
      <3>2. QED
        BY <2>0, <3>1 DEF TypeInv, TypeOK
    <2>3. /\ job' = [job EXCEPT ![r] = NoJob] /\ overtaken' \subseteq Requests
          /\ UNCHANGED <<user, token, logins, overlaps>>
      BY <1>3, DoneType DEF CreateOTPChallenge
    <2>4. QED
      BY <2>1, <2>2, <2>3, SlotType DEF TypeInv, TypeOK, KnownInv, Exists
  <1>4. QED
    BY <1>1, <1>2, <1>3

LEMMA VerifyKeepsType ==
    ASSUME TypeInv, NEW r \in Requests
    PROVE  /\ \A right \in BOOLEAN : VerifyOTP(r, right) => TypeInv'
           /\ IncrementOTPAttempt(r) => TypeInv'
           /\ ConsumeOTP(r) => TypeInv'
           /\ FindUser(r) => TypeInv'
           /\ CreateUser(r) => TypeInv'
           /\ StartSession(r) => TypeInv'
  <1>t. /\ user \in User \cup {None} /\ code \in [Codes -> Code \cup {None}]
        /\ token \in [Tokens -> Token \cup {None}]
        /\ logins \in [Codes -> Nat]
        /\ overlaps \subseteq {"verify", "refresh"} /\ overtaken \subseteq Requests
        /\ \A t \in Tokens : token[t] # None => token[token[t].family] # None
    BY DEF TypeInv, TypeOK, KnownInv, Exists
  <1>1. ASSUME NEW right \in BOOLEAN, VerifyOTP(r, right) PROVE TypeInv'
    <2>1. PICK k \in LatestActive :
             /\ Become(r, [step |-> IF right THEN "consume" ELSE "wrong", code |-> k])
             /\ overlaps' = IF Verifying(k) = {} THEN overlaps ELSE overlaps \cup {"verify"}
      BY <1>1 DEF VerifyOTP
    <2>2. k \in Codes /\ code[k] # None
      BY <2>1 DEF LatestActive, Active, Requested
    <2>3. [step |-> IF right THEN "consume" ELSE "wrong", code |-> k] \in Job
      BY <2>2 DEF Job
    <2>4. QED
      BY <1>1, <1>t, <2>1, <2>2, <2>3, MoveType DEF VerifyOTP, Become, TokenSteps
  <1>2. ASSUME IncrementOTPAttempt(r) PROVE TypeInv'
    <2>1. job[r].code \in Codes /\ code[job[r].code] \in Code
      BY <1>2, JobAt DEF IncrementOTPAttempt, At, CodeSteps
    <2>2. [code[job[r].code] EXCEPT !.attempts = code[job[r].code].attempts + 1] \in Code
      BY <2>1 DEF Code
    <2>3. code' = [code EXCEPT ![job[r].code] =
                     [code[job[r].code] EXCEPT !.attempts = code[job[r].code].attempts + 1]]
      BY <1>2 DEF IncrementOTPAttempt
    <2>4. /\ code' \in [Codes -> Code \cup {None}]
          /\ \A k \in Codes : code[k] # None => code'[k] # None
      BY <1>t, <2>1, <2>2, <2>3
    <2>5. /\ job' = [job EXCEPT ![r] = NoJob] /\ overtaken' \subseteq Requests
          /\ UNCHANGED <<user, token, logins, overlaps>>
      BY <1>2, DoneType DEF IncrementOTPAttempt
    <2>6. QED
      BY <1>t, <2>4, <2>5, SlotType
  <1>3. ASSUME ConsumeOTP(r) PROVE TypeInv'
    <2>0. job[r] # NoJob /\ job[r].step = "consume"
      BY <1>3 DEF ConsumeOTP, At
    <2>1. job[r].code \in Codes /\ code[job[r].code] \in Code
      BY <2>0, JobAt DEF CodeSteps
    <2>2. [code[job[r].code] EXCEPT !.active = FALSE] \in Code
      BY <2>1 DEF Code
    <2>3. code' = [code EXCEPT ![job[r].code] =
                     [code[job[r].code] EXCEPT !.active = FALSE]]
      BY <1>3 DEF ConsumeOTP
    <2>4. /\ code' \in [Codes -> Code \cup {None}]
          /\ \A k \in Codes : code[k] # None => code'[k] # None
      BY <1>t, <2>1, <2>2, <2>3
    <2>5. PICK newJob \in Job : /\ job' = [job EXCEPT ![r] = newJob] /\ newJob.step = "find"
                                /\ overtaken' = overtaken
                                /\ newJob.code = job[r].code
      BY <1>3, <2>0, StillKnown DEF ConsumeOTP, CodeSteps, TokenSteps
    <2>6. code'[newJob.code] # None
      BY <2>1, <2>4, <2>5
    <2>7. UNCHANGED <<user, token, logins, overlaps>>
      BY <1>3 DEF ConsumeOTP
    <2>8. QED
      BY <1>t, <2>4, <2>5, <2>6, <2>7, SlotType DEF TokenSteps
  <1>4. ASSUME FindUser(r) PROVE TypeInv'
    <2>1. job[r] # NoJob /\ job[r].step = "find" /\ (Goto(r, "start") \/ Goto(r, "create"))
      BY <1>4 DEF FindUser, At
    <2>2. PICK newJob \in Job : /\ job' = [job EXCEPT ![r] = newJob]
                                /\ newJob.step \in {"start", "create"}
                                /\ overtaken' = overtaken /\ code[newJob.code] # None
      BY <2>1, StillKnown DEF CodeSteps, TokenSteps
    <2>3. QED
      BY <1>4, <1>t, <2>2, MoveType DEF FindUser, TokenSteps
  <1>5. ASSUME CreateUser(r) PROVE TypeInv'
    <2>1. job[r] # NoJob /\ job[r].step = "create" /\ (Done(r) \/ Goto(r, "start"))
      BY <1>5 DEF CreateUser, At
    <2>2. user' \in User \cup {None} /\ UNCHANGED <<code, token, logins, overlaps>>
      BY <1>5, <1>t DEF CreateUser, User
    <2>3. CASE Done(r)
      BY <1>t, <2>2, <2>3, SlotType, DoneType
    <2>4. CASE Goto(r, "start")
      <3>1. PICK newJob \in Job : /\ job' = [job EXCEPT ![r] = newJob]
                                  /\ newJob.step = "start"
                                  /\ overtaken' = overtaken /\ code[newJob.code] # None
        BY <2>1, <2>4, StillKnown DEF CodeSteps, TokenSteps
      <3>2. QED
        BY <1>t, <2>2, <3>1, SlotType DEF TokenSteps
    <2>5. QED
      BY <2>1, <2>3, <2>4
  <1>6. ASSUME StartSession(r) PROVE TypeInv'
    <2>1. PICK t \in Tokens :
             /\ ~ Exists(t)
             /\ token' = [token EXCEPT ![t] = [family |-> t, revoked |-> FALSE, expired |-> FALSE]]
      BY <1>6 DEF StartSession
    <2>2. [family |-> t, revoked |-> FALSE, expired |-> FALSE] \in Token
      BY DEF Token
    <2>3. /\ token' \in [Tokens -> Token \cup {None}]
          /\ \A u \in Tokens : token[u] # None => token'[u] # None
      BY <1>t, <2>1, <2>2
    <2>4. ASSUME NEW u \in Tokens, token'[u] # None
          PROVE  token'[token'[u].family] # None
      <3>1. CASE u = t
        BY <1>t, <2>1, <2>2, <3>1
      <3>2. CASE u # t
        <4>1. token'[u] = token[u] /\ token[u] \in Token
          BY <1>t, <2>1, <2>4, <3>2
        <4>2. token[u].family \in Tokens /\ token[token[u].family] # None
          BY <1>t, <2>4, <4>1 DEF Token
        <4>3. QED
          BY <2>3, <4>1, <4>2
      <3>3. QED
        BY <3>1, <3>2
    <2>5. logins' \in [Codes -> Nat]
      <3>1. job[r].code \in Codes
        BY <1>6, JobAt DEF StartSession, At, CodeSteps
      <3>2. QED
        BY <1>6, <1>t, <3>1 DEF StartSession
    <2>6. /\ job' = [job EXCEPT ![r] = NoJob] /\ overtaken' \subseteq Requests
          /\ UNCHANGED <<user, code, overlaps>>
      BY <1>6, DoneType DEF StartSession
    <2>7. QED
      BY <1>t, <2>3, <2>4, <2>5, <2>6, SlotType
  <1>7. QED
    BY <1>1, <1>2, <1>3, <1>4, <1>5, <1>6

\* token[t] is written: its family, or that it is valid no longer.
LEMMA TokenWritten ==
    ASSUME TypeInv, NEW t \in Tokens, NEW row \in Token, token' = [token EXCEPT ![t] = row],
           token[t] # None => row.family = token[t].family,
           row.family = t \/ Exists(row.family)
    PROVE  /\ token' \in [Tokens -> Token \cup {None}]
           /\ \A u \in Tokens : token[u] # None => token'[u] # None
           /\ \A u \in Tokens : token'[u] # None => token'[token'[u].family] # None
  <1>t. /\ token \in [Tokens -> Token \cup {None}]
        /\ \A u \in Tokens : token[u] # None => token[token[u].family] # None
    BY DEF TypeInv, TypeOK, KnownInv, Exists
  <1>1. /\ token' \in [Tokens -> Token \cup {None}] /\ token'[t] = row
        /\ \A u \in Tokens \ {t} : token'[u] = token[u]
        /\ \A u \in Tokens : token[u] # None => token'[u] # None
    BY <1>t
  <1>2. ASSUME NEW u \in Tokens, token'[u] # None
        PROVE  token'[token'[u].family] # None
    <2>1. CASE u = t
      BY <1>1, <2>1 DEF Exists, Token
    <2>2. CASE u # t
      <3>1. token'[u] = token[u] /\ token[u] \in Token
        BY <1>1, <1>2, <1>t, <2>2
      <3>2. token[u].family \in Tokens /\ token[token[u].family] # None
        BY <1>2, <1>t, <3>1 DEF Token
      <3>3. QED
        BY <1>1, <3>1, <3>2
    <2>3. QED
      BY <2>1, <2>2
  <1>3. QED
    BY <1>1, <1>2, <1>t

\* The rows revoked when a family is.
LEMMA FamilyRevoked ==
    ASSUME TypeInv, NEW r \in Requests, RevokeRefreshTokenFamily(r)
    PROVE  /\ job[r].token \in Tokens /\ token[job[r].token].family \in Tokens
           /\ Exists(token[job[r].token].family)
           /\ token' \in [Tokens -> Token \cup {None}]
           /\ \A u \in Tokens :
                /\ token[u] # None <=> token'[u] # None
                /\ token[u] # None => token'[u].family = token[u].family
                /\ Live(u)' => Live(u) /\ token[u].family # token[job[r].token].family
  <1>t. token \in [Tokens -> Token \cup {None}]
    BY DEF TypeInv, TypeOK
  <1>0. At(r, "end")
    BY DEF RevokeRefreshTokenFamily
  <1>1. job[r].token \in Tokens /\ token[job[r].token] \in Token
    BY <1>0, JobAt DEF At, TokenSteps
  <1>2. token[job[r].token].family \in Tokens /\ Exists(token[job[r].token].family)
    BY <1>1 DEF Token, TypeInv, KnownInv, Exists
  <1>3. ASSUME NEW u \in Tokens
        PROVE  /\ token'[u] \in Token \cup {None}
               /\ token[u] # None <=> token'[u] # None
               /\ token[u] # None => token'[u].family = token[u].family
               /\ Live(u)' => Live(u) /\ token[u].family # token[job[r].token].family
    <2>1. token'[u] = IF u \in OfFamily(job[r].token)
                      THEN [token[u] EXCEPT !.revoked = TRUE] ELSE token[u]
      BY DEF RevokeRefreshTokenFamily
    <2>2. CASE u \in OfFamily(job[r].token)
      <3>1. token[u] \in Token /\ token'[u] = [token[u] EXCEPT !.revoked = TRUE]
        BY <1>t, <2>1, <2>2 DEF OfFamily, Exists
      <3>2. token'[u] \in Token /\ token'[u].revoked /\ token'[u].family = token[u].family
        BY <3>1 DEF Token
      <3>3. QED
        BY <3>1, <3>2 DEF Live, Exists
    <2>3. CASE u \notin OfFamily(job[r].token)
      BY <1>t, <2>1, <2>3 DEF OfFamily, Live, Exists
    <2>4. QED
      BY <2>2, <2>3
  <1>4. token' \in [Tokens -> Token \cup {None}]
    <2>1. token' = [t \in Tokens |-> IF t \in OfFamily(job[r].token)
                                     THEN [token[t] EXCEPT !.revoked = TRUE] ELSE token[t]]
      BY DEF RevokeRefreshTokenFamily
    <2>2. QED
      BY <1>3, <2>1
  <1>5. QED
    BY <1>1, <1>2, <1>3, <1>4

LEMMA SessionKeepsType ==
    ASSUME TypeInv, NEW r \in Requests
    PROVE  /\ \A t \in Tokens : RefreshTokens(r, t) => TypeInv'
           /\ RevokeRefreshTokenFamily(r) => TypeInv'
           /\ CheckUser(r) => TypeInv'
           /\ RevokeRefreshToken(r) => TypeInv'
           /\ CreateRefreshToken(r) => TypeInv'
  <1>t. /\ user \in User \cup {None} /\ code \in [Codes -> Code \cup {None}]
        /\ token \in [Tokens -> Token \cup {None}]
        /\ logins \in [Codes -> Nat]
        /\ overlaps \subseteq {"verify", "refresh"} /\ overtaken \subseteq Requests
        /\ \A t \in Tokens : token[t] # None => token[token[t].family] # None
    BY DEF TypeInv, TypeOK, KnownInv, Exists
  <1>1. ASSUME NEW t \in Tokens, RefreshTokens(r, t) PROVE TypeInv'
    <2>1. PICK step \in {"end", "check"} :
             /\ job' = [job EXCEPT ![r] = [step |-> step, token |-> t]]
             /\ overtaken' = overtaken
      BY <1>1 DEF RefreshTokens, Become
    <2>2. [step |-> step, token |-> t] \in Job
      BY DEF Job
    <2>3. /\ token[t] # None /\ overlaps' \subseteq {"verify", "refresh"}
          /\ UNCHANGED <<user, code, token, logins>>
      BY <1>1, <1>t DEF RefreshTokens, Exists
    <2>4. QED
      BY <1>t, <2>1, <2>2, <2>3, MoveType DEF CodeSteps
  <1>2. ASSUME RevokeRefreshTokenFamily(r) PROVE TypeInv'
    <2>1. /\ job' = [job EXCEPT ![r] = NoJob] /\ overtaken' \subseteq Requests
          /\ UNCHANGED <<user, code, logins, overlaps>>
      BY <1>2, DoneType DEF RevokeRefreshTokenFamily
    <2>2. /\ token' \in [Tokens -> Token \cup {None}]
          /\ \A u \in Tokens : token[u] # None => token'[u] # None
      BY <1>2, FamilyRevoked
    <2>3. ASSUME NEW u \in Tokens, token'[u] # None
          PROVE  token'[token'[u].family] # None
      <3>1. token[u] # None /\ token'[u].family = token[u].family
        BY <1>2, <2>3, FamilyRevoked
      <3>2. token[u].family \in Tokens /\ token[token[u].family] # None
        BY <1>t, <3>1 DEF Token
      <3>3. QED
        BY <2>2, <3>1, <3>2
    <2>4. QED
      BY <1>t, <2>1, <2>2, <2>3, SlotType
  <1>3. ASSUME CheckUser(r) PROVE TypeInv'
    <2>1. /\ job[r] # NoJob /\ job[r].step = "check" /\ (Done(r) \/ Goto(r, "revoke"))
          /\ UNCHANGED <<user, code, token, logins, overlaps>>
      BY <1>3 DEF CheckUser, At
    <2>2. CASE Done(r)
      BY <1>t, <2>1, <2>2, MoveType, DoneType
    <2>3. CASE Goto(r, "revoke")
      <3>1. PICK newJob \in Job : /\ job' = [job EXCEPT ![r] = newJob]
                                  /\ newJob.step = "revoke"
                                  /\ overtaken' = overtaken /\ token[newJob.token] # None
        BY <2>1, <2>3, StillKnown DEF CodeSteps, TokenSteps
      <3>2. QED
        BY <1>t, <2>1, <3>1, MoveType DEF CodeSteps
    <2>4. QED
      BY <2>1, <2>2, <2>3
  <1>4. ASSUME RevokeRefreshToken(r) PROVE TypeInv'
    <2>1. job[r] # NoJob /\ job[r].step = "revoke" /\ Goto(r, "renew")
      BY <1>4 DEF RevokeRefreshToken, At
    <2>2. job[r].token \in Tokens /\ token[job[r].token] \in Token
      BY <2>1, JobAt DEF TokenSteps
    <2>3. token' = [token EXCEPT ![job[r].token] =
                      [token[job[r].token] EXCEPT !.revoked = TRUE]]
      BY <1>4 DEF RevokeRefreshToken
    <2>4. /\ [token[job[r].token] EXCEPT !.revoked = TRUE] \in Token
          /\ [token[job[r].token] EXCEPT !.revoked = TRUE].family = token[job[r].token].family
          /\ Exists(token[job[r].token].family)
      BY <1>t, <2>2 DEF Token, Exists
    <2>5. /\ token' \in [Tokens -> Token \cup {None}]
          /\ \A u \in Tokens : token[u] # None => token'[u] # None
          /\ \A u \in Tokens : token'[u] # None => token'[token'[u].family] # None
      BY <2>2, <2>3, <2>4, TokenWritten
    <2>6. PICK newJob \in Job : /\ job' = [job EXCEPT ![r] = newJob]
                                /\ newJob.step = "renew" /\ newJob.token = job[r].token
                                /\ overtaken' = overtaken
      BY <2>1, StillKnown DEF CodeSteps, TokenSteps
    <2>7. token'[newJob.token] # None
      BY <2>2, <2>5, <2>6
    <2>8. UNCHANGED <<user, code, logins, overlaps>>
      BY <1>4 DEF RevokeRefreshToken
    <2>9. QED
      BY <1>t, <2>5, <2>6, <2>7, <2>8, SlotType DEF CodeSteps
  <1>5. ASSUME CreateRefreshToken(r) PROVE TypeInv'
    <2>1. job[r].token \in Tokens /\ token[job[r].token] \in Token
      BY <1>5, JobAt DEF CreateRefreshToken, At, TokenSteps
    <2>2. PICK t \in Tokens :
             /\ ~ Exists(t)
             /\ token' = [token EXCEPT ![t] = [family |-> token[job[r].token].family,
                                               revoked |-> FALSE, expired |-> FALSE]]
      BY <1>5 DEF CreateRefreshToken
    <2>3. /\ [family |-> token[job[r].token].family, revoked |-> FALSE, expired |-> FALSE]
               \in Token
          /\ Exists(token[job[r].token].family) /\ token[t] = None
      BY <1>t, <2>1, <2>2 DEF Token, Exists
    <2>4. /\ token' \in [Tokens -> Token \cup {None}]
          /\ \A u \in Tokens : token[u] # None => token'[u] # None
          /\ \A u \in Tokens : token'[u] # None => token'[token'[u].family] # None
      BY <2>2, <2>3, TokenWritten
    <2>5. /\ job' = [job EXCEPT ![r] = NoJob] /\ overtaken' \subseteq Requests
          /\ UNCHANGED <<user, code, logins, overlaps>>
      BY <1>5, DoneType DEF CreateRefreshToken
    <2>6. QED
      BY <1>t, <2>4, <2>5, SlotType
  <1>6. QED
    BY <1>1, <1>2, <1>3, <1>4, <1>5

\* Steps outside of the request slots.
LEMMA AmbientType ==
    ASSUME TypeInv, UNCHANGED <<job, logins, overlaps>>,
           user' \in User \cup {None},
           code' \in [Codes -> Code \cup {None}],
           \A k \in Codes : code[k] # None => code'[k] # None,
           token' \in [Tokens -> Token \cup {None}],
           \A t \in Tokens : token[t] # None => token'[t] # None,
           \A t \in Tokens : token'[t] # None => token'[token'[t].family] # None,
           overtaken' \subseteq Requests
    PROVE  TypeInv'
  <1>1. TypeOK'
    BY DEF TypeInv, TypeOK
  <1>2. ASSUME NEW q \in Requests, job[q] # NoJob
        PROVE  /\ job[q].step \in CodeSteps => code'[job[q].code] # None
               /\ job[q].step \in TokenSteps => token'[job[q].token] # None
    <2>1. /\ job[q].step \in CodeSteps => job[q].code \in Codes
          /\ job[q].step \in TokenSteps => job[q].token \in Tokens
      BY <1>2, JobAt
    <2>2. QED
      BY <1>2, <2>1 DEF TypeInv, KnownInv, Exists
  <1>3. KnownInv'
    BY <1>2 DEF KnownInv, Exists, TypeInv, TypeOK
  <1>4. QED
    BY <1>1, <1>3 DEF TypeInv

LEMMA AmbientKeepsType ==
    ASSUME TypeInv
    PROVE  /\ \A r \in Requests : Abort(r) => TypeInv'
           /\ \A t \in Tokens : Logout(t) => TypeInv'
           /\ DeactivateMe => TypeInv'
           /\ Time => TypeInv'
  <1>t. /\ user \in User \cup {None} /\ code \in [Codes -> Code \cup {None}]
        /\ token \in [Tokens -> Token \cup {None}]
        /\ overlaps \subseteq {"verify", "refresh"} /\ overtaken \subseteq Requests
        /\ \A t \in Tokens : token[t] # None => token[token[t].family] # None
    BY DEF TypeInv, TypeOK, KnownInv, Exists
  <1>1. ASSUME NEW r \in Requests, Abort(r) PROVE TypeInv'
    BY <1>1, <1>t, MoveType, DoneType DEF Abort
  <1>2. ASSUME NEW t \in Tokens, NEW row \in Token, Exists(t), row.family = token[t].family,
               token' = [token EXCEPT ![t] = row],
               UNCHANGED <<user, code, job, logins, overlaps, overtaken>>
        PROVE  TypeInv'
    <2>1. Exists(row.family)
      BY <1>2, <1>t DEF Exists
    <2>2. /\ token' \in [Tokens -> Token \cup {None}]
          /\ \A u \in Tokens : token[u] # None => token'[u] # None
          /\ \A u \in Tokens : token'[u] # None => token'[token'[u].family] # None
      BY <1>2, <2>1, TokenWritten
    <2>3. QED
      BY <1>2, <1>t, <2>2, AmbientType
  <1>3. ASSUME NEW t \in Tokens, Logout(t) PROVE TypeInv'
    <2>1. token[t] \in Token /\ token' = [token EXCEPT ![t] = [token[t] EXCEPT !.revoked = TRUE]]
      BY <1>3, <1>t DEF Logout, Exists
    <2>2. /\ [token[t] EXCEPT !.revoked = TRUE] \in Token
          /\ [token[t] EXCEPT !.revoked = TRUE].family = token[t].family
      BY <2>1 DEF Token
    <2>3. QED
      BY <1>2, <1>3, <2>1, <2>2 DEF Logout
  <1>4. ASSUME NEW t \in Tokens, TokenExpires(t) PROVE TypeInv'
    <2>1. token[t] \in Token /\ token' = [token EXCEPT ![t] = [token[t] EXCEPT !.expired = TRUE]]
      BY <1>4, <1>t DEF TokenExpires, Live, Exists
    <2>2. /\ [token[t] EXCEPT !.expired = TRUE] \in Token
          /\ [token[t] EXCEPT !.expired = TRUE].family = token[t].family
      BY <2>1 DEF Token
    <2>3. QED
      BY <1>2, <1>4, <2>1, <2>2 DEF TokenExpires, Live
  <1>5. DeactivateMe => TypeInv'
    <2>1. DeactivateMe => user' \in User \cup {None} /\ overtaken' \subseteq Requests
      BY DEF DeactivateMe, User
    <2>2. QED
      BY <1>t, <2>1, AmbientType DEF DeactivateMe
  <1>6. ASSUME NEW k \in Codes, CodeExpires(k) PROVE TypeInv'
    <2>1. code[k] \in Code /\ code' = [code EXCEPT ![k] = [code[k] EXCEPT !.active = FALSE]]
      BY <1>6, <1>t DEF CodeExpires, Active, Requested
    <2>2. [code[k] EXCEPT !.active = FALSE] \in Code
      BY <2>1 DEF Code
    <2>3. /\ code' \in [Codes -> Code \cup {None}]
          /\ \A l \in Codes : code[l] # None => code'[l] # None
      BY <1>t, <2>1, <2>2
    <2>4. QED
      BY <1>6, <1>t, <2>3, AmbientType DEF CodeExpires
  <1>7. QED
    BY <1>1, <1>3, <1>4, <1>5, <1>6 DEF Time

LEMMA NextKeepsType ==
    ASSUME TypeInv, [Next]_vars
    PROVE  TypeInv'
  <1>1. CASE UNCHANGED vars
    BY <1>1 DEF vars, TypeInv, TypeOK, KnownInv, Exists
  <1>2. ASSUME NEW r \in Requests, CodeStep(r) PROVE TypeInv'
    BY <1>2, RequestKeepsType, VerifyKeepsType DEF CodeStep
  <1>3. ASSUME NEW r \in Requests, SessionStep(r) PROVE TypeInv'
    BY <1>3, SessionKeepsType DEF SessionStep
  <1>4. QED
    BY <1>1, <1>2, <1>3, AmbientKeepsType DEF Next

\* Every reachable state of Accounts is well typed, and what a request has
\* read exists.
THEOREM TypeCorrect == Spec => []TypeOK
  <1>1. TypeInv => TypeOK
    BY DEF TypeInv
  <1>2. QED
    BY <1>1, TypeInit, NextKeepsType, PTL DEF Spec

-----------------------------------------------------------------------------
(***************************************************************************)
(* What a step does to the slots and to the rows.                          *)
(***************************************************************************)

LEMMA CodeStepFollows ==
    ASSUME TypeInv, NEW r \in Requests, CodeStep(r)
    PROVE  \E newJob \in Job \cup {NoJob} :
             job' = [job EXCEPT ![r] = newJob] /\ Follows(r, newJob)
  <1> DEFINE Goal == \E newJob \in Job \cup {NoJob} :
                       job' = [job EXCEPT ![r] = newJob] /\ Follows(r, newJob)
  <1>0. Done(r) => Goal
    BY DEF Done, Follows
  <1>1. CASE RequestOTP(r)
    <2>1. PICK newJob : newJob = [step |-> "count"]
      OBVIOUS
    <2>2. newJob \in Job /\ newJob.step = "count"
      BY <2>1 DEF Job
    <2>3. job' = [job EXCEPT ![r] = newJob]
      BY <1>1, <2>1 DEF RequestOTP, Become
    <2>4. QED
      BY <2>2, <2>3 DEF Follows
  <1>2. CASE CountRecentOTPRequests(r)
    <2>1. job[r] # NoJob /\ job[r].step = "count"
      BY <1>2 DEF CountRecentOTPRequests, At
    <2>2. CASE Cardinality(Requested) < MaxPerDay
      <3>1. Goto(r, "insert")
        BY <1>2, <2>2 DEF CountRecentOTPRequests
      <3>2. PICK newJob \in Job : job' = [job EXCEPT ![r] = newJob] /\ newJob.step = "insert"
        BY <2>1, <3>1, StillKnown DEF CodeSteps, TokenSteps
      <3>3. QED
        BY <2>2, <3>2 DEF Follows
    <2>3. CASE ~ (Cardinality(Requested) < MaxPerDay)
      BY <1>0, <1>2, <2>3 DEF CountRecentOTPRequests
    <2>4. QED
      BY <2>2, <2>3
  <1>3. CASE CreateOTPChallenge(r) \/ IncrementOTPAttempt(r) \/ StartSession(r)
    BY <1>0, <1>3 DEF CreateOTPChallenge, IncrementOTPAttempt, StartSession
  <1>4. ASSUME NEW right \in BOOLEAN, VerifyOTP(r, right)
        PROVE  Goal
    <2>1. PICK k \in LatestActive :
             /\ MayTry(k)
             /\ Become(r, [step |-> IF right THEN "consume" ELSE "wrong", code |-> k])
             /\ overlaps' = IF Verifying(k) = {} THEN overlaps ELSE overlaps \cup {"verify"}
      BY <1>4 DEF VerifyOTP
    <2>2. PICK newJob : newJob = [step |-> IF right THEN "consume" ELSE "wrong", code |-> k]
      OBVIOUS
    <2>3. /\ k \in Codes /\ IsActive(k) /\ job[r] = NoJob
      BY <1>4, <2>1 DEF LatestActive, Active, Requested, VerifyOTP, Free, IsActive
    <2>4. newJob \in Job /\ newJob.step \in {"wrong", "consume"} /\ newJob.code = k
      BY <2>2, <2>3 DEF Job
    <2>5. job' = [job EXCEPT ![r] = newJob]
      BY <2>1, <2>2 DEF Become
    <2>6. Verifying(k) # {} => "verify" \in overlaps'
      BY <2>1
    <2>7. QED
      BY <2>1, <2>3, <2>4, <2>5, <2>6 DEF Follows
  <1>5. CASE ConsumeOTP(r)
    <2>1. job[r] # NoJob /\ job[r].step = "consume" /\ Goto(r, "find")
      BY <1>5 DEF ConsumeOTP, At
    <2>2. PICK newJob \in Job : /\ job' = [job EXCEPT ![r] = newJob] /\ newJob.step = "find"
                                /\ newJob.code = job[r].code
      BY <2>1, StillKnown DEF CodeSteps, TokenSteps
    <2>3. job[r].code \in Codes /\ code[job[r].code] \in Code
      BY <2>1, JobAt DEF CodeSteps
    <2>4. ~ code'[job[r].code].active
      BY <1>5, <2>3 DEF ConsumeOTP, Code, TypeInv, TypeOK
    <2>5. QED
      BY <2>1, <2>2, <2>4 DEF Follows, IsActive, At
  <1>6. CASE FindUser(r)
    <2>1. job[r] # NoJob /\ job[r].step = "find"
      BY <1>6 DEF FindUser, At
    <2>2. PICK step \in {"start", "create"} : Goto(r, step) /\ (step = "start" => user' = "kept")
      BY <1>6 DEF FindUser, Found
    <2>3. PICK newJob \in Job : /\ job' = [job EXCEPT ![r] = newJob] /\ newJob.step = step
                                /\ newJob.code = job[r].code
      BY <2>1, <2>2, StillKnown DEF CodeSteps, TokenSteps
    <2>4. QED
      BY <2>1, <2>2, <2>3 DEF Follows, At
  <1>7. CASE CreateUser(r)
    <2>1. job[r] # NoJob /\ job[r].step = "create"
      BY <1>7 DEF CreateUser, At
    <2>2. CASE user # None
      BY <1>0, <1>7, <2>2 DEF CreateUser
    <2>3. CASE user = None
      <3>1. Goto(r, "start") /\ user' = "kept"
        BY <1>7, <2>3 DEF CreateUser
      <3>2. PICK newJob \in Job : /\ job' = [job EXCEPT ![r] = newJob] /\ newJob.step = "start"
                                  /\ newJob.code = job[r].code
        BY <2>1, <3>1, StillKnown DEF CodeSteps, TokenSteps
      <3>3. QED
        BY <2>1, <3>1, <3>2 DEF Follows, At
    <2>4. QED
      BY <2>2, <2>3
  <1>8. QED
    BY <1>1, <1>2, <1>3, <1>4, <1>5, <1>6, <1>7 DEF CodeStep

LEMMA SessionStepFollows ==
    ASSUME TypeInv, NEW r \in Requests, SessionStep(r) \/ Abort(r)
    PROVE  \E newJob \in Job \cup {NoJob} :
             job' = [job EXCEPT ![r] = newJob] /\ Follows(r, newJob)
  <1> DEFINE Goal == \E newJob \in Job \cup {NoJob} :
                       job' = [job EXCEPT ![r] = newJob] /\ Follows(r, newJob)
  <1>0. Done(r) => Goal
    BY DEF Done, Follows
  <1>1. ASSUME NEW t \in Tokens, RefreshTokens(r, t)
        PROVE  Goal
    <2>1. job[r] = NoJob
      BY <1>1 DEF RefreshTokens, Free
    <2>2. CASE token[t].revoked
      <3>1. PICK newJob : newJob = [step |-> "end", token |-> t]
        OBVIOUS
      <3>2. newJob \in Job /\ newJob.step = "end"
        BY <3>1 DEF Job
      <3>3. job' = [job EXCEPT ![r] = newJob]
        BY <1>1, <2>2, <3>1 DEF RefreshTokens, Become
      <3>4. QED
        BY <3>2, <3>3 DEF Follows
    <2>3. CASE ~ token[t].revoked
      <3>1. PICK newJob : newJob = [step |-> "check", token |-> t]
        OBVIOUS
      <3>2. newJob \in Job /\ newJob.step = "check" /\ newJob.token = t
        BY <3>1 DEF Job
      <3>3. job' = [job EXCEPT ![r] = newJob]
        BY <1>1, <2>3, <3>1 DEF RefreshTokens, Become
      <3>4. Live(t) /\ (Refreshing(token[t].family) # {} => "refresh" \in overlaps')
        BY <1>1, <2>3 DEF RefreshTokens
      <3>5. QED
        BY <2>1, <3>2, <3>3, <3>4 DEF Follows
    <2>4. QED
      BY <2>2, <2>3
  <1>2. CASE RevokeRefreshTokenFamily(r) \/ CreateRefreshToken(r) \/ Abort(r)
    BY <1>0, <1>2 DEF RevokeRefreshTokenFamily, CreateRefreshToken, Abort
  <1>3. CASE CheckUser(r)
    <2>1. job[r] # NoJob /\ job[r].step = "check"
      BY <1>3 DEF CheckUser, At
    <2>2. CASE Found
      <3>1. Goto(r, "revoke")
        BY <1>3, <2>2 DEF CheckUser
      <3>2. PICK newJob \in Job : /\ job' = [job EXCEPT ![r] = newJob] /\ newJob.step = "revoke"
                                  /\ newJob.token = job[r].token
        BY <2>1, <3>1, StillKnown DEF CodeSteps, TokenSteps
      <3>3. QED
        BY <2>1, <2>2, <3>2 DEF Follows, At, Found
    <2>3. CASE ~ Found
      BY <1>0, <1>3, <2>3 DEF CheckUser
    <2>4. QED
      BY <2>2, <2>3
  <1>4. CASE RevokeRefreshToken(r)
    <2>1. job[r] # NoJob /\ job[r].step = "revoke" /\ Goto(r, "renew")
      BY <1>4 DEF RevokeRefreshToken, At
    <2>2. PICK newJob \in Job : /\ job' = [job EXCEPT ![r] = newJob] /\ newJob.step = "renew"
                                /\ newJob.token = job[r].token
      BY <2>1, StillKnown DEF CodeSteps, TokenSteps
    <2>3. job[r].token \in Tokens /\ token[job[r].token] \in Token
      BY <2>1, JobAt DEF TokenSteps
    <2>4. token'[job[r].token].revoked
      BY <1>4, <2>3 DEF RevokeRefreshToken, Token, TypeInv, TypeOK
    <2>5. QED
      BY <2>1, <2>2, <2>4 DEF Follows, Live, At
  <1>5. QED
    BY <1>1, <1>2, <1>3, <1>4 DEF SessionStep

\* The codes: no statement but their own makes one, or makes one active again.
LEMMA CodesOnly ==
    ASSUME TypeInv, [Next]_vars
    PROVE  /\ overlaps \subseteq overlaps'
           /\ (\A r \in Requests : ~ CreateOTPChallenge(r)) =>
                \A k \in Codes : /\ code[k] = None <=> code'[k] = None
                                 /\ IsActive(k)' => IsActive(k)
           /\ (\A r \in Requests : ~ StartSession(r)) => logins' = logins
  <1>t. code \in [Codes -> Code \cup {None}]
    BY DEF TypeInv, TypeOK
  <1>1. overlaps \subseteq overlaps'
    BY DEF Next, vars, CodeStep, SessionStep, Time, RequestOTP, CountRecentOTPRequests,
       CreateOTPChallenge, VerifyOTP, IncrementOTPAttempt, ConsumeOTP, FindUser, CreateUser,
       StartSession, RefreshTokens, RevokeRefreshTokenFamily, CheckUser, RevokeRefreshToken,
       CreateRefreshToken, Logout, DeactivateMe, CodeExpires, TokenExpires, Abort
  <1>2. (\A r \in Requests : ~ StartSession(r)) => logins' = logins
    BY DEF Next, vars, CodeStep, SessionStep, Time, RequestOTP, CountRecentOTPRequests,
       CreateOTPChallenge, VerifyOTP, IncrementOTPAttempt, ConsumeOTP, FindUser, CreateUser,
       RefreshTokens, RevokeRefreshTokenFamily, CheckUser, RevokeRefreshToken,
       CreateRefreshToken, Logout, DeactivateMe, CodeExpires, TokenExpires, Abort
  <1>3. \/ code' = code
        \/ \E r \in Requests :
              CreateOTPChallenge(r) \/ IncrementOTPAttempt(r) \/ ConsumeOTP(r)
        \/ \E k \in Codes : CodeExpires(k)
    BY DEF Next, vars, CodeStep, SessionStep, Time, RequestOTP, CountRecentOTPRequests,
       VerifyOTP, FindUser, CreateUser,
       StartSession, RefreshTokens, RevokeRefreshTokenFamily, CheckUser, RevokeRefreshToken,
       CreateRefreshToken, Logout, DeactivateMe, TokenExpires, Abort
  <1>4. ASSUME NEW r \in Requests, IncrementOTPAttempt(r) \/ ConsumeOTP(r)
        PROVE  \A k \in Codes : /\ code[k] = None <=> code'[k] = None
                                /\ IsActive(k)' => IsActive(k)
    <2>1. job[r].code \in Codes /\ code[job[r].code] \in Code
      BY <1>4, JobAt DEF IncrementOTPAttempt, ConsumeOTP, At, CodeSteps
    <2>2. PICK row \in Code : /\ code' = [code EXCEPT ![job[r].code] = row]
                              /\ row.active => code[job[r].code].active
      <3>1. CASE IncrementOTPAttempt(r)
        <4>1. PICK row : row = [code[job[r].code] EXCEPT !.attempts = code[job[r].code].attempts + 1]
          OBVIOUS
        <4>2. row \in Code /\ row.active = code[job[r].code].active
          BY <2>1, <4>1 DEF Code
        <4>3. code' = [code EXCEPT ![job[r].code] = row]
          BY <3>1, <4>1 DEF IncrementOTPAttempt
        <4>4. QED
          BY <4>2, <4>3
      <3>2. CASE ConsumeOTP(r)
        <4>1. PICK row : row = [code[job[r].code] EXCEPT !.active = FALSE]
          OBVIOUS
        <4>2. row \in Code /\ ~ row.active
          BY <2>1, <4>1 DEF Code
        <4>3. code' = [code EXCEPT ![job[r].code] = row]
          BY <3>2, <4>1 DEF ConsumeOTP
        <4>4. QED
          BY <4>2, <4>3
      <3>3. QED
        BY <1>4, <3>1, <3>2
    <2>3. QED
      BY <1>t, <2>1, <2>2 DEF IsActive
  <1>5. ASSUME NEW l \in Codes, CodeExpires(l)
        PROVE  \A k \in Codes : /\ code[k] = None <=> code'[k] = None
                                /\ IsActive(k)' => IsActive(k)
    <2>1. code[l] \in Code /\ code' = [code EXCEPT ![l] = [code[l] EXCEPT !.active = FALSE]]
      BY <1>5, <1>t DEF CodeExpires, Active, Requested
    <2>2. [code[l] EXCEPT !.active = FALSE] \in Code /\ ~ [code[l] EXCEPT !.active = FALSE].active
      BY <2>1 DEF Code
    <2>3. QED
      BY <1>t, <2>1, <2>2 DEF IsActive
  <1>6. QED
    BY <1>1, <1>2, <1>3, <1>4, <1>5 DEF IsActive

\* The requests that verify a code, after a slot has changed.
LEMMA VerifyingAfter ==
    ASSUME TypeInv, NEW r \in Requests, NEW newJob \in Job \cup {NoJob},
           job' = [job EXCEPT ![r] = newJob], NEW k \in Codes
    PROVE  /\ \A q \in Verifying(k)' : q = r \/ (q \in Verifying(k) /\ job'[q] = job[q])
           /\ job'[r] = newJob
           /\ r \in Verifying(k)' <=>
                newJob # NoJob /\ newJob.step \in CodeSteps /\ newJob.code = k
           /\ r \in Verifying(k) <=>
                job[r] # NoJob /\ job[r].step \in CodeSteps /\ job[r].code = k
  <1>1. job'[r] = newJob /\ \A q \in Requests \ {r} : job'[q] = job[q]
    BY DEF TypeInv, TypeOK
  <1>2. \A q \in Requests \ {r} : q \in Verifying(k)' <=> q \in Verifying(k)
    BY <1>1 DEF Verifying, Free
  <1>3. newJob # NoJob => ("code" \in DOMAIN newJob <=> newJob.step \in CodeSteps)
    BY DEF Job, CodeSteps
  <1>4. r \in Verifying(k)' <=> newJob # NoJob /\ newJob.step \in CodeSteps /\ newJob.code = k
    BY <1>1, <1>3 DEF Verifying, Free
  <1>5. r \in Verifying(k) <=> job[r] # NoJob /\ job[r].step \in CodeSteps /\ job[r].code = k
    BY JobAt DEF Verifying, Free
  <1>6. \A q \in Verifying(k)' : q = r \/ (q \in Verifying(k) /\ job'[q] = job[q])
    BY <1>1, <1>2 DEF Verifying
  <1>7. QED
    BY <1>1, <1>4, <1>5, <1>6

LEMMA VerifyingDone ==
    ASSUME TypeInv, NEW r \in Requests, job' = [job EXCEPT ![r] = NoJob], NEW k \in Codes
    PROVE  \A s \in Verifying(k)' : s \in Verifying(k) /\ job'[s] = job[s] /\ s # r
  <1>1. job'[r] = NoJob /\ \A q \in Requests \ {r} : job'[q] = job[q]
    BY DEF TypeInv, TypeOK
  <1>2. QED
    BY <1>1 DEF Verifying, Free

-----------------------------------------------------------------------------
(***************************************************************************)
(* A code is good for one session.                                         *)
(***************************************************************************)

LEMMA SlotKeepsCodes ==
    ASSUME TypeInv, CodeInv, NEW r \in Requests, NEW newJob \in Job \cup {NoJob},
           job' = [job EXCEPT ![r] = newJob], Follows(r, newJob),
           overlaps \subseteq overlaps', logins' = logins,
           \A k \in Codes : (code'[k] = None => code[k] = None) /\ (IsActive(k)' => IsActive(k))
    PROVE  CodeInv'
  <1>1. \A k \in Codes : code'[k] = None => logins'[k] = 0
    BY DEF CodeInv
  <1>2. ASSUME "verify" \notin overlaps', NEW k \in Codes
        PROVE  /\ logins'[k] <= 1
               /\ \A q, s \in Verifying(k)' : q = s
               /\ IsActive(k)' \/ Verifying(k)' # {} => logins'[k] = 0
               /\ \A s \in Verifying(k)' :
                     IsActive(k)' => job'[s].step \in {"wrong", "consume"}
    <2>1. /\ logins[k] <= 1
          /\ \A q, s \in Verifying(k) : q = s
          /\ IsActive(k) \/ Verifying(k) # {} => logins[k] = 0
          /\ \A s \in Verifying(k) :
                IsActive(k) => job[s].step \in {"wrong", "consume"}
      BY <1>2 DEF CodeInv
    <2>2. /\ \A s \in Verifying(k)' : s = r \/ (s \in Verifying(k) /\ job'[s] = job[s])
          /\ job'[r] = newJob
          /\ r \in Verifying(k)' <=>
               newJob # NoJob /\ newJob.step \in CodeSteps /\ newJob.code = k
          /\ r \in Verifying(k) <=>
               job[r] # NoJob /\ job[r].step \in CodeSteps /\ job[r].code = k
      BY VerifyingAfter
    <2>3. CASE r \notin Verifying(k)'
      <3>1. \A s \in Verifying(k)' : s \in Verifying(k) /\ job'[s] = job[s]
        BY <2>2, <2>3
      <3>2. QED
        BY <2>1, <3>1
    <2>4. CASE r \in Verifying(k)' /\ newJob.step \in {"wrong", "consume"}
      <3>1. newJob # NoJob /\ newJob.code = k
        BY <2>2, <2>4
      <3>2. IsActive(k) /\ Verifying(k) = {}
        <4>1. /\ IsActive(newJob.code)
              /\ Verifying(newJob.code) # {} => "verify" \in overlaps'
          BY <2>4, <3>1 DEF Follows
        <4>2. QED
          BY <1>2, <3>1, <4>1
      <3>3. \A s \in Verifying(k)' : s = r
        BY <2>2, <3>2
      <3>4. QED
        BY <2>1, <2>2, <2>4, <3>2, <3>3
    <2>5. CASE r \in Verifying(k)' /\ newJob.step \in {"find", "create", "start"}
      <3>1. newJob # NoJob /\ newJob.code = k
        BY <2>2, <2>5
      <3>2. /\ job[r] # NoJob /\ job[r].step \in {"consume", "find", "create"}
            /\ job[r].code = k
            /\ job[r].step = "consume" => ~ IsActive(k)'
        BY <2>5, <3>1 DEF Follows, At
      <3>3. r \in Verifying(k)
        BY <2>2, <3>2 DEF CodeSteps
      <3>4. ~ IsActive(k)'
        BY <2>1, <3>2, <3>3
      <3>5. \A s \in Verifying(k)' : s \in Verifying(k)
        BY <2>2, <3>3
      <3>6. QED
        BY <2>1, <3>3, <3>4, <3>5
    <2>6. r \in Verifying(k)' => newJob.step \in CodeSteps
      BY <2>2
    <2>7. QED
      BY <2>3, <2>4, <2>5, <2>6 DEF CodeSteps
  <1>3. QED
    BY <1>1, <1>2 DEF CodeInv

LEMMA NextKeepsCodes ==
    ASSUME TypeInv, CodeInv, [Next]_vars
    PROVE  CodeInv'
  <1>t. code \in [Codes -> Code \cup {None}] /\ logins \in [Codes -> Nat]
    BY DEF TypeInv, TypeOK
  <1>1. ASSUME NEW r \in Requests, CreateOTPChallenge(r)
        PROVE  CodeInv'
    <2>1. PICK k \in Codes \ Requested :
             code' = [code EXCEPT ![k] = [attempts |-> 0, active |-> TRUE]]
      BY <1>1 DEF CreateOTPChallenge
    <2>2. /\ job' = [job EXCEPT ![r] = NoJob] /\ logins' = logins /\ overlaps' = overlaps
      BY <1>1 DEF CreateOTPChallenge, Done
    <2>3. code[k] = None /\ k \in Codes
      BY <2>1 DEF Requested
    <2>4. logins[k] = 0
      BY <2>3 DEF CodeInv
    <2>5. \A q \in Requests : q \notin Verifying(k)
      BY <2>3, JobAt DEF Verifying, Free, TypeInv, KnownInv
    <2>6. \A l \in Codes : code'[l] = None => logins'[l] = 0
      BY <1>t, <2>1, <2>2, <2>4 DEF CodeInv
    <2>7. ASSUME NEW l \in Codes, "verify" \notin overlaps'
          PROVE  /\ logins'[l] <= 1
                 /\ \A q, s \in Verifying(l)' : q = s
                 /\ IsActive(l)' \/ Verifying(l)' # {} => logins'[l] = 0
                 /\ \A s \in Verifying(l)' :
                       IsActive(l)' => job'[s].step \in {"wrong", "consume"}
      <3>1. \A s \in Verifying(l)' : s \in Verifying(l) /\ job'[s] = job[s]
        BY <2>2, VerifyingDone
      <3>2. CASE l = k
        BY <2>2, <2>4, <2>5, <3>1, <3>2 DEF Verifying
      <3>3. CASE l # k
        <4>1. IsActive(l)' <=> IsActive(l)
          BY <1>t, <2>1, <3>3 DEF IsActive
        <4>2. QED
          BY <2>2, <2>7, <3>1, <4>1 DEF CodeInv
      <3>4. QED
        BY <3>2, <3>3
    <2>8. QED
      BY <2>6, <2>7 DEF CodeInv
  <1>2. ASSUME NEW r \in Requests, StartSession(r)
        PROVE  CodeInv'
    <2>1. job[r] # NoJob /\ job[r].step = "start"
      BY <1>2 DEF StartSession, At
    <2>2. job[r].code \in Codes /\ code[job[r].code] # None
      BY <2>1, JobAt DEF CodeSteps, TypeInv, KnownInv
    <2>3. /\ job' = [job EXCEPT ![r] = NoJob] /\ code' = code /\ overlaps' = overlaps
          /\ logins' = [logins EXCEPT ![job[r].code] = @ + 1]
      BY <1>2 DEF StartSession, Done
    <2>4. r \in Verifying(job[r].code)
      BY <2>1, <2>2, <2>3, VerifyingAfter DEF CodeSteps
    <2>5. \A l \in Codes : code'[l] = None => logins'[l] = 0
      BY <1>t, <2>2, <2>3 DEF CodeInv
    <2>6. ASSUME NEW l \in Codes, "verify" \notin overlaps'
          PROVE  /\ logins'[l] <= 1
                 /\ \A q, s \in Verifying(l)' : q = s
                 /\ IsActive(l)' \/ Verifying(l)' # {} => logins'[l] = 0
                 /\ \A s \in Verifying(l)' :
                       IsActive(l)' => job'[s].step \in {"wrong", "consume"}
      <3>0. \A s \in Verifying(l)' : s \in Verifying(l) /\ job'[s] = job[s] /\ s # r
        BY <2>3, VerifyingDone
      <3>1. IsActive(l)' <=> IsActive(l)
        BY <2>3 DEF IsActive
      <3>2. /\ logins[l] <= 1
            /\ \A q, s \in Verifying(l) : q = s
            /\ IsActive(l) \/ Verifying(l) # {} => logins[l] = 0
            /\ \A s \in Verifying(l) :
                  IsActive(l) => job[s].step \in {"wrong", "consume"}
        BY <2>3, <2>6 DEF CodeInv
      <3>3. CASE l = job[r].code
        <4>1. ~ IsActive(l) /\ logins[l] = 0
          BY <2>1, <2>4, <3>2, <3>3
        <4>2. Verifying(l)' = {}
          BY <2>4, <3>0, <3>1, <3>2, <3>3
        <4>3. logins'[l] = 1
          BY <1>t, <2>3, <3>3, <4>1
        <4>4. QED
          BY <3>0, <3>1, <4>1, <4>2, <4>3
      <3>4. CASE l # job[r].code
        <4>1. logins'[l] = logins[l]
          BY <1>t, <2>3, <3>4
        <4>2. QED
          BY <3>0, <3>1, <3>2, <4>1
      <3>5. QED
        BY <3>3, <3>4
    <2>7. QED
      BY <2>5, <2>6 DEF CodeInv
  <1>3. ASSUME NEW r \in Requests, CodeStep(r) \/ SessionStep(r) \/ Abort(r),
               \A q \in Requests : ~ CreateOTPChallenge(q) /\ ~ StartSession(q)
        PROVE  CodeInv'
    <2>1. PICK newJob \in Job \cup {NoJob} :
             job' = [job EXCEPT ![r] = newJob] /\ Follows(r, newJob)
      BY <1>3, CodeStepFollows, SessionStepFollows
    <2>2. QED
      BY <1>3, <2>1, CodesOnly, SlotKeepsCodes
  <1>4. ASSUME UNCHANGED job,
               \A q \in Requests : ~ CreateOTPChallenge(q) /\ ~ StartSession(q)
        PROVE  CodeInv'
    <2>1. \A k \in Codes : Verifying(k)' = Verifying(k)
      BY <1>4 DEF Verifying, Free
    <2>2. /\ overlaps \subseteq overlaps' /\ logins' = logins
          /\ \A k \in Codes : (code'[k] = None => code[k] = None) /\ (IsActive(k)' => IsActive(k))
      BY <1>4, CodesOnly
    <2>3. QED
      BY <1>4, <2>1, <2>2 DEF CodeInv
  <1>5. CASE UNCHANGED vars \/ (\E t \in Tokens : Logout(t)) \/ DeactivateMe \/ Time
    BY <1>1, <1>2, <1>4, <1>5 DEF vars, Logout, DeactivateMe, Time, CodeExpires,
       TokenExpires
  <1>6. QED
    BY <1>1, <1>2, <1>3, <1>5 DEF Next

\* However requests interleave and fail, a code starts at most one session,
\* unless two requests verify it at once.
THEOREM CodeCorrect == Spec => []OneSessionPerCode
  <1>1. Init => CodeInv
    <2> SUFFICES ASSUME Init PROVE CodeInv
      OBVIOUS
    <2>1. /\ \A k \in Codes : logins[k] = 0 /\ ~ IsActive(k)
          /\ \A k \in Codes : Verifying(k) = {}
      BY DEF Init, IsActive, Verifying, Free
    <2>2. QED
      BY <2>1 DEF CodeInv
  <1>2. CodeInv => OneSessionPerCode
    BY DEF CodeInv, OneSessionPerCode
  <1>3. QED
    BY <1>1, <1>2, TypeInit, NextKeepsType, NextKeepsCodes, PTL DEF Spec

-----------------------------------------------------------------------------
(***************************************************************************)
(* A family has one valid token, and none once its session has ended.      *)
(***************************************************************************)

RefreshSteps == {"check", "revoke", "renew"}

\* The requests that refresh a family, after a slot has changed.
LEMMA RefreshingAfter ==
    ASSUME TypeInv, NEW r \in Requests, NEW newJob \in Job \cup {NoJob},
           job' = [job EXCEPT ![r] = newJob], NEW f \in Tokens,
           \A t \in Tokens : token[t] # None => token'[t].family = token[t].family
    PROVE  /\ \A q \in Refreshing(f)' : q = r \/ (q \in Refreshing(f) /\ job'[q] = job[q])
           /\ job'[r] = newJob
           /\ r \in Refreshing(f)' <=>
                /\ newJob # NoJob /\ newJob.step \in RefreshSteps
                /\ token'[newJob.token].family = f
           /\ r \in Refreshing(f) <=>
                /\ job[r] # NoJob /\ job[r].step \in RefreshSteps
                /\ token[job[r].token].family = f
  <1>1. job'[r] = newJob /\ \A q \in Requests \ {r} : job'[q] = job[q]
    BY DEF TypeInv, TypeOK
  <1>2. ASSUME NEW q \in Refreshing(f)', q # r
        PROVE  q \in Refreshing(f) /\ job'[q] = job[q]
    <2>1. q \in Requests /\ job'[q] = job[q]
      BY <1>1, <1>2 DEF Refreshing
    <2>2. /\ job[q] # NoJob /\ job[q].step \in RefreshSteps
          /\ token'[job[q].token].family = f
      BY <1>2, <2>1 DEF Refreshing, At, RefreshSteps
    <2>3. job[q].token \in Tokens /\ token[job[q].token] # None
      BY <2>1, <2>2, JobAt DEF RefreshSteps, TokenSteps, TypeInv, KnownInv, Exists
    <2>4. token[job[q].token].family = f
      BY <2>2, <2>3
    <2>5. QED
      BY <2>1, <2>2, <2>4 DEF Refreshing, At, RefreshSteps
  <1>3. r \in Refreshing(f)' <=>
          /\ newJob # NoJob /\ newJob.step \in RefreshSteps
          /\ token'[newJob.token].family = f
    BY <1>1 DEF Refreshing, At, RefreshSteps
  <1>4. r \in Refreshing(f) <=>
          /\ job[r] # NoJob /\ job[r].step \in RefreshSteps
          /\ token[job[r].token].family = f
    BY DEF Refreshing, At, RefreshSteps
  <1>5. QED
    BY <1>1, <1>2, <1>3, <1>4

\* A request that makes no token goes on.
LEMMA SlotKeepsTokens ==
    ASSUME TypeInv, NEW r \in Requests, NEW newJob \in Job \cup {NoJob},
           job' = [job EXCEPT ![r] = newJob], Follows(r, newJob),
           overlaps \subseteq overlaps',
           \A t \in Tokens : token[t] # None => token'[t].family = token[t].family,
           \A t \in Tokens : Live(t)' => Live(t)
    PROVE  /\ TokenInv => TokenInv'
           /\ \A f \in Tokens : Over(f) => Over(f)'
  <1>1. ASSUME NEW f \in Tokens, NEW t \in Tokens, IsLiveOf(f, t)'
        PROVE  IsLiveOf(f, t)
    BY <1>1 DEF IsLiveOf, Live, Exists
  <1>2. ASSUME NEW f \in Tokens
        PROVE  /\ \A q \in Refreshing(f)' : q = r \/ (q \in Refreshing(f) /\ job'[q] = job[q])
               /\ job'[r] = newJob
               /\ r \in Refreshing(f)' <=>
                    /\ newJob # NoJob /\ newJob.step \in RefreshSteps
                    /\ token'[newJob.token].family = f
               /\ r \in Refreshing(f) <=>
                    /\ job[r] # NoJob /\ job[r].step \in RefreshSteps
                    /\ token[job[r].token].family = f
    BY RefreshingAfter
  \* How slot r comes to be among those that refresh f.
  <1>3. ASSUME NEW f \in Tokens, r \in Refreshing(f)'
        PROVE  \/ /\ newJob.step = "check" /\ IsLiveOf(f, newJob.token)
                  /\ Refreshing(f) # {} => "refresh" \in overlaps'
               \/ /\ newJob.step \in {"revoke", "renew"} /\ r \in Refreshing(f)
                  /\ job[r].step \in {"check", "revoke"} /\ newJob.token = job[r].token
                  /\ newJob.step = "renew" => ~ Live(newJob.token)'
    <2>1. /\ newJob # NoJob /\ newJob.step \in RefreshSteps
          /\ token'[newJob.token].family = f
      BY <1>2, <1>3
    <2>2. newJob.token \in Tokens
      BY <2>1 DEF RefreshSteps, Job
    <2>3. CASE newJob.step = "check"
      <3>1. /\ Live(newJob.token)
            /\ Refreshing(token[newJob.token].family) # {} => "refresh" \in overlaps'
        BY <2>1, <2>3 DEF Follows
      <3>2. token[newJob.token].family = f
        BY <2>1, <2>2, <3>1 DEF Live, Exists
      <3>3. QED
        BY <2>3, <3>1, <3>2 DEF IsLiveOf
    <2>4. CASE newJob.step \in {"revoke", "renew"}
      <3>1. /\ job[r] # NoJob /\ job[r].step \in {"check", "revoke"}
            /\ newJob.token = job[r].token
            /\ newJob.step = "renew" => ~ Live(newJob.token)'
        BY <2>1, <2>4 DEF Follows, At
      <3>2. token[newJob.token] # None
        BY <3>1 DEF TypeInv, KnownInv, TokenSteps, Exists
      <3>3. token[job[r].token].family = f
        BY <2>1, <2>2, <3>1, <3>2
      <3>4. r \in Refreshing(f)
        BY <1>2, <3>1, <3>3 DEF RefreshSteps
      <3>5. QED
        BY <2>4, <3>1, <3>4
    <2>5. QED
      BY <2>1, <2>3, <2>4 DEF RefreshSteps
  <1>4. ASSUME TokenInv, "refresh" \notin overlaps', NEW f \in Tokens
        PROVE  /\ \A q, s \in Refreshing(f)' : q = s
               /\ \A t, u \in Tokens : IsLiveOf(f, t)' /\ IsLiveOf(f, u)' => t = u
               /\ \A q \in Refreshing(f)', t \in Tokens :
                     IsLiveOf(f, t)' => t = job'[q].token /\ job'[q].step # "renew"
    <2>1. /\ \A q, s \in Refreshing(f) : q = s
          /\ \A t, u \in Tokens : IsLiveOf(f, t) /\ IsLiveOf(f, u) => t = u
          /\ \A q \in Refreshing(f), t \in Tokens :
                IsLiveOf(f, t) => t = job[q].token /\ job[q].step # "renew"
      BY <1>4 DEF TokenInv
    <2>2. \A q \in Refreshing(f)' : q = r \/ (q \in Refreshing(f) /\ job'[q] = job[q])
      BY <1>2
    <2>3. CASE r \notin Refreshing(f)'
      BY <1>1, <2>1, <2>2, <2>3
    <2>4. ASSUME newJob.step = "check", IsLiveOf(f, newJob.token), Refreshing(f) = {},
                 r \in Refreshing(f)'
          PROVE  /\ \A q, s \in Refreshing(f)' : q = s
                 /\ \A q \in Refreshing(f)', t \in Tokens :
                       IsLiveOf(f, t)' => t = job'[q].token /\ job'[q].step # "renew"
      <3>1. newJob.token \in Tokens
        BY <1>2, <2>4 DEF Job, RefreshSteps
      <3>2. \A q \in Refreshing(f)' : q = r /\ job'[q] = newJob
        BY <1>2, <2>2, <2>4
      <3>3. QED
        BY <1>1, <2>1, <2>4, <3>1, <3>2
    <2>5. ASSUME newJob.step \in {"revoke", "renew"}, r \in Refreshing(f),
                 newJob.token = job[r].token,
                 newJob.step = "renew" => ~ Live(newJob.token)'
          PROVE  /\ \A q, s \in Refreshing(f)' : q = s
                 /\ \A q \in Refreshing(f)', t \in Tokens :
                       IsLiveOf(f, t)' => t = job'[q].token /\ job'[q].step # "renew"
      <3>1. \A q \in Refreshing(f)' : q = r /\ job'[q] = newJob
        BY <1>2, <2>1, <2>2, <2>5
      <3>2. ASSUME NEW t \in Tokens, IsLiveOf(f, t)'
            PROVE  t = newJob.token /\ newJob.step # "renew"
        <4>1. t = job[r].token
          BY <1>1, <2>1, <2>5, <3>2
        <4>2. QED
          BY <2>5, <3>2, <4>1 DEF IsLiveOf
      <3>3. QED
        BY <3>1, <3>2
    <2>6. \A t, u \in Tokens : IsLiveOf(f, t)' /\ IsLiveOf(f, u)' => t = u
      BY <1>1, <2>1
    <2>7. QED
      BY <1>3, <1>4, <2>3, <2>4, <2>5, <2>6
  <1>5. TokenInv => TokenInv'
    BY <1>4 DEF TokenInv
  <1>6. ASSUME NEW f \in Tokens, Over(f)
        PROVE  Over(f)'
    <2>1. Refreshing(f) = {} /\ \A t \in Tokens : ~ IsLiveOf(f, t)
      BY <1>6 DEF Over
    <2>2. r \notin Refreshing(f)'
      <3>1. SUFFICES ASSUME r \in Refreshing(f)' PROVE FALSE
        OBVIOUS
      <3>2. newJob.step = "check" /\ IsLiveOf(f, newJob.token)
        BY <1>3, <2>1, <3>1
      <3>3. newJob # NoJob /\ newJob \in Job
        BY <1>2, <2>1, <3>1
      <3>4. newJob.token \in Tokens
        BY <3>2, <3>3 DEF Job
      <3>5. QED
        BY <2>1, <3>2, <3>4
    <2>3. \A q \in Refreshing(f)' : q = r \/ q \in Refreshing(f)
      BY <1>2, <2>1
    <2>4. QED
      BY <1>1, <2>1, <2>2, <2>3 DEF Over
  <1>7. QED
    BY <1>5, <1>6

\* The slots stay as they are, and no token becomes valid.
LEMMA IdleKeepsTokens ==
    ASSUME TypeInv, UNCHANGED <<job, overlaps>>,
           \A t \in Tokens : token[t] # None => token'[t].family = token[t].family,
           \A t \in Tokens : Live(t)' => Live(t)
    PROVE  (TokenInv => TokenInv') /\ \A f \in Tokens : Over(f) => Over(f)'
  <1>1. ASSUME NEW f \in Tokens, NEW t \in Tokens, IsLiveOf(f, t)'
        PROVE  IsLiveOf(f, t)
    BY <1>1 DEF IsLiveOf, Live, Exists
  <1>2. ASSUME NEW f \in Tokens, NEW q \in Refreshing(f)'
        PROVE  q \in Refreshing(f)
    <2>1. /\ q \in Requests /\ job[q] # NoJob /\ job[q].step \in RefreshSteps
          /\ token'[job[q].token].family = f
      BY <1>2 DEF Refreshing, At, RefreshSteps
    <2>2. job[q].token \in Tokens /\ token[job[q].token] # None
      BY <2>1, JobAt DEF RefreshSteps, TokenSteps, TypeInv, KnownInv, Exists
    <2>3. QED
      BY <2>1, <2>2 DEF Refreshing, At, RefreshSteps
  <1>3. TokenInv => TokenInv'
    BY <1>1, <1>2 DEF TokenInv
  <1>4. \A f \in Tokens : Over(f) => Over(f)'
    BY <1>1, <1>2 DEF Over
  <1>5. QED
    BY <1>3, <1>4

\* Only StartSession and CreateRefreshToken make a valid token, and no
\* statement moves one to another family.
LEMMA TokensOnly ==
    ASSUME TypeInv, [Next]_vars,
           \A r \in Requests : ~ StartSession(r) /\ ~ CreateRefreshToken(r)
    PROVE  \A t \in Tokens : /\ token[t] # None => token'[t].family = token[t].family
                             /\ Live(t)' => Live(t)
  <1>t. token \in [Tokens -> Token \cup {None}]
    BY DEF TypeInv, TypeOK
  <1>1. \/ token' = token
        \/ \E r \in Requests : RevokeRefreshTokenFamily(r) \/ RevokeRefreshToken(r)
        \/ \E t \in Tokens : Logout(t) \/ TokenExpires(t)
    BY DEF Next, vars, CodeStep, SessionStep, Time, RequestOTP, CountRecentOTPRequests,
       CreateOTPChallenge, VerifyOTP, IncrementOTPAttempt, ConsumeOTP, FindUser, CreateUser,
       RefreshTokens, CheckUser, DeactivateMe, CodeExpires, Abort
  <1>2. ASSUME NEW u \in Tokens, NEW row \in Token, token[u] # None,
               token' = [token EXCEPT ![u] = row], row.family = token[u].family,
               row.revoked \/ row.expired
        PROVE  \A t \in Tokens : /\ token[t] # None => token'[t].family = token[t].family
                                 /\ Live(t)' => Live(t)
    BY <1>t, <1>2 DEF Live, Exists
  <1>3. ASSUME NEW u \in Tokens, Exists(u),
               \/ token' = [token EXCEPT ![u].revoked = TRUE]
               \/ token' = [token EXCEPT ![u].expired = TRUE]
        PROVE  \A t \in Tokens : /\ token[t] # None => token'[t].family = token[t].family
                                 /\ Live(t)' => Live(t)
    <2>1. token[u] \in Token /\ token[u] # None
      BY <1>3, <1>t DEF Exists
    <2>2. CASE token' = [token EXCEPT ![u].revoked = TRUE]
      <3>1. PICK row : row = [token[u] EXCEPT !.revoked = TRUE]
        OBVIOUS
      <3>2. row \in Token /\ row.family = token[u].family /\ row.revoked
        BY <2>1, <3>1 DEF Token
      <3>3. token' = [token EXCEPT ![u] = row]
        BY <2>2, <3>1
      <3>4. QED
        BY <1>2, <2>1, <3>2, <3>3
    <2>3. CASE token' = [token EXCEPT ![u].expired = TRUE]
      <3>1. PICK row : row = [token[u] EXCEPT !.expired = TRUE]
        OBVIOUS
      <3>2. row \in Token /\ row.family = token[u].family /\ row.expired
        BY <2>1, <3>1 DEF Token
      <3>3. token' = [token EXCEPT ![u] = row]
        BY <2>3, <3>1
      <3>4. QED
        BY <1>2, <2>1, <3>2, <3>3
    <2>4. QED
      BY <1>3, <2>2, <2>3
  <1>4. ASSUME NEW r \in Requests, RevokeRefreshToken(r)
        PROVE  \A t \in Tokens : /\ token[t] # None => token'[t].family = token[t].family
                                 /\ Live(t)' => Live(t)
    <2>1. job[r].token \in Tokens /\ token[job[r].token] \in Token
      BY <1>4, JobAt DEF RevokeRefreshToken, At, TokenSteps
    <2>2. QED
      BY <1>3, <1>4, <2>1 DEF RevokeRefreshToken, Exists
  <1>5. ASSUME token' = token
        PROVE  \A t \in Tokens : /\ token[t] # None => token'[t].family = token[t].family
                                 /\ Live(t)' => Live(t)
    BY <1>5 DEF Live, Exists
  <1>6. ASSUME NEW r \in Requests, RevokeRefreshTokenFamily(r)
        PROVE  \A t \in Tokens : /\ token[t] # None => token'[t].family = token[t].family
                                 /\ Live(t)' => Live(t)
    BY <1>6, FamilyRevoked
  <1>7. QED
    BY <1>1, <1>3, <1>4, <1>5, <1>6 DEF Logout, TokenExpires, Live

\* Token t is made in family f, and slot r is free for others.
LEMMA MakesToken ==
    ASSUME TypeInv, NEW r \in Requests, NEW t \in Tokens, NEW f \in Tokens, ~ Exists(t),
           token' = [token EXCEPT ![t] = [family |-> f, revoked |-> FALSE, expired |-> FALSE]],
           job' = [job EXCEPT ![r] = NoJob], UNCHANGED <<overlaps>>,
           f = t \/ (r \in Refreshing(f) /\ job[r].step = "renew")
    PROVE  (TokenInv => TokenInv') /\ \A g \in Tokens : Exists(g) /\ Over(g) => Over(g)'
  <1>t. token \in [Tokens -> Token \cup {None}]
    BY DEF TypeInv, TypeOK
  <1>0. [family |-> f, revoked |-> FALSE, expired |-> FALSE] \in Token
    BY DEF Token
  <1>1. \A u \in Tokens : token[u] # None => token'[u].family = token[u].family
    BY <1>t DEF Exists
  <1>2. ASSUME NEW g \in Tokens, NEW u \in Tokens, IsLiveOf(g, u)'
        PROVE  IsLiveOf(g, u) \/ (u = t /\ g = f)
    BY <1>t, <1>2 DEF IsLiveOf, Live, Exists
  <1>3. ASSUME NEW g \in Tokens
        PROVE  \A q \in Refreshing(g)' : q # r /\ q \in Refreshing(g) /\ job'[q] = job[q]
    <2>1. NoJob \in Job \cup {NoJob}
      OBVIOUS
    <2>2. /\ \A q \in Refreshing(g)' : q = r \/ (q \in Refreshing(g) /\ job'[q] = job[q])
          /\ job'[r] = NoJob
      BY <1>1, <2>1, RefreshingAfter
    <2>3. r \notin Refreshing(g)'
      BY <2>2 DEF Refreshing, At
    <2>4. QED
      BY <2>2, <2>3
  \* Nothing is of a family that begins.
  <1>4. ASSUME f = t
        PROVE  Refreshing(f) = {} /\ (\A u \in Tokens : ~ IsLiveOf(f, u))
    <2>1. \A u \in Tokens : ~ IsLiveOf(f, u)
      BY <1>4 DEF IsLiveOf, Live, TypeInv, KnownInv
    <2>2. ASSUME NEW q \in Refreshing(f) PROVE FALSE
      <3>1. q \in Requests /\ job[q] # NoJob /\ job[q].step \in TokenSteps
        BY <2>2 DEF Refreshing, At, TokenSteps
      <3>2. Exists(job[q].token) /\ job[q].token \in Tokens
        BY <3>1, JobAt DEF TypeInv, KnownInv
      <3>3. Exists(token[job[q].token].family)
        BY <3>2 DEF TypeInv, KnownInv
      <3>4. QED
        BY <1>4, <2>2, <3>3 DEF Refreshing
    <2>3. QED
      BY <2>1, <2>2
  <1>5. ASSUME TokenInv, "refresh" \notin overlaps'
        PROVE  (\A u \in Tokens : ~ IsLiveOf(f, u)) /\ Refreshing(f)' = {}
    <2>1. CASE f = t
      BY <1>3, <1>4, <2>1
    <2>2. CASE r \in Refreshing(f) /\ job[r].step = "renew"
      BY <1>3, <1>5, <2>2 DEF TokenInv
    <2>3. QED
      BY <2>1, <2>2
  <1>6. TokenInv => TokenInv'
    <2>1. ASSUME TokenInv, "refresh" \notin overlaps', NEW g \in Tokens
          PROVE  /\ \A q, s \in Refreshing(g)' : q = s
                 /\ \A u, w \in Tokens : IsLiveOf(g, u)' /\ IsLiveOf(g, w)' => u = w
                 /\ \A q \in Refreshing(g)', u \in Tokens :
                       IsLiveOf(g, u)' => u = job'[q].token /\ job'[q].step # "renew"
      <3>1. /\ \A q, s \in Refreshing(g) : q = s
            /\ \A u, w \in Tokens : IsLiveOf(g, u) /\ IsLiveOf(g, w) => u = w
            /\ \A q \in Refreshing(g), u \in Tokens :
                  IsLiveOf(g, u) => u = job[q].token /\ job[q].step # "renew"
        BY <2>1 DEF TokenInv
      <3>2. CASE g = f
        BY <1>2, <1>5, <2>1, <3>2
      <3>3. CASE g # f
        BY <1>2, <1>3, <3>1, <3>3
      <3>4. QED
        BY <3>2, <3>3
    <2>2. QED
      BY <2>1 DEF TokenInv
  <1>7. ASSUME NEW g \in Tokens, Exists(g), Over(g) PROVE Over(g)'
    <2>1. g # f
      <3>1. CASE f = t
        BY <1>7, <3>1
      <3>2. CASE r \in Refreshing(f)
        BY <1>7, <3>2 DEF Over
      <3>3. QED
        BY <3>1, <3>2
    <2>2. QED
      BY <1>2, <1>3, <1>7, <2>1 DEF Over
  <1>8. QED
    BY <1>6, <1>7

LEMMA NextKeepsTokens ==
    ASSUME TypeInv, [Next]_vars
    PROVE  (TokenInv => TokenInv') /\ \A g \in Tokens : Exists(g) /\ Over(g) => Over(g)'
  <1>1. ASSUME NEW r \in Requests, StartSession(r)
        PROVE  (TokenInv => TokenInv') /\ \A g \in Tokens : Exists(g) /\ Over(g) => Over(g)'
    <2>1. PICK t \in Tokens :
             /\ ~ Exists(t)
             /\ token' = [token EXCEPT ![t] = [family |-> t, revoked |-> FALSE, expired |-> FALSE]]
      BY <1>1 DEF StartSession
    <2>2. job' = [job EXCEPT ![r] = NoJob] /\ UNCHANGED <<overlaps>>
      BY <1>1 DEF StartSession, Done
    <2>3. PICK f \in Tokens : f = t
      OBVIOUS
    <2>4. token' = [token EXCEPT ![t] = [family |-> f, revoked |-> FALSE, expired |-> FALSE]]
      BY <2>1, <2>3
    <2>5. f = t \/ (r \in Refreshing(f) /\ job[r].step = "renew")
      BY <2>3
    <2>6. ~ Exists(t)
      BY <2>1
    <2>7. QED
      BY <2>2, <2>4, <2>5, <2>6, MakesToken
  <1>2. ASSUME NEW r \in Requests, CreateRefreshToken(r)
        PROVE  (TokenInv => TokenInv') /\ \A g \in Tokens : Exists(g) /\ Over(g) => Over(g)'
    <2>1. PICK t \in Tokens :
             /\ ~ Exists(t)
             /\ token' = [token EXCEPT ![t] = [family |-> token[job[r].token].family,
                                               revoked |-> FALSE, expired |-> FALSE]]
      BY <1>2 DEF CreateRefreshToken
    <2>2. job' = [job EXCEPT ![r] = NoJob] /\ UNCHANGED <<overlaps>>
      BY <1>2 DEF CreateRefreshToken, Done
    <2>3. job[r] # NoJob /\ job[r].step = "renew"
      BY <1>2 DEF CreateRefreshToken, At
    <2>4. token[job[r].token].family \in Tokens
      BY <2>3, JobAt DEF TokenSteps, Token
    <2>5. r \in Refreshing(token[job[r].token].family)
      BY <2>3 DEF Refreshing, At
    <2>6. QED
      BY <2>1, <2>2, <2>3, <2>4, <2>5, MakesToken
  <1>3. ASSUME \A r \in Requests : ~ StartSession(r) /\ ~ CreateRefreshToken(r)
        PROVE  (TokenInv => TokenInv') /\ \A g \in Tokens : Exists(g) /\ Over(g) => Over(g)'
    <2>1. \A t \in Tokens : /\ token[t] # None => token'[t].family = token[t].family
                            /\ Live(t)' => Live(t)
      BY <1>3, TokensOnly
    <2>2. overlaps \subseteq overlaps'
      BY CodesOnly
    <2>3. ASSUME NEW r \in Requests, CodeStep(r) \/ SessionStep(r) \/ Abort(r)
          PROVE  (TokenInv => TokenInv') /\ \A g \in Tokens : Exists(g) /\ Over(g) => Over(g)'
      <3>1. PICK newJob \in Job \cup {NoJob} :
               job' = [job EXCEPT ![r] = newJob] /\ Follows(r, newJob)
        BY <2>3, CodeStepFollows, SessionStepFollows
      <3>2. QED
        BY <2>1, <2>2, <3>1, SlotKeepsTokens
    <2>4. CASE UNCHANGED vars \/ (\E t \in Tokens : Logout(t)) \/ DeactivateMe \/ Time
      <3>1. UNCHANGED <<job, overlaps>>
        BY <2>4 DEF vars, Logout, DeactivateMe, Time, CodeExpires, TokenExpires
      <3>2. QED
        BY <2>1, <3>1, IdleKeepsTokens
    <2>5. QED
      BY <2>3, <2>4 DEF Next
  <1>4. QED
    BY <1>1, <1>2, <1>3

LEMMA TokensInit == Init => TokenInv
  <1> SUFFICES ASSUME Init PROVE TokenInv
    OBVIOUS
  <1>1. /\ \A f, t \in Tokens : ~ IsLiveOf(f, t)
        /\ \A f \in Tokens : Refreshing(f) = {}
    BY DEF Init, IsLiveOf, Live, Exists, Refreshing, At
  <1>2. QED
    BY <1>1 DEF TokenInv

\* However requests interleave and fail, at most one token of a family is
\* valid, unless two refreshes of the family overlap.
THEOREM RotationCorrect == Spec => []OneLiveToken
  <1>1. TypeInv /\ TokenInv => OneLiveToken
    BY DEF TypeInv, TypeOK, KnownInv, TokenInv, OneLiveToken, IsLiveOf, Live, Exists, Token
  <1>2. QED
    BY <1>1, TypeInit, TokensInit, NextKeepsType, NextKeepsTokens, PTL DEF Spec

LEMMA OpenOrOver ==
    ASSUME NEW f \in Tokens
    PROVE  /\ Over(f) <=> ~ Open(f)
           /\ Over(f)' <=> ~ Open(f)'
  BY DEF Over, Open, IsLiveOf

\* Reuse leaves nothing of a session that nobody is refreshing.
LEMMA ReuseEnds ==
    ASSUME TypeInv, NEW f \in Tokens, Ending(f), Refreshing(f) = {}
    PROVE  Over(f)'
  <1>1. PICK r \in Requests : RevokeRefreshTokenFamily(r) /\ token[job[r].token].family = f
    BY DEF Ending
  <1>2. \A t \in Tokens : /\ token[t] # None => token'[t].family = token[t].family
                          /\ Live(t)' => Live(t) /\ token[t].family # f
    BY <1>1, FamilyRevoked
  <1>3. job' = [job EXCEPT ![r] = NoJob] /\ NoJob \in Job \cup {NoJob}
    BY <1>1 DEF RevokeRefreshTokenFamily, Done
  <1>4. /\ \A q \in Refreshing(f)' : q = r \/ (q \in Refreshing(f) /\ job'[q] = job[q])
        /\ job'[r] = NoJob
    BY <1>2, <1>3, RefreshingAfter
  <1>5. r \notin Refreshing(f)'
    BY <1>4 DEF Refreshing
  <1>6. ASSUME NEW t \in Tokens PROVE ~ IsLiveOf(f, t)'
    <2>1. Live(t)' => token'[t].family = token[t].family /\ token[t].family # f
      BY <1>2 DEF Live, Exists
    <2>2. QED
      BY <2>1 DEF IsLiveOf
  <1>7. QED
    BY <1>4, <1>5, <1>6 DEF Over

\* Reuse ends a session that nobody is refreshing, and a session that has
\* ended, whichever way, is never taken up again.
THEOREM ReuseCorrect == Spec => EndedStaysEnded
  <1>1. ASSUME TypeInv, [Next]_vars
        PROVE  [\A f \in Tokens :
                  (Exists(f) /\ ~ Open(f)) \/ (Ending(f) /\ Refreshing(f) = {}) =>
                     ~ Open(f)']_vars
    <2>1. ASSUME NEW f \in Tokens, Exists(f), ~ Open(f) PROVE ~ Open(f)'
      BY <1>1, <2>1, NextKeepsTokens, OpenOrOver
    <2>2. ASSUME NEW f \in Tokens, Ending(f), Refreshing(f) = {} PROVE ~ Open(f)'
      BY <1>1, <2>2, ReuseEnds, OpenOrOver
    <2>3. QED
      BY <2>1, <2>2
  <1>2. QED
    BY <1>1, TypeInit, NextKeepsType, PTL DEF Spec, EndedStaysEnded

-----------------------------------------------------------------------------
(***************************************************************************)
(* A deleted user stays out.                                               *)
(***************************************************************************)

LEMMA NextKeepsDeleted ==
    ASSUME TypeInv, DeletedInv, [Next]_vars
    PROVE  DeletedInv'
  <1>1. ASSUME NEW r \in Requests, CodeStep(r) \/ SessionStep(r) \/ Abort(r)
        PROVE  DeletedInv'
    <2>1. PICK newJob \in Job \cup {NoJob} :
             job' = [job EXCEPT ![r] = newJob] /\ Follows(r, newJob)
      BY <1>1, CodeStepFollows, SessionStepFollows
    <2>2. /\ job'[r] = newJob
          /\ \A q \in Requests \ {r} : job'[q] = job[q]
      BY <2>1 DEF TypeInv, TypeOK
    <2>3. overtaken' = overtaken \/ (overtaken' = overtaken \ {r} /\ job'[r] = NoJob)
      BY <1>1, <2>2
      DEF CodeStep, SessionStep, Abort, RequestOTP, CountRecentOTPRequests, CreateOTPChallenge,
          VerifyOTP, IncrementOTPAttempt, ConsumeOTP, FindUser, CreateUser, StartSession,
          RefreshTokens, RevokeRefreshTokenFamily, CheckUser, RevokeRefreshToken,
          CreateRefreshToken, Done, Become, Goto, TypeInv, TypeOK
    <2>4. user' = user \/ user' = "kept"
      BY <1>1
      DEF CodeStep, SessionStep, Abort, RequestOTP, CountRecentOTPRequests, CreateOTPChallenge,
          VerifyOTP, IncrementOTPAttempt, ConsumeOTP, FindUser, CreateUser, StartSession,
          RefreshTokens, RevokeRefreshTokenFamily, CheckUser, RevokeRefreshToken,
          CreateRefreshToken
    <2>5. ASSUME user' = "deleted", newJob # NoJob, newJob.step \in {"start", "revoke", "renew"}
          PROVE  r \in overtaken
      <3>1. user = "deleted"
        BY <2>4, <2>5
      <3>2. newJob.step = "renew" /\ At(r, "revoke")
        BY <2>1, <2>5, <3>1 DEF Follows
      <3>3. QED
        BY <3>1, <3>2 DEF DeletedInv, At
    <2>6. QED
      BY <2>2, <2>3, <2>4, <2>5 DEF DeletedInv
  <1>2. CASE DeactivateMe
    BY <1>2 DEF DeactivateMe, DeletedInv, Free
  <1>3. CASE UNCHANGED vars \/ (\E t \in Tokens : Logout(t)) \/ Time
    <2>1. UNCHANGED <<user, job, overtaken>>
      BY <1>3 DEF vars, Logout, Time, CodeExpires, TokenExpires
    <2>2. QED
      BY <2>1 DEF DeletedInv
  <1>4. QED
    BY <1>1, <1>2, <1>3 DEF Next

\* A deleted user gets no new session and no new token, except from a request
\* that was in flight when the row was deleted.
THEOREM DeletionCorrect == Spec => DeletedStaysOut
  <1>1. Init => DeletedInv
    BY DEF Init, DeletedInv
  <1>2. DeletedInv /\ [Next]_vars =>
          [\A r \in Requests :
             user = "deleted" /\ (StartSession(r) \/ CreateRefreshToken(r)) => r \in overtaken]_vars
    BY DEF DeletedInv, StartSession, CreateRefreshToken, At
  <1>3. QED
    BY <1>1, <1>2, TypeInit, NextKeepsType, NextKeepsDeleted, PTL DEF Spec, DeletedStaysOut

-----------------------------------------------------------------------------
(***************************************************************************)
(* By how much the limits can be passed.                                   *)
(***************************************************************************)

\* The requests let past a check, after a slot has changed.
LEMMA SlotKeepsLimits ==
    ASSUME TypeInv, LimitsInv, NEW r \in Requests, NEW newJob \in Job \cup {NoJob},
           job' = [job EXCEPT ![r] = newJob], Follows(r, newJob),
           \A k \in Codes : code[k] = None <=> code'[k] = None,
           \A k \in Codes : code[k] # None => code'[k].attempts = code[k].attempts
    PROVE  LimitsInv'
  <1>1. /\ job'[r] = newJob
        /\ \A q \in Requests \ {r} : job'[q] = job[q]
    BY DEF TypeInv, TypeOK
  <1>2. Requested' = Requested
    BY DEF Requested
  <1>3. /\ Inserting' \subseteq Requests /\ IsFiniteSet(Inserting')
        /\ Inserting \subseteq Requests /\ IsFiniteSet(Inserting)
        /\ Cardinality(Inserting') \in Nat /\ Cardinality(Inserting) \in Nat
        /\ Cardinality(Inserting') <= Cardinality(Requests)
        /\ Cardinality(Requests) \in Nat
    BY FS_Subset, FS_CardinalityType DEF Inserting
  <1>4. Requested \subseteq Codes /\ IsFiniteSet(Requested) /\ Cardinality(Requested) \in Nat
    BY CodesNat, FS_Subset, FS_CardinalityType DEF Requested
  <1>5. Cardinality(Requested') + Cardinality(Inserting')
          < MaxPerDay + Cardinality(Requests)
    <2>1. CASE Inserting' \subseteq Inserting
      <3>1. Cardinality(Inserting') <= Cardinality(Inserting)
        BY <1>3, <2>1, FS_Subset
      <3>2. QED
        BY <1>2, <1>3, <1>4, <3>1 DEF LimitsInv
    <2>2. CASE ~ (Inserting' \subseteq Inserting)
      <3>1. newJob # NoJob /\ newJob.step = "insert"
        BY <1>1, <2>2 DEF Inserting, At
      <3>2. Cardinality(Requested) < MaxPerDay
        BY <3>1 DEF Follows
      <3>3. QED
        BY <1>2, <1>3, <1>4, <3>2
    <2>3. QED
      BY <2>1, <2>2
  <1>6. ASSUME NEW k \in Requested'
        PROVE  code'[k].attempts + Cardinality(Wrong(k)')
                 < MaxAttempts + Cardinality(Requests)
    <2>1. k \in Requested /\ k \in Codes /\ code'[k].attempts = code[k].attempts
      BY <1>2, <1>6 DEF Requested
    <2>2. code[k].attempts \in Nat
      BY <2>1 DEF Requested, TypeInv, TypeOK, Code
    <2>3. /\ Wrong(k)' \subseteq Requests /\ IsFiniteSet(Wrong(k)')
          /\ Wrong(k) \subseteq Requests /\ IsFiniteSet(Wrong(k))
          /\ Cardinality(Wrong(k)') \in Nat /\ Cardinality(Wrong(k)) \in Nat
          /\ Cardinality(Wrong(k)') <= Cardinality(Requests)
      BY FS_Subset, FS_CardinalityType DEF Wrong
    <2>4. CASE Wrong(k)' \subseteq Wrong(k)
      <3>1. Cardinality(Wrong(k)') <= Cardinality(Wrong(k))
        BY <2>3, <2>4, FS_Subset
      <3>2. QED
        BY <1>3, <2>1, <2>2, <2>3, <3>1 DEF LimitsInv
    <2>5. CASE ~ (Wrong(k)' \subseteq Wrong(k))
      <3>1. newJob # NoJob /\ newJob.step = "wrong" /\ newJob.code = k
        BY <1>1, <2>5 DEF Wrong, At
      <3>2. MayTry(newJob.code)
        BY <3>1 DEF Follows
      <3>3. code[k].attempts < MaxAttempts
        BY <3>1, <3>2 DEF MayTry
      <3>4. QED
        BY <1>3, <2>1, <2>2, <2>3, <3>3
    <2>6. QED
      BY <2>4, <2>5
  <1>7. QED
    BY <1>5, <1>6 DEF LimitsInv

LEMMA NextKeepsLimits ==
    ASSUME TypeInv, LimitsInv, [Next]_vars
    PROVE  LimitsInv'
  <1>t. code \in [Codes -> Code \cup {None}] /\ Cardinality(Requests) \in Nat
    BY FS_CardinalityType DEF TypeInv, TypeOK
  <1>1. ASSUME NEW r \in Requests, CreateOTPChallenge(r)
        PROVE  LimitsInv'
    <2>1. PICK k \in Codes \ Requested :
             code' = [code EXCEPT ![k] = [attempts |-> 0, active |-> TRUE]]
      BY <1>1 DEF CreateOTPChallenge
    <2>2. /\ job[r] # NoJob /\ job[r].step = "insert"
          /\ job' = [job EXCEPT ![r] = NoJob]
      BY <1>1 DEF CreateOTPChallenge, At, Done
    <2>3. /\ job'[r] = NoJob
          /\ \A q \in Requests \ {r} : job'[q] = job[q]
      BY <2>2 DEF TypeInv, TypeOK
    <2>4. [attempts |-> 0, active |-> TRUE] \in Code
      BY DEF Code
    <2>5. /\ code'[k] = [attempts |-> 0, active |-> TRUE] /\ code'[k] # None
          /\ \A l \in Codes \ {k} : code'[l] = code[l]
      BY <1>t, <2>1, <2>4
    <2>6. Requested' = Requested \cup {k}
      BY <2>1, <2>5 DEF Requested
    <2>7. Inserting' = Inserting \ {r} /\ r \in Inserting
      BY <2>2, <2>3 DEF Inserting, At
    <2>8. IsFiniteSet(Requested) /\ IsFiniteSet(Inserting)
      BY CodesNat, FS_Subset DEF Requested, Inserting
    <2>9. Cardinality(Requested') = Cardinality(Requested) + 1
      BY <2>1, <2>6, <2>8, FS_AddElement
    <2>10. Cardinality(Inserting') = Cardinality(Inserting) - 1
      BY <2>7, <2>8, FS_RemoveElement
    <2>11. Cardinality(Requested) \in Nat /\ Cardinality(Inserting) \in Nat
      BY <2>8, FS_CardinalityType
    <2>12. Cardinality(Requested') + Cardinality(Inserting') < MaxPerDay + Cardinality(Requests)
      BY <1>t, <2>9, <2>10, <2>11 DEF LimitsInv
    <2>13. ASSUME NEW l \in Requested'
           PROVE  code'[l].attempts + Cardinality(Wrong(l)') < MaxAttempts + Cardinality(Requests)
      <3>1. Wrong(l)' = Wrong(l)
        BY <2>2, <2>3 DEF Wrong, At
      <3>2. CASE l = k
        <4>1. ASSUME NEW q \in Wrong(k) PROVE FALSE
          BY <2>1, <4>1 DEF Wrong, At, CodeSteps, Requested, TypeInv, KnownInv
        <4>2. Wrong(k) = {} /\ Cardinality(Wrong(k)) = 0
          BY <4>1, FS_EmptySet
        <4>3. code'[k].attempts = 0
          BY <2>5
        <4>4. MaxAttempts + Cardinality(Requests) > 0
          BY <1>t
        <4>5. QED
          BY <3>1, <3>2, <4>2, <4>3, <4>4
      <3>3. CASE l # k
        <4>1. l \in Requested /\ code'[l] = code[l]
          BY <2>5, <2>6, <2>13, <3>3 DEF Requested
        <4>2. QED
          BY <3>1, <4>1 DEF LimitsInv
      <3>4. QED
        BY <3>2, <3>3
    <2>14. QED
      BY <2>12, <2>13 DEF LimitsInv
  <1>2. ASSUME NEW r \in Requests, IncrementOTPAttempt(r)
        PROVE  LimitsInv'
    <2>1. /\ job[r] # NoJob /\ job[r].step = "wrong"
          /\ job' = [job EXCEPT ![r] = NoJob]
      BY <1>2 DEF IncrementOTPAttempt, At, Done
    <2>2. job[r].code \in Codes /\ code[job[r].code] \in Code
      BY <2>1, JobAt DEF CodeSteps
    <2>3. PICK k \in Codes : k = job[r].code
      BY <2>2
    <2>4. /\ job'[r] = NoJob
          /\ \A q \in Requests \ {r} : job'[q] = job[q]
      BY <2>1 DEF TypeInv, TypeOK
    <2>5. PICK row : row = [code[k] EXCEPT !.attempts = code[k].attempts + 1]
      OBVIOUS
    <2>6. row \in Code /\ row.attempts = code[k].attempts + 1 /\ code[k].attempts \in Nat
      BY <2>2, <2>3, <2>5 DEF Code
    <2>7. code' = [code EXCEPT ![k] = row]
      BY <1>2, <2>3, <2>5 DEF IncrementOTPAttempt
    <2>8. /\ code'[k].attempts = code[k].attempts + 1 /\ code'[k] # None /\ code[k] # None
          /\ \A l \in Codes \ {k} : code'[l] = code[l]
      BY <1>t, <2>2, <2>3, <2>6, <2>7
    <2>9. Requested' = Requested
      BY <2>8 DEF Requested
    <2>10. Inserting' = Inserting
      BY <2>1, <2>4 DEF Inserting, At
    <2>11. ASSUME NEW l \in Requested'
           PROVE  code'[l].attempts + Cardinality(Wrong(l)') < MaxAttempts + Cardinality(Requests)
      <3>1. l \in Requested /\ l \in Codes
        BY <2>9, <2>11 DEF Requested
      <3>2. code[l].attempts + Cardinality(Wrong(l)) < MaxAttempts + Cardinality(Requests)
        BY <3>1 DEF LimitsInv
      <3>3. CASE l = k
        <4>1. Wrong(k)' = Wrong(k) \ {r} /\ r \in Wrong(k)
          BY <2>1, <2>3, <2>4 DEF Wrong, At
        <4>2. IsFiniteSet(Wrong(k))
          BY FS_Subset DEF Wrong
        <4>3. Cardinality(Wrong(k)') = Cardinality(Wrong(k)) - 1
          BY <4>1, <4>2, FS_RemoveElement
        <4>4. Cardinality(Wrong(k)) \in Nat
          BY <4>2, FS_CardinalityType
        <4>5. QED
          BY <1>t, <2>6, <2>8, <3>2, <3>3, <4>3, <4>4
      <3>4. CASE l # k
        <4>1. Wrong(l)' = Wrong(l)
          BY <2>1, <2>3, <2>4, <3>4 DEF Wrong, At
        <4>2. code'[l] = code[l]
          BY <2>8, <3>1, <3>4
        <4>3. QED
          BY <3>2, <4>1, <4>2
      <3>5. QED
        BY <3>3, <3>4
    <2>12. QED
      BY <2>9, <2>10, <2>11 DEF LimitsInv
  <1>3. ASSUME \A r \in Requests : ~ CreateOTPChallenge(r) /\ ~ IncrementOTPAttempt(r)
        PROVE  /\ \A k \in Codes : code[k] = None <=> code'[k] = None
               /\ \A k \in Codes : code[k] # None => code'[k].attempts = code[k].attempts
    <2>1. \A k \in Codes : code[k] = None <=> code'[k] = None
      BY <1>3, CodesOnly
    <2>2. \/ code' = code
          \/ \E r \in Requests : ConsumeOTP(r)
          \/ \E k \in Codes : CodeExpires(k)
      BY <1>3
      DEF Next, vars, CodeStep, SessionStep, Time, RequestOTP, CountRecentOTPRequests,
          VerifyOTP, FindUser, CreateUser,
          StartSession, RefreshTokens, RevokeRefreshTokenFamily, CheckUser, RevokeRefreshToken,
          CreateRefreshToken, Logout, DeactivateMe, TokenExpires, Abort
    <2>3. ASSUME NEW k \in Codes, code[k] # None, code' = [code EXCEPT ![k].active = FALSE]
          PROVE  \A l \in Codes : code[l] # None => code'[l].attempts = code[l].attempts
      <3>1. PICK row : row = [code[k] EXCEPT !.active = FALSE]
        OBVIOUS
      <3>2. row.attempts = code[k].attempts
        BY <1>t, <2>3, <3>1 DEF Code
      <3>3. code' = [code EXCEPT ![k] = row]
        BY <2>3, <3>1
      <3>4. QED
        BY <1>t, <3>2, <3>3
    <2>4. ASSUME NEW r \in Requests, ConsumeOTP(r)
          PROVE  \A l \in Codes : code[l] # None => code'[l].attempts = code[l].attempts
      <3>1. job[r].code \in Codes /\ code[job[r].code] # None
        BY <2>4, JobAt DEF ConsumeOTP, At, CodeSteps, TypeInv, KnownInv
      <3>2. QED
        BY <2>3, <2>4, <3>1 DEF ConsumeOTP
    <2>5. ASSUME NEW k \in Codes, CodeExpires(k)
          PROVE  \A l \in Codes : code[l] # None => code'[l].attempts = code[l].attempts
      BY <2>3, <2>5 DEF CodeExpires, Active, Requested
    <2>6. QED
      BY <2>1, <2>2, <2>4, <2>5
  <1>4. ASSUME NEW r \in Requests, CodeStep(r) \/ SessionStep(r) \/ Abort(r),
               \A q \in Requests : ~ CreateOTPChallenge(q) /\ ~ IncrementOTPAttempt(q)
        PROVE  LimitsInv'
    <2>1. PICK newJob \in Job \cup {NoJob} :
             job' = [job EXCEPT ![r] = newJob] /\ Follows(r, newJob)
      BY <1>4, CodeStepFollows, SessionStepFollows
    <2>2. QED
      BY <1>3, <1>4, <2>1, SlotKeepsLimits
  <1>5. CASE UNCHANGED vars \/ (\E t \in Tokens : Logout(t)) \/ DeactivateMe \/ Time
    <2>1. UNCHANGED job
      BY <1>5 DEF vars, Logout, DeactivateMe, Time, CodeExpires, TokenExpires
    <2>2. Inserting' = Inserting /\ \A k \in Codes : Wrong(k)' = Wrong(k)
      BY <2>1 DEF Inserting, Wrong, At
    <2>3. CASE \A q \in Requests : ~ CreateOTPChallenge(q) /\ ~ IncrementOTPAttempt(q)
      <3>1. /\ \A k \in Codes : code[k] = None <=> code'[k] = None
            /\ \A k \in Codes : code[k] # None => code'[k].attempts = code[k].attempts
        BY <1>3, <2>3
      <3>2. Requested' = Requested
        BY <3>1 DEF Requested
      <3>3. \A k \in Requested : k \in Codes /\ code'[k].attempts = code[k].attempts
        BY <3>1 DEF Requested
      <3>4. QED
        BY <2>2, <3>2, <3>3 DEF LimitsInv
    <2>4. QED
      BY <1>1, <1>2, <2>3
  <1>6. QED
    BY <1>1, <1>2, <1>4, <1>5 DEF Next

\* The daily cap and the limit of wrong attempts are passed by less than the
\* number of requests in flight at once.
THEOREM LimitsCorrect == Spec => []LimitsNearlyKept
  <1>1. Init => LimitsInv
    <2> SUFFICES ASSUME Init PROVE LimitsInv
      OBVIOUS
    <2>1. Requested = {} /\ Inserting = {}
      BY DEF Init, Requested, Inserting, At
    <2>2. Cardinality({}) = 0 /\ Cardinality(Requests) \in Nat
      BY FS_EmptySet, FS_CardinalityType
    <2>3. QED
      BY <2>1, <2>2 DEF LimitsInv
  <1>2. TypeInv /\ LimitsInv => LimitsNearlyKept
    <2> SUFFICES ASSUME TypeInv, LimitsInv PROVE LimitsNearlyKept
      OBVIOUS
    <2>1. IsFiniteSet(Inserting) /\ IsFiniteSet(Requested)
      BY CodesNat, FS_Subset DEF Inserting, Requested
    <2>2. /\ Cardinality(Inserting) \in Nat /\ Cardinality(Requested) \in Nat
          /\ Cardinality(Requests) \in Nat
      BY <2>1, FS_CardinalityType
    <2>3. Cardinality(Requested) < MaxPerDay + Cardinality(Requests)
      BY <2>2 DEF LimitsInv
    <2>4. ASSUME NEW k \in Requested
          PROVE  code[k].attempts < MaxAttempts + Cardinality(Requests)
      <3>1. code[k].attempts \in Nat
        BY DEF Requested, TypeInv, TypeOK, Code
      <3>2. IsFiniteSet(Wrong(k))
        BY FS_Subset DEF Wrong
      <3>3. Cardinality(Wrong(k)) \in Nat
        BY <3>2, FS_CardinalityType
      <3>4. QED
        BY <2>2, <3>1, <3>3 DEF LimitsInv
    <2>5. QED
      BY <2>3, <2>4 DEF LimitsNearlyKept
  <1>3. QED
    BY <1>1, <1>2, TypeInit, NextKeepsType, NextKeepsLimits, PTL DEF Spec
=============================================================================
