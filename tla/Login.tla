------------------------------- MODULE Login -------------------------------
(***************************************************************************)
(* The login of one phone number: OtpService (a cooldown lock and the hash *)
(* of the code in Redis, a row per code in PostgreSQL) and verifyOtp of    *)
(* AuthController, which consumes the code, creates the user at the first  *)
(* login and opens a session.  Time passes in units of the cooldown, 60    *)
(* seconds; a code lives for two of them.                                  *)
(***************************************************************************)
EXTENDS Naturals, Sequences, FiniteSets, PlatformFaults

CONSTANTS
  Codes,                \* the codes that can be generated or typed
  CodeRequests, Verifiers,  \* calls of otp/request and otp/verify
  MAX_ATTEMPTS,
  LastMinute, LastCode  \* bounds: how long an instance runs, how many codes it sends

ASSUME LoginAssumption ==
  /\ None \notin {"roleless", "member"}
  /\ MAX_ATTEMPTS \in Nat /\ LastMinute \in Nat /\ LastCode \in Nat
  /\ IsFiniteSet(CodeRequests) /\ IsFiniteSet(Verifiers)

VARIABLES
  minute,
  lockedUntil,     \* expiry of otp:lock:{phone}, 0 if it is not set
  fastPath,        \* otp:{phone}: a code and its expiry, or None
  attempts,        \* the otpAttempt rows, by creation
  requestAt, sent, \* what a request does next, and the row it has made
  verifier,        \* the submitted code, the hash read from Redis, the row found
  verifierAt,
  account,         \* the user's row: None, then whether it has the role member
  opened,          \* how many sessions a row has opened
  compared         \* how often a code was compared with a row

redisKeys == <<lockedUntil, fastPath>>
loginCalls == <<requestAt, sent, verifier, verifierAt>>
loginVars == <<minute, redisKeys, attempts, loginCalls, account, opened, compared, faults>>

\* "overlap": calls are under way together; "late": time passes while a call
\* is under way; "evict": Redis drops the code; "die": a call ends between two steps.
LoginFaults == {"overlap", "late", "evict", "die"}

OTP_LOCK == 1
OTP_TTL == 2
RowIds == 1 .. LastCode
Minutes == 0 .. LastMinute
Attempt == [code : Codes, expiresAt : OTP_TTL .. LastMinute + OTP_TTL,
            attempts : 0 .. MAX_ATTEMPTS + 1, consumed : BOOLEAN]
Idle == [code |-> None, hash |-> None, row |-> 0]

LoginTypeOK ==
  /\ minute \in Minutes
  /\ lockedUntil \in 0 .. LastMinute + OTP_LOCK
  /\ fastPath \in [code : Codes, until : 0 .. LastMinute + OTP_TTL] \cup {None}
  /\ attempts \in Seq(Attempt) /\ Len(attempts) <= LastCode
  /\ requestAt \in [CodeRequests -> {"idle", "create", "store"}]
  /\ sent \in [CodeRequests -> 0 .. LastCode]
  /\ verifier \in [Verifiers -> [code : Codes \cup {None}, hash : Codes \cup {None},
                                 row : 0 .. LastCode]]
  /\ verifierAt \in [Verifiers -> {"idle", "read", "find", "expired", "count", "consume",
                                   "mark", "user", "create", "role", "session"}]
  /\ account \in {None, "roleless", "member"}
  /\ opened \in [RowIds -> 0 .. Cardinality(Verifiers)]
  /\ compared \in [RowIds -> Nat]
  /\ faults \in FaultSets

LoginInit ==
  /\ minute = 0
  /\ lockedUntil = 0
  /\ fastPath = None
  /\ attempts = <<>>
  /\ requestAt = [r \in CodeRequests |-> "idle"]
  /\ sent = [r \in CodeRequests |-> 0]
  /\ verifier = [v \in Verifiers |-> Idle]
  /\ verifierAt = [v \in Verifiers |-> "idle"]
  /\ account = None
  /\ opened = [i \in RowIds |-> 0]
  /\ compared = [i \in RowIds |-> 0]
  /\ faults \in FaultSets

RequestTo(r, step) == requestAt' = [requestAt EXCEPT ![r] = step]
VerifierTo(v, step) == verifierAt' = [verifierAt EXCEPT ![v] = step]
EndVerify(v) == VerifierTo(v, "idle") /\ verifier' = [verifier EXCEPT ![v] = Idle]
NobodyBusy == /\ \A r \in CodeRequests : requestAt[r] = "idle"
              /\ \A v \in Verifiers : verifierAt[v] = "idle"
-----------------------------------------------------------------------------
(* generateAndStore *)

\* SET NX EX; a request that does not get the lock is refused and changes nothing.
AcquireLock(r) ==
  /\ requestAt[r] = "idle" /\ Len(attempts) < LastCode
  /\ "overlap" \in faults \/ NobodyBusy
  /\ lockedUntil <= minute
  /\ lockedUntil' = minute + OTP_LOCK
  /\ RequestTo(r, "create")
  /\ UNCHANGED <<minute, fastPath, attempts, sent, verifier, verifierAt, account, opened, compared,
                 faults>>

CreateAttempt(r) ==
  /\ requestAt[r] = "create" /\ Len(attempts) < LastCode
  /\ \E code \in Codes :
       attempts' = Append(attempts, [code |-> code, expiresAt |-> minute + OTP_TTL,
                                     attempts |-> 0, consumed |-> FALSE])
  /\ sent' = [sent EXCEPT ![r] = Len(attempts) + 1]
  /\ RequestTo(r, "store")
  /\ UNCHANGED <<minute, redisKeys, verifier, verifierAt, account, opened, compared, faults>>

\* Mutation of StoreCode: a code that is there already is kept.
StoreOnce(r) ==
  /\ requestAt[r] = "store"
  /\ fastPath' = IF fastPath = None
                 THEN [code |-> attempts[sent[r]].code, until |-> minute + OTP_TTL]
                 ELSE fastPath
  /\ RequestTo(r, "idle") /\ sent' = [sent EXCEPT ![r] = 0]
  /\ UNCHANGED <<minute, lockedUntil, attempts, verifier, verifierAt, account, opened, compared,
                 faults>>

\* The hash goes to Redis, and the code to the phone.
StoreCode(r) ==
  /\ requestAt[r] = "store"
  /\ fastPath' = [code |-> attempts[sent[r]].code, until |-> minute + OTP_TTL]
  /\ RequestTo(r, "idle") /\ sent' = [sent EXCEPT ![r] = 0]
  /\ UNCHANGED <<minute, lockedUntil, attempts, verifier, verifierAt, account, opened, compared,
                 faults>>
-----------------------------------------------------------------------------
(* verify *)

Unconsumed == {i \in 1 .. Len(attempts) : ~attempts[i].consumed}
Latest(S) == IF S = {} THEN 0 ELSE CHOOSE i \in S : \A j \in S : j <= i

BeginVerify(v, code) ==
  /\ verifierAt[v] = "idle"
  /\ "overlap" \in faults \/ NobodyBusy
  /\ verifier' = [verifier EXCEPT ![v].code = code]
  /\ VerifierTo(v, "read")
  /\ UNCHANGED <<minute, redisKeys, attempts, requestAt, sent, account, opened, compared, faults>>

ReadFastPath(v) ==
  /\ verifierAt[v] = "read"
  /\ verifier' = [verifier EXCEPT ![v].hash = IF fastPath = None THEN None ELSE fastPath.code]
  /\ VerifierTo(v, "find")
  /\ UNCHANGED <<minute, redisKeys, attempts, requestAt, sent, account, opened, compared, faults>>

\* The latest unconsumed row of the hash, or of the phone if Redis has none, and
\* whether it has expired.
FindAttempt(v) ==
  /\ verifierAt[v] = "find"
  /\ LET hash == verifier[v].hash
         row == Latest({i \in Unconsumed : hash # None => attempts[i].code = hash})
     IN IF row = 0 THEN EndVerify(v)
        ELSE /\ verifier' = [verifier EXCEPT ![v].row = row]
             /\ VerifierTo(v, IF attempts[row].expiresAt < minute THEN "expired" ELSE "count")
  /\ UNCHANGED <<minute, redisKeys, attempts, requestAt, sent, account, opened, compared, faults>>

\* Expired, or tried too often: the key is deleted and the call refused.
DropFastPath(v) ==
  /\ verifierAt[v] = "expired"
  /\ fastPath' = None
  /\ EndVerify(v)
  /\ UNCHANGED <<minute, lockedUntil, attempts, requestAt, sent, account, opened, compared, faults>>

\* The counter is incremented in the database before the code is compared.
CountAndCompare(v) ==
  /\ verifierAt[v] = "count"
  /\ LET row == verifier[v].row IN
     /\ attempts' = IF attempts[row].attempts <= MAX_ATTEMPTS
                    THEN [attempts EXCEPT ![row].attempts = @ + 1] ELSE attempts
     /\ IF attempts[row].attempts >= MAX_ATTEMPTS
        THEN VerifierTo(v, "expired") /\ UNCHANGED <<verifier, compared>>
        ELSE /\ compared' = [compared EXCEPT ![row] = @ + 1]
             /\ IF attempts[row].code = verifier[v].code
                THEN VerifierTo(v, "consume") /\ UNCHANGED verifier
                ELSE EndVerify(v)
  /\ UNCHANGED <<minute, redisKeys, requestAt, sent, account, opened, faults>>
-----------------------------------------------------------------------------
(* consume, and the rest of verifyOtp *)

DeleteKey(v) ==
  /\ verifierAt[v] = "consume"
  /\ fastPath' = None
  /\ VerifierTo(v, "mark")
  /\ UNCHANGED <<minute, lockedUntil, attempts, requestAt, sent, verifier, account, opened,
                 compared, faults>>

\* Mutation of MarkConsumed: the Redis key was all there was to consume.
MarkNothing(v) ==
  /\ verifierAt[v] = "mark"
  /\ VerifierTo(v, "user")
  /\ UNCHANGED <<minute, redisKeys, attempts, requestAt, sent, verifier, account, opened, compared,
                 faults>>

\* Every unconsumed row with the code; zero rows are no error.
MarkConsumed(v) ==
  /\ verifierAt[v] = "mark"
  /\ attempts' = [i \in 1 .. Len(attempts) |->
       [attempts[i] EXCEPT !.consumed = @ \/ attempts[i].code = verifier[v].code]]
  /\ VerifierTo(v, "user")
  /\ UNCHANGED <<minute, redisKeys, requestAt, sent, verifier, account, opened, compared, faults>>

\* findByPhone.
FindUser(v) ==
  /\ verifierAt[v] = "user"
  /\ VerifierTo(v, IF account = None THEN "create" ELSE "session")
  /\ UNCHANGED <<minute, redisKeys, attempts, requestAt, sent, verifier, account, opened,
                 compared, faults>>

\* Of two creations one is refused by the unique phone.
CreateUser(v) ==
  /\ verifierAt[v] = "create"
  /\ IF account = None
     THEN account' = "roleless" /\ VerifierTo(v, "role") /\ UNCHANGED verifier
     ELSE EndVerify(v) /\ UNCHANGED account
  /\ UNCHANGED <<minute, redisKeys, attempts, requestAt, sent, opened, compared, faults>>

AssignMember(v) ==
  /\ verifierAt[v] = "role"
  /\ account' = "member"
  /\ VerifierTo(v, "session")
  /\ UNCHANGED <<minute, redisKeys, attempts, requestAt, sent, verifier, opened, compared, faults>>

OpenSession(v) ==
  /\ verifierAt[v] = "session"
  /\ opened' = [opened EXCEPT ![verifier[v].row] = @ + 1]
  /\ EndVerify(v)
  /\ UNCHANGED <<minute, redisKeys, attempts, requestAt, sent, account, compared, faults>>

LoginDies ==
  /\ "die" \in faults
  /\ \/ /\ \E r \in CodeRequests : /\ requestAt[r] # "idle" /\ RequestTo(r, "idle")
                                /\ sent' = [sent EXCEPT ![r] = 0]
        /\ UNCHANGED <<verifier, verifierAt>>
     \/ /\ \E v \in Verifiers : verifierAt[v] # "idle" /\ EndVerify(v)
        /\ UNCHANGED <<requestAt, sent>>
  /\ UNCHANGED <<minute, redisKeys, attempts, account, opened, compared, faults>>
-----------------------------------------------------------------------------
\* A minute passes: the keys of Redis expire.
Tick ==
  /\ minute < LastMinute
  /\ "late" \in faults \/ NobodyBusy
  /\ minute' = minute + 1
  /\ fastPath' = IF fastPath # None /\ fastPath.until <= minute + 1 THEN None ELSE fastPath
  /\ UNCHANGED <<lockedUntil, attempts, loginCalls, account, opened, compared, faults>>

EvictCode ==
  /\ "evict" \in faults /\ fastPath # None
  /\ fastPath' = None
  /\ UNCHANGED <<minute, lockedUntil, attempts, loginCalls, account, opened, compared, faults>>

VerifyStep(v) ==
  \/ ReadFastPath(v) \/ FindAttempt(v) \/ DropFastPath(v) \/ CountAndCompare(v) \/ DeleteKey(v)
  \/ MarkConsumed(v) \/ FindUser(v) \/ CreateUser(v) \/ AssignMember(v) \/ OpenSession(v)

LoginNext ==
  \/ \E r \in CodeRequests : AcquireLock(r) \/ CreateAttempt(r) \/ StoreCode(r)
  \/ \E v \in Verifiers : (\E code \in Codes : BeginVerify(v, code)) \/ VerifyStep(v)
  \/ LoginDies \/ Tick \/ EvictCode

LoginSpec == LoginInit /\ [][LoginNext]_loginVars
-----------------------------------------------------------------------------
(* Properties *)

\* No code can be tried more often than MAX_ATTEMPTS times, however many calls are
\* under way: the counter is incremented before the comparison.
GuessesBounded == \A i \in RowIds : compared[i] <= MAX_ATTEMPTS

\* A code opens one session, also after a death between the two halves of consume,
\* unless two verifications overlap: both compare before either consumes.
CodeOpensOneSession == "overlap" \in faults \/ \A i \in RowIds : opened[i] <= 1

\* What is accepted has not expired, even when Redis lost the code or kept it (the
\* row of the database decides).
AcceptedIsFresh ==
  "late" \in faults \/ \A v \in Verifiers :
    verifierAt[v] = "consume" => attempts[verifier[v].row].expiresAt >= minute

\* However requests race, die or come late, there is one code per cooldown.
CodesAreSpaced == Len(attempts) <= minute + 1

Usable(i) ==
  /\ i > 0 /\ ~attempts[i].consumed
  /\ attempts[i].expiresAt >= minute /\ attempts[i].attempts < MAX_ATTEMPTS

\* Who types the code that was sent last gets in, whether or not Redis still has it,
\* if calls neither overlap nor die: a new code replaces the one before.
NewestCodeWorks ==
  [][faults \subseteq {"evict"} =>
       \A v \in Verifiers :
         (/\ verifierAt[v] # "idle" /\ verifierAt'[v] = "idle"
          /\ Usable(Len(attempts)) /\ \A r \in CodeRequests : requestAt[r] = "idle")
         => verifier[v].code # attempts[Len(attempts)].code]_loginVars

\* A user who can open a session has the role that onboarding needs, unless the
\* process died between the two writes of UsersService.create, or another call is
\* between them: a later login does not repair it.
UserCanOnboard ==
  /\ account = "roleless" => "die" \in faults \/ \E v \in Verifiers : verifierAt[v] = "role"
  /\ faults \subseteq {"late", "evict"} /\ (\E i \in RowIds : opened[i] > 0) => account = "member"

\* (core/otp/otp.service.ts, core/auth/auth.controller.ts) Whatever requests and
\* verifications race, die or come late: codes are spaced, guessed a bounded number of
\* times, accepted while they are fresh, and open one session, of a user with its role;
\* each but for the faults it names.
CodesAreSafe ==
  /\ LoginTypeOK /\ CodesAreSpaced /\ GuessesBounded
  /\ AcceptedIsFresh /\ CodeOpensOneSession /\ UserCanOnboard
=============================================================================
