------------------------------ MODULE Pipeline ------------------------------
(***************************************************************************)
(* What happens to a request around its handler: the guards, then          *)
(* AuditInterceptor, IdempotencyInterceptor and ResponseInterceptor, and   *)
(* AllExceptionsFilter for what is thrown.  An intent is one thing a       *)
(* client means to do; an attempt is one request for it.                   *)
(*                                                                         *)
(* IdempotencyInterceptor reads the cache, runs the handler and only then  *)
(* stores the answer, under the key alone: not under the user, and with    *)
(* nothing that marks a key as being worked on.                            *)
(***************************************************************************)
EXTENDS Naturals, PlatformFaults

CONSTANTS
  Intents, Attempts, Keys, Bodies, Persons,
  KeyOf,      \* the Idempotency-Key of an intent, or None
  BodyOf,     \* what computeRequestHash tells apart: method, url and body
  SubjectOf,  \* the user a request acts for, and who is behind it: the same
  PersonOf,   \* person, or the admin who impersonates the user
  NeededBy    \* the fault without which an intent does not occur, or None

ASSUME IntentAssumption ==
  /\ KeyOf \in [Intents -> Keys \cup {None}]
  /\ BodyOf \in [Intents -> Bodies]
  /\ SubjectOf \in [Intents -> Persons] /\ PersonOf \in [Intents -> Persons]
  /\ NeededBy \in [Intents -> {None, "collide", "reuse", "keyless"}]
  /\ None \notin Keys \cup Intents
ASSUME CacheAssumption == None \notin [hash : Bodies, of : Intents]
\* Keys are uuids: two intents share one only when clients make it so.
ASSUME KeyAssumption ==
  \A i, j \in Intents :
    i # j /\ KeyOf[i] = KeyOf[j] /\ BodyOf[i] = BodyOf[j]
      => NeededBy[i] = "collide" \/ NeededBy[j] = "collide"

VARIABLES
  performed,   \* how often effects of an intent were committed
  idem,        \* Redis idem:<key>: the request hash and the answer it was given
  tryOf,       \* the intent of an attempt, and what came out of it
  tryAt,       \* where an attempt is
  got,         \* what the client of an attempt received
  unwritten,   \* audit rows that are being written, not awaited by anyone
  auditLog     \* audit_logs

pipelineVars == <<performed, idem, tryOf, tryAt, got, unwritten, auditLog, faults>>

\* "overlap": a client repeats a request before it is answered; "die": the process
\* dies; "uncached": Redis fails; "expire": 24 hours pass; "collide": two clients use
\* one key for the same body; "reuse": a key is used for another body; "keyless": a
\* request has no key; "lose": an answer does not arrive; "mute": audit rows fail;
\* "sorts": errors are of every sort (of one, without it); "partial": a handler throws
\* after it has committed something.
PipelineFaults ==
  {"overlap", "die", "uncached", "expire", "collide", "reuse", "keyless", "lose", "mute", "sorts",
   "partial"}
-----------------------------------------------------------------------------
Http(status, code) == [class |-> "http", status |-> status, code |-> code]
KeyRequired == Http(400, "IDEMPOTENCY_KEY_REQUIRED")
KeyReused == Http(409, "IDEMPOTENCY_KEY_REUSED")
\* What the guards throw.
GuardErrors == {Http(429, None), Http(401, "UNAUTHORIZED"), Http(412, "ADMIN_CONFIRM_REQUIRED")}
\* What pipes and handlers throw: an HttpException with a code and without, what
\* ZodValidationPipe lets through, and what Prisma throws.
HandlerErrors ==
  {Http(409, "SLUG_TAKEN"), Http(410, "GONE"), Http(404, None), Http(413, None)}
    \cup [class : {"zod", "P2002", "P2025", "P2003", "unknown"}, status : {None}, code : {None}]
Errors == GuardErrors \cup HandlerErrors \cup {KeyRequired, KeyReused}
                      \cup {[class |-> "unknown", status |-> None, code |-> None]}

\* The codes of an answer.
ErrorCodes == {"VALIDATION_ERROR", "UNAUTHORIZED", "FORBIDDEN", "NOT_FOUND", "CONFLICT", "GONE",
          "RATE_LIMITED", "ADMIN_CONFIRM_REQUIRED", "INTERNAL_ERROR",
          "IDEMPOTENCY_KEY_REQUIRED", "IDEMPOTENCY_KEY_REUSED", "SLUG_TAKEN"}
ASSUME NoneAssumption == None \notin Errors \cup ErrorCodes \cup PipelineFaults

mapHttpToCode(status) ==
  IF status = 400 THEN "VALIDATION_ERROR"
  ELSE IF status = 401 THEN "UNAUTHORIZED"
  ELSE IF status = 403 THEN "FORBIDDEN"
  ELSE IF status = 404 THEN "NOT_FOUND"
  ELSE IF status = 409 THEN "CONFLICT"
  ELSE IF status = 410 THEN "GONE"
  ELSE IF status = 429 THEN "RATE_LIMITED"
  ELSE "INTERNAL_ERROR"

mapPrismaError(class) ==
  IF class \in {"P2002", "P2003"} THEN [status |-> 409, code |-> "CONFLICT"]
  ELSE IF class = "P2025" THEN [status |-> 404, code |-> "NOT_FOUND"]
  ELSE [status |-> 500, code |-> "INTERNAL_ERROR"]

\* unpackHttpResponse: the code of the thrower before that of the status.
mapHttpException(e) ==
  [status |-> e.status, code |-> IF e.code = None THEN mapHttpToCode(e.status) ELSE e.code]

\* AllExceptionsFilter.mapException: what the client is answered.
mapException(e) ==
  IF e.class = "zod" THEN [status |-> 400, code |-> "VALIDATION_ERROR"]
  ELSE IF e.class \in {"P2002", "P2003", "P2025"} THEN mapPrismaError(e.class)
  ELSE IF e.class = "http" THEN mapHttpException(e)
  ELSE [status |-> 500, code |-> "INTERNAL_ERROR"]

mapStatusToCode(status) ==
  IF status = 400 THEN "VALIDATION_ERROR"
  ELSE IF status = 401 THEN "UNAUTHORIZED"
  ELSE IF status = 403 THEN "FORBIDDEN"
  ELSE IF status = 404 THEN "NOT_FOUND"
  ELSE IF status = 409 THEN "CONFLICT"
  ELSE IF status = 412 THEN "ADMIN_CONFIRM_REQUIRED"
  ELSE IF status = 429 THEN "RATE_LIMITED"
  ELSE "INTERNAL_ERROR"

\* AuditInterceptor.classifyError: what the audit row keeps the hash of.
classifyError(e) ==
  IF e.class = "http"
  THEN [status |-> e.status, code |-> IF e.code = None THEN mapStatusToCode(e.status) ELSE e.code]
  ELSE [status |-> 500, code |-> "INTERNAL_ERROR"]

\* The errors of S that a behaviour meets.
Thrown(S, usual) == IF "sorts" \in faults THEN S ELSE {usual}
-----------------------------------------------------------------------------
NoTry == [intent |-> None, of |-> None, error |-> None]
\* Results: of names the intent whose execution is answered with.
Done(i) == [of |-> i, error |-> None]
Failed(e) == [of |-> None, error |-> e]
Results == [of : Intents, error : {None}] \cup [of : {None}, error : Errors]
\* What a client has: nothing yet, a broken connection, the envelope, or an error.
Answers == [what : {"nothing", "lost"}] \cup [what : {"success"}, of : Intents]
             \cup [what : {"error"}, status : Nat, code : ErrorCodes]
AuditRows == [attempt : Attempts, actor : Persons, failed : BOOLEAN, status : Nat, code : ErrorCodes \cup {""}]

PipelineTypeOK ==
  /\ performed \in [Intents -> Nat]
  /\ idem \in [Keys -> [hash : Bodies, of : Intents] \cup {None}]
  /\ tryOf \in [Attempts -> [intent : Intents, of : Intents \cup {None}, error : Errors \cup {None}]
                              \cup {NoTry}]
  /\ tryAt \in [Attempts -> {"idle", "guards", "cache", "handler", "store", "answer", "ended"}]
  /\ got \in [Attempts -> Answers]
  /\ unwritten \in SUBSET AuditRows
  /\ auditLog \in SUBSET AuditRows
  /\ faults \in FaultSets

PipelineInit ==
  /\ performed = [i \in Intents |-> 0]
  /\ idem = [k \in Keys |-> None]
  /\ tryOf = [a \in Attempts |-> NoTry]
  /\ tryAt = [a \in Attempts |-> "idle"]
  /\ got = [a \in Attempts |-> [what |-> "nothing"]]
  /\ unwritten = {}
  /\ auditLog = {}
  /\ faults \in FaultSets

IntentOf(a) == tryOf[a].intent
KeyUsed(a) == KeyOf[IntentOf(a)]
HashOf(a) == BodyOf[IntentOf(a)]
UnderWay(a) == tryAt[a] \notin {"idle", "ended"}
Attempted(i) == {a \in Attempts : IntentOf(a) = i}

TryTo(a, at) == tryAt' = [tryAt EXCEPT ![a] = at]
Yield(a, result) ==
  tryOf' = [tryOf EXCEPT ![a] = [intent |-> IntentOf(a), of |-> result.of, error |-> result.error]]
-----------------------------------------------------------------------------
Send(a, i) ==
  /\ tryAt[a] = "idle"
  /\ NeededBy[i] \in faults \cup {None}
  /\ "overlap" \in faults \/ \A b \in Attempted(i) : ~UnderWay(b)
  /\ tryOf' = [tryOf EXCEPT ![a] = [intent |-> i, of |-> None, error |-> None]]
  /\ TryTo(a, "guards")
  /\ UNCHANGED <<performed, idem, got, unwritten, auditLog, faults>>

\* What the client of an attempt receives: the envelope, or the filter's error.
Answer(result) ==
  LET error == mapException(result.error)
  IN IF result.error = None THEN [what |-> "success", of |-> result.of]
     ELSE [what |-> "error", status |-> error.status, code |-> error.code]

Receive(a, result) ==
  \E arrives \in IF "lose" \in faults THEN BOOLEAN ELSE {TRUE} :
    got' = [got EXCEPT ![a] = IF arrives THEN Answer(result) ELSE [what |-> "lost"]]

\* RateLimitGuard, JwtAuthGuard, PermissionGuard, AdminConfirmGuard: guards run
\* before every interceptor, so what they refuse is not audited.
TurnAway(a) ==
  /\ tryAt[a] = "guards"
  /\ \E e \in Thrown(GuardErrors, Http(429, None)) : Receive(a, Failed(e)) /\ Yield(a, Failed(e))
  /\ TryTo(a, "ended")
  /\ UNCHANGED <<performed, idem, unwritten, auditLog, faults>>

LetIn(a) ==
  /\ tryAt[a] = "guards"
  /\ TryTo(a, "cache")
  /\ UNCHANGED <<performed, idem, tryOf, got, unwritten, auditLog, faults>>

\* Mutation of ReadCache: a hit is answered whatever the body was.
ReadCacheByKey(a) ==
  /\ tryAt[a] = "cache"
  /\ IF KeyUsed(a) = None
     THEN Yield(a, Failed(KeyRequired)) /\ TryTo(a, "answer")
     ELSE LET cached == idem[KeyUsed(a)]
          IN IF cached = None THEN TryTo(a, "handler") /\ UNCHANGED tryOf
             ELSE Yield(a, Done(cached.of)) /\ TryTo(a, "answer")
  /\ UNCHANGED <<performed, idem, got, unwritten, auditLog, faults>>

ReadCache(a) ==
  /\ tryAt[a] = "cache"
  /\ IF KeyUsed(a) = None
     THEN Yield(a, Failed(KeyRequired)) /\ TryTo(a, "answer")
     ELSE LET cached == idem[KeyUsed(a)]
          IN \/ cached = None /\ TryTo(a, "handler") /\ UNCHANGED tryOf
             \/ /\ cached # None
                /\ Yield(a, IF cached.hash = HashOf(a) THEN Done(cached.of) ELSE Failed(KeyReused))
                /\ TryTo(a, "answer")
  /\ UNCHANGED <<performed, idem, got, unwritten, auditLog, faults>>

\* client.get throws.
CacheUnreachable(a) ==
  /\ "uncached" \in faults
  /\ tryAt[a] = "cache" /\ KeyUsed(a) # None
  /\ Yield(a, Failed([class |-> "unknown", status |-> None, code |-> None]))
  /\ TryTo(a, "answer")
  /\ UNCHANGED <<performed, idem, got, unwritten, auditLog, faults>>

\* Pipes and handler: what they do is committed, or they throw.  Some do both: refund
\* answers 422 when the debit fails after the gateway has paid back and the Refund row is
\* written, initiate 502 when the gateway fails after the Payment row is.  An error is
\* not stored, so that a retry is handled again.
Handle(a) ==
  /\ tryAt[a] = "handler"
  /\ \/ /\ performed' = [performed EXCEPT ![IntentOf(a)] = @ + 1]
        /\ Yield(a, Done(IntentOf(a)))
        /\ TryTo(a, "store")
     \/ /\ \E e \in Thrown(HandlerErrors, Http(409, "SLUG_TAKEN")) : Yield(a, Failed(e))
        /\ TryTo(a, "answer")
        /\ \/ UNCHANGED performed
           \/ "partial" \in faults /\ performed' = [performed EXCEPT ![IntentOf(a)] = @ + 1]
  /\ UNCHANGED <<idem, got, unwritten, auditLog, faults>>

\* Mutation of StoreAnswer: nothing is stored.
StoreNothing(a) ==
  /\ tryAt[a] = "store"
  /\ TryTo(a, "answer")
  /\ UNCHANGED <<performed, idem, tryOf, got, unwritten, auditLog, faults>>

\* client.set, whose failure is logged and forgotten.
StoreAnswer(a) ==
  /\ tryAt[a] = "store"
  /\ \/ idem' = [idem EXCEPT ![KeyUsed(a)] = [hash |-> HashOf(a), of |-> IntentOf(a)]]
     \/ "uncached" \in faults /\ UNCHANGED idem
  /\ TryTo(a, "answer")
  /\ UNCHANGED <<performed, tryOf, got, unwritten, auditLog, faults>>

Row(a, actor) ==
  LET result == tryOf[a]
      error == classifyError(result.error)
  IN IF result.error = None
     THEN [attempt |-> a, actor |-> actor, failed |-> FALSE, status |-> 0, code |-> ""]
     ELSE [attempt |-> a, actor |-> actor, failed |-> TRUE,
           status |-> error.status, code |-> error.code]

\* tap or catchError of AuditInterceptor, whose row nobody waits for, and then the
\* answer.
Respond(a) ==
  /\ tryAt[a] = "answer"
  /\ Receive(a, tryOf[a])
  /\ unwritten' = unwritten \cup {Row(a, PersonOf[IntentOf(a)])}
  /\ TryTo(a, "ended")
  /\ UNCHANGED <<performed, idem, tryOf, auditLog, faults>>

\* AuditService.log, which never throws.
log(r) ==
  /\ unwritten' = unwritten \ {r}
  /\ \/ auditLog' = auditLog \cup {r}
     \/ "mute" \in faults /\ UNCHANGED auditLog
  /\ UNCHANGED <<performed, idem, tryOf, tryAt, got, faults>>

\* EX IDEMPOTENCY_TTL_SECONDS.
ExpireAnswer(k) ==
  /\ "expire" \in faults
  /\ idem[k] # None
  /\ idem' = [idem EXCEPT ![k] = None]
  /\ UNCHANGED <<performed, tryOf, tryAt, got, unwritten, auditLog, faults>>

\* The process dies and is started again: what was under way is gone.
PipelineDies ==
  /\ "die" \in faults
  /\ \E a \in Attempts : UnderWay(a)
  /\ tryAt' = [a \in Attempts |-> IF UnderWay(a) THEN "ended" ELSE tryAt[a]]
  /\ got' = [a \in Attempts |-> IF UnderWay(a) THEN [what |-> "lost"] ELSE got[a]]
  /\ unwritten' = {}
  /\ UNCHANGED <<performed, idem, tryOf, auditLog, faults>>

AttemptStep(a) ==
  TurnAway(a) \/ LetIn(a) \/ ReadCache(a) \/ CacheUnreachable(a) \/ Handle(a)
    \/ StoreAnswer(a) \/ Respond(a)

PipelineNext ==
  \/ \E a \in Attempts : AttemptStep(a) \/ \E i \in Intents : Send(a, i)
  \/ \E r \in unwritten : log(r)
  \/ \E k \in Keys : ExpireAnswer(k)
  \/ PipelineDies

PipelineSpec == PipelineInit /\ [][PipelineNext]_pipelineVars
-----------------------------------------------------------------------------
Told == {i \in Intents : \E a \in Attempted(i) : got[a].what = "success"}

Once == INSTANCE AtMostOnce WITH Intents <- Intents, performed <- performed, told <- Told

\* What defeats an Idempotency-Key: the answer is stored only after the handler and only
\* if it is one of success, may fail to be stored and expires, and the cache is not
\* scoped by user.
Defeats == {"overlap", "die", "uncached", "expire", "collide", "partial"}

\* (common/interceptors/idempotency.interceptor.ts; refinement) However requests are
\* repeated, lost and refused, and keys reused for other bodies, an intent is done at
\* most once and its client told of success only then; what defeats the key is named.
ImplementsAtMostOnce ==
  Once!Init /\ [][Defeats \cap faults # {} \/ Once!Next]_<<performed, Told>>

\* (idempotency.interceptor.ts:105-115) Whatever fails or overlaps, an answer of
\* success is that of an execution of the same key, method, url and body; without
\* colliding clients, of this very intent.
AnswerIsOwn ==
  \A a \in Attempts :
    got[a].what = "success" =>
      /\ performed[got[a].of] > 0
      /\ BodyOf[got[a].of] = HashOf(a) /\ KeyOf[got[a].of] = KeyUsed(a)
      /\ "collide" \in faults \/ got[a].of = IntentOf(a)

\* (common/interceptors/audit.interceptor.ts:43-47) A row names the person behind the
\* request, never the user an admin acts for, and tells failure from success as the
\* client was told; no request has two rows.
AuditIsTrue ==
  \A r \in auditLog :
    /\ r.actor = PersonOf[IntentOf(r.attempt)]
    /\ got[r.attempt].what # "lost" => r.failed = (got[r.attempt].what = "error")
    /\ \A other \in auditLog : other.attempt = r.attempt => other = r

\* (audit.interceptor.ts:131-150, common/filters/all-exceptions.filter.ts:66-87) The
\* code and status an HttpException is recorded with are those the client saw.  What
\* Zod and Prisma throw is recorded as a 500 whatever the client saw.
CodesAgree ==
  \A r \in auditLog :
    r.failed /\ got[r.attempt].what # "lost" /\ tryOf[r.attempt].error.class = "http" =>
      r.code = got[r.attempt].code /\ r.status = got[r.attempt].status

\* (app.module.ts:62-70) Every request that the guards let in has its row written or
\* under way once it is answered, a cache hit and a refusal too, unless the process dies
\* or the table cannot be written.
EveryAttemptIsAudited ==
  faults \cap {"die", "mute"} = {} =>
    \A a \in Attempts : tryAt[a] = "ended" /\ tryOf[a].error \notin GuardErrors =>
      \E r \in unwritten \cup auditLog : r.attempt = a

\* (common/interceptors, common/filters) Answers, effects and audit rows agree: who is told
\* of success is told of an execution of the same key and body, a row names who did it and
\* what came of it with the code the client saw, and no request goes without one.
RequestsAgree ==
  PipelineTypeOK /\ AnswerIsOwn /\ AuditIsTrue /\ CodesAgree /\ EveryAttemptIsAudited
=============================================================================
