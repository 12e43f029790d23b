---------------------------- MODULE PlatformProofs ----------------------------
(***************************************************************************)
(* Proofs about the platform's own services, which serve every module: the *)
(* request pipeline, its rate limiter, the notifications, the users and    *)
(* their rights, the files, the module loader and the lists. Each is       *)
(* proved from its own specification; their sections are independent of    *)
(* each other.                                                             *)
(***************************************************************************)
EXTENDS Pipeline, RateLimit, Notifications, Accounts, Files, ModuleLoader, Pages, SequenceTheorems, SumProofs, TLAPS

(***************************************************************************)
(* Pipeline, for every set of intents, keys, bodies, attempts and faults.  *)
(* PipelineInv says, for each place an attempt may be at, what came out of *)
(* it so far, and of which executions the cached answers are: with it an   *)
(* answer is that of an execution of the same key and body, and an audit   *)
(* row tells what its request came to. OnceInv is what holds in addition   *)
(* when nothing defeats the keys: one attempt of an intent at a time, and  *)
(* an intent that was done is in the cache or about to be stored. With     *)
(* both, each step is a step of AtMostOnce.                                *)
(***************************************************************************)
\* What came out of an attempt, by the place it is at.
PlacesAgree ==
  \A a \in Attempts :
    /\ tryAt[a] = "idle" <=> tryOf[a] = NoTry
    /\ tryAt[a] # "ended" => got[a] = [what |-> "nothing"]
    /\ tryAt[a] \in {"guards", "cache", "handler"} => tryOf[a].of = None /\ tryOf[a].error = None
    /\ tryAt[a] \in {"handler", "store"} => KeyUsed(a) # None
    /\ tryAt[a] = "store" => tryOf[a].of = IntentOf(a) /\ tryOf[a].error = None
    /\ tryAt[a] = "answer" => (tryOf[a].error = None <=> tryOf[a].of # None)
    /\ got[a].what = "success" => tryOf[a].of # None /\ got[a].of = tryOf[a].of

\* Intent i has been executed, and no client needed a fault for it that there is not.
WasDone(i) == performed[i] > 0 /\ NeededBy[i] \in faults \cup {None}

\* Cached answers, and those that attempts were given, are of executions of the same key
\* and body.
CachedAgrees(k) ==
  idem[k] # None =>
    WasDone(idem[k].of) /\ BodyOf[idem[k].of] = idem[k].hash /\ KeyOf[idem[k].of] = k
GivenAgrees(a) ==
  /\ tryAt[a] # "idle" => NeededBy[IntentOf(a)] \in faults \cup {None}
  /\ tryOf[a].of # None =>
       /\ WasDone(tryOf[a].of)
       /\ BodyOf[tryOf[a].of] = HashOf(a) /\ KeyOf[tryOf[a].of] = KeyUsed(a)
AnswersAreOfExecutions ==
  (\A k \in Keys : CachedAgrees(k)) /\ (\A a \in Attempts : GivenAgrees(a))

\* An audit row is what Row makes of its attempt, which has been answered so.
RowAgrees(r) ==
  LET result == tryOf[r.attempt]
      answer == got[r.attempt]
  IN /\ r.attempt \in Attempts /\ tryAt[r.attempt] = "ended"
     /\ r = Row(r.attempt, PersonOf[IntentOf(r.attempt)])
     /\ answer.what # "lost" =>
          /\ answer.what = IF result.error = None THEN "success" ELSE "error"
          /\ result.error # None =>
               /\ answer.code = mapException(result.error).code
               /\ answer.status = mapException(result.error).status
RowsAgree == \A r \in unwritten \cup auditLog : RowAgrees(r)

PipelineInv == PipelineTypeOK /\ PlacesAgree /\ AnswersAreOfExecutions /\ RowsAgree

\* With nothing that defeats the keys.
NoneOverlaps ==
  \A a, b \in Attempts : UnderWay(a) /\ UnderWay(b) /\ IntentOf(a) = IntentOf(b) => a = b
DoneIsKnown ==
  \A i \in Intents :
    /\ performed[i] \in {0, 1}
    /\ performed[i] = 1 =>
         \/ KeyOf[i] \in Keys /\ idem[KeyOf[i]] # None
         \/ \E a \in Attempts : tryAt[a] = "store" /\ IntentOf(a) = i
HandledIsNew == \A a \in Attempts : tryAt[a] = "handler" => performed[IntentOf(a)] = 0

OnceInv == Defeats \cap faults = {} => NoneOverlaps /\ DoneIsKnown /\ HandledIsNew
-----------------------------------------------------------------------------
(* What the filter makes of an error.                                        *)
LEMMA ErrorsAreMapped ==
  ASSUME NEW e \in Errors
  PROVE  /\ mapException(e).status \in Nat /\ mapException(e).code \in ErrorCodes
         /\ classifyError(e).status \in Nat /\ classifyError(e).code \in ErrorCodes
         /\ e.class = "http" => mapException(e) = classifyError(e)
<1> DEFINE Sort == e.class  Status == e.status  Code == e.code
<1>1. /\ Sort \in {"http", "zod", "P2002", "P2025", "P2003", "unknown"}
      /\ Sort = "http" =>
           /\ Status \in {400, 401, 404, 409, 410, 412, 413, 429}
           /\ Code = None => Status \in {404, 413, 429}
           /\ Code # None => Code \in ErrorCodes
  <2>1. CASE e \in [class : {"zod", "P2002", "P2025", "P2003", "unknown"},
                   status : {None}, code : {None}]
    BY <2>1
  <2>2. ASSUME NEW s, NEW c, e = Http(s, c) PROVE Sort = "http" /\ Status = s /\ Code = c
    BY <2>2 DEF Http
  <2>3. CASE e \in {Http(429, None), Http(404, None), Http(413, None)}
    BY <2>2, <2>3
  <2>4. CASE e \in {Http(401, "UNAUTHORIZED"), Http(412, "ADMIN_CONFIRM_REQUIRED"),
                   Http(409, "SLUG_TAKEN"), Http(410, "GONE"), KeyRequired, KeyReused}
    <3>1. Sort = "http" /\ Status \in {400, 401, 409, 410, 412} /\ Code \in ErrorCodes
      BY <2>2, <2>4 DEF KeyRequired, KeyReused, ErrorCodes
    <3>2. QED
      BY <3>1, NoneAssumption
  <2>5. QED
    BY <2>1, <2>3, <2>4 DEF Errors, GuardErrors, HandlerErrors
<1> HIDE DEF Sort, Status, Code
<1>2. ASSUME NEW s PROVE mapHttpToCode(s) \in ErrorCodes /\ mapStatusToCode(s) \in ErrorCodes
  BY DEF mapHttpToCode, mapStatusToCode, ErrorCodes
<1>3. Status \in {404, 413, 429} => mapHttpToCode(Status) = mapStatusToCode(Status)
  BY DEF mapHttpToCode, mapStatusToCode
<1>4. mapException(e) =
        IF Sort = "zod" THEN [status |-> 400, code |-> "VALIDATION_ERROR"]
        ELSE IF Sort \in {"P2002", "P2003", "P2025"} THEN mapPrismaError(Sort)
        ELSE IF Sort = "http"
        THEN [status |-> Status, code |-> IF Code = None THEN mapHttpToCode(Status) ELSE Code]
        ELSE [status |-> 500, code |-> "INTERNAL_ERROR"]
  BY DEF mapException, mapHttpException, Sort, Status, Code
<1>5. classifyError(e) =
        IF Sort = "http"
        THEN [status |-> Status, code |-> IF Code = None THEN mapStatusToCode(Status) ELSE Code]
        ELSE [status |-> 500, code |-> "INTERNAL_ERROR"]
  BY DEF classifyError, Sort, Status, Code
<1>6. CASE Sort = "http"
  BY <1>1, <1>2, <1>3, <1>4, <1>5, <1>6 DEF Sort
<1>7. CASE Sort # "http"
  <2>1. mapPrismaError(Sort) \in [status : {404, 409, 500}, code : ErrorCodes]
    BY DEF mapPrismaError, ErrorCodes
  <2>2. QED
    BY <1>1, <1>4, <1>5, <1>7, <2>1 DEF Sort, ErrorCodes
<1>8. QED
  BY <1>6, <1>7

(* What an audit row keeps of an attempt.                                    *)
LEMMA RowsAre ==
  ASSUME NEW a, NEW actor
  PROVE  LET row == Row(a, actor)
         IN /\ row.attempt = a /\ row.actor = actor /\ row.failed = (tryOf[a].error # None)
            /\ row.failed => /\ tryOf[a].error # None
                             /\ row.code = classifyError(tryOf[a].error).code
                             /\ row.status = classifyError(tryOf[a].error).status
<1>1. CASE tryOf[a].error = None
  BY <1>1 DEF Row
<1>2. CASE tryOf[a].error # None
  BY <1>2 DEF Row
<1>3. QED
  BY <1>1, <1>2

LEMMA InitPipelineInv == PipelineInit => PipelineInv /\ OnceInv
<1> SUFFICES ASSUME PipelineInit PROVE PipelineInv /\ OnceInv
  OBVIOUS
<1> USE DEF PipelineInit
<1>1. PipelineTypeOK
  BY DEF PipelineTypeOK, Answers
<1>2. PlacesAgree
  BY DEF PlacesAgree, NoTry
<1>3. AnswersAreOfExecutions /\ RowsAgree
  BY DEF AnswersAreOfExecutions, CachedAgrees, GivenAgrees, RowsAgree, NoTry
<1>4. OnceInv
  BY DEF OnceInv, NoneOverlaps, DoneIsKnown, HandledIsNew, UnderWay
<1>5. QED
  BY <1>1, <1>2, <1>3, <1>4 DEF PipelineInv
-----------------------------------------------------------------------------
(* A step of one attempt leaves the rows of the others as they are.          *)
LEMMA OthersKeepRows ==
  ASSUME RowsAgree, NEW a \in Attempts, tryAt[a] # "ended",
         \A b \in Attempts \ {a} :
           tryOf'[b] = tryOf[b] /\ tryAt'[b] = tryAt[b] /\ got'[b] = got[b],
         UNCHANGED <<unwritten, auditLog>>
  PROVE  RowsAgree'
<1> SUFFICES ASSUME NEW r \in unwritten \cup auditLog PROVE RowAgrees(r)'
  BY DEF RowsAgree
<1> DEFINE b == r.attempt
<1>1. RowAgrees(r)
  BY DEF RowsAgree
<1>2. b \in Attempts \ {a}
  BY <1>1 DEF RowAgrees
<1>3. tryOf'[b] = tryOf[b] /\ tryAt'[b] = tryAt[b] /\ got'[b] = got[b]
  BY <1>2
<1>4. QED
  BY <1>1, <1>3 DEF RowAgrees, Row, IntentOf

(* What an attempt that ends is answered is an answer.                       *)
LEMMA AnswersAreTyped ==
  ASSUME NEW x, x.error = None => x.of \in Intents, x.error # None => x.error \in Errors
  PROVE  /\ Answer(x) \in Answers
         /\ Answer(x).what = IF x.error = None THEN "success" ELSE "error"
         /\ x.error = None => Answer(x).of = x.of
         /\ x.error # None => /\ Answer(x).code = mapException(x.error).code
                              /\ Answer(x).status = mapException(x.error).status
<1>1. CASE x.error = None
  BY <1>1 DEF Answer, Answers
<1>2. CASE x.error # None
  BY <1>2, ErrorsAreMapped DEF Answer, Answers
<1>3. QED
  BY <1>1, <1>2

(* What its client receives is that, or nothing.                             *)
LEMMA Received ==
  ASSUME NEW a \in Attempts, NEW x, Receive(a, x),
         x.error = None => x.of \in Intents, x.error # None => x.error \in Errors
  PROVE  \E g \in Answers : /\ got' = [got EXCEPT ![a] = g]
                            /\ g.what # "lost" => g = Answer(x)
<1>1. PICK arrives \in BOOLEAN :
             got' = [got EXCEPT ![a] = IF arrives THEN Answer(x) ELSE [what |-> "lost"]]
  BY DEF Receive
<1> DEFINE g == IF arrives THEN Answer(x) ELSE [what |-> "lost"]
<1>2. g \in Answers
  BY AnswersAreTyped DEF Answers
<1>3. g.what # "lost" => g = Answer(x)
  OBVIOUS
<1>4. got' = [got EXCEPT ![a] = g]
  BY <1>1
<1> HIDE DEF g
<1>5. QED
  BY <1>2, <1>3, <1>4

LEMMA SendKeepsInv ==
  ASSUME PipelineInv, NEW a \in Attempts, NEW i \in Intents, Send(a, i)
  PROVE  PipelineInv'
<1> USE DEF PipelineInv, Send, TryTo
<1> DEFINE new == [intent |-> i, of |-> None, error |-> None]
<1>1. new # NoTry
  BY IntentAssumption DEF NoTry
<1>2. PipelineTypeOK'
  BY DEF PipelineTypeOK
<1>3. PlacesAgree'
  BY <1>1, IntentAssumption DEF PipelineTypeOK, PlacesAgree, KeyUsed, IntentOf
<1>4. AnswersAreOfExecutions'
  BY IntentAssumption DEF PipelineTypeOK, PlacesAgree, AnswersAreOfExecutions, CachedAgrees, GivenAgrees, WasDone, KeyUsed, IntentOf, HashOf
<1>5. RowsAgree'
  BY OthersKeepRows DEF PipelineTypeOK
<1>6. QED
  BY <1>2, <1>3, <1>4, <1>5

LEMMA TurnAwayKeepsInv ==
  ASSUME PipelineInv, NEW a \in Attempts, TurnAway(a)
  PROVE  PipelineInv'
<1> USE DEF PipelineInv, TryTo
<1>1. PICK e \in GuardErrors : Receive(a, Failed(e)) /\ Yield(a, Failed(e))
  BY DEF TurnAway, Thrown, GuardErrors
<1>2. e \in Errors /\ e # None
  BY NoneAssumption DEF Errors
<1> DEFINE result == Failed(e)
<1>3. result.of = None /\ result.error = e
  BY DEF Failed
<1>4. PICK g \in Answers : /\ got' = [got EXCEPT ![a] = g]
                           /\ g.what # "lost" => g = Answer(result)
  BY <1>1, <1>2, <1>3, Received
<1> HIDE DEF result
<1>14. g.what # "success"
  BY <1>2, <1>3, <1>4, AnswersAreTyped
<1>5. tryOf' = [tryOf EXCEPT ![a] = [intent |-> IntentOf(a), of |-> None, error |-> e]]
  BY <1>1, <1>3 DEF Yield, result
<1>6. tryAt[a] = "guards" /\ tryAt' = [tryAt EXCEPT ![a] = "ended"]
  BY DEF TurnAway
<1>7. IntentOf(a) \in Intents
  BY <1>6 DEF PipelineTypeOK, PlacesAgree, IntentOf
<1>8. UNCHANGED <<performed, idem, unwritten, auditLog, faults>>
  BY DEF TurnAway
<1>9. PipelineTypeOK'
  BY <1>2, <1>4, <1>5, <1>6, <1>7, <1>8 DEF PipelineTypeOK
<1>10. PlacesAgree'
  BY <1>2, <1>4, <1>14, <1>5, <1>6, <1>7, <1>8, IntentAssumption
  DEF PipelineTypeOK, PlacesAgree, KeyUsed, IntentOf, NoTry
<1>11. AnswersAreOfExecutions'
  BY <1>2, <1>5, <1>6, <1>7, <1>8
  DEF PipelineTypeOK, AnswersAreOfExecutions, CachedAgrees, GivenAgrees, WasDone, KeyUsed, IntentOf, HashOf
<1>12. RowsAgree'
  BY <1>4, <1>5, <1>6, <1>8, OthersKeepRows DEF PipelineTypeOK
<1>13. QED
  BY <1>9, <1>10, <1>11, <1>12

(* An attempt at the cache is answered, or goes on to the handler.           *)
LEMMA AtCacheKeepsInv ==
  ASSUME PipelineInv, NEW a \in Attempts, LetIn(a) \/ ReadCache(a) \/ CacheUnreachable(a)
  PROVE  PipelineInv'
<1> USE DEF PipelineInv, TryTo
<1>1. CASE LetIn(a)
  <2> USE <1>1 DEF LetIn
  <2>1. PipelineTypeOK'
    BY DEF PipelineTypeOK
  <2>2. PlacesAgree' /\ AnswersAreOfExecutions'
    BY DEF PipelineTypeOK, PlacesAgree, AnswersAreOfExecutions, CachedAgrees, GivenAgrees, WasDone, KeyUsed, IntentOf, HashOf
  <2>3. RowsAgree'
    BY OthersKeepRows DEF PipelineTypeOK
  <2>4. QED
    BY <2>1, <2>2, <2>3
<1>2. ASSUME tryAt[a] = "cache", KeyUsed(a) # None, idem[KeyUsed(a)] = None, TryTo(a, "handler"),
             UNCHANGED <<performed, idem, tryOf, got, unwritten, auditLog, faults>>
      PROVE  PipelineInv'
  <2>1. PipelineTypeOK'
    BY <1>2 DEF PipelineTypeOK
  <2>2. PlacesAgree' /\ AnswersAreOfExecutions'
    BY <1>2
    DEF PipelineTypeOK, PlacesAgree, AnswersAreOfExecutions, CachedAgrees, GivenAgrees, WasDone, KeyUsed, IntentOf, HashOf
  <2>3. RowsAgree'
    BY <1>2, OthersKeepRows DEF PipelineTypeOK
  <2>4. QED
    BY <2>1, <2>2, <2>3
<1>3. ASSUME tryAt[a] = "cache", NEW of \in Intents \cup {None}, NEW error \in Errors \cup {None},
             error = None <=> of # None,
             of # None =>
               WasDone(of) /\ BodyOf[of] = HashOf(a) /\ KeyOf[of] = KeyUsed(a),
             tryOf' = [tryOf EXCEPT ![a] = [intent |-> IntentOf(a), of |-> of, error |-> error]],
             TryTo(a, "answer"),
             UNCHANGED <<performed, idem, got, unwritten, auditLog, faults>>
      PROVE  PipelineInv'
  <2>1. IntentOf(a) \in Intents
    BY <1>3 DEF PipelineTypeOK, PlacesAgree, IntentOf
  <2>2. PipelineTypeOK'
    BY <1>3, <2>1 DEF PipelineTypeOK
  <2>3. PlacesAgree'
    BY <1>3, <2>1, IntentAssumption DEF PipelineTypeOK, PlacesAgree, KeyUsed, IntentOf, NoTry
  <2>4. AnswersAreOfExecutions'
    BY <1>3, <2>1
    DEF PipelineTypeOK, PlacesAgree, AnswersAreOfExecutions, CachedAgrees, GivenAgrees, WasDone, KeyUsed, IntentOf, HashOf
  <2>5. RowsAgree'
    BY <1>3, OthersKeepRows DEF PipelineTypeOK
  <2>6. QED
    BY <2>2, <2>3, <2>4, <2>5
<1>4. ASSUME NEW e \in Errors, Yield(a, Failed(e)), TryTo(a, "answer"), tryAt[a] = "cache",
             UNCHANGED <<performed, idem, got, unwritten, auditLog, faults>>
      PROVE  PipelineInv'
  <2>1. tryOf' = [tryOf EXCEPT ![a] = [intent |-> IntentOf(a), of |-> None, error |-> e]]
    BY <1>4 DEF Yield, Failed
  <2>2. QED
    BY <1>3, <1>4, <2>1, NoneAssumption
<1>5. CASE CacheUnreachable(a)
  BY <1>4, <1>5 DEF CacheUnreachable, Errors
<1>6. CASE ReadCache(a)
  <2> USE <1>6 DEF ReadCache
  <2>1. CASE KeyUsed(a) = None
    BY <1>4, <2>1 DEF Errors
  <2> DEFINE cached == idem[KeyUsed(a)]
  <2>2. CASE KeyUsed(a) # None /\ cached = None
    BY <1>2, <2>2
  <2>3. CASE KeyUsed(a) # None /\ cached # None
    <3>1. KeyUsed(a) \in Keys
      BY <2>3, IntentAssumption DEF PipelineTypeOK, PlacesAgree, KeyUsed, IntentOf
    <3>2. /\ cached.of \in Intents /\ cached.of # None /\ WasDone(cached.of)
          /\ BodyOf[cached.of] = cached.hash /\ KeyOf[cached.of] = KeyUsed(a)
      BY <2>3, <3>1, IntentAssumption DEF PipelineTypeOK, AnswersAreOfExecutions, CachedAgrees
    <3>3. CASE cached.hash = HashOf(a)
      <4>1. tryOf' = [tryOf EXCEPT ![a] = [intent |-> IntentOf(a), of |-> cached.of, error |-> None]]
        BY <2>3, <3>3 DEF Yield, Done
      <4>2. QED
        BY <1>3, <2>3, <3>2, <3>3, <4>1
    <3>4. CASE cached.hash # HashOf(a)
      BY <1>4, <2>3, <3>4 DEF Errors
    <3>5. QED
      BY <3>3, <3>4
  <2>4. QED
    BY <2>1, <2>2, <2>3
<1>7. QED
  BY <1>1, <1>5, <1>6

LEMMA HandleKeepsInv ==
  ASSUME PipelineInv, NEW a \in Attempts, Handle(a)
  PROVE  PipelineInv'
<1> USE DEF PipelineInv, TryTo
<1>1. IntentOf(a) \in Intents /\ tryAt[a] = "handler"
  BY DEF Handle, PipelineTypeOK, PlacesAgree, IntentOf
<1>2. IntentOf(a) # None /\ KeyUsed(a) # None
  BY <1>1, IntentAssumption DEF PlacesAgree
<1>3. CASE /\ performed' = [performed EXCEPT ![IntentOf(a)] = performed[IntentOf(a)] + 1]
           /\ Yield(a, Done(IntentOf(a))) /\ TryTo(a, "store")
           /\ UNCHANGED <<idem, got, unwritten, auditLog, faults>>
  <2>1. tryOf' = [tryOf EXCEPT ![a] = [intent |-> IntentOf(a), of |-> IntentOf(a), error |-> None]]
    BY <1>3 DEF Yield, Done
  <2>2. PipelineTypeOK'
    BY <1>1, <1>3, <2>1 DEF PipelineTypeOK
  <2>3. PlacesAgree'
    BY <1>1, <1>2, <1>3, <2>1 DEF PipelineTypeOK, PlacesAgree, KeyUsed, IntentOf, NoTry
  <2>4. \A i \in Intents : WasDone(i) => WasDone(i)'
    BY <1>1, <1>3 DEF PipelineTypeOK, WasDone
  <2>5. ASSUME NEW i \in Intents, i = IntentOf(a) PROVE WasDone(i)'
    BY <1>1, <1>3, <2>5 DEF PipelineTypeOK, WasDone, AnswersAreOfExecutions, GivenAgrees
  <2>6. AnswersAreOfExecutions'
    <3>1. ASSUME NEW k \in Keys PROVE CachedAgrees(k)'
      BY <1>3, <2>4 DEF PipelineTypeOK, AnswersAreOfExecutions, CachedAgrees
    <3>2. ASSUME NEW b \in Attempts PROVE GivenAgrees(b)'
      <4>1. GivenAgrees(b)
        BY DEF AnswersAreOfExecutions
      <4>2. CASE b = a
        BY <1>1, <1>3, <2>1, <2>5, <4>1, <4>2
        DEF PipelineTypeOK, GivenAgrees, KeyUsed, IntentOf, HashOf
      <4>3. CASE b # a
        <5>1. /\ tryOf'[b] = tryOf[b] /\ tryAt'[b] = tryAt[b]
              /\ tryOf[b].of \in Intents \cup {None}
          BY <1>3, <2>1, <4>3 DEF PipelineTypeOK, NoTry
        <5>2. QED
          BY <1>3, <2>4, <4>1, <5>1 DEF GivenAgrees, KeyUsed, IntentOf, HashOf
      <4>4. QED
        BY <4>2, <4>3
    <3>3. QED
      BY <3>1, <3>2 DEF AnswersAreOfExecutions
  <2>7. RowsAgree'
    BY <1>1, <1>3, <2>1, OthersKeepRows DEF PipelineTypeOK
  <2>8. QED
    BY <2>2, <2>3, <2>6, <2>7
<1>4. ASSUME NEW e \in HandlerErrors, Yield(a, Failed(e)), TryTo(a, "answer"),
             performed' \in {performed, [performed EXCEPT ![IntentOf(a)] = performed[IntentOf(a)] + 1]},
             UNCHANGED <<idem, got, unwritten, auditLog, faults>>
      PROVE  PipelineInv'
  <2>1. tryOf' = [tryOf EXCEPT ![a] = [intent |-> IntentOf(a), of |-> None, error |-> e]]
    BY <1>4 DEF Yield, Failed
  <2>2. e \in Errors /\ e # None
    BY NoneAssumption DEF Errors
  <2>a. performed' \in [Intents -> Nat] /\ \A i \in Intents : performed'[i] >= performed[i]
    BY <1>1, <1>4 DEF PipelineTypeOK
  <2>3. PipelineTypeOK'
    BY <1>1, <1>4, <2>1, <2>2, <2>a DEF PipelineTypeOK
  <2>4. PlacesAgree'
    BY <1>1, <1>2, <1>4, <2>1, <2>2 DEF PipelineTypeOK, PlacesAgree, KeyUsed, IntentOf, NoTry
  <2>5. AnswersAreOfExecutions'
    <3>1. \A i \in Intents : WasDone(i) => WasDone(i)'
      BY <1>4, <2>a DEF PipelineTypeOK, WasDone
    <3>2. \A k \in Keys : CachedAgrees(k)'
      BY <1>4, <3>1 DEF PipelineTypeOK, AnswersAreOfExecutions, CachedAgrees
    <3>3. ASSUME NEW b \in Attempts PROVE GivenAgrees(b)'
      <4>1. GivenAgrees(b)
        BY DEF AnswersAreOfExecutions
      <4>2. CASE b = a
        BY <1>1, <1>4, <2>1, <4>1, <4>2
        DEF PipelineTypeOK, GivenAgrees, KeyUsed, IntentOf, HashOf
      <4>3. CASE b # a
        <5>1. /\ tryOf'[b] = tryOf[b] /\ tryAt'[b] = tryAt[b]
              /\ tryOf[b].of \in Intents \cup {None}
          BY <1>4, <2>1, <4>3 DEF PipelineTypeOK, NoTry
        <5>2. QED
          BY <1>4, <3>1, <4>1, <5>1 DEF GivenAgrees, KeyUsed, IntentOf, HashOf
      <4>4. QED
        BY <4>2, <4>3
    <3>4. QED
      BY <3>2, <3>3 DEF AnswersAreOfExecutions
  <2>6. RowsAgree'
    BY <1>1, <1>4, <2>1, OthersKeepRows DEF PipelineTypeOK
  <2>7. QED
    BY <2>3, <2>4, <2>5, <2>6
<1>5. QED
  BY <1>3, <1>4 DEF Handle, Thrown, HandlerErrors

LEMMA StoreAnswerKeepsInv ==
  ASSUME PipelineInv, NEW a \in Attempts, StoreAnswer(a)
  PROVE  PipelineInv'
<1> USE DEF PipelineInv, StoreAnswer, TryTo
<1>1. /\ IntentOf(a) \in Intents /\ KeyUsed(a) \in Keys /\ tryOf[a].of = IntentOf(a)
      /\ tryOf[a].error = None /\ GivenAgrees(a)
  BY IntentAssumption
  DEF PipelineTypeOK, PlacesAgree, AnswersAreOfExecutions, KeyUsed, IntentOf
<1> DEFINE new == [hash |-> HashOf(a), of |-> IntentOf(a)]
<1>2. idem' = [idem EXCEPT ![KeyUsed(a)] = new] \/ idem' = idem
  OBVIOUS
<1>3. HashOf(a) \in Bodies /\ IntentOf(a) # None
  BY <1>1, IntentAssumption DEF HashOf
<1>4. PipelineTypeOK'
  BY <1>1, <1>2, <1>3 DEF PipelineTypeOK
<1>5. PlacesAgree'
  BY <1>1, <1>3 DEF PipelineTypeOK, PlacesAgree, KeyUsed, IntentOf
<1>6. ASSUME NEW k \in Keys PROVE CachedAgrees(k)'
  <2>1. CASE idem'[k] = idem[k]
    BY <2>1 DEF AnswersAreOfExecutions, CachedAgrees, WasDone
  <2>2. CASE idem'[k] = new /\ k = KeyUsed(a)
    <3>1. WasDone(IntentOf(a)) /\ KeyOf[IntentOf(a)] = k
      BY <1>1, <1>3, <2>2 DEF GivenAgrees, KeyUsed
    <3>2. QED
      BY <2>2, <3>1 DEF CachedAgrees, WasDone, HashOf
  <2>3. QED
    BY <1>1, <1>2, <2>1, <2>2 DEF PipelineTypeOK
<1>7. \A b \in Attempts : GivenAgrees(b)'
  BY DEF PipelineTypeOK, AnswersAreOfExecutions, GivenAgrees, WasDone, KeyUsed, IntentOf, HashOf
<1>8. RowsAgree'
  BY OthersKeepRows DEF PipelineTypeOK
<1>9. QED
  BY <1>4, <1>5, <1>6, <1>7, <1>8 DEF AnswersAreOfExecutions

(* The answer goes out, and with it the row.                                 *)
LEMMA RespondKeepsInv ==
  ASSUME PipelineInv, NEW a \in Attempts, Respond(a)
  PROVE  PipelineInv'
<1> USE DEF PipelineInv, TryTo
<1> DEFINE result == tryOf[a]  i == IntentOf(a)  row == Row(a, PersonOf[i])
<1>1. /\ i \in Intents /\ tryAt[a] = "answer" /\ tryAt' = [tryAt EXCEPT ![a] = "ended"]
      /\ unwritten' = unwritten \cup {row}
      /\ UNCHANGED <<performed, idem, tryOf, auditLog, faults>>
  BY DEF Respond, PipelineTypeOK, PlacesAgree, IntentOf
<1>2. /\ result.error = None => result.of \in Intents
      /\ result.error # None => result.error \in Errors
  BY <1>1 DEF PipelineTypeOK, PlacesAgree, NoTry
<1>3. PICK g \in Answers : got' = [got EXCEPT ![a] = g] /\ (g.what # "lost" => g = Answer(result))
  BY <1>2, Received DEF Respond
<1>4. /\ Answer(result).what = IF result.error = None THEN "success" ELSE "error"
      /\ result.error = None => Answer(result).of = result.of
      /\ result.error # None => /\ Answer(result).code = mapException(result.error).code
                                /\ Answer(result).status = mapException(result.error).status
  BY <1>2, AnswersAreTyped
<1>5. row \in AuditRows /\ row.attempt = a
  <2>1. PersonOf[i] \in Persons
    BY <1>1, IntentAssumption
  <2>2. CASE result.error = None
    BY <2>1, <2>2 DEF Row, AuditRows
  <2>3. CASE result.error # None
    BY <1>2, <2>1, <2>3, ErrorsAreMapped DEF Row, AuditRows
  <2>4. QED
    BY <2>2, <2>3
<1>6. PipelineTypeOK'
  BY <1>1, <1>3, <1>5 DEF PipelineTypeOK
<1>7. PlacesAgree'
  BY <1>1, <1>2, <1>3, <1>4, IntentAssumption
  DEF PipelineTypeOK, PlacesAgree, KeyUsed, IntentOf, NoTry
<1>8. AnswersAreOfExecutions'
  BY <1>1 DEF PipelineTypeOK, AnswersAreOfExecutions, CachedAgrees, GivenAgrees, WasDone,
              KeyUsed, IntentOf, HashOf
<1>9. RowsAgree'
  <2> SUFFICES ASSUME NEW r \in (unwritten \cup auditLog)' PROVE RowAgrees(r)'
    BY DEF RowsAgree
  <2>1. CASE r = row
    <3>1. /\ r.attempt = a /\ tryOf' = tryOf /\ tryAt'[a] = "ended"
          /\ got'[a] = g
      BY <1>1, <1>3, <1>5, <2>1 DEF PipelineTypeOK
    <3>2. r = Row(a, PersonOf[IntentOf(a)])'
      BY <2>1, <3>1 DEF Row, IntentOf
    <3>3. QED
      BY <1>3, <1>4, <3>1, <3>2 DEF RowAgrees
  <2>2. CASE r \in unwritten \cup auditLog
    <3> DEFINE b == r.attempt
    <3>1. RowAgrees(r)
      BY <2>2 DEF RowsAgree
    <3>2. b \in Attempts /\ b # a
      BY <1>1, <3>1 DEF RowAgrees
    <3>3. tryOf'[b] = tryOf[b] /\ tryAt'[b] = tryAt[b] /\ got'[b] = got[b]
      BY <1>1, <1>3, <3>2 DEF PipelineTypeOK
    <3>4. QED
      BY <3>1, <3>3 DEF RowAgrees, Row, IntentOf
  <2>3. QED
    BY <1>1, <2>1, <2>2
<1>10. QED
  BY <1>6, <1>7, <1>8, <1>9

LEMMA OtherStepsKeepInv ==
  ASSUME PipelineInv,
         \/ \E r \in unwritten : log(r)
         \/ \E k \in Keys : ExpireAnswer(k)
         \/ PipelineDies
         \/ UNCHANGED pipelineVars
  PROVE  PipelineInv'
<1> USE DEF PipelineInv
<1>1. ASSUME NEW r \in unwritten, log(r) PROVE PipelineInv'
  <2>1. unwritten' \cup auditLog' \subseteq unwritten \cup auditLog
    BY <1>1 DEF log
  <2>2. PipelineTypeOK'
    BY <1>1 DEF log, PipelineTypeOK
  <2>3. PlacesAgree' /\ AnswersAreOfExecutions'
    BY <1>1 DEF log, PlacesAgree, AnswersAreOfExecutions, CachedAgrees, GivenAgrees, WasDone,
                KeyUsed, IntentOf, HashOf
  <2>4. RowsAgree'
    BY <1>1, <2>1 DEF log, RowsAgree, RowAgrees, Row, IntentOf
  <2>5. QED
    BY <2>2, <2>3, <2>4
<1>2. ASSUME NEW k \in Keys, ExpireAnswer(k) PROVE PipelineInv'
  <2> USE <1>2 DEF ExpireAnswer
  <2>1. PipelineTypeOK'
    BY DEF PipelineTypeOK
  <2>2. PlacesAgree'
    BY DEF PlacesAgree, KeyUsed, IntentOf
  <2>3. AnswersAreOfExecutions'
    BY DEF PipelineTypeOK, AnswersAreOfExecutions, CachedAgrees, GivenAgrees, WasDone,
           KeyUsed, IntentOf, HashOf
  <2>4. RowsAgree'
    BY DEF RowsAgree, RowAgrees, Row, IntentOf
  <2>5. QED
    BY <2>1, <2>2, <2>3, <2>4
<1>3. CASE PipelineDies
  <2> USE <1>3 DEF PipelineDies, UnderWay
  <2>1. PipelineTypeOK'
    <3>1. [what |-> "lost"] \in Answers
      BY DEF Answers
    <3>2. QED
      BY <3>1 DEF PipelineTypeOK
  <2>2. PlacesAgree'
    BY DEF PipelineTypeOK, PlacesAgree, KeyUsed, IntentOf
  <2>3. AnswersAreOfExecutions'
    BY DEF PipelineTypeOK, AnswersAreOfExecutions, CachedAgrees, GivenAgrees, WasDone,
           KeyUsed, IntentOf, HashOf
  <2>4. RowsAgree'
    <3> SUFFICES ASSUME NEW r \in auditLog PROVE RowAgrees(r)'
      BY DEF RowsAgree
    <3>1. RowAgrees(r)
      BY DEF RowsAgree
    <3>2. tryAt'[r.attempt] = "ended" /\ got'[r.attempt] = got[r.attempt]
      BY <3>1 DEF RowAgrees
    <3>3. QED
      BY <3>1, <3>2 DEF RowAgrees, Row, IntentOf
  <2>5. QED
    BY <2>1, <2>2, <2>3, <2>4
<1>4. CASE UNCHANGED pipelineVars
  BY ZenonT(30), <1>4 DEF pipelineVars, PipelineTypeOK, PlacesAgree, AnswersAreOfExecutions, CachedAgrees,
              GivenAgrees, WasDone, RowsAgree, RowAgrees, Row, KeyUsed, IntentOf, HashOf
<1>5. QED
  BY <1>1, <1>2, <1>3, <1>4

LEMMA NextKeepsInv == PipelineInv /\ [PipelineNext]_pipelineVars => PipelineInv'
BY SendKeepsInv, TurnAwayKeepsInv, AtCacheKeepsInv, HandleKeepsInv, StoreAnswerKeepsInv,
   RespondKeepsInv, OtherStepsKeepInv DEF PipelineNext, AttemptStep

LEMMA PipelineInvariant == PipelineSpec => []PipelineInv
BY InitPipelineInv, NextKeepsInv, PTL DEF PipelineSpec
-----------------------------------------------------------------------------
(* Every state of the pipeline is well typed: what clients and audit rows    *)
(* are given has the code and the status of an answer.                       *)
THEOREM PipelineIsTyped == PipelineSpec => []PipelineTypeOK
BY PipelineInvariant, PTL DEF PipelineInv

(* Whatever fails, dies, expires or overlaps, an answer of success is that   *)
(* of an execution of the same key, method, url and body; without colliding  *)
(* clients, of the very intent.                                              *)
THEOREM PipelineAnswerIsOwn == PipelineSpec => []AnswerIsOwn
<1>1. PipelineInv => AnswerIsOwn
  <2> SUFFICES ASSUME PipelineInv, NEW a \in Attempts, got[a].what = "success"
               PROVE  /\ performed[got[a].of] > 0
                      /\ BodyOf[got[a].of] = HashOf(a) /\ KeyOf[got[a].of] = KeyUsed(a)
                      /\ "collide" \in faults \/ got[a].of = IntentOf(a)
    BY DEF AnswerIsOwn
  <2>1. /\ got[a].of = tryOf[a].of /\ tryOf[a].of # None /\ tryAt[a] # "idle"
        /\ GivenAgrees(a)
    BY DEF PipelineInv, PlacesAgree, AnswersAreOfExecutions
  <2>2. tryOf[a].of \in Intents /\ IntentOf(a) \in Intents
    BY <2>1 DEF PipelineInv, PipelineTypeOK, PlacesAgree, IntentOf, NoTry
  <2>3. "collide" \in faults \/ tryOf[a].of = IntentOf(a)
    <3>1. None # "collide"
      BY NoneAssumption DEF PipelineFaults
    <3>2. QED
      BY <2>1, <2>2, <3>1, KeyAssumption DEF GivenAgrees, WasDone, KeyUsed, HashOf
  <2>4. QED
    BY <2>1, <2>3 DEF GivenAgrees, WasDone
<1>2. QED
  BY <1>1, PipelineInvariant, PTL

(* An audit row names the person behind its request and tells failure from   *)
(* success as its client was told; no request has two.                       *)
THEOREM PipelineAuditIsTrue == PipelineSpec => []AuditIsTrue
<1>1. PipelineInv => AuditIsTrue
  <2> SUFFICES ASSUME PipelineInv PROVE AuditIsTrue
    OBVIOUS
  <2>1. ASSUME NEW r \in auditLog
        PROVE  /\ r.actor = PersonOf[IntentOf(r.attempt)]
               /\ got[r.attempt].what # "lost" => r.failed = (got[r.attempt].what = "error")
    <3>1. RowAgrees(r)
      BY DEF PipelineInv, RowsAgree
    <3>2. /\ r.actor = PersonOf[IntentOf(r.attempt)]
          /\ r.failed = (tryOf[r.attempt].error # None)
      BY <3>1, RowsAre DEF RowAgrees
    <3>3. QED
      BY <3>1, <3>2 DEF RowAgrees
  <2>2. ASSUME NEW r \in auditLog, NEW other \in auditLog, other.attempt = r.attempt
        PROVE  other = r
    BY <2>2 DEF PipelineInv, RowsAgree, RowAgrees
  <2>3. QED
    BY <2>1, <2>2 DEF AuditIsTrue
<1>2. QED
  BY <1>1, PipelineInvariant, PTL

(* What an HttpException is recorded with is what its client saw: the two    *)
(* tables of codes agree where they are used.                                *)
THEOREM PipelineCodesAgree == PipelineSpec => []CodesAgree
<1>1. PipelineInv => CodesAgree
  <2> SUFFICES ASSUME PipelineInv, NEW r \in auditLog, r.failed, got[r.attempt].what # "lost",
                      tryOf[r.attempt].error.class = "http"
               PROVE  r.code = got[r.attempt].code /\ r.status = got[r.attempt].status
    BY DEF CodesAgree
  <2> DEFINE e == tryOf[r.attempt].error
  <2>1. RowAgrees(r)
    BY DEF PipelineInv, RowsAgree
  <2>2. e # None /\ r.code = classifyError(e).code /\ r.status = classifyError(e).status
    <3>1. r = Row(r.attempt, PersonOf[IntentOf(r.attempt)])
      BY <2>1 DEF RowAgrees
    <3> DEFINE row == Row(r.attempt, PersonOf[IntentOf(r.attempt)])
    <3>2. row.failed => e # None /\ row.code = classifyError(e).code
                               /\ row.status = classifyError(e).status
      BY RowsAre
    <3>3. QED
      BY <3>1, <3>2
  <2>3. e \in Errors
    BY <2>1, <2>2 DEF PipelineInv, PipelineTypeOK, RowAgrees, NoTry
  <2>4. mapException(e) = classifyError(e)
    BY <2>3, ErrorsAreMapped
  <2>5. QED
    BY <2>1, <2>2, <2>4 DEF RowAgrees
<1>2. QED
  BY <1>1, PipelineInvariant, PTL

(* Every request that the guards let in has its row written or under way     *)
(* once it is answered, unless the process dies or the table cannot be       *)
(* written.                                                                  *)
THEOREM PipelineEveryAttemptIsAudited == PipelineSpec => []EveryAttemptIsAudited
<1>1. PipelineInit => EveryAttemptIsAudited
  BY DEF PipelineInit, EveryAttemptIsAudited
<1>2. PipelineInv /\ EveryAttemptIsAudited /\ [PipelineNext]_pipelineVars =>
        EveryAttemptIsAudited'
  <2> SUFFICES ASSUME PipelineInv, EveryAttemptIsAudited, [PipelineNext]_pipelineVars,
                      faults' \cap {"die", "mute"} = {},
                      NEW b \in Attempts, tryAt'[b] = "ended", tryOf'[b].error \notin GuardErrors
               PROVE  \E r \in (unwritten \cup auditLog)' : r.attempt = b
    BY DEF EveryAttemptIsAudited
  <2> USE DEF PipelineInv, PipelineTypeOK, TryTo
  <2>1. ASSUME tryAt[b] = "ended", tryOf'[b] = tryOf[b], faults' = faults,
               unwritten \cup auditLog \subseteq (unwritten \cup auditLog)'
        PROVE  \E r \in (unwritten \cup auditLog)' : r.attempt = b
    BY <2>1 DEF EveryAttemptIsAudited
  <2>2. ASSUME NEW a \in Attempts, NEW i \in Intents, Send(a, i)
        PROVE  \E r \in (unwritten \cup auditLog)' : r.attempt = b
    BY <2>1, <2>2 DEF Send
  <2>3. ASSUME NEW a \in Attempts, LetIn(a) \/ ReadCache(a) \/ CacheUnreachable(a) \/ Handle(a)
        PROVE  \E r \in (unwritten \cup auditLog)' : r.attempt = b
    BY <2>1, <2>3 DEF LetIn, ReadCache, CacheUnreachable, Handle, Yield
  <2>4. ASSUME NEW a \in Attempts, StoreAnswer(a)
        PROVE  \E r \in (unwritten \cup auditLog)' : r.attempt = b
    BY <2>1, <2>4 DEF StoreAnswer
  <2>5. ASSUME NEW a \in Attempts, TurnAway(a)
        PROVE  \E r \in (unwritten \cup auditLog)' : r.attempt = b
    <3>1. b # a
      <4>1. PICK e \in GuardErrors : Yield(a, Failed(e))
        BY <2>5 DEF TurnAway, Thrown, GuardErrors
      <4>2. tryOf'[a].error = e
        BY <4>1 DEF Yield, Failed
      <4>3. QED
        BY <4>2
    <3>2. tryAt[b] = "ended" /\ tryOf'[b] = tryOf[b]
      BY <2>5, <3>1 DEF TurnAway, Yield
    <3>3. QED
      BY <2>1, <2>5, <3>2 DEF TurnAway
  <2>6. ASSUME NEW a \in Attempts, Respond(a)
        PROVE  \E r \in (unwritten \cup auditLog)' : r.attempt = b
    <3>1. CASE b = a
      BY <2>6, <3>1, RowsAre DEF Respond
    <3>2. CASE b # a
      BY <2>1, <2>6, <3>2 DEF Respond
    <3>3. QED
      BY <3>1, <3>2
  <2>7. ASSUME NEW r \in unwritten, log(r)
        PROVE  \E q \in (unwritten \cup auditLog)' : q.attempt = b
    BY <2>1, <2>7 DEF log
  <2>8. ASSUME NEW k \in Keys, ExpireAnswer(k)
        PROVE  \E r \in (unwritten \cup auditLog)' : r.attempt = b
    BY <2>1, <2>8 DEF ExpireAnswer
  <2>9. ~PipelineDies
    BY DEF PipelineDies
  <2>10. CASE UNCHANGED pipelineVars
    BY <2>1, <2>10 DEF pipelineVars
  <2>11. QED
    BY <2>2, <2>3, <2>4, <2>5, <2>6, <2>7, <2>8, <2>9, <2>10 DEF PipelineNext, AttemptStep
<1>3. QED
  BY <1>1, <1>2, PipelineInvariant, PTL DEF PipelineSpec
-----------------------------------------------------------------------------
(* At most once, when nothing defeats the keys: OnceInv is kept ...          *)
LEMMA NextKeepsOnce ==
  ASSUME PipelineInv, OnceInv, [PipelineNext]_pipelineVars
  PROVE  OnceInv'
<1> SUFFICES ASSUME Defeats \cap faults' = {} PROVE (NoneOverlaps /\ DoneIsKnown /\ HandledIsNew)'
  BY DEF OnceInv
<1>1. faults' = faults
  BY DEF PipelineNext, AttemptStep, Send, TurnAway, LetIn, ReadCache, CacheUnreachable, Handle,
         StoreAnswer, Respond, log, ExpireAnswer, PipelineDies, pipelineVars
<1>2. NoneOverlaps /\ DoneIsKnown /\ HandledIsNew
  BY <1>1 DEF OnceInv
<1> USE DEF PipelineInv, PipelineTypeOK, TryTo
<1>3. ASSUME NEW a \in Attempts, NEW i \in Intents, Send(a, i)
      PROVE  (NoneOverlaps /\ DoneIsKnown /\ HandledIsNew)'
  <2> USE <1>3 DEF Send
  <2>1. \A b \in Attempts : b # a => tryOf'[b] = tryOf[b] /\ tryAt'[b] = tryAt[b]
    OBVIOUS
  <2>2. \A b \in Attempts : UnderWay(b) => IntentOf(b) # i
    BY <1>1 DEF Attempted, Defeats
  <2>3. tryOf'[a].intent = i /\ tryAt'[a] = "guards"
    OBVIOUS
  <2>4. NoneOverlaps'
    BY <1>2, <2>1, <2>2, <2>3 DEF NoneOverlaps, UnderWay, IntentOf
  <2>5. DoneIsKnown' /\ HandledIsNew'
    BY <1>2, <2>1, <2>3 DEF DoneIsKnown, HandledIsNew, IntentOf
  <2>6. QED
    BY <2>4, <2>5
<1>4. ASSUME NEW a \in Attempts, tryAt[a] # "store", tryAt'[a] # "handler", UnderWay(a),
             \A b \in Attempts : IntentOf(b)' = IntentOf(b),
             \A b \in Attempts \ {a} : tryAt'[b] = tryAt[b],
             UNCHANGED <<performed, idem>>
      PROVE  (NoneOverlaps /\ DoneIsKnown /\ HandledIsNew)'
  BY <1>2, <1>4 DEF NoneOverlaps, DoneIsKnown, HandledIsNew, UnderWay
<1>5. ASSUME NEW a \in Attempts, TurnAway(a) \/ LetIn(a) \/ CacheUnreachable(a) \/ Respond(a)
      PROVE  (NoneOverlaps /\ DoneIsKnown /\ HandledIsNew)'
  BY <1>4, <1>5 DEF TurnAway, LetIn, CacheUnreachable, Respond, Yield, IntentOf, UnderWay
<1>6. ASSUME NEW a \in Attempts, ReadCache(a)
      PROVE  (NoneOverlaps /\ DoneIsKnown /\ HandledIsNew)'
  <2>1. CASE tryAt'[a] # "handler"
    BY <1>4, <1>6, <2>1 DEF ReadCache, Yield, IntentOf, UnderWay
  <2>2. CASE tryAt'[a] = "handler"
    <3>1. /\ tryAt[a] = "cache" /\ idem[KeyUsed(a)] = None
          /\ tryAt' = [tryAt EXCEPT ![a] = "handler"]
          /\ UNCHANGED <<performed, idem, tryOf>>
      BY <1>6, <2>2 DEF ReadCache
    <3>2. IntentOf(a) \in Intents
      BY <3>1 DEF PlacesAgree, IntentOf
    <3>3. performed[IntentOf(a)] = 0
      BY <1>2, <3>1, <3>2 DEF NoneOverlaps, DoneIsKnown, UnderWay, KeyUsed
    <3>4. QED
      BY <1>2, <3>1, <3>3 DEF NoneOverlaps, DoneIsKnown, HandledIsNew, UnderWay, IntentOf
  <2>3. QED
    BY <2>1, <2>2
<1>7. ASSUME NEW a \in Attempts, Handle(a)
      PROVE  (NoneOverlaps /\ DoneIsKnown /\ HandledIsNew)'
  <2>a. "partial" \notin faults
    BY <1>1 DEF Defeats
  <2>1. CASE UNCHANGED performed
    <3>1. tryAt'[a] = "answer"
      BY <1>7, <2>1 DEF Handle, PlacesAgree, IntentOf
    <3>2. QED
      BY <1>4, <1>7, <2>1, <3>1 DEF Handle, Yield, IntentOf, UnderWay
  <2>2. CASE performed' = [performed EXCEPT ![IntentOf(a)] = @ + 1] /\ TryTo(a, "store")
    <3>1. /\ tryAt[a] = "handler" /\ IntentOf(a) \in Intents /\ performed[IntentOf(a)] = 0
          /\ idem' = idem
      BY <1>2, <1>7 DEF Handle, PlacesAgree, IntentOf, HandledIsNew
    <3>2. \A b \in Attempts : IntentOf(b)' = IntentOf(b)
      BY <1>7 DEF Handle, Yield, IntentOf
    <3>3. performed' = [performed EXCEPT ![IntentOf(a)] = 1]
      BY <2>2, <3>1
    <3>4. NoneOverlaps'
      BY <1>2, <2>2, <3>1, <3>2 DEF NoneOverlaps, UnderWay
    <3>5. DoneIsKnown'
      BY <1>2, <2>2, <3>1, <3>2, <3>3 DEF DoneIsKnown
    <3>6. HandledIsNew'
      BY <1>2, <2>2, <3>1, <3>2, <3>3 DEF NoneOverlaps, HandledIsNew, UnderWay
    <3>7. QED
      BY <3>4, <3>5, <3>6
  <2>3. QED
    BY <1>7, <2>1, <2>2, <2>a DEF Handle
<1>8. ASSUME NEW a \in Attempts, StoreAnswer(a)
      PROVE  (NoneOverlaps /\ DoneIsKnown /\ HandledIsNew)'
  <2>1. /\ idem' = [idem EXCEPT ![KeyUsed(a)] = [hash |-> HashOf(a), of |-> IntentOf(a)]]
        /\ tryAt[a] = "store" /\ tryAt' = [tryAt EXCEPT ![a] = "answer"]
        /\ UNCHANGED <<performed, tryOf>>
    BY <1>1, <1>8 DEF StoreAnswer, Defeats
  <2>2. IntentOf(a) \in Intents /\ KeyUsed(a) \in Keys
    BY <2>1, IntentAssumption DEF PlacesAgree, KeyUsed, IntentOf
  <2>3. IntentOf(a) # None
    BY <2>2, IntentAssumption
  <2>4. [hash |-> HashOf(a), of |-> IntentOf(a)] # None
    BY <2>2, CacheAssumption, IntentAssumption DEF HashOf
  <2>5. NoneOverlaps' /\ HandledIsNew'
    BY <1>2, <2>1 DEF NoneOverlaps, HandledIsNew, UnderWay, IntentOf
  <2>6. DoneIsKnown'
    BY <1>2, <2>1, <2>2, <2>4 DEF DoneIsKnown, IntentOf, KeyUsed
  <2>7. QED
    BY <2>5, <2>6
<1>9. ASSUME (\E r \in unwritten : log(r)) \/ UNCHANGED pipelineVars
      PROVE  (NoneOverlaps /\ DoneIsKnown /\ HandledIsNew)'
  BY <1>2, <1>9 DEF log, pipelineVars, NoneOverlaps, DoneIsKnown, HandledIsNew, UnderWay, IntentOf
<1>10. ~PipelineDies /\ \A k \in Keys : ~ExpireAnswer(k)
  BY <1>1 DEF PipelineDies, ExpireAnswer, Defeats
<1>11. QED
  BY <1>3, <1>5, <1>6, <1>7, <1>8, <1>9, <1>10 DEF PipelineNext, AttemptStep

(* ... and each step performs an intent that was not done, tells a client of *)
(* one that was, or changes neither.                                         *)
LEMMA ToldIsUnchanged ==
  ASSUME \A a \in Attempts :
           \A i \in Intents :
             (IntentOf(a) = i /\ got[a].what = "success")'
               <=> (IntentOf(a) = i /\ got[a].what = "success")
  PROVE  Told' = Told
BY DEF Told, Attempted

LEMMA NextIsOnceStep ==
  ASSUME PipelineInv, OnceInv, [PipelineNext]_pipelineVars, Defeats \cap faults = {}
  PROVE  [Once!Next]_<<performed, Told>>
<1> USE DEF PipelineInv, PipelineTypeOK, TryTo
<1>1. DoneIsKnown /\ HandledIsNew
  BY DEF OnceInv
<1>2. ASSUME NEW a \in Attempts, NEW i \in Intents, Send(a, i)
      PROVE  [Once!Next]_<<performed, Told>>
  <2>1. got[a].what = "nothing" /\ \A b \in Attempts : b # a => tryOf'[b] = tryOf[b]
    BY <1>2 DEF Send, PlacesAgree
  <2>2. Told' = Told
    BY <1>2, <2>1, ToldIsUnchanged DEF Send, IntentOf
  <2>3. QED
    BY <1>2, <2>2 DEF Send
<1>3. ASSUME NEW a \in Attempts, LetIn(a) \/ ReadCache(a) \/ CacheUnreachable(a) \/ StoreAnswer(a)
      PROVE  [Once!Next]_<<performed, Told>>
  <2>1. \A b \in Attempts : IntentOf(b)' = IntentOf(b) /\ got'[b] = got[b]
    BY <1>3 DEF LetIn, ReadCache, CacheUnreachable, StoreAnswer, Yield, IntentOf
  <2>2. Told' = Told
    BY <2>1, ToldIsUnchanged
  <2>3. QED
    BY <1>3, <2>2 DEF LetIn, ReadCache, CacheUnreachable, StoreAnswer
<1>4. ASSUME NEW a \in Attempts, TurnAway(a)
      PROVE  [Once!Next]_<<performed, Told>>
  <2>1. PICK e \in GuardErrors : Receive(a, Failed(e)) /\ Yield(a, Failed(e))
    BY <1>4 DEF TurnAway, Thrown, GuardErrors
  <2>2. e \in Errors /\ e # None /\ Failed(e).of = None /\ Failed(e).error = e
    BY NoneAssumption DEF Errors, Failed
  <2> DEFINE result == Failed(e)
  <2>3. PICK g \in Answers : got' = [got EXCEPT ![a] = g] /\ (g.what # "lost" => g = Answer(result))
    BY <2>1, <2>2, Received
  <2>4. g.what # "success"
    BY <2>2, <2>3, AnswersAreTyped
  <2>5. got[a].what # "success"
    BY <1>4 DEF TurnAway, PlacesAgree
  <2>6. \A b \in Attempts : IntentOf(b)' = IntentOf(b)
    BY <2>1 DEF Yield, IntentOf
  <2>7. Told' = Told
    BY <2>3, <2>4, <2>5, <2>6, ToldIsUnchanged
  <2>8. QED
    BY <1>4, <2>7 DEF TurnAway
<1>5. ASSUME NEW a \in Attempts, Handle(a)
      PROVE  [Once!Next]_<<performed, Told>>
  <2>1. \A b \in Attempts : IntentOf(b)' = IntentOf(b) /\ got'[b] = got[b]
    BY <1>5 DEF Handle, Yield, IntentOf
  <2>2. Told' = Told
    BY <2>1, ToldIsUnchanged
  <2>3. CASE UNCHANGED performed
    BY <2>2, <2>3
  <2>4. CASE performed' = [performed EXCEPT ![IntentOf(a)] = @ + 1]
    <3>1. IntentOf(a) \in Intents /\ performed[IntentOf(a)] = 0
      BY <1>1, <1>5 DEF Handle, PlacesAgree, HandledIsNew, IntentOf
    <3>2. Once!Perform(IntentOf(a))
      BY <2>2, <2>4, <3>1 DEF Once!Perform
    <3>3. QED
      BY <3>1, <3>2 DEF Once!Next
  <2>5. QED
    BY <1>5, <2>3, <2>4 DEF Handle
<1>6. ASSUME NEW a \in Attempts, Respond(a)
      PROVE  [Once!Next]_<<performed, Told>>
  <2> DEFINE i == IntentOf(a)  result == tryOf[a]
  <2>1. /\ tryAt[a] = "answer" /\ i \in Intents /\ got[a].what = "nothing"
        /\ UNCHANGED <<performed, tryOf>>
    BY <1>6 DEF Respond, PlacesAgree, IntentOf
  <2>2. /\ result.error = None => result.of \in Intents
        /\ result.error # None => result.error \in Errors
    BY <2>1 DEF PlacesAgree, NoTry
  <2>3. PICK g \in Answers : got' = [got EXCEPT ![a] = g] /\ (g.what # "lost" => g = Answer(result))
    BY <1>6, <2>2, Received DEF Respond
  <2>4. \A b \in Attempts : IntentOf(b)' = IntentOf(b)
    BY <2>1 DEF IntentOf
  <2>5. CASE g.what # "success"
    <3>1. Told' = Told
      BY <2>1, <2>3, <2>4, <2>5, ToldIsUnchanged
    <3>2. QED
      BY <2>1, <3>1
  <2>6. CASE g.what = "success"
    <3>1. result.error = None
      BY <2>2, <2>3, <2>6, AnswersAreTyped
    <3>2. result.of \in Intents /\ result.of # None /\ GivenAgrees(a)
      BY <2>2, <3>1, IntentAssumption DEF AnswersAreOfExecutions
    <3>3. result.of = i
      <4>1. None # "collide"
        BY NoneAssumption DEF PipelineFaults
      <4>2. "collide" \notin faults
        BY DEF Defeats
      <4>3. QED
        BY <2>1, <3>2, <4>1, <4>2, KeyAssumption DEF GivenAgrees, WasDone, KeyUsed, HashOf
    <3>4. performed[i] = 1
      BY <1>1, <2>1, <3>2, <3>3 DEF GivenAgrees, WasDone, DoneIsKnown
    <3>5. Told' = Told \cup {i}
      <4>1. \A j \in Intents : j \in Told' <=> j \in Told \/ j = i
        BY <2>1, <2>3, <2>4, <2>6 DEF Told, Attempted
      <4>2. QED
        BY <2>1, <4>1 DEF Told
    <3>6. Once!Tell(i)
      BY <2>1, <3>4, <3>5 DEF Once!Tell
    <3>7. QED
      BY <2>1, <3>6 DEF Once!Next
  <2>7. QED
    BY <2>5, <2>6
<1>7. ASSUME (\E r \in unwritten : log(r)) \/ UNCHANGED pipelineVars
      PROVE  [Once!Next]_<<performed, Told>>
  <2>1. UNCHANGED <<performed, tryOf, got>>
    BY <1>7 DEF log, pipelineVars
  <2>2. Told' = Told
    BY <2>1 DEF Told, Attempted, IntentOf
  <2>3. QED
    BY <2>1, <2>2
<1>8. ~PipelineDies /\ \A k \in Keys : ~ExpireAnswer(k)
  BY DEF PipelineDies, ExpireAnswer, Defeats
<1>9. QED
  BY <1>2, <1>3, <1>4, <1>5, <1>6, <1>7, <1>8 DEF PipelineNext, AttemptStep

(* The pipeline implements AtMostOnce: however requests are repeated, lost   *)
(* and refused, an intent is done at most once and its client told of        *)
(* success only then, unless one of Defeats happens: also when its handler   *)
(* throws, provided that it has committed nothing by then.                   *)
THEOREM PipelineImplementsAtMostOnce == PipelineSpec => ImplementsAtMostOnce
<1>1. PipelineInit => Once!Init
  BY DEF PipelineInit, Once!Init, Told, Attempted
<1>2. PipelineInv /\ OnceInv /\ [PipelineNext]_pipelineVars =>
        [Defeats \cap faults # {} \/ Once!Next]_<<performed, Told>>
  BY NextIsOnceStep
<1>3. PipelineSpec => []OnceInv
  <2>1. PipelineInv /\ OnceInv /\ [PipelineNext]_pipelineVars => OnceInv'
    BY NextKeepsOnce
  <2>2. QED
    BY <2>1, InitPipelineInv, PipelineInvariant, PTL DEF PipelineSpec
<1>4. QED
  BY <1>1, <1>2, <1>3, PipelineInvariant, PTL DEF PipelineSpec, ImplementsAtMostOnce

(* Answers, effects and audit rows agree for every attempt of a request that *)
(* passes the idempotency interceptor, the audit interceptor and the filter. *)
THEOREM PipelineRequestsAgree == PipelineSpec => []RequestsAgree
BY PipelineIsTyped, PipelineAnswerIsOwn, PipelineAuditIsTrue, PipelineCodesAgree,
   PipelineEveryAttemptIsAudited,
   PTL DEF RequestsAgree


-----------------------------------------------------------------------------
(***************************************************************************)
(* RateLimit, for every limit, window and set of requests. RateInv says    *)
(* which of the requests that were allowed are still in the window's       *)
(* sorted set, and how far the set was filled when a request was ruled on: *)
(* what is not in it has left the window, so that its size bounds what the *)
(* window saw.                                                             *)
(***************************************************************************)
\* Each request is ruled on once, with the limit of its route and the time it took; only what
\* was allowed is in the window, under the time it was allowed for.
HitsAgree ==
  /\ \A m, n \in 1 .. Len(ruled) : ruled[m] = ruled[n] => m = n
  /\ \A h \in Hits :
       /\ hitAt[h] = "ruled" <=> h \in Ruled
       /\ hitAt[h] # "ruled" => ~hit[h].allowed
       /\ hitAt[h] \in {"script", "ruled"} =>
            /\ hit[h].limit \in Limits /\ hit[h].time <= now
            /\ "mixed" \notin faults => hit[h].limit = Usual
  /\ \A e \in window : e.member \in Allowed /\ e.score = hit[e.member].time
  /\ Len(ruled) + Cardinality({h \in Hits : hitAt[h] # "ruled"}) <= Cardinality(Hits)
  /\ expiresAt <= now + windowMs

\* When no time is late, the window holds all that was allowed within it.
WindowHoldsAll ==
  "late" \notin faults =>
    /\ \A h \in Hits : hitAt[h] = "script" => hit[h].time = now
    /\ \A h \in Allowed :
         /\ hit[h].time + windowMs <= expiresAt
         /\ hit[h].time > now - windowMs => [score |-> hit[h].time, member |-> h] \in window

\* Where the limits are one, the window never holds more; and once the oldest entry that a
\* refused request saw has gone it holds less, unless another request was allowed since.
NewerThan(t) == {e \in window : e.score > t}
\* Room in the window, now and when a refused request was told to come back.
RoomComes ==
  "mixed" \notin faults =>
    /\ Cardinality(window) <= Usual
    /\ \A g \in Ruled :
         ~hit[g].allowed /\ (\A f \in Allowed : Position(f) < Position(g)) =>
           Cardinality(NewerThan(hit[g].reset - windowMs)) < Usual

\* The inductive invariant.
RateInv ==
  /\ RateTypeOK /\ HitsAgree /\ WindowHoldsAll /\ RoomComes
  /\ WindowNeverExceeded /\ RefusedOnlyWhenFull /\ RetryAfterFrees
-----------------------------------------------------------------------------
\* Entries are no more than the requests they are of.
LEMMA EntriesCount ==
  ASSUME NEW entries, NEW members, IsFiniteSet(members), NEW time,
         entries \subseteq [score : Instants, member : Hits],
         \A e \in entries : e.member \in members /\ e.score = time[e.member]
  PROVE  /\ IsFiniteSet(entries) /\ Cardinality(entries) \in Nat /\ Cardinality(members) \in Nat
         /\ Cardinality(entries) <= Cardinality(members)
<1> DEFINE f == [e \in entries |-> e.member]
<1>1. f \in Injection(entries, members)
  <2>1. \A d, e \in entries : d.member = e.member => d = e
    OBVIOUS
  <2>2. QED
    BY <2>1 DEF Injection, IsInjective
<1> HIDE DEF f
<1>2. QED
  BY <1>1, FS_Injection, FS_CardinalityType

LEMMA OldestIs ==
  ASSUME NEW entries, IsFiniteSet(entries), entries # {},
         entries \subseteq [score : Instants, member : Hits]
  PROVE  /\ Oldest(entries) \in Instants
         /\ \E e \in entries : e.score = Oldest(entries)
         /\ \A e \in entries : Oldest(entries) <= e.score
<1> DEFINE scores == {e.score : e \in entries}
           f == [e \in entries |-> e.score]
<1>1. f \in Surjection(entries, scores)
  BY DEF Surjection
<1> HIDE DEF f
<1>2. IsFiniteSet(scores)
  BY <1>1, FS_Surjection
<1>3. scores # {} /\ scores \subseteq Instants
  OBVIOUS
<1>4. \A i \in scores : i \in Nat
  BY <1>3, LimitAssumption DEF Instants
<1>5. \E i \in scores : \A j \in scores : i <= j
  <2> HIDE DEF scores
  <2>1. QED
    BY <1>2, <1>3, <1>4, LeastExists
<1>6. PICK i \in scores : \A e \in entries : i <= e.score
  BY <1>5
<1>7. Oldest(entries) \in scores /\ \A e \in entries : Oldest(entries) <= e.score
  BY <1>6 DEF Oldest
<1>8. QED
  BY <1>3, <1>7

\* Where a request is in a list that has each once.
LEMMA PlaceIs ==
  ASSUME NEW s, \A m, n \in DOMAIN s : s[m] = s[n] => m = n, NEW n \in DOMAIN s, NEW x, s[n] = x
  PROVE  (CHOOSE m \in DOMAIN s : s[m] = x) = n
OBVIOUS

LEMMA Places ==
  ASSUME RateTypeOK, HitsAgree
  PROVE  /\ Len(ruled) \in Nat /\ DOMAIN ruled = 1 .. Len(ruled) /\ ruled \in Seq(Hits)
         /\ Ruled \subseteq Hits /\ Allowed \subseteq Ruled
         /\ \A n \in 1 .. Len(ruled) : Position(ruled[n]) = n /\ ruled[n] \in Ruled
         /\ \A g \in Ruled : Position(g) \in 1 .. Len(ruled) /\ ruled[Position(g)] = g
<1>1. ruled \in Seq(Hits)
  BY DEF RateTypeOK
<1>2. /\ Len(ruled) \in Nat /\ DOMAIN ruled = 1 .. Len(ruled)
      /\ \A n \in 1 .. Len(ruled) : ruled[n] \in Hits
  BY <1>1, LenProperties, ElementOfSeq
<1>3. \A n \in 1 .. Len(ruled) : Position(ruled[n]) = n
  BY <1>2, PlaceIs DEF HitsAgree, Position
<1>4. QED
  BY <1>1, <1>2, <1>3 DEF Ruled, Allowed

LEMMA WindowIsFinite ==
  ASSUME RateTypeOK, HitsAgree, NEW part \in SUBSET window
  PROVE  /\ IsFiniteSet(part) /\ Cardinality(part) \in Nat
         /\ IsFiniteSet(Hits) /\ IsFiniteSet(Allowed) /\ Cardinality(Allowed) \in Nat
<1> DEFINE time == [h \in Hits |-> hit[h].time]
<1>1. part \subseteq [score : Instants, member : Hits]
      /\ \A e \in part : e.member \in Hits /\ e.score = time[e.member]
  BY Places DEF HitsAgree, RateTypeOK
<1>2. IsFiniteSet(Hits) /\ Allowed \in SUBSET Hits
  BY LimitAssumption, Places
<1> HIDE DEF time
<1>3. IsFiniteSet(part) /\ Cardinality(part) \in Nat
  BY <1>1, <1>2, EntriesCount
<1>4. QED
  BY <1>2, <1>3, FS_Subset, FS_CardinalityType
\* What a ruling does.
LEMMA RuleEffects ==
  ASSUME RateInv, NEW h \in Hits, SlidingWindow(h),
         NEW t, t = hit[h].time, NEW kept, kept = Pruned(t),
         NEW full \in BOOLEAN, full <=> Cardinality(kept) >= hit[h].limit
  PROVE  /\ hitAt[h] = "script" /\ t \in Instants /\ t <= now /\ hit[h].limit \in Limits
         /\ kept \in SUBSET window
         /\ window' = IF full THEN kept ELSE kept \cup {[score |-> t, member |-> h]}
         /\ window' # {} /\ window' \subseteq [score : Instants, member : Hits] /\ IsFiniteSet(window')
         /\ hit' \in [Hits -> [limit : Limits \cup {None}, time : Instants, allowed : BOOLEAN,
                               reset : 0 .. LastInstant + windowMs]]
         /\ hit'[h].limit = hit[h].limit /\ hit'[h].time = t /\ hit'[h].allowed = ~full
         /\ hit'[h].reset = Oldest(window') + windowMs
         /\ \A g \in Hits : g # h => hit'[g] = hit[g]
         /\ hitAt' = [hitAt EXCEPT ![h] = "ruled"]
         /\ now' = now /\ faults' = faults /\ expiresAt' = IF full THEN expiresAt ELSE now + windowMs
         /\ ruled' \in Seq(Hits) /\ Len(ruled') = Len(ruled) + 1 /\ ruled'[Len(ruled) + 1] = h
         /\ \A n \in 1 .. Len(ruled) : ruled'[n] = ruled[n]
<1> DEFINE entry == [score |-> t, member |-> h]
<1>1. /\ hitAt[h] = "script" /\ now' = now /\ faults' = faults
      /\ window' = IF full THEN kept ELSE kept \cup {entry}
      /\ hit' = [hit EXCEPT ![h].allowed = ~full, ![h].reset = Oldest(window') + windowMs]
      /\ hitAt' = [hitAt EXCEPT ![h] = "ruled"] /\ ruled' = Append(ruled, h)
      /\ expiresAt' = IF full THEN expiresAt ELSE now + windowMs
  BY DEF SlidingWindow, Rule
<1>2. /\ hit \in [Hits -> [limit : Limits \cup {None}, time : Instants, allowed : BOOLEAN,
                           reset : 0 .. LastInstant + windowMs]]
      /\ ruled \in Seq(Hits) /\ window \subseteq [score : Instants, member : Hits]
      /\ hit[h].limit \in Limits /\ t <= now /\ RateTypeOK /\ HitsAgree
  BY <1>1 DEF RateInv, RateTypeOK, HitsAgree
<1>3. kept \in SUBSET window /\ t \in Instants
  BY <1>2 DEF Pruned
<1>4. IsFiniteSet(kept) /\ Cardinality(kept) \in Nat
  BY <1>2, <1>3, WindowIsFinite
<1>5. entry \in [score : Instants, member : Hits]
  BY <1>3
<1>6. window' \subseteq [score : Instants, member : Hits] /\ IsFiniteSet(window')
  <2> HIDE DEF entry
  <2>1. IsFiniteSet(kept \cup {entry})
    BY <1>4, FS_AddElement
  <2>2. QED
    BY <1>1, <1>2, <1>3, <1>4, <1>5, <2>1
<1>7. window' # {}
  <2>1. full => kept # {}
    <3>1. hit[h].limit \in Nat \ {0}
      BY <1>2, LimitAssumption
    <3>2. Cardinality({}) = 0
      BY FS_EmptySet
    <3>3. QED
      BY <1>4, <3>1, <3>2
  <2>2. QED
    BY <1>1, <2>1
<1>8. Oldest(window') \in Instants
  BY <1>6, <1>7, OldestIs
<1>9. Oldest(window') + windowMs \in 0 .. LastInstant + windowMs
  BY <1>8, LimitAssumption DEF Instants
<1> DEFINE reset == Oldest(window') + windowMs
<1>10. hit' = [hit EXCEPT ![h] = [hit[h] EXCEPT !.allowed = ~full, !.reset = reset]]
  BY <1>1, <1>2
<1>11. reset \in 0 .. LastInstant + windowMs
  BY <1>9
<1> HIDE DEF reset
<1> DEFINE record == [hit[h] EXCEPT !.allowed = ~full, !.reset = reset]
<1>12. /\ record \in [limit : Limits \cup {None}, time : Instants, allowed : BOOLEAN,
                      reset : 0 .. LastInstant + windowMs]
       /\ record.limit = hit[h].limit /\ record.time = t /\ record.allowed = ~full /\ record.reset = reset
  BY <1>2, <1>11
<1> HIDE DEF record
<1>13. /\ hit' \in [Hits -> [limit : Limits \cup {None}, time : Instants, allowed : BOOLEAN,
                             reset : 0 .. LastInstant + windowMs]]
       /\ hit'[h] = record /\ \A g \in Hits : g # h => hit'[g] = hit[g]
  BY <1>2, <1>10, <1>12 DEF record
<1>14. /\ ruled' \in Seq(Hits) /\ Len(ruled') = Len(ruled) + 1 /\ ruled'[Len(ruled) + 1] = h
       /\ \A n \in 1 .. Len(ruled) : ruled'[n] = ruled[n]
  BY <1>1, <1>2, AppendProperties
<1>15. QED
  BY <1>1, <1>2, <1>3, <1>6, <1>7, <1>12, <1>13, <1>14 DEF reset

\* Who has been ruled on, who was allowed, and in which order, after a ruling.
LEMMA RuledThen ==
  ASSUME RateInv, NEW h \in Hits, SlidingWindow(h),
         NEW full \in BOOLEAN, full <=> Cardinality(Pruned(hit[h].time)) >= hit[h].limit
  PROVE  /\ h \notin Ruled /\ Ruled' = Ruled \cup {h}
         /\ Allowed' = IF full THEN Allowed ELSE Allowed \cup {h}
         /\ \A m, n \in 1 .. Len(ruled') : ruled'[m] = ruled'[n] => m = n
         /\ Position(h)' = Len(ruled) + 1
         /\ \A g \in Ruled : Position(g)' = Position(g) /\ Position(g) \in 1 .. Len(ruled)
<1>1. /\ hitAt[h] = "script" /\ hit'[h].allowed = ~full
      /\ \A g \in Hits : g # h => hit'[g] = hit[g]
      /\ ruled' \in Seq(Hits) /\ Len(ruled') = Len(ruled) + 1 /\ ruled'[Len(ruled) + 1] = h
      /\ \A n \in 1 .. Len(ruled) : ruled'[n] = ruled[n]
  BY RuleEffects
<1>2. RateTypeOK /\ HitsAgree
  BY DEF RateInv
<1>3. /\ Len(ruled) \in Nat /\ DOMAIN ruled = 1 .. Len(ruled) /\ DOMAIN ruled' = 1 .. (Len(ruled) + 1)
      /\ Ruled \subseteq Hits /\ Allowed \subseteq Ruled
      /\ \A g \in Ruled : Position(g) \in 1 .. Len(ruled) /\ ruled[Position(g)] = g
  BY <1>1, <1>2, Places, LenProperties
<1>4. h \notin Ruled
  BY <1>1, <1>2 DEF HitsAgree
<1>5. \A n \in 1 .. Len(ruled) : ruled[n] \in Ruled
  BY <1>3 DEF Ruled
<1>6. Ruled' = Ruled \cup {h}
  BY <1>1, <1>3 DEF Ruled
<1>7. \A m, n \in 1 .. Len(ruled') : ruled'[m] = ruled'[n] => m = n
  <2>1. \A n \in 1 .. Len(ruled') : n = Len(ruled) + 1 \/ n \in 1 .. Len(ruled)
    BY <1>1, <1>3
  <2>2. \A m, n \in 1 .. Len(ruled) : ruled[m] = ruled[n] => m = n
    BY <1>2 DEF HitsAgree
  <2>3. QED
    BY <1>1, <1>4, <1>5, <2>1, <2>2
<1>8. ASSUME NEW n \in 1 .. Len(ruled'), NEW g, ruled'[n] = g PROVE Position(g)' = n
  BY <1>1, <1>3, <1>7, <1>8, PlaceIs DEF Position
<1>9. Position(h)' = Len(ruled) + 1
  BY <1>1, <1>3, <1>8
<1>10. \A g \in Ruled : Position(g)' = Position(g)
  <2>1. ASSUME NEW g \in Ruled PROVE Position(g)' = Position(g)
    <3>1. PICK n \in 1 .. Len(ruled) : n = Position(g) /\ ruled[n] = g
      BY <1>3
    <3>2. ruled'[n] = g /\ n \in 1 .. Len(ruled')
      BY <1>1, <1>3, <3>1
    <3>3. QED
      BY <1>8, <3>1, <3>2
  <2>2. QED
    BY <2>1
<1>11. Allowed' = IF full THEN Allowed ELSE Allowed \cup {h}
  BY <1>1, <1>3, <1>4, <1>6 DEF Allowed
<1>12. QED
  BY <1>3, <1>4, <1>6, <1>7, <1>9, <1>10, <1>11
LEMMA RuleKeepsHits ==
  ASSUME RateInv, NEW h \in Hits, SlidingWindow(h) PROVE RateTypeOK' /\ HitsAgree'
<1>0. PICK t, kept : t = hit[h].time /\ kept = Pruned(t)
  OBVIOUS
<1>1. PICK full \in BOOLEAN : t = hit[h].time /\ kept = Pruned(t) /\ (full <=> Cardinality(kept) >= hit[h].limit)
  BY <1>0
<1> DEFINE entry == [score |-> t, member |-> h]
<1>2. /\ hitAt[h] = "script" /\ t \in Instants /\ t <= now /\ hit[h].limit \in Limits
      /\ kept \in SUBSET window
      /\ window' = IF full THEN kept ELSE kept \cup {entry}
      /\ window' \subseteq [score : Instants, member : Hits]
      /\ hit' \in [Hits -> [limit : Limits \cup {None}, time : Instants, allowed : BOOLEAN,
                            reset : 0 .. LastInstant + windowMs]]
      /\ hit'[h].limit = hit[h].limit /\ hit'[h].time = t /\ hit'[h].allowed = ~full
      /\ \A g \in Hits : g # h => hit'[g] = hit[g]
      /\ hitAt' = [hitAt EXCEPT ![h] = "ruled"]
      /\ now' = now /\ faults' = faults /\ expiresAt' = IF full THEN expiresAt ELSE now + windowMs
      /\ ruled' \in Seq(Hits) /\ Len(ruled') = Len(ruled) + 1
  BY <1>1, RuleEffects
<1>3. /\ h \notin Ruled /\ Ruled' = Ruled \cup {h}
      /\ Allowed' = IF full THEN Allowed ELSE Allowed \cup {h}
      /\ \A m, n \in 1 .. Len(ruled') : ruled'[m] = ruled'[n] => m = n
  BY <1>1, RuledThen
<1>4. RateTypeOK /\ HitsAgree
  BY DEF RateInv
<1>5. /\ hitAt \in [Hits -> {"idle", "script", "ruled", "unlimited"}] /\ now \in Nat /\ expiresAt \in Nat
      /\ windowMs \in Nat /\ LastInstant \in Nat /\ now <= LastInstant
  BY <1>4, LimitAssumption DEF RateTypeOK, Instants
<1>6. \A g \in Hits : hitAt'[g] = IF g = h THEN "ruled" ELSE hitAt[g]
  BY <1>2, <1>5
<1> DEFINE waiting == {g \in Hits : hitAt[g] # "ruled"}
           still == {g \in Hits : hitAt'[g] # "ruled"}
<1>7. Len(ruled') + Cardinality(still) <= Cardinality(Hits) /\ Cardinality(still) \in Nat
      /\ Cardinality(Hits) \in Nat
  <2>1. IsFiniteSet(Hits) /\ IsFiniteSet(waiting) /\ Cardinality(Hits) \in Nat
        /\ Cardinality(waiting) \in Nat
    BY LimitAssumption, FS_Subset, FS_CardinalityType
  <2>2. h \in waiting /\ still = waiting \ {h}
    BY <1>2, <1>6
  <2>3. Cardinality(still) = Cardinality(waiting) - 1 /\ IsFiniteSet(still)
    <3> HIDE DEF waiting, still
    <3>1. QED
      BY <2>1, <2>2, FS_RemoveElement
  <2>4. Len(ruled) + Cardinality(waiting) <= Cardinality(Hits) /\ Len(ruled) \in Nat
    BY <1>4, Places DEF HitsAgree
  <2> HIDE DEF waiting, still
  <2>5. QED
    BY <1>2, <2>1, <2>3, <2>4, FS_CardinalityType
<1>8. RateTypeOK'
  <2>1. Len(ruled') <= Cardinality(Hits)
    <3> HIDE DEF still
    <3>1. Len(ruled') \in Nat
      BY <1>2, LenProperties
    <3>2. QED
      BY <1>7, <3>1
  <2>2. hitAt' \in [Hits -> {"idle", "script", "ruled", "unlimited"}]
    BY <1>2, <1>5
  <2>3. now' \in Instants /\ expiresAt' \in 0 .. LastInstant + windowMs /\ faults' \in FaultSets
    BY <1>2, <1>4, <1>5 DEF RateTypeOK
  <2>4. QED
    BY <1>2, <2>1, <2>2, <2>3 DEF RateTypeOK
<1>9. HitsAgree'
  <2>1. \A g \in Hits :
          /\ hitAt'[g] = "ruled" <=> g \in Ruled'
          /\ hitAt'[g] # "ruled" => ~hit'[g].allowed
          /\ hitAt'[g] \in {"script", "ruled"} =>
               /\ hit'[g].limit \in Limits /\ hit'[g].time <= now'
               /\ "mixed" \notin faults' => hit'[g].limit = Usual
    BY SMTT(30), <1>2, <1>3, <1>4, <1>6 DEF HitsAgree
  <2>2. \A e \in window' : e.member \in Allowed' /\ e.score = hit'[e.member].time
    <3>1. Allowed \subseteq Hits /\ h \notin Allowed
      BY <1>3, <1>4, Places
    <3>2. ASSUME NEW e \in kept PROVE e.member \in Allowed' /\ e.score = hit'[e.member].time
      <4>1. e.member \in Allowed /\ e.score = hit[e.member].time
        BY <1>2, <1>4 DEF HitsAgree
      <4>2. QED
        BY <1>2, <1>3, <3>1, <4>1
    <3>3. ~full => entry.member \in Allowed' /\ entry.score = hit'[entry.member].time
      BY <1>2, <1>3
    <3> HIDE DEF entry
    <3>4. QED
      BY <1>2, <3>2, <3>3
  <2>3. expiresAt' <= now' + windowMs
    BY <1>2, <1>4, <1>5 DEF HitsAgree
  <2>4. QED
    BY <1>3, <1>7, <2>1, <2>2, <2>3 DEF HitsAgree
<1>10. QED
  BY <1>8, <1>9

\* Members of a part of the window are requests allowed before.
LEMMA RuleKeepsWindow == ASSUME RateInv, NEW h \in Hits, SlidingWindow(h) PROVE WindowHoldsAll'
<1>0. PICK t, kept : t = hit[h].time /\ kept = Pruned(t)
  OBVIOUS
<1>1. PICK full \in BOOLEAN : t = hit[h].time /\ kept = Pruned(t) /\ (full <=> Cardinality(kept) >= hit[h].limit)
  BY <1>0
<1> DEFINE entry == [score |-> t, member |-> h]
<1>2. /\ hitAt[h] = "script" /\ t \in Instants /\ t <= now
      /\ window' = IF full THEN kept ELSE kept \cup {entry}
      /\ hit'[h].time = t
      /\ \A g \in Hits : g # h => hit'[g] = hit[g]
      /\ hitAt' = [hitAt EXCEPT ![h] = "ruled"]
      /\ now' = now /\ faults' = faults /\ expiresAt' = IF full THEN expiresAt ELSE now + windowMs
  BY <1>1, RuleEffects
<1>3. /\ h \notin Ruled /\ Allowed' = IF full THEN Allowed ELSE Allowed \cup {h}
  BY <1>1, RuledThen
<1>4. RateTypeOK /\ HitsAgree /\ WindowHoldsAll
  BY DEF RateInv
<1>5. Allowed \subseteq Hits /\ h \notin Allowed
  BY <1>3, <1>4, Places
<1>6. /\ now \in Nat /\ expiresAt \in Nat /\ windowMs \in Nat /\ expiresAt <= now + windowMs
      /\ hitAt \in [Hits -> {"idle", "script", "ruled", "unlimited"}]
      /\ \A g \in Hits : hit[g].time \in Nat
  BY <1>4, LimitAssumption DEF RateTypeOK, Instants, HitsAgree
<1>7. SUFFICES ASSUME "late" \notin faults
               PROVE  /\ \A g \in Hits : hitAt'[g] = "script" => hit'[g].time = now'
                      /\ \A g \in Allowed' :
                           /\ hit'[g].time + windowMs <= expiresAt'
                           /\ hit'[g].time > now' - windowMs =>
                                [score |-> hit'[g].time, member |-> g] \in window'
  BY <1>2 DEF WindowHoldsAll
<1>8. t = now
  BY <1>1, <1>2, <1>4, <1>7 DEF WindowHoldsAll
<1>9. \A g \in Hits : hitAt'[g] = "script" => hit'[g].time = now'
  BY <1>2, <1>4, <1>6, <1>7 DEF WindowHoldsAll
<1>10. ASSUME NEW g \in Allowed
       PROVE  /\ hit'[g].time + windowMs <= expiresAt'
              /\ hit'[g].time > now' - windowMs => [score |-> hit'[g].time, member |-> g] \in window'
  <2>1. /\ hit'[g] = hit[g] /\ hit[g].time + windowMs <= expiresAt
        /\ hit[g].time > now - windowMs => [score |-> hit[g].time, member |-> g] \in window
    BY <1>2, <1>4, <1>5, <1>7 DEF WindowHoldsAll
  <2>2. hit[g].time \in Nat
    BY <1>5, <1>6
  <2>3. hit[g].time > now - windowMs => [score |-> hit[g].time, member |-> g] \in kept
    BY <1>1, <1>8, <2>1, <2>2 DEF Pruned
  <2>4. hit'[g].time > now' - windowMs => [score |-> hit'[g].time, member |-> g] \in window'
    BY <1>2, <2>1, <2>3
  <2>5. hit'[g].time + windowMs <= expiresAt'
    BY <1>2, <1>6, <2>1, <2>2
  <2>6. QED
    BY <2>4, <2>5
<1>11. ~full => /\ hit'[h].time + windowMs <= expiresAt'
                /\ [score |-> hit'[h].time, member |-> h] \in window'
  BY <1>2, <1>6, <1>8
<1>12. QED
  BY <1>3, <1>9, <1>10, <1>11
LEMMA RuleRefusesFull == ASSUME RateInv, NEW h \in Hits, SlidingWindow(h) PROVE RefusedOnlyWhenFull'
<1>0. PICK t, kept : t = hit[h].time /\ kept = Pruned(t)
  OBVIOUS
<1>1. PICK full \in BOOLEAN : t = hit[h].time /\ kept = Pruned(t) /\ (full <=> Cardinality(kept) >= hit[h].limit)
  BY <1>0
<1>2. /\ kept \in SUBSET window /\ hit'[h].limit = hit[h].limit /\ hit'[h].time = t /\ hit'[h].allowed = ~full
      /\ \A g \in Hits : g # h => hit'[g] = hit[g]
      /\ hit[h].limit \in Limits
  BY <1>1, RuleEffects
<1>3. /\ h \notin Ruled /\ Ruled' = Ruled \cup {h}
      /\ Allowed' = IF full THEN Allowed ELSE Allowed \cup {h}
      /\ Position(h)' = Len(ruled) + 1
      /\ \A g \in Ruled : Position(g)' = Position(g) /\ Position(g) \in 1 .. Len(ruled)
  BY <1>1, RuledThen
<1>4. RateTypeOK /\ HitsAgree /\ RefusedOnlyWhenFull
  BY DEF RateInv
<1>5. Ruled \subseteq Hits /\ Allowed \subseteq Ruled /\ Len(ruled) \in Nat
  BY <1>4, Places
<1> DEFINE Before(g) == {f \in Allowed : Position(f) < Position(g) /\ hit[f].time > hit[g].time - windowMs}
<1>6. ASSUME NEW g \in Ruled, ~hit'[g].allowed PROVE hit'[g].limit <= Cardinality(Before(g)')
  <2>1. hit'[g] = hit[g] /\ hit[g].limit <= Cardinality(Before(g))
    BY <1>2, <1>3, <1>4, <1>5, <1>6 DEF RefusedOnlyWhenFull
  <2>2. Before(g)' = Before(g)
    BY <1>2, <1>3, <1>5, <2>1
  <2>3. QED
    BY <2>1, <2>2
<1>7. ASSUME ~hit'[h].allowed PROVE hit'[h].limit <= Cardinality(Before(h)')
  <2>1. full /\ Allowed' = Allowed
    BY <1>2, <1>3, <1>7
  <2> DEFINE members == {f \in Allowed : hit[f].time > t - windowMs}
             time == [f \in Hits |-> hit[f].time]
  <2>2. Before(h)' = members
    BY <1>2, <1>3, <1>5, <2>1
  <2>3. /\ kept \subseteq [score : Instants, member : Hits]
        /\ \A e \in kept : e.member \in members /\ e.score = time[e.member]
    BY <1>1, <1>2, <1>4, <1>5 DEF Pruned, HitsAgree, RateTypeOK
  <2>4. IsFiniteSet(members)
    <3>1. members \in SUBSET Hits
      BY <1>5
    <3>2. QED
      BY <3>1, LimitAssumption, FS_Subset
  <2>5. Cardinality(kept) <= Cardinality(members) /\ Cardinality(kept) \in Nat /\ Cardinality(members) \in Nat
    <3> HIDE DEF members, time
    <3>1. QED
      BY <2>3, <2>4, EntriesCount
  <2>6. hit[h].limit \in Nat
    BY <1>2, LimitAssumption
  <2>7. hit[h].limit <= Cardinality(members)
    <3> HIDE DEF members
    <3>1. QED
      BY <1>1, <2>1, <2>5, <2>6
  <2> HIDE DEF members, Before
  <2>8. QED
    BY <1>2, <2>2, <2>7
<1>8. QED
  BY <1>3, <1>6, <1>7 DEF RefusedOnlyWhenFull

\* A set grows by one at most when an element is added.
LEMMA OneMore ==
  ASSUME NEW S, NEW x, IsFiniteSet(S)
  PROVE  Cardinality(S \cup {x}) \in Nat /\ Cardinality(S \cup {x}) <= Cardinality(S) + 1
<1>1. Cardinality(S) \in Nat
  BY FS_CardinalityType
<1>2. CASE x \in S
  <2>1. S \cup {x} = S
    BY <1>2
  <2>2. QED
    BY <1>1, <2>1
<1>3. CASE x \notin S
  BY <1>1, <1>3, FS_AddElement
<1>4. QED
  BY <1>2, <1>3

LEMMA RuleNeverExceeds == ASSUME RateInv, NEW h \in Hits, SlidingWindow(h) PROVE WindowNeverExceeded'
<1>0. PICK t, kept : t = hit[h].time /\ kept = Pruned(t)
  OBVIOUS
<1>1. PICK full \in BOOLEAN : t = hit[h].time /\ kept = Pruned(t) /\ (full <=> Cardinality(kept) >= hit[h].limit)
  BY <1>0
<1>2. /\ kept \in SUBSET window /\ hit'[h].limit = hit[h].limit /\ hit'[h].time = t
      /\ \A g \in Hits : g # h => hit'[g] = hit[g]
      /\ hit[h].limit \in Limits /\ hitAt[h] = "script" /\ t \in Instants /\ faults' = faults
  BY <1>1, RuleEffects
<1>3. /\ h \notin Ruled /\ Allowed' = IF full THEN Allowed ELSE Allowed \cup {h}
  BY <1>1, RuledThen
<1>4. RateTypeOK /\ HitsAgree /\ WindowHoldsAll /\ WindowNeverExceeded
  BY DEF RateInv
<1>5. Allowed \subseteq Hits /\ h \notin Allowed
  BY <1>3, <1>4, Places
<1>6. /\ windowMs \in Nat \ {0} /\ now \in Nat
      /\ \A g \in Hits : hit[g].time \in Nat
      /\ \A g \in Allowed : hit[g].time <= now
  BY <1>4, <1>5, LimitAssumption, Places DEF RateTypeOK, Instants, HitsAgree
<1>7. SUFFICES ASSUME "late" \notin faults, NEW last \in Allowed'
               PROVE  \E g \in AllowedUntil(hit[last].time)' :
                        Cardinality(AllowedUntil(hit[last].time)') <= hit'[g].limit
  BY <1>2 DEF WindowNeverExceeded
<1>8. t = now
  BY <1>1, <1>2, <1>4, <1>7 DEF WindowHoldsAll
<1>9. CASE last # h /\ (full \/ hit[last].time # now)
  <2>1. last \in Allowed /\ hit'[last] = hit[last]
    BY <1>2, <1>3, <1>5, <1>7, <1>9
  <2>2. PICK u : u = hit[last].time /\ u \in Nat
    BY <1>5, <1>6, <2>1
  <2>3. AllowedUntil(hit[last].time)' = AllowedUntil(u)
    <3>1. full \/ u < now
      BY <1>6, <1>9, <2>1, <2>2
    <3>2. \A g \in Allowed : hit'[g] = hit[g]
      BY <1>2, <1>5
    <3>3. {g \in Allowed' : hit'[g].time > u - windowMs /\ hit'[g].time <= u} = AllowedUntil(u)
      BY <1>2, <1>3, <1>6, <1>8, <2>2, <3>1, <3>2 DEF AllowedUntil
    <3>4. QED
      BY <2>1, <2>2, <3>3 DEF AllowedUntil
  <2>4. PICK g \in AllowedUntil(u) : Cardinality(AllowedUntil(u)) <= hit[g].limit
    BY <1>4, <1>7, <2>1, <2>2 DEF WindowNeverExceeded
  <2>5. hit'[g] = hit[g]
    BY <1>2, <1>5, <2>4 DEF AllowedUntil
  <2>6. QED
    BY <2>3, <2>4, <2>5
<1>10. CASE ~full /\ (last = h \/ hit[last].time = now)
  <2>1. hit'[last].time = now
    BY <1>2, <1>3, <1>5, <1>8, <1>10
  <2>2. AllowedUntil(hit[last].time)' = AllowedUntil(now) \cup {h}
    <3>1. \A g \in Allowed : hit'[g] = hit[g]
      BY <1>2, <1>5
    <3>2. {g \in Allowed' : hit'[g].time > now - windowMs /\ hit'[g].time <= now} = AllowedUntil(now) \cup {h}
      BY <1>2, <1>3, <1>6, <1>8, <1>10, <3>1 DEF AllowedUntil
    <3>3. QED
      BY <2>1, <3>2 DEF AllowedUntil
  <2> DEFINE before == AllowedUntil(now)
             f == [g \in before |-> [score |-> hit[g].time, member |-> g]]
  <2>3. IsFiniteSet(kept) /\ Cardinality(kept) \in Nat /\ IsFiniteSet(Allowed)
    BY <1>2, <1>4, WindowIsFinite
  <2>4. f \in Injection(before, kept)
    <3>1. \A g \in before : f[g] \in kept
      BY <1>1, <1>4, <1>7, <1>8 DEF AllowedUntil, WindowHoldsAll, Pruned
    <3>2. QED
      BY <3>1 DEF Injection, IsInjective
  <2>5. Cardinality(before) <= Cardinality(kept)
    <3> HIDE DEF f, before
    <3>1. QED
      BY <2>3, <2>4, FS_Injection
  <2>6. IsFiniteSet(before) /\ h \notin before
    <3>1. before \in SUBSET Allowed
      BY DEF AllowedUntil
    <3>2. QED
      BY <1>5, <2>3, <3>1, FS_Subset
  <2>7. Cardinality(before \cup {h}) = Cardinality(before) + 1 /\ Cardinality(before) \in Nat
    <3> HIDE DEF before
    <3>1. QED
      BY <2>6, FS_AddElement, FS_CardinalityType
  <2>8. hit[h].limit \in Nat
    BY <1>2, LimitAssumption
  <2>9. Cardinality(before \cup {h}) <= hit'[h].limit
    <3> HIDE DEF before
    <3>1. QED
      BY <1>1, <1>2, <1>10, <2>3, <2>5, <2>7, <2>8
  <2>10. h \in AllowedUntil(hit[last].time)'
    BY <2>2
  <2>11. Cardinality(AllowedUntil(hit[last].time)') <= hit'[h].limit
    BY <2>2, <2>9
  <2>12. QED
    BY <2>10, <2>11
<1>11. QED
  BY <1>3, <1>5, <1>7, <1>9, <1>10
LEMMA RuleKeepsRoom == ASSUME RateInv, NEW h \in Hits, SlidingWindow(h) PROVE RoomComes'
<1>0. PICK t, kept : t = hit[h].time /\ kept = Pruned(t)
  OBVIOUS
<1>1. PICK full \in BOOLEAN : t = hit[h].time /\ kept = Pruned(t) /\ (full <=> Cardinality(kept) >= hit[h].limit)
  BY <1>0
<1> DEFINE entry == [score |-> t, member |-> h]
<1>2. /\ kept \in SUBSET window /\ hit'[h].allowed = ~full
      /\ window' = IF full THEN kept ELSE kept \cup {entry}
      /\ window' # {} /\ IsFiniteSet(window') /\ window' \subseteq [score : Instants, member : Hits]
      /\ hit'[h].reset = Oldest(window') + windowMs
      /\ \A g \in Hits : g # h => hit'[g] = hit[g]
      /\ hit[h].limit \in Limits /\ hitAt[h] = "script" /\ faults' = faults
  BY <1>1, RuleEffects
<1>3. /\ h \notin Ruled /\ Ruled' = Ruled \cup {h}
      /\ Allowed' = IF full THEN Allowed ELSE Allowed \cup {h}
      /\ Position(h)' = Len(ruled) + 1
      /\ \A g \in Ruled : Position(g)' = Position(g) /\ Position(g) \in 1 .. Len(ruled)
  BY <1>1, RuledThen
<1>4. RateTypeOK /\ HitsAgree /\ RoomComes
  BY DEF RateInv
<1>5. Ruled \subseteq Hits /\ Allowed \subseteq Ruled /\ Len(ruled) \in Nat
  BY <1>4, Places
<1>6. SUFFICES ASSUME "mixed" \notin faults
               PROVE  /\ Cardinality(window') <= Usual
                      /\ \A g \in Ruled' :
                           (~hit'[g].allowed /\ \A f \in Allowed' : Position(f)' < Position(g)') =>
                             Cardinality(NewerThan(hit[g].reset - windowMs)') < Usual
  BY <1>2 DEF RoomComes
<1>7. /\ Cardinality(window) <= Usual /\ hit[h].limit = Usual /\ Usual \in Nat /\ windowMs \in Nat
      /\ IsFiniteSet(window) /\ IsFiniteSet(kept) /\ Cardinality(kept) \in Nat /\ Cardinality(window) \in Nat
  BY <1>2, <1>4, <1>6, WindowIsFinite, LimitAssumption DEF RoomComes, HitsAgree
<1>8. Cardinality(window') <= Usual
  <2>1. Cardinality(kept) <= Cardinality(window)
    BY <1>2, <1>7, FS_Subset
  <2>2. Cardinality(kept \cup {entry}) <= Cardinality(kept) + 1 /\ Cardinality(kept \cup {entry}) \in Nat
    <3>1. IsFiniteSet(kept)
      BY <1>7
    <3>2. QED
      BY <3>1, OneMore
  <2> HIDE DEF entry
  <2>3. QED
    BY <1>1, <1>2, <1>7, <2>1, <2>2
<1>9. ASSUME NEW g \in Ruled, ~hit'[g].allowed, \A f \in Allowed' : Position(f)' < Position(g)'
      PROVE  Cardinality(NewerThan(hit[g].reset - windowMs)') < Usual
  <2>1. full /\ Allowed' = Allowed /\ hit'[g] = hit[g]
    BY <1>2, <1>3, <1>5, <1>9
  <2>2. PICK u : u = hit[g].reset - windowMs
    OBVIOUS
  <2>3. Cardinality(NewerThan(u)) < Usual
    BY <1>3, <1>4, <1>5, <1>6, <1>9, <2>1, <2>2 DEF RoomComes
  <2>4. NewerThan(hit[g].reset - windowMs)' \in SUBSET NewerThan(u)
    BY <1>2, <2>1, <2>2 DEF NewerThan
  <2>5. NewerThan(u) \in SUBSET window
    BY DEF NewerThan
  <2>6. IsFiniteSet(NewerThan(u)) /\ Cardinality(NewerThan(u)) \in Nat
    BY <1>4, <2>5, WindowIsFinite
  <2>7. /\ Cardinality(NewerThan(hit[g].reset - windowMs)') <= Cardinality(NewerThan(u))
        /\ Cardinality(NewerThan(hit[g].reset - windowMs)') \in Nat
    BY <2>4, <2>6, FS_Subset, FS_CardinalityType
  <2>8. QED
    BY <1>7, <2>3, <2>6, <2>7
<1>10. ASSUME ~hit'[h].allowed PROVE Cardinality(NewerThan(hit[h].reset - windowMs)') < Usual
  <2>1. full /\ window' = kept
    BY <1>2, <1>10
  <2>2. PICK u : u = Oldest(window')
    OBVIOUS
  <2>3. u \in Instants /\ \E e \in window' : e.score = u
    BY <1>2, <2>2, OldestIs
  <2>4. hit'[h].reset - windowMs = u
    BY <1>2, <1>7, <2>2, <2>3, LimitAssumption DEF Instants
  <2>5. PICK e \in kept : e.score = u
    BY <2>1, <2>3
  <2>6. NewerThan(hit[h].reset - windowMs)' \in SUBSET (kept \ {e})
    BY <2>1, <2>3, <2>4, <2>5, LimitAssumption DEF NewerThan, Instants
  <2>7. IsFiniteSet(kept \ {e}) /\ Cardinality(kept \ {e}) = Cardinality(kept) - 1
    BY <1>7, <2>5, FS_RemoveElement
  <2>8. /\ Cardinality(NewerThan(hit[h].reset - windowMs)') <= Cardinality(kept \ {e})
        /\ Cardinality(NewerThan(hit[h].reset - windowMs)') \in Nat
    BY <2>6, <2>7, FS_Subset, FS_CardinalityType
  <2>9. QED
    BY <1>7, <1>8, <2>1, <2>7, <2>8
<1>11. QED
  BY <1>3, <1>8, <1>9, <1>10

LEMMA RuleFrees == ASSUME RateInv, NEW h \in Hits, SlidingWindow(h) PROVE RetryAfterFrees'
<1>0. PICK t, kept : t = hit[h].time /\ kept = Pruned(t)
  OBVIOUS
<1>1. PICK full \in BOOLEAN : t = hit[h].time /\ kept = Pruned(t) /\ (full <=> Cardinality(kept) >= hit[h].limit)
  BY <1>0
<1>2. /\ kept \in SUBSET window /\ hit'[h].allowed = ~full /\ hit'[h].time = t /\ t \in Instants
      /\ \A g \in Hits : g # h => hit'[g] = hit[g]
      /\ hit[h].limit \in Limits /\ hitAt[h] = "script" /\ faults' = faults
  BY <1>1, RuleEffects
<1>3. /\ h \notin Ruled /\ Ruled' = Ruled \cup {h}
      /\ Allowed' = IF full THEN Allowed ELSE Allowed \cup {h}
      /\ Position(h)' = Len(ruled) + 1
      /\ \A g \in Ruled : Position(g)' = Position(g) /\ Position(g) \in 1 .. Len(ruled)
  BY <1>1, RuledThen
<1>4. RateTypeOK /\ HitsAgree /\ RoomComes /\ RetryAfterFrees
  BY DEF RateInv
<1>5. /\ Ruled \subseteq Hits /\ Allowed \subseteq Ruled /\ Len(ruled) \in Nat
      /\ \A g \in Ruled : ruled[Position(g)] = g
  BY <1>4, Places
<1>6. SUFFICES ASSUME "mixed" \notin faults, NEW f \in Ruled', NEW g \in Ruled',
                      Position(f)' < Position(g)', ~hit'[f].allowed, ~hit'[g].allowed,
                      hit'[g].time >= hit'[f].reset
               PROVE  \E a \in Allowed' : Position(f)' < Position(a)' /\ Position(a)' < Position(g)'
  BY <1>2 DEF RetryAfterFrees
<1>7. f \in Ruled /\ hit'[f] = hit[f] /\ Position(f)' = Position(f)
  BY <1>2, <1>3, <1>5, <1>6
<1>8. CASE g # h
  <2>1. g \in Ruled /\ hit'[g] = hit[g] /\ Position(g)' = Position(g)
    BY <1>2, <1>3, <1>5, <1>6, <1>8
  <2>2. PICK a \in Allowed : Position(f) < Position(a) /\ Position(a) < Position(g)
    BY <1>2, <1>4, <1>6, <1>7, <2>1 DEF RetryAfterFrees
  <2>3. a \in Allowed' /\ Position(a)' = Position(a)
    BY <1>3, <1>5, <2>2
  <2>4. QED
    BY <1>7, <2>1, <2>2, <2>3
<1>9. CASE g = h
  <2>1. full /\ Allowed' = Allowed
    BY <1>2, <1>3, <1>6, <1>9
  <2>2. CASE \E a \in Allowed : Position(f) < Position(a)
    BY <1>3, <1>5, <1>7, <1>9, <2>1, <2>2
  <2>3. CASE \A a \in Allowed : ~(Position(f) < Position(a))
    <3>1. \A a \in Allowed : Position(a) < Position(f)
      <4>1. f \notin Allowed
        BY <1>6, <1>7 DEF Allowed
      <4>2. QED
        BY <1>3, <1>5, <1>7, <2>3, <4>1
    <3>2. PICK u : u = hit[f].reset - windowMs
      OBVIOUS
    <3>3. Cardinality(NewerThan(u)) < Usual
      BY <1>4, <1>6, <1>7, <3>1, <3>2 DEF RoomComes
    <3>4. hit[f].reset \in Nat /\ windowMs \in Nat /\ t \in Nat /\ t >= hit[f].reset
          /\ \A e \in window : e.score \in Nat
      BY <1>2, <1>4, <1>5, <1>6, <1>7, <1>9, LimitAssumption DEF RateTypeOK, Instants
    <3>5. kept \in SUBSET NewerThan(u)
      BY <1>1, <3>2, <3>4 DEF Pruned, NewerThan
    <3>6. NewerThan(u) \in SUBSET window
      BY DEF NewerThan
    <3>7. IsFiniteSet(NewerThan(u)) /\ Cardinality(NewerThan(u)) \in Nat
      BY <1>4, <3>6, WindowIsFinite
    <3>8. Cardinality(kept) <= Cardinality(NewerThan(u)) /\ Cardinality(kept) \in Nat
      BY <3>5, <3>7, FS_Subset, FS_CardinalityType
    <3>9. hit[h].limit = Usual /\ Usual \in Nat
      BY <1>2, <1>4, <1>6, LimitAssumption DEF HitsAgree
    <3>10. QED
      BY <1>1, <2>1, <3>3, <3>7, <3>8, <3>9
  <2>4. QED
    BY <2>2, <2>3
<1>10. QED
  BY <1>8, <1>9
\* A step that rules on nothing leaves what was ruled, and adds nothing to the window.
Unruled ==
  /\ ruled' = ruled /\ faults' = faults /\ window' \subseteq window
  /\ \A g \in Ruled : hit'[g] = hit[g]

LEMMA UnruledKeeps ==
  ASSUME RateInv, Unruled
  PROVE  /\ Ruled' = Ruled /\ Allowed' = Allowed
         /\ RoomComes' /\ WindowNeverExceeded' /\ RefusedOnlyWhenFull' /\ RetryAfterFrees'
<1>1. RateTypeOK /\ HitsAgree
  BY DEF RateInv
<1>2. Allowed \subseteq Ruled /\ Ruled' = Ruled
  BY <1>1, Places DEF Unruled, Ruled
<1>3. Allowed' = Allowed
  BY <1>2 DEF Unruled, Allowed
<1>4. \A g \in Ruled : Position(g)' = Position(g) /\ hit'[g] = hit[g]
  BY DEF Position, Unruled
<1>5. RoomComes'
  <2>1. SUFFICES ASSUME "mixed" \notin faults
                 PROVE  /\ Cardinality(window') <= Usual
                        /\ \A g \in Ruled :
                             (~hit'[g].allowed /\ \A f \in Allowed : Position(f)' < Position(g)') =>
                               Cardinality(NewerThan(hit[g].reset - windowMs)') < Usual
    BY <1>2, <1>3 DEF RoomComes, Unruled
  <2>2. Usual \in Nat /\ Cardinality(window) <= Usual
    BY <2>1, LimitAssumption DEF RateInv, RoomComes
  <2>3. IsFiniteSet(window) /\ Cardinality(window) \in Nat /\ window' \in SUBSET window
    BY <1>1, WindowIsFinite DEF Unruled
  <2>4. Cardinality(window') <= Cardinality(window) /\ Cardinality(window') \in Nat
    BY <2>3, FS_Subset, FS_CardinalityType
  <2>5. ASSUME NEW g \in Ruled, ~hit'[g].allowed, \A f \in Allowed : Position(f)' < Position(g)'
        PROVE  Cardinality(NewerThan(hit[g].reset - windowMs)') < Usual
    <3>1. PICK u : u = hit[g].reset - windowMs
      OBVIOUS
    <3>2. Cardinality(NewerThan(u)) < Usual
      BY <1>2, <1>4, <2>1, <2>5, <3>1 DEF RateInv, RoomComes
    <3>3. NewerThan(hit[g].reset - windowMs)' \in SUBSET NewerThan(u)
      BY <1>4, <2>3, <3>1 DEF NewerThan
    <3>4. NewerThan(u) \in SUBSET window
      BY DEF NewerThan
    <3>5. IsFiniteSet(NewerThan(u)) /\ Cardinality(NewerThan(u)) \in Nat
      BY <1>1, <3>4, WindowIsFinite
    <3>6. /\ Cardinality(NewerThan(hit[g].reset - windowMs)') <= Cardinality(NewerThan(u))
          /\ Cardinality(NewerThan(hit[g].reset - windowMs)') \in Nat
      BY <3>3, <3>5, FS_Subset, FS_CardinalityType
    <3>7. QED
      BY <2>2, <3>2, <3>5, <3>6
  <2>6. QED
    BY <2>2, <2>3, <2>4, <2>5
<1>6. WindowNeverExceeded'
  <2>1. ASSUME NEW u PROVE AllowedUntil(u)' = AllowedUntil(u)
    BY <1>2, <1>3, <1>4 DEF AllowedUntil
  <2>2. ASSUME "late" \notin faults, NEW last \in Allowed
        PROVE  \E g \in AllowedUntil(hit[last].time)' :
                 Cardinality(AllowedUntil(hit[last].time)') <= hit'[g].limit
    <3>1. PICK u : u = hit[last].time
      OBVIOUS
    <3>2. PICK g \in AllowedUntil(u) : Cardinality(AllowedUntil(u)) <= hit[g].limit
      BY <2>2, <3>1 DEF RateInv, WindowNeverExceeded
    <3>3. AllowedUntil(hit[last].time)' = AllowedUntil(u)
      <4>1. hit'[last].time = u
        BY <1>2, <1>4, <3>1
      <4>2. {a \in Allowed' : hit'[a].time > u - windowMs /\ hit'[a].time <= u} = AllowedUntil(u)
        BY <2>1 DEF AllowedUntil
      <4>3. QED
        BY <4>1, <4>2 DEF AllowedUntil
    <3>4. hit'[g] = hit[g]
      BY <1>2, <1>4, <3>2 DEF AllowedUntil
    <3>5. QED
      BY <3>2, <3>3, <3>4
  <2>3. QED
    BY <1>3, <2>2 DEF WindowNeverExceeded, Unruled
<1>7. RefusedOnlyWhenFull'
  <2> DEFINE Before(g) == {f \in Allowed : Position(f) < Position(g) /\ hit[f].time > hit[g].time - windowMs}
  <2>1. ASSUME NEW g \in Ruled, ~hit'[g].allowed PROVE hit'[g].limit <= Cardinality(Before(g)')
    <3>1. hit'[g] = hit[g] /\ hit[g].limit <= Cardinality(Before(g))
      BY <1>4, <2>1 DEF RateInv, RefusedOnlyWhenFull
    <3>2. Before(g)' = Before(g)
      BY <1>2, <1>3, <1>4
    <3>3. QED
      BY <3>1, <3>2
  <2>2. QED
    BY <1>2, <2>1 DEF RefusedOnlyWhenFull
<1>8. RetryAfterFrees'
  BY <1>2, <1>3, <1>4 DEF RateInv, RetryAfterFrees, Unruled
<1>9. QED
  BY <1>2, <1>3, <1>5, <1>6, <1>7, <1>8

LEMMA ArrivesKeepsInv ==
  ASSUME RateInv, NEW h \in Hits, PassUnlimited(h) \/ canActivate(h) PROVE RateInv'
<1>1. RateTypeOK /\ HitsAgree /\ WindowHoldsAll
  BY DEF RateInv
<1>2. /\ hit \in [Hits -> [limit : Limits \cup {None}, time : Instants, allowed : BOOLEAN,
                           reset : 0 .. LastInstant + windowMs]]
      /\ hitAt \in [Hits -> {"idle", "script", "ruled", "unlimited"}]
  BY <1>1 DEF RateTypeOK
<1>3. /\ hitAt[h] = "idle" /\ UNCHANGED <<now, window, expiresAt, ruled, faults>>
      /\ \/ hitAt' = [hitAt EXCEPT ![h] = "unlimited"] /\ hit' = hit
         \/ /\ hitAt' = [hitAt EXCEPT ![h] = "script"]
            /\ \E limit \in IF "mixed" \in faults THEN Limits ELSE {Usual} :
                 hit' = [hit EXCEPT ![h].limit = limit, ![h].time = now]
  BY DEF PassUnlimited, canActivate, Arrives
<1>4. /\ hit' \in [Hits -> [limit : Limits \cup {None}, time : Instants, allowed : BOOLEAN,
                            reset : 0 .. LastInstant + windowMs]]
      /\ \A g \in Hits : g # h => hit'[g] = hit[g] /\ hitAt'[g] = hitAt[g]
      /\ hit'[h].allowed = hit[h].allowed /\ hitAt'[h] \in {"unlimited", "script"}
      /\ hitAt'[h] = "script" =>
           /\ hit'[h].limit \in Limits /\ hit'[h].time = now
           /\ "mixed" \notin faults => hit'[h].limit = Usual
  <2>1. CASE hitAt' = [hitAt EXCEPT ![h] = "unlimited"] /\ hit' = hit
    BY <1>2, <2>1
  <2>2. ASSUME NEW limit \in IF "mixed" \in faults THEN Limits ELSE {Usual},
               hitAt' = [hitAt EXCEPT ![h] = "script"],
               hit' = [hit EXCEPT ![h].limit = limit, ![h].time = now]
        PROVE  <1>4
    <3>1. limit \in Limits /\ now \in Instants /\ ("mixed" \notin faults => limit = Usual)
      BY <1>1, LimitAssumption DEF RateTypeOK
    <3>2. hit' = [hit EXCEPT ![h] = [hit[h] EXCEPT !.limit = limit, !.time = now]]
      BY <1>2, <2>2
    <3> DEFINE record == [hit[h] EXCEPT !.limit = limit, !.time = now]
    <3>3. /\ record \in [limit : Limits \cup {None}, time : Instants, allowed : BOOLEAN,
                         reset : 0 .. LastInstant + windowMs]
          /\ record.limit = limit /\ record.time = now /\ record.allowed = hit[h].allowed
      BY <1>2, <3>1
    <3> HIDE DEF record
    <3>4. hit'[h] = record /\ \A g \in Hits : g # h => hit'[g] = hit[g]
      BY <1>2, <3>2 DEF record
    <3>5. hit' \in [Hits -> [limit : Limits \cup {None}, time : Instants, allowed : BOOLEAN,
                            reset : 0 .. LastInstant + windowMs]]
      BY <1>2, <3>2, <3>3 DEF record
    <3>6. QED
      BY <1>2, <2>2, <3>1, <3>3, <3>4, <3>5
  <2>3. QED
    BY <1>3, <2>1, <2>2
<1>5. h \notin Ruled /\ Ruled \subseteq Hits /\ Allowed \subseteq Ruled
  BY <1>1, <1>3, Places DEF HitsAgree
<1>6. Unruled
  BY <1>3, <1>4, <1>5 DEF Unruled
<1>7. /\ Ruled' = Ruled /\ Allowed' = Allowed
      /\ RoomComes' /\ WindowNeverExceeded' /\ RefusedOnlyWhenFull' /\ RetryAfterFrees'
  BY <1>6, UnruledKeeps
<1>8. RateTypeOK'
  BY <1>1, <1>2, <1>3, <1>4 DEF RateTypeOK
<1>9. HitsAgree'
  <2>1. {g \in Hits : hitAt'[g] # "ruled"} = {g \in Hits : hitAt[g] # "ruled"}
    BY <1>3, <1>4
  <2>2. \A g \in Hits :
          /\ hitAt'[g] = "ruled" <=> g \in Ruled'
          /\ hitAt'[g] # "ruled" => ~hit'[g].allowed
          /\ hitAt'[g] \in {"script", "ruled"} =>
               /\ hit'[g].limit \in Limits /\ hit'[g].time <= now'
               /\ "mixed" \notin faults' => hit'[g].limit = Usual
    <3>1. now \in Nat
      BY <1>1, LimitAssumption DEF RateTypeOK, Instants
    <3>2. QED
      BY <1>1, <1>3, <1>4, <1>5, <1>7, <3>1 DEF HitsAgree
  <2>3. \A e \in window' : e.member \in Allowed' /\ e.score = hit'[e.member].time
    BY <1>1, <1>3, <1>4, <1>5, <1>7 DEF HitsAgree
  <2>4. QED
    BY <1>1, <1>3, <2>1, <2>2, <2>3 DEF HitsAgree
<1>10. WindowHoldsAll'
  BY <1>1, <1>3, <1>4, <1>5, <1>7 DEF WindowHoldsAll
<1>11. QED
  BY <1>7, <1>8, <1>9, <1>10 DEF RateInv

LEMMA TickKeepsInv == ASSUME RateInv, RateTick PROVE RateInv'
<1>1. RateTypeOK /\ HitsAgree /\ WindowHoldsAll
  BY DEF RateInv
<1>2. /\ now < LastInstant
      /\ "late" \in faults \/ \A h \in Hits : hitAt[h] # "script"
      /\ now' = now + 1 /\ window' = (IF now' >= expiresAt THEN {} ELSE window)
      /\ UNCHANGED <<expiresAt, hit, hitAt, ruled, faults>>
  BY DEF RateTick
<1>3. /\ now \in Nat /\ LastInstant \in Nat /\ expiresAt \in Nat /\ windowMs \in Nat
      /\ \A h \in Hits : hit[h].time \in Nat
  BY <1>1, LimitAssumption DEF RateTypeOK, Instants
<1>4. Unruled
  BY <1>2 DEF Unruled
<1>5. /\ Ruled' = Ruled /\ Allowed' = Allowed /\ Ruled \subseteq Hits /\ Allowed \subseteq Ruled
      /\ RoomComes' /\ WindowNeverExceeded' /\ RefusedOnlyWhenFull' /\ RetryAfterFrees'
  BY <1>1, <1>4, UnruledKeeps, Places
<1>6. RateTypeOK'
  <2>1. now' \in Instants
    BY <1>2, <1>3 DEF Instants
  <2>2. QED
    BY <1>1, <1>2, <2>1 DEF RateTypeOK
<1>7. HitsAgree'
  <2>1. \A g \in Hits :
          /\ hitAt'[g] = "ruled" <=> g \in Ruled'
          /\ hitAt'[g] # "ruled" => ~hit'[g].allowed
          /\ hitAt'[g] \in {"script", "ruled"} =>
               /\ hit'[g].limit \in Limits /\ hit'[g].time <= now'
               /\ "mixed" \notin faults' => hit'[g].limit = Usual
    BY <1>1, <1>2, <1>3, <1>5 DEF HitsAgree
  <2>2. \A e \in window' : e.member \in Allowed' /\ e.score = hit'[e.member].time
    BY <1>1, <1>2, <1>5 DEF HitsAgree
  <2>3. expiresAt' <= now' + windowMs
    BY <1>1, <1>2, <1>3 DEF HitsAgree
  <2>4. QED
    BY <1>1, <1>2, <2>1, <2>2, <2>3 DEF HitsAgree
<1>8. WindowHoldsAll'
  <2>1. ASSUME "late" \notin faults, NEW h \in Allowed
        PROVE  /\ hit'[h].time + windowMs <= expiresAt'
               /\ hit'[h].time > now' - windowMs => [score |-> hit'[h].time, member |-> h] \in window'
    <3>1. /\ hit[h].time \in Nat /\ hit[h].time + windowMs <= expiresAt
          /\ hit[h].time > now - windowMs => [score |-> hit[h].time, member |-> h] \in window
      BY <1>1, <1>3, <1>5, <2>1 DEF WindowHoldsAll
    <3>2. hit[h].time > now' - windowMs => hit[h].time > now - windowMs /\ ~(now' >= expiresAt)
      BY <1>2, <1>3, <3>1
    <3>3. QED
      BY <1>2, <3>1, <3>2
  <2>2. QED
    BY <1>2, <1>5, <2>1 DEF WindowHoldsAll
<1>9. QED
  BY <1>5, <1>6, <1>7, <1>8 DEF RateInv

LEMMA StartsRate == RateInit => RateInv
<1> SUFFICES ASSUME RateInit PROVE RateInv
  OBVIOUS
<1> USE LimitAssumption DEF RateInit
<1>1. Cardinality(Hits) \in Nat /\ Cardinality({}) = 0
  BY FS_CardinalityType, FS_EmptySet
<1>2. Len(ruled) = 0 /\ ruled \in Seq(Hits) /\ Ruled = {} /\ Allowed = {}
  BY DEF Ruled, Allowed
<1>3. Fresh \in [limit : Limits \cup {None}, time : Instants, allowed : BOOLEAN, reset : 0 .. LastInstant + windowMs]
  BY DEF Fresh, Instants
<1>4. RateTypeOK
  BY <1>1, <1>2, <1>3 DEF RateTypeOK, Instants
<1>5. HitsAgree
  <2>1. Cardinality({h \in Hits : hitAt[h] # "ruled"}) = Cardinality(Hits)
    <3>1. {h \in Hits : hitAt[h] # "ruled"} = Hits
      OBVIOUS
    <3>2. QED
      BY <3>1
  <2>2. expiresAt <= now + windowMs /\ window = {} /\ \A h \in Hits : hitAt[h] = "idle" /\ ~hit[h].allowed
    BY DEF Fresh
  <2>3. Len(ruled) + Cardinality({h \in Hits : hitAt[h] # "ruled"}) <= Cardinality(Hits)
    <3> HIDE DEF RateInit
    <3>1. QED
      BY <1>1, <1>2, <2>1
  <2>4. QED
    BY <1>2, <2>2, <2>3 DEF HitsAgree
<1>6. WindowHoldsAll /\ WindowNeverExceeded /\ RefusedOnlyWhenFull /\ RetryAfterFrees
  BY <1>2 DEF WindowHoldsAll, WindowNeverExceeded, RefusedOnlyWhenFull, RetryAfterFrees
<1>7. RoomComes
  BY <1>1, <1>2 DEF RoomComes
<1>8. QED
  BY <1>4, <1>5, <1>6, <1>7 DEF RateInv

\* (common/middleware/rate-limit.middleware.ts) Whatever the limits, the window and the requests:
\* no window sees more requests allowed than its limit, nobody is refused whose window has room,
\* and who waits as told finds a slot, each but for the faults it names.
THEOREM WindowIsKept == RateSpec => []WindowKept
<1>1. RateInit => RateInv
  BY StartsRate
<1>2. RateInv /\ [RateNext]_rateVars => RateInv'
  <2> SUFFICES ASSUME RateInv, [RateNext]_rateVars PROVE RateInv'
    OBVIOUS
  <2>1. ASSUME NEW h \in Hits, SlidingWindow(h) PROVE RateInv'
    BY <2>1, RuleKeepsHits, RuleKeepsWindow, RuleKeepsRoom, RuleNeverExceeds, RuleRefusesFull,
       RuleFrees DEF RateInv
  <2>2. CASE UNCHANGED rateVars
    <3>1. UNCHANGED <<now, window, expiresAt, hit, hitAt, ruled, faults>>
      BY <2>2 DEF rateVars
    <3>2. /\ Ruled' = Ruled /\ Allowed' = Allowed
          /\ RoomComes' /\ WindowNeverExceeded' /\ RefusedOnlyWhenFull' /\ RetryAfterFrees'
      BY <3>1, UnruledKeeps DEF Unruled
    <3>3. RateTypeOK' /\ HitsAgree' /\ WindowHoldsAll'
      BY <3>1, <3>2 DEF RateInv, RateTypeOK, HitsAgree, WindowHoldsAll
    <3>4. QED
      BY <3>2, <3>3 DEF RateInv
  <2>3. QED
    BY <2>1, <2>2, ArrivesKeepsInv, TickKeepsInv DEF RateNext
<1>3. RateInv => WindowKept
  BY DEF RateInv, WindowKept
<1>4. QED
  BY <1>1, <1>2, <1>3, PTL DEF RateSpec


-----------------------------------------------------------------------------
(***************************************************************************)
(* Notifications, for every set of notices and channels. NoticesInv says   *)
(* which channels a dispatch has asked for, tried and still has before it, *)
(* none of them twice, and that who marks a row as read has found it to be *)
(* its own.                                                                *)
(***************************************************************************)
\* What a sequence of channels holds.
Held(s) == {s[k] : k \in DOMAIN s}

\* A channel is asked for once: the one whose turn it is is not among those after it.
LEMMA TurnsEnd ==
  /\ Held(<<>>) = {}
  /\ \A s \in Asked \cup {<<>>} : s # <<>> =>
       /\ Head(s) \in Channels /\ Tail(s) \in Asked \cup {<<>>}
       /\ Held(s) = {Head(s)} \cup Held(Tail(s)) /\ Head(s) \notin Held(Tail(s))
<1>1. Held(<<>>) = {}
  BY DEF Held
<1>2. Held(<<"IN_APP">>) = {"IN_APP"} /\ Held(<<"SMS">>) = {"SMS"}
  BY DEF Held
<1>3. Held(<<"IN_APP", "SMS">>) = {"IN_APP", "SMS"}
  BY DEF Held
<1>4. /\ Head(<<"IN_APP">>) = "IN_APP" /\ Tail(<<"IN_APP">>) = <<>>
      /\ Head(<<"SMS">>) = "SMS" /\ Tail(<<"SMS">>) = <<>>
      /\ Head(<<"IN_APP", "SMS">>) = "IN_APP" /\ Tail(<<"IN_APP", "SMS">>) = <<"SMS">>
  OBVIOUS
<1>5. ASSUME NEW s \in Asked \cup {<<>>}, s # <<>>
      PROVE  /\ Head(s) \in Channels /\ Tail(s) \in Asked \cup {<<>>}
             /\ Held(s) = {Head(s)} \cup Held(Tail(s)) /\ Head(s) \notin Held(Tail(s))
  <2>1. s = <<"IN_APP">> \/ s = <<"SMS">> \/ s = <<"IN_APP", "SMS">>
    BY <1>5 DEF Asked
  <2>2. CASE s = <<"IN_APP">>
    BY <1>1, <1>2, <1>4, <2>2 DEF Asked, Channels
  <2>3. CASE s = <<"SMS">>
    BY <1>1, <1>2, <1>4, <2>3 DEF Asked, Channels
  <2>4. CASE s = <<"IN_APP", "SMS">>
    BY <1>2, <1>3, <1>4, <2>4 DEF Asked, Channels
  <2>5. QED
    BY <2>1, <2>2, <2>3, <2>4
<1>6. QED
  BY <1>1, <1>5

\* What of a type is not stored although it has a template.
Unstored(type) == IF type \in NON_PERSISTENT_TYPES THEN {"IN_APP"} ELSE {}

\* A channel whose turn is still to come has no result yet, and each that was asked for and has
\* a template has its turn or had it.
TurnsAgree ==
  \A n \in Notices :
    /\ (notice[n].dispatched \cup notice[n].failures) \cap Held(notice[n].left) = {}
    /\ notice[n].asked \cap TemplateOf(notice[n].type)
         \subseteq notice[n].dispatched \cup notice[n].failures \cup Held(notice[n].left)
                     \cup Unstored(notice[n].type)

\* A call that is about to mark a row has found it, and found it to be its caller's.
MarksAgree ==
  \A m \in Marks : markAt[m] = "write" =>
    /\ mark[m].of \in Notices /\ mark[m] \in [of : Notices \cup {"all"}, by : {Bell, Other}]
    /\ rows[mark[m].of] # "absent" /\ UserOf(mark[m].of) = mark[m].by

\* The inductive invariant.
NoticesInv ==
  /\ NoticesTypeOK /\ ResultIsTrue /\ CodesNotStored /\ ReadByOwner
  /\ TurnsAgree /\ MarksAgree

\* Whatever a step does to the rows, the number of a user's unread ones is within its bounds.
LEMMA CountsFit ==
  ASSUME NEW U \in SUBSET Notices
  PROVE  Cardinality(U) \in 0 .. Cardinality(Notices)
<1>1. IsFiniteSet(Notices) /\ IsFiniteSet(U) /\ Cardinality(U) <= Cardinality(Notices)
  BY NoticesAssumption, FS_Subset
<1>2. Cardinality(U) \in Nat /\ Cardinality(Notices) \in Nat
  BY <1>1, FS_CardinalityType
<1>3. QED
  BY <1>1, <1>2

\* A dispatch does not begin before the one it is, and its channels are those that were asked.
LEMMA DispatchKeeps ==
  ASSUME NoticesInv, NEW n \in Notices, Dispatch(n)
  PROVE  NoticesInv'
<1> DEFINE Begun == [user : {Bell, Other}, type : Types, asked : SUBSET Channels,
                     left : Asked \cup {<<>>}, dispatched : SUBSET Channels,
                     failures : SUBSET Channels]
<1>1. PICK user \in {Bell, Other}, type \in Types :
        \E channels \in AskedOf(type) :
          notice' = [notice EXCEPT ![n] =
            [user |-> user, type |-> type, asked |-> {channels[k] : k \in DOMAIN channels},
             dispatched |-> {}, failures |-> {},
             left |-> IF TemplateOf(type) = {} THEN <<>> ELSE channels]]
  BY DEF Dispatch
<1>2. PICK channels \in AskedOf(type) :
        notice' = [notice EXCEPT ![n] =
            [user |-> user, type |-> type, asked |-> {channels[k] : k \in DOMAIN channels},
             dispatched |-> {}, failures |-> {},
             left |-> IF TemplateOf(type) = {} THEN <<>> ELSE channels]]
  BY <1>1
<1>3. /\ notice[n] = Absent /\ rows' = rows /\ texts' = texts /\ mark' = mark /\ markAt' = markAt
      /\ override' = override /\ counted' = counted /\ arriving' = arriving /\ faults' = faults
  BY DEF Dispatch, bellVars
<1>4. NoticesTypeOK /\ ResultIsTrue /\ CodesNotStored /\ ReadByOwner /\ TurnsAgree /\ MarksAgree
  BY DEF NoticesInv
<1>5. channels \in Asked /\ Held(channels) \in SUBSET Channels
  <2>1. channels \in Asked
    BY <1>2 DEF AskedOf, Asked
  <2>2. Held(channels) \in SUBSET Channels
    BY <2>1 DEF Asked, Held, Channels
  <2>3. QED
    BY <2>1, <2>2
<1> DEFINE e == [user |-> user, type |-> type, asked |-> Held(channels), dispatched |-> {},
                 failures |-> {}, left |-> IF TemplateOf(type) = {} THEN <<>> ELSE channels]
<1>6. notice' = [notice EXCEPT ![n] = e] /\ e \in Begun
  BY <1>2, <1>5 DEF Held
<1>7. /\ e.user = user /\ e.type = type /\ e.asked = Held(channels) /\ e.dispatched = {} /\ e.failures = {}
      /\ e.left = IF TemplateOf(type) = {} THEN <<>> ELSE channels
  OBVIOUS
<1> HIDE DEF e, Begun
<1>8. notice \in [Notices -> Begun \cup {Absent}]
  BY <1>4 DEF NoticesTypeOK, Begun
<1>9. notice'[n] = e /\ \A k \in Notices : k # n => notice'[k] = notice[k]
  BY <1>6, <1>8
<1>10. rows[n] = "absent" /\ n \notin texts
  BY <1>3, <1>4 DEF ResultIsTrue, Absent
<1>11. NoticesTypeOK'
  <2>1. notice' \in [Notices -> Begun \cup {Absent}]
    BY <1>6, <1>8
  <2>2. QED
    BY <1>3, <1>4, <2>1 DEF NoticesTypeOK, Begun
<1>12. ResultIsTrue' /\ CodesNotStored'
  BY <1>3, <1>4, <1>7, <1>9, <1>10 DEF ResultIsTrue, CodesNotStored
<1>13. ReadByOwner'
  BY <1>3, <1>4, <1>9, <1>10 DEF ReadByOwner, UserOf
<1>14. TurnsAgree'
  <2>1. \A t : TemplateOf(t)' = TemplateOf(t)
    BY <1>3 DEF TemplateOf
  <2>2. /\ (e.dispatched \cup e.failures) \cap Held(e.left) = {}
        /\ e.asked \cap TemplateOf(e.type)
             \subseteq e.dispatched \cup e.failures \cup Held(e.left) \cup Unstored(e.type)
    BY <1>7
  <2>3. ASSUME NEW k \in Notices
        PROVE  /\ (notice'[k].dispatched \cup notice'[k].failures) \cap Held(notice'[k].left) = {}
               /\ notice'[k].asked \cap TemplateOf(notice'[k].type)
                    \subseteq notice'[k].dispatched \cup notice'[k].failures \cup Held(notice'[k].left)
                                \cup Unstored(notice'[k].type)
    BY <1>4, <1>9, <2>2 DEF TurnsAgree
  <2>4. QED
    BY <1>3, <2>3 DEF TurnsAgree, TemplateOf
<1>15. MarksAgree'
  BY <1>3, <1>4, <1>9, <1>10 DEF MarksAgree, UserOf
<1>16. QED
  BY <1>11, <1>12, <1>13, <1>14, <1>15 DEF NoticesInv

\* What a channel's turn does: it is over, and it was dispatched, failed or passed over for a
\* reason.
LEMMA TurnEffects ==
  ASSUME NoticesTypeOK, NEW n \in Notices, NoticeStep(n)
  PROVE  /\ notice[n].left # <<>>
         /\ \E c \in Channels, dispatched, failures \in SUBSET Channels :
              /\ c = Head(notice[n].left)
              /\ notice' = [notice EXCEPT ![n] =
                   [notice[n] EXCEPT !.left = Tail(@), !.dispatched = dispatched,
                                     !.failures = failures]]
              /\ \/ /\ rows' = rows /\ texts' = texts
                    /\ dispatched = notice[n].dispatched /\ failures = notice[n].failures
                    /\ c \notin TemplateOf(notice[n].type) \/ c \in Unstored(notice[n].type)
                 \/ /\ rows' = rows /\ texts' = texts
                    /\ dispatched = notice[n].dispatched /\ failures = notice[n].failures \cup {c}
                 \/ /\ dispatched = notice[n].dispatched \cup {c} /\ failures = notice[n].failures
                    /\ \/ /\ c = "IN_APP" /\ rows' = [rows EXCEPT ![n] = "unread"] /\ texts' = texts
                          /\ notice[n].type \notin NON_PERSISTENT_TYPES
                       \/ c = "SMS" /\ rows' = rows /\ texts' = texts \cup {n}
         /\ override' = override /\ mark' = mark /\ markAt' = markAt
         /\ counted' = counted /\ arriving' = arriving /\ faults' = faults
<1> DEFINE e == notice[n]
<1>1. e.left # <<>>
  BY DEF NoticeStep, InApp, Sms, ChannelFails, Waiting
<1>2. notice \in [Notices -> [user : {Bell, Other}, type : Types, asked : SUBSET Channels,
                              left : Asked \cup {<<>>}, dispatched : SUBSET Channels,
                              failures : SUBSET Channels] \cup {Absent}]
  BY DEF NoticesTypeOK
<1>3. e \in [user : {Bell, Other}, type : Types, asked : SUBSET Channels,
             left : Asked \cup {<<>>}, dispatched : SUBSET Channels, failures : SUBSET Channels]
  BY <1>1, <1>2 DEF Absent
<1>4. /\ e.left \in Asked \cup {<<>>} /\ e.dispatched \in SUBSET Channels
      /\ e.failures \in SUBSET Channels /\ Head(e.left) \in Channels
  BY <1>1, <1>3, TurnsEnd
<1>5. /\ override' = override /\ mark' = mark /\ markAt' = markAt
      /\ counted' = counted /\ arriving' = arriving /\ faults' = faults
  BY DEF NoticeStep, InApp, Sms, ChannelFails, bellVars
<1> DEFINE After(dispatched, failures) ==
      [notice EXCEPT ![n] = [notice[n] EXCEPT !.left = Tail(@), !.dispatched = dispatched,
                                              !.failures = failures]]
<1>6. /\ [notice EXCEPT ![n].left = Tail(@)] = After(e.dispatched, e.failures)
      /\ \A c : [notice EXCEPT ![n].left = Tail(@), ![n].dispatched = @ \cup {c}]
                  = After(e.dispatched \cup {c}, e.failures)
      /\ \A c : [notice EXCEPT ![n].left = Tail(@), ![n].failures = @ \cup {c}]
                  = After(e.dispatched, e.failures \cup {c})
  BY <1>2, <1>3
<1>7. CASE InApp(n)
  <2>1. Head(e.left) = "IN_APP"
    BY <1>7 DEF InApp, Waiting
  <2>2. texts' = texts
    BY <1>7 DEF InApp
  <2>3. CASE /\ \/ e.type \in NON_PERSISTENT_TYPES
                \/ "IN_APP" \notin TemplateOf(e.type)
             /\ notice' = [notice EXCEPT ![n].left = Tail(@)]
             /\ rows' = rows
    BY <1>1, <1>4, <1>5, <1>6, <2>1, <2>2, <2>3 DEF Unstored
  <2>4. CASE /\ e.type \notin NON_PERSISTENT_TYPES
             /\ rows' = [rows EXCEPT ![n] = "unread"]
             /\ Dispatched(n, "IN_APP")
    <3>1. notice' = After(e.dispatched \cup {"IN_APP"}, e.failures)
      BY <1>6, <2>4 DEF Dispatched
    <3>2. e.dispatched \cup {"IN_APP"} \in SUBSET Channels
      BY <1>4, <2>1
    <3>3. QED
      BY <1>1, <1>4, <1>5, <2>1, <2>2, <2>4, <3>1, <3>2
  <2>5. QED
    BY <1>7, <2>3, <2>4 DEF InApp
<1>8. CASE Sms(n)
  <2>1. Head(e.left) = "SMS" /\ rows' = rows
    BY <1>8 DEF Sms, Waiting
  <2>3. CASE /\ "SMS" \notin TemplateOf(e.type)
             /\ notice' = [notice EXCEPT ![n].left = Tail(@)]
             /\ texts' = texts
    BY <1>1, <1>4, <1>5, <1>6, <2>1, <2>3
  <2>4. CASE texts' = texts \cup {n} /\ Dispatched(n, "SMS")
    <3>1. notice' = After(e.dispatched \cup {"SMS"}, e.failures)
      BY <1>6, <2>4 DEF Dispatched
    <3>2. e.dispatched \cup {"SMS"} \in SUBSET Channels
      BY <1>4, <2>1
    <3>3. QED
      BY <1>1, <1>4, <1>5, <2>1, <2>4, <3>1, <3>2
  <2>5. QED
    BY <1>8, <2>3, <2>4 DEF Sms
<1>9. CASE ChannelFails(n)
  <2>1. notice' = After(e.dispatched, e.failures \cup {Head(e.left)}) /\ rows' = rows /\ texts' = texts
    BY <1>6, <1>9 DEF ChannelFails
  <2>2. e.failures \cup {Head(e.left)} \in SUBSET Channels
    BY <1>4
  <2>3. QED
    BY <1>1, <1>4, <1>5, <2>1, <2>2
<1>10. QED
  BY <1>7, <1>8, <1>9 DEF NoticeStep

\* One channel after the other, failing ones included.
LEMMA TurnKeeps ==
  ASSUME NoticesInv, NEW n \in Notices, NoticeStep(n)
  PROVE  NoticesInv'
<1> DEFINE Begun == [user : {Bell, Other}, type : Types, asked : SUBSET Channels,
                     left : Asked \cup {<<>>}, dispatched : SUBSET Channels,
                     failures : SUBSET Channels]
<1>1. NoticesTypeOK /\ ResultIsTrue /\ CodesNotStored /\ ReadByOwner /\ TurnsAgree /\ MarksAgree
  BY DEF NoticesInv
<1>2. /\ notice[n].left # <<>> /\ override' = override /\ mark' = mark /\ markAt' = markAt
      /\ counted' = counted /\ arriving' = arriving /\ faults' = faults
  BY <1>1, TurnEffects
<1>3. PICK c \in Channels, dispatched, failures \in SUBSET Channels :
              /\ c = Head(notice[n].left)
              /\ notice' = [notice EXCEPT ![n] =
                   [notice[n] EXCEPT !.left = Tail(@), !.dispatched = dispatched,
                                     !.failures = failures]]
              /\ \/ /\ rows' = rows /\ texts' = texts
                    /\ dispatched = notice[n].dispatched /\ failures = notice[n].failures
                    /\ c \notin TemplateOf(notice[n].type) \/ c \in Unstored(notice[n].type)
                 \/ /\ rows' = rows /\ texts' = texts
                    /\ dispatched = notice[n].dispatched /\ failures = notice[n].failures \cup {c}
                 \/ /\ dispatched = notice[n].dispatched \cup {c} /\ failures = notice[n].failures
                    /\ \/ /\ c = "IN_APP" /\ rows' = [rows EXCEPT ![n] = "unread"] /\ texts' = texts
                          /\ notice[n].type \notin NON_PERSISTENT_TYPES
                       \/ c = "SMS" /\ rows' = rows /\ texts' = texts \cup {n}
  BY <1>1, TurnEffects
<1>4. notice \in [Notices -> Begun \cup {Absent}] /\ notice[n] \in Begun
  BY <1>1, <1>2 DEF NoticesTypeOK, Absent
<1>5. rows \in [Notices -> {"absent", "unread", "read"}] /\ texts \in SUBSET Notices
  BY <1>1 DEF NoticesTypeOK
<1>6. PICK old \in Begun : old = notice[n]
  BY <1>4
<1>7. /\ old.left \in Asked \cup {<<>>} /\ old.left # <<>> /\ c = Head(old.left)
      /\ Tail(old.left) \in Asked \cup {<<>>} /\ c \notin Held(Tail(old.left))
      /\ Held(old.left) = {c} \cup Held(Tail(old.left))
  BY <1>2, <1>3, <1>6, TurnsEnd
<1>8. PICK e : e = [old EXCEPT !.left = Tail(@), !.dispatched = dispatched, !.failures = failures]
  OBVIOUS
<1>9. /\ e \in Begun /\ e.user = old.user /\ e.type = old.type /\ e.asked = old.asked
      /\ e.left = Tail(old.left) /\ e.dispatched = dispatched /\ e.failures = failures
  BY <1>6, <1>7, <1>8
<1>10. notice' = [notice EXCEPT ![n] = e]
  BY <1>3, <1>6, <1>8
<1>11. notice'[n] = e /\ \A k \in Notices : k # n => notice'[k] = notice[k]
  BY <1>4, <1>10
<1>12. \A k \in Notices : notice'[k].user = notice[k].user /\ notice'[k].type = notice[k].type
  BY <1>6, <1>9, <1>11
<1>13. /\ \A k \in Notices : k # n => rows'[k] = rows[k] /\ (k \in texts' <=> k \in texts)
       /\ rows'[n] = rows[n] \/ (rows'[n] = "unread" /\ c = "IN_APP" /\ old.type \notin NON_PERSISTENT_TYPES)
       /\ rows' \in [Notices -> {"absent", "unread", "read"}] /\ texts' \in SUBSET Notices
  BY <1>3, <1>5, <1>6
<1>14. /\ "IN_APP" \in old.dispatched <=> rows[n] # "absent"
       /\ "SMS" \in old.dispatched <=> n \in texts
       /\ old.dispatched \cap old.failures = {}
       /\ (old.dispatched \cup old.failures) \cap Held(old.left) = {}
       /\ old.asked \cap TemplateOf(old.type)
            \subseteq old.dispatched \cup old.failures \cup Held(old.left) \cup Unstored(old.type)
  BY <1>1, <1>6 DEF ResultIsTrue, TurnsAgree
<1>15. /\ "IN_APP" \in dispatched <=> rows'[n] # "absent"
       /\ "SMS" \in dispatched <=> n \in texts'
       /\ dispatched \cap failures = {}
       /\ (dispatched \cup failures) \cap Held(e.left) = {}
       /\ old.asked \cap TemplateOf(old.type)
            \subseteq dispatched \cup failures \cup Held(e.left) \cup Unstored(old.type)
  BY <1>3, <1>5, <1>6, <1>7, <1>9, <1>14
<1>16. rows'[n] = "read" => rows[n] = "read"
  BY <1>13
<1> HIDE DEF Begun
<1>17. NoticesTypeOK'
  <2>1. notice' \in [Notices -> Begun \cup {Absent}]
    BY <1>4, <1>9, <1>10
  <2>2. QED
    BY <1>1, <1>2, <1>13, <2>1 DEF NoticesTypeOK, Begun
<1>18. ResultIsTrue'
  BY <1>1, <1>9, <1>11, <1>13, <1>15 DEF ResultIsTrue
<1>19. CodesNotStored'
  <2>1. ASSUME NEW k \in Notices, notice'[k].type = "OTP_SENT" PROVE rows'[k] = "absent"
    <3>1. rows[k] = "absent"
      BY <1>1, <1>12, <2>1 DEF CodesNotStored
    <3>2. CASE k = n
      BY <1>6, <1>12, <1>13, <2>1, <3>1, <3>2 DEF NON_PERSISTENT_TYPES
    <3>3. CASE k # n
      BY <1>13, <3>1, <3>3
    <3>4. QED
      BY <3>2, <3>3
  <2>2. QED
    BY <2>1 DEF CodesNotStored
<1>20. ReadByOwner'
  BY <1>1, <1>2, <1>12, <1>13, <1>16 DEF ReadByOwner, UserOf
<1>21. TurnsAgree'
  <2>1. ASSUME NEW k \in Notices
        PROVE  /\ (notice'[k].dispatched \cup notice'[k].failures) \cap Held(notice'[k].left) = {}
               /\ notice'[k].asked \cap TemplateOf(notice'[k].type)
                    \subseteq notice'[k].dispatched \cup notice'[k].failures \cup Held(notice'[k].left)
                                \cup Unstored(notice'[k].type)
    <3>1. CASE k = n
      BY <1>9, <1>11, <1>15, <3>1
    <3>2. CASE k # n
      BY <1>1, <1>11, <3>2 DEF TurnsAgree
    <3>3. QED
      BY <3>1, <3>2
  <2>2. QED
    BY <1>2, <2>1 DEF TurnsAgree, TemplateOf
<1>22. MarksAgree'
  <2>1. \A k \in Notices : rows[k] # "absent" => rows'[k] # "absent"
    BY <1>5, <1>13
  <2>2. QED
    BY <1>1, <1>2, <1>12, <2>1 DEF MarksAgree, UserOf
<1>23. QED
  BY <1>17, <1>18, <1>19, <1>20, <1>21, <1>22 DEF NoticesInv
\* Whose calls have ended keep what they marked: a call that begins was not one of them.
LEMMA MarkBegins ==
  ASSUME NoticesInv, NEW m \in Marks, NEW of \in Notices \cup {"all"}, NEW by \in {Bell, Other},
         BeginMark(m, of, by), NEW at \in {"write", "ended"}, markAt' = [markAt EXCEPT ![m] = at],
         notice' = notice
  PROVE  /\ mark' \in [Marks -> [of : Notices \cup {"all"}, by : {Bell, Other}] \cup {None}]
         /\ markAt' \in [Marks -> {"idle", "write", "ended"}]
         /\ markAt[m] = "idle" /\ mark'[m] = [of |-> of, by |-> by] /\ markAt'[m] = at
         /\ \A k \in Marks : k # m => mark'[k] = mark[k] /\ markAt'[k] = markAt[k]
<1>1. /\ mark \in [Marks -> [of : Notices \cup {"all"}, by : {Bell, Other}] \cup {None}]
      /\ markAt \in [Marks -> {"idle", "write", "ended"}]
  BY DEF NoticesInv, NoticesTypeOK
<1>2. [of |-> of, by |-> by] \in [of : Notices \cup {"all"}, by : {Bell, Other}]
  OBVIOUS
<1>3. mark' = [mark EXCEPT ![m] = [of |-> of, by |-> by]] /\ markAt[m] = "idle"
  BY DEF BeginMark
<1>4. QED
  BY <1>1, <1>2, <1>3

\* A call finds a row for its caller alone.
LEMMA FindKeeps ==
  ASSUME NoticesInv, NEW m \in Marks, FindNotification(m)
  PROVE  NoticesInv'
<1>1. PICK n \in Notices, by \in {Bell, Other} :
        /\ BeginMark(m, n, by)
        /\ markAt' = [markAt EXCEPT ![m] =
                       IF rows[n] = "unread" /\ UserOf(n) = by THEN "write" ELSE "ended"]
  BY DEF FindNotification
<1>2. /\ override' = override /\ notice' = notice /\ rows' = rows /\ texts' = texts
      /\ counted' = counted /\ arriving' = arriving /\ faults' = faults
  BY DEF FindNotification, bellVars
<1>3. PICK at \in {"write", "ended"} :
        at = IF rows[n] = "unread" /\ UserOf(n) = by THEN "write" ELSE "ended"
  OBVIOUS
<1>4. /\ mark' \in [Marks -> [of : Notices \cup {"all"}, by : {Bell, Other}] \cup {None}]
      /\ markAt' \in [Marks -> {"idle", "write", "ended"}]
      /\ markAt[m] = "idle" /\ mark'[m] = [of |-> n, by |-> by] /\ markAt'[m] = at
      /\ \A k \in Marks : k # m => mark'[k] = mark[k] /\ markAt'[k] = markAt[k]
  <2>1. n \in Notices \cup {"all"} /\ BeginMark(m, n, by) /\ notice' = notice
    BY <1>1, <1>2
  <2>2. markAt' = [markAt EXCEPT ![m] = at]
    BY <1>1, <1>3
  <2>3. mark' = [mark EXCEPT ![m] = [of |-> n, by |-> by]] /\ markAt[m] = "idle"
    BY <2>1 DEF BeginMark
  <2>4. [of |-> n, by |-> by] \in [of : Notices \cup {"all"}, by : {Bell, Other}]
    BY <1>1, <2>1
  <2>5. /\ mark \in [Marks -> [of : Notices \cup {"all"}, by : {Bell, Other}] \cup {None}]
        /\ markAt \in [Marks -> {"idle", "write", "ended"}]
    BY DEF NoticesInv, NoticesTypeOK
  <2>6. QED
    BY <1>3, <2>2, <2>3, <2>4, <2>5
<1>5. NoticesTypeOK /\ ResultIsTrue /\ CodesNotStored /\ ReadByOwner /\ TurnsAgree /\ MarksAgree
  BY DEF NoticesInv
<1>6. NoticesTypeOK'
  BY <1>2, <1>4, <1>5 DEF NoticesTypeOK
<1>7. ResultIsTrue' /\ CodesNotStored' /\ TurnsAgree'
  BY <1>2, <1>5 DEF ResultIsTrue, CodesNotStored, TurnsAgree, TemplateOf
<1>8. ReadByOwner'
  BY <1>2, <1>4, <1>5 DEF ReadByOwner, UserOf
<1>9. MarksAgree'
  <2>1. ASSUME NEW k \in Marks, markAt'[k] = "write"
        PROVE  /\ mark'[k].of \in Notices
               /\ mark'[k] \in [of : Notices \cup {"all"}, by : {Bell, Other}]
               /\ rows[mark'[k].of] # "absent" /\ notice[mark'[k].of].user = mark'[k].by
    <3>1. CASE k = m
      BY <1>3, <1>4, <2>1, <3>1 DEF UserOf
    <3>2. CASE k # m
      BY <1>4, <1>5, <2>1, <3>2 DEF MarksAgree, UserOf
    <3>3. QED
      BY <3>1, <3>2
  <2>2. QED
    BY <1>2, <2>1 DEF MarksAgree, UserOf
<1>10. QED
  BY <1>6, <1>7, <1>8, <1>9 DEF NoticesInv

\* What becomes of the rows when some that are unread are marked as read by their own user.
LEMMA ReadingKeeps ==
  ASSUME NoticesInv, rows' \in [Notices -> {"absent", "unread", "read"}],
         \A n \in Notices : rows'[n] # rows[n] => rows[n] # "absent" /\ rows'[n] = "read",
         notice' = notice, texts' = texts, override' = override
  PROVE  ResultIsTrue' /\ CodesNotStored' /\ TurnsAgree'
<1>1. ResultIsTrue /\ CodesNotStored /\ TurnsAgree
  BY DEF NoticesInv
<1>2. \A n \in Notices : rows'[n] = "absent" <=> rows[n] = "absent"
  OBVIOUS
<1>3. QED
  BY <1>1, <1>2 DEF ResultIsTrue, CodesNotStored, TurnsAgree, TemplateOf

\* The bell's question after a mark is answered within the bounds of the type.
LEMMA AnswerFits ==
  ASSUME NoticesInv, NEW by, NEW after, AskAgain(by, after)
  PROVE  arriving' \in (0 .. Cardinality(Notices)) \cup {None}
<1>1. arriving \in (0 .. Cardinality(Notices)) \cup {None}
  BY DEF NoticesInv, NoticesTypeOK
<1>2. {n \in Notices : UserOf(n) = Bell /\ after[n] = "unread"} \in SUBSET Notices
  OBVIOUS
<1>3. Cardinality({n \in Notices : UserOf(n) = Bell /\ after[n] = "unread"}) \in 0 .. Cardinality(Notices)
  BY <1>2, CountsFit
<1>4. QED
  BY <1>1, <1>3 DEF AskAgain

\* The row that a call found, a while ago, is still its caller's when it is written.
LEMMA WriteReadKeeps ==
  ASSUME NoticesInv, NEW m \in Marks, WriteRead(m)
  PROVE  NoticesInv'
<1>1. NoticesTypeOK /\ ResultIsTrue /\ CodesNotStored /\ ReadByOwner /\ TurnsAgree /\ MarksAgree
  BY DEF NoticesInv
<1>2. PICK n : n = mark[m].of
  OBVIOUS
<1>3. /\ markAt[m] = "write" /\ rows' = [rows EXCEPT ![n] = "read"]
      /\ markAt' = [markAt EXCEPT ![m] = "ended"] /\ override' = override /\ notice' = notice
      /\ texts' = texts /\ mark' = mark /\ counted' = counted /\ faults' = faults
  BY <1>2 DEF WriteRead
<1>4. n \in Notices /\ rows[n] # "absent" /\ UserOf(n) = mark[m].by
  BY <1>1, <1>2, <1>3 DEF MarksAgree
<1>5. /\ rows' \in [Notices -> {"absent", "unread", "read"}] /\ rows'[n] = "read"
      /\ \A k \in Notices : k # n => rows'[k] = rows[k]
      /\ markAt' \in [Marks -> {"idle", "write", "ended"}] /\ markAt'[m] = "ended"
      /\ \A k \in Marks : k # m => markAt'[k] = markAt[k]
  BY <1>1, <1>3, <1>4 DEF NoticesTypeOK
<1>6. arriving' \in (0 .. Cardinality(Notices)) \cup {None}
  <2>1. PICK by, after : AskAgain(by, after)
    BY DEF WriteRead
  <2>2. QED
    BY <2>1, AnswerFits
<1>7. NoticesTypeOK'
  BY <1>1, <1>3, <1>5, <1>6 DEF NoticesTypeOK
<1>8. ResultIsTrue' /\ CodesNotStored' /\ TurnsAgree'
  BY <1>3, <1>4, <1>5, ReadingKeeps
<1>9. ReadByOwner'
  <2>1. ASSUME NEW k \in Notices, rows'[k] = "read"
        PROVE  \E j \in Marks : markAt'[j] = "ended" /\ mark[j].by = notice[k].user /\ mark[j].of \in {k, "all"}
    <3>1. CASE k = n
      BY <1>2, <1>4, <1>5, <3>1 DEF UserOf
    <3>2. CASE k # n
      BY <1>1, <1>3, <1>5, <2>1, <3>2 DEF ReadByOwner, UserOf
    <3>3. QED
      BY <3>1, <3>2
  <2>2. QED
    BY <1>3, <2>1 DEF ReadByOwner, UserOf
<1>10. MarksAgree'
  <2>1. \A k \in Notices : rows[k] # "absent" => rows'[k] # "absent"
    BY <1>5
  <2>2. \A k \in Marks : markAt'[k] = "write" => markAt[k] = "write"
    BY <1>3, <1>5
  <2>3. QED
    BY <1>1, <1>3, <2>1, <2>2 DEF MarksAgree, UserOf
<1>11. QED
  BY <1>7, <1>8, <1>9, <1>10 DEF NoticesInv

\* All of a user's rows at once.
LEMMA MarkAllKeeps ==
  ASSUME NoticesInv, NEW m \in Marks, markAllRead(m)
  PROVE  NoticesInv'
<1>1. NoticesTypeOK /\ ResultIsTrue /\ CodesNotStored /\ ReadByOwner /\ TurnsAgree /\ MarksAgree
  BY DEF NoticesInv
<1>2. PICK by \in {Bell, Other} :
       /\ BeginMark(m, "all", by)
       /\ rows' = [n \in Notices |->
                    IF UserOf(n) = by /\ rows[n] = "unread" THEN "read" ELSE rows[n]]
       /\ \E after : AskAgain(by, after)
  BY DEF markAllRead
<1>3. /\ markAt' = [markAt EXCEPT ![m] = "ended"] /\ override' = override /\ notice' = notice
      /\ texts' = texts /\ counted' = counted /\ faults' = faults
  BY DEF markAllRead
<1>4. /\ mark' \in [Marks -> [of : Notices \cup {"all"}, by : {Bell, Other}] \cup {None}]
      /\ markAt' \in [Marks -> {"idle", "write", "ended"}]
      /\ markAt[m] = "idle" /\ mark'[m] = [of |-> "all", by |-> by] /\ markAt'[m] = "ended"
      /\ \A k \in Marks : k # m => mark'[k] = mark[k] /\ markAt'[k] = markAt[k]
  BY <1>2, <1>3, MarkBegins
<1>5. /\ rows' \in [Notices -> {"absent", "unread", "read"}]
      /\ \A n \in Notices : rows'[n] # rows[n] => rows[n] = "unread" /\ rows'[n] = "read" /\ UserOf(n) = by
  BY <1>1, <1>2 DEF NoticesTypeOK
<1>6. arriving' \in (0 .. Cardinality(Notices)) \cup {None}
  <2>1. PICK after : AskAgain(by, after)
    BY <1>2
  <2>2. QED
    BY <2>1, AnswerFits
<1>7. NoticesTypeOK'
  BY <1>1, <1>3, <1>4, <1>5, <1>6 DEF NoticesTypeOK
<1>8. ResultIsTrue' /\ CodesNotStored' /\ TurnsAgree'
  BY <1>3, <1>5, ReadingKeeps
<1>9. ReadByOwner'
  <2>1. ASSUME NEW k \in Notices, rows'[k] = "read"
        PROVE  \E j \in Marks : markAt'[j] = "ended" /\ mark'[j].by = notice[k].user /\ mark'[j].of \in {k, "all"}
    <3>1. CASE rows[k] = "read"
      <4>1. PICK j \in Marks : markAt[j] = "ended" /\ mark[j].by = UserOf(k) /\ mark[j].of \in {k, "all"}
        BY <1>1, <3>1 DEF ReadByOwner
      <4>2. j # m
        BY <1>4, <4>1
      <4>3. QED
        BY <1>4, <4>1, <4>2 DEF UserOf
    <3>2. CASE rows[k] # "read"
      <4>1. UserOf(k) = by
        BY <1>5, <2>1, <3>2
      <4>2. mark'[m].by = by /\ mark'[m].of = "all"
        BY <1>4
      <4>3. QED
        BY <1>4, <4>1, <4>2 DEF UserOf
    <3>3. QED
      BY <3>1, <3>2
  <2>2. QED
    BY <1>3, <2>1 DEF ReadByOwner, UserOf
<1>10. MarksAgree'
  <2>1. \A k \in Notices : rows[k] # "absent" => rows'[k] # "absent"
    BY <1>5
  <2>2. \A k \in Marks : markAt'[k] = "write" => markAt[k] = "write" /\ mark'[k] = mark[k]
    BY <1>4
  <2>3. QED
    BY <1>1, <1>3, <2>1, <2>2 DEF MarksAgree, UserOf
<1>11. QED
  BY <1>7, <1>8, <1>9, <1>10 DEF NoticesInv

\* A module registers its template before anything is dispatched.
LEMMA RegisterTypeKeeps ==
  ASSUME NoticesInv, registerType
  PROVE  NoticesInv'
<1>1. NoticesTypeOK /\ ResultIsTrue /\ CodesNotStored /\ ReadByOwner /\ TurnsAgree /\ MarksAgree
  BY DEF NoticesInv
<1>2. /\ override' = TRUE /\ notice' = notice /\ rows' = rows /\ texts' = texts /\ mark' = mark
      /\ markAt' = markAt /\ counted' = counted /\ arriving' = arriving /\ faults' = faults
      /\ \A n \in Notices : notice[n] = Absent
  BY DEF registerType, bellVars
<1>3. /\ NoticesTypeOK' /\ ResultIsTrue' /\ CodesNotStored' /\ ReadByOwner' /\ MarksAgree'
  BY <1>1, <1>2 DEF NoticesTypeOK, ResultIsTrue, CodesNotStored, ReadByOwner, MarksAgree, UserOf
<1>4. TurnsAgree'
  <2>1. \A n \in Notices : notice'[n].dispatched = {} /\ notice'[n].failures = {} /\ notice'[n].asked = {}
    BY <1>2 DEF Absent
  <2>2. QED
    BY <2>1 DEF TurnsAgree
<1>5. QED
  BY <1>3, <1>4 DEF NoticesInv

\* The bell only counts.
LEMMA BellKeeps ==
  ASSUME NoticesInv, Poll \/ ShowCount
  PROVE  NoticesInv'
<1>1. NoticesTypeOK /\ ResultIsTrue /\ CodesNotStored /\ ReadByOwner /\ TurnsAgree /\ MarksAgree
  BY DEF NoticesInv
<1>2. /\ override' = override /\ notice' = notice /\ rows' = rows /\ texts' = texts /\ mark' = mark
      /\ markAt' = markAt /\ faults' = faults
  BY DEF Poll, ShowCount
<1>3. counted' \in 0 .. Cardinality(Notices) /\ arriving' \in (0 .. Cardinality(Notices)) \cup {None}
  <2>1. CASE Poll
    <3>1. {n \in Notices : UserOf(n) = Bell /\ rows[n] = "unread"} \in SUBSET Notices
      OBVIOUS
    <3>2. countUnread(Bell) \in 0 .. Cardinality(Notices)
      BY <3>1, CountsFit DEF countUnread
    <3>3. QED
      BY <1>1, <2>1, <3>2 DEF Poll, NoticesTypeOK
  <2>2. CASE ShowCount
    BY <1>1, <2>2 DEF ShowCount, NoticesTypeOK
  <2>3. QED
    BY <2>1, <2>2
<1>4. NoticesTypeOK'
  BY <1>1, <1>2, <1>3 DEF NoticesTypeOK
<1>5. ResultIsTrue' /\ CodesNotStored' /\ ReadByOwner' /\ TurnsAgree' /\ MarksAgree'
  BY <1>1, <1>2 DEF ResultIsTrue, CodesNotStored, ReadByOwner, TurnsAgree, MarksAgree, UserOf, TemplateOf
<1>6. QED
  BY <1>4, <1>5 DEF NoticesInv

LEMMA NoticesStart == NoticesInit => NoticesInv
<1> SUFFICES ASSUME NoticesInit PROVE NoticesInv
  OBVIOUS
<1>1. \A n \in Notices : notice[n] = Absent /\ rows[n] = "absent"
  BY DEF NoticesInit
<1>2. \A n \in Notices : notice[n].dispatched = {} /\ notice[n].failures = {} /\ notice[n].asked = {}
  BY <1>1 DEF Absent
<1>3. Cardinality({}) \in 0 .. Cardinality(Notices)
  BY CountsFit
<1>4. 0 \in 0 .. Cardinality(Notices)
  BY <1>3, FS_EmptySet
<1>5. NoticesTypeOK
  BY <1>4 DEF NoticesInit, NoticesTypeOK
<1>6. ResultIsTrue /\ CodesNotStored /\ ReadByOwner /\ TurnsAgree
  BY <1>1, <1>2 DEF NoticesInit, ResultIsTrue, CodesNotStored, ReadByOwner, TurnsAgree
<1>7. MarksAgree
  BY DEF NoticesInit, MarksAgree
<1>8. QED
  BY <1>5, <1>6, <1>7 DEF NoticesInv

\* When no turn is left, what TurnsAgree says is that every channel was tried.
LEMMA InvIsEnough == NoticesInv => NoticesAgree
<1> SUFFICES ASSUME NoticesInv PROVE NoticesAgree
  OBVIOUS
<1>1. NoticesTypeOK /\ ResultIsTrue /\ CodesNotStored /\ ReadByOwner /\ TurnsAgree
  BY DEF NoticesInv
<1>2. EveryChannelIsTried
  BY <1>1, TurnsEnd DEF EveryChannelIsTried, TurnsAgree, Unstored
<1>3. QED
  BY <1>1, <1>2 DEF NoticesAgree

\* (core/notifications/notifications.service.ts) Whatever channels fail or modules override, and
\* whoever marks what: no dispatch forgets a channel or misreports one, no one-time code is
\* stored, and nothing is read but by its own user.
THEOREM NoticesAlwaysAgree == NoticesSpec => []NoticesAgree
<1>1. NoticesInit => NoticesInv
  BY NoticesStart
<1>2. NoticesInv /\ [NoticesNext]_noticeVars => NoticesInv'
  <2> SUFFICES ASSUME NoticesInv, [NoticesNext]_noticeVars PROVE NoticesInv'
    OBVIOUS
  <2>1. CASE registerType
    BY <2>1, RegisterTypeKeeps
  <2>2. CASE Poll \/ ShowCount
    BY <2>2, BellKeeps
  <2>3. ASSUME NEW n \in Notices, Dispatch(n) PROVE NoticesInv'
    BY <2>3, DispatchKeeps
  <2>4. ASSUME NEW n \in Notices, NoticeStep(n) PROVE NoticesInv'
    BY <2>4, TurnKeeps
  <2>5. ASSUME NEW m \in Marks, FindNotification(m) PROVE NoticesInv'
    BY <2>5, FindKeeps
  <2>6. ASSUME NEW m \in Marks, WriteRead(m) PROVE NoticesInv'
    BY <2>6, WriteReadKeeps
  <2>7. ASSUME NEW m \in Marks, markAllRead(m) PROVE NoticesInv'
    BY <2>7, MarkAllKeeps
  <2>8. CASE UNCHANGED noticeVars
    BY <2>8 DEF noticeVars, NoticesInv, NoticesTypeOK, ResultIsTrue, CodesNotStored, ReadByOwner,
       TurnsAgree, MarksAgree, UserOf, TemplateOf
  <2>9. QED
    BY <2>1, <2>2, <2>3, <2>4, <2>5, <2>6, <2>7, <2>8 DEF NoticesNext
<1>3. NoticesInv => NoticesAgree
  BY InvIsEnough
<1>4. QED
  BY <1>1, <1>2, <1>3, PTL DEF NoticesSpec


-----------------------------------------------------------------------------
(***************************************************************************)
(* Accounts, for every set of people, roles and requests. AccountsInv says *)
(* what a request and a boot have established at each of their places, and *)
(* counts impersonations and their notices. AloneInv is what holds in      *)
(* addition when requests do not overlap: what a request has checked still *)
(* holds when it writes.                                                   *)
(***************************************************************************)
\* A request is under way.
Busy(c) == callAt[c] # "idle"
\* A row of ImpersonationSession.
Imp == [actor : People, target : People, ended : BOOLEAN]

\* What a request is, by the place it is at.
CallerAgrees(c) ==
  LET q == call[c] IN
  /\ ~Busy(c) => q = None
  /\ Busy(c) =>
       /\ boot = "serving" /\ q \in Request
       /\ q.op # "visit" => q.sub \in People
       /\ q.op = "status" => q.value \in UserStatus
       /\ q.op \in {"assign", "remove"} => q.value \in Roles
       /\ q.imp # 0 => q.imp \in 1 .. Len(imps) /\ imps[q.imp].target = q.sub
       /\ callAt[c] = "permit" => q.op # "visit"
       /\ callAt[c] = "write" => q.op \in {"status", "start", "stop"}
       /\ callAt[c] = "write" /\ q.op = "status" => users[q.target] # None
       /\ callAt[c] = "write" /\ q.op = "stop" => q.imp # 0
       /\ callAt[c] = "wallet" => q.op = "profile"
       /\ callAt[c] = "notify" => q.op = "stop" /\ q.imp # 0 /\ imps[q.imp].ended
\* It is so of every request.
CallersAgree == \A c \in AccountCalls : CallerAgrees(c)

\* What a boot has done when it is at a place; the first boot has made Root a super admin
\* for good.
BootAgrees ==
  /\ boot # "permissions" => seeded = Permissions
  /\ boot \notin {"permissions", "role"} =>
       granted["super_admin"] # None /\ "super" \in granted["super_admin"]
  /\ boot \in {"grant", "serving"} => granted["member"] # None
  /\ boot = "serving" => "profile" \in granted["member"]
  /\ boot \notin {"permissions", "role", "user"} => users[Root] # None
  /\ boot \in {"activate", "member", "grant", "serving"} \/ Len(imps) > 0 =>
       "super_admin" \in roles[Root]
  /\ \A p \in People : users[p] = None => roles[p] = {}

\* No more impersonations than are started, each told as often as it is stopped.
Stopping(i) ==
  {c \in AccountCalls : callAt[c] \in {"write", "notify"} /\ call[c].op = "stop" /\ call[c].imp = i}
\* Impersonations are within their bound, and stops are told.
ImpsAgree ==
  /\ Len(imps) + Cardinality(Starting) <= MaxImpersonations
  /\ \A i \in ImpIds :
       /\ told[i] + Cardinality(Stopping(i)) <= Cardinality(AccountCalls)
       /\ told[i] > 0 => i \in 1 .. Len(imps) /\ imps[i].ended

\* Targets have a row, unless one that has none was asked for.
TargetsAreKnown ==
  "unknown" \notin faults =>
    /\ \A i \in 1 .. Len(imps) : users[imps[i].target] # None
    /\ \A c \in AccountCalls : Busy(c) /\ call[c].op = "start" => users[call[c].target] # None
\* An impersonation that was ended was told of, or is about to be.
EndedIsTold ==
  faults \cap {"die", "unknown", "mute"} = {} =>
    \A i \in 1 .. Len(imps) :
      imps[i].ended => told[i] > 0 \/ \E c \in AccountCalls : callAt[c] = "notify" /\ call[c].imp = i

\* The inductive invariant, whatever the faults.
AccountsInv ==
  /\ AccountsTypeOK /\ CallersAgree /\ BootAgrees /\ ImpsAgree /\ TargetsAreKnown /\ EndedIsTold
  /\ CompletionOpensWallet

\* Without overlap, what one request has read still holds when it writes.
OneRequest == \A c, d \in AccountCalls : Busy(c) /\ Busy(d) => c = d
\* The permission, the session and the status a request was checked with are what they were.
ReadStillHolds ==
  \A c \in AccountCalls :
    /\ Executing(c) /\ call[c].op # "visit" /\ RequiredPermission[call[c].op] # None =>
         userHasPermission(call[c].sub, RequiredPermission[call[c].op])
    /\ callAt[c] \in {"permit", "do", "write"} /\ call[c].imp # 0 => ~imps[call[c].imp].ended
    /\ callAt[c] = "write" /\ call[c].op = "status" =>
         call[c].value \in STATUS_TRANSITIONS[users[call[c].target].status]
\* A target is told once.
ToldOnce ==
  /\ \A c \in AccountCalls : callAt[c] = "notify" => told[call[c].imp] = 0
  /\ \A i \in ImpIds : told[i] <= 1
\* No super admin is impersonated, or made one while impersonated.
NoSuperTarget ==
  "promote" \notin faults =>
    /\ \A i \in 1 .. Len(imps) : ~imps[i].ended => "super_admin" \notin roles[imps[i].target]
    /\ \A c \in AccountCalls :
         /\ callAt[c] = "write" /\ call[c].op = "start" => "super_admin" \notin roles[call[c].target]
         /\ Busy(c) /\ call[c].op = "assign" /\ call[c].value = "super_admin" =>
              \A i \in 1 .. Len(imps) : ~imps[i].ended => imps[i].target # call[c].target
\* What holds in addition when requests do not overlap.
AloneInv == Alone => OneRequest /\ ReadStillHolds /\ ToldOnce /\ NoSuperTarget
-----------------------------------------------------------------------------
LEMMA ImpsAre ==
  ASSUME AccountsTypeOK
  PROVE  /\ Len(imps) \in Nat /\ DOMAIN imps = 1 .. Len(imps) /\ imps \in Seq(Imp)
         /\ Len(imps) <= MaxImpersonations /\ MaxImpersonations \in Nat
         /\ \A i \in 1 .. Len(imps) :
              /\ imps[i] \in Imp /\ i \in ImpIds
              /\ imps[i].target \in People /\ imps[i].ended \in BOOLEAN
<1>1. imps \in Seq(Imp) /\ Len(imps) <= MaxImpersonations /\ MaxImpersonations \in Nat
  BY AccountAssumption DEF AccountsTypeOK, Imp
<1>2. Len(imps) \in Nat /\ DOMAIN imps = 1 .. Len(imps) /\ \A i \in 1 .. Len(imps) : imps[i] \in Imp
  BY <1>1, LenProperties, ElementOfSeq
<1>3. QED
  BY <1>1, <1>2 DEF Imp, ImpIds

LEMMA CountsAreNat ==
  ASSUME NEW S \in SUBSET AccountCalls
  PROVE  IsFiniteSet(S) /\ Cardinality(S) \in Nat /\ Cardinality(S) <= Cardinality(AccountCalls)
         /\ Cardinality(AccountCalls) \in Nat
BY AccountAssumption, FS_Subset, FS_CardinalityType

LEMMA StartsAccounts == AccountsInit => AccountsInv /\ AloneInv
<1> SUFFICES ASSUME AccountsInit PROVE AccountsInv /\ AloneInv
  OBVIOUS
<1> USE AccountAssumption, RootAssumption DEF AccountsInit
<1>1. Len(imps) = 0 /\ imps \in Seq(Imp)
  OBVIOUS
<1>2. Cardinality(AccountCalls) \in Nat
  BY FS_CardinalityType
<1>3. AccountsTypeOK
  <2>1. /\ imps \in Seq([actor : People, target : People, ended : BOOLEAN])
        /\ Len(imps) <= MaxImpersonations
    BY <1>1 DEF Imp
  <2>2. told \in [ImpIds -> 0 .. Cardinality(AccountCalls)]
    BY <1>2
  <2>3. /\ granted \in [Roles -> (SUBSET Permissions) \cup {None}]
        /\ users \in [People -> [status : UserStatus, profile : BOOLEAN] \cup {None}]
        /\ roles \in [People -> SUBSET Roles]
    OBVIOUS
  <2>4. /\ call \in [AccountCalls -> Request \cup {None}]
        /\ callAt \in [AccountCalls -> {"idle", "jwt", "permit", "do", "write", "wallet", "notify"}]
    OBVIOUS
  <2>5. QED
    BY <2>1, <2>2, <2>3, <2>4 DEF AccountsTypeOK
<1>4. Starting = {} /\ \A i \in ImpIds : Stopping(i) = {}
  BY DEF Starting, Stopping
<1>5. Cardinality(Starting) = 0 /\ \A i \in ImpIds : Cardinality(Stopping(i)) = 0
  BY <1>4, FS_EmptySet
<1>6. ImpsAgree
  BY <1>1, <1>2, <1>5 DEF ImpsAgree
<1>7. CallersAgree /\ BootAgrees /\ TargetsAreKnown /\ EndedIsTold /\ CompletionOpensWallet
  BY <1>1 DEF CallersAgree, CallerAgrees, Busy, BootAgrees, TargetsAreKnown, EndedIsTold,
     CompletionOpensWallet
<1>8. AloneInv
  BY <1>1 DEF AloneInv, OneRequest, Busy, ReadStillHolds, Executing, ToldOnce, NoSuperTarget
<1>9. QED
  BY <1>3, <1>6, <1>7, <1>8 DEF AccountsInv

\* Rows of users and impersonations stay, and what has ended has ended.
RowsStay ==
  /\ Len(imps') \in Nat /\ Len(imps) <= Len(imps')
  /\ \A i \in 1 .. Len(imps) :
       imps'[i].target = imps[i].target /\ (imps[i].ended => imps'[i].ended)
  /\ \A p \in People : users[p] # None => users'[p] # None
\* A step of one request leaves the others where they are.
OthersWait(c) ==
  /\ boot' = boot /\ faults' = faults
  /\ \A d \in AccountCalls : d # c => call'[d] = call[d] /\ callAt'[d] = callAt[d]

LEMMA OthersAgree ==
  ASSUME AccountsInv, RowsStay, NEW c \in AccountCalls, OthersWait(c), CallerAgrees(c)'
  PROVE  CallersAgree'
<1>1. Len(imps) \in Nat /\ Len(imps') \in Nat
  BY ImpsAre DEF AccountsInv, RowsStay
<1>2. ASSUME NEW d \in AccountCalls, d # c PROVE CallerAgrees(d)'
  <2>1. CallerAgrees(d) /\ call'[d] = call[d] /\ callAt'[d] = callAt[d] /\ boot' = boot
    BY <1>2 DEF AccountsInv, CallersAgree, OthersWait
  <2>2. Busy(d) => call[d].target \in People
    BY <2>1 DEF CallerAgrees, Request
  <2>3. QED
    BY <1>1, <2>1, <2>2 DEF CallerAgrees, Busy, RowsStay
<1>3. QED
  BY <1>2 DEF CallersAgree

\* A request that neither starts nor stops an impersonation, nor tells of one.
LEMMA QuietStep ==
  ASSUME AccountsInv, NEW c \in AccountCalls, OthersWait(c), CallerAgrees(c)',
         callAt[c] \notin {"idle", "notify"}, callAt'[c] # "notify",
         callAt'[c] = "write" => call[c].op # "stop",
         Busy(c)' => call'[c].op = call[c].op /\ call'[c].target = call[c].target,
         AccountsTypeOK',
         UNCHANGED <<seeded, granted, imps, told>>,
         \A p \in People : users[p] # None => users'[p] # None,
         \A p \in People : users'[p] = None => roles'[p] = {},
         "super_admin" \in roles[Root] => "super_admin" \in roles'[Root],
         CompletionOpensWallet'
  PROVE  AccountsInv'
<1>1. CallersAgree'
  <2>1. RowsStay
    BY ImpsAre DEF RowsStay, AccountsInv
  <2>2. QED
    BY <2>1, OthersAgree
<1>2. BootAgrees'
  <2>1. boot' = boot
    BY DEF OthersWait
  <2>2. Root \in People
    BY RootAssumption
  <2>3. QED
    BY <2>1, <2>2 DEF BootAgrees, AccountsInv
<1>3. Starting' \subseteq Starting
  <2>1. call'[c] = None \/ Busy(c)'
    BY DEF CallerAgrees
  <2>2. call[c] # None
    BY AccountAssumption DEF AccountsInv, CallersAgree, CallerAgrees, Busy
  <2>3. QED
    BY <2>1, <2>2 DEF Starting, OthersWait
<1>4. \A i \in ImpIds : Stopping(i)' \subseteq Stopping(i)
  BY DEF Stopping, OthersWait, Busy
<1>5. ImpsAgree'
  <2>1. Cardinality(Starting') <= Cardinality(Starting) /\ Cardinality(Starting') \in Nat
        /\ Cardinality(Starting) \in Nat
    BY <1>3, CountsAreNat, FS_Subset DEF Starting
  <2>2. ASSUME NEW i \in ImpIds
        PROVE  told'[i] + Cardinality(Stopping(i)') <= Cardinality(AccountCalls)
    <3>1. IsFiniteSet(Stopping(i)) /\ Cardinality(Stopping(i)) \in Nat /\ Cardinality(AccountCalls) \in Nat
      BY CountsAreNat DEF Stopping
    <3>2. Cardinality(Stopping(i)') <= Cardinality(Stopping(i)) /\ Cardinality(Stopping(i)') \in Nat
      BY <1>4, <3>1, FS_Subset, FS_CardinalityType
    <3>3. told[i] \in Nat /\ told' = told
      BY <3>1 DEF AccountsInv, AccountsTypeOK
    <3>4. QED
      BY <3>1, <3>2, <3>3 DEF AccountsInv, ImpsAgree
  <2>3. Len(imps) \in Nat /\ MaxImpersonations \in Nat
    BY ImpsAre DEF AccountsInv
  <2>4. Len(imps') + Cardinality(Starting') <= MaxImpersonations
    BY <2>1, <2>3 DEF AccountsInv, ImpsAgree
  <2>5. QED
    BY <2>2, <2>4 DEF AccountsInv, ImpsAgree
<1>6. TargetsAreKnown'
  <2>1. \A i \in 1 .. Len(imps) : imps[i].target \in People
    BY ImpsAre DEF AccountsInv
  <2>2. \A d \in AccountCalls : Busy(d) => call[d].target \in People
    BY DEF AccountsInv, CallersAgree, CallerAgrees, Request
  <2>3. QED
    BY <2>1, <2>2 DEF AccountsInv, TargetsAreKnown, OthersWait, Busy
<1>7. EndedIsTold'
  BY DEF AccountsInv, EndedIsTold, OthersWait
<1>8. QED
  BY <1>1, <1>2, <1>5, <1>6, <1>7 DEF AccountsInv

\* What a step of a request leaves alone.
LEMMA CallMovesOne ==
  ASSUME AccountsInv, NEW c \in AccountCalls, BeginCall(c) \/ CallStep(c)
  PROVE  OthersWait(c) /\ UNCHANGED <<seeded, granted, expired>>
<1>1. boot' = boot /\ faults' = faults /\ UNCHANGED <<seeded, granted, expired>>
  BY DEF BeginCall, CallStep, JwtAuth, Permit, Visit, completeProfile, OpenWallet, ReadStatus,
     WriteStatus, assignRoleByAdmin, removeRoleByAdmin, CheckTarget, CreateImpersonation,
     ReadImpersonation, EndImpersonation, TellTarget, rbac, impersonation
<1>2. DOMAIN call = AccountCalls /\ DOMAIN callAt = AccountCalls
  BY DEF AccountsInv, AccountsTypeOK
<1>3. \A d \in AccountCalls : d # c => call'[d] = call[d]
  BY <1>2 DEF BeginCall, CallStep, JwtAuth, Permit, Visit, completeProfile, OpenWallet, ReadStatus,
     WriteStatus, assignRoleByAdmin, removeRoleByAdmin, CheckTarget, CreateImpersonation,
     ReadImpersonation, EndImpersonation, TellTarget, CallTo, EndCall
<1>4. \A d \in AccountCalls : d # c => callAt'[d] = callAt[d]
  BY <1>2 DEF BeginCall, CallStep, JwtAuth, Permit, Visit, completeProfile, OpenWallet, ReadStatus,
     WriteStatus, assignRoleByAdmin, removeRoleByAdmin, CheckTarget, CreateImpersonation,
     ReadImpersonation, EndImpersonation, TellTarget, CallTo, EndCall
<1>5. QED
  BY <1>1, <1>3, <1>4 DEF OthersWait

\* The request under way and its place.
LEMMA CallIs ==
  ASSUME AccountsInv, NEW c \in AccountCalls, callAt[c] # "idle"
  PROVE  /\ boot = "serving" /\ call[c] \in Request /\ call[c] # None
         /\ call[c].target \in People /\ call[c].imp \in 0 .. MaxImpersonations
         /\ call = [call EXCEPT ![c] = call[c]]
         /\ DOMAIN call = AccountCalls /\ DOMAIN callAt = AccountCalls
         /\ CallerAgrees(c)
BY AccountAssumption DEF AccountsInv, AccountsTypeOK, CallersAgree, CallerAgrees, Busy, Request

LEMMA GuardKeepsInv ==
  ASSUME AccountsInv, NEW c \in AccountCalls, JwtAuth(c) \/ Permit(c) \/ Visit(c) \/ ReadStatus(c) \/ CheckTarget(c)
  PROVE  AccountsInv'
<1>1. OthersWait(c)
  BY CallMovesOne DEF CallStep
<1>2. /\ callAt[c] \in {"jwt", "permit", "do"}
      /\ UNCHANGED <<seeded, granted, roles, users, wallets, finished, imps, expired, told, boot, faults>>
  BY DEF JwtAuth, Permit, Visit, ReadStatus, CheckTarget, At, rbac, profiles, impersonation
<1> DEFINE q == call[c]
<1>3. q \in Request /\ CallerAgrees(c) /\ DOMAIN call = AccountCalls /\ DOMAIN callAt = AccountCalls
  BY <1>2, CallIs
<1>4. \/ callAt'[c] = "idle" /\ call'[c] = None
      \/ /\ callAt'[c] = "do" /\ q.op = "visit" /\ call'[c] = [q EXCEPT !.sub = None, !.imp = 0]
      \/ /\ callAt'[c] = "do" /\ call'[c] = q
      \/ /\ callAt'[c] = "permit" /\ call'[c] = q /\ q.op # "visit"
      \/ /\ callAt'[c] = "write" /\ call'[c] = q
         /\ q.op = "start" \/ (q.op = "status" /\ users[q.target] # None)
  <2>1. CASE JwtAuth(c)
    <3> DEFINE ended == q.imp # 0 /\ imps[q.imp].ended
    <3>1. CASE ended /\ q.op # "visit"
      BY <1>3, <2>1, <3>1 DEF JwtAuth, EndCall, CallTo
    <3>2. CASE ended /\ q.op = "visit"
      <4>1. call' = [call EXCEPT ![c].sub = None, ![c].imp = 0] /\ callAt' = [callAt EXCEPT ![c] = "do"]
        BY <2>1, <3>2 DEF JwtAuth, EndCall, CallTo
      <4>2. call'[c] = [q EXCEPT !.sub = None, !.imp = 0] /\ callAt'[c] = "do"
        BY <1>3, <4>1
      <4>3. QED
        BY <3>2, <4>2
    <3>3. CASE ~ended
      BY <1>3, <2>1, <3>3 DEF JwtAuth, EndCall, CallTo
    <3>4. QED
      BY <3>1, <3>2, <3>3
  <2>2. CASE Permit(c)
    BY <1>3, <2>2 DEF Permit, EndCall, CallTo
  <2>3. CASE Visit(c)
    BY <1>3, <2>3 DEF Visit, EndCall, CallTo
  <2>4. CASE ReadStatus(c)
    BY <1>3, <2>4 DEF ReadStatus, EndCall, CallTo, At
  <2>5. CASE CheckTarget(c)
    BY <1>3, <2>5 DEF CheckTarget, EndCall, CallTo, At
  <2>6. QED
    BY <2>1, <2>2, <2>3, <2>4, <2>5
<1>5. \/ callAt'[c] = "idle" /\ call'[c] = None
      \/ /\ call'[c] \in Request /\ call'[c].op = q.op /\ call'[c].target = q.target
         /\ call'[c].value = q.value
         /\ \/ call'[c].sub = q.sub /\ call'[c].imp = q.imp
            \/ q.op = "visit" /\ call'[c].imp = 0
  <2>1. 0 \in 0 .. MaxImpersonations
    BY AccountAssumption
  <2> DEFINE anon == [q EXCEPT !.sub = None, !.imp = 0]
  <2>2. anon \in Request /\ anon.op = q.op /\ anon.target = q.target /\ anon.value = q.value /\ anon.imp = 0
    BY <1>3, <2>1 DEF Request
  <2> HIDE DEF anon
  <2>3. \/ callAt'[c] = "idle" /\ call'[c] = None
        \/ call'[c] = q
        \/ call'[c] = anon /\ q.op = "visit"
    BY <1>4 DEF anon
  <2>4. QED
    BY <1>3, <2>2, <2>3
<1>6. CallerAgrees(c)'
  <2>1. CASE callAt'[c] = "idle"
    BY <1>4, <2>1 DEF CallerAgrees, Busy
  <2>2. CASE callAt'[c] # "idle"
    <3>1. boot' = "serving" /\ call'[c] \in Request /\ Busy(c) /\ Busy(c)'
      <4>1. q # None /\ boot = "serving" /\ callAt[c] # "idle"
        BY <1>2, CallIs
      <4>2. call'[c] \in Request
        BY <1>5, <2>2
      <4>3. QED
        BY <1>2, <2>2, <4>1, <4>2 DEF Busy
    <3>2. QED
      BY <1>2, <1>3, <1>4, <1>5, <3>1, AccountAssumption DEF CallerAgrees
  <2>3. QED
    BY <2>1, <2>2
<1>7. AccountsTypeOK'
  <2>1. callAt' \in [AccountCalls -> {"idle", "jwt", "permit", "do", "write", "wallet", "notify"}]
    BY <1>4 DEF AccountsInv, AccountsTypeOK, JwtAuth, Permit, Visit, ReadStatus, CheckTarget, CallTo, EndCall
  <2>2. call' \in [AccountCalls -> Request \cup {None}]
    <3>1. call' = [call EXCEPT ![c] = call'[c]]
      BY <1>3 DEF AccountsInv, AccountsTypeOK, JwtAuth, Permit, Visit, ReadStatus, CheckTarget, CallTo, EndCall
    <3>2. call'[c] \in Request \cup {None}
      BY <1>5
    <3>3. QED
      BY <3>1, <3>2 DEF AccountsInv, AccountsTypeOK
  <2>3. QED
    BY <1>2, <2>1, <2>2 DEF AccountsInv, AccountsTypeOK
<1>8. BootAgrees /\ CompletionOpensWallet
  BY DEF AccountsInv
<1>9. /\ callAt[c] \notin {"idle", "notify"} /\ callAt'[c] # "notify"
      /\ callAt'[c] = "write" => q.op # "stop"
      /\ Busy(c)' => call'[c].op = q.op /\ call'[c].target = q.target
  <2>1. Busy(c)' => call'[c] # None
    BY <1>6, AccountAssumption DEF CallerAgrees
  <2>2. QED
    BY <1>2, <1>4, <1>5, <2>1
<1>10. /\ \A p \in People : users[p] # None => users'[p] # None
       /\ \A p \in People : users'[p] = None => roles'[p] = {}
       /\ "super_admin" \in roles[Root] => "super_admin" \in roles'[Root]
       /\ CompletionOpensWallet'
  BY <1>2, <1>8 DEF BootAgrees, CompletionOpensWallet
<1>11. QED
  BY <1>1, <1>2, <1>6, <1>7, <1>9, <1>10, QuietStep

\* A request that ends, or goes on with what it asked for.
LEMMA CallGoesOn ==
  ASSUME AccountsInv, NEW c \in AccountCalls, callAt[c] # "idle",
         NEW spot \in {"jwt", "permit", "do", "write", "wallet", "notify"},
         EndCall(c) \/ CallTo(c, spot)
  PROVE  /\ call' \in [AccountCalls -> Request \cup {None}]
         /\ callAt' \in [AccountCalls -> {"idle", "jwt", "permit", "do", "write", "wallet", "notify"}]
         /\ \/ callAt'[c] = "idle" /\ call'[c] = None
            \/ callAt'[c] = spot /\ call'[c] = call[c]
<1>1. /\ call \in [AccountCalls -> Request \cup {None}]
      /\ callAt \in [AccountCalls -> {"idle", "jwt", "permit", "do", "write", "wallet", "notify"}]
  BY DEF AccountsInv, AccountsTypeOK
<1>2. CASE EndCall(c)
  BY <1>1, <1>2 DEF EndCall
<1>3. CASE CallTo(c, spot)
  BY <1>1, <1>3 DEF CallTo
<1>4. QED
  BY <1>2, <1>3

LEMMA UserKeepsInv ==
  ASSUME AccountsInv, NEW c \in AccountCalls,
         completeProfile(c) \/ OpenWallet(c) \/ WriteStatus(c) \/ assignRoleByAdmin(c) \/ removeRoleByAdmin(c)
  PROVE  AccountsInv'
<1> DEFINE q == call[c]
<1>1. OthersWait(c) /\ UNCHANGED <<seeded, granted, imps, expired, told, faults, boot>>
  BY CallMovesOne DEF CallStep, OthersWait, completeProfile, OpenWallet, WriteStatus,
     assignRoleByAdmin, removeRoleByAdmin, impersonation
<1>2. callAt[c] \in {"do", "write", "wallet"} /\ (callAt[c] # "wallet" => q.op # "visit" /\ q.op # "stop")
      /\ (EndCall(c) \/ (CallTo(c, "wallet") /\ q.op = "profile"))
  BY DEF completeProfile, OpenWallet, WriteStatus, assignRoleByAdmin, removeRoleByAdmin, At, EndCall, CallTo
<1>3. /\ q \in Request /\ CallerAgrees(c) /\ q.target \in People /\ q.op # "visit" /\ q.sub \in People
      /\ q # None /\ boot = "serving"
  BY <1>2, CallIs DEF CallerAgrees, Busy
<1>4. /\ call' \in [AccountCalls -> Request \cup {None}]
      /\ callAt' \in [AccountCalls -> {"idle", "jwt", "permit", "do", "write", "wallet", "notify"}]
      /\ \/ callAt'[c] = "idle" /\ call'[c] = None
         \/ callAt'[c] = "wallet" /\ call'[c] = q /\ q.op = "profile"
  <2>1. CASE EndCall(c)
    BY <1>2, <2>1, CallGoesOn
  <2>2. CASE CallTo(c, "wallet") /\ q.op = "profile"
    BY <1>2, <2>2, CallGoesOn DEF CallTo, AccountsInv, AccountsTypeOK
  <2>3. QED
    BY <1>2, <2>1, <2>2
<1>5. /\ users' \in [People -> [status : UserStatus, profile : BOOLEAN] \cup {None}]
      /\ \A p \in People : users[p] # None => users'[p] # None
  <2>1. users \in [People -> [status : UserStatus, profile : BOOLEAN] \cup {None}]
    BY DEF AccountsInv, AccountsTypeOK
  <2>2. CASE users' = users
    BY <2>1, <2>2
  <2>3. ASSUME completeProfile(c), users' # users PROVE <1>5!2 /\ <1>5!1
    <3>1. users' = [users EXCEPT ![q.sub] = [status |-> "ACTIVE", profile |-> TRUE]]
      BY <2>3 DEF completeProfile
    <3>2. [status |-> "ACTIVE", profile |-> TRUE] \in [status : UserStatus, profile : BOOLEAN]
      BY DEF UserStatus
    <3>3. QED
      BY <2>1, <3>1, <3>2, AccountAssumption
  <2>4. ASSUME WriteStatus(c) PROVE <1>5!2 /\ <1>5!1
    <3>1. users' = [users EXCEPT ![q.target] = [users[q.target] EXCEPT !.status = q.value]]
      BY <2>4 DEF WriteStatus
    <3>2. users[q.target] # None /\ q.value \in UserStatus
      BY <1>3, <2>4 DEF WriteStatus, At, CallerAgrees, Busy
    <3>3. [users[q.target] EXCEPT !.status = q.value] \in [status : UserStatus, profile : BOOLEAN]
      BY <1>3, <2>1, <3>2
    <3>4. QED
      BY <2>1, <3>1, <3>3, AccountAssumption
  <2>5. QED
    BY <2>2, <2>3, <2>4 DEF OpenWallet, assignRoleByAdmin, removeRoleByAdmin, profiles
<1>6. /\ roles' \in [People -> SUBSET Roles]
      /\ \A p \in People : users'[p] = None => roles'[p] = {}
      /\ "super_admin" \in roles[Root] => "super_admin" \in roles'[Root]
  <2>1. roles \in [People -> SUBSET Roles] /\ \A p \in People : users[p] = None => roles[p] = {}
    BY DEF AccountsInv, AccountsTypeOK, BootAgrees
  <2>2. CASE roles' = roles
    BY <1>5, <2>1, <2>2
  <2>3. CASE assignRoleByAdmin(c) /\ roles' # roles
    <3>1. roles' = [roles EXCEPT ![q.target] = @ \cup {q.value}] /\ users[q.target] # None
          /\ users' = users
      BY <2>3 DEF assignRoleByAdmin, profiles
    <3>2. q.value \in Roles
      BY <1>2, <1>3, <2>3 DEF assignRoleByAdmin, At, CallerAgrees, Busy
    <3>3. QED
      BY <1>3, <2>1, <3>1, <3>2, RootAssumption
  <2>4. CASE removeRoleByAdmin(c) /\ roles' # roles
    <3>1. roles' = [roles EXCEPT ![q.target] = @ \ {q.value}] /\ users' = users
          /\ (q.target = Root => q.value # "super_admin")
      BY <2>4 DEF removeRoleByAdmin, profiles
    <3>2. QED
      BY <1>3, <2>1, <3>1, RootAssumption
  <2>5. QED
    BY <2>2, <2>3, <2>4 DEF OpenWallet, completeProfile, WriteStatus, rbac
<1>7. wallets' \subseteq People /\ finished' \subseteq People /\ CompletionOpensWallet'
  <2>1. wallets \subseteq People /\ finished \subseteq People /\ CompletionOpensWallet
    BY DEF AccountsInv, AccountsTypeOK
  <2>2. CASE OpenWallet(c)
    BY <1>3, <2>1, <2>2 DEF OpenWallet, CompletionOpensWallet
  <2>3. CASE wallets' = wallets /\ finished' = finished
    BY <2>1, <2>3 DEF CompletionOpensWallet
  <2>4. QED
    BY <2>2, <2>3 DEF completeProfile, WriteStatus, assignRoleByAdmin, removeRoleByAdmin, profiles
<1>8. AccountsTypeOK'
  BY <1>1, <1>4, <1>5, <1>6, <1>7 DEF AccountsInv, AccountsTypeOK
<1>9. CallerAgrees(c)'
  BY <1>1, <1>3, <1>4, <1>5 DEF CallerAgrees, Busy
<1>10. QED
  BY <1>1, <1>2, <1>4, <1>5, <1>6, <1>7, <1>8, <1>9, QuietStep DEF Busy

\* Beginning a request, and the steps of an impersonation.
LEMMA BeginKeepsInv == ASSUME AccountsInv, NEW c \in AccountCalls, BeginCall(c) PROVE AccountsInv'
<1>1. OthersWait(c) /\ callAt[c] = "idle" /\ boot = "serving"
      /\ UNCHANGED <<seeded, granted, roles, users, wallets, finished, imps, expired, told, boot, faults>>
  BY CallMovesOne DEF BeginCall, rbac, profiles, impersonation
<1>2. PICK t \in Tokens : \E ask \in Asks(t.sub) :
        /\ ask.op = "start" => "unknown" \in faults \/ users[ask.target] # None
        /\ ask.op = "start" => Len(imps) + Cardinality(Starting) < MaxImpersonations
        /\ call' = [call EXCEPT ![c] =
                      [sub |-> t.sub, imp |-> t.imp, op |-> ask.op, target |-> ask.target,
                       value |-> ask.value]]
  BY DEF BeginCall
<1>3. PICK ask \in Asks(t.sub) :
        /\ ask.op = "start" => "unknown" \in faults \/ users[ask.target] # None
        /\ ask.op = "start" => Len(imps) + Cardinality(Starting) < MaxImpersonations
        /\ call' = [call EXCEPT ![c] =
                      [sub |-> t.sub, imp |-> t.imp, op |-> ask.op, target |-> ask.target,
                       value |-> ask.value]]
  BY <1>2
<1> DEFINE q == [sub |-> t.sub, imp |-> t.imp, op |-> ask.op, target |-> ask.target,
                 value |-> ask.value]
<1>4. /\ t.sub \in People /\ t.imp \in 0 .. MaxImpersonations
      /\ t.imp # 0 => t.imp \in 1 .. Len(imps) /\ imps[t.imp].target = t.sub
  <2>1. DOMAIN imps = 1 .. Len(imps) /\ Len(imps) \in Nat /\ Len(imps) <= MaxImpersonations
        /\ MaxImpersonations \in Nat /\ \A i \in 1 .. Len(imps) : imps[i].target \in People
    BY ImpsAre DEF AccountsInv
  <2>2. CASE t \in {[sub |-> p, imp |-> 0] : p \in {p \in People : users[p] # None}}
    BY <2>1, <2>2
  <2>3. CASE t \in {[sub |-> imps[i].target, imp |-> i] : i \in DOMAIN imps \ expired}
    BY <2>1, <2>3
  <2>4. QED
    BY <2>2, <2>3 DEF Tokens
<1>5. /\ ask.op \in {"profile", "status", "assign", "remove", "start", "stop", "visit"}
      /\ ask.target \in People /\ ask.value \in UserStatus \cup Roles \cup {None}
      /\ ask.op = "status" => ask.value \in UserStatus
      /\ ask.op \in {"assign", "remove"} => ask.value \in Roles
  BY <1>4 DEF Asks
<1>6. q \in Request /\ q # None
  BY <1>4, <1>5, AccountAssumption DEF Request
<1>7. /\ callAt' = [callAt EXCEPT ![c] = "jwt"]
      /\ call \in [AccountCalls -> Request \cup {None}]
      /\ callAt \in [AccountCalls -> {"idle", "jwt", "permit", "do", "write", "wallet", "notify"}]
  BY DEF BeginCall, AccountsInv, AccountsTypeOK
<1>8. callAt'[c] = "jwt" /\ call'[c] = q /\ call[c] = None
  BY <1>1, <1>3, <1>7 DEF AccountsInv, CallersAgree, CallerAgrees, Busy
<1> HIDE DEF q
<1>9. AccountsTypeOK'
  <2>1. call' \in [AccountCalls -> Request \cup {None}]
    BY <1>3, <1>6, <1>7 DEF q
  <2>2. QED
    BY <1>1, <1>7, <2>1 DEF AccountsInv, AccountsTypeOK
<1>10. CallersAgree'
  <2>1. RowsStay
    BY <1>1, ImpsAre DEF RowsStay, AccountsInv
  <2>2. CallerAgrees(c)'
    <3>1. q.sub = t.sub /\ q.imp = t.imp /\ q.op = ask.op /\ q.value = ask.value
      BY DEF q
    <3>2. QED
      BY <1>1, <1>4, <1>5, <1>6, <1>8, <3>1 DEF CallerAgrees, Busy
  <2>3. QED
    BY <1>1, <2>1, <2>2, OthersAgree
<1>11. BootAgrees' /\ CompletionOpensWallet'
  BY <1>1 DEF AccountsInv, BootAgrees, CompletionOpensWallet
<1>12. ImpsAgree'
  <2>1. Len(imps') + Cardinality(Starting') <= MaxImpersonations
    <3>1. CASE ask.op = "start"
      <4>1. Starting' \subseteq Starting \cup {c} /\ c \notin Starting
        BY <1>1, <1>8, AccountAssumption DEF Starting, OthersWait
      <4>2. IsFiniteSet(Starting) /\ Cardinality(Starting) \in Nat
        BY CountsAreNat DEF Starting
      <4>3. /\ Cardinality(Starting \cup {c}) = Cardinality(Starting) + 1
            /\ IsFiniteSet(Starting \cup {c})
        BY <4>1, <4>2, FS_AddElement
      <4>4. Cardinality(Starting') <= Cardinality(Starting) + 1 /\ Cardinality(Starting') \in Nat
        BY <4>1, <4>3, FS_Subset, FS_CardinalityType
      <4>5. QED
        BY <1>1, <1>3, <3>1, <4>2, <4>4, ImpsAre DEF AccountsInv
    <3>2. CASE ask.op # "start"
      <4>1. Starting' = Starting
        BY <1>1, <1>8, <3>2 DEF Starting, OthersWait, q
      <4>2. QED
        BY <1>1, <4>1 DEF AccountsInv, ImpsAgree
    <3>3. QED
      BY <3>1, <3>2
  <2>2. \A i \in ImpIds : Stopping(i)' = Stopping(i)
    BY <1>1, <1>8 DEF Stopping, OthersWait
  <2>3. QED
    BY <1>1, <2>1, <2>2 DEF AccountsInv, ImpsAgree
<1>13. TargetsAreKnown'
  BY <1>1, <1>3, <1>8 DEF AccountsInv, TargetsAreKnown, OthersWait, Busy, q
<1>14. EndedIsTold'
  BY <1>1 DEF AccountsInv, EndedIsTold, OthersWait
<1>15. QED
  BY <1>9, <1>10, <1>11, <1>12, <1>13, <1>14 DEF AccountsInv

LEMMA CreateImpKeepsInv ==
  ASSUME AccountsInv, NEW c \in AccountCalls, CreateImpersonation(c) PROVE AccountsInv'
<1> DEFINE q == call[c]
           new == [actor |-> q.sub, target |-> q.target, ended |-> FALSE]
<1>1. OthersWait(c) /\ callAt[c] = "write" /\ q.op = "start" /\ EndCall(c)
      /\ imps' = Append(imps, new)
      /\ UNCHANGED <<seeded, granted, roles, users, wallets, finished, expired, told, boot, faults>>
  BY CallMovesOne DEF CallStep, CreateImpersonation, At, rbac, profiles
<1>2. q \in Request /\ q # None /\ q.target \in People /\ q.sub \in People /\ boot = "serving"
  BY <1>1, CallIs DEF CallerAgrees, Busy
<1>3. /\ call' \in [AccountCalls -> Request \cup {None}]
      /\ callAt' \in [AccountCalls -> {"idle", "jwt", "permit", "do", "write", "wallet", "notify"}]
      /\ callAt'[c] = "idle" /\ call'[c] = None
  BY <1>1, CallGoesOn DEF EndCall, AccountsInv, AccountsTypeOK
<1>4. /\ Len(imps) \in Nat /\ imps \in Seq(Imp) /\ new \in Imp /\ MaxImpersonations \in Nat
      /\ DOMAIN imps = 1 .. Len(imps)
  BY <1>2, ImpsAre DEF AccountsInv, Imp
<1>5. /\ imps' \in Seq(Imp) /\ Len(imps') = Len(imps) + 1 /\ imps'[Len(imps) + 1] = new
      /\ \A i \in 1 .. Len(imps) : imps'[i] = imps[i]
  <2> HIDE DEF new
  <2>1. QED
    BY <1>1, <1>4, AppendProperties
<1>6. Len(imps') + Cardinality(Starting') <= MaxImpersonations
  <2>1. c \in Starting /\ Starting' = Starting \ {c} /\ IsFiniteSet(Starting)
        /\ Cardinality(Starting) \in Nat
    BY <1>1, <1>2, <1>3, CountsAreNat DEF Starting, OthersWait
  <2>2. Cardinality(Starting') = Cardinality(Starting) - 1
    BY <2>1, FS_RemoveElement
  <2>3. QED
    BY <1>4, <1>5, <2>1, <2>2 DEF AccountsInv, ImpsAgree
<1>7. AccountsTypeOK'
  <2>1. Cardinality(Starting') \in Nat
    <3>1. Starting' \in SUBSET AccountCalls
      BY DEF Starting
    <3>2. QED
      BY <3>1, CountsAreNat
  <2>2. Len(imps') <= MaxImpersonations
    BY <1>4, <1>5, <1>6, <2>1
  <2>3. QED
    BY <1>1, <1>3, <1>5, <2>2 DEF AccountsInv, AccountsTypeOK, Imp
<1>8. CallersAgree'
  <2>1. RowsStay
    BY <1>1, <1>4, <1>5 DEF RowsStay
  <2>2. CallerAgrees(c)'
    BY <1>3 DEF CallerAgrees, Busy
  <2>3. QED
    BY <1>1, <2>1, <2>2, OthersAgree
<1>9. BootAgrees' /\ CompletionOpensWallet'
  BY <1>1, <1>2 DEF AccountsInv, BootAgrees, CompletionOpensWallet
<1>10. ImpsAgree'
  <2>1. \A i \in ImpIds : Stopping(i)' = Stopping(i)
    BY <1>1, <1>3 DEF Stopping, OthersWait
  <2>2. QED
    BY <1>1, <1>4, <1>5, <1>6, <2>1 DEF AccountsInv, ImpsAgree
<1>11. TargetsAreKnown'
  <2>1. "unknown" \notin faults => users[q.target] # None
    BY <1>1 DEF AccountsInv, TargetsAreKnown, Busy
  <2>2. new.target = q.target
    OBVIOUS
  <2> HIDE DEF new
  <2>3. \A i \in 1 .. Len(imps') : i \in 1 .. Len(imps) \/ i = Len(imps) + 1
    BY <1>4, <1>5
  <2>4. QED
    BY <1>1, <1>3, <1>5, <2>1, <2>2, <2>3 DEF AccountsInv, TargetsAreKnown, OthersWait, Busy
<1>12. EndedIsTold'
  <2>1. \A i \in 1 .. Len(imps') : i \in 1 .. Len(imps) \/ (i = Len(imps) + 1 /\ ~imps'[i].ended)
    BY <1>4, <1>5
  <2>2. QED
    BY <1>1, <1>5, <2>1 DEF AccountsInv, EndedIsTold, OthersWait
<1>13. QED
  BY <1>7, <1>8, <1>9, <1>10, <1>11, <1>12 DEF AccountsInv

\* A step of a request to stop keeps all but what a target is told.
LEMMA StopStep ==
  ASSUME AccountsInv, NEW c \in AccountCalls, OthersWait(c), CallerAgrees(c)',
         callAt[c] # "idle", call[c].op = "stop", RowsStay, Len(imps') = Len(imps),
         callAt'[c] = "idle" \/ call'[c] = call[c],
         UNCHANGED <<seeded, granted, roles, users, wallets, finished>>
  PROVE  /\ CallersAgree' /\ BootAgrees' /\ TargetsAreKnown' /\ CompletionOpensWallet'
         /\ Starting' = Starting
<1>1. CallersAgree'
  BY OthersAgree
<1>2. BootAgrees'
  BY DEF AccountsInv, BootAgrees, OthersWait
<1>3. call'[c] = None \/ call'[c] = call[c]
  BY DEF CallerAgrees, Busy
<1>4. TargetsAreKnown'
  BY <1>3 DEF AccountsInv, TargetsAreKnown, RowsStay, OthersWait, Busy
<1>5. Starting' = Starting
  BY <1>3 DEF Starting, OthersWait
<1>6. QED
  BY <1>1, <1>2, <1>4, <1>5 DEF AccountsInv, CompletionOpensWallet

LEMMA ReadImpKeepsInv ==
  ASSUME AccountsInv, NEW c \in AccountCalls, ReadImpersonation(c) PROVE AccountsInv'
<1> DEFINE q == call[c]
<1>1. /\ OthersWait(c) /\ callAt[c] = "do" /\ q.op = "stop"
      /\ UNCHANGED <<seeded, granted, roles, users, wallets, finished, imps, expired, told, boot, faults>>
      /\ EndCall(c) \/ (CallTo(c, "write") /\ q.imp # 0 /\ Live(q.imp))
  BY CallMovesOne DEF CallStep, ReadImpersonation, At, rbac, profiles, impersonation
<1>2. q \in Request /\ q # None /\ boot = "serving" /\ CallerAgrees(c) /\ q.imp \in 0 .. MaxImpersonations
  BY <1>1, CallIs
<1>3. /\ call' \in [AccountCalls -> Request \cup {None}]
      /\ callAt' \in [AccountCalls -> {"idle", "jwt", "permit", "do", "write", "wallet", "notify"}]
      /\ \/ callAt'[c] = "idle" /\ call'[c] = None
         \/ callAt'[c] = "write" /\ call'[c] = q /\ q.imp # 0 /\ Live(q.imp)
  <2>1. CASE EndCall(c)
    BY <1>1, <2>1, CallGoesOn
  <2>2. CASE CallTo(c, "write") /\ q.imp # 0 /\ Live(q.imp)
    <3>1. callAt'[c] = "write"
      BY <2>2 DEF CallTo, AccountsInv, AccountsTypeOK
    <3>2. QED
      BY <1>1, <2>2, <3>1, CallGoesOn
  <2>3. QED
    BY <1>1, <2>1, <2>2
<1>4. AccountsTypeOK'
  BY <1>1, <1>3 DEF AccountsInv, AccountsTypeOK
<1>5. CallerAgrees(c)'
  BY <1>1, <1>2, <1>3 DEF CallerAgrees, Busy
<1>6. RowsStay
  BY <1>1, ImpsAre DEF RowsStay, AccountsInv
<1>7. ASSUME NEW i \in ImpIds
      PROVE  /\ told'[i] + Cardinality(Stopping(i)') <= Cardinality(AccountCalls)
             /\ told'[i] > 0 => i \in 1 .. Len(imps') /\ imps'[i].ended
  <2>1. told'[i] = told[i] /\ (told[i] > 0 => i \in 1 .. Len(imps) /\ imps[i].ended)
        /\ told[i] + Cardinality(Stopping(i)) <= Cardinality(AccountCalls)
    BY <1>1, <1>7 DEF AccountsInv, ImpsAgree
  <2>2. CASE q.imp = i /\ call'[c] = q
    <3>1. ~imps[i].ended
      BY <1>2, <1>3, <2>2, AccountAssumption DEF Live
    <3>2. Cardinality(Stopping(i)') <= Cardinality(AccountCalls) /\ Cardinality(Stopping(i)') \in Nat
          /\ Cardinality(AccountCalls) \in Nat
      <4>1. Stopping(i)' \in SUBSET AccountCalls
        BY DEF Stopping
      <4>2. QED
        BY <4>1, CountsAreNat
    <3>3. told[i] \in Nat
      BY <1>7, <3>2 DEF AccountsInv, AccountsTypeOK
    <3>4. told[i] = 0
      BY <2>1, <3>1, <3>3
    <3>5. QED
      BY <1>1, <2>1, <3>2, <3>4
  <2>3. CASE ~(q.imp = i /\ call'[c] = q)
    <3>1. Stopping(i)' = Stopping(i)
      BY <1>1, <1>2, <1>3, <2>3 DEF Stopping, OthersWait
    <3>2. QED
      BY <1>1, <2>1, <3>1
  <2>4. QED
    BY <2>2, <2>3
<1>8. EndedIsTold'
  BY <1>1 DEF AccountsInv, EndedIsTold, OthersWait
<1>9. /\ CallersAgree' /\ BootAgrees' /\ TargetsAreKnown' /\ CompletionOpensWallet'
      /\ Starting' = Starting
  <2>1. callAt'[c] = "idle" \/ call'[c] = call[c]
    BY <1>3
  <2>2. QED
    BY <1>1, <1>5, <1>6, <2>1, StopStep
<1>10. ImpsAgree'
  <2>1. Len(imps') + Cardinality(Starting') <= MaxImpersonations
    BY <1>1, <1>9 DEF AccountsInv, ImpsAgree
  <2>2. QED
    BY <1>7, <2>1 DEF ImpsAgree
<1>11. QED
  BY <1>4, <1>8, <1>9, <1>10 DEF AccountsInv

LEMMA EndImpKeepsInv ==
  ASSUME AccountsInv, NEW c \in AccountCalls, EndImpersonation(c) PROVE AccountsInv'
<1> DEFINE q == call[c]
<1>1. /\ OthersWait(c) /\ callAt[c] = "write" /\ q.op = "stop" /\ CallTo(c, "notify")
      /\ imps' = [imps EXCEPT ![q.imp].ended = TRUE]
      /\ UNCHANGED <<seeded, granted, roles, users, wallets, finished, expired, told, boot, faults>>
  BY CallMovesOne DEF CallStep, EndImpersonation, At, rbac, profiles
<1>2. q \in Request /\ q # None /\ boot = "serving" /\ CallerAgrees(c) /\ q.imp \in ImpIds
      /\ q.imp \in 1 .. Len(imps) /\ imps[q.imp].target = q.sub /\ q.imp # 0
  BY <1>1, CallIs, ImpsAre DEF CallerAgrees, Busy, AccountsInv
<1>3. /\ call' \in [AccountCalls -> Request \cup {None}]
      /\ callAt' \in [AccountCalls -> {"idle", "jwt", "permit", "do", "write", "wallet", "notify"}]
      /\ callAt'[c] = "notify" /\ call'[c] = q
  BY <1>1, CallGoesOn DEF CallTo, AccountsInv, AccountsTypeOK
<1> DEFINE new == [imps[q.imp] EXCEPT !.ended = TRUE]
<1>4. /\ Len(imps) \in Nat /\ imps \in Seq(Imp) /\ Len(imps) <= MaxImpersonations
      /\ imps[q.imp] \in Imp
  BY <1>2, ImpsAre DEF AccountsInv
<1>5. new \in Imp /\ new.ended /\ new.target = imps[q.imp].target
  BY <1>4 DEF Imp
<1>6. /\ imps' \in Seq(Imp) /\ Len(imps') = Len(imps) /\ imps'[q.imp] = new
      /\ \A i \in 1 .. Len(imps) : i # q.imp => imps'[i] = imps[i]
  <2>1. imps' = [imps EXCEPT ![q.imp] = new]
    BY <1>1
  <2> HIDE DEF new
  <2>2. QED
    BY <1>2, <1>4, <1>5, <2>1, ExceptSeq
<1> HIDE DEF new
<1>7. AccountsTypeOK'
  BY <1>1, <1>3, <1>4, <1>6 DEF AccountsInv, AccountsTypeOK, Imp
<1>8. RowsStay
  BY <1>1, <1>4, <1>5, <1>6 DEF RowsStay
<1>9. CallerAgrees(c)'
  BY <1>1, <1>2, <1>3, <1>5, <1>6 DEF CallerAgrees, Busy
<1>10. ASSUME NEW i \in ImpIds
       PROVE  /\ told'[i] + Cardinality(Stopping(i)') <= Cardinality(AccountCalls)
              /\ told'[i] > 0 => i \in 1 .. Len(imps') /\ imps'[i].ended
  <2>1. Stopping(i)' = Stopping(i)
    BY <1>1, <1>3 DEF Stopping, OthersWait
  <2>2. told'[i] = told[i] /\ (told[i] > 0 => i \in 1 .. Len(imps) /\ imps[i].ended)
        /\ told[i] + Cardinality(Stopping(i)) <= Cardinality(AccountCalls)
    BY <1>1, <1>10 DEF AccountsInv, ImpsAgree
  <2>3. QED
    BY <1>5, <1>6, <2>1, <2>2
<1>11. EndedIsTold'
  <2>1. ASSUME faults \cap {"die", "unknown", "mute"} = {}, NEW i \in 1 .. Len(imps), imps'[i].ended
        PROVE  told'[i] > 0 \/ \E d \in AccountCalls : callAt'[d] = "notify" /\ call'[d].imp = i
    <3>1. CASE i = q.imp
      BY <1>3, <3>1
    <3>2. CASE i # q.imp
      BY <1>1, <1>6, <2>1, <3>2 DEF AccountsInv, EndedIsTold, OthersWait
    <3>3. QED
      BY <3>1, <3>2
  <2>2. QED
    BY <1>1, <1>6, <2>1 DEF EndedIsTold
<1>12. /\ CallersAgree' /\ BootAgrees' /\ TargetsAreKnown' /\ CompletionOpensWallet'
       /\ Starting' = Starting
  BY <1>1, <1>3, <1>6, <1>8, <1>9, StopStep
<1>13. ImpsAgree'
  <2>1. Len(imps') + Cardinality(Starting') <= MaxImpersonations
    BY <1>6, <1>12 DEF AccountsInv, ImpsAgree
  <2>2. QED
    BY <1>10, <2>1 DEF ImpsAgree
<1>14. QED
  BY <1>7, <1>11, <1>12, <1>13 DEF AccountsInv

LEMMA TellKeepsInv ==
  ASSUME AccountsInv, NEW c \in AccountCalls, TellTarget(c) PROVE AccountsInv'
<1> DEFINE q == call[c]
<1>0. Tell(q.imp, q.sub)
  BY DEF TellTarget
<1>1. /\ OthersWait(c) /\ callAt[c] = "notify" /\ EndCall(c)
      /\ \/ told' = IF users[q.sub] = None THEN told ELSE [told EXCEPT ![q.imp] = told[q.imp] + 1]
         \/ "mute" \in faults /\ told' = told
      /\ UNCHANGED <<seeded, granted, roles, users, wallets, finished, imps, expired, boot, faults>>
  <2>1. \/ told' = IF users[q.sub] = None THEN told ELSE [told EXCEPT ![q.imp] = told[q.imp] + 1]
        \/ "mute" \in faults /\ told' = told
    BY <1>0 DEF Tell
  <2>2. QED
    BY <2>1, CallMovesOne DEF CallStep, TellTarget, rbac, profiles
<1>2. q \in Request /\ q # None /\ boot = "serving" /\ CallerAgrees(c) /\ q.imp \in ImpIds
      /\ q.imp \in 1 .. Len(imps) /\ imps[q.imp].target = q.sub /\ q.imp # 0 /\ q.op = "stop"
      /\ imps[q.imp].ended
  BY <1>1, CallIs, ImpsAre DEF CallerAgrees, Busy, AccountsInv
<1>3. /\ call' \in [AccountCalls -> Request \cup {None}]
      /\ callAt' \in [AccountCalls -> {"idle", "jwt", "permit", "do", "write", "wallet", "notify"}]
      /\ callAt'[c] = "idle" /\ call'[c] = None
  BY <1>1, CallGoesOn DEF EndCall, AccountsInv, AccountsTypeOK
<1>4. /\ told \in [ImpIds -> 0 .. Cardinality(AccountCalls)] /\ Cardinality(AccountCalls) \in Nat
  <2>1. AccountCalls \in SUBSET AccountCalls
    OBVIOUS
  <2>2. QED
    BY <2>1, CountsAreNat DEF AccountsInv, AccountsTypeOK
<1>5. /\ \A i \in ImpIds : told'[i] = told[i] \/ (i = q.imp /\ told'[i] = told[i] + 1)
      /\ users[q.sub] # None /\ "mute" \notin faults => told'[q.imp] = told[q.imp] + 1
  <2> DEFINE more == [told EXCEPT ![q.imp] = told[q.imp] + 1]
  <2>a. /\ \A i \in ImpIds : more[i] = IF i = q.imp THEN told[i] + 1 ELSE told[i]
        /\ more # told
    <3>1. \A i \in ImpIds : more[i] = IF i = q.imp THEN told[i] + 1 ELSE told[i]
      BY <1>4
    <3>2. more[q.imp] # told[q.imp]
      BY <1>2, <1>4, <3>1
    <3>3. QED
      BY <3>1, <3>2
  <2>b. \/ told' = IF users[q.sub] = None THEN told ELSE more
        \/ "mute" \in faults /\ told' = told
    BY <1>1
  <2> HIDE DEF more
  <2>1. CASE told' = told
    <3>1. users[q.sub] = None \/ "mute" \in faults
      BY <2>1, <2>a, <2>b
    <3>2. QED
      BY <2>1, <3>1
  <2>2. CASE told' = more
    <3>1. told'[q.imp] = told[q.imp] + 1
      BY <1>2, <2>2, <2>a
    <3>2. QED
      BY <2>2, <2>a, <3>1
  <2>3. QED
    BY <2>1, <2>2, <2>b
<1>6. ASSUME NEW i \in ImpIds
      PROVE  /\ told'[i] + Cardinality(Stopping(i)') <= Cardinality(AccountCalls)
             /\ told'[i] > 0 => i \in 1 .. Len(imps') /\ imps'[i].ended
             /\ told'[i] \in 0 .. Cardinality(AccountCalls)
  <2>1. (told[i] > 0 => i \in 1 .. Len(imps) /\ imps[i].ended)
        /\ told[i] + Cardinality(Stopping(i)) <= Cardinality(AccountCalls)
    BY <1>6 DEF AccountsInv, ImpsAgree
  <2>2. IsFiniteSet(Stopping(i)) /\ Cardinality(Stopping(i)) \in Nat /\ Cardinality(Stopping(i)') \in Nat
    <3>1. Stopping(i) \in SUBSET AccountCalls /\ Stopping(i)' \in SUBSET AccountCalls
      BY DEF Stopping
    <3>2. QED
      BY <3>1, CountsAreNat
  <2>3. CASE i = q.imp
    <3>1. c \in Stopping(i) /\ Stopping(i)' = Stopping(i) \ {c}
      BY <1>1, <1>2, <1>3, <2>3 DEF Stopping, OthersWait
    <3>2. Cardinality(Stopping(i)') = Cardinality(Stopping(i)) - 1
      BY <2>2, <3>1, FS_RemoveElement
    <3>3. told[i] \in Nat /\ (told'[i] = told[i] \/ told'[i] = told[i] + 1)
      BY <1>4, <1>5
    <3>4. QED
      BY SMTT(30), <1>1, <1>2, <1>4, <2>1, <2>2, <2>3, <3>2, <3>3
  <2>4. CASE i # q.imp
    <3>1. Stopping(i)' = Stopping(i)
      BY <1>1, <1>2, <1>3, <2>4 DEF Stopping, OthersWait
    <3>2. told'[i] = told[i]
      BY <1>5, <2>4
    <3>3. QED
      BY <1>1, <1>4, <2>1, <3>1, <3>2
  <2>5. QED
    BY <2>3, <2>4
<1>7. told' \in [ImpIds -> 0 .. Cardinality(AccountCalls)]
  <2>1. DOMAIN told' = ImpIds /\ told' = [i \in ImpIds |-> told'[i]]
    BY <1>1, <1>4
  <2>2. QED
    BY <1>6, <2>1
<1>8. AccountsTypeOK'
  BY <1>1, <1>3, <1>7 DEF AccountsInv, AccountsTypeOK
<1>9. RowsStay
  BY <1>1, ImpsAre DEF RowsStay, AccountsInv
<1>10. CallerAgrees(c)'
  BY <1>3 DEF CallerAgrees, Busy
<1>11. EndedIsTold'
  <2>1. ASSUME faults \cap {"die", "unknown", "mute"} = {}, NEW i \in 1 .. Len(imps), imps[i].ended
        PROVE  told'[i] > 0 \/ \E d \in AccountCalls : callAt'[d] = "notify" /\ call'[d].imp = i
    <3>1. i \in ImpIds /\ told[i] \in Nat
      BY <1>4, <2>1, ImpsAre DEF AccountsInv
    <3>2. CASE i = q.imp
      <4>1. users[q.sub] # None
        BY <1>2, <2>1 DEF AccountsInv, TargetsAreKnown
      <4>2. told'[i] = told[i] + 1
        BY <1>5, <2>1, <3>2, <4>1
      <4>3. QED
        BY <3>1, <4>2
    <3>3. CASE i # q.imp
      <4>1. told'[i] = told[i]
        BY <1>5, <3>1, <3>3
      <4>2. told[i] > 0 \/ \E d \in AccountCalls : callAt[d] = "notify" /\ call[d].imp = i
        BY <2>1 DEF AccountsInv, EndedIsTold
      <4>3. QED
        BY <1>1, <3>3, <4>1, <4>2 DEF OthersWait
    <3>4. QED
      BY <3>2, <3>3
  <2>2. QED
    BY <1>1, <2>1 DEF EndedIsTold
<1>12. /\ CallersAgree' /\ BootAgrees' /\ TargetsAreKnown' /\ CompletionOpensWallet'
       /\ Starting' = Starting
  BY <1>1, <1>2, <1>3, <1>9, <1>10, StopStep
<1>13. ImpsAgree'
  <2>1. Len(imps') + Cardinality(Starting') <= MaxImpersonations
    BY <1>1, <1>12 DEF AccountsInv, ImpsAgree
  <2>2. QED
    BY <1>6, <2>1 DEF ImpsAgree
<1>14. QED
  BY <1>8, <1>11, <1>12, <1>13 DEF AccountsInv

\* A step of no request: it leaves requests and impersonations alone and takes no row.
LEMMA SystemStep ==
  ASSUME AccountsInv, UNCHANGED <<call, callAt, imps, told, faults, wallets, finished>>,
         boot = "serving" => boot' = "serving",
         \A p \in People : users[p] # None => users'[p] # None,
         AccountsTypeOK', BootAgrees'
  PROVE  AccountsInv'
<1>1. CallersAgree'
  <2>1. ASSUME NEW c \in AccountCalls PROVE CallerAgrees(c)'
    <3>1. CallerAgrees(c)
      BY DEF AccountsInv, CallersAgree
    <3>2. Busy(c) => call[c].target \in People
      BY <3>1 DEF CallerAgrees, Request
    <3>3. QED
      BY <3>1, <3>2 DEF CallerAgrees, Busy
  <2>2. QED
    BY <2>1 DEF CallersAgree
<1>2. ImpsAgree'
  BY DEF AccountsInv, ImpsAgree, Starting, Stopping
<1>3. TargetsAreKnown'
  <2>1. \A i \in 1 .. Len(imps) : imps[i].target \in People
    BY ImpsAre DEF AccountsInv
  <2>2. \A c \in AccountCalls : Busy(c) => call[c].target \in People
    BY DEF AccountsInv, CallersAgree, CallerAgrees, Request
  <2>3. QED
    BY <2>1, <2>2 DEF AccountsInv, TargetsAreKnown, Busy
<1>4. EndedIsTold' /\ CompletionOpensWallet'
  BY DEF AccountsInv, EndedIsTold, CompletionOpensWallet
<1>5. QED
  BY <1>1, <1>2, <1>3, <1>4 DEF AccountsInv

\* The seven steps of a boot.
LEMMA BootKeepsInv == ASSUME AccountsInv, Boots PROVE AccountsInv'
<1> USE RootAssumption, AccountAssumption
<1>1. /\ seeded \subseteq Permissions /\ granted \in [Roles -> (SUBSET Permissions) \cup {None}]
      /\ users \in [People -> [status : UserStatus, profile : BOOLEAN] \cup {None}]
      /\ roles \in [People -> SUBSET Roles] /\ wallets \subseteq People
  BY DEF AccountsInv, AccountsTypeOK
<1>2. /\ UNCHANGED <<call, callAt, imps, told, expired, faults, wallets, finished>>
      /\ boot # "serving"
  BY DEF Boots, seedPermissions, seedSuperAdminRole, EnsureRootUser, EnsureRootRole,
     EnsureRootActive, CreateMemberRole, GrantMember, rbac, profiles, impersonation
<1>3. BootAgrees
  BY DEF AccountsInv
<1>4. /\ boot' \in {"permissions", "role", "user", "assign", "activate", "member", "grant", "serving"}
      /\ seeded' \subseteq Permissions /\ granted' \in [Roles -> (SUBSET Permissions) \cup {None}]
      /\ users' \in [People -> [status : UserStatus, profile : BOOLEAN] \cup {None}]
      /\ roles' \in [People -> SUBSET Roles]
      /\ \A p \in People : users[p] # None => users'[p] # None
      /\ BootAgrees'
  <2>1. CASE seedPermissions
    BY <1>1, <1>2, <1>3, <2>1 DEF seedPermissions, profiles, BootAgrees
  <2>2. CASE seedSuperAdminRole
    <3> DEFINE set == (IF granted["super_admin"] = None THEN {} ELSE granted["super_admin"])
                         \cup (seeded \cap {"super"})
    <3>1. granted' = [granted EXCEPT !["super_admin"] = set] /\ boot = "role" /\ boot' = "user"
          /\ UNCHANGED <<seeded, users, roles>>
      BY <2>2 DEF seedSuperAdminRole, profiles
    <3>2. "super_admin" \in Roles /\ "super" \in seeded /\ "super" \in Permissions
      BY <1>3, <3>1 DEF Roles, BootAgrees, Permissions
    <3>3. set \in SUBSET Permissions /\ "super" \in set
      BY <1>1, <3>2
    <3>4. set # None
      BY <3>3
    <3> HIDE DEF set
    <3>5. granted'["super_admin"] = set /\ granted' \in [Roles -> (SUBSET Permissions) \cup {None}]
      BY <1>1, <3>1, <3>2, <3>3
    <3>6. QED
      BY <1>1, <1>2, <1>3, <3>1, <3>3, <3>4, <3>5 DEF BootAgrees
  <2>3. CASE EnsureRootUser
    <3>1. UNCHANGED <<seeded, granted, roles>> /\ boot = "user" /\ boot' = "assign"
      BY <2>3 DEF EnsureRootUser, rbac
    <3> DEFINE row == [status |-> "ACTIVE", profile |-> FALSE]
    <3>2. row \in [status : UserStatus, profile : BOOLEAN]
      BY DEF UserStatus
    <3>3. users' = users \/ users' = [users EXCEPT ![Root] = row]
      BY <2>3 DEF EnsureRootUser
    <3>4. IF users[Root] # None THEN users' = users ELSE users' = [users EXCEPT ![Root] = row]
      BY <2>3 DEF EnsureRootUser
    <3>5. row # None
      BY <3>2
    <3> HIDE DEF row
    <3>6. users' \in [People -> [status : UserStatus, profile : BOOLEAN] \cup {None}]
          /\ \A p \in People : users[p] # None => users'[p] # None
      BY <1>1, <3>2, <3>3, <3>5
    <3>7. users'[Root] # None
      BY <1>1, <3>4, <3>5
    <3>8. QED
      BY <1>1, <1>2, <1>3, <3>1, <3>6, <3>7 DEF BootAgrees
  <2>4. CASE EnsureRootRole
    <3>1. UNCHANGED <<seeded, granted, users>> /\ boot = "assign" /\ boot' = "activate"
          /\ roles' = [roles EXCEPT ![Root] = @ \cup {"super_admin"}]
      BY <2>4 DEF EnsureRootRole, profiles
    <3>2. roles' \in [People -> SUBSET Roles] /\ "super_admin" \in roles'[Root]
          /\ \A p \in People : p # Root => roles'[p] = roles[p]
      BY <1>1, <3>1 DEF Roles
    <3>3. QED
      BY <1>1, <1>2, <1>3, <3>1, <3>2 DEF BootAgrees
  <2>5. CASE EnsureRootActive
    <3>1. UNCHANGED <<seeded, granted, roles>> /\ boot = "activate" /\ boot' = "member"
      BY <2>5 DEF EnsureRootActive, rbac
    <3> DEFINE row == [users[Root] EXCEPT !.status = "ACTIVE"]
    <3>2. users' = [users EXCEPT ![Root] = row]
      BY <2>5 DEF EnsureRootActive
    <3>3. users[Root] # None
      BY <1>3, <3>1 DEF BootAgrees
    <3>4. row \in [status : UserStatus, profile : BOOLEAN]
      BY <1>1, <3>3 DEF UserStatus
    <3>5. row # None
      BY <3>4
    <3> HIDE DEF row
    <3>6. users' \in [People -> [status : UserStatus, profile : BOOLEAN] \cup {None}]
          /\ \A p \in People : users[p] # None => users'[p] # None
      BY <1>1, <3>2, <3>4, <3>5
    <3>7. QED
      BY <1>1, <1>2, <1>3, <3>1, <3>3, <3>6 DEF BootAgrees
  <2>6. CASE CreateMemberRole
    <3> DEFINE set == IF granted["member"] = None THEN {} ELSE granted["member"]
    <3>1. granted' = [granted EXCEPT !["member"] = set] /\ boot = "member" /\ boot' = "grant"
          /\ UNCHANGED <<seeded, users, roles>>
      BY <2>6 DEF CreateMemberRole, profiles
    <3>2. "member" \in Roles /\ "super_admin" \in Roles
      BY DEF Roles
    <3>3. set \in SUBSET Permissions
      BY <1>1, <3>2
    <3>4. set # None
      BY <3>3
    <3> HIDE DEF set
    <3>5. granted'["member"] = set /\ granted' \in [Roles -> (SUBSET Permissions) \cup {None}]
          /\ granted'["super_admin"] = granted["super_admin"]
      BY <1>1, <3>1, <3>2, <3>3
    <3>6. QED
      BY <1>1, <1>2, <1>3, <3>1, <3>4, <3>5 DEF BootAgrees
  <2>7. CASE GrantMember
    <3> DEFINE set == granted["member"] \cup (seeded \cap {"profile"})
    <3>1. granted' = [granted EXCEPT !["member"] = set] /\ boot = "grant" /\ boot' = "serving"
          /\ UNCHANGED <<seeded, users, roles>>
      BY <2>7 DEF GrantMember, profiles
    <3>2. "member" \in Roles /\ "super_admin" \in Roles /\ "profile" \in seeded
          /\ granted["member"] # None
      BY <1>3, <3>1 DEF Roles, BootAgrees, Permissions
    <3>3. set \in SUBSET Permissions /\ "profile" \in set
      BY <1>1, <3>2
    <3>4. set # None
      BY <3>3
    <3> HIDE DEF set
    <3>5. granted'["member"] = set /\ granted' \in [Roles -> (SUBSET Permissions) \cup {None}]
          /\ granted'["super_admin"] = granted["super_admin"]
      BY <1>1, <3>1, <3>2, <3>3
    <3>6. QED
      BY <1>1, <1>2, <1>3, <3>1, <3>3, <3>4, <3>5 DEF BootAgrees
  <2>8. QED
    BY <2>1, <2>2, <2>3, <2>4, <2>5, <2>6, <2>7 DEF Boots
<1>5. AccountsTypeOK'
  BY <1>2, <1>4 DEF AccountsInv, AccountsTypeOK
<1>6. QED
  BY <1>2, <1>4, <1>5, SystemStep

\* The other steps of no request.
LEMMA SystemKeepsInv ==
  ASSUME AccountsInv, DefineAdminRole \/ (\E p \in People : Register(p)) \/ (\E i \in ImpIds : ExpireToken(i))
  PROVE  AccountsInv'
<1> USE RootAssumption, AccountAssumption
<1>1. /\ seeded \subseteq Permissions /\ granted \in [Roles -> (SUBSET Permissions) \cup {None}]
      /\ users \in [People -> [status : UserStatus, profile : BOOLEAN] \cup {None}]
      /\ roles \in [People -> SUBSET Roles] /\ BootAgrees
  BY DEF AccountsInv, AccountsTypeOK
<1>2. UNCHANGED <<seeded, call, callAt, imps, told, faults, wallets, finished, boot>>
  BY DEF DefineAdminRole, Register, ExpireToken, profiles, impersonation, rbac
<1>3. /\ granted' \in [Roles -> (SUBSET Permissions) \cup {None}]
      /\ users' \in [People -> [status : UserStatus, profile : BOOLEAN] \cup {None}]
      /\ roles' \in [People -> SUBSET Roles] /\ expired' \subseteq ImpIds
      /\ \A p \in People : users[p] # None => users'[p] # None
      /\ BootAgrees'
  <2>0. expired \subseteq ImpIds
    BY DEF AccountsInv, AccountsTypeOK
  <2>1. CASE DefineAdminRole
    <3>1. granted' = [granted EXCEPT !["admin"] = AdminPermissions] /\ UNCHANGED <<users, roles, expired>>
      BY <2>1 DEF DefineAdminRole, profiles, impersonation
    <3>2. AdminPermissions \in SUBSET Permissions /\ {"member", "super_admin"} \subseteq Roles
      BY DEF AdminPermissions, Permissions, Roles
    <3>3. granted' \in [Roles -> (SUBSET Permissions) \cup {None}]
          /\ granted'["member"] = granted["member"] /\ granted'["super_admin"] = granted["super_admin"]
      BY <1>1, <3>1, <3>2
    <3>4. QED
      BY <1>1, <1>2, <2>0, <3>1, <3>3 DEF BootAgrees
  <2>2. ASSUME NEW p \in People, Register(p) PROVE <1>3
    <3> DEFINE row == [status |-> "PENDING_PROFILE", profile |-> FALSE]
    <3>1. /\ users[p] = None /\ boot = "serving" /\ UNCHANGED <<granted, expired>>
          /\ users' = [users EXCEPT ![p] = row] /\ roles' = [roles EXCEPT ![p] = {"member"}]
      BY <2>2 DEF Register, impersonation
    <3>2. row \in [status : UserStatus, profile : BOOLEAN] /\ {"member"} \subseteq Roles
      BY DEF UserStatus, Roles
    <3>3. row # None
      BY <3>2
    <3> HIDE DEF row
    <3>4. users' \in [People -> [status : UserStatus, profile : BOOLEAN] \cup {None}]
          /\ \A o \in People : users'[o] = IF o = p THEN row ELSE users[o]
      BY <1>1, <3>1, <3>2
    <3>5. roles' \in [People -> SUBSET Roles] /\ \A o \in People : o # p => roles'[o] = roles[o]
      BY <1>1, <3>1, <3>2
    <3>6. p # Root
      BY <1>1, <3>1 DEF BootAgrees
    <3>7. QED
      BY <1>1, <1>2, <2>0, <3>1, <3>3, <3>4, <3>5, <3>6 DEF BootAgrees
  <2>3. ASSUME NEW i \in ImpIds, ExpireToken(i) PROVE <1>3
    BY <1>1, <1>2, <2>0, <2>3 DEF ExpireToken, rbac, profiles, BootAgrees
  <2>4. QED
    BY <2>1, <2>2, <2>3
<1>4. AccountsTypeOK'
  BY <1>1, <1>2, <1>3 DEF AccountsInv, AccountsTypeOK
<1>5. QED
  BY <1>2, <1>3, <1>4, SystemStep

LEMMA DieKeepsInv == ASSUME AccountsInv, AccountsDie PROVE AccountsInv'
<1>1. /\ call' = [c \in AccountCalls |-> None] /\ callAt' = [c \in AccountCalls |-> "idle"]
      /\ boot' = "permissions" /\ "die" \in faults
      /\ UNCHANGED <<seeded, granted, roles, users, wallets, finished, imps, expired, told, faults>>
  BY DEF AccountsDie, rbac, profiles, impersonation
<1>2. AccountsTypeOK'
  BY <1>1 DEF AccountsInv, AccountsTypeOK
<1>3. CallersAgree'
  BY <1>1 DEF CallersAgree, CallerAgrees, Busy
<1>4. BootAgrees'
  BY <1>1, RootAssumption DEF AccountsInv, BootAgrees
<1>5. ImpsAgree'
  <2>1. Starting' = {} /\ \A i \in ImpIds : Stopping(i)' = {}
    BY <1>1 DEF Starting, Stopping
  <2>2. Cardinality(Starting') = 0 /\ \A i \in ImpIds : Cardinality(Stopping(i)') = 0
    BY <2>1, FS_EmptySet
  <2>3. AccountCalls \in SUBSET AccountCalls
    OBVIOUS
  <2>4. Cardinality(AccountCalls) \in Nat
    BY <2>3, CountsAreNat
  <2>5. Len(imps) <= MaxImpersonations /\ Len(imps) \in Nat /\ MaxImpersonations \in Nat
    BY ImpsAre DEF AccountsInv
  <2>6. \A i \in ImpIds : told[i] \in 0 .. Cardinality(AccountCalls)
    BY DEF AccountsInv, AccountsTypeOK
  <2>7. QED
    BY <1>1, <2>2, <2>4, <2>5, <2>6 DEF AccountsInv, ImpsAgree
<1>6. TargetsAreKnown' /\ EndedIsTold' /\ CompletionOpensWallet'
  BY <1>1 DEF AccountsInv, TargetsAreKnown, EndedIsTold, CompletionOpensWallet, Busy
<1>7. QED
  BY <1>2, <1>3, <1>4, <1>5, <1>6 DEF AccountsInv

LEMMA AccountsKeepInv == ASSUME AccountsInv, [AccountsNext]_accountVars PROVE AccountsInv'
<1>1. CASE AccountsNext
  <2>1. ASSUME NEW c \in AccountCalls, BeginCall(c) \/ CallStep(c) PROVE AccountsInv'
    BY <2>1, BeginKeepsInv, GuardKeepsInv, UserKeepsInv, CreateImpKeepsInv, ReadImpKeepsInv,
       EndImpKeepsInv, TellKeepsInv DEF CallStep
  <2>2. QED
    BY <1>1, <2>1, BootKeepsInv, SystemKeepsInv, DieKeepsInv DEF AccountsNext
<1>2. CASE UNCHANGED accountVars
  <2>1. UNCHANGED <<seeded, granted, roles, users, wallets, finished, imps, expired, told, call, callAt,
                    boot, faults>>
    BY <1>2 DEF accountVars, rbac, profiles, impersonation
  <2>2. AccountsTypeOK' /\ BootAgrees'
    BY <2>1 DEF AccountsInv, AccountsTypeOK, BootAgrees
  <2>3. QED
    BY <2>1, <2>2, SystemStep
<1>3. QED
  BY <1>1, <1>2

\* Without overlap a step of a request finds all the others idle.
LEMMA StepsAlone ==
  ASSUME AccountsInv, Alone, AloneInv, NEW c \in AccountCalls, BeginCall(c) \/ CallStep(c)
  PROVE  OneRequest' /\ Alone' /\ \A d \in AccountCalls : d # c => callAt[d] = "idle" /\ callAt'[d] = "idle"
<1>1. OthersWait(c) /\ OneRequest
  BY CallMovesOne DEF AloneInv
<1>2. \A d \in AccountCalls : d # c => callAt[d] = "idle"
  <2>1. CASE BeginCall(c)
    BY <2>1 DEF BeginCall, Alone
  <2>2. CASE CallStep(c)
    <3>1. callAt[c] # "idle"
      BY <2>2 DEF CallStep, JwtAuth, Permit, Visit, completeProfile, OpenWallet, ReadStatus,
         WriteStatus, assignRoleByAdmin, removeRoleByAdmin, CheckTarget, CreateImpersonation,
         ReadImpersonation, EndImpersonation, TellTarget, At
    <3>2. QED
      BY <1>1, <3>1 DEF OneRequest, Busy
  <2>3. QED
    BY <2>1, <2>2
<1>3. QED
  BY <1>1, <1>2 DEF OneRequest, Busy, OthersWait, Alone

\* Where a step leads, and what it has checked on its way.
LEMMA StepChecks ==
  ASSUME AccountsInv, NEW c \in AccountCalls, BeginCall(c) \/ CallStep(c)
  PROVE  \/ callAt'[c] \in {"idle", "jwt", "wallet"}
         \/ /\ callAt'[c] = "notify" /\ call'[c] = call[c] /\ At(c, "stop", "write")
            /\ told' = told
         \/ /\ callAt'[c] = "permit" /\ call'[c] = call[c]
            /\ imps' = imps
            /\ call[c].imp # 0 => ~imps[call[c].imp].ended
         \/ /\ callAt'[c] = "do" /\ call'[c].op = "visit"
            /\ imps' = imps
            /\ call'[c].imp # 0 => ~imps[call'[c].imp].ended
         \/ /\ callAt'[c] = "do" /\ call'[c] = call[c] /\ callAt[c] = "permit"
            /\ imps' = imps /\ roles' = roles
            /\ \/ RequiredPermission[call[c].op] = None
               \/ userHasPermission(call[c].sub, RequiredPermission[call[c].op])
         \/ /\ callAt'[c] = "write" /\ call'[c] = call[c] /\ callAt[c] = "do"
            /\ imps' = imps /\ roles' = roles /\ users' = users
            /\ call[c].op = "status" => call[c].value \in STATUS_TRANSITIONS[users[call[c].target].status]
            /\ call[c].op = "start" => "super_admin" \notin roles[call[c].target]
<1> DEFINE q == call[c]
<1>1. /\ call \in [AccountCalls -> Request \cup {None}]
      /\ callAt \in [AccountCalls -> {"idle", "jwt", "permit", "do", "write", "wallet", "notify"}]
  BY DEF AccountsInv, AccountsTypeOK
<1>2. CASE JwtAuth(c)
  <2>1. callAt[c] = "jwt" /\ imps' = imps
    BY <1>2 DEF JwtAuth, impersonation
  <2>2. q \in Request /\ MaxImpersonations \in Nat
    BY <2>1, CallIs, AccountAssumption
  <2> DEFINE ended == q.imp # 0 /\ imps[q.imp].ended
  <2>3. CASE ended /\ q.op # "visit"
    BY <1>1, <1>2, <2>3 DEF JwtAuth, EndCall, CallTo
  <2>4. CASE ended /\ q.op = "visit"
    <3>1. call' = [call EXCEPT ![c].sub = None, ![c].imp = 0] /\ callAt' = [callAt EXCEPT ![c] = "do"]
      BY <1>2, <2>4 DEF JwtAuth, EndCall, CallTo
    <3>2. call'[c] = [q EXCEPT !.sub = None, !.imp = 0] /\ callAt'[c] = "do"
      BY <1>1, <3>1
    <3>3. call'[c].op = "visit" /\ call'[c].imp = 0
      BY <2>2, <2>4, <3>2 DEF Request
    <3>4. QED
      BY <2>1, <3>2, <3>3
  <2>5. CASE ~ended
    <3>1. callAt'[c] = (IF q.op = "visit" THEN "do" ELSE "permit") /\ call' = call
      BY <1>1, <1>2, <2>5 DEF JwtAuth, EndCall, CallTo
    <3>2. QED
      BY <2>1, <2>5, <3>1
  <2>6. QED
    BY <2>3, <2>4, <2>5
<1>3. CASE Permit(c)
  BY <1>1, <1>3 DEF Permit, EndCall, CallTo, impersonation, rbac
<1>4. CASE ReadStatus(c)
  BY <1>1, <1>4 DEF ReadStatus, EndCall, CallTo, At, impersonation, rbac, profiles
<1>5. CASE CheckTarget(c)
  BY <1>1, <1>5 DEF CheckTarget, EndCall, CallTo, At, impersonation, rbac, profiles
<1>6. CASE ReadImpersonation(c)
  BY <1>1, <1>6 DEF ReadImpersonation, EndCall, CallTo, At, impersonation, rbac, profiles
<1>7. CASE EndImpersonation(c)
  BY <1>1, <1>7 DEF EndImpersonation, CallTo, At
<1>8. CASE BeginCall(c)
  BY <1>1, <1>8 DEF BeginCall
<1>9. CASE Visit(c) \/ completeProfile(c) \/ OpenWallet(c) \/ WriteStatus(c) \/ assignRoleByAdmin(c)
           \/ removeRoleByAdmin(c) \/ CreateImpersonation(c) \/ TellTarget(c)
  BY <1>1, <1>9 DEF Visit, completeProfile, OpenWallet, WriteStatus, assignRoleByAdmin,
     removeRoleByAdmin, CreateImpersonation, TellTarget, EndCall, CallTo
<1>10. QED
  BY <1>2, <1>3, <1>4, <1>5, <1>6, <1>7, <1>8, <1>9 DEF CallStep

LEMMA ReadsAlone ==
  ASSUME AccountsInv, Alone, AloneInv, NEW c \in AccountCalls, BeginCall(c) \/ CallStep(c)
  PROVE  ReadStillHolds'
<1>1. granted' = granted /\ ReadStillHolds
  BY CallMovesOne DEF AloneInv
<1>2. \A d \in AccountCalls : d # c => callAt'[d] = "idle"
  BY StepsAlone
<1> DEFINE Right(d) == call[d].op # "visit" /\ RequiredPermission[call[d].op] # None =>
                         userHasPermission(call[d].sub, RequiredPermission[call[d].op])
           NotOver(d) == call[d].imp # 0 => ~imps[call[d].imp].ended
<1>3. /\ Executing(c) => Right(c)
      /\ callAt[c] \in {"permit", "do", "write"} => NotOver(c)
  BY <1>1 DEF ReadStillHolds
<1>4. /\ Executing(c)' => Right(c)'
      /\ callAt'[c] \in {"permit", "do", "write"} => NotOver(c)'
  <2>1. CASE callAt'[c] \in {"idle", "jwt", "wallet", "notify"}
    BY <2>1 DEF Executing
  <2>2. CASE callAt'[c] = "permit" /\ call'[c] = call[c]
    <3>1. callAt'[c] # "do" /\ callAt'[c] # "write" /\ NotOver(c)'
      BY <2>2, StepChecks
    <3>2. QED
      BY <2>2, <3>1 DEF Executing
  <2>3. CASE callAt'[c] = "do" /\ call'[c].op = "visit"
    <3>1. \/ imps' = imps /\ (call'[c].imp # 0 => ~imps[call'[c].imp].ended)
          \/ imps' = imps /\ call'[c] = call[c] /\ callAt[c] = "permit"
      BY <2>3, StepChecks
    <3>2. NotOver(c)'
      BY <1>3, <3>1
    <3>3. QED
      BY <2>3, <3>2
  <2>4. CASE callAt'[c] = "do" /\ call'[c].op # "visit"
    <3>1. /\ call'[c] = call[c] /\ callAt[c] = "permit" /\ imps' = imps /\ roles' = roles
          /\ \/ RequiredPermission[call[c].op] = None
             \/ userHasPermission(call[c].sub, RequiredPermission[call[c].op])
      BY <2>4, StepChecks
    <3>2. NotOver(c)'
      BY <1>3, <3>1
    <3>3. Right(c)'
      BY <1>1, <3>1 DEF userHasPermission
    <3>4. QED
      BY <3>2, <3>3
  <2>5. CASE callAt'[c] = "write"
    <3>1. call'[c] = call[c] /\ callAt[c] = "do" /\ imps' = imps /\ roles' = roles
      BY <2>5, StepChecks
    <3>2. NotOver(c)'
      BY <1>3, <3>1
    <3>3. Right(c)'
      BY <1>1, <1>3, <3>1 DEF userHasPermission, Executing
    <3>4. QED
      BY <3>2, <3>3
  <2>6. QED
    BY <2>1, <2>2, <2>3, <2>4, <2>5, StepChecks
<1>5. callAt'[c] = "write" /\ call'[c].op = "status" =>
        call'[c].value \in STATUS_TRANSITIONS[users'[call'[c].target].status]
  BY StepChecks
<1>6. QED
  BY <1>2, <1>4, <1>5 DEF ReadStillHolds, Executing

LEMMA ToldAlone ==
  ASSUME AccountsInv, Alone, AloneInv, NEW c \in AccountCalls, BeginCall(c) \/ CallStep(c)
  PROVE  ToldOnce'
<1>1. ToldOnce /\ ReadStillHolds
  BY DEF AloneInv
<1>2. \A d \in AccountCalls : d # c => callAt'[d] = "idle"
  BY StepsAlone
<1>3. Cardinality(AccountCalls) \in Nat /\ told \in [ImpIds -> 0 .. Cardinality(AccountCalls)]
  <2>1. AccountCalls \in SUBSET AccountCalls
    OBVIOUS
  <2>2. QED
    BY <2>1, CountsAreNat DEF AccountsInv, AccountsTypeOK
<1>4. callAt'[c] = "notify" => told'[call'[c].imp] = 0
  <2>1. SUFFICES ASSUME callAt'[c] = "notify" PROVE told'[call'[c].imp] = 0
    OBVIOUS
  <2>2. call'[c] = call[c] /\ At(c, "stop", "write") /\ told' = told
    BY <2>1, StepChecks
  <2>3. call[c].imp \in 1 .. Len(imps) /\ call[c].imp \in ImpIds /\ call[c].imp # 0
    BY <2>2, CallIs, ImpsAre DEF AccountsInv, CallerAgrees, Busy, At
  <2>4. ~imps[call[c].imp].ended
    BY <1>1, <2>2, <2>3 DEF ReadStillHolds, At
  <2>5. told[call[c].imp] = 0
    BY <1>3, <2>3, <2>4 DEF AccountsInv, ImpsAgree
  <2>6. QED
    BY <2>2, <2>5
<1>5. \A i \in ImpIds : told'[i] <= 1
  <2>1. CASE TellTarget(c)
    <3>1. callAt[c] = "notify"
      BY <2>1 DEF TellTarget
    <3>2. told[call[c].imp] = 0
      BY <1>1, <3>1 DEF ToldOnce
    <3>3. QED
      BY <1>1, <1>3, <2>1, <3>2 DEF TellTarget, Tell, ToldOnce
  <2>2. CASE told' = told
    BY <1>1, <2>2 DEF ToldOnce
  <2>3. QED
    BY <2>1, <2>2 DEF BeginCall, CallStep, JwtAuth, Permit, Visit, completeProfile, OpenWallet,
       ReadStatus, WriteStatus, assignRoleByAdmin, removeRoleByAdmin, CheckTarget,
       CreateImpersonation, ReadImpersonation, EndImpersonation, impersonation
<1>6. QED
  BY <1>2, <1>4, <1>5 DEF ToldOnce

\* What a step of a request does to roles and to impersonations.
LEMMA RolesMove ==
  ASSUME AccountsInv, NEW c \in AccountCalls, BeginCall(c) \/ CallStep(c)
  PROVE  \/ UNCHANGED <<roles, imps>>
         \/ /\ imps' = imps /\ callAt'[c] = "idle" /\ At(c, "assign", "do")
            /\ call[c].target \in People
            /\ \A p \in People : roles'[p] = IF p = call[c].target THEN roles[p] \cup {call[c].value}
                                             ELSE roles[p]
         \/ /\ imps' = imps /\ callAt'[c] = "idle"
            /\ \A p \in People : roles'[p] \subseteq roles[p]
         \/ /\ roles' = roles /\ callAt'[c] = "idle" /\ At(c, "start", "write")
            /\ Len(imps') = Len(imps) + 1 /\ imps'[Len(imps) + 1].target = call[c].target
            /\ \A i \in 1 .. Len(imps) : imps'[i] = imps[i]
         \/ /\ roles' = roles /\ Len(imps') = Len(imps) /\ callAt'[c] = "notify"
            /\ \A i \in 1 .. Len(imps) : imps'[i].target = imps[i].target /\ (~imps'[i].ended => ~imps[i].ended)
<1> DEFINE q == call[c]
<1>1. /\ callAt \in [AccountCalls -> {"idle", "jwt", "permit", "do", "write", "wallet", "notify"}]
      /\ roles \in [People -> SUBSET Roles]
  BY DEF AccountsInv, AccountsTypeOK
<1>2. CASE assignRoleByAdmin(c)
  <2>1. callAt[c] = "do" /\ q.target \in People
    BY <1>2, CallIs DEF assignRoleByAdmin, At
  <2>2. /\ roles' = roles \/ roles' = [roles EXCEPT ![q.target] = @ \cup {q.value}]
        /\ imps' = imps /\ callAt'[c] = "idle" /\ At(c, "assign", "do")
    BY <1>1, <1>2 DEF assignRoleByAdmin, EndCall, impersonation
  <2>3. QED
    BY <1>1, <2>1, <2>2
<1>3. CASE removeRoleByAdmin(c)
  <2>1. callAt[c] = "do" /\ q.target \in People
    BY <1>3, CallIs DEF removeRoleByAdmin, At
  <2>2. /\ roles' = roles \/ roles' = [roles EXCEPT ![q.target] = @ \ {q.value}]
        /\ imps' = imps /\ callAt'[c] = "idle"
    BY <1>1, <1>3 DEF removeRoleByAdmin, EndCall, impersonation
  <2>3. QED
    BY <1>1, <2>1, <2>2
<1>4. CASE CreateImpersonation(c)
  <2> DEFINE new == [actor |-> q.sub, target |-> q.target, ended |-> FALSE]
  <2>1. /\ imps' = Append(imps, new) /\ roles' = roles /\ callAt'[c] = "idle" /\ At(c, "start", "write")
    BY <1>1, <1>4 DEF CreateImpersonation, EndCall, rbac
  <2>2. q.target \in People /\ q.sub \in People
    BY <2>1, CallIs DEF At, CallerAgrees, Busy
  <2>3. new \in Imp /\ new.target = q.target /\ imps \in Seq(Imp)
    BY <2>2, ImpsAre DEF Imp, AccountsInv
  <2> HIDE DEF new
  <2>4. /\ Len(imps') = Len(imps) + 1 /\ imps'[Len(imps) + 1] = new
        /\ \A i \in 1 .. Len(imps) : imps'[i] = imps[i]
    BY <2>1, <2>3, AppendProperties
  <2>5. QED
    BY <2>1, <2>3, <2>4
<1>5. CASE EndImpersonation(c)
  <2>1. /\ callAt[c] = "write" /\ q.op = "stop" /\ callAt'[c] = "notify" /\ roles' = roles
        /\ imps' = [imps EXCEPT ![q.imp].ended = TRUE]
    BY <1>1, <1>5 DEF EndImpersonation, At, CallTo, rbac
  <2>2. q.imp \in 1 .. Len(imps) /\ imps \in Seq(Imp) /\ DOMAIN imps = 1 .. Len(imps)
        /\ \A i \in 1 .. Len(imps) : imps[i] \in Imp
    BY <2>1, CallIs, ImpsAre DEF CallerAgrees, Busy, AccountsInv
  <2>3. Len(imps') = Len(imps)
    BY <2>1, <2>2
  <2>4. QED
    BY <2>1, <2>2, <2>3 DEF Imp
<1>6. CASE UNCHANGED <<roles, imps>>
  BY <1>6
<1>7. QED
  BY <1>2, <1>3, <1>4, <1>5, <1>6 DEF BeginCall, CallStep, JwtAuth, Permit, Visit, completeProfile,
     OpenWallet, ReadStatus, WriteStatus, CheckTarget, ReadImpersonation, TellTarget, impersonation, rbac

LEMMA SupersAlone ==
  ASSUME AccountsInv, Alone, AloneInv, NEW c \in AccountCalls, BeginCall(c) \/ CallStep(c)
  PROVE  NoSuperTarget'
<1> SUFFICES ASSUME "promote" \notin faults
             PROVE  /\ \A i \in 1 .. Len(imps') : ~imps'[i].ended => "super_admin" \notin roles'[imps'[i].target]
                    /\ callAt'[c] = "write" /\ call'[c].op = "start" =>
                         "super_admin" \notin roles'[call'[c].target]
                    /\ Busy(c)' /\ call'[c].op = "assign" /\ call'[c].value = "super_admin" =>
                         \A i \in 1 .. Len(imps') : ~imps'[i].ended => imps'[i].target # call'[c].target
  <2>1. faults' = faults /\ \A d \in AccountCalls : d # c => callAt'[d] = "idle"
    BY StepsAlone, CallMovesOne DEF OthersWait
  <2>2. QED
    BY <2>1 DEF NoSuperTarget, Busy
<1> DEFINE q == call[c]
<1>1. /\ \A i \in 1 .. Len(imps) : ~imps[i].ended => "super_admin" \notin roles[imps[i].target]
      /\ callAt[c] = "write" /\ q.op = "start" => "super_admin" \notin roles[q.target]
      /\ Busy(c) /\ q.op = "assign" /\ q.value = "super_admin" =>
           \A i \in 1 .. Len(imps) : ~imps[i].ended => imps[i].target # q.target
  BY DEF AloneInv, NoSuperTarget
<1>2. /\ Len(imps) \in Nat /\ DOMAIN imps = 1 .. Len(imps)
      /\ \A i \in 1 .. Len(imps) : imps[i].target \in People
  BY ImpsAre DEF AccountsInv
<1>3. \A i \in 1 .. Len(imps') : ~imps'[i].ended => "super_admin" \notin roles'[imps'[i].target]
  <2>1. CASE UNCHANGED <<roles, imps>>
    BY <1>1, <2>1
  <2>2. CASE /\ imps' = imps /\ At(c, "assign", "do")
             /\ \A p \in People : roles'[p] = IF p = q.target THEN roles[p] \cup {q.value} ELSE roles[p]
    BY ZenonT(30), <1>1, <1>2, <2>2 DEF At, Busy
  <2>3. CASE imps' = imps /\ \A p \in People : roles'[p] \subseteq roles[p]
    BY <1>1, <1>2, <2>3
  <2>4. CASE /\ roles' = roles /\ At(c, "start", "write")
             /\ Len(imps') = Len(imps) + 1 /\ imps'[Len(imps) + 1].target = q.target
             /\ \A i \in 1 .. Len(imps) : imps'[i] = imps[i]
    <3>1. \A i \in 1 .. Len(imps') : i \in 1 .. Len(imps) \/ i = Len(imps) + 1
      BY <1>2, <2>4
    <3>2. QED
      BY <1>1, <2>4, <3>1 DEF At
  <2>5. CASE /\ roles' = roles /\ Len(imps') = Len(imps)
             /\ \A i \in 1 .. Len(imps) : imps'[i].target = imps[i].target /\ (~imps'[i].ended => ~imps[i].ended)
    BY <1>1, <2>5
  <2>6. QED
    BY <2>1, <2>2, <2>3, <2>4, <2>5, RolesMove
<1>4. ASSUME callAt'[c] = "write", call'[c].op = "start"
      PROVE  "super_admin" \notin roles'[call'[c].target]
  BY <1>4, StepChecks
<1>5. ASSUME Busy(c)', call'[c].op = "assign", call'[c].value = "super_admin"
      PROVE  \A i \in 1 .. Len(imps') : ~imps'[i].ended => imps'[i].target # call'[c].target
  <2>1. CASE BeginCall(c)
    <3>1. /\ imps' = imps
          /\ \A i \in DOMAIN imps : Live(i) => imps[i].target # call'[c].target
      <4>1. call \in [AccountCalls -> Request \cup {None}]
        BY DEF AccountsInv, AccountsTypeOK
      <4>2. PICK t \in Tokens : \E ask \in Asks(t.sub) :
              /\ ask.op = "assign" /\ ask.value = "super_admin" =>
                   "promote" \in faults \/ \A i \in DOMAIN imps : Live(i) => imps[i].target # ask.target
              /\ call' = [call EXCEPT ![c] =
                            [sub |-> t.sub, imp |-> t.imp, op |-> ask.op, target |-> ask.target,
                             value |-> ask.value]]
        BY <2>1 DEF BeginCall
      <4>3. PICK ask \in Asks(t.sub) :
              /\ ask.op = "assign" /\ ask.value = "super_admin" =>
                   "promote" \in faults \/ \A i \in DOMAIN imps : Live(i) => imps[i].target # ask.target
              /\ call' = [call EXCEPT ![c] =
                            [sub |-> t.sub, imp |-> t.imp, op |-> ask.op, target |-> ask.target,
                             value |-> ask.value]]
        BY <4>2
      <4>4. call'[c].op = ask.op /\ call'[c].value = ask.value /\ call'[c].target = ask.target
        BY <4>1, <4>3
      <4>5. QED
        BY <1>5, <2>1, <4>3, <4>4 DEF BeginCall, impersonation
    <3>2. QED
      BY <1>2, <3>1 DEF Live
  <2>2. CASE CallStep(c)
    <3>1. callAt[c] # "idle" /\ callAt'[c] # "notify"
      <4>1. callAt[c] # "idle"
        BY <2>2 DEF CallStep, JwtAuth, Permit, Visit, completeProfile, OpenWallet, ReadStatus,
           WriteStatus, assignRoleByAdmin, removeRoleByAdmin, CheckTarget, CreateImpersonation,
           ReadImpersonation, EndImpersonation, TellTarget, At
      <4>2. callAt'[c] # "notify"
        BY <1>5, StepChecks DEF At
      <4>3. QED
        BY <4>1, <4>2
    <3>2. call'[c] = q /\ callAt'[c] # "idle"
      <4>1. q # None /\ callAt'[c] # "idle"
        BY <1>5, <3>1, CallIs DEF Busy
      <4>2. callAt'[c] # "jwt"
        BY <2>2, <3>1 DEF CallStep, JwtAuth, Permit, Visit, completeProfile, OpenWallet, ReadStatus,
           WriteStatus, assignRoleByAdmin, removeRoleByAdmin, CheckTarget, CreateImpersonation,
           ReadImpersonation, EndImpersonation, TellTarget, At, CallTo, EndCall, AccountsInv, AccountsTypeOK
      <4>3. callAt'[c] # "wallet" \/ call'[c] = q
        BY <2>2 DEF CallStep, JwtAuth, Permit, Visit, completeProfile, OpenWallet, ReadStatus,
           WriteStatus, assignRoleByAdmin, removeRoleByAdmin, CheckTarget, CreateImpersonation,
           ReadImpersonation, EndImpersonation, TellTarget, At, CallTo, EndCall, AccountsInv, AccountsTypeOK
      <4>4. QED
        BY <1>5, <4>1, <4>2, <4>3, StepChecks
    <3>3. imps' = imps
      BY <3>1, <3>2, RolesMove
    <3>4. QED
      BY <1>1, <1>5, <3>1, <3>2, <3>3 DEF Busy
  <2>3. QED
    BY <2>1, <2>2
<1>6. QED
  BY <1>3, <1>4, <1>5

LEMMA SystemAlone ==
  ASSUME AccountsInv, Alone, AloneInv,
         Boots \/ DefineAdminRole \/ (\E p \in People : Register(p)) \/ (\E i \in ImpIds : ExpireToken(i))
  PROVE  AloneInv'
<1> USE RootAssumption
<1>1. /\ granted \in [Roles -> (SUBSET Permissions) \cup {None}]
      /\ users \in [People -> [status : UserStatus, profile : BOOLEAN] \cup {None}]
      /\ roles \in [People -> SUBSET Roles] /\ BootAgrees
      /\ OneRequest /\ ReadStillHolds /\ ToldOnce /\ NoSuperTarget
  BY DEF AccountsInv, AccountsTypeOK, AloneInv
<1>2. UNCHANGED <<call, callAt, imps, told, faults>>
  BY DEF Boots, seedPermissions, seedSuperAdminRole, EnsureRootUser, EnsureRootRole,
     EnsureRootActive, CreateMemberRole, GrantMember, DefineAdminRole, Register, ExpireToken,
     rbac, profiles, impersonation
<1>3. OneRequest' /\ ToldOnce'
  BY <1>1, <1>2 DEF OneRequest, ToldOnce, Busy
<1>4. ReadStillHolds'
  <2>1. CASE Boots
    <3>1. boot # "serving"
      BY <2>1 DEF Boots, seedPermissions, seedSuperAdminRole, EnsureRootUser, EnsureRootRole,
         EnsureRootActive, CreateMemberRole, GrantMember
    <3>2. \A c \in AccountCalls : callAt[c] = "idle"
      BY <3>1 DEF AccountsInv, CallersAgree, CallerAgrees, Busy
    <3>3. QED
      BY <1>2, <3>2 DEF ReadStillHolds, Executing
  <2>2. ASSUME NEW c \in AccountCalls, Executing(c), call[c].op # "visit"
        PROVE  /\ call[c].sub \in People /\ call[c].target \in People
               /\ callAt[c] = "write" /\ call[c].op = "status" => users[call[c].target] # None
    <3>1. callAt[c] # "idle" /\ CallerAgrees(c) /\ call[c].target \in People
      BY <2>2, CallIs DEF Executing
    <3>2. QED
      BY <2>2, <3>1 DEF CallerAgrees, Busy
  <2>3. CASE DefineAdminRole
    <3>1. granted["admin"] = None /\ granted' = [granted EXCEPT !["admin"] = AdminPermissions]
          /\ UNCHANGED <<roles, users>>
      BY <2>3 DEF DefineAdminRole, profiles
    <3>2. \A p \in People : \A permission : userHasPermission(p, permission) => userHasPermission(p, permission)'
      BY <1>1, <3>1 DEF userHasPermission
    <3>3. QED
      BY <1>1, <1>2, <2>2, <3>1, <3>2 DEF ReadStillHolds, Executing
  <2>4. ASSUME NEW p \in People, Register(p) PROVE ReadStillHolds'
    <3>1. users[p] = None /\ roles[p] = {} /\ roles' = [roles EXCEPT ![p] = {"member"}] /\ granted' = granted
          /\ users' = [users EXCEPT ![p] = [status |-> "PENDING_PROFILE", profile |-> FALSE]]
      BY <1>1, <2>4 DEF Register, BootAgrees
    <3>2. \A o \in People : \A permission : userHasPermission(o, permission) => userHasPermission(o, permission)'
      BY <1>1, <3>1 DEF userHasPermission
    <3>3. \A o \in People : users[o] # None => users'[o] = users[o]
      BY <1>1, <3>1
    <3>4. QED
      BY <1>1, <1>2, <2>2, <3>2, <3>3 DEF ReadStillHolds, Executing
  <2>5. ASSUME NEW i \in ImpIds, ExpireToken(i) PROVE ReadStillHolds'
    BY <1>1, <1>2, <2>5 DEF ExpireToken, rbac, profiles, ReadStillHolds, Executing, userHasPermission
  <2>6. QED
    BY <2>1, <2>3, <2>4, <2>5
<1>5. NoSuperTarget'
  <2>1. \A p \in People : ("super_admin" \in roles'[p] /\ "super_admin" \notin roles[p]) =>
                            Len(imps) = 0 /\ boot # "serving"
    <3>1. CASE EnsureRootRole
      <4>1. roles' = [roles EXCEPT ![Root] = @ \cup {"super_admin"}] /\ boot = "assign"
        BY <3>1 DEF EnsureRootRole
      <4>2. Len(imps) > 0 => "super_admin" \in roles[Root]
        BY <1>1 DEF BootAgrees
      <4>3. Len(imps) \in Nat
        BY ImpsAre DEF AccountsInv
      <4>4. QED
        BY <1>1, <4>1, <4>2, <4>3
    <3>2. ASSUME NEW p \in People, Register(p) PROVE <2>1
      BY <1>1, <3>2 DEF Register
    <3>3. CASE roles' = roles
      BY <3>3
    <3>4. QED
      BY <3>1, <3>2, <3>3 DEF Boots, seedPermissions, seedSuperAdminRole, EnsureRootUser,
         EnsureRootActive, CreateMemberRole, GrantMember, DefineAdminRole, ExpireToken, rbac
  <2>2. \A i \in 1 .. Len(imps) : imps[i].target \in People
    BY ImpsAre DEF AccountsInv
  <2>3. \A c \in AccountCalls : Busy(c) => boot = "serving" /\ call[c].target \in People
    BY DEF AccountsInv, CallersAgree, CallerAgrees, Request
  <2>4. ASSUME "promote" \notin faults
        PROVE  \A i \in 1 .. Len(imps) : ~imps[i].ended => "super_admin" \notin roles'[imps[i].target]
    <3>1. ASSUME NEW i \in 1 .. Len(imps) PROVE Len(imps) # 0
      BY ImpsAre DEF AccountsInv
    <3>2. QED
      BY <1>1, <2>1, <2>2, <2>4, <3>1 DEF NoSuperTarget
  <2>5. ASSUME "promote" \notin faults, NEW c \in AccountCalls, callAt[c] = "write", call[c].op = "start"
        PROVE  "super_admin" \notin roles'[call[c].target]
    BY <1>1, <2>1, <2>3, <2>5 DEF NoSuperTarget, Busy
  <2>6. QED
    BY <1>1, <1>2, <2>4, <2>5 DEF NoSuperTarget, Busy
<1>6. QED
  BY <1>3, <1>4, <1>5 DEF AloneInv

LEMMA AccountsKeepAlone ==
  ASSUME AccountsInv, AloneInv, [AccountsNext]_accountVars PROVE AloneInv'
<1>1. faults' = faults
  <2>1. ASSUME NEW c \in AccountCalls, BeginCall(c) \/ CallStep(c) PROVE faults' = faults
    BY <2>1, CallMovesOne DEF OthersWait
  <2>2. QED
    BY <2>1 DEF AccountsNext, accountVars, Boots, seedPermissions, seedSuperAdminRole, EnsureRootUser,
       EnsureRootRole, EnsureRootActive, CreateMemberRole, GrantMember, DefineAdminRole, Register,
       ExpireToken, AccountsDie
<1>2. SUFFICES ASSUME Alone PROVE AloneInv'
  BY <1>1 DEF AloneInv, Alone
<1>3. ASSUME NEW c \in AccountCalls, BeginCall(c) \/ CallStep(c) PROVE AloneInv'
  BY <1>2, <1>3, StepsAlone, ReadsAlone, ToldAlone, SupersAlone DEF AloneInv
<1>4. CASE AccountsDie
  BY <1>4 DEF AccountsDie, AloneInv, Alone, OneRequest, ReadStillHolds, ToldOnce, NoSuperTarget, Busy,
     Executing, rbac, profiles, impersonation
<1>5. CASE UNCHANGED accountVars
  BY <1>5 DEF accountVars, AloneInv, Alone, OneRequest, ReadStillHolds, ToldOnce, NoSuperTarget, Busy,
     Executing, userHasPermission, rbac, profiles, impersonation
<1>6. QED
  BY <1>2, <1>3, <1>4, <1>5, SystemAlone DEF AccountsNext

LEMMA AccountsInvariants == AccountsSpec => [](AccountsInv /\ AloneInv)
<1>1. AccountsInit => AccountsInv /\ AloneInv
  BY StartsAccounts
<1>2. AccountsInv /\ AloneInv /\ [AccountsNext]_accountVars => (AccountsInv /\ AloneInv)'
  BY AccountsKeepInv, AccountsKeepAlone
<1>3. QED
  BY <1>1, <1>2, PTL DEF AccountsSpec

LEMMA ServesRight == ASSUME AccountsInv PROVE ServingIsSeeded /\ RootKeepsRights
<1>1. BootAgrees
  BY DEF AccountsInv
<1>2. ServingIsSeeded
  BY <1>1 DEF ServingIsSeeded, BootAgrees
<1>3. RootKeepsRights
  BY <1>1 DEF RootKeepsRights, userHasPermission, BootAgrees
<1>4. QED
  BY <1>2, <1>3

LEMMA ActsRight ==
  ASSUME AccountsInv, AloneInv PROVE SubjectHasRight /\ EndedMeansEnded /\ NoImpersonatedSuperAdmin
<1>1. SubjectHasRight
  BY DEF SubjectHasRight, AloneInv, ReadStillHolds
<1>2. EndedMeansEnded
  <2>1. ASSUME Alone, NEW c \in AccountCalls, Executing(c), call[c].imp # 0 PROVE Live(call[c].imp)
    <3>1. call[c].imp \in DOMAIN imps
      BY <2>1, CallIs, ImpsAre DEF Executing, CallerAgrees, Busy, AccountsInv
    <3>2. ~imps[call[c].imp].ended
      BY <2>1 DEF AloneInv, ReadStillHolds, Executing
    <3>3. QED
      BY <3>1, <3>2 DEF Live
  <2>2. QED
    BY <2>1 DEF EndedMeansEnded
<1>3. NoImpersonatedSuperAdmin
  <2>1. DOMAIN imps = 1 .. Len(imps)
    BY ImpsAre DEF AccountsInv
  <2>2. QED
    BY <2>1 DEF NoImpersonatedSuperAdmin, AloneInv, NoSuperTarget, Live
<1>4. QED
  BY <1>1, <1>2, <1>3

LEMMA TellsRight == ASSUME AccountsInv, AloneInv PROVE TargetIsTold
<1>1. DOMAIN imps = 1 .. Len(imps) /\ \A i \in 1 .. Len(imps) : i \in ImpIds
  BY ImpsAre DEF AccountsInv
<1>2. QED
  BY <1>1 DEF TargetIsTold, AccountsInv, AloneInv, ImpsAgree, ToldOnce, EndedIsTold

\* (core/rbac, core/users, core/impersonation, common/guards) Whatever the users, the requests and
\* the faults: an API that serves has its roles and permissions, the bootstrap admin keeps every
\* right, a request that runs has the rights of its subject, an impersonation that has ended is
\* over, is of no super admin and is told to its target once, and a completed profile has a wallet.
THEOREM NobodyDoesWhatItMayNot == AccountsSpec => []RightsHold
<1>1. AccountsInv /\ AloneInv => RightsHold
  BY ServesRight, ActsRight, TellsRight DEF RightsHold, AccountsInv
<1>2. QED
  BY <1>1, AccountsInvariants, PTL

\* The claim of DeletedStaysDeleted for one user and one step.
Revived(p) == users[p] # None /\ users[p].status = "DELETED" /\ users'[p].status # "DELETED"
\* Who may bring a deleted user back.
MayRevive(p) ==
  \/ \E c \in AccountCalls : At(c, "profile", "do") /\ call[c].sub = p
  \/ p = Root /\ boot = "activate"
  \/ ~Alone

LEMMA RevivedByFew ==
  ASSUME AccountsInv, AloneInv, [AccountsNext]_accountVars, NEW p \in People, Revived(p)
  PROVE  MayRevive(p)
<1>1. users \in [People -> [status : UserStatus, profile : BOOLEAN] \cup {None}]
  BY DEF AccountsInv, AccountsTypeOK
<1>2. users'[p] # users[p]
  BY DEF Revived
<1>3. ASSUME NEW c \in AccountCalls, completeProfile(c) PROVE MayRevive(p)
  <2>1. users' = [users EXCEPT ![call[c].sub] = [status |-> "ACTIVE", profile |-> TRUE]]
    BY <1>2, <1>3 DEF completeProfile
  <2>2. call[c].sub = p
    BY <1>1, <1>2, <2>1
  <2>3. QED
    BY <1>3, <2>2 DEF MayRevive, completeProfile
<1>4. ASSUME NEW c \in AccountCalls, WriteStatus(c) PROVE MayRevive(p)
  <2>1. At(c, "status", "write") /\ users' = [users EXCEPT ![call[c].target].status = call[c].value]
    BY <1>4 DEF WriteStatus
  <2>2. call[c].target = p
    BY <1>1, <1>2, <2>1
  <2>3. CASE Alone
    <3>1. call[c].value \in STATUS_TRANSITIONS[users[p].status]
      BY <2>1, <2>2, <2>3 DEF AloneInv, ReadStillHolds, At
    <3>2. QED
      BY <3>1 DEF Revived, STATUS_TRANSITIONS
  <2>4. QED
    BY <2>3 DEF MayRevive
<1>5. CASE EnsureRootActive
  BY <1>1, <1>2, <1>5 DEF EnsureRootActive, MayRevive
<1>6. CASE EnsureRootUser
  BY <1>1, <1>2, <1>6 DEF EnsureRootUser, Revived
<1>7. ASSUME NEW o \in People, Register(o) PROVE MayRevive(p)
  BY <1>1, <1>2, <1>7 DEF Register, Revived
<1>8. users' = users \/ (\E c \in AccountCalls : completeProfile(c) \/ WriteStatus(c))
      \/ EnsureRootActive \/ EnsureRootUser \/ (\E o \in People : Register(o))
  BY DEF AccountsNext, accountVars, Boots, seedPermissions, seedSuperAdminRole, EnsureRootRole,
     CreateMemberRole, GrantMember, DefineAdminRole, ExpireToken, AccountsDie, BeginCall, CallStep,
     JwtAuth, Permit, Visit, OpenWallet, ReadStatus, assignRoleByAdmin, removeRoleByAdmin, CheckTarget,
     CreateImpersonation, ReadImpersonation, EndImpersonation, TellTarget, profiles
<1>9. QED
  BY <1>2, <1>3, <1>4, <1>5, <1>6, <1>7, <1>8

\* (core/users) A user that was deleted comes back only by completing its profile with a token it
\* still has, as the bootstrap admin at a boot, or when two admins change its status at a time.
THEOREM DeletedUsersStayDeleted == AccountsSpec => DeletedStaysDeleted
<1>1. AccountsInv /\ AloneInv /\ [AccountsNext]_accountVars =>
        [\A p \in People :
           (users[p] # None /\ users[p].status = "DELETED" /\ users'[p].status # "DELETED") =>
             \/ \E c \in AccountCalls : At(c, "profile", "do") /\ call[c].sub = p
             \/ p = Root /\ boot = "activate"
             \/ ~Alone]_accountVars
  BY RevivedByFew DEF Revived, MayRevive
<1>2. QED
  BY <1>1, AccountsInvariants, PTL DEF AccountsSpec, DeletedStaysDeleted


-----------------------------------------------------------------------------
(***************************************************************************)
(* Files, for every set of contents, owners and uploads. FilesInv says     *)
(* that a path belongs to one content, that a row is made of an upload     *)
(* that wrote its bytes, and which uploads left bytes without a row.       *)
(***************************************************************************)
\* An upload that has begun brings something, and has been checked; one with a path has that
\* of its own bytes, and those that are past the store have a whole file there.
UploadsAgree ==
  \A u \in Uploads :
    /\ uploadAt[u] = "idle" => upload[u] = None
    /\ uploadAt[u] # "idle" => upload[u] \in Body /\ Accepts(upload[u])
    /\ uploadAt[u] \in {"temp", "rename", "insert", "done"} =>
         /\ storedPath[u] \in File /\ storedPath[u].type = upload[u].claim
         /\ storedPath[u].content = BytesToStore(upload[u])
         /\ storedPath[u].day = 1 \/ "midnight" \in faults
    /\ uploadAt[u] \in {"insert", "done"} => storedPath[u] \in disk
    /\ uploadAt[u] = "done" => files[storedPath[u].content] # None
    /\ uploadAt[u] # "idle" => "nested" \in faults \/ upload[u].content.passes < 2

\* Uploads of one content are of one user and one type, unless the instance looks at others.
ContentsAgree ==
  \A u, v \in Uploads :
    upload[u] # None /\ upload[v] # None /\ BytesToStore(upload[u]) = BytesToStore(upload[v]) =>
      /\ upload[u].owner = upload[v].owner \/ "shared" \in faults
      /\ upload[u].claim = upload[v].claim \/ "retype" \in faults

\* A row is that of an upload that was answered.
RowsAreMade ==
  \A c \in Contents : files[c] # None =>
    /\ files[c].deleted => "removal" \in faults
    /\ \E u \in Uploads :
         /\ uploadAt[u] = "done" /\ storedPath[u] = files[c].path /\ storedPath[u].content = c
         /\ files[c].owner = upload[u].owner /\ files[c].type = upload[u].claim

\* Nobody waits for a midnight that does not come.
OneDay == today = 1 \/ "midnight" \in faults

\* The inductive invariant.
FilesInv ==
  /\ FilesTypeOK /\ OrphansHaveCause
  /\ UploadsAgree /\ ContentsAgree /\ RowsAreMade /\ OneDay

\* What is stored of a content is a content of its kind; as SVG, what the sanitizer makes of
\* it, which it would leave as it is if one pass is enough.
LEMMA StoredBytes ==
  ASSUME NEW body \in Body
  PROVE  /\ BytesToStore(body) \in Contents /\ BytesToStore(body).kind = body.content.kind
         /\ body.claim = "image/svg+xml" =>
              /\ BytesToStore(body) = sanitizeSvg(body.content)
              /\ body.content.passes < 2 => sanitizeSvg(BytesToStore(body)) = BytesToStore(body)
<1>1. body.content \in Contents
  BY DEF Body
<1>2. sanitizeSvg(body.content) \in Contents /\ sanitizeSvg(body.content).kind = body.content.kind
  BY <1>1 DEF Contents, sanitizeSvg
<1>3. body.content.passes < 2 => sanitizeSvg(sanitizeSvg(body.content)) = sanitizeSvg(body.content)
  <2>1. PICK c \in Contents : c = body.content
    BY <1>1
  <2>2. sanitizeSvg(c) = [c EXCEPT !.passes = IF @ = 0 THEN 0 ELSE @ - 1]
    BY DEF sanitizeSvg
  <2>3. c.passes < 2 => sanitizeSvg(c).passes = 0
    BY <2>2 DEF Contents
  <2>4. sanitizeSvg(c) \in Contents
    BY <1>2, <2>1
  <2>5. \A d \in Contents : d.passes = 0 => sanitizeSvg(d) = d
    BY DEF sanitizeSvg, Contents
  <2>6. QED
    BY <2>1, <2>3, <2>4, <2>5
<1>4. QED
  BY <1>1, <1>2, <1>3 DEF BytesToStore

\* What the checks of an upload let pass is an image by its signature, or text that looks like it.
LEMMA AcceptedTypes ==
  ASSUME NEW body \in Body, Accepts(body)
  PROVE  \/ body.content.kind = "png" /\ body.claim = "image/png"
         \/ body.content.kind \in {"text", "svg"} /\ body.claim \in {"text/plain", "image/svg+xml"}
<1>1. body.content.kind \in Kinds /\ body.purpose \in Purposes
  BY DEF Body, Contents, Kinds
<1>2. body.purpose \in {"avatar", "document", "image", "text"}
  BY <1>1, FilesAssumption DEF MIME_ALLOWLIST_BY_PURPOSE
<1>3. body.claim \in {"image/png", "application/pdf", "image/svg+xml", "text/plain"}
  BY <1>2 DEF Accepts, MIME_ALLOWLIST_BY_PURPOSE
<1>4. SniffedMime(body.content, body.claim) = body.claim
  BY DEF Accepts
<1>5. CASE body.content.kind = "png"
  BY <1>4, <1>5 DEF SniffedMime
<1>6. body.content.kind # "exe"
  BY <1>3, <1>4 DEF SniffedMime
<1>7. CASE body.content.kind \in {"text", "svg"}
  <2>1. fallbackMimeFromContent(body.content, body.claim) = body.claim
    BY <1>4, <1>7 DEF SniffedMime
  <2>2. QED
    BY <1>3, <1>7, <2>1 DEF fallbackMimeFromContent
<1>8. QED
  BY <1>1, <1>5, <1>6, <1>7 DEF Kinds

\* A checked upload joins those of its content.
LEMMA BeginUploadKeeps ==
  ASSUME FilesInv, NEW u \in Uploads, NEW body \in Body, BeginUpload(u, body)
  PROVE  FilesInv'
<1>1. FilesTypeOK /\ OrphansHaveCause /\ UploadsAgree /\ ContentsAgree /\ RowsAreMade /\ OneDay
  BY DEF FilesInv
<1>2. /\ uploadAt[u] = "idle" /\ Accepts(body) /\ ~Clashes(body)
      /\ upload' = [upload EXCEPT ![u] = body] /\ uploadAt' = [uploadAt EXCEPT ![u] = "stat"]
      /\ disk' = disk /\ temps' = temps /\ files' = files /\ today' = today
      /\ storedPath' = storedPath /\ faults' = faults
      /\ "nested" \in faults \/ body.content.passes < 2
  BY DEF BeginUpload, ToUpload
<1>3. /\ upload'[u] = body /\ uploadAt'[u] = "stat"
      /\ \A v \in Uploads : v # u => upload'[v] = upload[v] /\ uploadAt'[v] = uploadAt[v]
  BY <1>1, <1>2 DEF FilesTypeOK
<1>4. FilesTypeOK'
  BY <1>1, <1>2 DEF FilesTypeOK
<1>5. UploadsAgree'
  <2>1. ASSUME NEW v \in Uploads, v # u, uploadAt[v] # "idle" PROVE Accepts(upload[v])
    BY <1>1, <2>1 DEF UploadsAgree
  <2>2. QED
    BY <1>1, <1>2, <1>3, <2>1 DEF UploadsAgree
<1>6. ContentsAgree'
  <2>1. ASSUME NEW v \in Uploads, upload[v] # None, BytesToStore(upload[v]) = BytesToStore(body)
        PROVE  /\ upload[v].owner = body.owner \/ "shared" \in faults
               /\ upload[v].claim = body.claim \/ "retype" \in faults
    BY <1>2, <2>1 DEF Clashes
  <2>2. QED
    BY <1>1, <1>2, <1>3, <2>1 DEF ContentsAgree
<1>7. RowsAreMade'
  BY <1>1, <1>2, <1>3 DEF RowsAreMade
<1>8. OrphansHaveCause' /\ OneDay'
  BY <1>1, <1>2, <1>3 DEF OrphansHaveCause, OneDay
<1>9. QED
  BY <1>4, <1>5, <1>6, <1>7, <1>8 DEF FilesInv

\* The path is made of the day, the bytes and the type.
LEMMA StatKeeps ==
  ASSUME FilesInv, NEW u \in Uploads, Stat(u)
  PROVE  FilesInv'
<1>1. FilesTypeOK /\ OrphansHaveCause /\ UploadsAgree /\ ContentsAgree /\ RowsAreMade /\ OneDay
  BY DEF FilesInv
<1>2. PICK path : path = buildStoragePath(u)
  OBVIOUS
<1>3. /\ uploadAt[u] = "stat" /\ storedPath' = [storedPath EXCEPT ![u] = path]
      /\ uploadAt' = [uploadAt EXCEPT ![u] = IF path \in disk THEN "insert" ELSE "temp"]
      /\ disk' = disk /\ temps' = temps /\ files' = files /\ today' = today
      /\ upload' = upload /\ faults' = faults
  BY <1>2 DEF Stat, ToUpload
<1>4. upload[u] \in Body /\ Accepts(upload[u])
  BY <1>1, <1>3 DEF UploadsAgree
<1>5. /\ path \in File /\ path.type = upload[u].claim /\ path.content = BytesToStore(upload[u])
      /\ path.day = today
  <2>1. BytesToStore(upload[u]) \in Contents /\ upload[u].claim \in Claims /\ today \in Days
    BY <1>1, <1>4, StoredBytes DEF Body, FilesTypeOK
  <2>2. QED
    BY <1>2, <2>1 DEF buildStoragePath, File
<1>6. /\ storedPath'[u] = path /\ uploadAt'[u] \in {"temp", "insert"}
      /\ uploadAt'[u] = "insert" => path \in disk
      /\ \A v \in Uploads : v # u => storedPath'[v] = storedPath[v] /\ uploadAt'[v] = uploadAt[v]
  BY <1>1, <1>3 DEF FilesTypeOK
<1>7. FilesTypeOK'
  BY <1>1, <1>3, <1>5 DEF FilesTypeOK
<1>8. UploadsAgree'
  BY <1>1, <1>3, <1>4, <1>5, <1>6 DEF UploadsAgree, OneDay
<1>9. ContentsAgree' /\ OneDay'
  BY <1>1, <1>3 DEF ContentsAgree, OneDay
<1>10. RowsAreMade'
  BY <1>1, <1>3, <1>6 DEF RowsAreMade
<1>11. OrphansHaveCause'
  BY <1>1, <1>3, <1>6 DEF OrphansHaveCause
<1>12. QED
  BY <1>7, <1>8, <1>9, <1>10, <1>11 DEF FilesInv

\* The store: a file in temp/ first, and then a whole one under its path, or neither.
LEMMA StoreKeeps ==
  ASSUME FilesInv, NEW u \in Uploads, WriteTemp(u) \/ Rename(u) \/ RenameFails(u) \/ UploadDies(u)
  PROVE  FilesInv'
<1>1. FilesTypeOK /\ OrphansHaveCause /\ UploadsAgree /\ ContentsAgree /\ RowsAreMade /\ OneDay
  BY DEF FilesInv
<1>2. /\ files' = files /\ today' = today /\ upload' = upload /\ storedPath' = storedPath
      /\ faults' = faults
  BY DEF WriteTemp, Rename, RenameFails, UploadDies
<1>3. PICK at \in {"rename", "insert", "failed"} :
        /\ uploadAt' = [uploadAt EXCEPT ![u] = at] /\ uploadAt[u] \in {"stat", "temp", "rename", "insert"}
        /\ at = "rename" => /\ uploadAt[u] = "temp"
                            /\ disk' = disk /\ temps' = temps \cup {u}
        /\ at = "insert" => /\ uploadAt[u] = "rename" /\ disk' = disk \cup {storedPath[u]}
                            /\ temps' = temps \ {u}
        /\ at = "failed" => "refuse" \in faults /\ disk' = disk /\ temps' \in {temps, temps \ {u}}
  BY DEF WriteTemp, Rename, RenameFails, UploadDies, ToUpload
<1>4. /\ uploadAt'[u] = at
      /\ \A v \in Uploads : v # u => uploadAt'[v] = uploadAt[v]
  BY <1>1, <1>3 DEF FilesTypeOK
<1>5. at # "failed" => storedPath[u] \in File
  BY <1>1, <1>3 DEF UploadsAgree
<1>6. FilesTypeOK'
  <2>1. uploadAt' \in [Uploads -> {"idle", "stat", "temp", "rename", "insert", "done", "failed"}]
    BY <1>1, <1>3 DEF FilesTypeOK
  <2>2. disk' \subseteq File /\ temps' \subseteq Uploads
    BY <1>1, <1>3, <1>5 DEF FilesTypeOK
  <2>3. QED
    BY <1>1, <1>2, <2>1, <2>2 DEF FilesTypeOK
<1>7. UploadsAgree'
  BY <1>1, <1>2, <1>3, <1>4 DEF UploadsAgree
<1>8. ContentsAgree' /\ OneDay'
  BY <1>1, <1>2 DEF ContentsAgree, OneDay
<1>9. RowsAreMade'
  BY <1>1, <1>2, <1>3, <1>4 DEF RowsAreMade
<1>10. OrphansHaveCause'
  BY <1>1, <1>2, <1>3, <1>4 DEF OrphansHaveCause
<1>11. QED
  BY <1>6, <1>7, <1>8, <1>9, <1>10 DEF FilesInv

\* The row of the first, and nothing for those that come after it.
LEMMA CreateRowKeeps ==
  ASSUME FilesInv, NEW u \in Uploads, CreateRow(u)
  PROVE  FilesInv'
<1>1. FilesTypeOK /\ OrphansHaveCause /\ UploadsAgree /\ ContentsAgree /\ RowsAreMade /\ OneDay
  BY DEF FilesInv
<1>2. PICK c, row : c = storedPath[u].content /\ row = NewFileRow(u)
  OBVIOUS
<1>3. /\ uploadAt[u] = "insert" /\ uploadAt' = [uploadAt EXCEPT ![u] = "done"]
      /\ files' = IF files[c] = None THEN [files EXCEPT ![c] = row] ELSE files
      /\ disk' = disk /\ temps' = temps /\ today' = today /\ upload' = upload
      /\ storedPath' = storedPath /\ faults' = faults
  BY <1>2 DEF CreateRow, ToUpload
<1>4. /\ upload[u] \in Body /\ storedPath[u] \in File /\ storedPath[u].type = upload[u].claim
      /\ c = BytesToStore(upload[u]) /\ storedPath[u] \in disk /\ c \in Contents
      /\ storedPath[u].day = 1 \/ "midnight" \in faults
  BY <1>1, <1>2, <1>3 DEF UploadsAgree, File
<1>5. /\ row \in FileRow /\ row # None /\ row.owner = upload[u].owner /\ row.type = upload[u].claim
      /\ row.path = storedPath[u] /\ row.deleted = FALSE
  <2>1. row \in FileRow
    BY <1>2, <1>4 DEF NewFileRow, FileRow, Body
  <2>2. QED
    BY <1>2, <2>1, FilesAssumption DEF NewFileRow
<1>6. /\ uploadAt'[u] = "done"
      /\ \A v \in Uploads : v # u => uploadAt'[v] = uploadAt[v]
  BY <1>1, <1>3 DEF FilesTypeOK
<1>7. /\ \A b \in Contents : files[b] # None => files'[b] = files[b]
      /\ \A b \in Contents : b # c => files'[b] = files[b]
      /\ files[c] = None => files'[c] = row
      /\ files'[c] # None
  BY <1>1, <1>3, <1>4, <1>5 DEF FilesTypeOK
<1>8. FilesTypeOK'
  BY <1>1, <1>3, <1>4, <1>5 DEF FilesTypeOK
<1>9. UploadsAgree'
  <2>1. ASSUME NEW v \in Uploads
        PROVE  /\ uploadAt'[v] = "idle" => upload[v] = None
               /\ uploadAt'[v] # "idle" => upload[v] \in Body /\ Accepts(upload[v])
               /\ uploadAt'[v] \in {"temp", "rename", "insert", "done"} =>
                    /\ storedPath[v] \in File /\ storedPath[v].type = upload[v].claim
                    /\ storedPath[v].content = BytesToStore(upload[v])
                    /\ storedPath[v].day = 1 \/ "midnight" \in faults
               /\ uploadAt'[v] \in {"insert", "done"} => storedPath[v] \in disk
               /\ uploadAt'[v] # "idle" => "nested" \in faults \/ upload[v].content.passes < 2
    <3>1. CASE v = u
      BY <1>1, <1>2, <1>3, <1>4, <1>6, <3>1 DEF UploadsAgree
    <3>2. CASE v # u
      BY <1>1, <1>6, <3>2 DEF UploadsAgree
    <3>3. QED
      BY <3>1, <3>2
  <2>2. ASSUME NEW v \in Uploads, uploadAt'[v] = "done" PROVE files'[storedPath[v].content] # None
    <3>1. CASE v = u
      BY <1>2, <1>7, <3>1
    <3>2. CASE v # u
      <4>1. storedPath[v].content \in Contents /\ files[storedPath[v].content] # None
        BY <1>1, <1>6, <2>2, <3>2 DEF UploadsAgree, File
      <4>2. QED
        BY <1>7, <4>1
    <3>3. QED
      BY <3>1, <3>2
  <2>3. QED
    BY <1>3, <2>1, <2>2 DEF UploadsAgree
<1>10. ContentsAgree' /\ OneDay'
  BY <1>1, <1>3 DEF ContentsAgree, OneDay
<1>11. RowsAreMade'
  <2>1. ASSUME NEW b \in Contents, files'[b] # None
        PROVE  /\ files'[b].deleted => "removal" \in faults
               /\ \E v \in Uploads :
                    /\ uploadAt'[v] = "done" /\ storedPath[v] = files'[b].path /\ storedPath[v].content = b
                    /\ files'[b].owner = upload[v].owner /\ files'[b].type = upload[v].claim
    <3>1. CASE files[b] # None
      BY <1>1, <1>3, <1>6, <1>7, <3>1 DEF RowsAreMade
    <3>2. CASE files[b] = None
      <4>1. b = c /\ files'[b] = row
        BY <1>7, <2>1, <3>2
      <4>2. QED
        BY <1>2, <1>5, <1>6, <4>1
    <3>3. QED
      BY <3>1, <3>2
  <2>2. QED
    BY <1>3, <2>1 DEF RowsAreMade
<1>12. OrphansHaveCause'
  <2>1. ASSUME NEW f \in disk, faults \cap {"refuse", "midnight", "retype"} = {}
        PROVE  \/ files'[f.content] # None /\ files'[f.content].path = f
               \/ \E v \in Uploads : uploadAt'[v] = "insert" /\ storedPath[v] = f
    <3>1. f.content \in Contents
      BY <1>1 DEF FilesTypeOK, File
    <3>2. CASE files[f.content] # None /\ files[f.content].path = f
      BY <1>7, <3>1, <3>2
    <3>3. ASSUME NEW v \in Uploads, uploadAt[v] = "insert", storedPath[v] = f, v # u
          PROVE  \E w \in Uploads : uploadAt'[w] = "insert" /\ storedPath[w] = f
      BY <1>6, <3>3
    <3>4. CASE storedPath[u] = f
      <4>1. f.content = c
        BY <1>2, <3>4
      <4>2. CASE files[c] = None
        BY <1>5, <1>7, <3>4, <4>1, <4>2
      <4>3. CASE files[c] # None
        <5>1. PICK w \in Uploads :
                /\ uploadAt[w] = "done" /\ storedPath[w] = files[c].path /\ storedPath[w].content = c
          BY <1>1, <1>4, <4>3 DEF RowsAreMade
        <5>2. /\ storedPath[w] \in File /\ storedPath[w].type = upload[w].claim /\ upload[w] \in Body
              /\ storedPath[w].content = BytesToStore(upload[w]) /\ storedPath[w].day = 1
          BY <1>1, <2>1, <5>1 DEF UploadsAgree
        <5>3. upload[w] # None /\ upload[u] # None
          BY <1>4, <5>2, FilesAssumption
        <5>4. upload[u].claim = upload[w].claim
          BY ZenonT(30), <1>1, <1>4, <2>1, <5>1, <5>2, <5>3 DEF ContentsAgree
        <5>5. storedPath[w] = f
          <6>1. storedPath[u].day = 1
            BY <1>4, <2>1
          <6>2. /\ storedPath[w].content = storedPath[u].content
                /\ storedPath[w].type = storedPath[u].type /\ storedPath[w].day = storedPath[u].day
            BY <1>2, <1>4, <5>1, <5>2, <5>4, <6>1
          <6>3. storedPath[w] = storedPath[u]
            BY <1>4, <5>2, <6>2 DEF File
          <6>4. QED
            BY <3>4, <6>3
        <5>6. QED
          BY <1>7, <4>1, <4>3, <5>1, <5>5, <3>1
      <4>4. QED
        BY <4>2, <4>3
    <3>5. QED
      BY <1>1, <2>1, <3>2, <3>3, <3>4 DEF OrphansHaveCause
  <2>2. \A v \in temps : "refuse" \in faults \/ uploadAt'[v] = "rename"
    BY <1>1, <1>3, <1>6 DEF OrphansHaveCause, FilesTypeOK
  <2>3. QED
    BY <1>3, <2>1, <2>2 DEF OrphansHaveCause
<1>13. QED
  BY <1>8, <1>9, <1>10, <1>11, <1>12 DEF FilesInv

\* A deletion leaves everything but its mark.
LEMMA DeletionEffects ==
  ASSUME FilesInv, NEW c \in Contents, NEW user \in Users, softDelete(c, user)
  PROVE  /\ "removal" \in faults
         /\ files' \in [Contents -> FileRow \cup {None}]
         /\ \A b \in Contents :
              /\ files'[b] # None <=> files[b] # None
              /\ files[b] # None =>
                   /\ files'[b].owner = files[b].owner /\ files'[b].type = files[b].type
                   /\ files'[b].path = files[b].path
                   /\ files[b].deleted => files'[b].deleted
<1>1. /\ "removal" \in faults /\ files[c] # None /\ files' = [files EXCEPT ![c].deleted = TRUE]
      /\ files \in [Contents -> FileRow \cup {None}]
  BY DEF FilesInv, FilesTypeOK, softDelete
<1>2. files[c] \in FileRow
  BY <1>1
<1>3. PICK row : row = [files[c] EXCEPT !.deleted = TRUE]
  OBVIOUS
<1>4. /\ row \in FileRow /\ row.owner = files[c].owner /\ row.type = files[c].type
      /\ row.path = files[c].path /\ row.deleted = TRUE /\ row # None
  <2>1. row \in FileRow
    BY <1>2, <1>3 DEF FileRow
  <2>2. QED
    BY <1>2, <1>3, <2>1, FilesAssumption DEF FileRow
<1>5. files' = [files EXCEPT ![c] = row]
  BY <1>1, <1>3
<1>6. QED
  BY <1>1, <1>4, <1>5

LEMMA DeletionKeeps ==
  ASSUME FilesInv, NEW c \in Contents, NEW user \in Users, softDelete(c, user)
  PROVE  FilesInv'
<1>1. FilesTypeOK /\ OrphansHaveCause /\ UploadsAgree /\ ContentsAgree /\ RowsAreMade /\ OneDay
  BY DEF FilesInv
<1>2. /\ "removal" \in faults
      /\ files' \in [Contents -> FileRow \cup {None}]
      /\ \A b \in Contents :
           /\ files'[b] # None <=> files[b] # None
           /\ files[b] # None =>
                /\ files'[b].owner = files[b].owner /\ files'[b].type = files[b].type
                /\ files'[b].path = files[b].path
  BY DeletionEffects
<1>3. /\ disk' = disk /\ temps' = temps /\ today' = today /\ upload' = upload
      /\ storedPath' = storedPath /\ uploadAt' = uploadAt /\ faults' = faults
  BY DEF softDelete
<1>4. FilesTypeOK' /\ ContentsAgree' /\ OneDay'
  BY <1>1, <1>2, <1>3 DEF FilesTypeOK, ContentsAgree, OneDay
<1>5. UploadsAgree'
  <2>1. \A u \in Uploads : uploadAt[u] = "done" => storedPath[u].content \in Contents
    BY <1>1 DEF UploadsAgree, File
  <2>2. QED
    BY <1>1, <1>2, <1>3, <2>1 DEF UploadsAgree
<1>6. RowsAreMade'
  BY <1>1, <1>2, <1>3 DEF RowsAreMade
<1>7. OrphansHaveCause'
  <2>1. \A f \in disk : f.content \in Contents
    BY <1>1 DEF FilesTypeOK, File
  <2>2. QED
    BY <1>1, <1>2, <1>3, <2>1 DEF OrphansHaveCause
<1>8. QED
  BY <1>4, <1>5, <1>6, <1>7 DEF FilesInv

\* Steps that touch neither uploads nor rows.
LEMMA ClockKeeps ==
  ASSUME FilesInv, Midnight \/ UNCHANGED fileVars
  PROVE  FilesInv'
<1>1. FilesTypeOK /\ OrphansHaveCause /\ UploadsAgree /\ ContentsAgree /\ RowsAreMade /\ OneDay
  BY DEF FilesInv
<1>2. /\ disk' = disk /\ temps' = temps /\ files' = files /\ upload' = upload
      /\ storedPath' = storedPath /\ uploadAt' = uploadAt /\ faults' = faults
      /\ today' = today \/ ("midnight" \in faults /\ today' \in Days)
  BY DEF Midnight, fileVars
<1>3. FilesTypeOK' /\ OneDay'
  BY <1>1, <1>2 DEF FilesTypeOK, OneDay
<1>4. OrphansHaveCause' /\ UploadsAgree' /\ ContentsAgree' /\ RowsAreMade'
  BY <1>1, <1>2 DEF OrphansHaveCause, UploadsAgree, ContentsAgree, RowsAreMade
<1>5. QED
  BY <1>3, <1>4 DEF FilesInv

LEMMA FilesStart == FilesInit => FilesInv
<1> SUFFICES ASSUME FilesInit PROVE FilesInv
  OBVIOUS
<1>1. FilesTypeOK
  BY FilesAssumption DEF FilesInit, FilesTypeOK
<1>2. OrphansHaveCause /\ OneDay /\ UploadsAgree /\ ContentsAgree /\ RowsAreMade
  BY DEF FilesInit, OrphansHaveCause, OneDay, UploadsAgree, ContentsAgree, RowsAreMade
<1>3. QED
  BY <1>1, <1>2 DEF FilesInv

LEMMA FilesStep == FilesInv /\ [FilesNext]_fileVars => FilesInv'
<1> SUFFICES ASSUME FilesInv, [FilesNext]_fileVars PROVE FilesInv'
  OBVIOUS
<1>1. ASSUME NEW u \in Uploads, NEW body \in Body, BeginUpload(u, body) PROVE FilesInv'
  BY <1>1, BeginUploadKeeps
<1>2. ASSUME NEW u \in Uploads, Stat(u) PROVE FilesInv'
  BY <1>2, StatKeeps
<1>3. ASSUME NEW u \in Uploads, WriteTemp(u) \/ Rename(u) \/ RenameFails(u) \/ UploadDies(u)
      PROVE  FilesInv'
  BY <1>3, StoreKeeps
<1>4. ASSUME NEW u \in Uploads, CreateRow(u) PROVE FilesInv'
  BY <1>4, CreateRowKeeps
<1>5. ASSUME NEW c \in Contents, NEW user \in Users, softDelete(c, user) PROVE FilesInv'
  BY <1>5, DeletionKeeps
<1>6. CASE Midnight \/ UNCHANGED fileVars
  BY <1>6, ClockKeeps
<1>7. CASE FilesDone
  BY <1>7, ClockKeeps DEF FilesDone
<1>8. QED
  BY <1>1, <1>2, <1>3, <1>4, <1>5, <1>6, <1>7 DEF FilesNext

\* What rows promise follows from whose they are.
LEMMA RowsPromise == FilesInv => RowHasBytes /\ NoRawSvg /\ NoDisguise /\ AnswerIsReadable
<1> SUFFICES ASSUME FilesInv PROVE RowHasBytes /\ NoRawSvg /\ NoDisguise /\ AnswerIsReadable
  OBVIOUS
<1>1. FilesTypeOK /\ UploadsAgree /\ ContentsAgree /\ RowsAreMade
  BY DEF FilesInv
<1>2. ASSUME NEW c \in Contents, files[c] # None
      PROVE  /\ files[c].path \in disk /\ files[c].path.content = c
             /\ files[c].path.type = files[c].type
             /\ files[c].type = "image/svg+xml" =>
                  /\ \E u \in Uploads : /\ uploadAt[u] = "done" /\ upload[u].claim = "image/svg+xml"
                                        /\ sanitizeSvg(upload[u].content) = c
                  /\ "nested" \in faults \/ sanitizeSvg(c) = c
             /\ \/ c.kind = "png" /\ files[c].type = "image/png"
                \/ c.kind \in {"text", "svg"} /\ files[c].type \in {"text/plain", "image/svg+xml"}
             /\ files[c].deleted => "removal" \in faults
             /\ \E v \in Uploads : /\ upload[v] \in Body /\ upload[v] # None
                                   /\ BytesToStore(upload[v]) = c /\ upload[v].owner = files[c].owner
  <2>1. PICK u \in Uploads :
         /\ uploadAt[u] = "done" /\ storedPath[u] = files[c].path /\ storedPath[u].content = c
         /\ files[c].owner = upload[u].owner /\ files[c].type = upload[u].claim
    BY <1>1, <1>2 DEF RowsAreMade
  <2>2. /\ upload[u] \in Body /\ Accepts(upload[u]) /\ storedPath[u] \in disk
        /\ storedPath[u].type = upload[u].claim /\ c = BytesToStore(upload[u])
    BY <1>1, <2>1 DEF UploadsAgree
  <2>3. /\ c.kind = upload[u].content.kind
        /\ upload[u].claim = "image/svg+xml" =>
             /\ c = sanitizeSvg(upload[u].content)
             /\ "nested" \in faults \/ sanitizeSvg(c) = c
    <3>1. "nested" \in faults \/ upload[u].content.passes < 2
      BY <1>1, <2>1 DEF UploadsAgree
    <3>2. QED
      BY <2>2, <3>1, StoredBytes
  <2>4. \/ upload[u].content.kind = "png" /\ upload[u].claim = "image/png"
        \/ /\ upload[u].content.kind \in {"text", "svg"}
           /\ upload[u].claim \in {"text/plain", "image/svg+xml"}
    BY <2>2, AcceptedTypes
  <2>5. upload[u] # None
    BY <2>2, FilesAssumption
  <2>6. files[c].deleted => "removal" \in faults
    BY <1>1, <1>2 DEF RowsAreMade
  <2>7. QED
    BY <2>1, <2>2, <2>3, <2>4, <2>5, <2>6
<1>3. RowHasBytes
  BY <1>2 DEF RowHasBytes
<1>4. NoRawSvg /\ NoDisguise
  BY <1>2 DEF NoRawSvg, NoDisguise
<1>5. AnswerIsReadable
  <2>1. ASSUME NEW u \in Uploads, uploadAt[u] = "done", faults \cap {"shared", "removal"} = {}
        PROVE  streamForDownload(storedPath[u].content, upload[u].owner) = "OK"
    <3>1. PICK c : c = storedPath[u].content
      OBVIOUS
    <3>2. /\ c \in Contents /\ files[c] # None /\ upload[u] \in Body /\ upload[u] # None
          /\ c = BytesToStore(upload[u])
      BY <1>1, <2>1, <3>1, FilesAssumption DEF UploadsAgree, File
    <3>3. PICK v \in Uploads : /\ upload[v] # None /\ BytesToStore(upload[v]) = c
                               /\ upload[v].owner = files[c].owner
      BY <1>2, <3>2
    <3>4. upload[u].owner = files[c].owner
      BY <1>1, <2>1, <3>2, <3>3 DEF ContentsAgree
    <3>5. files[c].path \in disk /\ ~files[c].deleted
      BY <1>2, <2>1, <3>2
    <3>6. QED
      BY <3>1, <3>2, <3>4, <3>5 DEF streamForDownload, findReadableById
  <2>2. QED
    BY <2>1 DEF AnswerIsReadable
<1>6. QED
  BY <1>3, <1>4, <1>5

\* Rows are created where there is none, and otherwise only marked as deleted.
LEMMA FileRowsStay ==
  ASSUME FilesInv, [FilesNext]_fileVars, NEW c \in Contents, files[c] # None
  PROVE  /\ files'[c].owner = files[c].owner
         /\ files'[c].type = files[c].type
         /\ files'[c].path = files[c].path
         /\ files[c].deleted => files'[c].deleted
<1>1. ASSUME NEW u \in Uploads, CreateRow(u) PROVE files'[c] = files[c]
  BY <1>1 DEF CreateRow, FilesInv, FilesTypeOK
<1>2. ASSUME NEW b \in Contents, NEW user \in Users, softDelete(b, user)
      PROVE  /\ files'[c].owner = files[c].owner /\ files'[c].type = files[c].type
             /\ files'[c].path = files[c].path
             /\ files[c].deleted => files'[c].deleted
  BY <1>2, DeletionEffects
<1>3. CASE files' = files
  BY <1>3
<1>4. QED
  BY <1>1, <1>2, <1>3 DEF FilesNext, BeginUpload, Stat, WriteTemp, Rename, RenameFails, UploadDies,
     Midnight, FilesDone, fileVars

\* (core/files/files.service.ts, local-file-store.ts) Whatever fails between the two stores, and
\* however many upload the same content on whichever days: a row has its bytes and keeps its
\* owner, path and type; bytes are served as what they are, an SVG only as the sanitizer left
\* it; files without a row have a cause.
THEOREM FilesAlwaysAgree == FilesSpec => FilesAgree
<1>1. FilesInit => FilesInv
  BY FilesStart
<1>2. FilesInv /\ [FilesNext]_fileVars => FilesInv'
  BY FilesStep
<1>3. FilesInv => FilesTypeOK /\ RowHasBytes /\ OrphansHaveCause /\ AnswerIsReadable
  BY RowsPromise DEF FilesInv
<1>4. FilesInv => NoRawSvg /\ NoDisguise
  BY RowsPromise
<1>5. FilesInv /\ [FilesNext]_fileVars =>
        [\A c \in Contents : files[c] # None =>
           /\ files'[c].owner = files[c].owner
           /\ files'[c].type = files[c].type
           /\ files'[c].path = files[c].path
           /\ files[c].deleted => files'[c].deleted]_fileVars
  BY FileRowsStay
<1>6. QED
  BY <1>1, <1>2, <1>3, <1>4, <1>5, PTL DEF FilesSpec, FilesAgree, RowsAreCanonical


-----------------------------------------------------------------------------
(***************************************************************************)
(* ModuleLoader, for every list of modules, their permissions and roles.   *)
(* LoaderInv says how far a boot has come in that list: what is merged has *)
(* its rows, what is linked is all but the pair whose turn it is, and      *)
(* onInstall was called as often as rows and interruptions account for.    *)
(***************************************************************************)
\* onApplicationBootstrap is at the hooks of a module.
AtHooks == loading \in {"find", "install", "stamp", "boot"}

\* Permissions are merged after the modules are registered, and what is merged has its row.
MergeAgrees ==
  /\ loading \in {"down", "roles", "register"} => merged = {}
  /\ loading \in {"down", "roles", "register", "merge", "link"} => registered = {} /\ booted = {}
  /\ loading = "link" => code \in merged
  /\ seen \subseteq roleRows /\ merged \subseteq permissions /\ booted \subseteq enabled

\* Each merged permission is linked to those of its roles that were there, but for the one
\* that is just being linked.
LinksAgree ==
  \A c \in merged :
    \/ loading = "link" /\ c = code
    \/ (DefaultRoles[c] \cap seen) \X {c} \subseteq links

\* The hooks of the enabled modules run in their order, each once it is known whether the module
\* is installed.
HooksAgree ==
  /\ AtHooks =>
       /\ module \in DOMAIN MODULES /\ MODULES[module] \in enabled
       /\ \A i \in 1 .. module - 1 : MODULES[i] \in enabled => MODULES[i] \in installed \cap booted
  /\ loading \in {"install", "stamp"} => MODULES[module] \notin installed
  /\ loading = "stamp" => MODULES[module] \in completed
  /\ loading = "boot" => MODULES[module] \in installed
  /\ loading \in {"providers", "serving"} => enabled \subseteq installed \cap booted
  /\ AtHooks \/ loading \in {"providers", "serving"} =>
       registered = enabled /\ \A m \in enabled : CodesOf[m] \subseteq merged
  /\ loading = "serving" => \A d \in Defaults : DefaultsOf[d] \in enabled => d \in ensured

\* This process may have called onInstall of the i-th module.
Called(i) ==
  \/ loading \in {"down", "providers", "serving"}
  \/ AtHooks /\ (i < module \/ (i = module /\ loading \in {"stamp", "boot"}))

\* A call of onInstall is followed by the row, or cut off before it; a process calls it once.
InstallsAgree ==
  \A i \in DOMAIN MODULES :
    LET m == MODULES[i] IN
      /\ installs[m] <= cut[m] + IF m \in installed \/ (loading = "stamp" /\ i = module) THEN 1 ELSE 0
      /\ installs[m] <= boots /\ (installs[m] < boots \/ Called(i))
      /\ cut[m] <= boots /\ (cut[m] < boots \/ loading = "down")

\* The inductive invariant.
LoaderInv ==
  /\ LoaderTypeOK /\ InstalledIsComplete
  /\ MergeAgrees /\ LinksAgree /\ HooksAgree /\ InstallsAgree

\* Modules are those at a position of the list, each at one.
LEMMA ModulePlaces ==
  /\ Len(MODULES) \in Nat /\ DOMAIN MODULES = 1 .. Len(MODULES)
  /\ \A i \in DOMAIN MODULES : MODULES[i] \in Modules
  /\ \A m \in Modules : \E i \in DOMAIN MODULES : m = MODULES[i]
  /\ \A i, j \in DOMAIN MODULES : MODULES[i] = MODULES[j] => i = j
<1>1. Len(MODULES) \in Nat /\ DOMAIN MODULES = 1 .. Len(MODULES)
  BY ModuleAssumption
<1>2. QED
  BY <1>1, ModuleAssumption DEF Modules, Range

\* The next enabled module is enabled, and those before it are not.
LEMMA NextEnabled ==
  ASSUME NEW i \in Nat \ {0}
  PROVE  \/ /\ EnabledFrom(i) = Len(MODULES) + 1
            /\ \A j \in i .. Len(MODULES) : MODULES[j] \notin enabled
         \/ /\ EnabledFrom(i) \in i .. Len(MODULES) /\ MODULES[EnabledFrom(i)] \in enabled
            /\ \A j \in i .. EnabledFrom(i) - 1 : MODULES[j] \notin enabled
<1>1. Len(MODULES) \in Nat
  BY ModulePlaces
<1>2. PICK S : S = {j \in i .. Len(MODULES) : MODULES[j] \in enabled}
  OBVIOUS
<1>3. CASE ~\E j \in i .. Len(MODULES) : MODULES[j] \in enabled
  BY <1>3 DEF EnabledFrom, getEnabledModules
<1>4. CASE \E j \in i .. Len(MODULES) : MODULES[j] \in enabled
  <2>1. PICK n \in S : \A j \in S : n <= j
    <3>1. IsFiniteSet(i .. Len(MODULES)) /\ S \subseteq i .. Len(MODULES)
      BY <1>1, <1>2, FS_Interval
    <3>2. IsFiniteSet(S) /\ S # {}
      BY <1>4, <1>2, <3>1, FS_Subset
    <3>3. \A j \in S : j \in Nat
      BY <1>1, <1>2
    <3>4. QED
      BY <3>2, <3>3, LeastExists
  <2>2. \E j \in i .. Len(MODULES) :
          /\ MODULES[j] \in getEnabledModules
          /\ \A k \in i .. j - 1 : MODULES[k] \notin getEnabledModules
    BY <1>1, <1>2, <2>1 DEF getEnabledModules
  <2>3. /\ EnabledFrom(i) \in i .. Len(MODULES)
        /\ MODULES[EnabledFrom(i)] \in getEnabledModules
        /\ \A k \in i .. EnabledFrom(i) - 1 : MODULES[k] \notin getEnabledModules
    BY <1>4, <2>2 DEF EnabledFrom, getEnabledModules
  <2>4. QED
    BY <2>3 DEF getEnabledModules
<1>5. QED
  BY <1>3, <1>4
\* The hooks of the next enabled module, or none: those before it are as they must be.
LEMMA GoToKeeps ==
  ASSUME LoaderTypeOK, NEW i \in Nat \ {0}, GoTo(EnabledFrom(i)),
         enabled' = enabled, installed' = installed, completed' = completed, ensured' = ensured,
         merged' = merged,
         \A j \in 1 .. i - 1 : j \in DOMAIN MODULES /\ MODULES[j] \in enabled =>
           MODULES[j] \in installed \cap booted',
         registered' = enabled, \A m \in enabled : CodesOf[m] \subseteq merged
  PROVE  /\ HooksAgree' /\ loading' \in {"find", "providers"}
         /\ module' \in 1 .. Len(MODULES) + 1
         /\ loading' = "find" => module' >= i /\ module' \in DOMAIN MODULES
<1>1. /\ Len(MODULES) \in Nat /\ DOMAIN MODULES = 1 .. Len(MODULES)
      /\ \A m \in Modules : \E j \in DOMAIN MODULES : m = MODULES[j]
  BY ModulePlaces
<1>2. PICK n : n = EnabledFrom(i)
  OBVIOUS
<1>3. /\ module' = n /\ loading' = IF n \in DOMAIN MODULES THEN "find" ELSE "providers"
  BY <1>2 DEF GoTo
<1>4. CASE n = Len(MODULES) + 1 /\ \A j \in i .. Len(MODULES) : MODULES[j] \notin enabled
  <2>1. loading' = "providers" /\ module' = Len(MODULES) + 1
    BY <1>1, <1>3, <1>4
  <2>2. \A j \in DOMAIN MODULES : MODULES[j] \in enabled => MODULES[j] \in installed \cap booted'
    BY <1>1, <1>4
  <2>3. enabled \subseteq installed \cap booted'
    BY <1>1, <2>2 DEF LoaderTypeOK
  <2>4. QED
    BY <1>1, <2>1, <2>3 DEF HooksAgree, AtHooks
<1>5. CASE /\ n \in i .. Len(MODULES) /\ MODULES[n] \in enabled
           /\ \A j \in i .. n - 1 : MODULES[j] \notin enabled
  <2>1. loading' = "find" /\ module' = n /\ n \in DOMAIN MODULES /\ n \in Nat /\ n >= i
    BY <1>1, <1>3, <1>5
  <2>2. \A j \in 1 .. n - 1 : MODULES[j] \in enabled => MODULES[j] \in installed \cap booted'
    BY <1>1, <1>5, <2>1
  <2>3. QED
    BY <1>1, <1>5, <2>1, <2>2 DEF HooksAgree, AtHooks
<1>6. QED
  BY <1>2, <1>4, <1>5, NextEnabled

\* Steps of a boot before its first hook, and an operator's.
LEMMA EarlyStepsKeep ==
  ASSUME LoaderInv, SeedRoles \/ RegisterModules \/ \E r \in RoleNames : GrantRole(r)
  PROVE  LoaderInv'
<1>1. LoaderTypeOK /\ InstalledIsComplete /\ MergeAgrees /\ LinksAgree /\ HooksAgree /\ InstallsAgree
  BY DEF LoaderInv
<1>2. /\ permissions' = permissions /\ links' = links /\ installed' = installed /\ ensured' = ensured
      /\ enabled' = enabled /\ boots' = boots /\ merged' = merged /\ registered' = registered
      /\ booted' = booted /\ installs' = installs /\ cut' = cut /\ completed' = completed
      /\ module' = module /\ code' = code /\ faults' = faults
  BY DEF SeedRoles, RegisterModules, GrantRole, stored, memory, ghosts, place
<1>3. /\ loading' = loading \/ (loading \in {"roles", "register"} /\ loading' \in {"register", "merge"})
      /\ loading' = "register" => loading \in {"roles", "register"}
      /\ roleRows \subseteq roleRows' /\ roleRows' \subseteq RoleNames
      /\ seen' = seen \/ (seen' = roleRows /\ loading = "register")
  <2>1. SeededRoles \subseteq RoleNames
    BY DEF RoleNames
  <2>2. QED
    BY <1>1, <2>1 DEF SeedRoles, RegisterModules, GrantRole, stored, memory, LoaderTypeOK
<1>4. LoaderTypeOK'
  BY <1>1, <1>2, <1>3 DEF LoaderTypeOK, Stages
<1>5. InstalledIsComplete' /\ HooksAgree'
  BY <1>1, <1>2, <1>3 DEF InstalledIsComplete, HooksAgree, AtHooks
<1>6. MergeAgrees'
  <2>1. seen' \subseteq roleRows'
    BY <1>1, <1>3 DEF MergeAgrees
  <2>2. QED
    BY <1>1, <1>2, <1>3, <2>1 DEF MergeAgrees
<1>7. LinksAgree'
  <2>1. CASE seen' = seen /\ loading' = loading
    BY <1>1, <1>2, <2>1 DEF LinksAgree
  <2>2. CASE loading \in {"roles", "register"}
    BY <1>1, <1>2, <2>2 DEF LinksAgree, MergeAgrees
  <2>3. QED
    BY <1>3, <2>1, <2>2
<1>8. InstallsAgree'
  BY <1>1, <1>2, <1>3 DEF InstallsAgree, Called, AtHooks
<1>9. QED
  BY <1>4, <1>5, <1>6, <1>7, <1>8 DEF LoaderInv

\* A permission's row, and then its links.
LEMMA PermissionsKeep ==
  ASSUME LoaderInv, LinkRoles \/ \E c \in Codes : UpsertPermission(c)
  PROVE  LoaderInv'
<1>1. LoaderTypeOK /\ InstalledIsComplete /\ MergeAgrees /\ LinksAgree /\ HooksAgree /\ InstallsAgree
  BY DEF LoaderInv
<1>2. /\ roleRows' = roleRows /\ installed' = installed /\ ensured' = ensured
      /\ enabled' = enabled /\ boots' = boots /\ seen' = seen /\ registered' = registered
      /\ booted' = booted /\ installs' = installs /\ cut' = cut /\ completed' = completed
      /\ module' = module /\ faults' = faults
      /\ loading \in {"merge", "link"} /\ loading' \in {"merge", "link"}
  BY DEF LinkRoles, UpsertPermission, memory, ghosts, place
<1>3. InstalledIsComplete' /\ HooksAgree'
  BY <1>1, <1>2 DEF InstalledIsComplete, HooksAgree, AtHooks
<1>4. InstallsAgree'
  BY <1>1, <1>2 DEF InstallsAgree, Called, AtHooks
<1>5. ASSUME NEW c \in Codes, UpsertPermission(c)
      PROVE  LoaderTypeOK' /\ MergeAgrees' /\ LinksAgree'
  <2>1. /\ loading = "merge" /\ permissions' = permissions \cup {c} /\ merged' = merged \cup {c}
        /\ loading' = "link" /\ code' = c /\ links' = links
    BY <1>5 DEF UpsertPermission
  <2>2. LoaderTypeOK'
    BY <1>1, <1>2, <2>1 DEF LoaderTypeOK, Stages
  <2>3. MergeAgrees'
    BY <1>1, <1>2, <2>1 DEF MergeAgrees
  <2>4. LinksAgree'
    BY <1>1, <1>2, <2>1 DEF LinksAgree
  <2>5. QED
    BY <2>2, <2>3, <2>4
<1>6. ASSUME LinkRoles
      PROVE  LoaderTypeOK' /\ MergeAgrees' /\ LinksAgree'
  <2>1. /\ loading = "link" /\ loading' = "merge" /\ permissions' = permissions /\ merged' = merged
        /\ code' = code
        /\ links' = links \cup {<<r, code>> : r \in DefaultRoles[code] \cap roleRows}
    BY <1>6 DEF LinkRoles, memory, place
  <2>2. code \in merged /\ code \in Codes
    BY <1>1, <2>1 DEF MergeAgrees, LoaderTypeOK
  <2>3. {<<r, code>> : r \in DefaultRoles[code] \cap roleRows} \subseteq RoleNames \X Codes
    BY <1>1, <2>2 DEF LoaderTypeOK
  <2>4. LoaderTypeOK'
    BY <1>1, <1>2, <2>1, <2>3 DEF LoaderTypeOK, Stages
  <2>5. MergeAgrees'
    BY <1>1, <1>2, <2>1 DEF MergeAgrees
  <2>6. LinksAgree'
    <3>1. seen \subseteq roleRows
      BY <1>1 DEF MergeAgrees
    <3>2. (DefaultRoles[code] \cap seen) \X {code} \subseteq links'
      BY <2>1, <3>1
    <3>3. \A c \in merged : c # code => (DefaultRoles[c] \cap seen) \X {c} \subseteq links'
      BY <1>1, <2>1 DEF LinksAgree
    <3>4. QED
      BY <1>2, <2>1, <3>2, <3>3 DEF LinksAgree
  <2>7. QED
    BY <2>4, <2>5, <2>6
<1>7. QED
  BY <1>3, <1>4, <1>5, <1>6 DEF LoaderInv

\* Once every permission is merged the types are, and the hooks begin.
LEMMA RegisterTypesKeeps ==
  ASSUME LoaderInv, RegisterTypes
  PROVE  LoaderInv'
<1>1. LoaderTypeOK /\ InstalledIsComplete /\ MergeAgrees /\ LinksAgree /\ HooksAgree /\ InstallsAgree
  BY DEF LoaderInv
<1>2. /\ permissions' = permissions /\ links' = links /\ roleRows' = roleRows
      /\ installed' = installed /\ ensured' = ensured
      /\ enabled' = enabled /\ boots' = boots /\ merged' = merged /\ seen' = seen
      /\ booted' = booted /\ installs' = installs /\ cut' = cut /\ completed' = completed
      /\ code' = code /\ faults' = faults
      /\ loading = "merge" /\ ToMerge = {} /\ registered' = enabled /\ GoTo(EnabledFrom(1))
  BY DEF RegisterTypes, stored, ghosts, getEnabledModules
<1>3. \A m \in enabled : CodesOf[m] \subseteq merged
  BY <1>2 DEF ToMerge, getEnabledModules
<1>4. /\ HooksAgree' /\ loading' \in {"find", "providers"}
      /\ module' \in 1 .. Len(MODULES) + 1
      /\ loading' = "find" => module' >= 1 /\ module' \in DOMAIN MODULES
  <2>1. \A j \in 1 .. 1 - 1 : j \in DOMAIN MODULES /\ MODULES[j] \in enabled =>
           MODULES[j] \in installed \cap booted'
    OBVIOUS
  <2>2. QED
    BY <1>1, <1>2, <1>3, <2>1, GoToKeeps
<1>5. LoaderTypeOK'
  BY <1>1, <1>2, <1>4 DEF LoaderTypeOK, Stages
<1>6. InstalledIsComplete' /\ MergeAgrees' /\ LinksAgree'
  BY <1>1, <1>2, <1>4 DEF InstalledIsComplete, MergeAgrees, LinksAgree
<1>7. InstallsAgree'
  <2>1. \A i \in DOMAIN MODULES : ~Called(i)
    BY <1>2 DEF Called, AtHooks
  <2>2. QED
    BY <1>1, <1>2, <1>4, <2>1 DEF InstallsAgree
<1>8. QED
  BY <1>4, <1>5, <1>6, <1>7 DEF LoaderInv

\* A module is looked for, installed and stamped.
LEMMA InstallStepsKeep ==
  ASSUME LoaderInv, NEW m \in Current, FindInstall(m) \/ OnInstall(m) \/ StampInstall(m)
  PROVE  LoaderInv'
<1>1. LoaderTypeOK /\ InstalledIsComplete /\ MergeAgrees /\ LinksAgree /\ HooksAgree /\ InstallsAgree
  BY DEF LoaderInv
<1>2. /\ permissions' = permissions /\ links' = links /\ roleRows' = roleRows /\ ensured' = ensured
      /\ enabled' = enabled /\ boots' = boots /\ merged' = merged /\ seen' = seen
      /\ registered' = registered /\ booted' = booted /\ cut' = cut
      /\ module' = module /\ code' = code /\ faults' = faults
      /\ loading \in {"find", "install", "stamp"} /\ loading' \in {"install", "stamp", "boot"}
  BY DEF FindInstall, OnInstall, StampInstall, stored, memory, ghosts, place
<1>3. m \in Modules /\ module \in DOMAIN MODULES /\ m = MODULES[module]
  BY DEF Current
<1>4. \A i \in DOMAIN MODULES : i = module <=> MODULES[i] = m
  BY <1>3, ModulePlaces
<1>5. MergeAgrees' /\ LinksAgree'
  BY <1>1, <1>2 DEF MergeAgrees, LinksAgree
<1>6. \A i \in DOMAIN MODULES : MODULES[i] \in Modules /\ i \in Nat /\ module \in Nat
  BY <1>3, ModulePlaces
<1>7. CASE FindInstall(m)
  <2>1. /\ loading = "find" /\ loading' = IF m \in installed THEN "boot" ELSE "install"
        /\ installed' = installed /\ installs' = installs /\ completed' = completed
    BY <1>7 DEF FindInstall, stored, ghosts
  <2>2. LoaderTypeOK' /\ InstalledIsComplete'
    BY <1>1, <1>2, <2>1 DEF LoaderTypeOK, Stages, InstalledIsComplete
  <2>3. HooksAgree'
    BY <1>1, <1>2, <1>3, <2>1 DEF HooksAgree, AtHooks
  <2>4. InstallsAgree'
    BY <1>1, <1>2, <2>1 DEF InstallsAgree, Called, AtHooks
  <2>5. QED
    BY <1>5, <2>2, <2>3, <2>4 DEF LoaderInv
<1>8. CASE OnInstall(m)
  <2>1. /\ loading = "install" /\ loading' = "stamp" /\ installed' = installed
        /\ installs' = [installs EXCEPT ![m] = @ + 1] /\ completed' = completed \cup {m}
    BY <1>8 DEF OnInstall, stored
  <2>2. /\ installs \in [Modules -> 0 .. LastBoot] /\ cut \in [Modules -> 0 .. LastBoot]
        /\ boots \in 1 .. LastBoot /\ LastBoot \in Nat
    BY <1>1, ModuleAssumption DEF LoaderTypeOK
  <2>3. installs[m] < boots /\ installs[m] <= cut[m] /\ cut[m] < boots /\ m \notin installed
    <3>1. m \notin installed
      BY <1>1, <1>3, <2>1 DEF HooksAgree
    <3>2. ~Called(module)
      BY <1>3, <1>6, <2>1 DEF Called, AtHooks
    <3>3. QED
      BY <1>1, <1>3, <2>1, <2>2, <3>1, <3>2 DEF InstallsAgree
  <2>4. /\ installs' \in [Modules -> 0 .. LastBoot] /\ installs'[m] = installs[m] + 1
        /\ \A k \in Modules : k # m => installs'[k] = installs[k]
    <3>1. installs[m] + 1 \in 0 .. LastBoot
      BY <1>3, <2>2, <2>3
    <3>2. QED
      BY <1>3, <2>1, <2>2, <3>1
  <2>5. LoaderTypeOK' /\ InstalledIsComplete'
    BY <1>1, <1>2, <1>3, <2>1, <2>4 DEF LoaderTypeOK, Stages, InstalledIsComplete
  <2>6. HooksAgree'
    BY <1>1, <1>2, <1>3, <2>1 DEF HooksAgree, AtHooks
  <2>7. InstallsAgree'
    <3>1. ASSUME NEW i \in DOMAIN MODULES
          PROVE  LET k == MODULES[i] IN
            /\ installs'[k] <= cut[k] + IF k \in installed \/ i = module THEN 1 ELSE 0
            /\ installs'[k] <= boots /\ (installs'[k] < boots \/ Called(i)')
            /\ cut[k] < boots
      <4>1. CASE i = module
        <5>1. Called(i)'
          BY <1>2, <2>1, <4>1 DEF Called, AtHooks
        <5>2. QED
          BY <1>3, <2>2, <2>3, <2>4, <4>1, <5>1
      <4>2. CASE i # module
        <5>1. /\ MODULES[i] # m /\ installs'[MODULES[i]] = installs[MODULES[i]]
          BY <1>4, <1>6, <2>4, <4>2
        <5>2. Called(i) => Called(i)'
          BY <1>2, <2>1, <4>2 DEF Called, AtHooks
        <5>3. QED
          BY <1>1, <2>1, <4>2, <5>1, <5>2 DEF InstallsAgree
      <4>3. QED
        BY <4>1, <4>2
    <3>2. \A i \in DOMAIN MODULES : cut[MODULES[i]] <= boots
      BY <1>1 DEF InstallsAgree
    <3>3. QED
      BY <1>2, <2>1, <3>1, <3>2 DEF InstallsAgree
  <2>8. QED
    BY <1>5, <2>5, <2>6, <2>7 DEF LoaderInv
<1>9. CASE StampInstall(m)
  <2>1. /\ loading = "stamp" /\ loading' = "boot" /\ installed' = installed \cup {m}
        /\ installs' = installs /\ completed' = completed
    BY <1>9 DEF StampInstall, ghosts
  <2>2. m \in completed
    BY <1>1, <1>3, <2>1 DEF HooksAgree
  <2>3. LoaderTypeOK' /\ InstalledIsComplete'
    BY <1>1, <1>2, <1>3, <2>1, <2>2 DEF LoaderTypeOK, Stages, InstalledIsComplete
  <2>4. HooksAgree'
    BY <1>1, <1>2, <1>3, <2>1 DEF HooksAgree, AtHooks
  <2>5. InstallsAgree'
    <3>1. \A i \in DOMAIN MODULES :
            /\ MODULES[i] \in installed' <=> (MODULES[i] \in installed \/ i = module)
            /\ Called(i) => Called(i)'
      BY <1>2, <1>4, <2>1 DEF Called, AtHooks
    <3>2. QED
      BY <1>1, <1>2, <2>1, <3>1 DEF InstallsAgree
  <2>6. QED
    BY <1>5, <2>3, <2>4, <2>5 DEF LoaderInv
<1>10. QED
  BY <1>7, <1>8, <1>9
\* The hook of every boot, and on to the next module.
LEMMA OnBootKeeps ==
  ASSUME LoaderInv, NEW m \in Current, OnBoot(m)
  PROVE  LoaderInv'
<1>1. LoaderTypeOK /\ InstalledIsComplete /\ MergeAgrees /\ LinksAgree /\ HooksAgree /\ InstallsAgree
  BY DEF LoaderInv
<1>2. /\ permissions' = permissions /\ links' = links /\ roleRows' = roleRows
      /\ installed' = installed /\ ensured' = ensured
      /\ enabled' = enabled /\ boots' = boots /\ merged' = merged /\ seen' = seen
      /\ registered' = registered /\ installs' = installs /\ cut' = cut /\ completed' = completed
      /\ code' = code /\ faults' = faults
      /\ loading = "boot" /\ booted' = booted \cup {m} /\ GoTo(EnabledFrom(module + 1))
  BY DEF OnBoot, stored, ghosts
<1>3. m \in Modules /\ module \in DOMAIN MODULES /\ m = MODULES[module] /\ module \in Nat \ {0}
  BY ModulePlaces DEF Current
<1>4. m \in enabled /\ m \in installed /\ registered = enabled /\ \A k \in enabled : CodesOf[k] \subseteq merged
  BY <1>1, <1>2, <1>3 DEF HooksAgree, AtHooks
<1>5. \A j \in 1 .. (module + 1) - 1 : j \in DOMAIN MODULES /\ MODULES[j] \in enabled =>
        MODULES[j] \in installed \cap booted'
  <2>1. ASSUME NEW j \in 1 .. (module + 1) - 1, MODULES[j] \in enabled
        PROVE  MODULES[j] \in installed \cap booted'
    <3>1. CASE j = module
      BY <1>2, <1>3, <1>4, <3>1
    <3>2. CASE j # module
      <4>1. j \in 1 .. module - 1
        BY <1>3, <3>2
      <4>2. QED
        BY <1>1, <1>2, <2>1, <4>1 DEF HooksAgree, AtHooks
    <3>3. QED
      BY <3>1, <3>2
  <2>2. QED
    BY <2>1
<1>6. /\ HooksAgree' /\ loading' \in {"find", "providers"}
      /\ module' \in 1 .. Len(MODULES) + 1
      /\ loading' = "find" => module' >= module + 1 /\ module' \in DOMAIN MODULES
  <2>1. module + 1 \in Nat \ {0} /\ registered' = enabled
    BY <1>2, <1>3, <1>4
  <2>2. QED
    BY <1>1, <1>2, <1>4, <1>5, <2>1, GoToKeeps
<1>7. LoaderTypeOK'
  BY <1>1, <1>2, <1>3, <1>6 DEF LoaderTypeOK, Stages
<1>8. InstalledIsComplete' /\ MergeAgrees' /\ LinksAgree'
  BY <1>1, <1>2, <1>4, <1>6 DEF InstalledIsComplete, MergeAgrees, LinksAgree
<1>9. InstallsAgree'
  <2>1. ASSUME NEW i \in DOMAIN MODULES, Called(i) PROVE Called(i)'
    <3>1. i \in Nat /\ module' \in Nat
      BY <1>6, ModulePlaces
    <3>2. i <= module
      BY <1>2, <1>3, <2>1, <3>1 DEF Called, AtHooks
    <3>3. QED
      BY <1>3, <1>6, <3>1, <3>2 DEF Called, AtHooks
  <2>2. QED
    BY <1>1, <1>2, <1>6, <2>1 DEF InstallsAgree
<1>10. QED
  BY <1>6, <1>7, <1>8, <1>9 DEF LoaderInv

\* The providers' rows, after which requests are served.
LEMMA ProvidersKeep ==
  ASSUME LoaderInv, StartServing \/ \E d \in Defaults : EnsureDefault(d)
  PROVE  LoaderInv'
<1>1. LoaderTypeOK /\ InstalledIsComplete /\ MergeAgrees /\ LinksAgree /\ HooksAgree /\ InstallsAgree
  BY DEF LoaderInv
<1>2. /\ permissions' = permissions /\ links' = links /\ roleRows' = roleRows
      /\ installed' = installed
      /\ enabled' = enabled /\ boots' = boots /\ merged' = merged /\ seen' = seen
      /\ registered' = registered /\ booted' = booted
      /\ installs' = installs /\ cut' = cut /\ completed' = completed
      /\ module' = module /\ code' = code /\ faults' = faults
      /\ loading = "providers" /\ loading' \in {"providers", "serving"}
      /\ ensured \subseteq ensured' /\ ensured' \subseteq Defaults
      /\ loading' = "serving" => \A d \in Defaults : DefaultsOf[d] \in enabled => d \in ensured'
  BY <1>1 DEF StartServing, EnsureDefault, stored, memory, ghosts, place, LoaderTypeOK
<1>3. LoaderTypeOK'
  BY <1>1, <1>2 DEF LoaderTypeOK, Stages
<1>4. InstalledIsComplete' /\ MergeAgrees' /\ LinksAgree'
  BY <1>1, <1>2 DEF InstalledIsComplete, MergeAgrees, LinksAgree
<1>5. HooksAgree'
  BY <1>1, <1>2 DEF HooksAgree, AtHooks
<1>6. InstallsAgree'
  BY <1>1, <1>2 DEF InstallsAgree, Called, AtHooks
<1>7. QED
  BY <1>3, <1>4, <1>5, <1>6 DEF LoaderInv

\* However a process ends: an onInstall that had begun is counted as called and as cut off.
LEMMA EndsKeeps ==
  ASSUME LoaderInv, NEW begun \in BOOLEAN, begun => loading = "install", loading # "down",
         Ends(begun)
  PROVE  LoaderInv'
<1>1. LoaderTypeOK /\ InstalledIsComplete /\ MergeAgrees /\ LinksAgree /\ HooksAgree /\ InstallsAgree
  BY DEF LoaderInv
<1>2. /\ permissions' = permissions /\ links' = links /\ roleRows' = roleRows
      /\ installed' = installed /\ ensured' = ensured
      /\ enabled' = enabled /\ boots' = boots /\ completed' = completed /\ faults' = faults
      /\ loading' = "down" /\ module' = 1 /\ code' = None
      /\ merged' = {} /\ seen' = {} /\ registered' = {} /\ booted' = {}
      /\ installs' = [m \in Modules |-> installs[m] + IF begun /\ m \in Current THEN 1 ELSE 0]
      /\ cut' = [m \in Modules |->
                   cut[m] + IF m \in Current \ installed /\ (begun \/ loading = "stamp")
                            THEN 1 ELSE 0]
  BY DEF Ends, stored
<1>3. /\ installs \in [Modules -> 0 .. LastBoot] /\ cut \in [Modules -> 0 .. LastBoot]
      /\ boots \in 1 .. LastBoot /\ LastBoot \in Nat
  BY <1>1, ModuleAssumption DEF LoaderTypeOK
<1>4. ASSUME NEW i \in DOMAIN MODULES
      PROVE  LET m == MODULES[i] IN
        /\ m \in Modules /\ installs'[m] \in Nat /\ cut'[m] \in Nat
        /\ installs'[m] <= cut'[m] + IF m \in installed THEN 1 ELSE 0
        /\ installs'[m] <= boots /\ cut'[m] <= boots
  <2>1. PICK m : m = MODULES[i]
    OBVIOUS
  <2>2. m \in Modules /\ installs[m] \in Nat /\ cut[m] \in Nat /\ boots \in Nat
    BY <1>3, <2>1, ModulePlaces
  <2>3. /\ installs[m] <= cut[m] + IF m \in installed \/ (loading = "stamp" /\ i = module) THEN 1 ELSE 0
        /\ installs[m] <= boots /\ (installs[m] < boots \/ Called(i))
        /\ cut[m] < boots
    BY <1>1, <2>1 DEF InstallsAgree
  <2>4. /\ installs'[m] = installs[m] + IF begun /\ m \in Current THEN 1 ELSE 0
        /\ cut'[m] = cut[m] + IF m \in Current \ installed /\ (begun \/ loading = "stamp")
                              THEN 1 ELSE 0
    BY <1>2, <2>2
  <2>5. m \in Current <=> i = module
    BY <2>1, <2>2, ModulePlaces DEF Current
  <2>6. loading \in {"install", "stamp"} /\ i = module => m \notin installed
    BY <1>1, <2>1 DEF HooksAgree
  <2>7. loading = "install" /\ i = module => ~Called(i)
    <3>1. i \in Nat
      BY ModulePlaces
    <3>2. QED
      BY <3>1 DEF Called, AtHooks
  <2>8. CASE begun /\ i = module
    BY <2>1, <2>2, <2>3, <2>4, <2>5, <2>6, <2>7, <2>8
  <2>9. CASE loading = "stamp" /\ i = module
    BY <2>1, <2>2, <2>3, <2>4, <2>5, <2>6, <2>9
  <2>10. CASE ~(begun /\ i = module) /\ ~(loading = "stamp" /\ i = module)
    BY <2>1, <2>2, <2>3, <2>4, <2>5, <2>10
  <2>11. QED
    BY <2>8, <2>9, <2>10
<1>5. LoaderTypeOK'
  <2>1. \A m \in Modules : installs'[m] \in 0 .. LastBoot /\ cut'[m] \in 0 .. LastBoot
    <3>1. ASSUME NEW m \in Modules PROVE installs'[m] \in 0 .. LastBoot /\ cut'[m] \in 0 .. LastBoot
      <4>1. PICK i \in DOMAIN MODULES : m = MODULES[i]
        BY ModulePlaces
      <4>2. QED
        BY <1>3, <1>4, <4>1
    <3>2. QED
      BY <3>1
  <2>2. installs' \in [Modules -> 0 .. LastBoot] /\ cut' \in [Modules -> 0 .. LastBoot]
    <3>1. /\ installs' = [m \in Modules |-> installs'[m]]
          /\ cut' = [m \in Modules |-> cut'[m]]
      BY <1>2
    <3>2. QED
      BY <2>1, <3>1
  <2>3. 1 \in 1 .. Len(MODULES) + 1
    BY ModulePlaces
  <2>4. QED
    BY <1>1, <1>2, <2>2, <2>3 DEF LoaderTypeOK, Stages
<1>6. InstalledIsComplete' /\ MergeAgrees' /\ LinksAgree'
  BY <1>1, <1>2 DEF InstalledIsComplete, MergeAgrees, LinksAgree
<1>7. HooksAgree'
  BY <1>2 DEF HooksAgree, AtHooks
<1>8. InstallsAgree'
  BY <1>2, <1>4 DEF InstallsAgree, Called
<1>9. QED
  BY <1>5, <1>6, <1>7, <1>8 DEF LoaderInv

\* A new process knows nothing, and has called no hook.
LEMMA RestartKeeps ==
  ASSUME LoaderInv, Restart
  PROVE  LoaderInv'
<1>1. LoaderTypeOK /\ InstalledIsComplete /\ MergeAgrees /\ LinksAgree /\ HooksAgree /\ InstallsAgree
  BY DEF LoaderInv
<1>2. /\ permissions' = permissions /\ links' = links /\ roleRows' = roleRows
      /\ installed' = installed /\ ensured' = ensured /\ merged' = merged /\ seen' = seen
      /\ registered' = registered /\ booted' = booted
      /\ installs' = installs /\ cut' = cut /\ completed' = completed
      /\ module' = module /\ code' = code /\ faults' = faults
      /\ loading = "down" /\ boots < LastBoot /\ loading' = "roles" /\ boots' = boots + 1
      /\ enabled' \in SUBSET Modules
  BY <1>1 DEF Restart, stored, ghosts, place, LoaderTypeOK
<1>3. boots \in Nat /\ LastBoot \in Nat
  BY <1>1, ModuleAssumption DEF LoaderTypeOK
<1>4. LoaderTypeOK'
  BY <1>1, <1>2, <1>3 DEF LoaderTypeOK, Stages
<1>5. InstalledIsComplete' /\ MergeAgrees' /\ LinksAgree' /\ HooksAgree'
  BY <1>1, <1>2 DEF InstalledIsComplete, MergeAgrees, LinksAgree, HooksAgree, AtHooks
<1>6. InstallsAgree'
  <2>1. \A i \in DOMAIN MODULES : installs[MODULES[i]] \in Nat /\ cut[MODULES[i]] \in Nat
    BY <1>1, ModulePlaces DEF LoaderTypeOK
  <2>2. ASSUME NEW i \in DOMAIN MODULES
        PROVE  LET m == MODULES[i] IN
          /\ installs[m] <= cut[m] + IF m \in installed THEN 1 ELSE 0
          /\ installs[m] < boots + 1 /\ cut[m] < boots + 1
    BY <1>1, <1>2, <1>3, <2>1 DEF InstallsAgree
  <2>3. QED
    BY <1>2, <1>3, <2>1, <2>2 DEF InstallsAgree
<1>7. QED
  BY <1>4, <1>5, <1>6 DEF LoaderInv

LEMMA LoaderStarts == LoaderInit => LoaderInv
<1> SUFFICES ASSUME LoaderInit PROVE LoaderInv
  OBVIOUS
<1>1. LoaderTypeOK
  BY ModuleAssumption, ModulePlaces DEF LoaderInit, LoaderTypeOK, Stages
<1>2. InstalledIsComplete /\ MergeAgrees /\ LinksAgree /\ HooksAgree
  BY DEF LoaderInit, InstalledIsComplete, MergeAgrees, LinksAgree, HooksAgree, AtHooks
<1>3. InstallsAgree
  BY ModulePlaces DEF LoaderInit, InstallsAgree
<1>4. QED
  BY <1>1, <1>2, <1>3 DEF LoaderInv

LEMMA LoaderSteps == LoaderInv /\ [LoaderNext]_loaderVars => LoaderInv'
<1> SUFFICES ASSUME LoaderInv, [LoaderNext]_loaderVars PROVE LoaderInv'
  OBVIOUS
<1>1. CASE SeedRoles \/ RegisterModules \/ \E r \in RoleNames : GrantRole(r)
  BY <1>1, EarlyStepsKeep
<1>2. CASE LinkRoles \/ \E c \in Codes : UpsertPermission(c)
  BY <1>2, PermissionsKeep
<1>3. CASE RegisterTypes
  BY <1>3, RegisterTypesKeeps
<1>4. ASSUME NEW m \in Current, FindInstall(m) \/ OnInstall(m) \/ StampInstall(m) PROVE LoaderInv'
  BY <1>4, InstallStepsKeep
<1>5. ASSUME NEW m \in Current, OnBoot(m) PROVE LoaderInv'
  BY <1>5, OnBootKeeps
<1>6. CASE StartServing \/ \E d \in Defaults : EnsureDefault(d)
  BY <1>6, ProvidersKeep
<1>7. ASSUME NEW m \in Current, StampAgain(m) PROVE LoaderInv'
  BY <1>7, EndsKeeps DEF StampAgain
<1>8. CASE Fails
  <2>1. (loading = "install") \in BOOLEAN /\ loading # "down" /\ Ends(loading = "install")
    BY <1>8 DEF Fails
  <2>2. PICK begun \in BOOLEAN : begun = (loading = "install")
    OBVIOUS
  <2>3. Ends(begun) /\ (begun => loading = "install")
    BY <2>1, <2>2
  <2>4. QED
    BY <2>1, <2>2, <2>3, EndsKeeps
<1>9. CASE Dies
  <2>1. PICK begun \in {FALSE, loading = "install"} : Ends(begun)
    BY <1>9 DEF Dies
  <2>2. begun \in BOOLEAN /\ (begun => loading = "install") /\ loading # "down"
    BY <1>9, <2>1 DEF Dies
  <2>3. QED
    BY <2>1, <2>2, EndsKeeps
<1>10. CASE Redeploy
  BY <1>10, EndsKeeps DEF Redeploy
<1>11. CASE Restart
  BY <1>11, RestartKeeps
<1>12. CASE UNCHANGED loaderVars
  <2>1. /\ permissions' = permissions /\ links' = links /\ roleRows' = roleRows
        /\ installed' = installed /\ ensured' = ensured /\ enabled' = enabled /\ boots' = boots
        /\ merged' = merged /\ seen' = seen /\ registered' = registered /\ booted' = booted
        /\ installs' = installs /\ cut' = cut /\ completed' = completed /\ loading' = loading
        /\ module' = module /\ code' = code
    BY <1>12 DEF loaderVars, stored, memory, ghosts, place
  <2>2. LoaderTypeOK' /\ InstalledIsComplete' /\ MergeAgrees' /\ LinksAgree' /\ HooksAgree'
    BY <2>1 DEF LoaderInv, LoaderTypeOK, InstalledIsComplete, MergeAgrees, LinksAgree, HooksAgree, AtHooks
  <2>3. InstallsAgree'
    BY <2>1 DEF LoaderInv, InstallsAgree, Called, AtHooks
  <2>4. QED
    BY <2>2, <2>3 DEF LoaderInv
<1>13. QED
  BY <1>1, <1>2, <1>3, <1>4, <1>5, <1>6, <1>7, <1>8, <1>9, <1>10, <1>11, <1>12 DEF LoaderNext, Boot

\* What serves is whole, and what was installed was so once.
LEMMA ServesInv == LoaderInv => ModulesAreWhole
<1> SUFFICES ASSUME LoaderInv PROVE ModulesAreWhole
  OBVIOUS
<1>1. LoaderTypeOK /\ InstalledIsComplete /\ MergeAgrees /\ LinksAgree /\ HooksAgree /\ InstallsAgree
  BY DEF LoaderInv
<1>2. InstalledOnce
  <2>1. ASSUME NEW m \in Modules PROVE installs[m] <= 1 + cut[m]
    <3>1. PICK i \in DOMAIN MODULES : m = MODULES[i]
      BY ModulePlaces
    <3>2. installs[m] \in Nat /\ cut[m] \in Nat
      BY <1>1 DEF LoaderTypeOK
    <3>3. installs[m] <= cut[m] + IF m \in installed \/ (loading = "stamp" /\ i = module) THEN 1 ELSE 0
      BY <1>1, <3>1 DEF InstallsAgree
    <3>4. QED
      BY <3>2, <3>3
  <2>2. QED
    BY <2>1 DEF InstalledOnce
<1>3. ServesWhole
  BY <1>1 DEF ServesWhole, HooksAgree, MergeAgrees
<1>4. LinksComplete
  BY <1>1 DEF LinksComplete, LinksAgree, HooksAgree
<1>5. QED
  BY <1>1, <1>2, <1>3, <1>4 DEF ModulesAreWhole

\* (core/module-registry) Whatever the modules, their permissions and roles, and however many
\* boots fail or die at whichever step: a module is installed once and wholly, and an API that
\* serves has all of its enabled modules with their permissions linked.
THEOREM ModulesAreAlwaysWhole == LoaderSpec => []ModulesAreWhole
<1>1. LoaderInit => LoaderInv
  BY LoaderStarts
<1>2. LoaderInv /\ [LoaderNext]_loaderVars => LoaderInv'
  BY LoaderSteps
<1>3. LoaderInv => ModulesAreWhole
  BY ServesInv
<1>4. QED
  BY <1>1, <1>2, <1>3, PTL DEF LoaderSpec

\* What a module contributes is not that of another.
LEMMA CodesAreApart ==
  ASSUME NEW m \in Modules, NEW k \in Modules, m # k
  PROVE  CodesOf[m] \cap CodesOf[k] = {}
<1>1. PICK i \in DOMAIN MODULES, j \in DOMAIN MODULES : m = MODULES[i] /\ k = MODULES[j] /\ i # j
  BY ModulePlaces
<1>2. QED
  BY <1>1, ModuleAssumption

\* (module-loader.service.ts:25-27) Whatever the boots: a module that is disabled contributes
\* nothing, and what it contributed while it was enabled stays.
THEOREM DisabledModulesAreLeftAlone == LoaderSpec => DisabledIsLeftAlone
<1>1. LoaderInit => LoaderInv
  BY LoaderStarts
<1>2. LoaderInv /\ [LoaderNext]_loaderVars => LoaderInv'
  BY LoaderSteps
<1>3. LoaderInv /\ [LoaderNext]_loaderVars =>
        [\A m \in Modules \ enabled :
           /\ m \notin booted' \cup registered'
           /\ installs'[m] = installs[m] /\ (m \in installed' <=> m \in installed)
           /\ permissions' \cap CodesOf[m] = permissions \cap CodesOf[m]]_loaderVars
  <2> SUFFICES ASSUME LoaderInv, LoaderNext, NEW m \in Modules \ enabled
               PROVE  /\ m \notin booted' \cup registered'
                      /\ installs'[m] = installs[m] /\ (m \in installed' <=> m \in installed)
                      /\ permissions' \cap CodesOf[m] = permissions \cap CodesOf[m]
    OBVIOUS
  <2>1. LoaderTypeOK /\ MergeAgrees /\ HooksAgree
    BY DEF LoaderInv
  <2>2. m \notin booted /\ m \notin registered
    <3>1. loading \in Stages
      BY <2>1 DEF LoaderTypeOK
    <3>2. registered = {} \/ registered = enabled
      BY <2>1, <3>1 DEF MergeAgrees, HooksAgree, AtHooks, Stages
    <3>3. QED
      BY <2>1, <3>2 DEF MergeAgrees
  <2>3. ASSUME loading \in {"find", "install", "stamp", "boot"} PROVE m \notin Current
    BY <2>1, <2>3 DEF HooksAgree, AtHooks, Current
  <2>4. CASE SeedRoles \/ RegisterModules \/ LinkRoles \/ StartServing \/ Restart
             \/ (\E d \in Defaults : EnsureDefault(d)) \/ (\E r \in RoleNames : GrantRole(r))
    BY <2>2, <2>4 DEF SeedRoles, RegisterModules, LinkRoles, StartServing, Restart, EnsureDefault, GrantRole,
       stored, memory, ghosts
  <2>5. CASE RegisterTypes
    BY <2>2, <2>5 DEF RegisterTypes, stored, ghosts, getEnabledModules
  <2>6. ASSUME NEW c \in Codes, UpsertPermission(c)
        PROVE  /\ m \notin booted' \cup registered'
               /\ installs'[m] = installs[m] /\ (m \in installed' <=> m \in installed)
               /\ permissions' \cap CodesOf[m] = permissions \cap CodesOf[m]
    <3>1. /\ booted' = booted /\ registered' = registered /\ installs' = installs
          /\ installed' = installed /\ permissions' = permissions \cup {c} /\ c \in ToMerge
      BY <2>6 DEF UpsertPermission, ghosts
    <3>2. PICK k \in enabled : c \in CodesOf[k]
      BY <3>1 DEF ToMerge, getEnabledModules
    <3>3. k \in Modules /\ k # m
      BY <2>1, <3>2 DEF LoaderTypeOK
    <3>4. c \notin CodesOf[m]
      BY <3>2, <3>3, CodesAreApart
    <3>5. QED
      BY <2>2, <3>1, <3>4
  <2>7. ASSUME NEW k \in Current,
               FindInstall(k) \/ OnInstall(k) \/ StampInstall(k) \/ OnBoot(k)
        PROVE  /\ m \notin booted' \cup registered'
               /\ installs'[m] = installs[m] /\ (m \in installed' <=> m \in installed)
               /\ permissions' \cap CodesOf[m] = permissions \cap CodesOf[m]
    <3>1. loading \in {"find", "install", "stamp", "boot"}
      BY <2>7 DEF FindInstall, OnInstall, StampInstall, OnBoot
    <3>2. k # m
      BY <2>3, <3>1
    <3>3. installs \in [Modules -> 0 .. LastBoot]
      BY <2>1 DEF LoaderTypeOK
    <3>4. QED
      BY <2>2, <2>7, <3>2, <3>3 DEF FindInstall, OnInstall, StampInstall, OnBoot, stored, memory, ghosts
  <2>8. ASSUME NEW begun \in BOOLEAN, begun => loading = "install", Ends(begun)
        PROVE  /\ m \notin booted' \cup registered'
               /\ installs'[m] = installs[m] /\ (m \in installed' <=> m \in installed)
               /\ permissions' \cap CodesOf[m] = permissions \cap CodesOf[m]
    <3>1. installs'[m] = installs[m] + IF begun /\ m \in Current THEN 1 ELSE 0
      BY <2>8 DEF Ends
    <3>2. installs[m] \in Nat /\ ~(begun /\ m \in Current)
      BY <2>1, <2>3, <2>8 DEF LoaderTypeOK
    <3>3. installs'[m] = installs[m]
      BY <3>1, <3>2
    <3>4. QED
      BY <2>8, <3>3 DEF Ends, stored
  <2>9. CASE Fails
    <3>1. PICK begun \in BOOLEAN : begun = (loading = "install")
      OBVIOUS
    <3>2. Ends(begun) /\ (begun => loading = "install")
      BY <2>9, <3>1 DEF Fails
    <3>3. QED
      BY <2>8, <3>1, <3>2
  <2>10. CASE Dies
    <3>1. PICK begun \in {FALSE, loading = "install"} : Ends(begun)
      BY <2>10 DEF Dies
    <3>2. begun \in BOOLEAN /\ (begun => loading = "install")
      BY <3>1
    <3>3. QED
      BY <2>8, <3>1, <3>2
  <2>11. CASE Redeploy \/ \E k \in Current : StampAgain(k)
    BY <2>8, <2>11 DEF Redeploy, StampAgain
  <2>12. QED
    BY <2>4, <2>5, <2>6, <2>7, <2>9, <2>10, <2>11 DEF LoaderNext, Boot
<1>4. QED
  BY <1>1, <1>2, <1>3, PTL DEF LoaderSpec, DisabledIsLeftAlone


-----------------------------------------------------------------------------
(***************************************************************************)
(* Pages, for every set of rows and readers. PagesInv says that what a     *)
(* reader has been shown ends at the cursor: nothing below it, and all     *)
(* that was there from the beginning above it.                             *)
(***************************************************************************)
\* The order of every list: newest id first.
ByNewest == {p \in Ids \X Ids : p[1] > p[2]}

\* What a reader has been shown ends at the cursor: nothing below it was shown, and of what was
\* there from the beginning everything above it was.
ReadToCursor ==
  reading = "open" =>
    /\ cursor \in Ids
    /\ \A id \in Ids : shown[id] > 0 => id >= cursor
    /\ \A id \in meant : id >= cursor => shown[id] = 1
\* Who has opened no list means no rows; who has means rows that match.
MeantMatch ==
  IF list = None THEN reading = "closed" /\ meant = {}
  ELSE reading # "closed" /\ meant \subseteq Matching(list)

\* The inductive invariant.
PagesInv == PagesTypeOK /\ ShownOnce /\ NothingIsMissed /\ ReadToCursor /\ MeantMatch

LEMMA NewestOrders ==
  /\ IsFiniteSet(Ids) /\ \A S \in SUBSET Ids : IsFiniteSet(S) /\ Orders(ByNewest, S)
  /\ \A i, j \in Ids : <<i, j>> \in ByNewest <=> i > j
  /\ Ids \subseteq Nat
<1>1. Ids \subseteq Nat /\ IsFiniteSet(Ids)
  BY PageAssumption, FS_Interval DEF Ids
<1>2. \A i, j \in Ids : <<i, j>> \in ByNewest <=> i > j
  BY DEF ByNewest
<1>3. ASSUME NEW S \in SUBSET Ids PROVE Orders(ByNewest, S)
  BY <1>1, <1>2 DEF Orders
<1>4. QED
  BY <1>1, <1>2, <1>3, FS_Subset

LEMMA HighestIsForemost ==
  ASSUME NEW S \in SUBSET Ids, NEW n \in Nat
  PROVE  TheHighest(n, S) = Foremost(ByNewest, S, n)
<1>1. ASSUME NEW id \in S PROVE {h \in S : h > id} = Earlier(ByNewest, S, id)
  BY NewestOrders DEF Earlier
<1>2. QED
  BY <1>1 DEF TheHighest, Foremost

\* Rows that a list asks for are rows, and a row matches by what it is.
LEMMA MatchesAreRows == ASSUME NEW name PROVE Matching(name) \subseteq Rows /\ Rows \subseteq Ids
BY DEF Matching, findEntriesForWallet, findPaymentsForUser, findPayoutsForUser,
       findPaymentsForAdmin, findRefundsForAdmin, findPayoutsForAdmin, findAuditForAdmin,
       findNotifications, findUsersForAdmin, OwnedBy, Open, Rows

LEMMA MatchIsLocal ==
  ASSUME NEW name, NEW id \in Matching(name), item'[id] = item[id]
  PROVE  id \in Matching(name)'
BY DEF Matching, findEntriesForWallet, findPaymentsForUser, findPayoutsForUser,
       findPaymentsForAdmin, findRefundsForAdmin, findPayoutsForAdmin, findAuditForAdmin,
       findNotifications, findUsersForAdmin, OwnedBy, Open, Rows

LEMMA MinIs ==
  ASSUME NEW S \in SUBSET Ids, S # {}
  PROVE  Min(S) \in S /\ \A id \in S : Min(S) <= id
<1>1. IsFiniteSet(S) /\ \A i \in S : i \in Nat
  BY NewestOrders
<1>2. \E i \in S : \A j \in S : i <= j
  BY <1>1, LeastExists
<1>3. QED
  BY <1>2 DEF Min

\* A page has rows that match and lie below the cursor, each of which it has down to the next
\* cursor, or to the end if there is none.
LEMMA FetchedIs ==
  ASSUME NEW name, NEW from \in Ids \cup {None}
  PROVE  LET part == Fetch(name, from)
         IN /\ part.items \subseteq Below(Matching(name), from) /\ part.items \subseteq Ids
            /\ Cardinality(part.items) <= pageLimit
            /\ IF part.next = None THEN part.items = Below(Matching(name), from)
               ELSE /\ part.next \in part.items /\ \A id \in part.items : id >= part.next
                    /\ \A id \in Below(Matching(name), from) : id >= part.next => id \in part.items
<1> DEFINE B == Below(Matching(name), from)
           read == TheHighest(pageLimit + 1, B)
           items == TheHighest(pageLimit, read)
           next == NextCursor(read, items)
<1>1. B \in SUBSET Ids /\ pageLimit \in Nat /\ pageLimit + 1 \in Nat /\ pageLimit > 0
  BY MatchesAreRows, PageAssumption DEF Below
<1>2. Fetch(name, from).items = items /\ Fetch(name, from).next = next
  BY DEF Fetch
<1> HIDE DEF B
<1>3. read = Foremost(ByNewest, B, pageLimit + 1) /\ read \subseteq B /\ read \in SUBSET Ids
  BY <1>1, HighestIsForemost DEF Foremost
<1>4. items = Foremost(ByNewest, B, pageLimit) /\ items \subseteq read
  <2> HIDE DEF read
  <2>1. items = Foremost(ByNewest, read, pageLimit)
    BY <1>1, <1>3, HighestIsForemost
  <2>2. Orders(ByNewest, B) /\ IsFiniteSet(B)
    BY <1>1, NewestOrders
  <2>3. Foremost(ByNewest, read, pageLimit) = Foremost(ByNewest, B, pageLimit)
    BY <1>1, <1>3, <2>2, ForemostOfForemost
  <2>4. QED
    BY <2>1, <2>3 DEF Foremost
<1> HIDE DEF read, items
<1>5. Orders(ByNewest, B) /\ IsFiniteSet(B)
  BY <1>1, NewestOrders
<1>6. Cardinality(items) <= pageLimit
  BY <1>1, <1>4, <1>5, ForemostCount
<1>7. CASE items = read
  <2>1. items = B
    BY <1>1, <1>3, <1>4, <1>5, <1>7, NothingBeyond
  <2>2. next = None
    BY <1>7 DEF NextCursor
  <2>3. QED
    BY <1>1, <1>2, <1>6, <2>1, <2>2 DEF B
<1>8. CASE items # read
  <2>1. items # {}
    <3>1. SUFFICES ASSUME items = {} PROVE FALSE
      OBVIOUS
    <3>2. Foremost(ByNewest, B, pageLimit) # B
      BY <1>3, <1>4, <1>8, <3>1
    <3>3. Cardinality(items) = pageLimit
      BY <1>1, <1>4, <1>5, <3>2, ForemostIsFull
    <3>4. QED
      BY <1>1, <3>1, <3>3, FS_EmptySet
  <2>2. items \in SUBSET Ids
    BY <1>3, <1>4
  <2>3. next = Min(items) /\ Min(items) \in items /\ \A id \in items : Min(items) <= id
    BY <1>8, <2>1, <2>2, MinIs DEF NextCursor
  <2>4. next \in Ids /\ next # None
    BY <2>2, <2>3, PageAssumption
  <2>5. ASSUME NEW id \in B, id >= next PROVE id \in items
    <3>1. CASE id = next
      BY <2>3, <3>1
    <3>2. CASE id # next
      <4>1. id \in Ids /\ id > next
        <5>1. id \in Ids /\ id \in Nat /\ next \in Nat
          BY <1>1, <2>4, NewestOrders
        <5> HIDE DEF next
        <5>2. QED
          BY <5>1, <2>5, <3>2
      <4>2. <<id, next>> \in ByNewest
        BY <2>4, <4>1, NewestOrders
      <4>3. QED
        BY <1>1, <1>4, <1>5, <2>3, <4>2, ForemostIsFirst
    <3>3. QED
      BY <3>1, <3>2
  <2>6. \A id \in items : id >= next
    BY <2>2, <2>3, NewestOrders
  <2> HIDE DEF next
  <2>7. QED
    BY <1>2, <1>3, <1>4, <1>6, <2>2, <2>3, <2>4, <2>5, <2>6 DEF B
<1>9. QED
  BY <1>7, <1>8

LEMMA PagesStart == PagesInit => PagesInv
BY PageAssumption, FS_EmptySet DEF PagesInit, PagesInv, PagesTypeOK, ShownOnce, NothingIsMissed,
   ReadToCursor, MeantMatch, Free, Rows

\* A row that comes leaves the rows that are read as they are.
LEMMA ArrivalsKeep ==
  ASSUME PagesInv, TakeId \/ \E id \in Ids : CommitRow(id)
  PROVE  PagesInv'
<1> DEFINE Items == [Ids -> [owner : {Reader, Stranger, None}, open : BOOLEAN]]
           Comes(id) == /\ item[id] \in {Free, Uncommitted} /\ item' \in Items
                        /\ \A other \in Ids \ {id} : item'[other] = item[other]
<1>0. item \in Items
  BY DEF PagesInv, PagesTypeOK
<1>1. PICK id \in Ids : Comes(id)
  <2>1. CASE TakeId
    <3>1. PICK id \in Ids : item[id] = Free /\ item' = [item EXCEPT ![id] = Uncommitted]
      BY <2>1 DEF TakeId
    <3>2. Comes(id)
      BY <1>0, <3>1 DEF Free, Uncommitted
    <3>3. QED
      BY <3>2
  <2>2. CASE \E id \in Ids : CommitRow(id)
    <3>1. PICK id \in Ids : CommitRow(id)
      BY <2>2
    <3>2. Comes(id)
      BY <1>0, <3>1 DEF CommitRow, Free, Uncommitted
    <3>3. QED
      BY <3>2
  <2>3. QED
    BY <2>1, <2>2
<1>2. UNCHANGED <<list, cursor, page, shown, meant, reading, faults>>
  BY DEF TakeId, CommitRow
<1>3. id \notin Rows
  BY <1>1 DEF Rows, Free, Uncommitted
<1>4. meant \subseteq Rows /\ \A m \in meant : m \in Ids \ {id} /\ item'[m] = item[m]
  BY <1>1, <1>3 DEF PagesInv, PagesTypeOK, Rows
<1>5. meant \subseteq Rows'
  BY <1>4 DEF Rows
<1>6. list # None => meant \subseteq Matching(list)'
  <2>1. SUFFICES ASSUME list # None, NEW m \in meant PROVE m \in Matching(list)'
    OBVIOUS
  <2>2. PICK name : name = list
    OBVIOUS
  <2>3. m \in Matching(name) /\ item'[m] = item[m]
    BY <1>4, <2>1, <2>2 DEF PagesInv, MeantMatch
  <2>4. m \in Matching(name)'
    BY <2>3, MatchIsLocal
  <2>5. QED
    BY <1>2, <2>2, <2>4
<1>7. item' \in Items
  BY <1>1
<1>8. QED
  BY <1>2, <1>5, <1>6, <1>7
     DEF PagesInv, PagesTypeOK, ShownOnce, NothingIsMissed, ReadToCursor, MeantMatch

\* A row that changes is no longer meant if it no longer matches.
LEMMA ChangesKeep ==
  ASSUME PagesInv, NEW id \in Ids, ChangeRow(id)
  PROVE  PagesInv'
<1>1. /\ item' \in [Ids -> [owner : {Reader, Stranger, None}, open : BOOLEAN]]
      /\ \A other \in Ids : item'[other].owner = item[other].owner
  BY DEF ChangeRow, PagesInv, PagesTypeOK
<1>2. Rows' = Rows
  BY <1>1 DEF Rows
<1>3. /\ UNCHANGED <<list, cursor, page, shown, reading, faults>>
      /\ meant' \subseteq meant /\ (list # None => meant' \subseteq Matching(list)')
  BY DEF ChangeRow
<1>5. QED
  BY <1>1, <1>2, <1>3
     DEF PagesInv, PagesTypeOK, ShownOnce, NothingIsMissed, ReadToCursor, MeantMatch

\* A list that is opened shows its first page, of which nothing was shown before.
LEMMA OpenKeeps ==
  ASSUME PagesInv, NEW name \in Lists, OpenList(name)
  PROVE  PagesInv'
<1> DEFINE part == Fetch(name, None)
<1>1. /\ page' = part.items /\ cursor' = part.next
      /\ reading' = IF part.next = None THEN "done" ELSE "open"
      /\ shown' = [id \in Ids |-> IF id \in part.items THEN 1 ELSE 0]
      /\ list' = name /\ meant' = Matching(name) /\ UNCHANGED <<item, faults>>
  BY DEF OpenList, Show
<1>2. name # None
  BY PageAssumption
<1>3. /\ part.items \subseteq Ids /\ Cardinality(part.items) <= pageLimit
      /\ IF part.next = None THEN part.items = Matching(name)
         ELSE /\ part.next \in part.items /\ \A id \in part.items : id >= part.next
              /\ \A id \in Matching(name) : id >= part.next => id \in part.items
  BY FetchedIs DEF Below
<1>4. Matching(name) \subseteq Rows /\ Rows \subseteq Ids
  BY MatchesAreRows
<1>5. Rows' = Rows /\ Matching(name)' = Matching(name)
  BY <1>1 DEF Rows, Matching, findEntriesForWallet, findPaymentsForUser, findPayoutsForUser,
       findPaymentsForAdmin, findRefundsForAdmin, findPayoutsForAdmin, findAuditForAdmin,
       findNotifications, findUsersForAdmin, OwnedBy, Open
<1> HIDE DEF part
<1>6. PagesTypeOK'
  BY <1>1, <1>3, <1>4, <1>5 DEF PagesInv, PagesTypeOK
<1>7. ShownOnce' /\ NothingIsMissed'
  BY <1>1, <1>3, <1>4 DEF ShownOnce, NothingIsMissed
<1>8. ReadToCursor'
  <2>1. SUFFICES ASSUME reading' = "open" PROVE ReadToCursor'
    BY DEF ReadToCursor
  <2>2. part.next # None
    BY <1>1, <2>1
  <2>3. QED
    BY <1>1, <1>3, <1>4, <2>2 DEF ReadToCursor
<1>9. MeantMatch'
  BY <1>1, <1>2, <1>5 DEF MeantMatch
<1>10. QED
  BY <1>6, <1>7, <1>8, <1>9 DEF PagesInv

\* The next page lies below the cursor, where nothing was shown.
LEMMA NextPageKeeps == ASSUME PagesInv, TurnPage PROVE PagesInv'
<1> DEFINE part == Fetch(list, cursor)
<1>1. /\ page' = part.items /\ cursor' = part.next
      /\ reading' = IF part.next = None THEN "done" ELSE "open"
      /\ shown' = [id \in Ids |-> IF id \in part.items THEN shown[id] + 1 ELSE shown[id]]
      /\ UNCHANGED <<item, list, meant, faults>>
  BY DEF TurnPage, Show
<1>2. /\ cursor \in Ids /\ cursor # None /\ shown \in [Ids -> Nat]
      /\ \A id \in Ids : shown[id] > 0 => id >= cursor
      /\ \A id \in meant : id >= cursor => shown[id] = 1
      /\ meant \subseteq Matching(list) /\ meant \subseteq Rows /\ list # None
  BY PageAssumption DEF TurnPage, PagesInv, PagesTypeOK, ReadToCursor, MeantMatch
<1>3. /\ part.items \subseteq {id \in Matching(list) : id < cursor}
      /\ part.items \subseteq Ids /\ Cardinality(part.items) <= pageLimit
      /\ IF part.next = None THEN part.items = {id \in Matching(list) : id < cursor}
         ELSE /\ part.next \in part.items /\ \A id \in part.items : id >= part.next
              /\ \A id \in Matching(list) : (id < cursor /\ id >= part.next) => id \in part.items
  BY <1>2, FetchedIs DEF Below
<1>4. Matching(list) \subseteq Ids /\ Rows \subseteq Ids /\ Ids \subseteq Nat
  BY MatchesAreRows, NewestOrders
<1>5. Rows' = Rows /\ Matching(list)' = Matching(list)
  BY <1>1 DEF Rows, Matching, findEntriesForWallet, findPaymentsForUser, findPayoutsForUser,
       findPaymentsForAdmin, findRefundsForAdmin, findPayoutsForAdmin, findAuditForAdmin,
       findNotifications, findUsersForAdmin, OwnedBy, Open
<1> HIDE DEF part
\* What is on the page was not shown, and what was shown is not on it.
<1>6. ASSUME NEW id \in part.items PROVE shown[id] = 0
  <2>1. id \in Ids /\ id \in Nat /\ cursor \in Nat /\ id < cursor
    BY <1>2, <1>3, <1>4
  <2>2. shown[id] \in Nat /\ (shown[id] > 0 => id >= cursor)
    BY <1>2, <2>1
  <2>3. QED
    BY <2>1, <2>2
<1>7. shown' \in [Ids -> Nat]
  BY <1>1, <1>2
<1>8. PagesTypeOK'
  BY <1>1, <1>3, <1>5, <1>7 DEF PagesInv, PagesTypeOK
<1>9. ShownOnce'
  BY <1>1, <1>6 DEF PagesInv, ShownOnce
<1>10. \A id \in meant : (IF part.next = None THEN TRUE ELSE id >= part.next) => shown'[id] = 1
  <2>1. SUFFICES ASSUME NEW id \in meant, part.next # None => id >= part.next
                 PROVE  shown'[id] = 1
    OBVIOUS
  <2>2. id \in Ids /\ id \in Matching(list) /\ id \in Nat /\ cursor \in Nat
    BY <1>2, <1>4
  <2>3. CASE id >= cursor
    <3>1. shown[id] = 1 /\ id \notin part.items
      BY <1>2, <1>6, <2>3
    <3>2. QED
      BY <1>1, <2>2, <3>1
  <2>4. CASE id < cursor
    <3>1. id \in part.items
      BY <1>3, <2>1, <2>2, <2>4
    <3>2. QED
      BY <1>1, <1>6, <2>2, <3>1
  <2>5. QED
    BY <2>2, <2>3, <2>4
<1>11. NothingIsMissed'
  BY <1>1, <1>10 DEF NothingIsMissed
<1>12. ReadToCursor'
  <2>1. SUFFICES ASSUME reading' = "open" PROVE ReadToCursor'
    BY DEF ReadToCursor
  <2>2. part.next # None /\ part.next \in Ids /\ part.next < cursor
    BY <1>1, <1>3, <2>1
  <2>3. ASSUME NEW id \in Ids, shown'[id] > 0 PROVE id >= part.next
    <3>1. CASE id \in part.items
      BY <1>3, <2>2, <3>1
    <3>2. CASE id \notin part.items
      <4>1. id >= cursor
        BY <1>1, <1>2, <2>3, <3>2
      <4>2. id \in Nat /\ cursor \in Nat /\ part.next \in Nat
        BY <1>2, <1>4, <2>2
      <4>3. QED
        BY <2>2, <4>1, <4>2
    <3>3. QED
      BY <3>1, <3>2
  <2>4. QED
    BY <1>1, <1>10, <2>2, <2>3 DEF ReadToCursor
<1>13. MeantMatch'
  BY <1>1, <1>2, <1>5 DEF MeantMatch
<1>14. QED
  BY <1>8, <1>9, <1>11, <1>12, <1>13 DEF PagesInv

LEMMA PagesStep == PagesInv /\ [PagesNext]_pageVars => PagesInv'
<1>1. SUFFICES ASSUME PagesInv, [PagesNext]_pageVars PROVE PagesInv'
  OBVIOUS
<1>2. CASE TakeId \/ \E id \in Ids : CommitRow(id)
  BY <1>1, <1>2, ArrivalsKeep
<1>3. CASE \E id \in Ids : ChangeRow(id)
  BY <1>1, <1>3, ChangesKeep
<1>4. CASE \E name \in Lists : OpenList(name)
  BY <1>1, <1>4, OpenKeeps
<1>5. CASE TurnPage
  BY <1>1, <1>5, NextPageKeeps
<1>6. CASE UNCHANGED pageVars
  BY <1>1, <1>6 DEF pageVars, PagesInv, PagesTypeOK, ShownOnce, NothingIsMissed, ReadToCursor,
     MeantMatch, Matching, findEntriesForWallet, findPaymentsForUser, findPayoutsForUser,
     findPaymentsForAdmin, findRefundsForAdmin, findPayoutsForAdmin, findAuditForAdmin,
     findNotifications, findUsersForAdmin, OwnedBy, Open, Rows
<1>7. QED
  BY <1>1, <1>2, <1>3, <1>4, <1>5, <1>6 DEF PagesNext

\* (core/*: id lt cursor, limit + 1) Whatever is added, committed late or changed between two
\* pages, no row is shown twice, and who comes to the last page was shown every row that was
\* there from the beginning and still matches: the first part of ListsAreWhole.
THEOREM ListsShowEachRowOnce == PagesSpec => [](PagesTypeOK /\ ShownOnce /\ NothingIsMissed)
<1>1. PagesInv => PagesTypeOK /\ ShownOnce /\ NothingIsMissed
  BY DEF PagesInv
<1>2. QED
  BY <1>1, PagesStart, PagesStep, PTL DEF PagesSpec
===============================================================================
