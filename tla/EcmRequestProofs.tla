-------------------------- MODULE EcmRequestProofs --------------------------
(***************************************************************************)
(* The life of a request, for every number of readers and requests.        *)
(*                                                                         *)
(* AnsweredOnce: rc leaves E_UNHANDLED when, and only when, an answer is   *)
(* sent, and every handler that sends one tests rc first.  The test and    *)
(* the sending are steps apart, but all of them are steps of the one work  *)
(* thread of the client: while it is inside a handler nobody else writes   *)
(* rc.  Serial states that; it is inductive, AnsweredOnce alone is not.    *)
(*                                                                         *)
(* PendingServed and ForwardedOnce: between a reader's look at ecmcwcache  *)
(* and its forwarding or joining, and between a writer's answer and the    *)
(* serving of those that joined, other threads step.  Places1 says where a *)
(* request that has been passed to a reader is meanwhile: in the reader's  *)
(* queue, in its hands, at its server, or marked as waiting and about to   *)
(* be served (RInv).  AskedOnce needs, besides, that it waits for one      *)
(* other request only (Held).                                              *)
(*                                                                         *)
(* StagesInTurn and RefusedOnlyExhausted: TInv follows the stages of a     *)
(* request, what a scan of its answers has seen, and what the handler      *)
(* under way will do with it.  DoubleChecked: DInv traces every CW in the  *)
(* cache and in a job back to the reader that delivered it, and what       *)
(* send_dcw has counted to the readers it counted.                         *)
(*                                                                         *)
(* The refinement of EcmPromise: with JobsDue, that the jobs of a client   *)
(* name only what readers and peers have supplied, each step of EcmRequest *)
(* is one of the promise or changes nothing that it speaks of.             *)
(***************************************************************************)
EXTENDS EcmRequest, FiniteSetTheorems, TLAPS

Shapes ==
  /\ rc \in [Requests -> Codes]
  /\ sent \in [Requests -> Seq(Codes)]
  /\ DOMAIN work = Requests
  /\ DOMAIN jobs = Requests
  /\ DOMAIN client = Requests

Unanswered(q) == rc[q] = E_UNHANDLED /\ sent[q] = <<>>

Serial(q) ==
  /\ sent[q] # <<>> => Len(sent[q]) = 1 /\ rc[q] # E_UNHANDLED
  /\ "at" \in DOMAIN work[q]
  /\ work[q].at # "idle" => Unanswered(q)
  /\ client[q] = "new" => Unanswered(q) /\ work[q].at = "idle" /\ jobs[q] = <<>>

IInv == Shapes /\ \A q \in Requests : Serial(q)

\* What a handler of q may do to the answer of q: nothing, or send one to an
\* unanswered request, or overwrite the code of one that was not a CW.
Answers1(q) ==
  /\ rc' \in [Requests -> Codes]
  /\ sent' \in [Requests -> Seq(Codes)]
  /\ \A p \in Requests : p # q => rc'[p] = rc[p] /\ sent'[p] = sent[p]
  /\ sent'[q] # <<>> => Len(sent'[q]) = 1 /\ rc'[q] # E_UNHANDLED

-----------------------------------------------------------------------------
\* send_dcw on an unanswered request sends one code, or (double_check) none and
\* leaves it unanswered.
LEMMA SendDcwOnce ==
  ASSUME Shapes, NEW q \in Requests, Unanswered(q),
         NEW code \in Codes \ {E_UNHANDLED}, NEW src, SendDcw(q, code, src)
  PROVE  Answers1(q)
<1> DEFINE label == IF code = E_FOUND /\ src # NoReader /\ isPending[q][src]
                    THEN E_CACHE2 ELSE code
<1>1. label \in Codes /\ label # E_UNHANDLED
  BY DEF Codes, E_FOUND, E_CACHE2, E_UNHANDLED, E_CACHE1, E_CACHEEX, E_NOTFOUND, E_TIMEOUT, E_INVALID
<1>2. \/ /\ rc' = [rc EXCEPT ![q] = E_UNHANDLED]
         /\ sent' = [sent EXCEPT ![q] = sent[q]]
      \/ /\ rc' = [rc EXCEPT ![q] = label]
         /\ sent' = [sent EXCEPT ![q] = Append(sent[q], label)]
  <2>1. CASE DoubleCheck /\ label \in {E_FOUND, E_CACHE1, E_CACHE2} /\ src # NoReader
    BY <2>1 DEF SendDcw
  <2>2. CASE ~(DoubleCheck /\ label \in {E_FOUND, E_CACHE1, E_CACHE2} /\ src # NoReader)
    BY <2>2 DEF SendDcw
  <2> QED BY <2>1, <2>2
<1> HIDE DEF label
<1>3. Append(sent[q], label) \in Seq(Codes) /\ Len(Append(sent[q], label)) = 1
  BY <1>1 DEF Shapes, Unanswered
<1>4. E_UNHANDLED \in Codes
  BY DEF Codes
<1> QED
  BY <1>1, <1>2, <1>3, <1>4 DEF Answers1, Shapes, Unanswered

\* write_ecm_answer_fromcache tests the code it finds before it sends.
LEMMA FromCacheOnce ==
  ASSUME Shapes, NEW q \in Requests, NEW src, Serial(q), FromCache(q, src)
  PROVE  Answers1(q)
<1> DEFINE code == CachedCode(src)
<1>1. code \in Codes \ {E_UNHANDLED}
  BY DEF CachedCode, Codes, E_CACHE1, E_CACHEEX, E_UNHANDLED
<1>2. CASE NoSend
  BY <1>2 DEF NoSend, Answers1, Shapes, Serial
<1>3. CASE rc[q] = E_UNHANDLED /\ SendDcw(q, code, src)
  <2>1. Unanswered(q)
    BY <1>3 DEF Serial, Unanswered
  <2> QED BY <1>1, <1>3, <2>1, SendDcwOnce
<1>4. CASE rc[q] # E_UNHANDLED /\ rc' = [rc EXCEPT ![q] = code] /\ sent' = sent
  BY <1>1, <1>4 DEF Answers1, Shapes, Serial
<1> QED
  <2>1. E_NOTFOUND <= rc[q] /\ rc[q] < E_UNHANDLED => rc[q] # E_UNHANDLED
    BY DEF E_NOTFOUND, E_UNHANDLED
  <2> QED BY <1>2, <1>3, <1>4, <2>1 DEF FromCache

-----------------------------------------------------------------------------
\* The invariant is kept by a step that touches neither rc nor sent and starts no
\* handler on an answered request.
LEMMA HandlerKept ==
  ASSUME IInv, UNCHANGED <<rc, sent>>,
         DOMAIN work' = Requests, DOMAIN jobs' = Requests, DOMAIN client' = Requests,
         \A q \in Requests :
           /\ "at" \in DOMAIN work'[q]
           /\ work'[q].at # "idle" => Unanswered(q)
           /\ client'[q] = "new" => client[q] = "new" /\ jobs'[q] = <<>> /\ work'[q].at = "idle"
  PROVE  IInv'
BY DEF IInv, Shapes, Serial, Unanswered

\* The invariant is kept by a step of q's work thread that may answer q and leaves the
\* thread between two jobs, or leaves q unanswered.
LEMMA AnswerKept ==
  ASSUME IInv, NEW q \in Requests, Answers1(q),
         DOMAIN work' = Requests, DOMAIN jobs' = Requests, DOMAIN client' = Requests,
         \A p \in Requests \ {q} :
           work'[p] = work[p] /\ jobs'[p] = jobs[p] /\ client'[p] = client[p],
         "at" \in DOMAIN work'[q], work'[q].at = "idle", client'[q] # "new"
  PROVE  IInv'
BY DEF IInv, Shapes, Serial, Unanswered, Answers1

\* IInv holds initially.
LEMMA InitIInv == Init => IInv
BY DEF Init, IInv, Shapes, Serial, Unanswered, IdleWork, Codes
\* Of the codes only E_UNHANDLED is not below E_99.
LEMMA UnansweredCode ==
  ASSUME Shapes, NEW q \in Requests, rc[q] >= E_99 \/ rc[q] >= E_UNHANDLED
  PROVE  rc[q] = E_UNHANDLED
BY DEF Shapes, Codes, E_99, E_FOUND, E_CACHE1, E_CACHE2, E_CACHEEX, E_NOTFOUND, E_TIMEOUT,
       E_INVALID, E_UNHANDLED

\* What the handlers leave in work[q] has a place in it.
LEMMA WorkAt ==
  /\ "at" \in DOMAIN IdleWork /\ IdleWork.at = "idle"
  /\ "at" \in DOMAIN AskAgain /\ "at" \in DOMAIN Expiring
  /\ \A x, y : "at" \in DOMAIN Asking(x, y)
  /\ \A x : "at" \in DOMAIN Scanning(x) /\ "at" \in DOMAIN Verdict(x)
BY DEF IdleWork, AskAgain, Expiring, Asking, Scanning, Verdict

\* What a handler does inside the thread of q: it starts, or goes on, on an unanswered
\* request only.
LEMMA ThreadStep ==
  ASSUME IInv, NEW q \in Requests,
         \/ Ask(q) \/ Scan(q) \/ AfterCacheexScan(q) \/ AfterScan(q)
         \/ CacheexMode1Delay(q) \/ CacheexTimeoutHit(q) \/ FallbackTimeout(q)
         \/ FallbackAgain(q) \/ EcmTimeout(q)
  PROVE  IInv'
<1>1. /\ UNCHANGED <<rc, sent, client>>
      /\ DOMAIN work' = Requests /\ DOMAIN jobs' = Requests
      /\ \A p \in Requests \ {q} : work'[p] = work[p] /\ jobs'[p] = jobs[p]
      /\ "at" \in DOMAIN work'[q]
      /\ work'[q].at # "idle" => rc[q] = E_UNHANDLED
      /\ jobs[q] # <<>> \/ work[q].at # "idle"
  <2> USE WorkAt, UnansweredCode DEF IInv, Shapes, Serial, Unanswered, erVars, eaVars, clVars, rdrVars
  <2>1. CASE Ask(q)
    BY <2>1 DEF Ask
  <2>2. CASE Scan(q)
    BY <2>2 DEF Scan
  <2>3. CASE AfterCacheexScan(q)
    BY <2>3 DEF AfterCacheexScan, ScannedAll, BeginAsk
  <2>4. CASE AfterScan(q)
    BY <2>4 DEF AfterScan, ScannedAll, BeginAsk
  <2>5. CASE CacheexMode1Delay(q)
    BY <2>5 DEF CacheexMode1Delay, Takes, Ready, BeginAsk
  <2>6. CASE CacheexTimeoutHit(q)
    BY <2>6 DEF CacheexTimeoutHit, Ready
  <2>7. CASE FallbackTimeout(q)
    BY <2>7 DEF FallbackTimeout, Takes, Ready, BeginAsk
  <2>8. CASE FallbackAgain(q)
    BY <2>8 DEF FallbackAgain
  <2>9. CASE EcmTimeout(q)
    BY <2>9 DEF EcmTimeout, Takes, Ready
  <2> QED
    BY <2>1, <2>2, <2>3, <2>4, <2>5, <2>6, <2>7, <2>8, <2>9
<1>2. client[q] # "new"
  BY <1>1 DEF IInv, Serial
<1>3. DOMAIN client' = Requests
  BY <1>1 DEF IInv, Shapes
<1>4. ASSUME NEW p \in Requests
      PROVE  /\ "at" \in DOMAIN work'[p]
             /\ work'[p].at # "idle" => Unanswered(p)
             /\ client'[p] = "new" => client[p] = "new" /\ jobs'[p] = <<>> /\ work'[p].at = "idle"
  <2>1. CASE p = q
    BY <1>1, <1>2, <2>1 DEF IInv, Shapes, Serial, Unanswered
  <2>2. CASE p # q
    BY <1>1, <1>2, <2>2 DEF IInv, Shapes, Serial, Unanswered
  <2> QED BY <2>1, <2>2
<1> QED
  BY <1>1, <1>3, <1>4, HandlerKept

\* The handlers that may answer q: each tests rc before send_dcw, in the same step or at
\* the start of the handler it is in.
LEMMA AnswerStep ==
  ASSUME IInv, NEW q \in Requests,
         \/ GetCwCached(q) \/ GetCwNoReader(q) \/ CacheexTimeout(q) \/ SendTimeout(q)
         \/ AnswerFromCache(q) \/ ChkDcw(q) \/ GiveVerdict(q)
  PROVE  IInv'
<1>1. {E_FOUND, E_NOTFOUND, E_TIMEOUT} \subseteq Codes \ {E_UNHANDLED}
  BY DEF Codes, E_FOUND, E_CACHE1, E_CACHE2, E_CACHEEX, E_NOTFOUND, E_TIMEOUT, E_INVALID, E_UNHANDLED
<1>2. NoSend => Answers1(q)
  BY DEF IInv, NoSend, Answers1, Shapes, Serial
<1> DEFINE Rest ==
       /\ \A p \in Requests \ {q} : jobs'[p] = jobs[p] /\ client'[p] = client[p]
       /\ DOMAIN jobs' = Requests /\ DOMAIN client' = Requests
       /\ client'[q] # "new"
       /\ DOMAIN work' = Requests
       /\ \A p \in Requests \ {q} : work'[p] = work[p]
       /\ "at" \in DOMAIN work'[q]
           Idle  == work'[q].at = "idle"
           Quiet == Unanswered(q) /\ NoSend
<1>3. Answers1(q) /\ Rest /\ (Idle \/ Quiet)
  <2>0. Shapes /\ Serial(q) /\ "at" \in DOMAIN work[q]
    BY DEF IInv, Serial
  <2>1. CASE GetCwCached(q)
    <3>1. Answers1(q)
      BY <2>0, <2>1, FromCacheOnce DEF GetCwCached
    <3>2. Rest /\ Idle
      BY <2>0, <2>1 DEF GetCwCached, Shapes, Serial
    <3> QED BY <3>1, <3>2
  <2>2. CASE GetCwNoReader(q)
    <3>1. Answers1(q)
      BY <2>0, <2>2, <1>1, SendDcwOnce DEF GetCwNoReader, Serial
    <3>2. Rest /\ Idle
      BY <2>0, <2>2 DEF GetCwNoReader, Shapes, Serial
    <3> QED BY <3>1, <3>2
  <2>3. CASE CacheexTimeout(q)
    <3>1. Takes(q, "cxtimeout") /\ work[q].at = "idle" /\ UNCHANGED client
      BY <2>3 DEF CacheexTimeout, Takes, Ready
    <3>2. jobs[q] # <<>> /\ client[q] # "new"
      BY <3>1, <2>0 DEF Takes, Ready, Serial
    <3>3. CASE SendDcw(q, E_NOTFOUND, NoReader) /\ rc[q] >= E_UNHANDLED /\ UNCHANGED work
      <4>1. Unanswered(q)
        BY <3>3, <2>0, UnansweredCode DEF Serial, Unanswered
      <4>2. Answers1(q)
        BY <4>1, <3>3, <2>0, <1>1, SendDcwOnce
      <4> QED BY <4>2, <3>1, <3>2, <3>3, <2>0 DEF Shapes, Takes
    <3>4. CASE NoSend /\ rc[q] >= E_UNHANDLED /\ BeginAsk(q, 0, "done")
      <4>1. Unanswered(q)
        BY <3>4, <2>0, UnansweredCode DEF Serial, Unanswered
      <4> QED BY <4>1, <3>1, <3>2, <3>4, <2>0, <1>2, WorkAt DEF Shapes, Takes, BeginAsk
    <3>5. CASE NoSend /\ UNCHANGED work
      BY <3>1, <3>2, <3>5, <2>0, <1>2 DEF Shapes, Takes
    <3> QED BY <2>3, <3>3, <3>4, <3>5 DEF CacheexTimeout
  <2>4. CASE SendTimeout(q)
    <3>1. Answers1(q)
      BY <2>0, <2>4, <1>1, SendDcwOnce DEF SendTimeout, Serial
    <3>2. Rest /\ Idle
      BY <2>0, <2>4, WorkAt DEF SendTimeout, Shapes, Serial
    <3> QED BY <3>1, <3>2
  <2>5. CASE AnswerFromCache(q)
    <3>1. Answers1(q)
      BY <2>0, <2>5, FromCacheOnce DEF AnswerFromCache
    <3>2. Rest /\ Idle
      BY <2>0, <2>5 DEF AnswerFromCache, Takes, Ready, Shapes, Serial
    <3> QED BY <3>1, <3>2
  <2>6. CASE ChkDcw(q)
    <3>1. /\ Takes(q, "answer") /\ work[q].at = "idle" /\ UNCHANGED client
          /\ jobs[q] # <<>> /\ client[q] # "new"
      BY <2>0, <2>6 DEF ChkDcw, Takes, Ready, Serial
    <3>2. CASE NoSend /\ UNCHANGED work
      BY <3>1, <3>2, <2>0, <1>2 DEF Shapes, Takes
    <3>3. CASE \E r : SendDcw(q, E_FOUND, r) /\ rc[q] >= E_99 /\ UNCHANGED work
      <4>1. Unanswered(q)
        BY <3>3, <2>0, UnansweredCode DEF Serial, Unanswered
      <4>2. Answers1(q)
        BY <4>1, <3>3, <2>0, <1>1, SendDcwOnce
      <4> QED BY <4>2, <3>1, <3>3, <2>0 DEF Shapes, Takes
    <3>4. CASE /\ NoSend /\ rc[q] >= E_99
               /\ \E x : "at" \in DOMAIN x /\ work' = [work EXCEPT ![q] = x]
      <4>1. Unanswered(q)
        BY <3>4, <2>0, UnansweredCode DEF Serial, Unanswered
      <4> QED BY <4>1, <3>1, <3>4, <2>0, <1>2 DEF Shapes, Takes
    <3> QED BY <2>0, <2>6, <3>2, <3>3, <3>4, WorkAt DEF ChkDcw
  <2>7. CASE GiveVerdict(q)
    <3>1. Answers1(q)
      BY <2>0, <2>7, <1>1, <1>2, SendDcwOnce DEF GiveVerdict, Serial
    <3>2. Rest /\ Idle
      BY <2>0, <2>7, WorkAt DEF GiveVerdict, Shapes, Serial
    <3> QED BY <3>1, <3>2
  <2> QED BY <2>1, <2>2, <2>3, <2>4, <2>5, <2>6, <2>7
<1>4. CASE Idle
  BY <1>3, <1>4, AnswerKept DEF Shapes
<1>5. CASE Quiet
  BY <1>3, <1>5, HandlerKept DEF IInv, Shapes, NoSend, Serial
<1> QED BY <1>3, <1>4, <1>5

\* get_cw starts a handler for a new, hence unanswered, request.
LEMMA GetCwStep ==
  ASSUME IInv, NEW q \in Requests, GetCw(q)
  PROVE  IInv'
<1>1. /\ UNCHANGED <<rc, sent, jobs>>
      /\ client[q] = "new" /\ client' = [client EXCEPT ![q] = "waiting"]
      /\ DOMAIN work' = Requests /\ "at" \in DOMAIN work'[q]
      /\ \A p \in Requests \ {q} : work'[p] = work[p]
  BY WorkAt DEF GetCw, IInv, Shapes
<1>2. Unanswered(q)
  BY <1>1 DEF IInv, Serial
<1> QED
  BY <1>1, <1>2, HandlerKept DEF IInv, Shapes, Serial

\* The timers and chkcache_process post jobs to clients that wait.
LEMMA TimerStepKept ==
  ASSUME IInv, NEW q \in Requests, TimerStep(q)
  PROVE  IInv'
<1>1. /\ UNCHANGED <<rc, sent, client, work>>
      /\ client[q] # "new" /\ DOMAIN jobs' = Requests
      /\ \A p \in Requests \ {q} : jobs'[p] = jobs[p]
  BY DEF TimerStep, PostCacheexTimeout, PostMode1Delay, PostFallbackTimeout, PostClientTimeout,
         PostCacheHit, Posts, erVars, IInv, Shapes
<1> QED
  BY <1>1, HandlerKept DEF IInv, Shapes, Serial

\* write_ecm_answer adds a job only to the list of a client that waits; a kill empties it.
LEMMA JobsStep ==
  ASSUME IInv, \/ \E t \in Requests \cup Readers : Publish(t)
               \/ \E q \in Requests : Disconnect(q)
  PROVE  IInv'
<1>1. /\ UNCHANGED <<rc, sent, work>>
      /\ DOMAIN jobs' = Requests /\ DOMAIN client' = Requests
      /\ \A p \in Requests : client'[p] = "new" => client[p] = "new" /\ jobs'[p] = jobs[p]
  BY DEF Publish, Disconnect, erVars, IInv, Shapes
<1> QED
  BY <1>1, HandlerKept DEF IInv, Shapes, Serial

\* The other steps of the readers, the clock and the peers.
LEMMA ElsewhereStep ==
  ASSUME IInv, UNCHANGED <<rc, clVars>>
  PROVE  IInv'
BY HandlerKept DEF IInv, Shapes, Serial, clVars

\* Every step of Next keeps the invariant.
LEMMA NextIInv == IInv /\ [Next]_vars => IInv'
<1> SUFFICES ASSUME IInv, [Next]_vars PROVE IInv'
  OBVIOUS
<1>1. ASSUME NEW q \in Requests, GetCw(q) \/ GetCwCached(q) \/ GetCwNoReader(q)
      PROVE  IInv'
  BY <1>1, GetCwStep, AnswerStep
<1>2. ASSUME NEW q \in Requests, ClientStep(q)
      PROVE  IInv'
  BY <1>2, ThreadStep, AnswerStep DEF ClientStep
<1>3. ASSUME NEW t \in Requests \cup Readers, WriteStep(t)
      PROVE  IInv'
  <2>1. CASE Record(t)
    BY <2>1, ElsewhereStep DEF Record, clVars
  <2>2. CASE Publish(t)
    BY <2>2, JobsStep
  <2>3. CASE Store(t)
    BY <2>3, ElsewhereStep DEF Store, erVars
  <2> QED BY <1>3, <2>1, <2>2, <2>3 DEF WriteStep
<1>4. ASSUME NEW r \in Readers, ReaderStep(r) \/ ServerAnswers(r)
      PROVE  IInv'
  <2>1. UNCHANGED <<rc, clVars>>
    BY <1>4 DEF ReaderStep, RefuseEcm, FindSame, JoinSame, LimitEcm, ForwardEcm, ServerAnswers, erVars
  <2> QED BY <2>1, ElsewhereStep
<1>5. ASSUME NEW q \in Requests, TimerStep(q)
      PROVE  IInv'
  BY <1>5, TimerStepKept
<1>6. ASSUME NEW q \in Requests, Tick(q) \/ Disconnect(q)
      PROVE  IInv'
  <2>1. CASE Tick(q)
    BY <2>1, ElsewhereStep DEF Tick
  <2> QED BY <1>6, <2>1, JobsStep
<1>7. ASSUME NEW e \in Ecms, PeerPushes(e)
      PROVE  IInv'
  BY <1>7, ElsewhereStep DEF PeerPushes, erVars
<1>8. CASE Quiescent \/ UNCHANGED vars
  BY <1>8, ElsewhereStep DEF Quiescent, vars, erVars
<1> QED
  BY <1>1, <1>2, <1>3, <1>4, <1>5, <1>6, <1>7, <1>8 DEF Next

\* Whatever the readers, the cache, the peers and the timers do, and however many there
\* are of them, a client is sent at most one answer to a request (send_dcw's callers).
THEOREM AnsweredOnceAlways == Spec => []AnsweredOnce
<1>1. IInv => AnsweredOnce
  <2> SUFFICES ASSUME IInv, NEW q \in Requests PROVE Len(sent[q]) <= 1
    BY DEF AnsweredOnce
  <2>1. CASE sent[q] = <<>>
    <3>1. Len(<<>>) = 0
      OBVIOUS
    <3> QED BY <2>1, <3>1
  <2>2. CASE sent[q] # <<>>
    <3>1. Len(sent[q]) = 1
      BY <2>2, Zenon DEF IInv, Serial
    <3> QED BY <3>1
  <2> QED BY <2>1, <2>2
<1> QED
  BY <1>1, InitIInv, NextIInv, PTL DEF Spec
-----------------------------------------------------------------------------
\* Types of what the readers have to do with

EaOK ==
  /\ status \in [Requests -> [Readers -> SUBSET Flags]]
  /\ earc \in [Requests -> [Readers -> Codes]]
  /\ rcEx \in [Requests -> [Readers -> {"none", "wrong", "limit"}]]
  /\ isPending \in [Requests -> [Readers -> BOOLEAN]]
  /\ pending \in [Requests -> [Readers -> Seq(Requests)]]
RdrOK ==
  /\ rdrJobs \in [Readers -> Seq(Requests)]
  /\ dup \in [Readers -> {<<>>} \cup Requests \X Requests]
  /\ atServer \in [Readers -> SUBSET Requests]
  /\ \A r \in Readers : IsFiniteSet(atServer[r])
FrOK == frames \in [Requests \cup Readers -> Seq(FrameType)]
ClOK ==
  /\ client \in [Requests -> {"new", "waiting", "killed"}]
  /\ jobs \in [Requests -> Seq(JobType)]
  /\ age \in [Requests -> Fresh .. Late]
  /\ ecmcwcache \in Seq(Requests)
  /\ cached \in [Ecms -> SUBSET (Readers \cup {NoReader})]
Fields == EaOK /\ RdrOK /\ FrOK /\ ClOK

LEMMA FieldsInit == ASSUME Init PROVE Fields
<1>1. EaOK
  BY DEF Init, EaOK, Codes
<1>2. RdrOK
  BY FS_EmptySet DEF Init, RdrOK
<1>3. FrOK
  BY DEF Init, FrOK
<1>4. Fresh \in Fresh .. Late
  BY DEF Fresh, Late
<1>5. ClOK
  BY <1>4 DEF Init, ClOK
<1> QED BY <1>1, <1>2, <1>3, <1>5 DEF Fields

\* A list of calls
LEMMA FrameSeq ==
  ASSUME NEW n \in Nat, NEW f \in [1 .. n -> FrameType]
  PROVE  f \in Seq(FrameType)
  OBVIOUS

LEMMA FrameIn ==
  ASSUME NEW op \in {"record", "publish", "store"}, NEW q \in Requests, NEW r \in Readers,
         NEW ans \in AnswerKinds
  PROVE  Frame(op, q, r, ans) \in FrameType
  BY DEF Frame, FrameType

LEMMA SharedIn == ASSUME NEW p, NEW r PROVE Shared(p, r) \in AnswerKinds
  BY DEF Shared, AnswerKinds

LEMMA SeqParts ==
  ASSUME NEW S, NEW s \in Seq(S), s # <<>>
  PROVE  /\ Head(s) \in S /\ Head(s) = s[1] /\ Tail(s) \in Seq(S) /\ 1 \in DOMAIN s
         /\ Len(s) \in Nat \ {0} /\ Len(Tail(s)) = Len(s) - 1
         /\ \A i \in DOMAIN Tail(s) : i + 1 \in DOMAIN s /\ Tail(s)[i] = s[i + 1]
  OBVIOUS

LEMMA TopIn ==
  ASSUME FrOK, NEW t \in Requests \cup Readers, Busy(t)
  PROVE  /\ Top(t) \in FrameType /\ Top(t).q \in Requests /\ Top(t).r \in Readers
         /\ Top(t).ans \in AnswerKinds /\ Top(t) = frames[t][1]
         /\ Tail(frames[t]) \in Seq(FrameType)
<1>1. frames[t] \in Seq(FrameType) /\ frames[t] # <<>>
  BY DEF FrOK, Busy
<1>2. Top(t) \in FrameType /\ Top(t) = frames[t][1] /\ Tail(frames[t]) \in Seq(FrameType)
  BY <1>1, SeqParts DEF Top
<1> HIDE DEF Top
<1> QED BY <1>2 DEF FrameType

\* Jobs of a client
LEMMA JobsKept ==
  ASSUME ClOK, NEW q \in Requests, UNCHANGED <<client, age, ecmcwcache, cached>>,
         \/ jobs' = jobs
         \/ jobs[q] # <<>> /\ jobs' = [jobs EXCEPT ![q] = Tail(@)]
         \/ \E j \in JobType : jobs' = [jobs EXCEPT ![q] = Append(@, j)]
         \/ jobs[q] # <<>> /\ \E j \in JobType : jobs' = [jobs EXCEPT ![q] = Append(Tail(@), j)]
  PROVE  ClOK'
<1>1. jobs[q] \in Seq(JobType)
  BY DEF ClOK
<1>2. \A j \in JobType : Append(jobs[q], j) \in Seq(JobType)
  BY <1>1
<1>3. jobs[q] # <<>> => /\ Tail(jobs[q]) \in Seq(JobType)
                       /\ \A j \in JobType : Append(Tail(jobs[q]), j) \in Seq(JobType)
  BY <1>1, SeqParts
<1>4. jobs' \in [Requests -> Seq(JobType)]
  BY <1>2, <1>3 DEF ClOK
<1> QED BY <1>4 DEF ClOK

LEMMA JobIn ==
  /\ \A r \in Readers : AnswerJob(r) \in JobType
  /\ \A r \in Readers \cup {NoReader} : CacheJob(r) \in JobType
  /\ \A act \in {"cxtimeout", "cxdelay", "fallback", "ctimeout"} : Job(act) \in JobType
  BY DEF AnswerJob, CacheJob, Job, JobType

LEMMA HitsIn ==
  ASSUME ClOK, NEW q \in Requests, NEW src \in Hits(q)
  PROVE  src \in cached[Ecm[q]] /\ src \in Readers \cup {NoReader}
<1>1. Ecm[q] \in Ecms
  BY DEF Ecms
<1> QED BY <1>1 DEF Hits, ClOK

\* get_cw
LEMMA GetCwFields ==
  ASSUME Fields, NEW q \in Requests, GetCw(q) \/ GetCwCached(q) \/ GetCwNoReader(q)
  PROVE  Fields'
<1> USE DEF Fields
<1>1. CASE GetCw(q)
  <2>1. EaOK'
    <3>1. PICK sel : status' = [status EXCEPT ![q] = [r \in Readers |-> FirstStatus(r, sel)]]
      BY <1>1 DEF GetCw
    <3>2. \A r \in Readers : FirstStatus(r, sel) \in SUBSET Flags
      BY ReadersAssumption DEF FirstStatus, Flags, KindFlags
    <3> QED BY <1>1, <3>1, <3>2 DEF GetCw, EaOK
  <2>2. RdrOK' /\ FrOK'
    BY <1>1 DEF GetCw, RdrOK, FrOK, rdrVars
  <2>3. ClOK'
    BY <1>1 DEF GetCw, ClOK
  <2> QED BY <2>1, <2>2, <2>3
<1>2. CASE GetCwCached(q) \/ GetCwNoReader(q)
  <2>1. /\ UNCHANGED <<eaVars, rdrVars, frames, jobs, age, ecmcwcache, cached>>
        /\ client' = [client EXCEPT ![q] = "waiting"]
    BY <1>2 DEF GetCwCached, GetCwNoReader
  <2>2. EaOK' /\ RdrOK' /\ FrOK'
    BY <2>1 DEF EaOK, RdrOK, FrOK, eaVars, rdrVars
  <2>3. ClOK'
    BY <2>1 DEF ClOK
  <2> QED BY <2>2, <2>3
<1> QED BY <1>1, <1>2

\* request_cw_from_readers
LEMMA AskFields == ASSUME Fields, NEW q \in Requests, Ask(q) PROVE Fields'
<1>1. \E now : /\ status' = [status EXCEPT ![q] =
                       [r \in Readers |-> IF r \in now THEN @[r] \cup {"SENT"} ELSE @[r]]]
               /\ rdrJobs' = [r \in Readers |-> IF r \in now THEN Append(rdrJobs[r], q) ELSE rdrJobs[r]]
  BY DEF Ask
<1>2. EaOK'
  BY <1>1 DEF Ask, Fields, EaOK, Flags
<1>3. RdrOK'
  BY <1>1 DEF Ask, Fields, RdrOK
<1>4. FrOK' /\ ClOK'
  BY DEF Ask, Fields, FrOK, ClOK
<1> QED BY <1>2, <1>3, <1>4 DEF Fields

\* The client's thread otherwise
LEMMA ThreadFields ==
  ASSUME Fields, NEW q \in Requests, ClientStep(q), ~Ask(q), ~EcmTimeout(q)
  PROVE  Fields'
<1>1. UNCHANGED <<eaVars, rdrVars, frames, client, age, ecmcwcache, cached>>
  BY DEF ClientStep, Scan, AfterCacheexScan, AfterScan, GiveVerdict, CacheexMode1Delay,
     CacheexTimeout, CacheexTimeoutHit, FallbackTimeout, FallbackAgain, SendTimeout,
     AnswerFromCache, ChkDcw, erVars
<1>2. \/ jobs' = jobs
      \/ jobs[q] # <<>> /\ jobs' = [jobs EXCEPT ![q] = Tail(@)]
      \/ jobs[q] # <<>> /\ \E j \in JobType : jobs' = [jobs EXCEPT ![q] = Append(Tail(@), j)]
  <2>1. CASE CacheexTimeoutHit(q)
    BY <2>1, HitsIn, JobIn DEF CacheexTimeoutHit, Ready, Fields
  <2>2. CASE ~CacheexTimeoutHit(q)
    BY <2>2 DEF ClientStep, Scan, AfterCacheexScan, AfterScan, GiveVerdict, CacheexMode1Delay,
       CacheexTimeout, FallbackTimeout, FallbackAgain, SendTimeout, AnswerFromCache, ChkDcw,
       Takes, Ready
  <2> QED BY <2>1, <2>2
<1>3. ClOK'
  BY <1>1, <1>2, JobsKept DEF Fields
<1> QED BY <1>1, <1>3 DEF Fields, EaOK, RdrOK, FrOK, eaVars, rdrVars

LEMMA EcmTimeoutFields ==
  ASSUME Fields, NEW q \in Requests, EcmTimeout(q)
  PROVE  /\ Fields'
         /\ ~Busy(q) /\ \A t \in Requests \cup Readers : t # q => frames'[t] = frames[t]
         /\ \A i \in DOMAIN frames'[q] : frames'[q][i].op = "record" /\ frames'[q][i].ans = "timeout"
<1>1. /\ jobs[q] # <<>> /\ jobs' = [jobs EXCEPT ![q] = Tail(@)] /\ ~Busy(q)
      /\ UNCHANGED <<eaVars, rdrVars, client, age, ecmcwcache, cached>>
  BY DEF EcmTimeout, Takes, Ready
<1>2. ClOK' /\ EaOK' /\ RdrOK'
  BY <1>1, JobsKept DEF Fields, EaOK, RdrOK, eaVars, rdrVars
<1>3. CASE frames' = frames
  BY <1>1, <1>2, <1>3 DEF Fields, FrOK, Busy
<1>4. ASSUME NEW owing \in SUBSET DOMAIN MatchingRdr, NEW order \in [1 .. Cardinality(owing) -> owing],
             frames' = [frames EXCEPT ![q] =
                [n \in DOMAIN order |-> Frame("record", q, MatchingRdr[order[n]], "timeout")]]
      PROVE  FrOK' /\ (\A t \in Requests \cup Readers : t # q => frames'[t] = frames[t])
             /\ \A i \in DOMAIN frames'[q] : frames'[q][i].op = "record" /\ frames'[q][i].ans = "timeout"
  <2>1. IsFiniteSet(DOMAIN MatchingRdr)
    BY ReadersAssumption, FS_Interval
  <2>2. Cardinality(owing) \in Nat
    BY <2>1, FS_Subset, FS_CardinalityType
  <2> DEFINE fs == [n \in 1 .. Cardinality(owing) |-> Frame("record", q, MatchingRdr[order[n]], "timeout")]
  <2>3. \A n \in 1 .. Cardinality(owing) : MatchingRdr[order[n]] \in Readers
    BY ReadersAssumption
  <2>4. fs \in [1 .. Cardinality(owing) -> FrameType]
    BY <2>3, FrameIn DEF AnswerKinds
  <2>5. fs \in Seq(FrameType)
    BY <2>2, <2>4, FrameSeq
  <2>6. frames' = [frames EXCEPT ![q] = fs]
    BY <1>4
  <2>7. \A i \in DOMAIN fs : fs[i].op = "record" /\ fs[i].ans = "timeout"
    BY DEF Frame
  <2> HIDE DEF fs
  <2> QED BY <2>5, <2>6, <2>7 DEF Fields, FrOK
<1> QED BY <1>1, <1>2, <1>3, <1>4 DEF EcmTimeout, Fields

\* write_ecm_answer
LEMMA RecordFields ==
  ASSUME Fields, NEW t \in Requests \cup Readers, Record(t)
  PROVE  Fields'
<1> DEFINE q == Top(t).q
           r == Top(t).r
           ans == Top(t).ans
<1>1. /\ q \in Requests /\ r \in Readers /\ ans \in AnswerKinds /\ Tail(frames[t]) \in Seq(FrameType)
      /\ Busy(t) /\ UNCHANGED <<isPending, pending, rdrVars, age, ecmcwcache, client, jobs, cached>>
  BY TopIn DEF Record, Fields, clVars
<1>2. RdrOK' /\ ClOK'
  BY <1>1 DEF Fields, RdrOK, ClOK, rdrVars
<1> HIDE DEF q, r, ans
<1>3. CASE Pop(t) /\ UNCHANGED <<status, earc, rcEx, stage>>
  <2>1. FrOK'
    BY <1>1, <1>3 DEF Fields, FrOK, Pop
  <2>2. EaOK'
    BY <1>1, <1>3 DEF Fields, EaOK
  <2> QED BY <1>2, <2>1, <2>2 DEF Fields
<1>4. CASE /\ earc' = [earc EXCEPT ![q][r] = Code(ans)]
           /\ rcEx' = [rcEx EXCEPT ![q][r] = CodeEx(ans)]
           /\ \E answered \in {{}, {"ANSWERED"}} :
                status' = [status EXCEPT ![q] =
                  [s \in Readers |->
                     (IF ans = "badecm" THEN @[s] \ {"ACTIVE", "FALLBACK"} ELSE @[s])
                       \cup (IF s = r THEN answered ELSE {})]]
           /\ frames' = [frames EXCEPT ![t] = <<Frame("publish", q, r, ans)>> \o Tail(@)]
  <2>1. Code(ans) \in Codes /\ CodeEx(ans) \in {"none", "wrong", "limit"}
    BY DEF Code, CodeEx, Codes
  <2>2. Frame("publish", q, r, ans) \in FrameType
    BY <1>1, FrameIn
  <2>3. FrOK'
    <3>1. <<Frame("publish", q, r, ans)>> \o Tail(frames[t]) \in Seq(FrameType)
      BY <1>1, <2>2
    <3> QED BY <1>4, <3>1 DEF Fields, FrOK
  <2>4. earc' \in [Requests -> [Readers -> Codes]]
        /\ rcEx' \in [Requests -> [Readers -> {"none", "wrong", "limit"}]]
    BY <1>1, <1>4, <2>1 DEF Fields, EaOK
  <2>5. status' \in [Requests -> [Readers -> SUBSET Flags]]
    <3>1. PICK answered \in {{}, {"ANSWERED"}} :
             status' = [status EXCEPT ![q] =
                  [s \in Readers |->
                     (IF ans = "badecm" THEN @[s] \ {"ACTIVE", "FALLBACK"} ELSE @[s])
                       \cup (IF s = r THEN answered ELSE {})]]
      BY <1>4
    <3>2. answered \subseteq Flags
      BY DEF Flags
    <3> QED BY <1>1, <3>1, <3>2 DEF Fields, EaOK
  <2> QED BY <1>1, <1>2, <2>3, <2>4, <2>5 DEF Fields, EaOK
<1> QED BY <1>3, <1>4 DEF Record, q, r, ans

LEMMA PublishFields ==
  ASSUME Fields, NEW t \in Requests \cup Readers, Publish(t)
  PROVE  Fields'
<1> DEFINE q == Top(t).q
           r == Top(t).r
           others == [i \in DOMAIN pending[q][r] |->
                        Frame("record", pending[q][r][i], r, Shared(q, r))]
           store  == IF earc[q][r] = E_FOUND /\ ~isPending[q][r]
                     THEN <<Frame("store", q, r, "found")>> ELSE <<>>
<1>1. /\ q \in Requests /\ r \in Readers /\ Tail(frames[t]) \in Seq(FrameType) /\ Busy(t)
      /\ UNCHANGED <<eaVars, rdrVars, age, ecmcwcache, client, cached>>
  BY TopIn DEF Publish, Fields, erVars
<1>2. RdrOK' /\ EaOK'
  BY <1>1 DEF Fields, RdrOK, EaOK, rdrVars, eaVars
<1>3. /\ jobs' = [jobs EXCEPT ![q] = IF client[q] = "waiting" THEN Append(@, AnswerJob(r)) ELSE @]
      /\ frames' = [frames EXCEPT ![t] = others \o store \o Tail(@)]
  BY DEF Publish
<1> HIDE DEF q, r
<1>4. others \in Seq(FrameType)
  <2>1. pending[q][r] \in Seq(Requests)
    BY <1>1 DEF Fields, EaOK
  <2>2. \A i \in DOMAIN pending[q][r] : Frame("record", pending[q][r][i], r, Shared(q, r)) \in FrameType
    BY <1>1, <2>1, FrameIn, SharedIn
  <2>3. others \in [1 .. Len(pending[q][r]) -> FrameType]
    BY <2>1, <2>2
  <2> HIDE DEF others
  <2> QED BY <2>1, <2>3, FrameSeq
<1>5. store \in Seq(FrameType)
  BY <1>1, FrameIn DEF AnswerKinds
<1> HIDE DEF others, store
<1>6. FrOK'
  <2>1. others \o store \o Tail(frames[t]) \in Seq(FrameType)
    BY <1>1, <1>4, <1>5
  <2> QED BY <1>3, <2>1 DEF Fields, FrOK
<1>7. ClOK'
  <2>1. \/ jobs' = jobs
        \/ \E j \in JobType : jobs' = [jobs EXCEPT ![q] = Append(@, j)]
    BY <1>1, <1>3, JobIn DEF Fields, ClOK
  <2> QED BY <1>1, <2>1, JobsKept DEF Fields
<1> QED BY <1>2, <1>6, <1>7 DEF Fields

LEMMA StoreFields ==
  ASSUME Fields, NEW t \in Requests \cup Readers, Store(t)
  PROVE  Fields'
<1>1. /\ Top(t).q \in Requests /\ Top(t).r \in Readers /\ Tail(frames[t]) \in Seq(FrameType)
      /\ UNCHANGED <<eaVars, rdrVars, age, ecmcwcache, client, jobs>>
      /\ cached' = [cached EXCEPT ![Ecm[Top(t).q]] = @ \cup {Top(t).r}] /\ Pop(t)
  BY TopIn DEF Store, Fields, erVars, clVars
<1>2. RdrOK' /\ EaOK'
  BY <1>1 DEF Fields, RdrOK, EaOK, rdrVars, eaVars
<1>3. FrOK'
  BY <1>1 DEF Fields, FrOK, Pop
<1>4. ClOK'
  <2>1. cached' \in [Ecms -> SUBSET (Readers \cup {NoReader})]
    BY <1>1 DEF Fields, ClOK
  <2> QED BY <1>1, <2>1 DEF Fields, ClOK
<1> QED BY <1>2, <1>3, <1>4 DEF Fields

\* reader_get_ecm
LEMMA NextJob ==
  ASSUME Fields, NEW r \in Readers, GetsEcm(r)
  PROVE  /\ Head(rdrJobs[r]) \in Requests /\ frames[r] = <<>> /\ dup[r] = <<>>
         /\ rdrJobs' \in [Readers -> Seq(Requests)]
<1>1. rdrJobs[r] \in Seq(Requests) /\ rdrJobs[r] # <<>>
  BY DEF Fields, RdrOK, GetsEcm
<1>2. Head(rdrJobs[r]) \in Requests /\ Tail(rdrJobs[r]) \in Seq(Requests)
  BY <1>1, SeqParts
<1> QED BY <1>2 DEF GetsEcm, Free, Busy, Fields, RdrOK

LEMMA WriteAnswerFields ==
  ASSUME FrOK, NEW r \in Readers, NEW q \in Requests, NEW ans \in AnswerKinds,
         WriteAnswer(r, q, ans)
  PROVE  FrOK'
<1>1. Frame("record", q, r, ans) \in FrameType
  BY FrameIn
<1> QED BY <1>1 DEF WriteAnswer, FrOK

LEMMA ReaderFields ==
  ASSUME Fields, NEW r \in Readers, ReaderStep(r)
  PROVE  Fields'
<1>0. UNCHANGED <<age, ecmcwcache, client, jobs, cached, status, earc, rcEx>>
  BY DEF ReaderStep, RefuseEcm, FindSame, JoinSame, LimitEcm, ForwardEcm, clVars, erVars, eaVars
<1>1. ClOK'
  BY <1>0 DEF ClOK, Fields
<1>2. CASE RefuseEcm(r) \/ LimitEcm(r)
  <2>1. /\ GetsEcm(r) /\ UNCHANGED <<eaVars, dup, atServer>>
        /\ \E ans \in AnswerKinds : WriteAnswer(r, Head(rdrJobs[r]), ans)
    BY <1>2 DEF RefuseEcm, LimitEcm, AnswerKinds
  <2>2. FrOK'
    BY <2>1, NextJob, WriteAnswerFields DEF Fields
  <2>3. RdrOK'
    BY <2>1, NextJob DEF Fields, RdrOK
  <2>4. EaOK'
    BY <2>1 DEF Fields, EaOK, eaVars
  <2> QED BY <1>1, <2>2, <2>3, <2>4 DEF Fields
<1>3. CASE FindSame(r)
  <2> DEFINE q == Head(rdrJobs[r])
  <2>1. /\ GetsEcm(r) /\ q \in Requests /\ UNCHANGED <<atServer, frames, pending>>
        /\ \E i \in Same(r, q) : dup' = [dup EXCEPT ![r] = <<q, ecmcwcache[i]>>]
        /\ isPending' = [isPending EXCEPT ![q][r] = TRUE]
    BY <1>3, NextJob DEF FindSame
  <2>2. \A i \in Same(r, q) : ecmcwcache[i] \in Requests
    BY DEF Same, Fields, ClOK
  <2> HIDE DEF q
  <2>3. RdrOK'
    BY <2>1, <2>2, NextJob DEF Fields, RdrOK
  <2>4. FrOK'
    BY <2>1 DEF Fields, FrOK
  <2>5. EaOK'
    BY <2>1, <1>0 DEF Fields, EaOK
  <2> QED BY <1>1, <2>3, <2>4, <2>5 DEF Fields
<1>4. CASE JoinSame(r)
  <2> DEFINE q == dup[r][1]
             p == dup[r][2]
  <2>1. /\ q \in Requests /\ p \in Requests
        /\ dup' = [dup EXCEPT ![r] = <<>>] /\ UNCHANGED <<rdrJobs, atServer, isPending>>
        /\ \/ WriteAnswer(r, q, Shared(p, r)) /\ UNCHANGED pending
           \/ pending' = [pending EXCEPT ![p][r] = <<q>> \o @] /\ UNCHANGED frames
    BY <1>4 DEF JoinSame, Fields, RdrOK
  <2> HIDE DEF q, p
  <2>2. RdrOK'
    BY <2>1 DEF Fields, RdrOK
  <2>3. FrOK'
    BY <2>1, SharedIn, WriteAnswerFields DEF Fields, FrOK
  <2>4. EaOK'
    <3>1. <<q>> \o pending[p][r] \in Seq(Requests)
      BY <2>1 DEF Fields, EaOK
    <3>2. pending' \in [Requests -> [Readers -> Seq(Requests)]]
      <4>1. CASE UNCHANGED pending
        BY <4>1 DEF Fields, EaOK
      <4>2. CASE pending' = [pending EXCEPT ![p][r] = <<q>> \o @]
        BY <2>1, <3>1, <4>2 DEF Fields, EaOK
      <4> QED BY <2>1, <4>1, <4>2
    <3> QED BY <2>1, <1>0, <3>2 DEF Fields, EaOK
  <2> QED BY <1>1, <2>2, <2>3, <2>4 DEF Fields
<1>5. CASE ForwardEcm(r)
  <2>1. /\ GetsEcm(r) /\ UNCHANGED <<eaVars, dup, frames>>
        /\ atServer' = [atServer EXCEPT ![r] = @ \cup {Head(rdrJobs[r])}]
    BY <1>5 DEF ForwardEcm
  <2>2. RdrOK'
    <3>1. atServer[r] \cup {Head(rdrJobs[r])} \in SUBSET Requests
          /\ IsFiniteSet(atServer[r] \cup {Head(rdrJobs[r])})
      <4>1. Head(rdrJobs[r]) \in Requests /\ atServer[r] \in SUBSET Requests /\ IsFiniteSet(atServer[r])
        BY <2>1, NextJob DEF Fields, RdrOK
      <4> QED BY <4>1, FS_AddElement
    <3> QED BY <2>1, <3>1, NextJob DEF Fields, RdrOK
  <2>3. FrOK' /\ EaOK'
    BY <2>1 DEF Fields, FrOK, EaOK, eaVars
  <2> QED BY <1>1, <2>2, <2>3 DEF Fields
<1> QED BY <1>2, <1>3, <1>4, <1>5 DEF ReaderStep

\* The answer of a card or server: a write_ecm_answer for everyone who asked.
LEMMA ServerFields ==
  ASSUME Fields, NEW r \in Readers, ServerAnswers(r)
  PROVE  /\ Fields'
         /\ frames[r] = <<>> /\ \A t \in Requests \cup Readers : t # r => frames'[t] = frames[t]
         /\ \A i \in DOMAIN frames'[r] : /\ frames'[r][i].op = "record" /\ frames'[r][i].r = r
                                         /\ frames'[r][i].ans \in Answers
                                         /\ frames'[r][i].q \in atServer[r] \ atServer'[r]
<1>1. PICK e \in Ecms, ans \in Answers :
        LET asked == {q \in atServer[r] : Ecm[q] = e} IN
        /\ \E order \in [1 .. Cardinality(asked) -> asked] :
             frames' = [frames EXCEPT ![r] =
                 [i \in DOMAIN order |-> Frame("record", order[i], r, ans)]]
        /\ atServer' = [atServer EXCEPT ![r] = @ \ asked]
  BY DEF ServerAnswers
<1> DEFINE asked == {q \in atServer[r] : Ecm[q] = e}
<1>2. PICK order \in [1 .. Cardinality(asked) -> asked] :
        frames' = [frames EXCEPT ![r] = [i \in DOMAIN order |-> Frame("record", order[i], r, ans)]]
  BY <1>1
<1>3. /\ atServer' = [atServer EXCEPT ![r] = @ \ asked]
      /\ frames[r] = <<>> /\ UNCHANGED <<erVars, eaVars, clVars, rdrJobs, dup, cached>>
  BY <1>1 DEF ServerAnswers, Free, Busy
<1>4. /\ asked \subseteq atServer[r] /\ IsFiniteSet(asked) /\ asked \subseteq Requests
      /\ Cardinality(asked) \in Nat /\ IsFiniteSet(atServer[r] \ asked)
  BY FS_Subset, FS_CardinalityType, FS_Difference DEF Fields, RdrOK
<1> DEFINE fs == [i \in 1 .. Cardinality(asked) |-> Frame("record", order[i], r, ans)]
<1>5. frames' = [frames EXCEPT ![r] = fs]
  BY <1>2
<1> HIDE DEF asked
<1>6. ans \in AnswerKinds
  BY ConfigAssumption
<1>7. fs \in [1 .. Cardinality(asked) -> FrameType]
  BY <1>4, <1>6, FrameIn
<1>8. \A i \in DOMAIN fs : /\ fs[i].op = "record" /\ fs[i].r = r /\ fs[i].ans \in Answers
                           /\ fs[i].q \in asked
  BY DEF Frame
<1> HIDE DEF fs
<1>9. fs \in Seq(FrameType)
  BY <1>4, <1>7, FrameSeq
<1>10. RdrOK'
  BY <1>3, <1>4 DEF Fields, RdrOK
<1>11. FrOK'
  BY <1>5, <1>9 DEF Fields, FrOK
<1>12. EaOK' /\ ClOK'
  BY <1>3 DEF Fields, EaOK, ClOK, eaVars, clVars, erVars
<1>13. asked \subseteq atServer[r] \ atServer'[r] /\ frames'[r] = fs
       /\ \A t \in Requests \cup Readers : t # r => frames'[t] = frames[t]
  BY <1>3, <1>4, <1>5 DEF Fields, RdrOK, FrOK
<1> QED BY <1>3, <1>8, <1>10, <1>11, <1>12, <1>13 DEF Fields

\* The timers, the clock, the peers and the kills
LEMMA OutsideFields ==
  ASSUME Fields, \/ \E q \in Requests : TimerStep(q) \/ Tick(q) \/ Disconnect(q)
                 \/ \E e \in Ecms : PeerPushes(e)
                 \/ UNCHANGED vars
  PROVE  Fields'
<1>1. UNCHANGED <<eaVars, rdrVars, frames>>
  BY DEF TimerStep, PostCacheexTimeout, PostMode1Delay, PostFallbackTimeout, PostClientTimeout,
     PostCacheHit, Posts, Tick, Disconnect, PeerPushes, vars
<1>2. EaOK' /\ RdrOK' /\ FrOK'
  BY <1>1 DEF Fields, EaOK, RdrOK, FrOK, eaVars, rdrVars
<1>3. ASSUME NEW q \in Requests, TimerStep(q)
      PROVE  ClOK'
  <2>1. UNCHANGED <<client, age, ecmcwcache, cached>>
    BY <1>3 DEF TimerStep, PostCacheexTimeout, PostMode1Delay, PostFallbackTimeout,
       PostClientTimeout, PostCacheHit, Posts, erVars
  <2>2. \E j \in JobType : jobs' = [jobs EXCEPT ![q] = Append(@, j)]
    <3>1. CASE PostCacheHit(q)
      BY <3>1, HitsIn, JobIn DEF PostCacheHit, Fields
    <3>2. CASE ~PostCacheHit(q)
      BY <1>3, <3>2, JobIn DEF TimerStep, PostCacheexTimeout, PostMode1Delay, PostFallbackTimeout,
         PostClientTimeout, Posts
    <3> QED BY <3>1, <3>2
  <2> QED BY <2>1, <2>2, JobsKept DEF Fields
<1>4. ASSUME NEW q \in Requests, Tick(q)
      PROVE  ClOK'
  <2>1. /\ age[q] < MaxAge /\ UNCHANGED <<client, jobs, ecmcwcache, cached>>
        /\ age' = [age EXCEPT ![q] = IF @ = Fresh /\ ~Waits(q) THEN FbDue ELSE @ + 1]
    BY <1>4 DEF Tick, clVars
  <2>2. PICK w \in {FbDue, age[q] + 1} : age' = [age EXCEPT ![q] = w]
    BY <2>1
  <2>3. age[q] \in 0 .. 4 /\ MaxAge \in 0 .. 4 /\ age[q] < MaxAge /\ FbDue = 2
    BY <2>1, ConfigAssumption DEF Fields, ClOK, Fresh, FbDue, Late
  <2>4. w \in 0 .. 4
    BY <2>3
  <2>5. age' \in [Requests -> Fresh .. Late]
    BY <2>2, <2>4 DEF Fields, ClOK, Fresh, Late
  <2> QED BY <2>1, <2>5 DEF Fields, ClOK
<1>5. ASSUME NEW q \in Requests, Disconnect(q)
      PROVE  ClOK'
  BY <1>5 DEF Disconnect, Fields, ClOK, erVars
<1>6. ASSUME NEW e \in Ecms, PeerPushes(e)
      PROVE  ClOK'
  BY <1>6 DEF PeerPushes, Fields, ClOK, erVars, clVars
<1>7. CASE UNCHANGED vars
  <2>1. UNCHANGED <<client, jobs, age, ecmcwcache, cached>>
    BY <1>7 DEF vars, erVars, clVars
  <2>2. ClOK'
    BY <2>1 DEF Fields, ClOK
  <2> QED BY <1>2, <2>2 DEF Fields
<1> QED BY <1>2, <1>3, <1>4, <1>5, <1>6, <1>7 DEF Fields

LEMMA NextFields == ASSUME Fields, [Next]_vars PROVE Fields'
<1>1. ASSUME NEW q \in Requests, ClientStep(q) PROVE Fields'
  BY <1>1, AskFields, ThreadFields, EcmTimeoutFields
<1>2. ASSUME NEW t \in Requests \cup Readers, WriteStep(t) PROVE Fields'
  BY <1>2, RecordFields, PublishFields, StoreFields DEF WriteStep
<1>3. CASE Quiescent
  BY <1>3, OutsideFields DEF Quiescent
<1> QED BY <1>1, <1>2, <1>3, GetCwFields, ReaderFields, ServerFields, OutsideFields DEF Next
-----------------------------------------------------------------------------
\* The reader has still to ask its server for q, or waits for the server's answer.
At(r, q) == q \in atServer[r] \/ \E i \in DOMAIN rdrJobs[r] : rdrJobs[r][i] = q

\* The reader has been given q, and will not ask its server for it any more.
Gone(q, r) == "SENT" \in status[q][r] /\ ~At(r, q)

Listed(q) == \E i \in DOMAIN ecmcwcache : ecmcwcache[i] = q

\* What the flags of a reader say about the answer recorded for it
Marks(q, r) ==
  /\ "SENT" \in status[q][r] \/ "ACTIVE" \in status[q][r] => client[q] # "new" /\ Listed(q)
  /\ earc[q][r] # E_UNHANDLED => "SENT" \in status[q][r]
  /\ earc[q][r] \in {E_FOUND, E_TIMEOUT} => "ANSWERED" \in status[q][r]
  /\ "ANSWERED" \in status[q][r] => earc[q][r] # E_UNHANDLED

\* A request that waits for another one's answer, or was refused a place by the rate
\* limiter, is not asked for.
Waits1(q, r) ==
  /\ At(r, q) => "SENT" \in status[q][r]
  /\ isPending[q][r] \/ rcEx[q][r] = "limit" => Gone(q, r)

Called(f) == "SENT" \in status[f.q][f.r] /\ (f.op = "record" /\ f.ans = "limited" => Gone(f.q, f.r))
Calls(t)  == \A i \in DOMAIN frames[t] : Called(frames[t][i])

\* Who waits has been marked; a request is in a reader's job list once.
Joined(r) ==
  /\ dup[r] # <<>> => isPending[dup[r][1]][r]
  /\ \A p \in Requests : \A i \in DOMAIN pending[p][r] : isPending[pending[p][r][i]][r]
JobOnce(r) ==
  /\ \A i, j \in DOMAIN rdrJobs[r] : rdrJobs[r][i] = rdrJobs[r][j] => i = j
  /\ \A i \in DOMAIN rdrJobs[r] : rdrJobs[r][i] \notin atServer[r]

Places1 ==
  /\ \A q \in Requests, r \in Readers : Marks(q, r) /\ Waits1(q, r)
  /\ \A t \in Requests \cup Readers : Calls(t)
  /\ \A r \in Readers : Joined(r) /\ JobOnce(r)

\* What a step makes of At and Called
AtNew(r, q)  == q \in atServer'[r] \/ \E i \in DOMAIN rdrJobs'[r] : rdrJobs'[r][i] = q
CalledNew(f) == /\ "SENT" \in status'[f.q][f.r]
                /\ f.op = "record" /\ f.ans = "limited" => ~AtNew(f.r, f.q)

\* What is given to a reader stays given, and is not asked for again.
Stable ==
  \A q \in Requests, r \in Readers : "SENT" \in status[q][r] =>
    "SENT" \in status'[q][r] /\ (AtNew(r, q) => At(r, q))

LEMMA InitPlaces == ASSUME Init PROVE Places1
<1>1. \A q \in Requests, r \in Readers : Marks(q, r) /\ Waits1(q, r)
  BY DEF Init, Marks, Waits1, At, Gone, E_FOUND, E_TIMEOUT, E_UNHANDLED
<1>2. \A t \in Requests \cup Readers : Calls(t)
  BY DEF Init, Calls
<1>3. \A r \in Readers : Joined(r) /\ JobOnce(r)
  BY DEF Init, Joined, JobOnce
<1> QED BY <1>1, <1>2, <1>3 DEF Places1

LEMMA CalledKept ==
  ASSUME Stable, NEW f, f.q \in Requests, f.r \in Readers, Called(f)
  PROVE  CalledNew(f)
  BY DEF Stable, Called, CalledNew, Gone

LEMMA CallsNew ==
  ASSUME NEW t, \A i \in DOMAIN frames'[t] : CalledNew(frames'[t][i])
  PROVE  Calls(t)'
  BY DEF Calls, Called, CalledNew, Gone, At, AtNew

LEMMA CallIs ==
  ASSUME Fields, Places1, NEW t \in Requests \cup Readers, NEW i \in DOMAIN frames[t]
  PROVE  /\ frames[t][i] \in FrameType /\ Called(frames[t][i])
         /\ frames[t][i].q \in Requests /\ frames[t][i].r \in Readers
<1>1. frames[t] \in Seq(FrameType)
  BY DEF Fields, FrOK
<1>2. frames[t][i] \in FrameType
  BY <1>1
<1> QED BY <1>2 DEF FrameType, Places1, Calls

\* The calls of a thread that goes on with them
LEMMA CallsSame ==
  ASSUME Fields, Places1, Stable, NEW t \in Requests \cup Readers, frames'[t] = frames[t]
  PROVE  Calls(t)'
<1>1. ASSUME NEW i \in DOMAIN frames[t] PROVE CalledNew(frames[t][i])
  BY CallIs, CalledKept
<1> QED BY <1>1, CallsNew

\* What is left of a list of calls when the innermost one has made others and ended
LEMMA CallsLeft ==
  ASSUME FrOK, NEW t \in Requests \cup Readers, Busy(t),
         NEW new \in Seq(FrameType), frames' = [frames EXCEPT ![t] = new \o Tail(@)]
  PROVE  /\ \A u \in Requests \cup Readers : u # t => frames'[u] = frames[u]
         /\ \A i \in DOMAIN frames'[t] :
              \/ i \in DOMAIN new /\ frames'[t][i] = new[i]
              \/ \E j \in DOMAIN frames[t] : frames'[t][i] = frames[t][j]
         /\ \A i \in DOMAIN new : i \in DOMAIN frames'[t] /\ frames'[t][i] = new[i]
         /\ \A j \in DOMAIN frames[t] :
              j = 1 \/ \E i \in DOMAIN frames'[t] : frames'[t][i] = frames[t][j]
<1> DEFINE old == frames[t]
           rest == Tail(old)
<1>1. old \in Seq(FrameType) /\ old # <<>> /\ frames'[t] = new \o rest
  BY DEF FrOK, Busy
<1> HIDE DEF old
<1>2. /\ rest \in Seq(FrameType) /\ Len(old) \in Nat \ {0} /\ Len(rest) = Len(old) - 1
      /\ \A i \in DOMAIN rest : i + 1 \in DOMAIN old /\ rest[i] = old[i + 1]
  BY <1>1, SeqParts
<1> HIDE DEF rest
<1>3. /\ new \o rest \in Seq(FrameType) /\ Len(new \o rest) = Len(new) + Len(rest)
      /\ \A i \in DOMAIN new : i \in DOMAIN (new \o rest) /\ (new \o rest)[i] = new[i]
      /\ \A k \in DOMAIN rest : Len(new) + k \in DOMAIN (new \o rest) /\ (new \o rest)[Len(new) + k] = rest[k]
  BY <1>1, <1>2
<1>4. ASSUME NEW i \in DOMAIN (new \o rest)
      PROVE  \/ i \in DOMAIN new /\ (new \o rest)[i] = new[i]
             \/ \E j \in DOMAIN old : (new \o rest)[i] = old[j]
  <2>1. CASE i <= Len(new)
    BY <2>1, <1>2, <1>3
  <2>2. CASE i > Len(new)
    <3> DEFINE k == i - Len(new)
    <3>1. k \in DOMAIN rest /\ Len(new) + k = i
      BY <1>2, <1>3, <2>2
    <3> HIDE DEF k
    <3>2. (new \o rest)[i] = rest[k]
      BY <1>3, <3>1
    <3> QED BY <1>2, <3>1, <3>2
  <2> QED BY <1>3, <2>1, <2>2
<1>5. ASSUME NEW j \in DOMAIN old, j # 1
      PROVE  \E i \in DOMAIN (new \o rest) : (new \o rest)[i] = old[j]
  <2> DEFINE k == j - 1
  <2>1. k \in DOMAIN rest /\ k + 1 = j
    BY <1>1, <1>2, <1>5
  <2> HIDE DEF k
  <2> QED BY <1>2, <1>3, <2>1
<1>6. \A u \in Requests \cup Readers : u # t => frames'[u] = frames[u]
  BY DEF FrOK
<1>7. /\ \A i \in DOMAIN frames'[t] :
           \/ i \in DOMAIN new /\ frames'[t][i] = new[i]
           \/ \E j \in DOMAIN frames[t] : frames'[t][i] = frames[t][j]
      /\ \A i \in DOMAIN new : i \in DOMAIN frames'[t] /\ frames'[t][i] = new[i]
  BY <1>1, <1>3, <1>4 DEF old
<1>8. \A j \in DOMAIN frames[t] :
        j = 1 \/ \E i \in DOMAIN frames'[t] : frames'[t][i] = frames[t][j]
  BY <1>1, <1>5 DEF old
<1> QED BY <1>6, <1>7, <1>8

LEMMA CallsStay ==
  ASSUME Fields, NEW t \in Requests \cup Readers, Busy(t),
         NEW new \in Seq(FrameType), frames' = [frames EXCEPT ![t] = new \o Tail(@)]
  PROVE  /\ \A i \in DOMAIN new : \E j \in DOMAIN frames'[t] : frames'[t][j] = new[i]
         /\ \A u \in Requests \cup Readers : \A i \in DOMAIN frames[u] :
              (u = t /\ i = 1) \/ \E j \in DOMAIN frames'[u] : frames'[u][j] = frames[u][i]
<1>1. FrOK
  BY DEF Fields
<1>2. /\ \A u \in Requests \cup Readers : u # t => frames'[u] = frames[u]
      /\ \A i \in DOMAIN new : i \in DOMAIN frames'[t] /\ frames'[t][i] = new[i]
      /\ \A j \in DOMAIN frames[t] :
           j = 1 \/ \E i \in DOMAIN frames'[t] : frames'[t][i] = frames[t][j]
  BY <1>1, CallsLeft
<1>3. ASSUME NEW u \in Requests \cup Readers, NEW i \in DOMAIN frames[u], ~(u = t /\ i = 1)
      PROVE  \E j \in DOMAIN frames'[u] : frames'[u][j] = frames[u][i]
  <2>1. CASE u = t
    <3>1. i \in DOMAIN frames[t] /\ i # 1
      BY <1>3, <2>1
    <3>2. \E j \in DOMAIN frames'[t] : frames'[t][j] = frames[t][i]
      BY <1>2, <3>1
    <3> QED BY <2>1, <3>2
  <2>2. CASE u # t
    <3>1. frames'[u] = frames[u]
      BY <1>2, <2>2
    <3> QED BY <3>1
  <2> QED BY <2>1, <2>2
<1> QED BY <1>2, <1>3

LEMMA CallsReplaced ==
  ASSUME Fields, Places1, Stable, NEW t \in Requests \cup Readers, Busy(t),
         NEW new \in Seq(FrameType), frames' = [frames EXCEPT ![t] = new \o Tail(@)],
         \A i \in DOMAIN new : CalledNew(new[i])
  PROVE  \A u \in Requests \cup Readers : Calls(u)'
<1>1. \A u \in Requests \cup Readers : u # t => Calls(u)'
  BY CallsLeft, CallsSame DEF Fields
<1>2. ASSUME NEW i \in DOMAIN frames'[t] PROVE CalledNew(frames'[t][i])
  <2>1. \/ i \in DOMAIN new /\ frames'[t][i] = new[i]
        \/ \E j \in DOMAIN frames[t] : frames'[t][i] = frames[t][j]
    BY CallsLeft DEF Fields
  <2>2. \A j \in DOMAIN frames[t] : CalledNew(frames[t][j])
    BY CallIs, CalledKept
  <2> QED BY <2>1, <2>2
<1> QED BY <1>1, <1>2, CallsNew

\* Steps that leave the answers alone and only take requests from the readers
LEMMA PlacesKept ==
  ASSUME Fields, Places1, UNCHANGED <<eaVars, ecmcwcache>>,
         \A q \in Requests : client'[q] = "new" => client[q] = "new",
         \A q \in Requests, r \in Readers : AtNew(r, q) => At(r, q),
         \A r \in Readers : dup'[r] \in {dup[r], <<>>} /\ JobOnce(r)',
         \A t \in Requests \cup Readers : Calls(t)'
  PROVE  Places1'
<1>1. ASSUME NEW q \in Requests, NEW r \in Readers PROVE Marks(q, r)' /\ Waits1(q, r)'
  <2>1. Marks(q, r) /\ Waits1(q, r)
    BY DEF Places1
  <2>2. Marks(q, r)'
    BY <2>1 DEF Marks, Listed, eaVars
  <2>3. Waits1(q, r)'
    BY <2>1 DEF Waits1, Gone, eaVars, At, AtNew
  <2> QED BY <2>2, <2>3
<1>2. ASSUME NEW r \in Readers PROVE Joined(r)'
  BY DEF Places1, Joined, eaVars
<1> QED BY <1>1, <1>2 DEF Places1

LEMMA StableKept ==
  ASSUME UNCHANGED status, \A q \in Requests, r \in Readers : AtNew(r, q) => At(r, q)
  PROVE  Stable
  BY DEF Stable

\* Steps of the client's thread, the timers, the clock and the peers
LEMMA QuietPlaces ==
  ASSUME Fields, Places1, UNCHANGED <<eaVars, rdrVars, ecmcwcache>>,
         \A q \in Requests : client'[q] = "new" => client[q] = "new",
         \A t \in Requests \cup Readers : Calls(t)' \/ frames'[t] = frames[t]
  PROVE  Places1'
<1>1. \A q \in Requests, r \in Readers : AtNew(r, q) <=> At(r, q)
  BY DEF At, AtNew, rdrVars
<1>2. Stable
  BY <1>1, StableKept DEF eaVars
<1>3. \A t \in Requests \cup Readers : Calls(t)'
  BY <1>2, CallsSame
<1>4. \A r \in Readers : dup'[r] = dup[r] /\ JobOnce(r)'
  BY DEF Places1, JobOnce, rdrVars
<1> QED BY <1>1, <1>3, <1>4, PlacesKept

\* get_cw: a new request has been given to nobody.
LEMMA GetCwPlaces ==
  ASSUME Fields, Places1, NEW q \in Requests, GetCw(q) \/ GetCwCached(q) \/ GetCwNoReader(q)
  PROVE  Places1'
<1>1. CASE GetCw(q)
  <2>1. PICK sel : status' = [status EXCEPT ![q] = [r \in Readers |-> FirstStatus(r, sel)]]
    BY <1>1 DEF GetCw
  <2>2. /\ client[q] = "new" /\ client' = [client EXCEPT ![q] = "waiting"]
        /\ ecmcwcache' = <<q>> \o ecmcwcache
        /\ UNCHANGED <<earc, rcEx, isPending, pending, rdrVars, frames>>
    BY <1>1 DEF GetCw
  <2>3. \A r \in Readers : "SENT" \notin FirstStatus(r, sel) /\ "ANSWERED" \notin FirstStatus(r, sel)
    BY ReadersAssumption DEF FirstStatus, KindFlags
  <2>4. \A p \in Requests, r \in Readers :
          status'[p][r] = IF p = q THEN FirstStatus(r, sel) ELSE status[p][r]
    BY <2>1 DEF Fields, EaOK
  <2>5. \A r \in Readers : "SENT" \notin status[q][r] /\ earc[q][r] = E_UNHANDLED /\ ~At(r, q)
                           /\ ~isPending[q][r] /\ rcEx[q][r] # "limit"
    BY <2>2 DEF Places1, Marks, Waits1, Gone
  <2>6. \A p \in Requests, r \in Readers : AtNew(r, p) <=> At(r, p)
    BY <2>2 DEF At, AtNew, rdrVars
  <2>7. Stable
    BY <2>4, <2>5, <2>6 DEF Stable
  <2>8. \A p \in Requests : (Listed(p) \/ p = q) => Listed(p)'
    <3>1. ecmcwcache \in Seq(Requests)
      BY DEF Fields, ClOK
    <3>2. 1 \in DOMAIN (<<q>> \o ecmcwcache) /\ (<<q>> \o ecmcwcache)[1] = q
      BY <3>1
    <3>3. \A i \in DOMAIN ecmcwcache : /\ 1 + i \in DOMAIN (<<q>> \o ecmcwcache)
                                       /\ (<<q>> \o ecmcwcache)[1 + i] = ecmcwcache[i]
      BY <3>1
    <3> QED BY <2>2, <3>2, <3>3 DEF Listed
  <2>9. ASSUME NEW p \in Requests, NEW r \in Readers PROVE Marks(p, r)' /\ Waits1(p, r)'
    <3>1. Marks(p, r) /\ Waits1(p, r)
      BY DEF Places1
    <3>2. client'[p] = "new" => client[p] = "new" /\ p # q
      BY <2>2 DEF Fields, ClOK
    <3>3. Marks(p, r)'
      <4>1. CASE p = q
        BY <2>2, <2>3, <2>4, <2>5, <2>8, <3>2, <4>1 DEF Marks, E_FOUND, E_TIMEOUT, E_UNHANDLED
      <4>2. CASE p # q
        BY <2>2, <2>4, <2>8, <3>1, <3>2, <4>2 DEF Marks
      <4> QED BY <4>1, <4>2
    <3>4. Waits1(p, r)'
      BY <2>2, <2>4, <2>5, <2>6, <3>1 DEF Waits1, Gone, At, AtNew
    <3> QED BY <3>3, <3>4
  <2>10. \A t \in Requests \cup Readers : Calls(t)'
    BY <2>2, <2>7, CallsSame
  <2>11. \A r \in Readers : Joined(r)' /\ JobOnce(r)'
    BY <2>2 DEF Places1, Joined, JobOnce, rdrVars
  <2> QED BY <2>9, <2>10, <2>11 DEF Places1
<1>2. CASE GetCwCached(q) \/ GetCwNoReader(q)
  <2>1. UNCHANGED <<eaVars, rdrVars, ecmcwcache, frames>> /\ client' = [client EXCEPT ![q] = "waiting"]
    BY <1>2 DEF GetCwCached, GetCwNoReader
  <2> QED BY <2>1, QuietPlaces DEF Fields, ClOK
<1> QED BY <1>1, <1>2

\* request_cw_from_readers: a reader is given what it has not been given yet.
LEMMA AskPlaces ==
  ASSUME Fields, Places1, NEW q \in Requests, Ask(q)
  PROVE  Places1'
<1> DEFINE now == {r \in Readers : Eligible(q, r, NextStage(q, stage[q]))}
<1>1. /\ status' = [status EXCEPT ![q] =
                [r \in Readers |-> IF r \in now THEN @[r] \cup {"SENT"} ELSE @[r]]]
      /\ rdrJobs' = [r \in Readers |-> IF r \in now THEN Append(rdrJobs[r], q) ELSE rdrJobs[r]]
      /\ UNCHANGED <<earc, rcEx, isPending, pending, dup, atServer, frames, client, ecmcwcache>>
  BY DEF Ask
<1>2. \A r \in now : r \in Readers /\ "SENT" \notin status[q][r] /\ "ACTIVE" \in status[q][r]
  BY DEF Eligible
<1> HIDE DEF now
<1>3. \A p \in Requests, r \in Readers :
        status'[p][r] = IF p = q /\ r \in now THEN status[p][r] \cup {"SENT"} ELSE status[p][r]
  BY <1>1 DEF Fields, EaOK
<1>4. \A r \in now : ~At(r, q)
  BY <1>2 DEF Places1, Waits1
<1>5. ASSUME NEW r \in Readers
      PROVE  /\ rdrJobs[r] \in Seq(Requests)
             /\ r \notin now => rdrJobs'[r] = rdrJobs[r]
             /\ r \in now => /\ rdrJobs'[r] = Append(rdrJobs[r], q)
                             /\ \A i \in DOMAIN rdrJobs'[r] :
                                  \/ i = Len(rdrJobs[r]) + 1 /\ rdrJobs'[r][i] = q
                                  \/ i \in DOMAIN rdrJobs[r] /\ rdrJobs'[r][i] = rdrJobs[r][i]
  <2>1. rdrJobs[r] \in Seq(Requests)
    BY DEF Fields, RdrOK
  <2> QED BY <1>1, <2>1
<1>6. \A p \in Requests, r \in Readers : AtNew(r, p) => At(r, p) \/ (p = q /\ r \in now)
  BY <1>1, <1>5 DEF At, AtNew
<1>7. Stable
  BY <1>2, <1>3, <1>6 DEF Stable
<1>8. ASSUME NEW p \in Requests, NEW r \in Readers PROVE Marks(p, r)' /\ Waits1(p, r)'
  <2>1. Marks(p, r) /\ Waits1(p, r)
    BY DEF Places1
  <2>2. Marks(p, r)'
    BY <1>1, <1>2, <1>3, <2>1 DEF Marks, Listed
  <2>3. AtNew(r, p) => "SENT" \in status'[p][r]
    BY <1>3, <1>6, <2>1 DEF Waits1
  <2>4. isPending[p][r] \/ rcEx[p][r] = "limit" => "SENT" \in status'[p][r] /\ ~AtNew(r, p)
    BY <1>7, <2>1 DEF Waits1, Gone, Stable
  <2>5. Waits1(p, r)'
    BY <1>1, <2>3, <2>4 DEF Waits1, Gone, At, AtNew
  <2> QED BY <2>2, <2>5
<1>9. \A t \in Requests \cup Readers : Calls(t)'
  BY <1>1, <1>7, CallsSame
<1>10. ASSUME NEW r \in Readers PROVE Joined(r)' /\ JobOnce(r)'
  <2>1. Joined(r)'
    BY <1>1 DEF Places1, Joined
  <2>2. JobOnce(r)'
    <3>1. CASE r \notin now
      BY <1>1, <1>5, <3>1 DEF Places1, JobOnce
    <3>2. CASE r \in now
      <4>1. \A i \in DOMAIN rdrJobs[r] : rdrJobs[r][i] # q
        BY <1>4, <3>2 DEF At
      <4>2. q \notin atServer[r]
        BY <1>4, <3>2 DEF At
      <4> QED BY <1>1, <1>5, <3>2, <4>1, <4>2 DEF Places1, JobOnce
    <3> QED BY <3>1, <3>2
  <2> QED BY <2>1, <2>2
<1> QED BY <1>8, <1>9, <1>10 DEF Places1

\* The other steps of a client's thread
LEMMA ClientPlaces ==
  ASSUME Fields, Places1, NEW q \in Requests, ClientStep(q)
  PROVE  Places1'
<1>1. CASE Ask(q)
  BY <1>1, AskPlaces
<1>2. CASE EcmTimeout(q)
  <2>1. UNCHANGED <<eaVars, rdrVars, ecmcwcache, client>>
    BY <1>2 DEF EcmTimeout
  <2>2. \A p \in Requests, r \in Readers : AtNew(r, p) <=> At(r, p)
    BY <2>1 DEF At, AtNew, rdrVars
  <2>3. CASE frames' = frames
    BY <2>1, <2>3, QuietPlaces
  <2>4. CASE frames' # frames
    <3> DEFINE owing == {i \in DOMAIN MatchingRdr :
                          LET f == status[q][MatchingRdr[i]] IN "SENT" \in f /\ "ANSWERED" \notin f}
    <3>1. PICK order \in [1 .. Cardinality(owing) -> owing] :
            frames' = [frames EXCEPT ![q] =
              [n \in DOMAIN order |-> Frame("record", q, MatchingRdr[order[n]], "timeout")]]
      BY <1>2, <2>4 DEF EcmTimeout
    <3> DEFINE fs == [n \in DOMAIN order |-> Frame("record", q, MatchingRdr[order[n]], "timeout")]
    <3>2. ASSUME NEW n \in DOMAIN fs PROVE CalledNew(fs[n])
      <4>1. order[n] \in owing
        OBVIOUS
      <4>2. "SENT" \in status[q][MatchingRdr[order[n]]]
        BY <4>1
      <4> QED BY <2>1, <4>2 DEF CalledNew, Frame, eaVars
    <3>3. frames'[q] = fs /\ \A t \in Requests \cup Readers : t # q => frames'[t] = frames[t]
      BY <3>1 DEF Fields, FrOK
    <3> HIDE DEF fs
    <3>4. Calls(q)'
      BY <3>2, <3>3, CallsNew
    <3> QED BY <2>1, <3>3, <3>4, QuietPlaces
  <2> QED BY <2>3, <2>4
<1>3. CASE ~Ask(q) /\ ~EcmTimeout(q)
  <2>1. UNCHANGED <<eaVars, rdrVars, frames, client, ecmcwcache>>
    BY <1>3 DEF ClientStep, Scan, AfterCacheexScan, AfterScan, GiveVerdict, CacheexMode1Delay,
       CacheexTimeout, CacheexTimeoutHit, FallbackTimeout, FallbackAgain, SendTimeout,
       AnswerFromCache, ChkDcw, erVars
  <2> QED BY <2>1, QuietPlaces
<1> QED BY <1>1, <1>2, <1>3

LEMMA OutsidePlaces ==
  ASSUME Fields, Places1,
         \/ \E q \in Requests : TimerStep(q) \/ Tick(q) \/ Disconnect(q)
         \/ \E e \in Ecms : PeerPushes(e)
         \/ UNCHANGED vars
  PROVE  Places1'
<1>1. UNCHANGED <<eaVars, rdrVars, frames, ecmcwcache>>
  BY DEF TimerStep, PostCacheexTimeout, PostMode1Delay, PostFallbackTimeout, PostClientTimeout,
     PostCacheHit, Posts, Tick, Disconnect, PeerPushes, vars, erVars
<1>2. \A q \in Requests : client'[q] = "new" => client[q] = "new"
  <2>1. \/ client' = client
        \/ \E q \in Requests : client' = [client EXCEPT ![q] = "killed"]
    BY DEF TimerStep, PostCacheexTimeout, PostMode1Delay, PostFallbackTimeout, PostClientTimeout,
     PostCacheHit, Posts, Tick, Disconnect, PeerPushes, vars, clVars
  <2> QED BY <2>1 DEF Fields, ClOK
<1> QED BY <1>1, <1>2, QuietPlaces

\* What write_ecm_answer does to the answer of q and r
RecordedAs(q, r, ans) ==
  /\ "ANSWERED" \notin status[q][r]
  /\ earc' = [earc EXCEPT ![q][r] = Code(ans)]
  /\ rcEx' = [rcEx EXCEPT ![q][r] = CodeEx(ans)]
  /\ \A p \in Requests, s \in Readers :
       /\ "SENT" \in status'[p][s] <=> "SENT" \in status[p][s]
       /\ "ACTIVE" \in status'[p][s] => "ACTIVE" \in status[p][s]
       /\ "ANSWERED" \in status[p][s] => "ANSWERED" \in status'[p][s]
       /\ "ANSWERED" \in status'[p][s] /\ "ANSWERED" \notin status[p][s] => p = q /\ s = r
  /\ ans # "foreign" => "ANSWERED" \in status'[q][r]

LEMMA RecordEffect ==
  ASSUME Fields, NEW t \in Requests \cup Readers, Record(t)
  PROVE  LET q == Top(t).q    r == Top(t).r    ans == Top(t).ans IN
         /\ q \in Requests /\ r \in Readers /\ ans \in AnswerKinds /\ Busy(t)
         /\ Top(t) = frames[t][1] /\ 1 \in DOMAIN frames[t] /\ Top(t).op = "record"
         /\ UNCHANGED <<isPending, pending, rdrVars, age, ecmcwcache, client, jobs, cached>>
         /\ \/ /\ age[q] = Late \/ "ANSWERED" \in status[q][r]
               /\ frames' = [frames EXCEPT ![t] = <<>> \o Tail(@)]
               /\ UNCHANGED <<status, earc, rcEx>>
            \/ /\ RecordedAs(q, r, ans)
               /\ frames' = [frames EXCEPT ![t] = <<Frame("publish", q, r, ans)>> \o Tail(@)]
<1> DEFINE q == Top(t).q
           r == Top(t).r
           ans == Top(t).ans
<1>1. /\ q \in Requests /\ r \in Readers /\ ans \in AnswerKinds /\ Tail(frames[t]) \in Seq(FrameType)
      /\ Busy(t) /\ Top(t) = frames[t][1] /\ Top(t).op = "record"
      /\ UNCHANGED <<isPending, pending, rdrVars, age, ecmcwcache, client, jobs, cached>>
  BY TopIn DEF Record, Fields, clVars
<1>2. 1 \in DOMAIN frames[t]
  BY <1>1, SeqParts DEF Busy, Fields, FrOK
<1>3. <<>> \o Tail(frames[t]) = Tail(frames[t])
  BY <1>1
<1>4. CASE age[q] = Late \/ "ANSWERED" \in status[q][r]
  BY <1>1, <1>2, <1>3, <1>4 DEF Record, Pop
<1>5. CASE ~(age[q] = Late \/ "ANSWERED" \in status[q][r])
  <2> DEFINE answered == IF ans = "foreign" THEN {} ELSE {"ANSWERED"}
  <2>1. /\ earc' = [earc EXCEPT ![q][r] = Code(ans)]
        /\ rcEx' = [rcEx EXCEPT ![q][r] = CodeEx(ans)]
        /\ status' = [status EXCEPT ![q] =
                  [s \in Readers |->
                     (IF ans = "badecm" THEN @[s] \ {"ACTIVE", "FALLBACK"} ELSE @[s])
                       \cup (IF s = r THEN answered ELSE {})]]
        /\ frames' = [frames EXCEPT ![t] = <<Frame("publish", q, r, ans)>> \o Tail(@)]
    BY <1>5 DEF Record
  <2>2. answered \subseteq {"ANSWERED"} /\ (ans # "foreign" => "ANSWERED" \in answered)
    OBVIOUS
  <2> HIDE DEF q, r, ans, answered
  <2>3. \A p \in Requests, s \in Readers :
          status'[p][s] =
            IF p = q
            THEN (IF ans = "badecm" THEN status[q][s] \ {"ACTIVE", "FALLBACK"} ELSE status[q][s])
                       \cup (IF s = r THEN answered ELSE {})
            ELSE status[p][s]
    BY <1>1, <2>1 DEF Fields, EaOK
  <2>4. ASSUME NEW p \in Requests, NEW s \in Readers
        PROVE  /\ "SENT" \in status'[p][s] <=> "SENT" \in status[p][s]
               /\ "ACTIVE" \in status'[p][s] => "ACTIVE" \in status[p][s]
               /\ "ANSWERED" \in status[p][s] => "ANSWERED" \in status'[p][s]
               /\ "ANSWERED" \in status'[p][s] /\ "ANSWERED" \notin status[p][s] => p = q /\ s = r
    <3> DEFINE old   == status[p][s]
               base  == IF ans = "badecm" THEN status[q][s] \ {"ACTIVE", "FALLBACK"} ELSE status[q][s]
               extra == IF s = r THEN answered ELSE {}
    <3>1. CASE p = q
      <4>1. status'[p][s] = base \cup extra
        BY <2>3, <3>1
      <4>2. /\ base \subseteq old /\ \A x \in old : x \in base \/ x \in {"ACTIVE", "FALLBACK"}
            /\ extra \subseteq {"ANSWERED"} /\ (extra # {} => s = r)
        BY <2>2, <3>1
      <4> HIDE DEF base, extra, old
      <4>3. /\ "SENT" \in status'[p][s] <=> "SENT" \in old
            /\ "ACTIVE" \in status'[p][s] => "ACTIVE" \in old
            /\ "ANSWERED" \in old => "ANSWERED" \in status'[p][s]
            /\ "ANSWERED" \in status'[p][s] /\ "ANSWERED" \notin old => s = r
        BY <4>1, <4>2
      <4> QED BY <3>1, <4>3 DEF old
    <3>2. CASE p # q
      BY <2>3, <3>2
    <3> QED BY <3>1, <3>2
  <2>5. ans # "foreign" => "ANSWERED" \in status'[q][r]
    BY <1>1, <2>2, <2>3
  <2>6. RecordedAs(q, r, ans)
    BY <1>5, <2>1, <2>4, <2>5 DEF RecordedAs
  <2> QED BY <1>1, <1>2, <2>1, <2>6 DEF q, r, ans
<1> QED BY <1>4, <1>5

LEMMA RecordPlaces ==
  ASSUME Fields, Places1, NEW t \in Requests \cup Readers, Record(t)
  PROVE  Places1'
<1> DEFINE q == Top(t).q
           r == Top(t).r
           ans == Top(t).ans
<1>1. /\ q \in Requests /\ r \in Readers /\ ans \in AnswerKinds /\ Busy(t)
      /\ UNCHANGED <<isPending, pending, rdrVars, ecmcwcache, client>>
  BY RecordEffect
<1>2. "SENT" \in status[q][r] /\ (ans = "limited" => Gone(q, r))
  <2>1. Called(Top(t)) /\ Top(t).op = "record"
    BY RecordEffect, CallIs
  <2> QED BY <2>1 DEF Called
<1>3. \A p \in Requests, s \in Readers : AtNew(s, p) <=> At(s, p)
  BY <1>1 DEF At, AtNew, rdrVars
<1>4. CASE /\ frames' = [frames EXCEPT ![t] = <<>> \o Tail(@)]
           /\ UNCHANGED <<status, earc, rcEx>>
  <2>1. Stable
    BY <1>3, <1>4, StableKept
  <2>2. \A u \in Requests \cup Readers : Calls(u)'
    <3>1. <<>> \in Seq(FrameType) /\ DOMAIN <<>> = {}
      OBVIOUS
    <3> QED BY <1>1, <1>4, <2>1, <3>1, CallsReplaced
  <2> QED BY <1>1, <1>4, <2>2, QuietPlaces DEF eaVars
<1>5. CASE /\ RecordedAs(q, r, ans)
           /\ frames' = [frames EXCEPT ![t] = <<Frame("publish", q, r, ans)>> \o Tail(@)]
  <2> HIDE DEF q, r, ans
  <2>1. \A p \in Requests, s \in Readers :
          /\ earc'[p][s] = IF p = q /\ s = r THEN Code(ans) ELSE earc[p][s]
          /\ rcEx'[p][s] = IF p = q /\ s = r THEN CodeEx(ans) ELSE rcEx[p][s]
    BY <1>1, <1>5 DEF RecordedAs, Fields, EaOK
  <2>2. Stable
    BY <1>3, <1>5 DEF Stable, RecordedAs
  <2>3. \A u \in Requests \cup Readers : Calls(u)'
    <3> DEFINE new == <<Frame("publish", q, r, ans)>>
    <3>1. new \in Seq(FrameType)
      BY <1>1, FrameIn
    <3>2. \A i \in DOMAIN new : CalledNew(new[i])
      <4>1. \A i \in DOMAIN new : new[i] = Frame("publish", q, r, ans)
        OBVIOUS
      <4> QED BY <1>1, <1>2, <1>5, <4>1 DEF CalledNew, Frame, RecordedAs
    <3> HIDE DEF new
    <3>3. frames' = [frames EXCEPT ![t] = new \o Tail(@)]
      BY <1>5 DEF new
    <3> QED BY <1>1, <2>2, <3>1, <3>2, <3>3, CallsReplaced
  <2>4. ASSUME NEW p \in Requests, NEW s \in Readers PROVE Marks(p, s)' /\ Waits1(p, s)'
    <3>1. Marks(p, s) /\ Waits1(p, s)
      BY DEF Places1
    <3>2. Code(ans) # E_UNHANDLED /\ (Code(ans) \in {E_FOUND, E_TIMEOUT} => ans # "foreign")
          /\ (CodeEx(ans) = "limit" => ans = "limited")
      BY DEF Code, CodeEx, E_FOUND, E_TIMEOUT, E_UNHANDLED, E_NOTFOUND, E_INVALID
    <3>3. Marks(p, s)'
      BY <1>1, <1>2, <1>5, <2>1, <3>1, <3>2 DEF Marks, Listed, RecordedAs
    <3>4. Waits1(p, s)'
      BY <1>1, <1>2, <1>3, <1>5, <2>1, <3>1, <3>2 DEF Waits1, Gone, At, AtNew, RecordedAs
    <3> QED BY <3>3, <3>4
  <2>5. \A s \in Readers : Joined(s)' /\ JobOnce(s)'
    BY <1>1 DEF Places1, Joined, JobOnce, rdrVars
  <2> QED BY <2>3, <2>4, <2>5 DEF Places1
<1> QED BY <1>4, <1>5, RecordEffect

\* distribute_ea, and the store of the CW
LEMMA PublishEffect ==
  ASSUME Fields, NEW t \in Requests \cup Readers, Publish(t)
  PROVE  LET q == Top(t).q    r == Top(t).r IN
         /\ q \in Requests /\ r \in Readers /\ Busy(t)
         /\ Top(t) = frames[t][1] /\ 1 \in DOMAIN frames[t] /\ Top(t).op = "publish"
         /\ UNCHANGED <<eaVars, rdrVars, age, ecmcwcache, client, cached>>
         /\ pending[q][r] \in Seq(Requests)
         /\ \E new \in Seq(FrameType) :
              /\ frames' = [frames EXCEPT ![t] = new \o Tail(@)]
              /\ \A i \in DOMAIN new :
                   \/ \E k \in DOMAIN pending[q][r] :
                        new[i] = Frame("record", pending[q][r][k], r, Shared(q, r))
                   \/ new[i] = Frame("store", q, r, "found") /\ earc[q][r] = E_FOUND
              /\ \A k \in DOMAIN pending[q][r] : \E i \in DOMAIN new :
                   new[i] = Frame("record", pending[q][r][k], r, Shared(q, r))
<1> DEFINE q == Top(t).q
           r == Top(t).r
           others == [i \in DOMAIN pending[q][r] |->
                        Frame("record", pending[q][r][i], r, Shared(q, r))]
           store  == IF earc[q][r] = E_FOUND /\ ~isPending[q][r]
                     THEN <<Frame("store", q, r, "found")>> ELSE <<>>
<1>1. /\ q \in Requests /\ r \in Readers /\ Tail(frames[t]) \in Seq(FrameType) /\ Busy(t)
      /\ Top(t) = frames[t][1] /\ Top(t).op = "publish"
      /\ UNCHANGED <<eaVars, rdrVars, age, ecmcwcache, client, cached>>
      /\ frames' = [frames EXCEPT ![t] = others \o store \o Tail(@)]
  BY TopIn DEF Publish, Fields, erVars
<1>2. 1 \in DOMAIN frames[t]
  BY <1>1, SeqParts DEF Busy, Fields, FrOK
<1> HIDE DEF q, r
<1>3. pending[q][r] \in Seq(Requests)
  BY <1>1 DEF Fields, EaOK
<1>4. others \in Seq(FrameType) /\ DOMAIN others = DOMAIN pending[q][r]
  <2>1. \A i \in DOMAIN pending[q][r] : Frame("record", pending[q][r][i], r, Shared(q, r)) \in FrameType
    BY <1>1, <1>3, FrameIn, SharedIn
  <2>2. others \in [1 .. Len(pending[q][r]) -> FrameType]
    BY <1>3, <2>1
  <2> QED BY <1>3, <2>2, FrameSeq
<1>5. \A k \in DOMAIN pending[q][r] : others[k] = Frame("record", pending[q][r][k], r, Shared(q, r))
  OBVIOUS
<1>6. /\ store \in Seq(FrameType)
      /\ \A k \in DOMAIN store : store[k] = Frame("store", q, r, "found") /\ earc[q][r] = E_FOUND
  BY <1>1, FrameIn DEF AnswerKinds
<1> DEFINE new == others \o store
<1>7. new \o Tail(frames[t]) = others \o store \o Tail(frames[t])
  OBVIOUS
<1> HIDE DEF others, store
<1>8. new \in Seq(FrameType)
  BY <1>4, <1>6
<1>9. \A i \in DOMAIN others : i \in DOMAIN new /\ new[i] = others[i]
  BY <1>4, <1>6
<1>10. ASSUME NEW i \in DOMAIN new
       PROVE  \/ i \in DOMAIN others /\ new[i] = others[i]
              \/ \E k \in DOMAIN store : new[i] = store[k]
  <2>1. CASE i <= Len(others)
    BY <1>4, <1>6, <1>10, <2>1
  <2>2. CASE i > Len(others)
    <3> DEFINE k == i - Len(others)
    <3>1. k \in DOMAIN store /\ new[i] = store[k]
      BY <1>4, <1>6, <1>10, <2>2
    <3> QED BY <3>1
  <2> QED BY <1>4, <1>6, <1>10, <2>1, <2>2
<1>11. frames' = [frames EXCEPT ![t] = new \o Tail(@)]
  BY <1>1, <1>7
<1> HIDE DEF new
<1>12. /\ \A i \in DOMAIN new :
            \/ \E k \in DOMAIN pending[q][r] :
                 new[i] = Frame("record", pending[q][r][k], r, Shared(q, r))
            \/ new[i] = Frame("store", q, r, "found") /\ earc[q][r] = E_FOUND
       /\ \A k \in DOMAIN pending[q][r] : \E i \in DOMAIN new :
            new[i] = Frame("record", pending[q][r][k], r, Shared(q, r))
  BY <1>4, <1>5, <1>6, <1>9, <1>10
<1> QED BY <1>1, <1>2, <1>3, <1>8, <1>11, <1>12 DEF q, r

LEMMA PublishPlaces ==
  ASSUME Fields, Places1, NEW t \in Requests \cup Readers, Publish(t)
  PROVE  Places1'
<1> DEFINE q == Top(t).q
           r == Top(t).r
<1>1. /\ q \in Requests /\ r \in Readers /\ Busy(t) /\ pending[q][r] \in Seq(Requests)
      /\ UNCHANGED <<eaVars, rdrVars, ecmcwcache, client>>
      /\ "SENT" \in status[q][r]
  <2>1. Called(Top(t))
    BY PublishEffect, CallIs
  <2> QED BY <2>1, PublishEffect DEF Called
<1>2. PICK new \in Seq(FrameType) :
         /\ frames' = [frames EXCEPT ![t] = new \o Tail(@)]
         /\ \A i \in DOMAIN new :
              \/ \E k \in DOMAIN pending[q][r] :
                   new[i] = Frame("record", pending[q][r][k], r, Shared(q, r))
              \/ new[i] = Frame("store", q, r, "found")
  <2>1. PICK new \in Seq(FrameType) :
              /\ frames' = [frames EXCEPT ![t] = new \o Tail(@)]
              /\ \A i \in DOMAIN new :
                   \/ \E k \in DOMAIN pending[q][r] :
                        new[i] = Frame("record", pending[q][r][k], r, Shared(q, r))
                   \/ new[i] = Frame("store", q, r, "found") /\ earc[q][r] = E_FOUND
              /\ \A k \in DOMAIN pending[q][r] : \E i \in DOMAIN new :
                   new[i] = Frame("record", pending[q][r][k], r, Shared(q, r))
    BY PublishEffect
  <2> HIDE DEF q, r
  <2> QED BY <2>1
<1> HIDE DEF q, r
<1>3. \A p \in Requests, s \in Readers : AtNew(s, p) <=> At(s, p)
  BY <1>1 DEF At, AtNew, rdrVars
<1>4. Stable
  BY <1>1, <1>3, StableKept DEF eaVars
<1>5. ASSUME NEW k \in DOMAIN pending[q][r]
      PROVE  "SENT" \in status'[pending[q][r][k]][r] /\ ~AtNew(r, pending[q][r][k])
  <2>1. pending[q][r][k] \in Requests /\ isPending[pending[q][r][k]][r]
    BY <1>1 DEF Places1, Joined
  <2>2. Gone(pending[q][r][k], r)
    BY <1>1, <2>1 DEF Places1, Waits1
  <2> QED BY <1>1, <1>3, <2>1, <2>2 DEF Gone, eaVars
<1>6. \A i \in DOMAIN new : CalledNew(new[i])
  BY <1>1, <1>2, <1>5 DEF CalledNew, Frame, eaVars
<1>7. \A u \in Requests \cup Readers : Calls(u)'
  BY <1>1, <1>2, <1>4, <1>6, CallsReplaced
<1> QED BY <1>1, <1>7, QuietPlaces

LEMMA StorePlaces ==
  ASSUME Fields, Places1, NEW t \in Requests \cup Readers, Store(t)
  PROVE  Places1'
<1>1. Busy(t) /\ Pop(t) /\ UNCHANGED <<eaVars, rdrVars, ecmcwcache, client>>
  BY DEF Store, erVars, clVars
<1>2. <<>> \in Seq(FrameType) /\ DOMAIN <<>> = {} /\ <<>> \o Tail(frames[t]) = Tail(frames[t])
  BY <1>1, TopIn DEF Fields
<1>3. \A p \in Requests, s \in Readers : AtNew(s, p) <=> At(s, p)
  BY <1>1 DEF At, AtNew, rdrVars
<1>4. Stable
  BY <1>1, <1>3, StableKept DEF eaVars
<1>5. frames' = [frames EXCEPT ![t] = <<>> \o Tail(@)]
  BY <1>1, <1>2 DEF Pop
<1>6. \A u \in Requests \cup Readers : Calls(u)'
  BY <1>1, <1>2, <1>4, <1>5, CallsReplaced
<1> QED BY <1>1, <1>6, QuietPlaces

\* reader_get_ecm takes a job: the request is no longer in the list, and never was at the
\* server, pending, or refused by the rate limiter.
LEMMA JobTaken ==
  ASSUME Fields, Places1, NEW r \in Readers, GetsEcm(r)
  PROVE  LET q == Head(rdrJobs[r]) IN
         /\ q \in Requests /\ frames[r] = <<>> /\ dup[r] = <<>>
         /\ "SENT" \in status[q][r] /\ ~isPending[q][r] /\ rcEx[q][r] # "limit"
         /\ q \notin atServer[r] /\ \A i \in DOMAIN rdrJobs'[r] : rdrJobs'[r][i] # q
         /\ \A s \in Readers : \A i \in DOMAIN rdrJobs'[s] :
              \E j \in DOMAIN rdrJobs[s] : rdrJobs'[s][i] = rdrJobs[s][j]
         /\ \A s \in Readers : \A i, j \in DOMAIN rdrJobs'[s] : rdrJobs'[s][i] = rdrJobs'[s][j] => i = j
<1> DEFINE q == Head(rdrJobs[r])
           old == rdrJobs[r]
<1>1. /\ q \in Requests /\ frames[r] = <<>> /\ dup[r] = <<>>
      /\ old \in Seq(Requests) /\ old # <<>> /\ rdrJobs'[r] = Tail(old)
      /\ \A s \in Readers : s # r => rdrJobs'[s] = rdrJobs[s]
  BY NextJob DEF GetsEcm, Fields, RdrOK
<1>2. /\ q = old[1] /\ 1 \in DOMAIN old
      /\ \A i \in DOMAIN Tail(old) : i \in Nat \ {0} /\ i + 1 \in DOMAIN old /\ Tail(old)[i] = old[i + 1]
  BY <1>1, SeqParts
<1>3. \A i, j \in DOMAIN old : old[i] = old[j] => i = j
  BY DEF Places1, JobOnce
<1>4. \A i \in DOMAIN old : old[i] \notin atServer[r]
  BY DEF Places1, JobOnce
<1> HIDE DEF q, old
<1>5. \A i \in DOMAIN rdrJobs'[r] : rdrJobs'[r][i] # q
  BY <1>1, <1>2, <1>3
<1>6. \A i, j \in DOMAIN rdrJobs'[r] : rdrJobs'[r][i] = rdrJobs'[r][j] => i = j
  BY <1>1, <1>2, <1>3
<1>7. At(r, q) /\ q \notin atServer[r]
  BY <1>2, <1>4 DEF At, old
<1>8. "SENT" \in status[q][r] /\ ~isPending[q][r] /\ rcEx[q][r] # "limit"
  BY <1>1, <1>7 DEF Places1, Waits1, Gone
<1>9. ASSUME NEW s \in Readers
      PROVE  /\ \A i \in DOMAIN rdrJobs'[s] : \E j \in DOMAIN rdrJobs[s] : rdrJobs'[s][i] = rdrJobs[s][j]
             /\ \A i, j \in DOMAIN rdrJobs'[s] : rdrJobs'[s][i] = rdrJobs'[s][j] => i = j
  <2>1. CASE s = r
    <3>1. \A i \in DOMAIN rdrJobs'[r] : \E j \in DOMAIN old : rdrJobs'[r][i] = old[j]
      BY <1>1, <1>2
    <3> QED BY <1>6, <2>1, <3>1 DEF old
  <2>2. CASE s # r
    BY <1>1, <2>2 DEF Places1, JobOnce
  <2> QED BY <2>1, <2>2
<1> QED BY <1>1, <1>5, <1>7, <1>8, <1>9 DEF q

LEMMA AnswerBegun ==
  ASSUME Fields, NEW r \in Readers, NEW q \in Requests, NEW ans, WriteAnswer(r, q, ans)
  PROVE  /\ \A u \in Requests \cup Readers : u # r => frames'[u] = frames[u]
         /\ \A i \in DOMAIN frames'[r] : frames'[r][i] = Frame("record", q, r, ans)
         /\ \E i \in DOMAIN frames'[r] : frames'[r][i] = Frame("record", q, r, ans)
<1>1. /\ frames'[r] = <<Frame("record", q, r, ans)>>
      /\ \A u \in Requests \cup Readers : u # r => frames'[u] = frames[u]
  BY DEF WriteAnswer, Fields, FrOK
<1>2. /\ \A i \in DOMAIN <<Frame("record", q, r, ans)>> :
           <<Frame("record", q, r, ans)>>[i] = Frame("record", q, r, ans)
      /\ 1 \in DOMAIN <<Frame("record", q, r, ans)>>
  OBVIOUS
<1> QED BY <1>1, <1>2

LEMMA ReaderPlaces ==
  ASSUME Fields, Places1, NEW r \in Readers, ReaderStep(r)
  PROVE  Places1'
<1>0. UNCHANGED <<ecmcwcache, client, status, earc, rcEx>>
  BY DEF ReaderStep, RefuseEcm, FindSame, JoinSame, LimitEcm, ForwardEcm, clVars, erVars, eaVars
<1>1. CASE RefuseEcm(r) \/ LimitEcm(r)
  <2> DEFINE q == Head(rdrJobs[r])
  <2>1. /\ GetsEcm(r) /\ UNCHANGED <<eaVars, dup, atServer>>
        /\ \E ans \in AnswerKinds : WriteAnswer(r, q, ans)
    BY <1>1 DEF RefuseEcm, LimitEcm, AnswerKinds
  <2>2. /\ q \in Requests /\ "SENT" \in status[q][r] /\ q \notin atServer[r]
        /\ \A i \in DOMAIN rdrJobs'[r] : rdrJobs'[r][i] # q
    BY <2>1, JobTaken
  <2>3. \A p \in Requests, s \in Readers : AtNew(s, p) => At(s, p)
    BY <2>1, JobTaken DEF At, AtNew
  <2>4. \A s \in Readers : JobOnce(s)'
    BY <2>1, JobTaken DEF Places1, JobOnce
  <2>5. ~AtNew(r, q)
    BY <2>1, <2>2 DEF AtNew
  <2>6. Stable
    BY <2>1, <2>3, StableKept DEF eaVars
  <2> HIDE DEF q
  <2>7. \A u \in Requests \cup Readers : Calls(u)'
    <3>1. PICK ans \in AnswerKinds : WriteAnswer(r, q, ans)
      BY <2>1
    <3>2. CalledNew(Frame("record", q, r, ans))
      BY <1>0, <2>2, <2>5 DEF CalledNew, Frame
    <3> QED BY <2>2, <2>6, <3>1, <3>2, AnswerBegun, CallsSame, CallsNew
  <2> QED BY <1>0, <2>1, <2>3, <2>4, <2>7, PlacesKept
<1>2. CASE FindSame(r)
  <2> DEFINE q == Head(rdrJobs[r])
  <2>1. /\ GetsEcm(r) /\ UNCHANGED <<atServer, frames, pending>>
        /\ \E i \in Same(r, q) : dup' = [dup EXCEPT ![r] = <<q, ecmcwcache[i]>>]
        /\ isPending' = [isPending EXCEPT ![q][r] = TRUE]
    BY <1>2 DEF FindSame
  <2>2. /\ q \in Requests /\ "SENT" \in status[q][r] /\ q \notin atServer[r]
        /\ \A i \in DOMAIN rdrJobs'[r] : rdrJobs'[r][i] # q
    BY <2>1, JobTaken
  <2>3. \A p \in Requests, s \in Readers : AtNew(s, p) => At(s, p)
    BY <2>1, JobTaken DEF At, AtNew
  <2>4. \A s \in Readers : JobOnce(s)'
    BY <2>1, JobTaken DEF Places1, JobOnce
  <2>5. ~AtNew(r, q)
    BY <2>1, <2>2 DEF AtNew
  <2>6. Stable
    BY <1>0, <2>3, StableKept
  <2> HIDE DEF q
  <2>7. \A p \in Requests, s \in Readers :
          isPending'[p][s] = (isPending[p][s] \/ (p = q /\ s = r))
    <3>1. ASSUME NEW p \in Requests, NEW s \in Readers
          PROVE  isPending'[p][s] = IF p = q /\ s = r THEN TRUE ELSE isPending[p][s]
      BY <2>1, <2>2 DEF Fields, EaOK
    <3>2. \A p \in Requests, s \in Readers : isPending[p][s] \in BOOLEAN
      BY DEF Fields, EaOK
    <3> QED BY <3>1, <3>2, Zenon
  <2>8. ASSUME NEW p \in Requests, NEW s \in Readers PROVE Marks(p, s)' /\ Waits1(p, s)'
    <3>1. Marks(p, s) /\ Waits1(p, s)
      BY DEF Places1
    <3>2. Marks(p, s)'
      BY <1>0, <3>1 DEF Marks, Listed
    <3>3. AtNew(s, p) => "SENT" \in status[p][s]
      BY <2>3, <3>1 DEF Waits1
    <3>4. isPending'[p][s] \/ rcEx[p][s] = "limit" => "SENT" \in status[p][s] /\ ~AtNew(s, p)
      BY <2>2, <2>3, <2>5, <2>7, <3>1 DEF Waits1, Gone
    <3>5. Waits1(p, s)'
      BY <1>0, <3>3, <3>4 DEF Waits1, Gone, At, AtNew
    <3> QED BY <3>2, <3>5
  <2>9. ASSUME NEW s \in Readers PROVE Joined(s)'
    <3>1. dup'[s] # <<>> => isPending'[dup'[s][1]][s]
      <4>1. PICK p : dup' = [dup EXCEPT ![r] = <<q, p>>]
        BY <2>1
      <4>2. CASE s = r
        <5>1. dup'[s] = <<q, p>>
          BY <4>1, <4>2 DEF Fields, RdrOK
        <5>2. dup'[s][1] = q
          BY <5>1
        <5> QED BY <2>2, <2>7, <4>2, <5>2
      <4>3. CASE s # r
        <5>1. dup'[s] = dup[s]
          BY <4>1, <4>3 DEF Fields, RdrOK
        <5>2. dup[s] # <<>> => dup[s][1] \in Requests /\ isPending[dup[s][1]][s]
          BY DEF Places1, Joined, Fields, RdrOK
        <5> QED BY <2>7, <5>1, <5>2
      <4> QED BY <4>2, <4>3
    <3>2. ASSUME NEW p \in Requests, NEW i \in DOMAIN pending[p][s]
          PROVE  isPending'[pending[p][s][i]][s]
      <4>1. pending[p][s][i] \in Requests
        BY DEF Fields, EaOK
      <4>2. isPending[pending[p][s][i]][s]
        BY DEF Places1, Joined
      <4> QED BY <2>7, <4>1, <4>2
    <3> QED BY <2>1, <3>1, <3>2 DEF Joined
  <2>10. \A u \in Requests \cup Readers : Calls(u)'
    BY <2>1, <2>6, CallsSame
  <2> QED BY <2>4, <2>8, <2>9, <2>10 DEF Places1
<1>3. CASE JoinSame(r)
  <2> DEFINE q == dup[r][1]
             p == dup[r][2]
  <2>1. /\ q \in Requests /\ p \in Requests /\ dup[r] # <<>>
        /\ dup' = [dup EXCEPT ![r] = <<>>] /\ UNCHANGED <<rdrJobs, atServer, isPending>>
        /\ \/ WriteAnswer(r, q, Shared(p, r)) /\ UNCHANGED pending
           \/ pending' = [pending EXCEPT ![p][r] = <<q>> \o @] /\ UNCHANGED frames
    BY <1>3 DEF JoinSame, Fields, RdrOK
  <2>2. isPending[q][r]
    BY <2>1 DEF Places1, Joined
  <2> HIDE DEF q, p
  <2>3. Gone(q, r)
    BY <2>1, <2>2 DEF Places1, Waits1
  <2>4. \A x \in Requests, s \in Readers : AtNew(s, x) <=> At(s, x)
    BY <2>1 DEF At, AtNew
  <2>5. Stable
    BY <1>0, <2>4, StableKept
  <2>6. \A s \in Readers : dup'[s] \in {dup[s], <<>>} /\ JobOnce(s)'
    BY <2>1 DEF Places1, JobOnce, Fields, RdrOK
  <2>7. CASE WriteAnswer(r, q, Shared(p, r)) /\ UNCHANGED pending
    <3>1. CalledNew(Frame("record", q, r, Shared(p, r)))
      BY <1>0, <2>1, <2>3, <2>4 DEF CalledNew, Frame, Gone
    <3>2. \A u \in Requests \cup Readers : Calls(u)'
      BY <2>1, <2>5, <2>7, <3>1, AnswerBegun, CallsSame, CallsNew
    <3> QED BY <1>0, <2>1, <2>4, <2>6, <2>7, <3>2, PlacesKept DEF eaVars
  <2>8. CASE pending' = [pending EXCEPT ![p][r] = <<q>> \o @] /\ UNCHANGED frames
    <3>1. ASSUME NEW x \in Requests, NEW s \in Readers PROVE Marks(x, s)' /\ Waits1(x, s)'
      <4>1. Marks(x, s) /\ Waits1(x, s)
        BY DEF Places1
      <4>2. Marks(x, s)'
        BY <1>0, <4>1 DEF Marks, Listed
      <4>3. Waits1(x, s)'
        BY <1>0, <2>1, <4>1 DEF Waits1, Gone, At
      <4> QED BY <4>2, <4>3
    <3>2. ASSUME NEW s \in Readers PROVE Joined(s)'
      <4>1. dup'[s] # <<>> => isPending'[dup'[s][1]][s]
        BY <2>1, <2>6 DEF Places1, Joined
      <4>2. ASSUME NEW x \in Requests, NEW i \in DOMAIN pending'[x][s]
            PROVE  isPending[pending'[x][s][i]][s]
        <5>1. CASE x = p /\ s = r
          <6> DEFINE old == pending[p][r]
          <6>1. old \in Seq(Requests) /\ pending'[x][s] = <<q>> \o old
            BY <2>1, <2>8, <5>1 DEF Fields, EaOK
          <6>2. \A k \in DOMAIN old : isPending[old[k]][r]
            BY <2>1 DEF Places1, Joined
          <6> HIDE DEF old
          <6>3. (<<q>> \o old)[i] = IF i = 1 THEN q ELSE old[i - 1]
            BY <4>2, <6>1
          <6>4. i = 1 \/ i - 1 \in DOMAIN old
            BY <4>2, <6>1
          <6> QED BY <2>2, <5>1, <6>1, <6>2, <6>3, <6>4
        <5>2. CASE ~(x = p /\ s = r)
          <6>1. pending'[x][s] = pending[x][s]
            BY <2>1, <2>8, <5>2 DEF Fields, EaOK
          <6> QED BY <4>2, <6>1 DEF Places1, Joined
        <5> QED BY <5>1, <5>2
      <4> QED BY <2>1, <4>1, <4>2 DEF Joined
    <3>3. \A u \in Requests \cup Readers : Calls(u)'
      BY <2>5, <2>8, CallsSame
    <3> QED BY <2>6, <3>1, <3>2, <3>3 DEF Places1
  <2> QED BY <2>1, <2>7, <2>8
<1>4. CASE ForwardEcm(r)
  <2> DEFINE q == Head(rdrJobs[r])
  <2>1. /\ GetsEcm(r) /\ UNCHANGED <<eaVars, dup, frames>>
        /\ atServer' = [atServer EXCEPT ![r] = @ \cup {q}]
    BY <1>4 DEF ForwardEcm
  <2>2. q \in Requests /\ At(r, q)
    <3>1. rdrJobs[r] \in Seq(Requests) /\ rdrJobs[r] # <<>>
      BY <2>1 DEF GetsEcm, Fields, RdrOK
    <3> QED BY <2>1, <3>1, JobTaken, SeqParts DEF At
  <2>3. \A s \in Readers : atServer'[s] = IF s = r THEN atServer[s] \cup {q} ELSE atServer[s]
    BY <2>1 DEF Fields, RdrOK
  <2>4. \A p \in Requests, s \in Readers : AtNew(s, p) => At(s, p)
    BY <2>1, <2>2, <2>3, JobTaken DEF At, AtNew
  <2>5. ASSUME NEW s \in Readers PROVE JobOnce(s)'
    <3>1. ASSUME NEW i \in DOMAIN rdrJobs'[s] PROVE rdrJobs'[s][i] \notin atServer'[s]
      <4>1. rdrJobs'[s][i] \notin atServer[s]
        BY <2>1, <3>1, JobTaken DEF Places1, JobOnce
      <4>2. s = r => rdrJobs'[s][i] # q
        BY <2>1, <3>1, JobTaken
      <4> QED BY <2>3, <4>1, <4>2
    <3> QED BY <2>1, <3>1, JobTaken DEF JobOnce
  <2>6. Stable
    BY <1>0, <2>4, StableKept
  <2>7. \A u \in Requests \cup Readers : Calls(u)'
    BY <2>1, <2>6, CallsSame
  <2> QED BY <1>0, <2>1, <2>4, <2>5, <2>7, PlacesKept
<1> QED BY <1>1, <1>2, <1>3, <1>4 DEF ReaderStep

LEMMA ServerPlaces ==
  ASSUME Fields, Places1, NEW r \in Readers, ServerAnswers(r)
  PROVE  Places1'
<1>1. /\ UNCHANGED <<eaVars, ecmcwcache, client, rdrJobs, dup>>
      /\ \E e \in Ecms : atServer' = [atServer EXCEPT ![r] = @ \ {q \in atServer[r] : Ecm[q] = e}]
  BY DEF ServerAnswers, erVars, clVars
<1>2. \A s \in Readers : atServer'[s] \subseteq atServer[s]
  BY <1>1 DEF Fields, RdrOK
<1>3. \A p \in Requests, s \in Readers : AtNew(s, p) => At(s, p)
  BY <1>1, <1>2 DEF At, AtNew
<1>4. \A s \in Readers : dup'[s] = dup[s] /\ JobOnce(s)'
  BY <1>1, <1>2 DEF Places1, JobOnce
<1>5. Stable
  BY <1>1, <1>3, StableKept DEF eaVars
<1>6. ASSUME NEW i \in DOMAIN frames'[r] PROVE CalledNew(frames'[r][i])
  <2> DEFINE f == frames'[r][i]
  <2>1. /\ f.op = "record" /\ f.r = r /\ f.ans \in Answers /\ f.q \in atServer[r]
    BY <1>6, ServerFields
  <2>2. f.ans # "limited"
    BY <2>1, ConfigAssumption
  <2>3. "SENT" \in status[f.q][r]
    BY <2>1 DEF Places1, Waits1, At, Fields, RdrOK
  <2> QED BY <1>1, <2>1, <2>2, <2>3 DEF CalledNew, eaVars
<1>7. \A u \in Requests \cup Readers : Calls(u)'
  BY <1>5, <1>6, ServerFields, CallsSame, CallsNew
<1> QED BY <1>1, <1>3, <1>4, <1>7, PlacesKept

LEMMA NextPlaces == ASSUME Fields, Places1, [Next]_vars PROVE Places1'
<1>1. ASSUME NEW t \in Requests \cup Readers, WriteStep(t) PROVE Places1'
  BY <1>1, RecordPlaces, PublishPlaces, StorePlaces DEF WriteStep
<1>2. CASE Quiescent
  BY <1>2, OutsidePlaces DEF Quiescent
<1> QED BY <1>1, <1>2, GetCwPlaces, ClientPlaces, ReaderPlaces, ServerPlaces, OutsidePlaces DEF Next

-----------------------------------------------------------------------------
\* Time does not run backwards.
LEMMA LateKept ==
  ASSUME Fields, [Next]_vars, NEW q \in Requests, age[q] = Late
  PROVE  age'[q] = Late
<1>1. ASSUME NEW p \in Requests, Tick(p) PROVE age'[q] = age[q]
  <2>1. age[p] < MaxAge /\ \E w : age' = [age EXCEPT ![p] = w]
    BY <1>1 DEF Tick
  <2>2. p # q
    BY <2>1, ConfigAssumption DEF Late, Fresh
  <2> QED BY <2>1, <2>2 DEF Fields, ClOK
<1>2. CASE \A p \in Requests : ~Tick(p)
  <2>1. ASSUME NEW p \in Requests, GetCw(p) \/ GetCwCached(p) \/ GetCwNoReader(p) \/ ClientStep(p)
        PROVE  UNCHANGED age
    BY <2>1 DEF GetCw, GetCwCached, GetCwNoReader, ClientStep, Ask, Scan, AfterCacheexScan,
       AfterScan, GiveVerdict, CacheexMode1Delay, CacheexTimeout, CacheexTimeoutHit, FallbackTimeout,
       FallbackAgain, EcmTimeout, SendTimeout, AnswerFromCache, ChkDcw, erVars
  <2>2. ASSUME NEW t \in Requests \cup Readers, WriteStep(t) PROVE UNCHANGED age
    BY <2>2 DEF WriteStep, Record, Publish, Store, erVars
  <2>3. ASSUME NEW r \in Readers, ReaderStep(r) \/ ServerAnswers(r) PROVE UNCHANGED age
    BY <2>3 DEF ReaderStep, RefuseEcm, FindSame, JoinSame, LimitEcm, ForwardEcm, ServerAnswers, erVars
  <2>4. ASSUME NEW p \in Requests, TimerStep(p) \/ Disconnect(p) PROVE UNCHANGED age
    BY <2>4 DEF TimerStep, PostCacheexTimeout, PostMode1Delay, PostFallbackTimeout,
       PostClientTimeout, PostCacheHit, Posts, Disconnect, erVars
  <2>5. ASSUME NEW e \in Ecms, PeerPushes(e) PROVE UNCHANGED age
    BY <2>5 DEF PeerPushes, erVars
  <2>6. CASE Quiescent \/ UNCHANGED vars
    BY <2>6 DEF Quiescent, vars, erVars
  <2> QED BY <1>2, <2>1, <2>2, <2>3, <2>4, <2>5, <2>6 DEF Next
<1> QED BY <1>1, <1>2

\* A step that is none of write_ecm_answer's, and does not join, leaves the recorded
\* answers and the pending lists alone, and calls only from threads that were idle.
LEMMA ElsewhereUnchanged ==
  ASSUME Fields, [Next]_vars,
         \A t \in Requests \cup Readers : ~WriteStep(t),
         \A r \in Readers : ~JoinSame(r)
  PROVE  /\ UNCHANGED <<earc, pending>>
         /\ \A t \in Requests \cup Readers : frames'[t] = frames[t] \/ frames[t] = <<>>
<1>1. ASSUME NEW p \in Requests, GetCw(p) \/ GetCwCached(p) \/ GetCwNoReader(p)
      PROVE  UNCHANGED <<earc, pending, frames>>
  BY <1>1 DEF GetCw, GetCwCached, GetCwNoReader, eaVars
<1>2. ASSUME NEW p \in Requests, ClientStep(p), ~EcmTimeout(p)
      PROVE  UNCHANGED <<earc, pending, frames>>
  BY <1>2 DEF ClientStep, Ask, Scan, AfterCacheexScan,
     AfterScan, GiveVerdict, CacheexMode1Delay, CacheexTimeout, CacheexTimeoutHit, FallbackTimeout,
     FallbackAgain, SendTimeout, AnswerFromCache, ChkDcw, eaVars
<1>3. ASSUME NEW p \in Requests, EcmTimeout(p)
      PROVE  /\ UNCHANGED <<earc, pending>>
             /\ \A t \in Requests \cup Readers : frames'[t] = frames[t] \/ frames[t] = <<>>
  BY <1>3, EcmTimeoutFields DEF EcmTimeout, eaVars, Busy
<1>4. ASSUME NEW r \in Readers, ReaderStep(r)
      PROVE  /\ UNCHANGED <<earc, pending>>
             /\ \A t \in Requests \cup Readers : frames'[t] = frames[t] \/ frames[t] = <<>>
  <2>1. CASE RefuseEcm(r) \/ LimitEcm(r)
    BY <2>1 DEF RefuseEcm, LimitEcm, WriteAnswer, GetsEcm, Free, Busy, eaVars, Fields, FrOK
  <2>2. CASE FindSame(r) \/ ForwardEcm(r)
    BY <2>2 DEF FindSame, ForwardEcm, eaVars
  <2> QED BY <1>4, <2>1, <2>2 DEF ReaderStep
<1>5. ASSUME NEW r \in Readers, ServerAnswers(r)
      PROVE  /\ UNCHANGED <<earc, pending>>
             /\ \A t \in Requests \cup Readers : frames'[t] = frames[t] \/ frames[t] = <<>>
  BY <1>5, ServerFields DEF ServerAnswers, eaVars
<1>6. ASSUME NEW p \in Requests, TimerStep(p) \/ Tick(p) \/ Disconnect(p)
      PROVE  UNCHANGED <<earc, pending, frames>>
  BY <1>6 DEF TimerStep, PostCacheexTimeout, PostMode1Delay, PostFallbackTimeout,
     PostClientTimeout, PostCacheHit, Posts, Disconnect, Tick, eaVars
<1>7. ASSUME NEW e \in Ecms, PeerPushes(e) PROVE UNCHANGED <<earc, pending, frames>>
  BY <1>7 DEF PeerPushes, eaVars
<1>8. CASE Quiescent \/ UNCHANGED vars
  BY <1>8 DEF Quiescent, vars, eaVars
<1> QED BY <1>1, <1>2, <1>3, <1>4, <1>5, <1>6, <1>7, <1>8 DEF Next

\* PendingServed, request by request, before and after a step
Served(q, p, r) == earc[p][r] < E_99 => earc[q][r] < E_99 \/ OnItsWay(q, p, r) \/ age[q] = Late
Way(q, p, r, f) == f.r = r /\ (\/ f.op = "publish" /\ f.q = p
                               \/ f.op = "record" /\ f.q = q)
WayNew(q, p, r) == \E t \in Requests \cup Readers : \E i \in DOMAIN frames'[t] : Way(q, p, r, frames'[t][i])
ServedNew(q, p, r) == earc'[p][r] < E_99 => earc'[q][r] < E_99 \/ WayNew(q, p, r) \/ age'[q] = Late

LEMMA ServedOld ==
  PendingServed <=> \A p \in Requests, r \in Readers : \A i \in DOMAIN pending[p][r] :
                      Served(pending[p][r][i], p, r)
  BY DEF PendingServed, Served

LEMMA ServedAfter ==
  ASSUME \A p \in Requests, r \in Readers : \A i \in DOMAIN pending'[p][r] :
           ServedNew(pending'[p][r][i], p, r)
  PROVE  PendingServed'
  BY DEF PendingServed, ServedNew, WayNew, Way, OnItsWay

LEMMA PendingIs ==
  ASSUME Fields, NEW p \in Requests, NEW r \in Readers, NEW i \in DOMAIN pending[p][r]
  PROVE  pending[p][r][i] \in Requests
  BY DEF Fields, EaOK

LEMMA ElsewhereServed ==
  ASSUME Fields, PendingServed, [Next]_vars,
         \A t \in Requests \cup Readers : ~WriteStep(t),
         \A r \in Readers : ~JoinSame(r)
  PROVE  PendingServed'
<1>1. /\ UNCHANGED <<earc, pending>>
      /\ \A t \in Requests \cup Readers : frames'[t] = frames[t] \/ frames[t] = <<>>
  BY ElsewhereUnchanged
<1>2. ASSUME NEW p \in Requests, NEW q \in Requests, NEW r \in Readers, Served(q, p, r)
      PROVE  ServedNew(q, p, r)
  <2>1. OnItsWay(q, p, r) => WayNew(q, p, r)
    <3>1. ASSUME NEW t \in Requests \cup Readers, NEW i \in DOMAIN frames[t]
          PROVE  frames'[t] = frames[t]
      BY <1>1, <3>1
    <3> QED BY <3>1 DEF OnItsWay, WayNew, Way
  <2> QED BY <1>1, <1>2, <2>1, LateKept DEF Served, ServedNew
<1> QED BY <1>1, <1>2, PendingIs, ServedOld, ServedAfter

LEMMA WriteServed ==
  ASSUME Fields, Places1, PendingServed, [Next]_vars, NEW t \in Requests \cup Readers, WriteStep(t)
  PROVE  PendingServed'
<1> DEFINE a == Top(t).q
           b == Top(t).r
<1>1. CASE Record(t)
  <2> DEFINE ans == Top(t).ans
  <2>1. /\ a \in Requests /\ b \in Readers /\ Busy(t) /\ UNCHANGED <<pending, age>>
        /\ Top(t) = frames[t][1] /\ Top(t).op = "record"
    BY <1>1, RecordEffect
  <2>2. PICK new \in Seq(FrameType) :
          /\ frames' = [frames EXCEPT ![t] = new \o Tail(@)]
          /\ \/ /\ age[a] = Late \/ "ANSWERED" \in status[a][b]
                /\ UNCHANGED earc
             \/ /\ earc' = [earc EXCEPT ![a][b] = Code(ans)]
                /\ new = <<Frame("publish", a, b, ans)>>
    <3>1. Frame("publish", a, b, ans) \in FrameType
      BY <1>1, RecordEffect, FrameIn
    <3>2. <<>> \in Seq(FrameType) /\ <<Frame("publish", a, b, ans)>> \in Seq(FrameType)
      BY <3>1
    <3>3. \/ /\ age[a] = Late \/ "ANSWERED" \in status[a][b]
             /\ frames' = [frames EXCEPT ![t] = <<>> \o Tail(@)]
             /\ UNCHANGED <<status, earc, rcEx>>
          \/ /\ RecordedAs(a, b, ans)
             /\ frames' = [frames EXCEPT ![t] = <<Frame("publish", a, b, ans)>> \o Tail(@)]
      BY <1>1, RecordEffect
    <3>4. CASE /\ age[a] = Late \/ "ANSWERED" \in status[a][b]
               /\ frames' = [frames EXCEPT ![t] = <<>> \o Tail(@)]
               /\ UNCHANGED <<status, earc, rcEx>>
      BY <3>2, <3>4
    <3>5. CASE /\ RecordedAs(a, b, ans)
               /\ frames' = [frames EXCEPT ![t] = <<Frame("publish", a, b, ans)>> \o Tail(@)]
      BY <3>2, <3>5 DEF RecordedAs
    <3> QED BY <3>3, <3>4, <3>5
  <2> HIDE DEF a, b, ans
  <2>9. /\ \A i \in DOMAIN new : \E j \in DOMAIN frames'[t] : frames'[t][j] = new[i]
        /\ \A u \in Requests \cup Readers : \A i \in DOMAIN frames[u] :
             (u = t /\ i = 1) \/ \E j \in DOMAIN frames'[u] : frames'[u][j] = frames[u][i]
    BY <2>1, <2>2, CallsStay
  <2>3. earc[a][b] \in Codes /\ ("ANSWERED" \in status[a][b] => earc[a][b] # E_UNHANDLED)
    BY <2>1 DEF Fields, EaOK, Places1, Marks
  <2>4. "ANSWERED" \in status[a][b] => earc[a][b] < E_99
    BY <2>3 DEF Codes, E_FOUND, E_CACHE1, E_CACHE2, E_CACHEEX, E_NOTFOUND, E_TIMEOUT, E_INVALID,
       E_99, E_UNHANDLED
  <2>5. Code(ans) < E_99
    BY DEF Code, E_FOUND, E_NOTFOUND, E_TIMEOUT, E_INVALID, E_99
  <2>6. \A p \in Requests, r \in Readers :
          \/ earc'[p][r] = earc[p][r]
          \/ p = a /\ r = b /\ earc'[p][r] < E_99 /\ new = <<Frame("publish", a, b, ans)>>
    BY <2>1, <2>2, <2>5 DEF Fields, EaOK
  <2>7. age[a] = Late \/ earc'[a][b] < E_99
    BY <2>1, <2>2, <2>4, <2>5 DEF Fields, EaOK
  <2>8. ASSUME NEW p \in Requests, NEW q \in Requests, NEW r \in Readers, Served(q, p, r)
        PROVE  ServedNew(q, p, r)
    <3>1. CASE p = a /\ r = b /\ new = <<Frame("publish", a, b, ans)>>
      <4>1. 1 \in DOMAIN new /\ new[1] = Frame("publish", a, b, ans)
        BY <3>1
      <4>2. \E j \in DOMAIN frames'[t] : frames'[t][j] = Frame("publish", a, b, ans)
        BY <2>9, <4>1
      <4> QED BY <3>1, <4>2 DEF ServedNew, WayNew, Way, Frame
    <3>2. CASE earc'[p][r] = earc[p][r]
      <4>1. CASE OnItsWay(q, p, r)
        <5>1. PICK u \in Requests \cup Readers : \E i \in DOMAIN frames[u] : Way(q, p, r, frames[u][i])
          BY <4>1 DEF OnItsWay, Way
        <5>2. PICK i \in DOMAIN frames[u] : Way(q, p, r, frames[u][i])
          BY <5>1
        <5>3. CASE u = t /\ i = 1
          <6>1. a = q /\ b = r
            BY <2>1, <5>2, <5>3 DEF Way, a, b
          <6> QED BY <2>1, <2>7, <6>1 DEF ServedNew
        <5>4. CASE ~(u = t /\ i = 1)
          <6>1. \E j \in DOMAIN frames'[u] : frames'[u][j] = frames[u][i]
            BY <2>9, <5>4
          <6> QED BY <5>2, <6>1 DEF ServedNew, WayNew
        <5> QED BY <5>3, <5>4
      <4>2. CASE earc[q][r] < E_99
        BY <2>6, <4>2 DEF ServedNew
      <4> QED BY <2>1, <2>8, <3>2, <4>1, <4>2 DEF Served, ServedNew
    <3> QED BY <2>6, <3>1, <3>2
  <2> QED BY <2>1, <2>8, PendingIs, ServedOld, ServedAfter
<1>2. CASE Publish(t)
  <2>1. /\ a \in Requests /\ b \in Readers /\ Busy(t) /\ UNCHANGED <<earc, pending, age>>
        /\ Top(t) = frames[t][1] /\ Top(t).op = "publish"
    BY <1>2, PublishEffect DEF eaVars
  <2>2. PICK new \in Seq(FrameType) :
              /\ frames' = [frames EXCEPT ![t] = new \o Tail(@)]
              /\ \A i \in DOMAIN new :
                   \/ \E k \in DOMAIN pending[a][b] :
                        new[i] = Frame("record", pending[a][b][k], b, Shared(a, b))
                   \/ new[i] = Frame("store", a, b, "found") /\ earc[a][b] = E_FOUND
              /\ \A k \in DOMAIN pending[a][b] : \E i \in DOMAIN new :
                   new[i] = Frame("record", pending[a][b][k], b, Shared(a, b))
    BY <1>2, PublishEffect
  <2> HIDE DEF a, b
  <2>9. /\ \A i \in DOMAIN new : \E j \in DOMAIN frames'[t] : frames'[t][j] = new[i]
        /\ \A u \in Requests \cup Readers : \A i \in DOMAIN frames[u] :
             (u = t /\ i = 1) \/ \E j \in DOMAIN frames'[u] : frames'[u][j] = frames[u][i]
    BY <2>1, <2>2, CallsStay
  <2>3. ASSUME NEW p \in Requests, NEW r \in Readers, NEW k \in DOMAIN pending[p][r],
               Served(pending[p][r][k], p, r)
        PROVE  ServedNew(pending[p][r][k], p, r)
    <3> DEFINE q == pending[p][r][k]
    <3>1. CASE OnItsWay(q, p, r)
      <4>1. PICK u \in Requests \cup Readers : \E i \in DOMAIN frames[u] : Way(q, p, r, frames[u][i])
        BY <3>1 DEF OnItsWay, Way
      <4>2. PICK i \in DOMAIN frames[u] : Way(q, p, r, frames[u][i])
        BY <4>1
      <4>3. CASE u = t /\ i = 1
        <5>1. a = p /\ b = r
          BY <2>1, <4>2, <4>3 DEF Way, a, b
        <5>2. PICK j \in DOMAIN new : new[j] = Frame("record", q, r, Shared(a, b))
          BY <2>2, <5>1
        <5>3. \E i1 \in DOMAIN frames'[t] : frames'[t][i1] = Frame("record", q, r, Shared(a, b))
          BY <2>9, <5>2
        <5> QED BY <5>3 DEF ServedNew, WayNew, Way, Frame
      <4>4. CASE ~(u = t /\ i = 1)
        <5>1. \E j \in DOMAIN frames'[u] : frames'[u][j] = frames[u][i]
          BY <2>9, <4>4
        <5> QED BY <4>2, <5>1 DEF ServedNew, WayNew
      <4> QED BY <4>3, <4>4
    <3>2. CASE ~OnItsWay(q, p, r)
      BY <2>1, <2>3, <3>2 DEF Served, ServedNew
    <3> QED BY <3>1, <3>2
  <2> QED BY <2>1, <2>3, ServedOld, ServedAfter
<1>3. CASE Store(t)
  <2>1. Busy(t) /\ Pop(t) /\ UNCHANGED <<earc, pending, age>> /\ Top(t).op = "store"
    BY <1>3 DEF Store, erVars, eaVars
  <2>2. Top(t) = frames[t][1] /\ <<>> \in Seq(FrameType) /\ <<>> \o Tail(frames[t]) = Tail(frames[t])
    BY <2>1, TopIn DEF Fields
  <2>3. frames' = [frames EXCEPT ![t] = <<>> \o Tail(@)]
    BY <2>1, <2>2 DEF Pop
  <2>9. \A u \in Requests \cup Readers : \A i \in DOMAIN frames[u] :
          (u = t /\ i = 1) \/ \E j \in DOMAIN frames'[u] : frames'[u][j] = frames[u][i]
    BY <2>1, <2>2, <2>3, CallsStay
  <2>4. ASSUME NEW p \in Requests, NEW q \in Requests, NEW r \in Readers, Served(q, p, r)
        PROVE  ServedNew(q, p, r)
    <3>1. CASE OnItsWay(q, p, r)
      <4>1. PICK u \in Requests \cup Readers : \E i \in DOMAIN frames[u] : Way(q, p, r, frames[u][i])
        BY <3>1 DEF OnItsWay, Way
      <4>2. PICK i \in DOMAIN frames[u] : Way(q, p, r, frames[u][i])
        BY <4>1
      <4>3. ~(u = t /\ i = 1)
        BY <2>1, <2>2, <4>2 DEF Way
      <4>4. \E j \in DOMAIN frames'[u] : frames'[u][j] = frames[u][i]
        BY <2>9, <4>3
      <4> QED BY <4>2, <4>4 DEF ServedNew, WayNew
    <3>2. CASE ~OnItsWay(q, p, r)
      BY <2>1, <2>4, <3>2 DEF Served, ServedNew
    <3> QED BY <3>1, <3>2
  <2> QED BY <2>1, <2>4, PendingIs, ServedOld, ServedAfter
<1> QED BY <1>1, <1>2, <1>3 DEF WriteStep

LEMMA JoinServed ==
  ASSUME Fields, PendingServed, [Next]_vars, NEW r \in Readers, JoinSame(r)
  PROVE  PendingServed'
<1> DEFINE a == dup[r][1]
           b == dup[r][2]
<1>1. /\ UNCHANGED <<earc, age>> /\ frames[r] = <<>> /\ b \in Requests /\ a \in Requests
      /\ \/ WriteAnswer(r, a, Shared(b, r)) /\ UNCHANGED pending
         \/ /\ ~(earc[b][r] < E_99) /\ UNCHANGED frames
            /\ pending' = [pending EXCEPT ![b][r] = <<a>> \o @]
  BY DEF JoinSame, Busy, Fields, RdrOK, erVars
<1> HIDE DEF a, b
<1>2. \A t \in Requests \cup Readers : frames'[t] = frames[t] \/ frames[t] = <<>>
  BY <1>1 DEF WriteAnswer, Fields, FrOK
<1>3. ASSUME NEW p \in Requests, NEW s \in Readers, NEW q, Served(q, p, s)
      PROVE  ServedNew(q, p, s)
  <2>1. OnItsWay(q, p, s) => WayNew(q, p, s)
    <3>1. ASSUME NEW t \in Requests \cup Readers, NEW i \in DOMAIN frames[t]
          PROVE  frames'[t] = frames[t]
      BY <1>2, <3>1
    <3> QED BY <3>1 DEF OnItsWay, WayNew, Way
  <2> QED BY <1>1, <1>3, <2>1 DEF Served, ServedNew
<1>4. ASSUME NEW p \in Requests, NEW s \in Readers, NEW i \in DOMAIN pending'[p][s]
      PROVE  ServedNew(pending'[p][s][i], p, s)
  <2>1. CASE pending'[p][s] = pending[p][s]
    BY <1>3, <1>4, <2>1, ServedOld
  <2>2. CASE pending'[p][s] # pending[p][s]
    <3>1. p = b /\ s = r /\ ~(earc[b][r] < E_99)
      BY <1>1, <2>2 DEF Fields, EaOK
    <3> QED BY <1>1, <3>1 DEF ServedNew
  <2> QED BY <2>1, <2>2
<1> QED BY <1>4, ServedAfter

LEMMA NextServed == ASSUME Fields, Places1, PendingServed, [Next]_vars PROVE PendingServed'
  BY ElsewhereServed, WriteServed, JoinServed

-----------------------------------------------------------------------------
\* A CW or a timeout, once recorded, stays: a later answer finds the reader marked as answered.
LEMMA CodeKept ==
  ASSUME Fields, Places1, [Next]_vars, NEW q \in Requests, NEW r \in Readers,
         earc[q][r] \in {E_FOUND, E_TIMEOUT}
  PROVE  earc'[q][r] = earc[q][r]
<1>1. ASSUME NEW t \in Requests \cup Readers, Record(t)
      PROVE  earc'[q][r] = earc[q][r]
  <2>1. "ANSWERED" \in status[q][r]
    BY DEF Places1, Marks
  <2> DEFINE a == Top(t).q
             b == Top(t).r
  <2>2. /\ a \in Requests /\ b \in Readers
        /\ \/ UNCHANGED earc
           \/ "ANSWERED" \notin status[a][b] /\ \E c : earc' = [earc EXCEPT ![a][b] = c]
    BY <1>1, RecordEffect DEF RecordedAs
  <2> HIDE DEF a, b
  <2>3. CASE UNCHANGED earc
    BY <2>3
  <2>4. CASE "ANSWERED" \notin status[a][b] /\ \E c : earc' = [earc EXCEPT ![a][b] = c]
    <3>1. ~(a = q /\ b = r)
      BY <2>1, <2>4
    <3> QED BY <2>2, <2>4, <3>1 DEF Fields, EaOK
  <2> QED BY <2>2, <2>3, <2>4
<1>2. ASSUME NEW t \in Requests \cup Readers, Publish(t) \/ Store(t)
      PROVE  earc'[q][r] = earc[q][r]
  BY <1>2 DEF Publish, Store, eaVars
<1>3. ASSUME NEW s \in Readers, JoinSame(s)
      PROVE  earc'[q][r] = earc[q][r]
  BY <1>3 DEF JoinSame
<1> QED BY <1>1, <1>2, <1>3, ElsewhereUnchanged DEF WriteStep

LEMMA NextForwarded ==
  ASSUME Fields, Places1, ForwardedOnce, [Next]_vars
  PROVE  ForwardedOnce'
<1>1. ASSUME NEW r \in Readers, NEW p \in atServer[r], NEW q \in atServer[r], p # q, Ecm[p] = Ecm[q]
      PROVE  \E x \in {p, q} : earc'[x][r] = E_TIMEOUT \/ age'[x] = Late
  <2>1. p \in Requests /\ q \in Requests
    BY <1>1 DEF Fields, RdrOK
  <2> QED BY <1>1, <2>1, CodeKept, LateKept DEF ForwardedOnce
<1>2. CASE \A r \in Readers : atServer'[r] \subseteq atServer[r]
  BY <1>1, <1>2 DEF ForwardedOnce
<1>3. ASSUME NEW r \in Readers, ForwardEcm(r)
      PROVE  ForwardedOnce'
  <2> DEFINE n == Head(rdrJobs[r])
  <2>1. /\ GetsEcm(r) /\ Same(r, n) = {} /\ UNCHANGED <<earc, age>>
        /\ atServer' = [atServer EXCEPT ![r] = @ \cup {n}]
    BY <1>3 DEF ForwardEcm, erVars, eaVars
  <2> HIDE DEF n
  <2>2. \A s \in Readers : atServer'[s] = IF s = r THEN atServer[s] \cup {n} ELSE atServer[s]
    BY <2>1 DEF Fields, RdrOK
  <2>3. ASSUME NEW p \in atServer[r], p # n, Ecm[p] = Ecm[n]
        PROVE  earc[p][r] = E_TIMEOUT \/ age[p] = Late
    <3>1. p \in Requests /\ At(r, p)
      BY <2>3 DEF Fields, RdrOK, At
    <3>2. "SENT" \in status[p][r] /\ ~isPending[p][r] /\ rcEx[p][r] # "limit"
      BY <3>1 DEF Places1, Waits1, Gone
    <3>3. PICK i \in DOMAIN ecmcwcache : ecmcwcache[i] = p
      BY <3>1, <3>2 DEF Places1, Marks, Listed
    <3>4. i \notin Same(r, n)
      BY <2>1
    <3>5. ~(age[p] < Late) \/ earc[p][r] = E_TIMEOUT
      BY <2>3, <3>2, <3>3, <3>4 DEF Same
    <3>6. age[p] \in 0 .. 4
      BY <3>1 DEF Fields, ClOK, Fresh, Late
    <3> QED BY <3>5, <3>6 DEF Late
  <2>4. ASSUME NEW s \in Readers, NEW p \in atServer'[s], NEW q \in atServer'[s], p # q, Ecm[p] = Ecm[q]
        PROVE  \E x \in {p, q} : earc'[x][s] = E_TIMEOUT \/ age'[x] = Late
    <3>1. CASE p \in atServer[s] /\ q \in atServer[s]
      BY <1>1, <2>4, <3>1
    <3>2. CASE s = r /\ (p = n \/ q = n)
      BY <2>1, <2>2, <2>3, <2>4, <3>2
    <3> QED BY <2>2, <3>1, <3>2
  <2> QED BY <2>4 DEF ForwardedOnce
<1>4. ASSUME \A r \in Readers : ~ForwardEcm(r)
      PROVE  \A r \in Readers : atServer'[r] \subseteq atServer[r]
  <2>1. ASSUME NEW p \in Requests, \/ GetCw(p) \/ GetCwCached(p) \/ GetCwNoReader(p)
                                   \/ ClientStep(p) \/ TimerStep(p) \/ Tick(p) \/ Disconnect(p)
        PROVE  UNCHANGED atServer
    BY <2>1 DEF GetCw, GetCwCached, GetCwNoReader, ClientStep, Ask, Scan, AfterCacheexScan,
       AfterScan, GiveVerdict, CacheexMode1Delay, CacheexTimeout, CacheexTimeoutHit, FallbackTimeout,
       FallbackAgain, EcmTimeout, SendTimeout, AnswerFromCache, ChkDcw, TimerStep,
       PostCacheexTimeout, PostMode1Delay, PostFallbackTimeout, PostClientTimeout, PostCacheHit,
       Posts, Disconnect, Tick, rdrVars
  <2>2. ASSUME NEW t \in Requests \cup Readers, WriteStep(t) PROVE UNCHANGED atServer
    BY <2>2 DEF WriteStep, Record, Publish, Store, rdrVars
  <2>3. ASSUME NEW r \in Readers, ReaderStep(r) PROVE UNCHANGED atServer
    BY <1>4, <2>3 DEF ReaderStep, RefuseEcm, FindSame, JoinSame, LimitEcm
  <2>4. ASSUME NEW r \in Readers, ServerAnswers(r)
        PROVE  \A s \in Readers : atServer'[s] \subseteq atServer[s]
    <3>1. \E a : atServer' = [atServer EXCEPT ![r] = @ \ a]
      BY <2>4 DEF ServerAnswers
    <3> QED BY <3>1 DEF Fields, RdrOK
  <2>5. ASSUME NEW e \in Ecms, PeerPushes(e) PROVE UNCHANGED atServer
    BY <2>5 DEF PeerPushes, rdrVars
  <2>6. CASE Quiescent \/ UNCHANGED vars
    BY <2>6 DEF Quiescent, vars, rdrVars
  <2> QED BY <2>1, <2>2, <2>3, <2>4, <2>5, <2>6 DEF Next
<1> QED BY <1>2, <1>3, <1>4

\* The readers' side of the requests is inductive without the clients' (IInv).
RInv == Fields /\ Places1 /\ PendingServed /\ ForwardedOnce

LEMMA InitRInv == Init => RInv
<1> SUFFICES ASSUME Init PROVE RInv
  OBVIOUS
<1>1. PendingServed /\ ForwardedOnce
  BY DEF Init, PendingServed, ForwardedOnce
<1> QED BY <1>1, FieldsInit, InitPlaces DEF RInv

LEMMA NextRInv == RInv /\ [Next]_vars => RInv'
<1> SUFFICES ASSUME RInv, [Next]_vars PROVE RInv'
  OBVIOUS
<1> USE DEF RInv
<1>1. Fields'
  BY NextFields
<1>2. Places1'
  BY NextPlaces
<1>3. PendingServed' /\ ForwardedOnce'
  BY NextServed, NextForwarded
<1> QED BY <1>1, <1>2, <1>3

\* A request that waits for the answer to another one is not forgotten, for every number of
\* readers and requests: distribute_ea reaches it, whoever wrote that answer and however the
\* two threads interleave (reader_get_ecm, write_ecm_answer).
THEOREM PendingServedAlways == Spec => []PendingServed
<1>1. RInv => PendingServed
  BY DEF RInv
<1> QED BY <1>1, InitRInv, NextRInv, PTL DEF Spec

\* However many requests share an ECM, the server of a reader is asked for it by one at a
\* time, unless the one asked for first has timed out or is too old (reader_get_ecm).
THEOREM ForwardedOnceAlways == Spec => []ForwardedOnce
<1>1. RInv => ForwardedOnce
  BY DEF RInv
<1> QED BY <1>1, InitRInv, NextRInv, PTL DEF Spec

-----------------------------------------------------------------------------
\* A request is pending in one place at most, and in none while its reader is still about
\* to join it to another one.
Held(r) ==
  /\ \A p, x \in Requests : \A i \in DOMAIN pending[p][r], j \in DOMAIN pending[x][r] :
       pending[p][r][i] = pending[x][r][j] => p = x /\ i = j
  /\ \A p \in Requests : \A i \in DOMAIN pending[p][r] : dup[r] # <<>> => pending[p][r][i] # dup[r][1]

HInv == RInv /\ \A r \in Readers : Held(r)

\* Only reader_get_ecm, when it finds the same ECM, changes what Held speaks of.
LEMMA JoinsOnly ==
  ASSUME [Next]_vars, \A r \in Readers : ~FindSame(r) /\ ~JoinSame(r)
  PROVE  UNCHANGED <<pending, dup>>
<1>1. ASSUME NEW p \in Requests, \/ GetCw(p) \/ GetCwCached(p) \/ GetCwNoReader(p)
                                 \/ TimerStep(p) \/ Tick(p) \/ Disconnect(p)
      PROVE  UNCHANGED <<pending, dup>>
  BY <1>1 DEF GetCw, GetCwCached, GetCwNoReader, TimerStep, PostCacheexTimeout, PostMode1Delay,
     PostFallbackTimeout, PostClientTimeout, PostCacheHit, Posts, Disconnect, Tick, eaVars, rdrVars
<1>2. ASSUME NEW p \in Requests, ClientStep(p)
      PROVE  UNCHANGED <<pending, dup>>
  BY <1>2 DEF ClientStep, Ask, Scan, AfterCacheexScan, AfterScan, GiveVerdict,
     CacheexMode1Delay, CacheexTimeout, CacheexTimeoutHit, FallbackTimeout, FallbackAgain,
     EcmTimeout, SendTimeout, AnswerFromCache, ChkDcw, eaVars, rdrVars
<1>3. ASSUME NEW t \in Requests \cup Readers, WriteStep(t)
      PROVE  UNCHANGED <<pending, dup>>
  BY <1>3 DEF WriteStep, Record, Publish, Store, eaVars, rdrVars
<1>4. ASSUME NEW r \in Readers, ReaderStep(r) \/ ServerAnswers(r)
      PROVE  UNCHANGED <<pending, dup>>
  BY <1>4 DEF ReaderStep, RefuseEcm, LimitEcm, ForwardEcm, ServerAnswers, eaVars
<1>5. ASSUME NEW e \in Ecms, PeerPushes(e)
      PROVE  UNCHANGED <<pending, dup>>
  BY <1>5 DEF PeerPushes, eaVars, rdrVars
<1>6. CASE Quiescent \/ UNCHANGED vars
  BY <1>6 DEF Quiescent, vars, eaVars, rdrVars
<1> QED BY <1>1, <1>2, <1>3, <1>4, <1>5, <1>6 DEF Next

\* The request taken from the job list is pending nowhere: who is has been marked.
LEMMA FindHeld ==
  ASSUME Fields, Places1, NEW r \in Readers, FindSame(r), NEW s \in Readers, Held(s)
  PROVE  Held(s)'
<1> DEFINE q == Head(rdrJobs[r])
<1>1. /\ q \in Requests /\ ~isPending[q][r] /\ UNCHANGED pending
      /\ \E i \in Same(r, q) : dup' = [dup EXCEPT ![r] = <<q, ecmcwcache[i]>>]
  BY JobTaken DEF FindSame
<1> HIDE DEF q
<1>2. PICK p : dup' = [dup EXCEPT ![r] = <<q, p>>]
  BY <1>1
<1>3. CASE s = r
  <2>1. dup'[r] = <<q, p>> /\ <<q, p>>[1] = q
    BY <1>2 DEF Fields, RdrOK
  <2>2. \A x \in Requests : \A i \in DOMAIN pending[x][r] : pending[x][r][i] # q
    BY <1>1 DEF Places1, Joined
  <2> QED BY <1>1, <1>3, <2>1, <2>2 DEF Held
<1>4. CASE s # r
  <2>1. dup'[s] = dup[s]
    BY <1>2, <1>4 DEF Fields, RdrOK
  <2> QED BY <1>1, <2>1 DEF Held
<1> QED BY <1>3, <1>4

\* Joining moves the request from the reader's hands to the head of one pending list.
LEMMA JoinHeld ==
  ASSUME Fields, NEW r \in Readers, JoinSame(r), NEW s \in Readers, Held(s)
  PROVE  Held(s)'
<1> DEFINE q == dup[r][1]
           p == dup[r][2]
<1>1. /\ q \in Requests /\ p \in Requests /\ dup[r] # <<>>
      /\ dup' = [dup EXCEPT ![r] = <<>>]
      /\ \/ UNCHANGED pending
         \/ pending' = [pending EXCEPT ![p][r] = <<q>> \o @]
  BY DEF JoinSame, Fields, RdrOK
<1>2. s = r => \A x \in Requests : \A i \in DOMAIN pending[x][r] : pending[x][r][i] # q
  BY <1>1 DEF Held
<1>3. dup'[s] = IF s = r THEN <<>> ELSE dup[s]
  BY <1>1 DEF Fields, RdrOK
<1> HIDE DEF q, p
<1>4. CASE UNCHANGED pending
  BY <1>3, <1>4 DEF Held
<1>5. CASE pending' = [pending EXCEPT ![p][r] = <<q>> \o @] /\ s # r
  <2>1. \A x \in Requests : pending'[x][s] = pending[x][s]
    BY <1>1, <1>5 DEF Fields, EaOK
  <2> QED BY <1>3, <1>5, <2>1 DEF Held
<1>6. CASE pending' = [pending EXCEPT ![p][r] = <<q>> \o @] /\ s = r
  <2> DEFINE old == pending[p][r]
  <2>1. old \in Seq(Requests) /\ pending'[p][r] = <<q>> \o old
    BY <1>1, <1>6 DEF Fields, EaOK
  <2>2. \A x \in Requests \ {p} : pending'[x][r] = pending[x][r]
    BY <1>1, <1>6 DEF Fields, EaOK
  <2>3. \A x \in Requests : \A i \in DOMAIN pending[x][r] : pending[x][r][i] # q
    BY <1>2, <1>6
  <2>4. \A i, j \in DOMAIN old : old[i] = old[j] => i = j
    BY <1>1, <1>6 DEF Held
  <2>5. \A x \in Requests \ {p} : \A i \in DOMAIN old, j \in DOMAIN pending[x][r] :
          old[i] # pending[x][r][j]
    BY <1>1, <1>6 DEF Held
  <2>6. \A i \in DOMAIN old : old[i] # q
    BY <1>1, <2>3
  <2> HIDE DEF old
  <2>7. \A i \in DOMAIN (<<q>> \o old) :
          \/ i = 1 /\ (<<q>> \o old)[i] = q
          \/ i # 1 /\ i - 1 \in DOMAIN old /\ (<<q>> \o old)[i] = old[i - 1] /\ i \in Nat
    BY <2>1
  <2>8. \A i, j \in DOMAIN pending'[p][r] : pending'[p][r][i] = pending'[p][r][j] => i = j
    <3> SUFFICES ASSUME NEW i \in DOMAIN pending'[p][r], NEW j \in DOMAIN pending'[p][r],
                        pending'[p][r][i] = pending'[p][r][j]
                 PROVE  i = j
      OBVIOUS
    <3>1. CASE i = 1 \/ j = 1
      BY <2>1, <2>6, <2>7, <3>1
    <3>2. CASE i # 1 /\ j # 1
      <4>1. /\ i \in Nat /\ j \in Nat /\ i - 1 \in DOMAIN old /\ j - 1 \in DOMAIN old
            /\ old[i - 1] = old[j - 1]
        BY <2>1, <2>7, <3>2
      <4>2. i - 1 = j - 1
        BY <2>4, <4>1
      <4> QED BY <4>1, <4>2
    <3> QED BY <3>1, <3>2
  <2>9. \A x \in Requests \ {p} : \A i \in DOMAIN pending'[p][r], j \in DOMAIN pending'[x][r] :
          pending'[p][r][i] # pending'[x][r][j]
    <3> SUFFICES ASSUME NEW x \in Requests \ {p}, NEW i \in DOMAIN pending'[p][r],
                        NEW j \in DOMAIN pending'[x][r]
                 PROVE  pending'[p][r][i] # pending'[x][r][j]
      OBVIOUS
    <3>1. j \in DOMAIN pending[x][r] /\ pending'[x][r][j] = pending[x][r][j]
      BY <2>2
    <3>2. CASE i = 1
      BY <2>1, <2>3, <2>7, <3>1, <3>2
    <3>3. CASE i # 1
      BY <2>1, <2>5, <2>7, <3>1, <3>3
    <3> QED BY <3>2, <3>3
  <2>10. ASSUME NEW x \in Requests, NEW y \in Requests,
                NEW i \in DOMAIN pending'[x][r], NEW j \in DOMAIN pending'[y][r],
                pending'[x][r][i] = pending'[y][r][j]
         PROVE  x = y /\ i = j
    <3>1. CASE x = p \/ y = p
      BY <1>1, <2>8, <2>9, <2>10, <3>1
    <3>2. CASE x # p /\ y # p
      BY <1>6, <2>2, <2>10, <3>2 DEF Held
    <3> QED BY <3>1, <3>2
  <2> QED BY <1>3, <1>6, <2>10 DEF Held
<1> QED BY <1>1, <1>4, <1>5, <1>6

LEMMA NextHInv == HInv /\ [Next]_vars => HInv'
<1> SUFFICES ASSUME HInv, [Next]_vars PROVE HInv'
  OBVIOUS
<1>1. RInv' /\ Fields /\ Places1
  BY NextRInv DEF HInv, RInv
<1>2. ASSUME NEW s \in Readers PROVE Held(s)'
  <2>1. Held(s)
    BY DEF HInv
  <2>2. CASE \E r \in Readers : FindSame(r) \/ JoinSame(r)
    BY <1>1, <2>1, <2>2, FindHeld, JoinHeld
  <2>3. CASE UNCHANGED <<pending, dup>>
    BY <2>1, <2>3 DEF Held
  <2> QED BY <2>2, <2>3, JoinsOnly
<1> QED BY <1>1, <1>2 DEF HInv

LEMMA InitHInv == Init => HInv
<1>1. ASSUME Init PROVE \A r \in Readers : Held(r)
  BY <1>1 DEF Init, Held
<1> QED BY <1>1, InitRInv DEF HInv

\* How many elements a set has that cannot have two
LEMMA OneAtMost ==
  ASSUME NEW S, \A x, y \in S : x = y
  PROVE  Cardinality(S) = IF S = {} THEN 0 ELSE 1
<1>1. CASE S = {}
  BY <1>1, FS_EmptySet
<1>2. CASE S # {}
  <2>1. PICK x \in S : S = {x}
    BY <1>2
  <2> QED BY <1>2, <2>1, FS_Singleton
<1> QED BY <1>1, <1>2

\* With any number of requests for an ECM, and whoever writes their answers, a reader holds a
\* request in one place at a time: it is never asked for twice, nor answered as a pending one
\* while it is at the server (request_cw_from_readers, reader_get_ecm).
THEOREM AskedOnceAlways == Spec => []AskedOnce
<1>1. ASSUME HInv, NEW q \in Requests, NEW r \in Readers
      PROVE  Places(q, r) <= 1
  <2> DEFINE queued == {i \in DOMAIN rdrJobs[r] : rdrJobs[r][i] = q}
             joined == {x \in Requests \X (1 .. Cardinality(Requests)) :
                          x[2] \in DOMAIN pending[x[1]][r] /\ pending[x[1]][r][x[2]] = q}
             inHand == dup[r] # <<>> /\ dup[r][1] = q
  <2>1. Places1 /\ Held(r)
    BY <1>1 DEF HInv, RInv
  <2>2. Cardinality(queued) = IF queued = {} THEN 0 ELSE 1
    <3>1. \A i, j \in queued : i = j
      BY <2>1 DEF Places1, JobOnce
    <3> HIDE DEF queued
    <3> QED BY <3>1, OneAtMost
  <2>3. Cardinality(joined) = IF joined = {} THEN 0 ELSE 1
    <3>1. \A x, y \in joined : x[1] = y[1] /\ x[2] = y[2]
      BY <2>1 DEF Held
    <3>2. \A x \in joined : x = <<x[1], x[2]>>
      OBVIOUS
    <3>3. \A x, y \in joined : x = y
      BY <3>1, <3>2
    <3> HIDE DEF joined
    <3> QED BY <3>3, OneAtMost
  <2>4. queued # {} \/ q \in atServer[r] => At(r, q)
    BY DEF At
  <2>5. ~(queued # {} /\ q \in atServer[r])
    BY <2>1 DEF Places1, JobOnce
  <2>6. inHand \/ joined # {} => ~At(r, q)
    <3>1. inHand => isPending[q][r]
      BY <2>1 DEF Places1, Joined
    <3>2. joined # {} => isPending[q][r]
      BY <2>1 DEF Places1, Joined
    <3> QED BY <2>1, <3>1, <3>2 DEF Places1, Waits1, Gone
  <2>7. ~(inHand /\ joined # {})
    BY <2>1 DEF Held
  <2>8. Places(q, r) = Cardinality(queued) + (IF inHand THEN 1 ELSE 0)
                         + (IF q \in atServer[r] THEN 1 ELSE 0) + Cardinality(joined)
    BY DEF Places
  <2> HIDE DEF queued, joined, inHand
  <2> QED BY <2>2, <2>3, <2>4, <2>5, <2>6, <2>7, <2>8
<1>2. HInv => AskedOnce
  BY <1>1 DEF AskedOnce
<1> QED BY <1>2, InitHInv, NextHInv, PTL DEF Spec

-----------------------------------------------------------------------------
\* The jobs of a client: an answer's names a reader, a hit's follows a CW that is in the
\* cache; a killed client has none, and its thread is in no handler.
JobDue(q, j) == (j.act = "answer" => j.rdr \in Readers) /\ (j.act = "cache" => cached[Ecm[q]] # {})
JobDueNew(q, j) == (j.act = "answer" => j.rdr \in Readers) /\ (j.act = "cache" => cached'[Ecm[q]] # {})
Dues(q) ==
  /\ \A i \in DOMAIN jobs[q] : JobDue(q, jobs[q][i])
  /\ client[q] = "killed" => jobs[q] = <<>> /\ work[q].at = "idle"
JobsDue == \A q \in Requests : Dues(q)

LEMMA InitDues == ASSUME Init PROVE JobsDue
  BY DEF Init, JobsDue, Dues

LEMMA DuesKept ==
  ASSUME JobsDue, NEW q \in Requests,
         \A e \in Ecms : cached[e] \subseteq cached'[e],
         \A p \in Requests \ {q} : jobs'[p] = jobs[p] /\ client'[p] = client[p] /\ work'[p] = work[p],
         \A i \in DOMAIN jobs'[q] : \/ JobDueNew(q, jobs'[q][i])
                                    \/ \E j \in DOMAIN jobs[q] : jobs'[q][i] = jobs[q][j],
         client'[q] = "killed" => jobs'[q] = <<>> /\ work'[q].at = "idle"
  PROVE  JobsDue'
<1>1. ASSUME NEW p \in Requests, NEW j, JobDue(p, j) PROVE JobDueNew(p, j)
  <2>1. Ecm[p] \in Ecms
    BY DEF Ecms
  <2> QED BY <1>1, <2>1 DEF JobDue, JobDueNew
<1>2. ASSUME NEW p \in Requests PROVE \A i \in DOMAIN jobs'[p] : JobDueNew(p, jobs'[p][i])
  BY <1>1 DEF JobsDue, Dues
<1>3. ASSUME NEW p \in Requests PROVE client'[p] = "killed" => jobs'[p] = <<>> /\ work'[p].at = "idle"
  BY DEF JobsDue, Dues
<1> QED BY <1>2, <1>3 DEF JobsDue, Dues, JobDue, JobDueNew

\* What a step of q's own thread does to its jobs
LEMMA ClientDues ==
  ASSUME Fields, IInv, JobsDue, NEW q \in Requests, ClientStep(q)
  PROVE  JobsDue' /\ client[q] = "waiting" /\ UNCHANGED <<client, cached, earc>>
<1>1. UNCHANGED <<client, cached, earc>>
  BY DEF ClientStep, Ask, Scan, AfterCacheexScan, AfterScan, GiveVerdict, CacheexMode1Delay,
     CacheexTimeout, CacheexTimeoutHit, FallbackTimeout, FallbackAgain, EcmTimeout, SendTimeout,
     AnswerFromCache, ChkDcw, eaVars, erVars
<1>2. jobs[q] # <<>> \/ work[q].at # "idle"
  BY DEF ClientStep, Ask, Scan, AfterCacheexScan, AfterScan, GiveVerdict, CacheexMode1Delay, ScannedAll,
     CacheexTimeout, CacheexTimeoutHit, FallbackTimeout, FallbackAgain, EcmTimeout, SendTimeout,
     AnswerFromCache, ChkDcw, Takes, Ready
<1>3. client[q] = "waiting"
  BY <1>2 DEF JobsDue, Dues, Fields, ClOK, IInv, Serial
<1>4. \A p \in Requests \ {q} : work'[p] = work[p]
  <2> USE DEF IInv, Shapes
  <2>1. CASE Ask(q) \/ Scan(q)
    BY <2>1 DEF Ask, Scan
  <2>2. CASE AfterCacheexScan(q) \/ AfterScan(q)
    BY <2>2 DEF AfterCacheexScan, AfterScan, BeginAsk
  <2>3. CASE GiveVerdict(q) \/ SendTimeout(q) \/ FallbackAgain(q) \/ EcmTimeout(q)
    BY <2>3 DEF GiveVerdict, SendTimeout, FallbackAgain, EcmTimeout
  <2>4. CASE CacheexMode1Delay(q) \/ FallbackTimeout(q)
    BY <2>4 DEF CacheexMode1Delay, FallbackTimeout, BeginAsk
  <2>5. CASE CacheexTimeout(q)
    BY <2>5 DEF CacheexTimeout, BeginAsk
  <2>6. CASE CacheexTimeoutHit(q) \/ AnswerFromCache(q)
    BY <2>6 DEF CacheexTimeoutHit, AnswerFromCache
  <2>7. CASE ChkDcw(q)
    BY <2>7 DEF ChkDcw
  <2> QED BY <2>1, <2>2, <2>3, <2>4, <2>5, <2>6, <2>7 DEF ClientStep
<1>5. \/ jobs' = jobs
      \/ jobs[q] # <<>> /\ jobs' = [jobs EXCEPT ![q] = Tail(@)]
      \/ /\ jobs[q] # <<>>
         /\ \E src \in Hits(q) : jobs' = [jobs EXCEPT ![q] = Append(Tail(@), CacheJob(src))]
  BY DEF ClientStep, Ask, Scan, AfterCacheexScan, AfterScan, GiveVerdict, CacheexMode1Delay,
     CacheexTimeout, CacheexTimeoutHit, FallbackTimeout, FallbackAgain, EcmTimeout, SendTimeout,
     AnswerFromCache, ChkDcw, Takes, Ready
<1>6. jobs[q] \in Seq(JobType)
  BY DEF Fields, ClOK
<1>7. jobs[q] # <<>> => /\ Tail(jobs[q]) \in Seq(JobType)
                       /\ \A i \in DOMAIN Tail(jobs[q]) :
                            \E j \in DOMAIN jobs[q] : Tail(jobs[q])[i] = jobs[q][j]
  BY <1>6, SeqParts
<1>8. \A src \in Hits(q) : JobDueNew(q, CacheJob(src)) /\ CacheJob(src) \in JobType
  BY <1>1, HitsIn, JobIn DEF JobDueNew, CacheJob, Fields
<1>9. \A i \in DOMAIN jobs'[q] : \/ JobDueNew(q, jobs'[q][i])
                                 \/ \E j \in DOMAIN jobs[q] : jobs'[q][i] = jobs[q][j]
  <2>1. CASE jobs' = jobs
    BY <2>1
  <2>2. CASE jobs[q] # <<>> /\ jobs' = [jobs EXCEPT ![q] = Tail(@)]
    BY <1>7, <2>2 DEF Fields, ClOK
  <2>3. CASE /\ jobs[q] # <<>>
             /\ \E src \in Hits(q) : jobs' = [jobs EXCEPT ![q] = Append(Tail(@), CacheJob(src))]
    <3>1. PICK src \in Hits(q) : jobs' = [jobs EXCEPT ![q] = Append(Tail(@), CacheJob(src))]
      BY <2>3
    <3>2. jobs'[q] = Append(Tail(jobs[q]), CacheJob(src))
      BY <3>1 DEF Fields, ClOK
    <3>3. \A i \in DOMAIN jobs'[q] : \/ jobs'[q][i] = CacheJob(src)
                                     \/ i \in DOMAIN Tail(jobs[q]) /\ jobs'[q][i] = Tail(jobs[q])[i]
      BY <1>7, <2>3, <3>2
    <3> QED BY <1>7, <1>8, <2>3, <3>3
  <2> QED BY <1>5, <2>1, <2>2, <2>3
<1>10. \A p \in Requests \ {q} : jobs'[p] = jobs[p]
  BY <1>5 DEF Fields, ClOK
<1>11. JobsDue'
  BY <1>1, <1>3, <1>4, <1>9, <1>10, DuesKept
<1> QED BY <1>1, <1>3, <1>11

LEMMA AppendDue ==
  ASSUME Fields, JobsDue, NEW q \in Requests, NEW j \in JobType, JobDueNew(q, j),
         client[q] = "waiting", UNCHANGED <<client, work, cached>>,
         jobs' = [jobs EXCEPT ![q] = Append(@, j)]
  PROVE  JobsDue'
<1>1. jobs[q] \in Seq(JobType) /\ jobs'[q] = Append(jobs[q], j)
      /\ \A p \in Requests \ {q} : jobs'[p] = jobs[p]
  BY DEF Fields, ClOK
<1>2. \A i \in DOMAIN jobs'[q] : jobs'[q][i] = j \/ (i \in DOMAIN jobs[q] /\ jobs'[q][i] = jobs[q][i])
  BY <1>1
<1> QED BY <1>1, <1>2, DuesKept

LEMMA SameDues ==
  ASSUME JobsDue, \A e \in Ecms : cached[e] \subseteq cached'[e], UNCHANGED <<client, work, jobs>>
  PROVE  JobsDue'
<1>1. ASSUME NEW q \in Requests PROVE Dues(q)'
  <2>1. Ecm[q] \in Ecms
    BY DEF Ecms
  <2> QED BY <2>1 DEF JobsDue, Dues, JobDue
<1> QED BY <1>1 DEF JobsDue

LEMMA NextDues == ASSUME Fields, IInv, JobsDue, [Next]_vars PROVE JobsDue'
<1>1. ASSUME NEW q \in Requests, GetCw(q) \/ GetCwCached(q) \/ GetCwNoReader(q)
      PROVE  JobsDue'
  <2>1. /\ client' = [client EXCEPT ![q] = "waiting"] /\ UNCHANGED <<jobs, cached>>
        /\ \A p \in Requests \ {q} : work'[p] = work[p]
    <3>1. CASE GetCw(q)
      BY <3>1 DEF GetCw, IInv, Shapes
    <3>2. CASE GetCwCached(q) \/ GetCwNoReader(q)
      BY <3>2 DEF GetCwCached, GetCwNoReader
    <3> QED BY <1>1, <3>1, <3>2
  <2>2. client'[q] = "waiting" /\ \A p \in Requests \ {q} : client'[p] = client[p]
    BY <2>1 DEF Fields, ClOK
  <2> QED BY <2>1, <2>2, DuesKept
<1>2. ASSUME NEW t \in Requests \cup Readers, WriteStep(t) PROVE JobsDue'
  <2>1. CASE Record(t)
    BY <2>1, SameDues DEF Record, clVars
  <2>2. CASE Publish(t)
    <3> DEFINE q == Top(t).q
               r == Top(t).r
    <3>1. /\ q \in Requests /\ r \in Readers /\ UNCHANGED <<client, work, cached>>
          /\ jobs' = [jobs EXCEPT ![q] = IF client[q] = "waiting" THEN Append(@, AnswerJob(r)) ELSE @]
      BY <2>2, PublishEffect DEF Publish
    <3> HIDE DEF q, r
    <3>2. CASE client[q] = "waiting"
      <4>1. JobDueNew(q, AnswerJob(r)) /\ AnswerJob(r) \in JobType
        BY <3>1, JobIn DEF JobDueNew, AnswerJob
      <4> QED BY <3>1, <3>2, <4>1, AppendDue
    <3>3. CASE client[q] # "waiting"
      BY <3>1, <3>3, SameDues DEF Fields, ClOK
    <3> QED BY <3>2, <3>3
  <2>3. CASE Store(t)
    <3>1. Top(t).q \in Requests
      BY <2>3, TopIn DEF Store, Fields
    <3>2. UNCHANGED <<client, work, jobs>> /\ \A e \in Ecms : cached[e] \subseteq cached'[e]
      BY <2>3, <3>1 DEF Store, clVars, Fields, ClOK
    <3> QED BY <3>2, SameDues
  <2> QED BY <1>2, <2>1, <2>2, <2>3 DEF WriteStep
<1>3. ASSUME NEW r \in Readers, ReaderStep(r) \/ ServerAnswers(r) PROVE JobsDue'
  BY <1>3, SameDues DEF ReaderStep, RefuseEcm, FindSame, JoinSame, LimitEcm, ForwardEcm,
     ServerAnswers, clVars
<1>4. ASSUME NEW q \in Requests, TimerStep(q) PROVE JobsDue'
  <2>1. client[q] = "waiting" /\ UNCHANGED <<client, work, cached>>
    BY <1>4 DEF TimerStep, PostCacheexTimeout, PostMode1Delay, PostFallbackTimeout,
       PostClientTimeout, PostCacheHit, Posts
  <2>2. \E j \in JobType : JobDueNew(q, j) /\ jobs' = [jobs EXCEPT ![q] = Append(@, j)]
    <3>1. CASE PostCacheHit(q)
      <4>1. PICK src \in Hits(q) : jobs' = [jobs EXCEPT ![q] = Append(@, CacheJob(src))]
        BY <3>1 DEF PostCacheHit
      <4>2. JobDueNew(q, CacheJob(src)) /\ CacheJob(src) \in JobType
        BY <2>1, HitsIn, JobIn DEF JobDueNew, CacheJob, Fields
      <4> QED BY <4>1, <4>2
    <3>2. CASE ~PostCacheHit(q)
      <4>1. \E act \in {"cxtimeout", "cxdelay", "fallback", "ctimeout"} :
              jobs' = [jobs EXCEPT ![q] = Append(@, Job(act))]
        BY <1>4, <3>2 DEF TimerStep, PostCacheexTimeout, PostMode1Delay, PostFallbackTimeout,
           PostClientTimeout, Posts
      <4>2. \A act \in {"cxtimeout", "cxdelay", "fallback", "ctimeout"} :
              JobDueNew(q, Job(act)) /\ Job(act) \in JobType
        BY JobIn DEF JobDueNew, Job
      <4> QED BY <4>1, <4>2
    <3> QED BY <3>1, <3>2
  <2> QED BY <2>1, <2>2, AppendDue
<1>5. ASSUME NEW q \in Requests, Disconnect(q) PROVE JobsDue'
  <2>1. /\ jobs'[q] = <<>> /\ work'[q].at = "idle" /\ UNCHANGED <<work, cached>>
        /\ \A p \in Requests \ {q} : jobs'[p] = jobs[p] /\ client'[p] = client[p] /\ work'[p] = work[p]
    BY <1>5 DEF Disconnect, Fields, ClOK
  <2> QED BY <2>1, DuesKept
<1>6. ASSUME NEW q \in Requests, Tick(q) PROVE JobsDue'
  BY <1>6, SameDues DEF Tick, clVars
<1>7. ASSUME NEW e \in Ecms, PeerPushes(e) PROVE JobsDue'
  BY <1>7, SameDues DEF PeerPushes, clVars, Fields, ClOK
<1>8. CASE Quiescent \/ UNCHANGED vars
  BY <1>8, SameDues DEF Quiescent, vars, clVars
<1> QED BY <1>1, <1>2, <1>3, <1>4, <1>5, <1>6, <1>7, <1>8, ClientDues DEF Next

-----------------------------------------------------------------------------
\* The safety part of the refinement of EcmPromise: the initial states map to initial
\* states, every step to a step of the promise or to a stutter.
Supplied == {e \in Ecms : cached[e] # {} \/ \E q \in Requests, r \in Readers :
                            Ecm[q] = e /\ earc[q][r] = E_FOUND}
Outcomes == [q \in Requests |-> Outcome(q)]
SInv == IInv /\ RInv /\ JobsDue

\* What becomes of a request that is sent the codes s and whose client is c
OutcomeOf(s, c) ==
  IF s # <<>>
  THEN CASE s[1] < E_NOTFOUND -> "granted"
         [] s[1] = E_NOTFOUND -> "refused"
         [] OTHER             -> "expired"
  ELSE CASE c = "new" -> "new" [] c = "waiting" -> "open" [] OTHER -> "lost"

LEMMA OutcomeIs ==
  /\ \A q \in Requests : Outcome(q) = OutcomeOf(sent[q], client[q])
  /\ \A q \in Requests : Outcome(q)' = OutcomeOf(sent'[q], client'[q])
  BY DEF Outcome, OutcomeOf

\* A step that leaves every outcome as it is, and supplies one CW at most
LEMMA SupplyStep ==
  ASSUME NEW e \in Ecms,
         \A q \in Requests : OutcomeOf(sent'[q], client'[q]) = OutcomeOf(sent[q], client[q]),
         Supplied' = Supplied \/ Supplied' = Supplied \cup {e}
  PROVE  [Promise!Next]_(Promise!vars)
<1>1. Outcomes' = Outcomes
  BY OutcomeIs DEF Outcomes
<1> QED BY <1>1 DEF Promise!Next, Promise!Supply, Promise!vars, Outcomes, Supplied, Ecms

\* A step that changes the outcome of one request and supplies nothing
LEMMA CloseStep ==
  ASSUME NEW q \in Requests, NEW how, Supplied' = Supplied,
         OutcomeOf(sent'[q], client'[q]) = how,
         \A p \in Requests \ {q} : OutcomeOf(sent'[p], client'[p]) = OutcomeOf(sent[p], client[p]),
         \/ how = OutcomeOf(sent[q], client[q])
         \/ how = "open" /\ OutcomeOf(sent[q], client[q]) = "new"
         \/ /\ how \in {"granted", "refused", "expired", "lost"}
            /\ OutcomeOf(sent[q], client[q]) \in {"new", "open"}
            /\ how = "granted" => Ecm[q] \in Supplied
            /\ how \in {"expired", "lost"} => OutcomeOf(sent[q], client[q]) = "open"
  PROVE  [Promise!Next]_(Promise!vars)
<1>1. Outcomes' = [Outcomes EXCEPT ![q] = how]
  BY OutcomeIs DEF Outcomes
<1>2. Outcomes[q] = OutcomeOf(sent[q], client[q])
  BY OutcomeIs DEF Outcomes
<1>3. CASE how = OutcomeOf(sent[q], client[q])
  <2>1. Outcomes' = Outcomes
    BY <1>1, <1>2, <1>3 DEF Outcomes
  <2> QED BY <2>1 DEF Promise!vars, Outcomes, Supplied
<1>4. CASE how = "open" /\ OutcomeOf(sent[q], client[q]) = "new"
  <2>1. Promise!Ask(q)
    BY <1>1, <1>2, <1>4 DEF Promise!Ask, Outcomes, Supplied
  <2> QED BY <2>1 DEF Promise!Next
<1>5. CASE /\ how \in {"granted", "refused", "expired", "lost"}
           /\ OutcomeOf(sent[q], client[q]) \in {"new", "open"}
           /\ how = "granted" => Ecm[q] \in Supplied
           /\ how \in {"expired", "lost"} => OutcomeOf(sent[q], client[q]) = "open"
  <2>1. Promise!Close(q, how)
    BY <1>1, <1>2, <1>5 DEF Promise!Close, Promise!Open, Outcomes, Supplied
  <2> QED BY <1>5, <2>1 DEF Promise!Next, Promise!Closed
<1> QED BY <1>3, <1>4, <1>5

\* What is known of a CW depends on the answers and the cache only.
LEMMA SuppliedSame ==
  ASSUME UNCHANGED <<cached, earc>>
  PROVE  Supplied' = Supplied
  BY DEF Supplied

LEMMA SuppliedBy ==
  ASSUME NEW q \in Requests, \/ cached[Ecm[q]] # {}
                             \/ \E r \in Readers : earc[q][r] = E_FOUND
  PROVE  Ecm[q] \in Supplied
  BY DEF Supplied, Ecms

LEMMA NothingSent ==
  ASSUME NEW q \in Requests, UNCHANGED <<sent, client, cached, earc>>
  PROVE  [Promise!Next]_(Promise!vars)
<1>1. Ecm[q] \in Ecms
  BY DEF Ecms
<1> QED BY <1>1, SuppliedSame, SupplyStep

\* send_dcw closes the request, or leaves it as it is.
LEMMA SendRefines ==
  ASSUME SInv, NEW q \in Requests, Unanswered(q),
         NEW code \in Codes \ {E_UNHANDLED}, NEW src, SendDcw(q, code, src),
         UNCHANGED <<cached, earc>>,
         client[q] \in {"new", "waiting"}, client'[q] = "waiting",
         \A p \in Requests \ {q} : client'[p] = client[p],
         code < E_NOTFOUND => Ecm[q] \in Supplied,
         code > E_NOTFOUND => client[q] = "waiting"
  PROVE  [Promise!Next]_(Promise!vars)
<1> DEFINE label == IF code = E_FOUND /\ src # NoReader /\ isPending[q][src]
                    THEN E_CACHE2 ELSE code
<1>1. code \in {0, 1, 2, 3, 4, 5, 8} /\ E_NOTFOUND = 4 /\ E_FOUND = 0 /\ E_CACHE2 = 2
  BY DEF Codes, E_FOUND, E_CACHE2, E_UNHANDLED, E_CACHE1, E_CACHEEX, E_NOTFOUND, E_TIMEOUT, E_INVALID
<1>2. label = code \/ (code = 0 /\ label = 2)
  BY <1>1
<1>3. \/ sent' = [sent EXCEPT ![q] = sent[q]]
      \/ sent' = [sent EXCEPT ![q] = Append(sent[q], label)]
  <2>1. CASE DoubleCheck /\ label \in {E_FOUND, E_CACHE1, E_CACHE2} /\ src # NoReader
    BY <2>1 DEF SendDcw
  <2>2. CASE ~(DoubleCheck /\ label \in {E_FOUND, E_CACHE1, E_CACHE2} /\ src # NoReader)
    BY <2>2 DEF SendDcw
  <2> QED BY <2>1, <2>2
<1> HIDE DEF label
<1>4. sent \in [Requests -> Seq(Codes)] /\ sent[q] = <<>>
  BY DEF SInv, IInv, Shapes, Unanswered
<1>5. /\ \A p \in Requests \ {q} : sent'[p] = sent[p]
      /\ sent'[q] = <<>> \/ sent'[q] = <<label>>
  <2>1. Append(<<>>, label) = <<label>>
    OBVIOUS
  <2> QED BY <1>3, <1>4, <2>1
<1> DEFINE how == OutcomeOf(sent'[q], client'[q])
           old == OutcomeOf(sent[q], client[q])
<1>6. old = IF client[q] = "new" THEN "new" ELSE "open"
  BY <1>4 DEF OutcomeOf
<1>7. CASE sent'[q] = <<>>
  <2>1. how = "open"
    BY <1>7 DEF OutcomeOf
  <2> QED BY <1>5, <1>6, <2>1, CloseStep, SuppliedSame
<1>8. CASE sent'[q] = <<label>>
  <2>1. <<label>> # <<>> /\ <<label>>[1] = label
    OBVIOUS
  <2>2. how = IF label < 4 THEN "granted" ELSE IF label = 4 THEN "refused" ELSE "expired"
    BY <1>1, <1>8, <2>1 DEF OutcomeOf
  <2>3. /\ how \in {"granted", "refused", "expired", "lost"}
        /\ how = "granted" => Ecm[q] \in Supplied
        /\ how \in {"expired", "lost"} => client[q] = "waiting"
    <3>1. CASE label < 4
      BY <1>1, <1>2, <2>2, <3>1
    <3>2. CASE label = 4
      BY <2>2, <3>2
    <3>3. CASE ~(label < 4) /\ label # 4
      BY <1>1, <1>2, <2>2, <3>3
    <3> QED BY <3>1, <3>2, <3>3
  <2> HIDE DEF how
  <2>4. how \in {"expired", "lost"} => old = "open"
    BY <1>6, <2>3
  <2>5. old \in {"new", "open"}
    BY <1>6
  <2>6. how = OutcomeOf(sent'[q], client'[q])
    BY DEF how
  <2> QED BY <1>5, <2>3, <2>4, <2>5, <2>6, CloseStep, SuppliedSame
<1> QED BY <1>5, <1>7, <1>8

\* What a handler sends: nothing, or a code to a request that has not been answered, and a
\* CW only when there is one.
LEMMA HandlerSends ==
  ASSUME SInv, NEW q \in Requests, ClientStep(q), sent' # sent
  PROVE  \E code \in Codes \ {E_UNHANDLED} : \E src :
           /\ Unanswered(q) /\ SendDcw(q, code, src)
           /\ code < E_NOTFOUND => Ecm[q] \in Supplied
<1>0. /\ {E_FOUND, E_NOTFOUND, E_TIMEOUT, E_CACHE1, E_CACHEEX} \subseteq Codes \ {E_UNHANDLED}
      /\ ~(E_NOTFOUND < E_NOTFOUND) /\ ~(E_TIMEOUT < E_NOTFOUND)
  BY DEF Codes, E_FOUND, E_CACHE1, E_CACHE2, E_CACHEEX, E_NOTFOUND, E_TIMEOUT, E_INVALID, E_UNHANDLED
<1>1. Shapes /\ Serial(q) /\ Dues(q) /\ Fields
  BY DEF SInv, IInv, JobsDue, RInv
<1>2. ASSUME NEW act, Ready(q, act)
      PROVE  /\ Head(jobs[q]) \in JobType /\ Head(jobs[q]).act = act
             /\ JobDue(q, Head(jobs[q]))
  <2>1. jobs[q] \in Seq(JobType) /\ jobs[q] # <<>>
    BY <1>1, <1>2 DEF Fields, ClOK, Ready
  <2> QED BY <1>1, <1>2, <2>1, SeqParts DEF Ready, Dues
<1>3. CASE CacheexTimeout(q)
  <2>1. SendDcw(q, E_NOTFOUND, NoReader) /\ rc[q] >= E_UNHANDLED
    BY <1>3 DEF CacheexTimeout, NoSend
  <2>2. Unanswered(q)
    BY <1>1, <2>1, UnansweredCode DEF Serial, Unanswered
  <2> QED BY <1>0, <2>1, <2>2
<1>4. CASE SendTimeout(q)
  <2>1. Unanswered(q)
    BY <1>1, <1>4 DEF SendTimeout, Serial
  <2> QED BY <1>0, <1>4, <2>1 DEF SendTimeout
<1>5. CASE GiveVerdict(q)
  <2>1. Unanswered(q)
    BY <1>1, <1>5 DEF GiveVerdict, Serial
  <2>2. SendDcw(q, E_NOTFOUND, NoReader)
    BY <1>5 DEF GiveVerdict, NoSend
  <2> QED BY <1>0, <2>1, <2>2
<1>6. CASE AnswerFromCache(q)
  <2>1. Ecm[q] \in Supplied
    BY <1>2, <1>6, SuppliedBy DEF AnswerFromCache, Takes, JobDue
  <2> DEFINE src == Head(jobs[q]).rdr
             code == CachedCode(src)
  <2>2. FromCache(q, src)
    BY <1>6 DEF AnswerFromCache
  <2>3. rc[q] = E_UNHANDLED /\ SendDcw(q, code, src)
    BY <2>2 DEF FromCache, NoSend
  <2>4. Unanswered(q)
    BY <1>1, <2>3 DEF Serial, Unanswered
  <2>5. code \in Codes \ {E_UNHANDLED}
    BY <1>0 DEF CachedCode
  <2> QED BY <2>1, <2>3, <2>4, <2>5
<1>7. CASE ChkDcw(q)
  <2> DEFINE r == Head(jobs[q]).rdr
  <2>1. earc[q][r] = E_FOUND /\ SendDcw(q, E_FOUND, r) /\ rc[q] >= E_99
    BY <1>7 DEF ChkDcw, NoSend
  <2>2. r \in Readers
    BY <1>2, <1>7 DEF ChkDcw, Takes, JobDue
  <2>3. Ecm[q] \in Supplied
    BY <2>1, <2>2, SuppliedBy
  <2>4. Unanswered(q)
    BY <1>1, <2>1, UnansweredCode DEF Serial, Unanswered
  <2> QED BY <1>0, <2>1, <2>3, <2>4
<1> QED
  BY <1>3, <1>4, <1>5, <1>6, <1>7 DEF ClientStep, Ask, Scan, AfterCacheexScan, AfterScan,
     CacheexMode1Delay, CacheexTimeoutHit, FallbackTimeout, FallbackAgain, EcmTimeout, erVars

LEMMA ClientRefines ==
  ASSUME SInv, NEW q \in Requests, ClientStep(q)
  PROVE  [Promise!Next]_(Promise!vars)
<1>1. client[q] = "waiting" /\ UNCHANGED <<client, cached, earc>>
  BY ClientDues DEF SInv, RInv
<1>2. CASE sent' = sent
  BY <1>1, <1>2, NothingSent
<1>3. CASE sent' # sent
  BY <1>1, <1>3, HandlerSends, SendRefines
<1> QED BY <1>2, <1>3

LEMMA GetCwRefines ==
  ASSUME SInv, NEW q \in Requests, GetCw(q) \/ GetCwCached(q) \/ GetCwNoReader(q)
  PROVE  [Promise!Next]_(Promise!vars)
<1>1. /\ client[q] = "new" /\ client' = [client EXCEPT ![q] = "waiting"]
      /\ UNCHANGED <<cached, earc>>
  BY DEF GetCw, GetCwCached, GetCwNoReader, eaVars
<1>2. client'[q] = "waiting" /\ \A p \in Requests \ {q} : client'[p] = client[p]
  BY <1>1 DEF SInv, RInv, Fields, ClOK
<1>3. Unanswered(q) /\ Shapes /\ Serial(q)
  BY <1>1 DEF SInv, IInv, Serial
<1>4. {E_NOTFOUND, E_CACHE1, E_CACHEEX} \subseteq Codes \ {E_UNHANDLED}
      /\ ~(E_NOTFOUND < E_NOTFOUND) /\ ~(E_NOTFOUND > E_NOTFOUND)
      /\ ~(E_CACHE1 > E_NOTFOUND) /\ ~(E_CACHEEX > E_NOTFOUND)
  BY DEF Codes, E_FOUND, E_CACHE1, E_CACHE2, E_CACHEEX, E_NOTFOUND, E_TIMEOUT, E_INVALID, E_UNHANDLED
<1>5. CASE GetCw(q)
  <2>1. sent' = sent
    BY <1>5 DEF GetCw
  <2>2. OutcomeOf(sent[q], client[q]) = "new" /\ OutcomeOf(sent'[q], client'[q]) = "open"
    BY <1>1, <1>2, <1>3, <2>1 DEF Unanswered, OutcomeOf
  <2> QED BY <1>1, <1>2, <2>1, <2>2, CloseStep, SuppliedSame
<1>6. CASE GetCwNoReader(q)
  BY <1>1, <1>2, <1>3, <1>4, <1>6, SendRefines DEF GetCwNoReader
<1>7. CASE GetCwCached(q)
  <2>1. PICK src \in cached[Ecm[q]] : FromCache(q, src)
    BY <1>7 DEF GetCwCached
  <2> DEFINE code == CachedCode(src)
  <2>2. rc[q] = E_UNHANDLED
    BY <1>3 DEF Unanswered
  <2>3. SendDcw(q, code, src)
    BY <2>1, <2>2 DEF FromCache, E_NOTFOUND, E_UNHANDLED
  <2>4. Ecm[q] \in Supplied
    BY SuppliedBy, <2>1
  <2>5. code \in Codes \ {E_UNHANDLED} /\ ~(code > E_NOTFOUND)
    BY <1>4 DEF CachedCode
  <2> HIDE DEF code
  <2> QED BY <1>1, <1>2, <1>3, <2>3, <2>4, <2>5, SendRefines
<1> QED BY <1>5, <1>6, <1>7

\* write_ecm_answer records a CW, or add_cache_from_reader stores it.
LEMMA WriteRefines ==
  ASSUME SInv, NEW t \in Requests \cup Readers, WriteStep(t)
  PROVE  [Promise!Next]_(Promise!vars)
<1> DEFINE a == Top(t).q
           b == Top(t).r
<1>0. Fields /\ Places1 /\ UNCHANGED <<sent, client>>
  BY DEF SInv, RInv, WriteStep, Record, Publish, Store, clVars
<1>1. CASE Record(t)
  <2>1. a \in Requests /\ b \in Readers /\ UNCHANGED cached /\ (earc' = earc \/ RecordedAs(a, b, Top(t).ans))
    BY <1>0, <1>1, RecordEffect
  <2> HIDE DEF a, b
  <2>2. CASE earc' = earc
    BY <1>0, <2>1, <2>2, NothingSent
  <2>3. CASE RecordedAs(a, b, Top(t).ans)
    <3>1. earc[a][b] # E_FOUND
      BY <1>0, <2>1, <2>3 DEF RecordedAs, Places1, Marks
    <3>2. PICK c : earc' = [earc EXCEPT ![a][b] = c]
      BY <2>3 DEF RecordedAs
    <3>3. \A p \in Requests, r \in Readers :
            earc'[p][r] = IF p = a /\ r = b THEN c ELSE earc[p][r]
      BY <1>0, <2>1, <3>2 DEF Fields, EaOK
    <3>4. Supplied' = Supplied \/ Supplied' = Supplied \cup {Ecm[a]}
      <4>1. CASE c = E_FOUND
        BY <2>1, <3>3, <4>1 DEF Supplied, Ecms
      <4>2. CASE c # E_FOUND
        BY <2>1, <3>1, <3>3, <4>2 DEF Supplied, Ecms
      <4> QED BY <4>1, <4>2
    <3>5. Ecm[a] \in Ecms
      BY <2>1 DEF Ecms
    <3> QED BY <1>0, <3>4, <3>5, SupplyStep
  <2> QED BY <2>1, <2>2, <2>3
<1>2. CASE Publish(t)
  BY <1>0, <1>2, PublishEffect, NothingSent DEF eaVars
<1>3. CASE Store(t)
  <2>1. /\ a \in Requests /\ b \in Readers /\ UNCHANGED earc
        /\ cached' = [cached EXCEPT ![Ecm[a]] = @ \cup {b}]
    BY <1>0, <1>3, TopIn DEF Store, Fields, eaVars
  <2> HIDE DEF a, b
  <2>2. Ecm[a] \in Ecms
    BY <2>1 DEF Ecms
  <2>3. \A e \in Ecms : cached'[e] = IF e = Ecm[a] THEN cached[e] \cup {b} ELSE cached[e]
    BY <1>0, <2>1 DEF Fields, ClOK
  <2>4. Supplied' = Supplied \cup {Ecm[a]}
    BY <2>1, <2>2, <2>3 DEF Supplied
  <2> QED BY <1>0, <2>2, <2>4, SupplyStep
<1> QED BY <1>1, <1>2, <1>3 DEF WriteStep

LEMMA NextRefines ==
  ASSUME SInv, [Next]_vars
  PROVE  [Promise!Next]_(Promise!vars)
<1>0. Fields
  BY DEF SInv, RInv
<1>1. ASSUME NEW q \in Requests, TimerStep(q) \/ Tick(q) PROVE [Promise!Next]_(Promise!vars)
  <2>1. UNCHANGED <<sent, client, cached, earc>>
    BY <1>1 DEF TimerStep, PostCacheexTimeout, PostMode1Delay, PostFallbackTimeout,
       PostClientTimeout, PostCacheHit, Posts, Tick, eaVars, clVars
  <2> QED BY <2>1, NothingSent
<1>2. ASSUME NEW r \in Readers, ReaderStep(r) \/ ServerAnswers(r) PROVE [Promise!Next]_(Promise!vars)
  <2>1. UNCHANGED <<sent, client, cached, earc>>
    BY <1>2 DEF ReaderStep, RefuseEcm, FindSame, JoinSame, LimitEcm, ForwardEcm, ServerAnswers,
       eaVars, clVars
  <2> QED BY <2>1, SuppliedSame DEF Promise!vars, Outcome, Supplied
<1>3. ASSUME NEW q \in Requests, Disconnect(q) PROVE [Promise!Next]_(Promise!vars)
  <2>1. /\ client[q] = "waiting" /\ client'[q] = "killed" /\ UNCHANGED <<sent, cached, earc>>
        /\ \A p \in Requests \ {q} : client'[p] = client[p]
    BY <1>0, <1>3 DEF Disconnect, eaVars, Fields, ClOK
  <2>2. CASE sent[q] = <<>>
    <3>1. OutcomeOf(sent[q], client[q]) = "open" /\ OutcomeOf(sent'[q], client'[q]) = "lost"
      BY <2>1, <2>2 DEF OutcomeOf
    <3> QED BY <2>1, <3>1, CloseStep, SuppliedSame
  <2>3. CASE sent[q] # <<>>
    <3>1. OutcomeOf(sent'[q], client'[q]) = OutcomeOf(sent[q], client[q])
      BY <2>1, <2>3 DEF OutcomeOf
    <3> QED BY <2>1, <3>1, CloseStep, SuppliedSame
  <2> QED BY <2>2, <2>3
<1>4. ASSUME NEW e \in Ecms, PeerPushes(e) PROVE [Promise!Next]_(Promise!vars)
  <2>1. /\ UNCHANGED <<sent, client, earc>>
        /\ cached' = [cached EXCEPT ![e] = @ \cup {NoReader}]
    BY <1>4 DEF PeerPushes, eaVars, clVars
  <2>2. \A d \in Ecms : cached'[d] = IF d = e THEN cached[d] \cup {NoReader} ELSE cached[d]
    BY <1>0, <2>1 DEF Fields, ClOK
  <2>3. Supplied' = Supplied \cup {e}
    BY <2>1, <2>2 DEF Supplied
  <2> QED BY <2>1, <2>3, SupplyStep
<1>5. CASE Quiescent \/ UNCHANGED vars
  <2>1. UNCHANGED <<sent, client, cached, earc>>
    BY <1>5 DEF Quiescent, vars, eaVars, clVars
  <2> QED BY <2>1, SuppliedSame DEF Promise!vars, Outcome, Supplied
<1> QED BY <1>1, <1>2, <1>3, <1>4, <1>5, GetCwRefines, ClientRefines, WriteRefines DEF Next

\* EcmRequest implements EcmPromise, liveness apart: every request is closed once, and
\* granted only when a reader or a peer has supplied a CW for its ECM (send_dcw's callers),
\* with any number of readers, requests and duplicates of an ECM.
THEOREM PromiseKeptSafely == Spec => Promise!Init /\ [][Promise!Next]_(Promise!vars)
<1>1. Init => SInv /\ Promise!Init
  <2>1. Init => SInv
    BY InitIInv, InitRInv, InitDues DEF SInv
  <2>2. Init => Promise!Init
    BY DEF Init, Promise!Init, Outcome, Codes, E_FOUND, E_UNHANDLED
  <2> QED BY <2>1, <2>2
<1>2. SInv /\ [Next]_vars => SInv'
  BY NextIInv, NextRInv, NextDues DEF SInv, RInv
<1>3. SInv /\ [Next]_vars => [Promise!Next]_(Promise!vars)
  BY NextRefines
<1> QED BY <1>1, <1>2, <1>3, PTL DEF Spec
-----------------------------------------------------------------------------
(* Readers in their turn, and refusals *)

\* What only the client's thread changes, apart from a bad ECM's stage
OwnOK ==
  /\ stage \in [Requests -> 0 .. 6]
  /\ selection \in [Requests -> SUBSET Readers]
  /\ waitExpired \in [Requests -> BOOLEAN]
  /\ timeoutCheck \in [Requests -> BOOLEAN]
  /\ work \in [Requests -> WorkType]
  /\ reached \in [Requests -> SUBSET Readers]

\* Reader s has answered, or was taken out of the game.
Quiet(q, s) == "ANSWERED" \in status[q][s] \/ "ACTIVE" \notin status[q][s]
Main(s)     == Normal(s) /\ "FALLBACK" \notin Kind[s]
CxMain(s)   == ~Normal(s) /\ "FALLBACK" \notin Kind[s]

\* The flags of an answer are those of its reader; a reader that was asked is active until
\* a bad ECM takes all of them out of the game.
Flagged(q) ==
  /\ \A r \in Readers :
       /\ "FALLBACK" \in status[q][r] => "FALLBACK" \in Kind[r]
       /\ "SENT" \in status[q][r] \/ "ACTIVE" \in status[q][r] =>
            /\ "LOCAL" \in status[q][r] <=> "LOCAL" \in Kind[r]
            /\ "CACHEEX" \in status[q][r] <=> "CACHEEX" \in Kind[r]
       /\ r \in reached[q] => "SENT" \in status[q][r]
  /\ stage[q] >= 5 \/ (\E r \in Readers : "SENT" \in status[q][r] /\ "ACTIVE" \notin status[q][r]) =>
       \A r \in Readers : "ACTIVE" \notin status[q][r]

\* While the cache is waited for: no hit was recorded, and the cache-exchange readers that
\* were asked have answered.
Waiting(q) == Waits(q) /\ ~waitExpired[q] /\ age[q] < FbDue
CxClear(q) ==
  ~HitCache /\ \A s \in Readers : CxMain(s) /\ "SENT" \in status[q][s] => Quiet(q, s)

\* Which readers were asked up to a stage
Staged(q) ==
  /\ client[q] = "new" => stage[q] = 0 /\ reached[q] = {}
  /\ stage[q] <= 1 => \A s \in reached[q] : ~Normal(s)
  /\ stage[q] = 2 => \A s \in reached[q] : Normal(s) => "LOCAL" \in Kind[s]
  /\ Waits(q) /\ stage[q] >= 1 =>
       \A r \in Readers : "CACHEEX" \in status[q][r] /\ "ACTIVE" \in status[q][r] =>
                            "SENT" \in status[q][r]
  /\ Waiting(q) /\ stage[q] \in 2 .. 4 => CxClear(q)

FbJobs(q) == \A i \in DOMAIN jobs[q] : jobs[q][i].act = "fallback" => age[q] >= FbDue

\* What the scan has read of reader r was true, and what mattered in it still is.
Saw(q, r, v) ==
  /\ "SENT" \in status[q][r] => "SENT" \in v.flags
  /\ "ACTIVE" \in status[q][r] => "ACTIVE" \in v.flags
  /\ "FALLBACK" \in v.flags => "FALLBACK" \in Kind[r]
  /\ "SENT" \in v.flags => /\ "LOCAL" \in Kind[r] => "LOCAL" \in v.flags
                           /\ "CACHEEX" \in Kind[r] => "CACHEEX" \in v.flags
  /\ "ANSWERED" \in v.flags => "ANSWERED" \in status[q][r] /\ earc[q][r] = v.rc

\* No reader is left that may deliver.
Exhausted(q) == \A r \in Readers : "ACTIVE" \in status[q][r] =>
                  "ANSWERED" \in status[q][r] /\ earc[q][r] # E_FOUND
\* Those asked before fallback readers are done.
MainDone(q)  == \A s \in reached[q] : Main(s) => Quiet(q, s)

\* What w, the thread's place in a handler, says about the request
Placed(q, w, waiting) ==
  /\ w.at = "ask" => stage[q] \in {0, 1, 2, 3, 5} /\ (w.stop = 1 => stage[q] \in {0, 5})
  /\ w.at = "again" \/ (w.at = "ask" /\ w.then = "fallback") => age[q] >= FbDue
  /\ w.at = "ask" /\ w.then # "fallback" => MainDone(q)
  /\ w.at \in {"ask", "verdict"} /\ w.then = "refuse" => Exhausted(q)
  /\ w.at = "scan" => w.i >= 1 /\ \A k \in DOMAIN MatchingRdr : k < w.i =>
                                     Saw(q, MatchingRdr[k], w.view[MatchingRdr[k]])
  /\ w.at = "scan" /\ w.then = "cacheex" => stage[q] \in {1, 5} /\ (waiting => ~HitCache)
  /\ waiting /\ w.at = "ask" /\ w.stop = 0 /\ w.then # "fallback" => stage[q] >= 1 /\ CxClear(q)

Turn(q) == Flagged(q) /\ Staged(q) /\ FbJobs(q) /\ Placed(q, work[q], Waiting(q))
TInv == OwnOK /\ \A q \in Requests : Turn(q)

LEMMA InitTInv == ASSUME Init PROVE TInv
<1>1. E_UNHANDLED \in Codes
  BY DEF Codes
<1>2. IdleWork \in WorkType
  BY <1>1 DEF IdleWork, WorkType, NoView, Unseen
<1>3. OwnOK
  BY <1>2 DEF Init, OwnOK
<1>4. ASSUME NEW q \in Requests PROVE Turn(q)
  <2>1. Flagged(q)
    BY DEF Init, Flagged
  <2>2. Staged(q)
    BY DEF Init, Staged
  <2>3. FbJobs(q)
    BY DEF Init, FbJobs
  <2>4. Placed(q, work[q], Waiting(q))
    BY DEF Init, Placed, IdleWork
  <2> QED BY <2>1, <2>2, <2>3, <2>4 DEF Turn
<1> QED BY <1>3, <1>4 DEF TInv

\* A request's age is one of five.
LEMMA AgeIs == ASSUME Fields, NEW q \in Requests PROVE age[q] \in 0 .. 4
  BY DEF Fields, ClOK, Fresh, Late

\* A step that does not touch what is said of q, but for jobs and its age
LEMMA TurnKept ==
  ASSUME Fields, Fields', NEW q \in Requests, Turn(q),
         stage'[q] = stage[q], selection'[q] = selection[q], reached'[q] = reached[q],
         waitExpired'[q] = waitExpired[q], work'[q] = work[q],
         status'[q] = status[q], earc'[q] = earc[q],
         age'[q] >= age[q], client'[q] = "new" => client[q] = "new",
         FbJobs(q)'
  PROVE  Turn(q)'
<1>1. Flagged(q)'
  BY DEF Turn, Flagged
<1>2. age[q] \in 0 .. 4 /\ age'[q] \in 0 .. 4
  BY AgeIs DEF Fields, ClOK, Fresh, Late
<1>3. Waits(q)' = Waits(q) /\ (Waiting(q)' => Waiting(q))
  BY <1>2 DEF Waits, PreferOf, Waiting, FbDue
<1>4. /\ CxClear(q)' <=> CxClear(q)
      /\ Exhausted(q)' <=> Exhausted(q)
      /\ MainDone(q)' <=> MainDone(q)
      /\ \A r, v : Saw(q, r, v)' <=> Saw(q, r, v)
  BY DEF CxClear, Quiet, Exhausted, MainDone, Saw
<1>5. Staged(q)'
  BY <1>3, <1>4 DEF Turn, Staged
<1>6. Placed(q, work[q], Waiting(q)) /\ (age[q] >= FbDue => age'[q] >= FbDue)
  BY <1>2 DEF Turn, FbDue
<1>7. Placed(q, work[q], Waiting(q))'
  BY <1>3, <1>4, <1>6 DEF Placed
<1> QED BY <1>1, <1>5, <1>7 DEF Turn

\* The thread's next place in a handler of q, when nothing else of what is said of q changes
LEMMA HandlerTurn ==
  ASSUME NEW q \in Requests, Turn(q), NEW waiting \in BOOLEAN,
         stage'[q] = stage[q], selection'[q] = selection[q], reached'[q] = reached[q],
         status'[q] = status[q], earc'[q] = earc[q], age'[q] = age[q], client'[q] = client[q],
         waitExpired'[q] \/ (waitExpired'[q] = waitExpired[q] /\ (waiting <=> Waiting(q))),
         FbJobs(q)', Placed(q, work'[q], waiting)
  PROVE  Turn(q)'
<1>1. Flagged(q)'
  BY DEF Turn, Flagged
<1>2. Waits(q)' = Waits(q) /\ (Waiting(q)' => Waiting(q) /\ waiting)
  BY DEF Waits, PreferOf, Waiting
<1>3. /\ CxClear(q)' <=> CxClear(q)
      /\ Exhausted(q)' <=> Exhausted(q)
      /\ MainDone(q)' <=> MainDone(q)
      /\ \A r, v : Saw(q, r, v)' <=> Saw(q, r, v)
  BY DEF CxClear, Quiet, Exhausted, MainDone, Saw
<1>4. Staged(q)'
  BY <1>2, <1>3 DEF Turn, Staged
<1>5. Placed(q, work[q], Waiting(q))'
  BY <1>2, <1>3 DEF Placed
<1> QED BY <1>1, <1>4, <1>5 DEF Turn

\* The jobs a client's thread has left, and those appended to them
LEMMA FbJobsTaken ==
  ASSUME Fields, NEW q \in Requests, NEW act, Takes(q, act), FbJobs(q), age'[q] = age[q]
  PROVE  FbJobs(q)' /\ (act = "fallback" => age[q] >= FbDue)
         /\ \A p \in Requests \ {q} : jobs'[p] = jobs[p]
<1>1. /\ jobs[q] \in Seq(JobType) /\ jobs[q] # <<>> /\ jobs'[q] = Tail(jobs[q])
      /\ Head(jobs[q]).act = act /\ \A p \in Requests \ {q} : jobs'[p] = jobs[p]
  BY DEF Fields, ClOK, Takes, Ready
<1>2. /\ \A i \in DOMAIN Tail(jobs[q]) : i + 1 \in DOMAIN jobs[q] /\ Tail(jobs[q])[i] = jobs[q][i + 1]
      /\ 1 \in DOMAIN jobs[q] /\ Head(jobs[q]) = jobs[q][1]
  BY <1>1, SeqParts
<1>3. FbJobs(q)'
  BY <1>1, <1>2 DEF FbJobs
<1> QED BY <1>1, <1>2, <1>3 DEF FbJobs

LEMMA FbJobsMore ==
  ASSUME Fields, NEW q \in Requests, NEW j \in JobType, FbJobs(q), age'[q] = age[q],
         jobs' = [jobs EXCEPT ![q] = Append(@, j)], j.act = "fallback" => age[q] >= FbDue
  PROVE  FbJobs(q)' /\ \A p \in Requests \ {q} : jobs'[p] = jobs[p]
<1>1. jobs[q] \in Seq(JobType) /\ jobs'[q] = Append(jobs[q], j)
      /\ \A p \in Requests \ {q} : jobs'[p] = jobs[p]
  BY DEF Fields, ClOK
<1>2. \A i \in DOMAIN jobs'[q] : jobs'[q][i] = j \/ (i \in DOMAIN jobs[q] /\ jobs'[q][i] = jobs[q][i])
  BY <1>1
<1>3. FbJobs(q)'
  BY <1>2 DEF FbJobs
<1> QED BY <1>1, <1>3

\* The places of a thread are well formed.
LEMMA PlacesIn ==
  /\ {IdleWork, AskAgain, Expiring} \subseteq WorkType
  /\ \A stop \in {0, 1}, then \in {"done", "fallback", "refuse", "keep"} : Asking(stop, then) \in WorkType
  /\ \A what \in {"cacheex", "normal"} : Scanning(what) \in WorkType
  /\ \A then \in {"refuse", "keep"} : Verdict(then) \in WorkType
<1>1. E_UNHANDLED \in Codes
  BY DEF Codes
<1>2. Unseen \in [flags : SUBSET Flags, rc : Codes]
  BY <1>1 DEF Unseen
<1>3. NoView \in [Readers -> [flags : SUBSET Flags, rc : Codes]]
  BY <1>2 DEF NoView
<1>4. IdleWork \in WorkType
  BY <1>3 DEF WorkType, IdleWork
<1>5. /\ AskAgain \in WorkType /\ Expiring \in WorkType
      /\ \A what \in {"cacheex", "normal"} : Scanning(what) \in WorkType
      /\ \A then \in {"refuse", "keep"} : Verdict(then) \in WorkType
  BY <1>4 DEF WorkType, AskAgain, Expiring, Scanning, Verdict
<1>6. \A stop \in {0, 1}, then \in {"done", "fallback", "refuse", "keep"} :
        Asking(stop, then) \in WorkType
  BY <1>4 DEF WorkType, Asking
<1> QED BY <1>4, <1>5, <1>6

\* request_cw_from_readers as the last call of a handler
LEMMA BeginPlaced ==
  ASSUME OwnOK, NEW q \in Requests, NEW waiting \in BOOLEAN, NEW stop \in {0, 1},
         NEW then \in {"done", "fallback", "refuse", "keep"}, BeginAsk(q, stop, then),
         stop = 1 => stage[q] = 0,
         then = "fallback" => age[q] >= FbDue,
         then # "fallback" /\ stage[q] < 4 => MainDone(q),
         then = "refuse" => Exhausted(q),
         waiting /\ stop = 0 /\ then # "fallback" /\ stage[q] < 4 => stage[q] >= 1 /\ CxClear(q)
  PROVE  /\ work'[q] \in WorkType /\ work' = [work EXCEPT ![q] = work'[q]]
         /\ Placed(q, work'[q], waiting)
<1>1. /\ work' = [work EXCEPT ![q] = work'[q]]
      /\ work'[q] = IF stage[q] < 4 THEN Asking(stop, then)
                    ELSE IF then \in {"refuse", "keep"} THEN Verdict(then) ELSE IdleWork
  BY DEF BeginAsk, OwnOK
<1>2. stage[q] \in 0 .. 6
  BY DEF OwnOK
<1>3. CASE stage[q] < 4
  <2>1. work'[q] = Asking(stop, then) /\ stage[q] \in {0, 1, 2, 3}
    BY <1>1, <1>2, <1>3
  <2>2. Placed(q, Asking(stop, then), waiting)
    BY <1>3, <2>1 DEF Placed, Asking, IdleWork
  <2> QED BY <1>1, <2>1, <2>2, PlacesIn
<1>4. CASE ~(stage[q] < 4) /\ then \in {"refuse", "keep"}
  <2>1. Placed(q, Verdict(then), waiting)
    BY DEF Placed, Verdict, IdleWork
  <2> QED BY <1>1, <1>4, <2>1, PlacesIn
<1>5. CASE ~(stage[q] < 4) /\ then \notin {"refuse", "keep"}
  <2>1. Placed(q, IdleWork, waiting)
    BY DEF Placed, IdleWork
  <2> QED BY <1>1, <1>5, <2>1, PlacesIn
<1> QED BY <1>3, <1>4, <1>5

\* What a handler of q does that asks nobody: it goes to its next place.
Handled(q, waiting) ==
  /\ UNCHANGED <<stage, selection, reached, status, earc, age, client>>
  /\ work'[q] \in WorkType /\ work' = [work EXCEPT ![q] = work'[q]]
  /\ Placed(q, work'[q], waiting)
  /\ timeoutCheck' \in [Requests -> BOOLEAN]
  /\ \/ waitExpired' = waitExpired /\ (waiting <=> Waiting(q))
     \/ waitExpired' = [waitExpired EXCEPT ![q] = TRUE]
  /\ FbJobs(q)'
  /\ \A p \in Requests \ {q} : jobs'[p] = jobs[p]

LEMMA HandledTurn ==
  ASSUME Fields, Fields', TInv, NEW q \in Requests, NEW waiting \in BOOLEAN, Handled(q, waiting)
  PROVE  TInv'
<1>1. OwnOK'
  BY DEF TInv, OwnOK, Handled
<1>2. \/ waitExpired'[q]
      \/ waitExpired'[q] = waitExpired[q] /\ (waiting <=> Waiting(q))
  BY DEF TInv, OwnOK, Handled
<1>3. Turn(q)'
  BY <1>2, HandlerTurn DEF TInv, Handled
<1>4. ASSUME NEW p \in Requests, p # q PROVE Turn(p)'
  <2>1. waitExpired'[p] = waitExpired[p] /\ work'[p] = work[p] /\ jobs'[p] = jobs[p]
    BY <1>4 DEF TInv, OwnOK, Handled
  <2>2. age[p] \in 0 .. 4 /\ age'[p] = age[p] /\ client'[p] = client[p]
    BY AgeIs DEF Handled
  <2>3. FbJobs(p)'
    BY <2>1, <2>2 DEF FbJobs, TInv, Turn
  <2> QED BY <2>1, <2>2, <2>3, TurnKept DEF TInv, Handled
<1> QED BY <1>1, <1>3, <1>4 DEF TInv

\* The start of a handler that asks: what the stage, or the age, says of those asked before
LEMMA StageDone ==
  ASSUME TInv, NEW q \in Requests, stage[q] <= 1
  PROVE  MainDone(q)
  BY DEF TInv, Turn, Staged, MainDone, Main

LEMMA DelayTurn ==
  ASSUME Fields, TInv, NEW q \in Requests, CacheexMode1Delay(q)
  PROVE  \E waiting \in BOOLEAN : Handled(q, waiting)
<1>1. /\ Takes(q, "cxdelay") /\ work[q].at = "idle"
      /\ UNCHANGED <<stage, selection, reached, status, earc, age, client, waitExpired, timeoutCheck>>
  BY DEF CacheexMode1Delay, Takes, Ready, erVars, eaVars
<1>2. FbJobs(q)' /\ \A p \in Requests \ {q} : jobs'[p] = jobs[p]
  BY <1>1, FbJobsTaken DEF TInv, Turn
<1>3. OwnOK /\ Waiting(q) \in BOOLEAN
  BY DEF TInv, Waiting
<1>4. work'[q] \in WorkType /\ work' = [work EXCEPT ![q] = work'[q]] /\ Placed(q, work'[q], Waiting(q))
  <2>1. CASE UNCHANGED work
    BY <1>1, <1>3, <2>1 DEF OwnOK, Placed
  <2>2. CASE stage[q] = 0 /\ BeginAsk(q, 1, "done")
    <3>1. MainDone(q)
      BY <2>2, StageDone
    <3> QED BY <1>3, <2>2, <3>1, BeginPlaced
  <2> QED BY <2>1, <2>2 DEF CacheexMode1Delay
<1> QED BY <1>1, <1>2, <1>3, <1>4 DEF Handled, OwnOK

LEMMA CxTimeoutTurn ==
  ASSUME Fields, TInv, NEW q \in Requests, CacheexTimeout(q) \/ CacheexTimeoutHit(q)
  PROVE  \E waiting \in BOOLEAN : Handled(q, waiting)
<1>1. /\ work[q].at = "idle" /\ waitExpired' = [waitExpired EXCEPT ![q] = TRUE]
      /\ UNCHANGED <<stage, selection, reached, status, earc, age, client, timeoutCheck>>
  BY DEF CacheexTimeout, CacheexTimeoutHit, Takes, Ready, eaVars
<1>2. FbJobs(q) /\ OwnOK
  BY DEF TInv, Turn
<1>3. FbJobs(q)' /\ \A p \in Requests \ {q} : jobs'[p] = jobs[p]
  <2>1. CASE CacheexTimeout(q)
    BY <1>1, <1>2, <2>1, FbJobsTaken DEF CacheexTimeout
  <2>2. CASE CacheexTimeoutHit(q)
    <3>1. PICK src \in Hits(q) : jobs' = [jobs EXCEPT ![q] = Append(Tail(@), CacheJob(src))]
      BY <2>2 DEF CacheexTimeoutHit
    <3>2. /\ jobs[q] \in Seq(JobType) /\ jobs[q] # <<>> /\ CacheJob(src).act = "cache"
          /\ jobs'[q] = Append(Tail(jobs[q]), CacheJob(src))
          /\ \A p \in Requests \ {q} : jobs'[p] = jobs[p]
      BY <2>2, <3>1 DEF Fields, ClOK, CacheexTimeoutHit, Ready, CacheJob
    <3>3. Tail(jobs[q]) \in Seq(JobType) /\ CacheJob(src) \in JobType
      BY <3>2, SeqParts, HitsIn, JobIn DEF Fields
    <3>4. \A i \in DOMAIN jobs'[q] :
            jobs'[q][i] = CacheJob(src) \/ (i \in DOMAIN Tail(jobs[q]) /\ jobs'[q][i] = Tail(jobs[q])[i])
      BY <3>2, <3>3
    <3>5. \A i \in DOMAIN Tail(jobs[q]) : i + 1 \in DOMAIN jobs[q] /\ Tail(jobs[q])[i] = jobs[q][i + 1]
      BY <3>2, SeqParts
    <3> QED BY <1>1, <1>2, <3>2, <3>4, <3>5 DEF FbJobs
  <2> QED BY <2>1, <2>2
<1>4. work'[q] \in WorkType /\ work' = [work EXCEPT ![q] = work'[q]] /\ Placed(q, work'[q], FALSE)
  <2>1. CASE UNCHANGED work
    BY <1>1, <1>2, <2>1 DEF OwnOK, Placed
  <2>2. CASE stage[q] < 2 /\ BeginAsk(q, 0, "done")
    <3>1. stage[q] <= 1
      BY <1>2, <2>2 DEF OwnOK
    <3>2. MainDone(q)
      BY <3>1, StageDone
    <3>3. PICK waiting \in BOOLEAN : ~waiting
      OBVIOUS
    <3>4. work'[q] \in WorkType /\ work' = [work EXCEPT ![q] = work'[q]] /\ Placed(q, work'[q], waiting)
      BY <1>2, <2>2, <3>2, <3>3, BeginPlaced
    <3> QED BY <3>3, <3>4
  <2> QED BY <2>1, <2>2 DEF CacheexTimeout, CacheexTimeoutHit
<1> QED BY <1>1, <1>2, <1>3, <1>4 DEF Handled, OwnOK

LEMMA FallbackTurn ==
  ASSUME Fields, TInv, NEW q \in Requests, FallbackTimeout(q) \/ FallbackAgain(q)
  PROVE  \E waiting \in BOOLEAN : Handled(q, waiting)
<1>1. UNCHANGED <<stage, selection, reached, status, earc, age, client, waitExpired, timeoutCheck>>
  BY DEF FallbackTimeout, FallbackAgain, erVars, eaVars
<1>2. FbJobs(q) /\ OwnOK /\ Waiting(q) \in BOOLEAN /\ Placed(q, work[q], Waiting(q))
  BY DEF TInv, Turn, Waiting
<1>3. CASE FallbackTimeout(q)
  <2>1. Takes(q, "fallback") /\ work[q].at = "idle"
    BY <1>3 DEF FallbackTimeout, Takes, Ready
  <2>2. age[q] >= FbDue /\ FbJobs(q)' /\ \A p \in Requests \ {q} : jobs'[p] = jobs[p]
    BY <1>1, <1>2, <2>1, FbJobsTaken
  <2>3. work'[q] \in WorkType /\ work' = [work EXCEPT ![q] = work'[q]] /\ Placed(q, work'[q], Waiting(q))
    <3>1. CASE UNCHANGED work
      BY <1>2, <2>1, <3>1 DEF OwnOK, Placed
    <3>2. CASE BeginAsk(q, 0, "fallback")
      BY <1>2, <2>2, <3>2, BeginPlaced
    <3> QED BY <1>3, <3>1, <3>2 DEF FallbackTimeout
  <2> QED BY <1>1, <1>2, <2>2, <2>3 DEF Handled, OwnOK
<1>4. CASE FallbackAgain(q)
  <2>1. age[q] >= FbDue
    BY <1>2, <1>4 DEF FallbackAgain, Placed
  <2>2. /\ work' = [work EXCEPT ![q] = work'[q]] /\ UNCHANGED jobs
        /\ work'[q] = IF stage[q] < 4 THEN Asking(0, "fallback") ELSE IdleWork
    BY <1>2, <1>4 DEF FallbackAgain, OwnOK
  <2>3. stage[q] \in 0 .. 6
    BY <1>2 DEF OwnOK
  <2>4. stage[q] < 4 => Placed(q, Asking(0, "fallback"), Waiting(q))
    BY <2>1, <2>3 DEF Placed, Asking, IdleWork
  <2>5. Placed(q, IdleWork, Waiting(q))
    BY DEF Placed, IdleWork
  <2>6. FbJobs(q)'
    BY <1>1, <1>2, <2>2 DEF FbJobs
  <2>7. work'[q] \in WorkType /\ Placed(q, work'[q], Waiting(q))
    BY <2>2, <2>4, <2>5, PlacesIn
  <2> QED BY <1>1, <1>2, <2>2, <2>6, <2>7 DEF Handled, OwnOK
<1> QED BY <1>3, <1>4

\* The handlers that end, or start what asks nobody
LEMMA PlainTurn ==
  ASSUME Fields, TInv, NEW q \in Requests,
         EcmTimeout(q) \/ SendTimeout(q) \/ AnswerFromCache(q) \/ GiveVerdict(q) \/ ChkDcw(q)
  PROVE  \E waiting \in BOOLEAN : Handled(q, waiting)
<1>1. UNCHANGED <<stage, selection, reached, status, earc, age, client, waitExpired>>
  BY DEF EcmTimeout, SendTimeout, AnswerFromCache, GiveVerdict, ChkDcw, eaVars
<1>2. FbJobs(q) /\ OwnOK /\ Waiting(q) \in BOOLEAN /\ Placed(q, work[q], Waiting(q))
  BY DEF TInv, Turn, Waiting
<1>3. timeoutCheck' \in [Requests -> BOOLEAN]
  BY <1>2 DEF OwnOK, EcmTimeout, SendTimeout, AnswerFromCache, GiveVerdict, ChkDcw
<1>4. FbJobs(q)' /\ \A p \in Requests \ {q} : jobs'[p] = jobs[p]
  <2>1. (\E act : Takes(q, act)) \/ UNCHANGED jobs
    BY DEF EcmTimeout, SendTimeout, AnswerFromCache, GiveVerdict, ChkDcw
  <2>2. CASE UNCHANGED jobs
    BY <1>1, <1>2, <2>2 DEF FbJobs
  <2> QED BY <1>1, <1>2, <2>1, <2>2, FbJobsTaken
<1>0. \A k \in DOMAIN MatchingRdr : ~(k < 1)
  BY ReadersAssumption
<1>5. \A w \in {IdleWork, Expiring, Scanning("normal")} : Placed(q, w, Waiting(q))
  <2>1. ASSUME NEW w \in {IdleWork, Expiring, Scanning("normal")}
        PROVE  w.at \in {"idle", "expire"} \/ (w.at = "scan" /\ w.then = "normal" /\ w.i = 1)
    <3>1. IdleWork.at = "idle"
      BY DEF IdleWork
    <3>2. Expiring.at = "expire"
      BY DEF Expiring, IdleWork
    <3>3. Scanning("normal").at = "scan" /\ Scanning("normal").then = "normal" /\ Scanning("normal").i = 1
      BY DEF Scanning, IdleWork
    <3> QED BY <2>1, <3>1, <3>2, <3>3
  <2>2. ASSUME NEW w, w.at \in {"idle", "expire"} \/ (w.at = "scan" /\ w.then = "normal" /\ w.i = 1)
        PROVE  Placed(q, w, Waiting(q))
    BY <1>0, <2>2 DEF Placed
  <2> QED BY <2>1, <2>2
<1>6. (waitExpired[q] \/ ~HitCache) /\ stage[q] = 1 => Placed(q, Scanning("cacheex"), Waiting(q))
  <2>1. PICK w : w = Scanning("cacheex")
    OBVIOUS
  <2>2. w.at = "scan" /\ w.then = "cacheex" /\ w.i = 1
    BY <2>1 DEF Scanning, IdleWork
  <2>3. (waitExpired[q] \/ ~HitCache) /\ stage[q] = 1 => Placed(q, w, Waiting(q))
    BY <1>0, <2>2 DEF Placed, Waiting
  <2> QED BY <2>1, <2>3
<1>7. work'[q] \in WorkType /\ work' = [work EXCEPT ![q] = work'[q]] /\ Placed(q, work'[q], Waiting(q))
  <2>1. CASE UNCHANGED work
    BY <1>2, <2>1 DEF OwnOK
  <2>2. CASE \E w \in {IdleWork, Expiring, Scanning("normal")} : work' = [work EXCEPT ![q] = w]
    BY <1>2, <1>5, <2>2, PlacesIn DEF OwnOK
  <2>3. CASE /\ (waitExpired[q] \/ ~HitCache) /\ stage[q] = 1
             /\ work' = [work EXCEPT ![q] = Scanning("cacheex")]
    BY <1>2, <1>6, <2>3, PlacesIn DEF OwnOK
  <2>4. CASE ChkDcw(q)
    BY <1>2, <2>1, <2>2, <2>3, <2>4 DEF ChkDcw, OwnOK
  <2>5. CASE EcmTimeout(q) \/ SendTimeout(q) \/ AnswerFromCache(q) \/ GiveVerdict(q)
    BY <2>1, <2>2, <2>5 DEF EcmTimeout, SendTimeout, AnswerFromCache, GiveVerdict
  <2> QED BY <2>4, <2>5
<1> QED BY <1>1, <1>2, <1>3, <1>4, <1>7 DEF Handled

\* The scan of the answers, and what follows from what it saw
LEMMA SawAll ==
  ASSUME Fields, TInv, NEW q \in Requests, ScannedAll(q)
  PROVE  /\ \A r \in Readers : Saw(q, r, work[q].view[r])
         /\ \A r \in Readers : /\ work[q].view[r].flags \subseteq Flags
                               /\ work[q].view[r].rc \in Codes
<1>1. work[q] \in WorkType /\ Placed(q, work[q], Waiting(q))
  BY DEF TInv, Turn, OwnOK
<1>2. work[q].at = "scan" /\ work[q].i \in Nat /\ work[q].i > Len(MatchingRdr)
  BY <1>1 DEF ScannedAll, WorkType
<1>3. \A k \in DOMAIN MatchingRdr : k < work[q].i
  BY <1>2, ReadersAssumption
<1>4. \A k \in DOMAIN MatchingRdr : Saw(q, MatchingRdr[k], work[q].view[MatchingRdr[k]])
  BY <1>1, <1>2, <1>3 DEF Placed
<1>5. work[q].view \in [Readers -> [flags : SUBSET Flags, rc : Codes]]
  BY <1>1 DEF WorkType
<1> QED BY <1>4, <1>5 DEF Readers

LEMMA ScanTurn ==
  ASSUME Fields, TInv, NEW q \in Requests, Scan(q)
  PROVE  \E waiting \in BOOLEAN : Handled(q, waiting)
<1>1. UNCHANGED <<stage, selection, reached, status, earc, age, client, waitExpired, timeoutCheck, jobs>>
  BY DEF Scan, erVars, eaVars
<1>2. /\ FbJobs(q) /\ OwnOK /\ Waiting(q) \in BOOLEAN /\ Placed(q, work[q], Waiting(q)) /\ Flagged(q)
      /\ work[q] \in WorkType
  BY DEF TInv, Turn, Waiting, OwnOK
<1>3. /\ work[q].i \in DOMAIN MatchingRdr /\ work[q].i \in Nat
      /\ DOMAIN MatchingRdr = 1 .. Len(MatchingRdr) /\ Len(MatchingRdr) \in Nat
  <2>1. work[q].i \in Nat /\ work[q].i >= 1
    BY <1>2 DEF WorkType, Scan, Placed
  <2> QED BY <2>1, ReadersAssumption DEF Scan
<1> DEFINE i == work[q].i
           r == MatchingRdr[i]
           v == [flags |-> status[q][r], rc |-> earc[q][r]]
<1>4. r \in Readers /\ v \in [flags : SUBSET Flags, rc : Codes]
  <2>1. r \in Readers
    BY <1>3 DEF Readers
  <2> HIDE DEF r
  <2>2. status[q][r] \in SUBSET Flags /\ earc[q][r] \in Codes
    BY <2>1 DEF Fields, EaOK
  <2> QED BY <2>1, <2>2
<1>5. /\ work' = [work EXCEPT ![q] = work'[q]]
      /\ work'[q] = [work[q] EXCEPT !.i = i + 1, !.view[r] = v]
  BY <1>2 DEF Scan, OwnOK
<1>6. Saw(q, r, v)
  BY <1>2, <1>4 DEF Saw, Flagged
<1>7. \A k \in DOMAIN MatchingRdr : k < i + 1 => k = i \/ (k < i /\ MatchingRdr[k] # r)
  BY <1>3, ReadersAssumption
<1> HIDE DEF i, r, v
<1>8. /\ work'[q] \in WorkType /\ work'[q].at = "scan" /\ work'[q].then = work[q].then
      /\ work'[q].i = i + 1 /\ work'[q].view[r] = v
      /\ \A s \in Readers : s # r => work'[q].view[s] = work[q].view[s]
  <2>1. work[q].at = "scan" /\ i \in Nat
    BY <1>3 DEF Scan, i
  <2>2. work[q].view \in [Readers -> [flags : SUBSET Flags, rc : Codes]]
    BY <1>2 DEF WorkType
  <2>3. PICK view : view = [work[q].view EXCEPT ![r] = v]
    OBVIOUS
  <2>4. /\ view \in [Readers -> [flags : SUBSET Flags, rc : Codes]] /\ view[r] = v
        /\ \A s \in Readers : s # r => view[s] = work[q].view[s]
    BY <1>4, <2>2, <2>3
  <2>5. work'[q] = [work[q] EXCEPT !.i = i + 1, !.view = view]
    BY <1>2, <1>5, <2>3 DEF WorkType
  <2>6. /\ work'[q] \in WorkType /\ work'[q].at = "scan" /\ work'[q].then = work[q].then
        /\ work'[q].i = i + 1 /\ work'[q].view = view
    <3>1. PICK w : w = work[q]
      OBVIOUS
    <3>2. w \in WorkType /\ work'[q] = [w EXCEPT !.i = i + 1, !.view = view]
      BY <1>2, <2>5, <3>1
    <3>3. i + 1 \in Nat
      BY <2>1
    <3>4. work'[q] \in WorkType
      BY <2>4, <3>2, <3>3 DEF WorkType
    <3>5. /\ work'[q].at = w.at /\ work'[q].then = w.then
          /\ work'[q].i = i + 1 /\ work'[q].view = view
      BY <3>2 DEF WorkType
    <3> QED BY <2>1, <3>1, <3>4, <3>5
  <2> QED BY <2>4, <2>6
<1>9. Placed(q, work'[q], Waiting(q))
  <2>1. work[q].at = "scan" /\ i = work[q].i /\ i \in Nat /\ i >= 1
    BY <1>2, <1>3 DEF Scan, i, Placed
  <2>2. ASSUME NEW k \in DOMAIN MatchingRdr, k < i + 1
        PROVE  Saw(q, MatchingRdr[k], work'[q].view[MatchingRdr[k]])
    <3>1. CASE k = i
      BY <1>6, <1>8, <3>1 DEF r
    <3>2. CASE k < i /\ MatchingRdr[k] # r
      BY <1>2, <1>8, <2>1, <3>2 DEF Placed, Readers
    <3> QED BY <1>7, <2>2, <3>1, <3>2
  <2> QED BY <1>2, <1>8, <2>1, <2>2 DEF Placed
<1>10. FbJobs(q)'
  BY <1>1, <1>2 DEF FbJobs
<1> QED BY <1>1, <1>2, <1>5, <1>8, <1>9, <1>10 DEF Handled, OwnOK

\* After the cache-exchange readers: the next stage is due when all that were asked, but
\* fallback readers, have answered.
LEMMA CxScanTurn ==
  ASSUME Fields, TInv, NEW q \in Requests, AfterCacheexScan(q)
  PROVE  \E waiting \in BOOLEAN : Handled(q, waiting)
<1>1. UNCHANGED <<stage, selection, reached, status, earc, age, client, waitExpired, timeoutCheck, jobs>>
  BY DEF AfterCacheexScan, erVars, eaVars
<1>2. /\ FbJobs(q) /\ OwnOK /\ Waiting(q) \in BOOLEAN /\ Placed(q, work[q], Waiting(q)) /\ Flagged(q)
      /\ Staged(q)
  BY DEF TInv, Turn, Waiting
<1>3. stage[q] \in {1, 5} /\ (Waiting(q) => ~HitCache)
  BY <1>2 DEF AfterCacheexScan, ScannedAll, Placed
<1>4. CASE work' = [work EXCEPT ![q] = IdleWork]
  <2>1. Placed(q, IdleWork, Waiting(q))
    BY DEF Placed, IdleWork
  <2>2. FbJobs(q)'
    BY <1>1, <1>2 DEF FbJobs
  <2> QED BY <1>1, <1>2, <1>4, <2>1, <2>2, PlacesIn DEF Handled, OwnOK
<1>5. CASE /\ ~\E r \in Readers : \/ Seen(q, r, {"SENT", "CACHEEX", "ACTIVE"}, {"FALLBACK", "ANSWERED"})
                                  \/ HasCw(q, r)
           /\ BeginAsk(q, 0, "done")
  <2>1. stage[q] < 4 => MainDone(q)
    BY <1>3, StageDone
  <2>2. Waiting(q) => CxClear(q)
    <3>1. ASSUME NEW s \in Readers, CxMain(s), "SENT" \in status[q][s] PROVE Quiet(q, s)
      <4> DEFINE v == work[q].view[s]
      <4>1. Saw(q, s, v)
        BY SawAll DEF AfterCacheexScan
      <4>2. ~({"SENT", "CACHEEX", "ACTIVE"} \subseteq v.flags /\ {"FALLBACK", "ANSWERED"} \cap v.flags = {})
        BY <1>5 DEF Seen
      <4> HIDE DEF v
      <4>3. "CACHEEX" \in Kind[s] /\ "FALLBACK" \notin Kind[s]
        BY <3>1 DEF CxMain, Normal
      <4>4. "SENT" \in v.flags /\ "CACHEEX" \in v.flags /\ "FALLBACK" \notin v.flags
        BY <3>1, <4>1, <4>3 DEF Saw
      <4>5. "ACTIVE" \notin v.flags \/ "ANSWERED" \in v.flags
        BY <4>2, <4>4
      <4> QED BY <4>1, <4>5 DEF Saw, Quiet
    <3> QED BY <1>3, <3>1 DEF CxClear
  <2>3. stage[q] < 4 => stage[q] >= 1
    BY <1>3
  <2>4. /\ work'[q] \in WorkType /\ work' = [work EXCEPT ![q] = work'[q]]
        /\ Placed(q, work'[q], Waiting(q))
    BY <1>2, <1>5, <2>1, <2>2, <2>3, BeginPlaced
  <2>5. FbJobs(q)'
    BY <1>1, <1>2 DEF FbJobs
  <2> QED BY <1>1, <1>2, <2>4, <2>5 DEF Handled, OwnOK
<1> QED BY <1>4, <1>5 DEF AfterCacheexScan

\* After a "not found" of a normal reader: what the scan found exhausted is exhausted.
LEMMA AfterScanTurn ==
  ASSUME Fields, TInv, NEW q \in Requests, AfterScan(q)
  PROVE  \E waiting \in BOOLEAN : Handled(q, waiting)
<1>1. UNCHANGED <<stage, selection, reached, status, earc, age, client, waitExpired, timeoutCheck, jobs>>
  BY DEF AfterScan, erVars, eaVars
<1>2. /\ FbJobs(q) /\ OwnOK /\ Waiting(q) \in BOOLEAN /\ Flagged(q) /\ Staged(q)
      /\ reached[q] \subseteq Readers
  BY DEF TInv, Turn, Waiting, OwnOK
<1> DEFINE view(r)    == work[q].view[r]
           localLeft  == \E r \in Readers :
                           \/ Seen(q, r, {"SENT", "LOCAL", "ACTIVE"}, {"FALLBACK", "ANSWERED"})
                           \/ HasCw(q, r)
           normalLeft == \E r \in Readers :
                           \/ Seen(q, r, {"SENT", "ACTIVE"}, {"FALLBACK", "ANSWERED"})
                           \/ HasCw(q, r)
           left       == \E r \in Readers : Seen(q, r, {"ACTIVE"}, {"ANSWERED"}) \/ HasCw(q, r)
           then       == IF left \/ WaitUntilCtimeout THEN "keep" ELSE "refuse"
<1>3. \/ stage[q] = 2 /\ ~localLeft /\ BeginAsk(q, 0, then)
      \/ stage[q] = 3 /\ ~normalLeft /\ BeginAsk(q, 0, then)
      \/ work' = [work EXCEPT ![q] = Verdict(then)]
  BY DEF AfterScan
<1>4. \A r \in Readers : /\ Saw(q, r, view(r)) /\ view(r).flags \subseteq Flags
                         /\ view(r).rc \in Codes
  BY SawAll DEF AfterScan
<1>5. ~left => Exhausted(q)
  <2>1. ASSUME ~left, NEW r \in Readers, "ACTIVE" \in status[q][r]
        PROVE  "ANSWERED" \in status[q][r] /\ earc[q][r] # E_FOUND
    <3>1. PICK v : v = view(r)
      OBVIOUS
    <3>2. ~({"ACTIVE"} \subseteq v.flags /\ {"ANSWERED"} \cap v.flags = {}) /\ ~(v.rc < E_NOTFOUND)
      BY <2>1, <3>1 DEF Seen, HasCw
    <3>3. Saw(q, r, v)
      BY <1>4, <3>1
    <3>4. "ACTIVE" \in v.flags /\ "ANSWERED" \in v.flags
      BY <2>1, <3>2, <3>3 DEF Saw
    <3> QED BY <3>2, <3>3, <3>4 DEF Saw, E_FOUND, E_NOTFOUND
  <2> QED BY <2>1 DEF Exhausted
<1>6. stage[q] = 2 /\ ~localLeft => MainDone(q)
  <2>1. ASSUME stage[q] = 2, ~localLeft, NEW s \in reached[q], Main(s)
        PROVE  Quiet(q, s)
    <3>1. s \in Readers /\ "SENT" \in status[q][s] /\ "LOCAL" \in Kind[s] /\ "FALLBACK" \notin Kind[s]
      BY <1>2, <2>1 DEF Flagged, Staged, Main
    <3>2. PICK v : v = view(s)
      OBVIOUS
    <3>3. ~({"SENT", "LOCAL", "ACTIVE"} \subseteq v.flags /\ {"FALLBACK", "ANSWERED"} \cap v.flags = {})
      BY <2>1, <3>1, <3>2 DEF Seen
    <3>4. Saw(q, s, v)
      BY <1>4, <3>1, <3>2
    <3>5. "SENT" \in v.flags /\ "LOCAL" \in v.flags /\ "FALLBACK" \notin v.flags
      BY <3>1, <3>4 DEF Saw
    <3>6. "ACTIVE" \notin v.flags \/ "ANSWERED" \in v.flags
      BY <3>3, <3>5
    <3> QED BY <3>4, <3>6 DEF Saw, Quiet
  <2> QED BY <2>1 DEF MainDone
<1>7. stage[q] = 3 /\ ~normalLeft => MainDone(q)
  <2>1. ASSUME ~normalLeft, NEW s \in reached[q], Main(s)
        PROVE  Quiet(q, s)
    <3>1. s \in Readers /\ "SENT" \in status[q][s] /\ "FALLBACK" \notin Kind[s]
      BY <1>2, <2>1 DEF Flagged, Main
    <3>2. PICK v : v = view(s)
      OBVIOUS
    <3>3. ~({"SENT", "ACTIVE"} \subseteq v.flags /\ {"FALLBACK", "ANSWERED"} \cap v.flags = {})
      BY <2>1, <3>1, <3>2 DEF Seen
    <3>4. Saw(q, s, v)
      BY <1>4, <3>1, <3>2
    <3>5. "SENT" \in v.flags /\ "FALLBACK" \notin v.flags
      BY <3>1, <3>4 DEF Saw
    <3>6. "ACTIVE" \notin v.flags \/ "ANSWERED" \in v.flags
      BY <3>3, <3>5
    <3> QED BY <3>4, <3>6 DEF Saw, Quiet
  <2> QED BY <2>1 DEF MainDone
<1> HIDE DEF view, localLeft, normalLeft, left
<1>8. then \in {"refuse", "keep"} /\ (then = "refuse" => Exhausted(q))
  <2>1. CASE left \/ WaitUntilCtimeout
    BY <2>1
  <2>2. CASE ~(left \/ WaitUntilCtimeout)
    BY <1>5, <2>2
  <2> QED BY <2>1, <2>2
<1> HIDE DEF then
<1>9. work'[q] \in WorkType /\ work' = [work EXCEPT ![q] = work'[q]] /\ Placed(q, work'[q], Waiting(q))
  <2>1. CASE work' = [work EXCEPT ![q] = Verdict(then)]
    <3>1. Verdict(then).at = "verdict" /\ Verdict(then).then = then
      BY DEF Verdict, IdleWork
    <3>2. Placed(q, Verdict(then), Waiting(q))
      BY <1>8, <3>1 DEF Placed
    <3> QED BY <1>2, <1>8, <2>1, <3>2, PlacesIn DEF OwnOK
  <2>2. CASE /\ (stage[q] = 2 /\ ~localLeft) \/ (stage[q] = 3 /\ ~normalLeft)
             /\ BeginAsk(q, 0, then)
    <3>1. MainDone(q) /\ stage[q] \in {2, 3}
      BY <1>6, <1>7, <2>2
    <3>2. Waiting(q) => CxClear(q)
      BY <1>2, <3>1 DEF Staged
    <3> QED BY <1>2, <1>8, <2>2, <3>1, <3>2, BeginPlaced
  <2> QED BY <1>3, <2>1, <2>2
<1>10. FbJobs(q)'
  BY <1>1, <1>2 DEF FbJobs
<1> QED BY <1>1, <1>2, <1>9, <1>10 DEF Handled, OwnOK

\* Every step of a client's thread but one that asks
LEMMA ClientTurn ==
  ASSUME Fields, Fields', TInv, NEW q \in Requests, ClientStep(q), ~Ask(q)
  PROVE  TInv'
<1>1. \E waiting \in BOOLEAN : Handled(q, waiting)
  BY DelayTurn, CxTimeoutTurn, FallbackTurn, PlainTurn, ScanTurn, CxScanTurn, AfterScanTurn DEF ClientStep
<1> QED BY <1>1, HandledTurn

\* request_cw_from_readers, one turn: the readers of the next stage are asked.
LEMMA NextStageIs ==
  ASSUME OwnOK, NEW q \in Requests, stage[q] \in {0, 1, 2, 3, 5}
  PROVE  LET s == NextStage(q, stage[q]) IN
         /\ s \in {1, 2, 3, 4, 6}
         /\ stage[q] = 0 => s = 1 \/ (s = 2 /\ ~Waits(q))
         /\ stage[q] = 1 => s \in {2, 3}
         /\ stage[q] = 2 => s = 3
         /\ stage[q] = 3 => s = 4
         /\ stage[q] = 5 => s = 6
<1>1. PreferOf(q) \in 0 .. 2
  BY ConfigAssumption DEF PreferOf
<1> QED BY <1>1 DEF NextStage, Waits

LEMMA AskTurn ==
  ASSUME Fields, Fields', IInv, TInv, NEW q \in Requests, Ask(q)
  PROVE  TInv'
<1> DEFINE s    == NextStage(q, stage[q])
           now  == {r \in Readers : Eligible(q, r, s)}
           then == work[q].then
<1>1. PICK connected \in SUBSET now :
        /\ stage' = [stage EXCEPT ![q] = s]
        /\ status' = [status EXCEPT ![q] =
                        [r \in Readers |-> IF r \in now THEN @[r] \cup {"SENT"} ELSE @[r]]]
        /\ reached' = [reached EXCEPT ![q] = @ \cup connected]
        /\ work' = [work EXCEPT ![q] =
                IF s < 4 /\ connected = {} /\ work[q].stop = 0 THEN @
                ELSE CASE then = "fallback"          -> AskAgain
                       [] then \in {"refuse", "keep"} -> Verdict(then)
                       [] OTHER                      -> IdleWork]
  BY DEF Ask
<1>2. /\ UNCHANGED <<selection, waitExpired, timeoutCheck, age, earc, client, jobs>>
      /\ work[q].at = "ask"
  BY DEF Ask
<1>3. OwnOK /\ Flagged(q) /\ Staged(q) /\ FbJobs(q) /\ Placed(q, work[q], Waiting(q)) /\ work[q] \in WorkType
  BY DEF TInv, Turn, OwnOK
<1>4. stage[q] \in {0, 1, 2, 3, 5} /\ (work[q].stop = 1 => stage[q] \in {0, 5})
      /\ work[q].stop \in {0, 1}
  BY <1>2, <1>3 DEF Placed, WorkType
<1>5. /\ s \in {1, 2, 3, 4, 6}
      /\ stage[q] = 0 => s = 1 \/ (s = 2 /\ ~Waits(q))
      /\ stage[q] = 1 => s \in {2, 3}
      /\ stage[q] = 2 => s = 3
      /\ stage[q] = 3 => s = 4
      /\ stage[q] = 5 => s = 6
  BY <1>3, <1>4, NextStageIs
<1>6. \A r \in now : /\ r \in Readers /\ "SENT" \notin status[q][r] /\ "ACTIVE" \in status[q][r]
                     /\ s = 1 => "CACHEEX" \in status[q][r]
                     /\ s = 2 => "LOCAL" \in status[q][r]
                     /\ s = 4 => "FALLBACK" \in status[q][r]
  BY DEF Eligible
<1>7. s = 1 => \A r \in Readers : /\ "CACHEEX" \in status[q][r]
                                  /\ "ACTIVE" \in status[q][r]
                                  /\ "SENT" \notin status[q][r]
                                  => r \in now
  BY DEF Eligible
<1> HIDE DEF s, now, then
<1>8. /\ stage'[q] = s /\ reached'[q] = reached[q] \cup connected
      /\ \A r \in Readers :
           status'[q][r] = IF r \in now THEN status[q][r] \cup {"SENT"} ELSE status[q][r]
      /\ work'[q] = IF s < 4 /\ connected = {} /\ work[q].stop = 0 THEN work[q]
                    ELSE CASE then = "fallback"          -> AskAgain
                           [] then \in {"refuse", "keep"} -> Verdict(then)
                           [] OTHER                      -> IdleWork
  BY <1>1, <1>3 DEF OwnOK, Fields, EaOK
<1>9. /\ reached[q] \subseteq Readers /\ connected \subseteq now
      /\ client[q] # "new" /\ client'[q] = client[q] /\ earc'[q] = earc[q] /\ age'[q] = age[q]
      /\ now \subseteq Readers
  BY <1>2, <1>3, <1>6 DEF OwnOK, IInv, Serial
<1>10. \A r \in Readers :
         /\ "SENT" \in status'[q][r] <=> "SENT" \in status[q][r] \/ r \in now
         /\ \A f \in KindFlags \cup {"ACTIVE", "ANSWERED"} : f \in status'[q][r] <=> f \in status[q][r]
  BY <1>8 DEF KindFlags
<1>11. \A r \in now : /\ "LOCAL" \in status[q][r] <=> "LOCAL" \in Kind[r]
                      /\ "CACHEEX" \in status[q][r] <=> "CACHEEX" \in Kind[r]
                      /\ "FALLBACK" \in status[q][r] => "FALLBACK" \in Kind[r]
  BY <1>3, <1>6 DEF Flagged
<1>12. /\ \A r \in Readers : Quiet(q, r)' <=> Quiet(q, r)
       /\ Exhausted(q)' <=> Exhausted(q)
       /\ Waits(q)' <=> Waits(q)
       /\ Waiting(q)' <=> Waiting(q)
  BY <1>2, <1>9, <1>10 DEF Quiet, Exhausted, Waits, PreferOf, Waiting, KindFlags
<1>13. Flagged(q)'
  <2>1. ASSUME NEW r \in Readers
        PROVE  /\ "FALLBACK" \in status'[q][r] => "FALLBACK" \in Kind[r]
               /\ "SENT" \in status'[q][r] \/ "ACTIVE" \in status'[q][r] =>
                    /\ "LOCAL" \in status'[q][r] <=> "LOCAL" \in Kind[r]
                    /\ "CACHEEX" \in status'[q][r] <=> "CACHEEX" \in Kind[r]
               /\ r \in reached'[q] => "SENT" \in status'[q][r]
    <3>1. /\ "FALLBACK" \in status'[q][r] <=> "FALLBACK" \in status[q][r]
          /\ "LOCAL" \in status'[q][r] <=> "LOCAL" \in status[q][r]
          /\ "CACHEEX" \in status'[q][r] <=> "CACHEEX" \in status[q][r]
          /\ "ACTIVE" \in status'[q][r] <=> "ACTIVE" \in status[q][r]
      BY <1>10 DEF KindFlags
    <3>2. r \in reached'[q] => r \in reached[q] \/ r \in now
      BY <1>8, <1>9
    <3> QED BY <1>3, <1>6, <1>10, <3>1, <3>2 DEF Flagged
  <2>2. ASSUME \/ stage'[q] >= 5
               \/ \E r \in Readers : "SENT" \in status'[q][r] /\ "ACTIVE" \notin status'[q][r],
               NEW r \in Readers
        PROVE  "ACTIVE" \notin status'[q][r]
    <3>1. \A x \in Readers : "ACTIVE" \in status'[q][x] <=> "ACTIVE" \in status[q][x]
      BY <1>10
    <3>2. stage'[q] >= 5 => stage[q] = 5
      BY <1>4, <1>5, <1>8
    <3>3. \A x \in Readers : "SENT" \in status'[q][x] /\ "ACTIVE" \notin status'[q][x] =>
                               "SENT" \in status[q][x] /\ "ACTIVE" \notin status[q][x]
      BY <1>6, <1>10, <3>1
    <3> QED BY <1>3, <2>2, <3>1, <3>2, <3>3 DEF Flagged
  <2> QED BY <2>1, <2>2 DEF Flagged
\* The cache-exchange readers stay done when the others are asked.
<1>14. Waits(q) /\ s \in 2 .. 4 => stage[q] \in {1, 2, 3}
  BY <1>4, <1>5
<1>15. ASSUME Waits(q), s \in 2 .. 4, CxClear(q) PROVE CxClear(q)'
  <2>1. ASSUME NEW r \in Readers, CxMain(r), "SENT" \in status'[q][r] PROVE Quiet(q, r)'
    <3>1. ~Normal(r) /\ "CACHEEX" \in Kind[r] /\ "FALLBACK" \notin Kind[r] /\ "LOCAL" \notin Kind[r]
      BY <2>1, ReadersAssumption DEF CxMain, Normal, KindFlags
    <3>2. r \notin now
      <4>1. SUFFICES ASSUME r \in now PROVE FALSE
        OBVIOUS
      <4>2. "CACHEEX" \in status[q][r] /\ "ACTIVE" \in status[q][r] /\ "SENT" \notin status[q][r]
        BY <1>6, <1>11, <3>1, <4>1
      <4>3. s # 2 /\ s # 4
        BY <1>6, <1>11, <3>1, <4>1
      <4>4. stage[q] \in {1, 2, 3}
        BY <1>14, <1>15
      <4> QED BY <1>3, <1>15, <4>2, <4>4 DEF Staged
    <3>3. "SENT" \in status[q][r]
      BY <1>10, <2>1, <3>2
    <3> QED BY <1>12, <1>15, <2>1, <3>3 DEF CxClear
  <2> QED BY <1>15, <2>1 DEF CxClear
<1>16. Waiting(q) /\ s \in 2 .. 4 => CxClear(q)
  <2>1. ASSUME Waiting(q), s \in 2 .. 4 PROVE CxClear(q)
    <3>1. Waits(q) /\ age[q] < FbDue /\ stage[q] \in {1, 2, 3}
      BY <1>14, <2>1 DEF Waiting
    <3>2. age[q] \in 0 .. 4
      BY AgeIs
    <3>3. then # "fallback"
      BY <1>2, <1>3, <3>1, <3>2 DEF Placed, then, FbDue
    <3>4. work[q].stop = 0
      BY <1>4, <3>1
    <3> QED BY <1>2, <1>3, <2>1, <3>3, <3>4 DEF Placed, then
  <2> QED BY <2>1
<1>17. Staged(q)'
  <2>1. stage'[q] <= 1 => \A r \in reached'[q] : ~Normal(r)
    <3>1. ASSUME stage'[q] <= 1, NEW r \in reached'[q] PROVE ~Normal(r)
      <4>1. s = 1 /\ stage[q] = 0
        BY <1>4, <1>5, <1>8, <3>1
      <4>2. CASE r \in reached[q]
        BY <1>3, <4>1, <4>2 DEF Staged
      <4>3. CASE r \in connected
        BY <1>6, <1>9, <1>11, <4>1, <4>3 DEF Normal
      <4> QED BY <1>8, <3>1, <4>2, <4>3
    <3> QED BY <3>1
  <2>2. stage'[q] = 2 => \A r \in reached'[q] : Normal(r) => "LOCAL" \in Kind[r]
    <3>1. ASSUME stage'[q] = 2, NEW r \in reached'[q], Normal(r) PROVE "LOCAL" \in Kind[r]
      <4>1. s = 2 /\ stage[q] <= 1
        BY <1>4, <1>5, <1>8, <3>1
      <4>2. CASE r \in reached[q]
        BY <1>3, <3>1, <4>1, <4>2 DEF Staged
      <4>3. CASE r \in connected
        BY <1>6, <1>9, <1>11, <4>1, <4>3
      <4> QED BY <1>8, <3>1, <4>2, <4>3
    <3> QED BY <3>1
  <2>3. ASSUME Waits(q), NEW r \in Readers, "CACHEEX" \in status'[q][r], "ACTIVE" \in status'[q][r]
        PROVE  "SENT" \in status'[q][r]
    <3>1. "CACHEEX" \in status[q][r] /\ "ACTIVE" \in status[q][r]
      BY <1>10, <2>3 DEF KindFlags
    <3>2. CASE stage[q] = 0
      <4>1. s = 1
        BY <1>5, <2>3, <3>2
      <4> QED BY <1>7, <1>10, <3>1, <4>1
    <3>3. CASE stage[q] >= 1
      BY <1>3, <1>10, <2>3, <3>1, <3>3 DEF Staged
    <3> QED BY <1>4, <3>2, <3>3
  <2>4. Waiting(q) /\ stage'[q] \in 2 .. 4 => CxClear(q)'
    BY <1>8, <1>15, <1>16 DEF Waiting
  <2>5. Waits(q)' /\ stage'[q] >= 1 =>
          \A r \in Readers : "CACHEEX" \in status'[q][r] /\ "ACTIVE" \in status'[q][r] =>
                               "SENT" \in status'[q][r]
    BY <1>12, <2>3
  <2> QED BY <1>9, <1>12, <2>1, <2>2, <2>4, <2>5 DEF Staged
<1>18. Exhausted(q)' <=> Exhausted(q)
  BY <1>12
<1>19. work'[q] \in WorkType /\ Placed(q, work[q], Waiting(q))'
  <2>1. CASE s < 4 /\ connected = {} /\ work[q].stop = 0
    <3>1. work'[q] = work[q] /\ reached'[q] = reached[q] /\ work[q].at = "ask"
      BY <1>2, <1>8, <2>1
    <3>2. stage'[q] \in {1, 2, 3}
      BY <1>5, <1>8, <2>1
    <3>3. MainDone(q) => MainDone(q)'
      BY <1>9, <1>12, <3>1 DEF MainDone
    <3>4. Waiting(q) /\ work[q].then # "fallback" => CxClear(q)'
      <4>1. ASSUME Waiting(q), work[q].then # "fallback" PROVE CxClear(q)'
        <5>1. stage[q] >= 1 /\ CxClear(q) /\ Waits(q)
          BY <1>2, <1>3, <2>1, <4>1 DEF Placed, Waiting
        <5>2. s \in 2 .. 4
          BY <1>4, <1>5, <2>1, <5>1
        <5> QED BY <1>15, <5>1, <5>2
      <4> QED BY <4>1
    <3>5. work[q].then = "fallback" => age'[q] >= FbDue
      BY <1>2, <1>3, <1>9 DEF Placed
    <3>6. /\ work'[q].at = "ask" /\ work'[q].stop = 0
          /\ work'[q].then # "fallback" => MainDone(q)'
          /\ work'[q].then = "refuse" => Exhausted(q)'
          /\ work'[q].then = "fallback" => age'[q] >= FbDue
      BY <1>2, <1>3, <1>18, <2>1, <3>1, <3>3, <3>5 DEF Placed
    <3>7. Waiting(q)' /\ work'[q].then # "fallback" => CxClear(q)'
      BY <1>12, <3>1, <3>4
    <3>8. stage'[q] >= 1
      BY <3>2
    <3>9. Placed(q, work[q], Waiting(q))'
      BY <3>2, <3>6, <3>7, <3>8 DEF Placed
    <3> QED BY <1>3, <3>1, <3>9
  <2>2. CASE ~(s < 4 /\ connected = {} /\ work[q].stop = 0) /\ then = "fallback"
    <3>1. work'[q] = AskAgain /\ AskAgain.at = "again"
      BY <1>8, <2>2 DEF AskAgain, IdleWork
    <3>2. age'[q] >= FbDue
      BY <1>2, <1>3, <1>9, <2>2 DEF Placed, then
    <3> QED BY <3>1, <3>2, PlacesIn DEF Placed
  <2>3. CASE ~(s < 4 /\ connected = {} /\ work[q].stop = 0) /\ then \in {"refuse", "keep"}
    <3>1. work'[q] = Verdict(then) /\ Verdict(then).at = "verdict" /\ Verdict(then).then = then
      BY <1>8, <2>3 DEF Verdict, IdleWork
    <3>2. then = "refuse" => Exhausted(q)
      BY <1>2, <1>3 DEF Placed, then
    <3> QED BY <1>18, <2>3, <3>1, <3>2, PlacesIn DEF Placed
  <2>4. CASE ~(s < 4 /\ connected = {} /\ work[q].stop = 0) /\ then \notin {"fallback", "refuse", "keep"}
    <3>1. work'[q] = IdleWork /\ IdleWork.at = "idle"
      BY <1>8, <2>4 DEF IdleWork
    <3> QED BY <3>1, PlacesIn DEF Placed
  <2> QED BY <2>1, <2>2, <2>3, <2>4
<1>20. FbJobs(q)'
  BY <1>2, <1>3 DEF FbJobs
<1>21. Turn(q)'
  BY <1>13, <1>17, <1>19, <1>20 DEF Turn
<1>22. OwnOK'
  <2>1. stage' \in [Requests -> 0 .. 6] /\ reached' \in [Requests -> SUBSET Readers]
    <3>1. s \in 0 .. 6 /\ connected \subseteq Readers
      BY <1>5, <1>9
    <3> QED BY <1>1, <1>3, <3>1 DEF OwnOK
  <2>2. work' = [work EXCEPT ![q] = work'[q]]
    BY <1>1, <1>3 DEF OwnOK
  <2> QED BY <1>2, <1>3, <1>19, <2>1, <2>2 DEF OwnOK
<1>23. ASSUME NEW p \in Requests, p # q PROVE Turn(p)'
  <2>1. /\ stage'[p] = stage[p] /\ reached'[p] = reached[p] /\ work'[p] = work[p]
        /\ status'[p] = status[p]
    BY <1>1, <1>3, <1>23 DEF OwnOK, Fields, EaOK
  <2>2. age[p] \in 0 .. 4 /\ Turn(p)
    BY AgeIs DEF TInv
  <2>3. FbJobs(p)'
    BY <1>2, <2>2 DEF FbJobs, Turn
  <2> QED BY <1>2, <2>1, <2>2, <2>3, TurnKept
<1> QED BY <1>21, <1>22, <1>23 DEF TInv

\* get_cw: nobody has been asked.
LEMMA GetCwTurn ==
  ASSUME Fields, Fields', IInv, Places1, TInv, NEW q \in Requests, GetCw(q)
  PROVE  TInv'
<1>1. PICK sel \in Selections :
        LET prefer == IF \E r \in sel : "LOCAL" \in Kind[r] THEN PreferLocal ELSE 0
            waits  == WaitTime /\ prefer < 2
        IN /\ sel # {} \/ waits
           /\ selection' = [selection EXCEPT ![q] = sel]
           /\ status' = [status EXCEPT ![q] = [r \in Readers |-> FirstStatus(r, sel)]]
           /\ waitExpired' = [waitExpired EXCEPT ![q] = ~waits]
           /\ work' = [work EXCEPT ![q] =
                        IF ~waits THEN Asking(0, "done")
                        ELSE IF ~Mode1Delay /\ \E r \in sel : ~Normal(r)
                             THEN Asking(1, "done") ELSE IdleWork]
  BY DEF GetCw
<1>2. /\ UNCHANGED <<stage, reached, timeoutCheck, age, earc, jobs>>
      /\ client[q] = "new" /\ client' = [client EXCEPT ![q] = "waiting"]
  BY DEF GetCw
<1>3. OwnOK /\ Staged(q) /\ FbJobs(q) /\ sel \subseteq Readers
  BY ReadersAssumption DEF TInv, Turn
<1> DEFINE prefer == IF \E r \in sel : "LOCAL" \in Kind[r] THEN PreferLocal ELSE 0
           waits  == WaitTime /\ prefer < 2
<1>4. /\ selection'[q] = sel /\ waitExpired'[q] = ~waits /\ client'[q] = "waiting"
      /\ \A r \in Readers : status'[q][r] = FirstStatus(r, sel)
      /\ work'[q] = IdleWork \/ work'[q] = Asking(1, "done") \/ (~waits /\ work'[q] = Asking(0, "done"))
  BY <1>1, <1>2, <1>3 DEF OwnOK, Fields, EaOK, ClOK
<1> HIDE DEF waits, prefer
<1>5. stage'[q] = 0 /\ reached'[q] = {}
  BY <1>2, <1>3 DEF Staged
<1>6. \A r \in Readers :
        /\ "SENT" \notin FirstStatus(r, sel)
        /\ "FALLBACK" \in FirstStatus(r, sel) => "FALLBACK" \in Kind[r]
        /\ "LOCAL" \in FirstStatus(r, sel) <=> "LOCAL" \in Kind[r]
        /\ "CACHEEX" \in FirstStatus(r, sel) <=> "CACHEEX" \in Kind[r]
  BY ReadersAssumption DEF FirstStatus, KindFlags
<1>7. Flagged(q)'
  BY <1>4, <1>5, <1>6 DEF Flagged
<1>8. Staged(q)'
  BY <1>4, <1>5 DEF Staged
<1>9. work'[q] \in WorkType /\ Placed(q, work[q], Waiting(q))'
  <2>1. /\ IdleWork.at = "idle"
        /\ \A x \in {0, 1} : /\ Asking(x, "done").at = "ask" /\ Asking(x, "done").then = "done"
                             /\ Asking(x, "done").stop = x
    BY DEF IdleWork, Asking
  <2>2. MainDone(q)'
    BY <1>5 DEF MainDone
  <2>3. ~waits => ~Waiting(q)'
    BY <1>4 DEF Waiting
  <2>4. CASE work'[q] = IdleWork
    BY <2>1, <2>4, PlacesIn DEF Placed
  <2>5. CASE work'[q] = Asking(1, "done")
    BY <1>5, <2>1, <2>2, <2>5, PlacesIn DEF Placed
  <2>6. CASE ~waits /\ work'[q] = Asking(0, "done")
    BY <1>5, <2>1, <2>2, <2>3, <2>6, PlacesIn DEF Placed
  <2> QED BY <1>4, <2>4, <2>5, <2>6
<1>10. FbJobs(q)'
  BY <1>2, <1>3 DEF FbJobs
<1>11. OwnOK'
  <2>1. /\ selection' \in [Requests -> SUBSET Readers]
        /\ waitExpired' \in [Requests -> BOOLEAN]
        /\ work' = [work EXCEPT ![q] = work'[q]]
    BY <1>1, <1>3 DEF OwnOK
  <2> QED BY <1>2, <1>3, <1>9, <2>1 DEF OwnOK
<1>12. ASSUME NEW p \in Requests, p # q PROVE Turn(p)'
  <2>1. /\ selection'[p] = selection[p] /\ waitExpired'[p] = waitExpired[p] /\ work'[p] = work[p]
        /\ status'[p] = status[p] /\ client'[p] = client[p]
    BY <1>1, <1>2, <1>3, <1>12 DEF OwnOK, Fields, EaOK, ClOK
  <2>2. age[p] \in 0 .. 4 /\ Turn(p)
    BY AgeIs DEF TInv
  <2>3. FbJobs(p)'
    BY <1>2, <2>2 DEF FbJobs, Turn
  <2> QED BY <1>2, <2>1, <2>2, <2>3, TurnKept
<1> QED BY <1>7, <1>8, <1>9, <1>10, <1>11, <1>12 DEF TInv, Turn

\* write_ecm_answer: a reader's flags but "ANSWERED" change only for a bad ECM.
LEMMA RecordFlags ==
  ASSUME Fields, OwnOK, NEW t \in Requests \cup Readers, Record(t)
  PROVE  LET q == Top(t).q    r == Top(t).r    bad == Top(t).ans = "badecm" IN
         /\ q \in Requests /\ r \in Readers
         /\ \/ UNCHANGED <<status, earc, stage>>
            \/ /\ "ANSWERED" \notin status[q][r]
               /\ stage' = [stage EXCEPT ![q] = IF bad THEN 5 ELSE stage[q]]
               /\ \A p \in Requests \ {q} : status'[p] = status[p] /\ earc'[p] = earc[p]
               /\ \A s \in Readers : s # r => earc'[q][s] = earc[q][s]
               /\ \A s \in Readers :
                    /\ \A f \in {"SENT", "LOCAL", "CACHEEX"} : f \in status'[q][s] <=> f \in status[q][s]
                    /\ \A f \in {"ACTIVE", "FALLBACK"} :
                         f \in status'[q][s] <=> ~bad /\ f \in status[q][s]
                    /\ "ANSWERED" \in status[q][s] => "ANSWERED" \in status'[q][s]
<1> DEFINE q == Top(t).q
           r == Top(t).r
           ans == Top(t).ans
           answered == IF ans = "foreign" THEN {} ELSE {"ANSWERED"}
<1>1. q \in Requests /\ r \in Readers
  BY TopIn DEF Record, Fields
<1>2. CASE age[q] = Late \/ "ANSWERED" \in status[q][r]
  BY <1>1, <1>2 DEF Record
<1>3. CASE ~(age[q] = Late \/ "ANSWERED" \in status[q][r])
  <2>1. /\ earc' = [earc EXCEPT ![q][r] = Code(ans)]
        /\ stage' = [stage EXCEPT ![q] = IF ans = "badecm" THEN 5 ELSE stage[q]]
        /\ status' = [status EXCEPT ![q] =
                  [s \in Readers |->
                     (IF ans = "badecm" THEN @[s] \ {"ACTIVE", "FALLBACK"} ELSE @[s])
                       \cup (IF s = r THEN answered ELSE {})]]
    BY <1>3 DEF Record
  <2>2. answered \subseteq {"ANSWERED"}
    OBVIOUS
  <2> HIDE DEF q, r, ans, answered
  <2>3. /\ \A p \in Requests \ {q} : status'[p] = status[p] /\ earc'[p] = earc[p]
        /\ \A s \in Readers : s # r => earc'[q][s] = earc[q][s]
        /\ \A s \in Readers :
             status'[q][s] =
                (IF ans = "badecm" THEN status[q][s] \ {"ACTIVE", "FALLBACK"} ELSE status[q][s])
                       \cup (IF s = r THEN answered ELSE {})
    BY <1>1, <2>1 DEF Fields, EaOK
  <2>4. ASSUME NEW s \in Readers
        PROVE  /\ \A f \in {"SENT", "LOCAL", "CACHEEX"} : f \in status'[q][s] <=> f \in status[q][s]
               /\ \A f \in {"ACTIVE", "FALLBACK"} :
                    f \in status'[q][s] <=> ans # "badecm" /\ f \in status[q][s]
               /\ "ANSWERED" \in status[q][s] => "ANSWERED" \in status'[q][s]
    <3>1. PICK extra : extra = (IF s = r THEN answered ELSE {}) /\ extra \subseteq {"ANSWERED"}
      BY <2>2
    <3>2. CASE ans = "badecm"
      <4>1. status'[q][s] = (status[q][s] \ {"ACTIVE", "FALLBACK"}) \cup extra
        BY <2>3, <3>1, <3>2
      <4> QED BY <3>1, <3>2, <4>1
    <3>3. CASE ans # "badecm"
      <4>1. status'[q][s] = status[q][s] \cup extra
        BY <2>3, <3>1, <3>3
      <4> QED BY <3>1, <3>3, <4>1
    <3> QED BY <3>2, <3>3
  <2>5. "ANSWERED" \notin status[q][r]
    BY <1>3
  <2> QED BY <1>1, <2>1, <2>3, <2>4, <2>5 DEF q, r, ans
<1> QED BY <1>2, <1>3

LEMMA RecordTurn ==
  ASSUME Fields, Fields', Places1, TInv, NEW t \in Requests \cup Readers, Record(t)
  PROVE  TInv'
<1>0. PICK q, r : q = Top(t).q /\ r = Top(t).r
  OBVIOUS
<1> DEFINE bad == Top(t).ans = "badecm"
<1>1. /\ UNCHANGED <<selection, waitExpired, timeoutCheck, age, client, jobs, work, reached>>
      /\ q \in Requests /\ r \in Readers
  BY <1>0, RecordFlags DEF Record, clVars, TInv
<1>2. OwnOK /\ \A p \in Requests : Turn(p) /\ age[p] \in 0 .. 4
  BY AgeIs DEF TInv
<1>3. \A p \in Requests : FbJobs(p)'
  BY <1>1, <1>2 DEF Turn, FbJobs
<1>4. ASSUME NEW p \in Requests, UNCHANGED <<stage[p], status[p], earc[p]>> PROVE Turn(p)'
  BY <1>1, <1>2, <1>3, <1>4, TurnKept
<1>5. CASE UNCHANGED <<status, earc, stage>>
  <2>1. OwnOK'
    BY <1>1, <1>2, <1>5 DEF OwnOK
  <2> QED BY <1>4, <1>5, <2>1 DEF TInv
<1>6. CASE /\ "ANSWERED" \notin status[q][r]
           /\ stage' = [stage EXCEPT ![q] = IF bad THEN 5 ELSE stage[q]]
           /\ \A p \in Requests \ {q} : status'[p] = status[p] /\ earc'[p] = earc[p]
           /\ \A s \in Readers : s # r => earc'[q][s] = earc[q][s]
           /\ \A s \in Readers :
                /\ \A f \in {"SENT", "LOCAL", "CACHEEX"} : f \in status'[q][s] <=> f \in status[q][s]
                /\ \A f \in {"ACTIVE", "FALLBACK"} :
                     f \in status'[q][s] <=> ~bad /\ f \in status[q][s]
                /\ "ANSWERED" \in status[q][s] => "ANSWERED" \in status'[q][s]
  <2>0. "SENT" \in status[q][r]
    <3>1. Called(Top(t)) /\ Top(t).op = "record"
      BY RecordEffect, CallIs
    <3> QED BY <1>0, <3>1 DEF Called
  <2> HIDE DEF bad
  <2>1. stage'[q] = (IF bad THEN 5 ELSE stage[q]) /\ \A p \in Requests \ {q} : stage'[p] = stage[p]
    BY <1>1, <1>2, <1>6 DEF OwnOK
  <2>2. OwnOK'
    BY <1>1, <1>2, <1>6 DEF OwnOK
  <2>3. client'[q] # "new"
    BY <1>1, <2>0 DEF Places1, Marks
  <2>4. Flagged(q) /\ Staged(q) /\ Placed(q, work[q], Waiting(q)) /\ stage[q] \in 0 .. 6
    BY <1>1, <1>2 DEF Turn, OwnOK
  <2>5. /\ \A s \in Readers : Quiet(q, s) => Quiet(q, s)'
        /\ Exhausted(q) => Exhausted(q)'
        /\ MainDone(q) => MainDone(q)'
        /\ CxClear(q) => CxClear(q)'
        /\ Waits(q)' <=> Waits(q)
        /\ Waiting(q)' <=> Waiting(q)
        /\ \A s \in Readers : \A v : Saw(q, s, v) => Saw(q, s, v)'
    <3>1. \A s \in Readers : Quiet(q, s) => Quiet(q, s)'
      BY <1>6 DEF Quiet
    <3>2. Exhausted(q) => Exhausted(q)'
      BY <1>6 DEF Exhausted
    <3>3. MainDone(q) => MainDone(q)'
      BY <1>1, <1>2, <3>1 DEF MainDone, OwnOK
    <3>4. CxClear(q) => CxClear(q)'
      BY <1>6, <3>1 DEF CxClear
    <3>5. Waits(q)' <=> Waits(q)
      BY <1>1 DEF Waits, PreferOf
    <3>6. Waiting(q)' <=> Waiting(q)
      BY <1>1, <3>5 DEF Waiting
    <3>7. \A s \in Readers : \A v : Saw(q, s, v) => Saw(q, s, v)'
      BY <1>6 DEF Saw
    <3> QED BY <3>1, <3>2, <3>3, <3>4, <3>5, <3>6, <3>7
  <2>6. Flagged(q)'
    BY <1>1, <1>6, <2>1, <2>4 DEF Flagged
  <2>7. Staged(q)'
    BY <1>1, <1>6, <2>1, <2>3, <2>4, <2>5 DEF Staged
  <2>8. Placed(q, work[q], Waiting(q))'
    <3>1. stage'[q] \in {stage[q], 5}
      BY <2>1
    <3>2. \A k \in DOMAIN MatchingRdr : MatchingRdr[k] \in Readers
      BY ReadersAssumption
    <3>3. work'[q] = work[q] /\ age'[q] = age[q]
      BY <1>1
    <3>4. work'[q] = work[q] => 
          ( /\ work[q].at = "scan" => work[q].i >= 1 /\ \A k \in DOMAIN MatchingRdr : k < work[q].i =>
                                     Saw(q, MatchingRdr[k], work[q].view[MatchingRdr[k]])
            /\ work[q].at = "scan" /\ work[q].then = "cacheex" => stage[q] \in {1, 5} /\ (Waiting(q) => ~HitCache) )'
      BY <2>4, <2>5, <3>1, <3>2 DEF Placed
    <3>5. ( /\ work[q].at = "ask" => stage[q] \in {0, 1, 2, 3, 5} /\ (work[q].stop = 1 => stage[q] \in {0, 5})
            /\ Waiting(q) /\ work[q].at = "ask" /\ work[q].stop = 0 /\ work[q].then # "fallback" =>
                 stage[q] >= 1 /\ CxClear(q) )'
      BY <2>4, <2>5, <3>1, <3>3 DEF Placed
    <3>6. ( /\ work[q].at = "again" \/ (work[q].at = "ask" /\ work[q].then = "fallback") => age[q] >= FbDue
            /\ work[q].at = "ask" /\ work[q].then # "fallback" => MainDone(q)
            /\ work[q].at \in {"ask", "verdict"} /\ work[q].then = "refuse" => Exhausted(q) )'
      BY <2>4, <2>5, <3>3 DEF Placed
    <3> QED BY <3>3, <3>4, <3>5, <3>6 DEF Placed
  <2>9. Turn(q)'
    BY <1>1, <1>3, <2>6, <2>7, <2>8 DEF Turn
  <2>10. \A p \in Requests : p # q => Turn(p)'
    BY <1>4, <1>6, <2>1
  <2> QED BY <2>2, <2>9, <2>10 DEF TInv
<1> QED BY <1>0, <1>5, <1>6, RecordFlags DEF TInv

\* The steps outside: jobs are posted and taken away, the clock goes on.
LEMMA OtherTurn ==
  ASSUME Fields, Fields', TInv,
         UNCHANGED <<stage, selection, waitExpired, timeoutCheck, work, reached, status, earc>>,
         \A p \in Requests : /\ age'[p] >= age[p] /\ FbJobs(p)'
                             /\ client'[p] = "new" => client[p] = "new"
  PROVE  TInv'
<1>1. OwnOK'
  BY DEF TInv, OwnOK
<1>2. ASSUME NEW p \in Requests PROVE Turn(p)'
  BY TurnKept DEF TInv
<1> QED BY <1>1, <1>2 DEF TInv

LEMMA FbJobsSame ==
  ASSUME Fields, TInv, UNCHANGED jobs, NEW p \in Requests, age'[p] \in 0 .. 4, age'[p] >= age[p]
  PROVE  FbJobs(p)'
<1>1. FbJobs(p) /\ age[p] \in 0 .. 4
  BY AgeIs DEF TInv, Turn
<1> QED BY <1>1 DEF FbJobs, FbDue

LEMMA NextTInv == ASSUME Fields, Fields', IInv, Places1, TInv, [Next]_vars PROVE TInv'
<1>0. \A p \in Requests : age[p] \in 0 .. 4 /\ FbJobs(p)
  BY AgeIs DEF TInv, Turn
<1>1. ASSUME NEW q \in Requests, ClientStep(q) PROVE TInv'
  BY <1>1, AskTurn, ClientTurn
<1>2. ASSUME NEW q \in Requests, GetCw(q) \/ GetCwCached(q) \/ GetCwNoReader(q) PROVE TInv'
  <2>1. CASE GetCw(q)
    BY <2>1, GetCwTurn
  <2>2. CASE GetCwCached(q) \/ GetCwNoReader(q)
    <3>1. /\ UNCHANGED <<stage, selection, waitExpired, timeoutCheck, work, reached, status, earc, age, jobs>>
          /\ client' = [client EXCEPT ![q] = "waiting"]
      BY <2>2 DEF GetCwCached, GetCwNoReader, eaVars
    <3>2. \A p \in Requests : client'[p] = "new" => client[p] = "new"
      BY <3>1 DEF Fields, ClOK
    <3> QED BY <1>0, <3>1, <3>2, FbJobsSame, OtherTurn
  <2> QED BY <1>2, <2>1, <2>2
<1>3. ASSUME NEW t \in Requests \cup Readers, WriteStep(t) PROVE TInv'
  <2>1. CASE Record(t)
    BY <2>1, RecordTurn
  <2>2. CASE Publish(t)
    <3>1. /\ UNCHANGED <<stage, selection, waitExpired, timeoutCheck, work, reached, status, earc, age, client>>
      BY <2>2 DEF Publish, erVars, eaVars
    <3>2. PICK q, r : q = Top(t).q /\ r = Top(t).r
      OBVIOUS
    <3>3. /\ q \in Requests /\ r \in Readers
          /\ jobs' = [jobs EXCEPT ![q] = IF client[q] = "waiting" THEN Append(@, AnswerJob(r)) ELSE @]
      BY <2>2, <3>2, PublishEffect DEF Publish
    <3>4. \A p \in Requests : FbJobs(p)'
      <4>1. CASE client[q] = "waiting"
        <5>1. AnswerJob(r) \in JobType /\ AnswerJob(r).act = "answer"
          BY <3>3, JobIn DEF AnswerJob
        <5>2. jobs' = [jobs EXCEPT ![q] = Append(@, AnswerJob(r))]
          BY <3>3, <4>1
        <5>3. FbJobs(q)' /\ \A p \in Requests \ {q} : jobs'[p] = jobs[p]
          BY <1>0, <3>1, <3>3, <5>1, <5>2, FbJobsMore
        <5> QED BY <1>0, <3>1, <5>3 DEF FbJobs
      <4>2. CASE client[q] # "waiting"
        <5>1. UNCHANGED jobs
          BY <3>3, <4>2 DEF Fields, ClOK
        <5> QED BY <1>0, <3>1, <5>1, FbJobsSame
      <4> QED BY <4>1, <4>2
    <3> QED BY <1>0, <3>1, <3>4, OtherTurn
  <2>3. CASE Store(t)
    <3>1. UNCHANGED <<stage, selection, waitExpired, timeoutCheck, work, reached, status, earc, age,
                      client, jobs>>
      BY <2>3 DEF Store, erVars, eaVars, clVars
    <3> QED BY <1>0, <3>1, FbJobsSame, OtherTurn
  <2> QED BY <1>3, <2>1, <2>2, <2>3 DEF WriteStep
<1>4. ASSUME NEW r \in Readers, ReaderStep(r) \/ ServerAnswers(r) PROVE TInv'
  <2>1. UNCHANGED <<stage, selection, waitExpired, timeoutCheck, work, reached, status, earc, age,
                    client, jobs>>
    BY <1>4 DEF ReaderStep, RefuseEcm, FindSame, JoinSame, LimitEcm, ForwardEcm, ServerAnswers,
       erVars, eaVars, clVars
  <2> QED BY <1>0, <2>1, FbJobsSame, OtherTurn
<1>5. ASSUME NEW q \in Requests, TimerStep(q) PROVE TInv'
  <2>1. UNCHANGED <<stage, selection, waitExpired, timeoutCheck, work, reached, status, earc, age, client>>
    BY <1>5 DEF TimerStep, PostCacheexTimeout, PostMode1Delay, PostFallbackTimeout,
       PostClientTimeout, PostCacheHit, Posts, erVars, eaVars
  <2>2. \E j \in JobType : /\ j.act = "fallback" => age[q] >= FbDue
                           /\ jobs' = [jobs EXCEPT ![q] = Append(@, j)]
    <3>1. CASE PostCacheHit(q)
      <4>1. PICK src \in Hits(q) : jobs' = [jobs EXCEPT ![q] = Append(@, CacheJob(src))]
        BY <3>1 DEF PostCacheHit
      <4>2. CacheJob(src).act = "cache" /\ CacheJob(src) \in JobType
        BY HitsIn, JobIn DEF CacheJob, Fields
      <4> QED BY <4>1, <4>2
    <3>2. CASE PostFallbackTimeout(q)
      BY <3>2, JobIn DEF PostFallbackTimeout, Posts
    <3>3. CASE PostCacheexTimeout(q) \/ PostMode1Delay(q) \/ PostClientTimeout(q)
      <4>1. \A act : Job(act).act = act
        BY DEF Job
      <4> QED BY <3>3, <4>1, JobIn DEF PostCacheexTimeout, PostMode1Delay, PostClientTimeout, Posts
    <3> QED BY <1>5, <3>1, <3>2, <3>3 DEF TimerStep
  <2>3. PICK j \in JobType : /\ j.act = "fallback" => age[q] >= FbDue
                             /\ jobs' = [jobs EXCEPT ![q] = Append(@, j)]
    BY <2>2
  <2>4. FbJobs(q)' /\ \A p \in Requests \ {q} : jobs'[p] = jobs[p]
    BY <1>0, <2>1, <2>3, FbJobsMore
  <2>5. \A p \in Requests : FbJobs(p)'
    BY <1>0, <2>1, <2>4 DEF FbJobs
  <2> QED BY <1>0, <2>1, <2>5, OtherTurn
<1>6. ASSUME NEW q \in Requests, Disconnect(q) PROVE TInv'
  <2>1. /\ UNCHANGED <<stage, selection, waitExpired, timeoutCheck, work, reached, status, earc, age>>
        /\ client' = [client EXCEPT ![q] = "killed"] /\ jobs' = [jobs EXCEPT ![q] = <<>>]
    BY <1>6 DEF Disconnect, erVars, eaVars
  <2>2. \A p \in Requests : client'[p] = "new" => client[p] = "new"
    BY <2>1 DEF Fields, ClOK
  <2>3. \A p \in Requests : FbJobs(p)'
    <3>1. \A p \in Requests : jobs'[p] = jobs[p] \/ jobs'[p] = <<>>
      BY <2>1 DEF Fields, ClOK
    <3> QED BY <1>0, <2>1, <3>1 DEF FbJobs
  <2> QED BY <1>0, <2>1, <2>2, <2>3, OtherTurn
<1>7. ASSUME NEW q \in Requests, Tick(q) PROVE TInv'
  <2>1. /\ UNCHANGED <<stage, selection, waitExpired, timeoutCheck, work, reached, status, earc, client, jobs>>
        /\ age' = [age EXCEPT ![q] = IF @ = Fresh /\ ~Waits(q) THEN FbDue ELSE @ + 1]
    BY <1>7 DEF Tick, eaVars, clVars
  <2>2. \A p \in Requests : age'[p] >= age[p] /\ age'[p] \in 0 .. 4
    BY <1>0, <2>1 DEF Fields, ClOK, Fresh, FbDue, Late
  <2> QED BY <2>1, <2>2, FbJobsSame, OtherTurn
<1>8. CASE (\E e \in Ecms : PeerPushes(e)) \/ Quiescent \/ UNCHANGED vars
  <2>1. UNCHANGED <<stage, selection, waitExpired, timeoutCheck, work, reached, status, earc, age,
                    client, jobs>>
    BY <1>8 DEF PeerPushes, Quiescent, vars, erVars, eaVars, clVars
  <2> QED BY <1>0, <2>1, FbJobsSame, OtherTurn
<1> QED BY <1>1, <1>2, <1>3, <1>4, <1>5, <1>6, <1>7, <1>8 DEF Next

\* Only request_cw_from_readers sends a request to a reader.
LEMMA OnlyAskSends ==
  ASSUME Fields, TInv, [Next]_vars, NEW q \in Requests, NEW r \in Readers, AskedNow(q, r)
  PROVE  Ask(q)
<1>1. ASSUME NEW p \in Requests, Ask(p) PROVE p = q
  <2>1. \E now : status' = [status EXCEPT ![p] =
                   [x \in Readers |-> IF x \in now THEN @[x] \cup {"SENT"} ELSE @[x]]]
    BY <1>1 DEF Ask
  <2> QED BY <2>1 DEF AskedNow, Fields, EaOK
<1>2. ASSUME NEW p \in Requests, GetCw(p) PROVE FALSE
  <2>1. PICK sel : status' = [status EXCEPT ![p] = [x \in Readers |-> FirstStatus(x, sel)]]
    BY <1>2 DEF GetCw
  <2>2. "SENT" \notin FirstStatus(r, sel)
    BY ReadersAssumption DEF FirstStatus, KindFlags
  <2> QED BY <2>1, <2>2 DEF AskedNow, Fields, EaOK
<1>3. ASSUME NEW t \in Requests \cup Readers, Record(t) PROVE FALSE
  BY <1>3, RecordFlags DEF AskedNow, TInv
<1>4. CASE status' = status
  BY <1>4 DEF AskedNow
<1>5. ASSUME NEW p \in Requests, ClientStep(p), ~Ask(p) PROVE status' = status
  BY <1>5 DEF ClientStep, Scan, AfterCacheexScan, AfterScan, GiveVerdict, CacheexMode1Delay,
       CacheexTimeout, CacheexTimeoutHit, FallbackTimeout, FallbackAgain, EcmTimeout, SendTimeout,
       AnswerFromCache, ChkDcw, eaVars
<1>6. ASSUME NEW p \in Requests, GetCwCached(p) \/ GetCwNoReader(p) \/ TimerStep(p) \/ Tick(p) \/ Disconnect(p)
      PROVE  status' = status
  BY <1>6 DEF GetCwCached, GetCwNoReader, TimerStep, PostCacheexTimeout, PostMode1Delay,
     PostFallbackTimeout, PostClientTimeout, PostCacheHit, Posts, Disconnect, Tick, eaVars
<1>7. ASSUME NEW t \in Requests \cup Readers, Publish(t) \/ Store(t) PROVE status' = status
  BY <1>7 DEF Publish, Store, eaVars
<1>8. ASSUME NEW x \in Readers, ReaderStep(x) \/ ServerAnswers(x) PROVE status' = status
  BY <1>8 DEF ReaderStep, RefuseEcm, FindSame, JoinSame, LimitEcm, ForwardEcm, ServerAnswers, eaVars
<1>9. CASE (\E e \in Ecms : PeerPushes(e)) \/ Quiescent \/ UNCHANGED vars
  BY <1>4, <1>9 DEF PeerPushes, Quiescent, vars, eaVars
<1> QED
  BY <1>1, <1>2, <1>3, <1>4, <1>5, <1>6, <1>7, <1>8, <1>9 DEF Next, WriteStep

\* A normal reader is asked with the fallback readers when the others are done, and after
\* the cache-exchange readers.
LEMMA AskInTurn ==
  ASSUME Fields, Fields', IInv, Places1, TInv, TInv', NEW q \in Requests, Ask(q),
         NEW r \in Readers, AskedNow(q, r), Normal(r), age[q] < FbDue
  PROVE  /\ "FALLBACK" \in status[q][r] =>
              \A x \in reached'[q] : Main(x) => "ANSWERED" \in status[q][x]
         /\ Waits(q) /\ ~waitExpired[q] =>
              /\ ~HitCache
              /\ \A x \in Readers : CxMain(x) /\ "SENT" \in status'[q][x] => "ANSWERED" \in status[q][x]
<1> DEFINE s   == NextStage(q, stage[q])
           now == {x \in Readers : Eligible(q, x, s)}
<1>1. PICK connected \in SUBSET now :
        /\ stage' = [stage EXCEPT ![q] = s]
        /\ status' = [status EXCEPT ![q] =
                        [x \in Readers |-> IF x \in now THEN @[x] \cup {"SENT"} ELSE @[x]]]
        /\ reached' = [reached EXCEPT ![q] = @ \cup connected]
  BY DEF Ask
<1>2. UNCHANGED <<selection, waitExpired, age>> /\ work[q].at = "ask"
  BY DEF Ask
<1>3. /\ OwnOK /\ Flagged(q) /\ Placed(q, work[q], Waiting(q)) /\ Flagged(q)' /\ Staged(q)'
      /\ age[q] \in 0 .. 4 /\ stage[q] \in {0, 1, 2, 3, 5} /\ reached[q] \subseteq Readers
  BY <1>2, AgeIs DEF TInv, Turn, Placed, OwnOK
<1>4. \A x \in now : /\ x \in Readers /\ "ACTIVE" \in status[q][x]
                     /\ s = 1 => "CACHEEX" \in status[q][x]
                     /\ s \in {2, 3} => "FALLBACK" \notin status[q][x]
                     /\ s \in {4, 6} => "FALLBACK" \in status[q][x]
  BY DEF Eligible
<1>5. /\ s \in {1, 2, 3, 4, 6} /\ (stage[q] = 5 <=> s = 6)
  BY <1>3, NextStageIs
<1> HIDE DEF s, now
<1>6. /\ stage'[q] = s /\ reached'[q] = reached[q] \cup connected
      /\ \A x \in Readers :
           status'[q][x] = IF x \in now THEN status[q][x] \cup {"SENT"} ELSE status[q][x]
  BY <1>1, <1>3 DEF OwnOK, Fields, EaOK
<1>7. r \in now /\ "ACTIVE" \in status[q][r] /\ "ACTIVE" \in status'[q][r] /\ s # 1 /\ s # 6
  <2>1. r \in now /\ "ACTIVE" \in status[q][r]
    BY <1>4, <1>6 DEF AskedNow
  <2>2. "CACHEEX" \notin status[q][r]
    BY <1>3, <2>1 DEF Flagged, Normal
  <2>3. s # 6
    BY <1>3, <1>5, <2>1 DEF Flagged
  <2> QED BY <1>4, <1>6, <2>1, <2>2, <2>3
<1>8. ASSUME "FALLBACK" \in status[q][r], NEW x \in reached'[q], Main(x)
      PROVE  "ANSWERED" \in status[q][x]
  <2>1. s = 4
    BY <1>4, <1>5, <1>7, <1>8
  <2>2. x \in reached[q]
    <3>1. x \in now => "FALLBACK" \in Kind[x]
      BY <1>3, <1>4, <2>1 DEF Flagged
    <3> QED BY <1>6, <1>8, <3>1 DEF Main
  <2>3. work[q].then # "fallback"
    BY <1>2, <1>3 DEF Placed, FbDue
  <2>4. Quiet(q, x)
    BY <1>2, <1>3, <1>8, <2>2, <2>3 DEF Placed, MainDone
  <2>5. "SENT" \in status[q][x]
    BY <1>3, <2>2 DEF Flagged
  <2> QED BY <1>3, <1>7, <2>2, <2>4, <2>5 DEF Quiet, Flagged
<1>9. ASSUME Waits(q), ~waitExpired[q]
      PROVE  CxClear(q)'
  <2>1. Waiting(q)'
    BY <1>2, <1>9 DEF Waiting, Waits, PreferOf
  <2>2. stage'[q] \in 2 .. 4
    BY <1>5, <1>6, <1>7
  <2> QED BY <1>3, <2>1, <2>2 DEF Staged
<1>10. ASSUME CxClear(q)', NEW x \in Readers, CxMain(x), "SENT" \in status'[q][x]
       PROVE  "ANSWERED" \in status[q][x]
  <2>1. Quiet(q, x)'
    BY <1>10 DEF CxClear
  <2>2. "ACTIVE" \in status'[q][x]
    BY <1>3, <1>7, <1>10 DEF Flagged
  <2>3. "ANSWERED" \in status'[q][x]
    BY <2>1, <2>2 DEF Quiet
  <2>4. status'[q][x] = status[q][x] \/ status'[q][x] = status[q][x] \cup {"SENT"}
    BY <1>6, <1>10
  <2> QED BY <2>3, <2>4
<1>11. CxClear(q)' => ~HitCache
  BY DEF CxClear
<1> QED BY <1>8, <1>9, <1>10, <1>11

LEMMA InTurn ==
  ASSUME Fields, Fields', IInv, Places1, TInv, TInv', [Next]_vars
  PROVE  HoldsFallback /\ AsksCacheexFirst
<1>1. ASSUME NEW q \in Requests, NEW r \in Readers, AskedNow(q, r), Normal(r),
             "FALLBACK" \in status[q][r], age[q] < FbDue,
             NEW s \in reached'[q], Normal(s), "FALLBACK" \notin Kind[s]
      PROVE  "ANSWERED" \in status[q][s]
  BY <1>1, OnlyAskSends, AskInTurn DEF Main
<1>2. ASSUME NEW q \in Requests, NEW r \in Readers, AskedNow(q, r), Normal(r), Waits(q),
             ~waitExpired[q], age[q] < FbDue
      PROVE  /\ ~HitCache
             /\ \A s \in selection[q] :
                  ~Normal(s) /\ "FALLBACK" \notin Kind[s] /\ "SENT" \in status'[q][s] =>
                    "ANSWERED" \in status[q][s]
  <2>1. selection[q] \subseteq Readers
    BY DEF TInv, OwnOK
  <2> QED BY <1>2, <2>1, OnlyAskSends, AskInTurn DEF CxMain
<1> QED BY <1>1, <1>2 DEF HoldsFallback, AsksCacheexFirst

\* The codes send_dcw sends
LEMMA SentLabel ==
  ASSUME Shapes, NEW q \in Requests, NEW code, NEW src, SendDcw(q, code, src)
  PROVE  /\ \A p \in Requests \ {q} : sent'[p] = sent[p]
         /\ \E label : /\ label = code \/ (code = E_FOUND /\ label = E_CACHE2 /\ src # NoReader)
                       /\ sent'[q] = sent[q] \/ sent'[q] = Append(sent[q], label)
<1> DEFINE label == IF code = E_FOUND /\ src # NoReader /\ isPending[q][src]
                    THEN E_CACHE2 ELSE code
<1>1. \/ sent' = [sent EXCEPT ![q] = sent[q]]
      \/ sent' = [sent EXCEPT ![q] = Append(sent[q], label)]
  <2>1. CASE DoubleCheck /\ label \in {E_FOUND, E_CACHE1, E_CACHE2} /\ src # NoReader
    BY <2>1 DEF SendDcw
  <2>2. CASE ~(DoubleCheck /\ label \in {E_FOUND, E_CACHE1, E_CACHE2} /\ src # NoReader)
    BY <2>2 DEF SendDcw
  <2> QED BY <2>1, <2>2
<1>2. label = code \/ (code = E_FOUND /\ label = E_CACHE2 /\ src # NoReader)
  OBVIOUS
<1> HIDE DEF label
<1> QED BY <1>1, <1>2 DEF Shapes

LEMMA RefusalSent ==
  ASSUME Shapes, NEW p \in Requests, NEW code \in Codes, NEW src, SendDcw(p, code, src),
         NEW q \in Requests, Refuses(q)
  PROVE  q = p /\ code = E_NOTFOUND
<1>1. q = p
  BY SentLabel DEF Refuses
<1>2. PICK label : /\ label = code \/ (code = E_FOUND /\ label = E_CACHE2)
                   /\ sent'[q] = sent[q] \/ sent'[q] = Append(sent[q], label)
  BY <1>1, SentLabel
<1>3. sent[q] \in Seq(Codes) /\ label \in Codes
  BY <1>2 DEF Shapes, Codes, E_CACHE2, E_FOUND
<1>4. sent'[q] = Append(sent[q], label) /\ sent'[q][Len(sent'[q])] = E_NOTFOUND
  BY <1>2 DEF Refuses
<1>5. label = E_NOTFOUND
  BY <1>3, <1>4
<1> QED BY <1>1, <1>2, <1>5 DEF E_NOTFOUND, E_CACHE2

\* A refusal is sent to a request that may still be answered by nobody.
LEMMA RefusedRightly ==
  ASSUME Fields, IInv, Places1, TInv, [Next]_vars, NEW q \in Requests, Refuses(q)
  PROVE  \A r \in selection[q] : Normal(r) /\ "ACTIVE" \in status[q][r] =>
           "ANSWERED" \in status[q][r] /\ earc[q][r] # E_FOUND
<1>0. /\ Shapes /\ selection[q] \subseteq Readers
      /\ {E_FOUND, E_NOTFOUND, E_TIMEOUT, E_CACHE1, E_CACHEEX} \subseteq Codes
      /\ E_NOTFOUND \notin {E_FOUND, E_TIMEOUT, E_CACHE1, E_CACHEEX}
  BY DEF IInv, TInv, OwnOK, Codes, E_FOUND, E_NOTFOUND, E_TIMEOUT, E_CACHE1, E_CACHEEX
<1>1. sent' # sent
  BY DEF Refuses
<1>2. ASSUME NEW p \in Requests, NEW src, FromCache(p, src) PROVE FALSE
  <2>1. \E code \in {E_CACHE1, E_CACHEEX} : SendDcw(p, code, src)
    BY <1>1, <1>2 DEF FromCache, CachedCode, NoSend, Refuses
  <2> QED BY <1>0, <2>1, RefusalSent
<1>3. ASSUME NEW p \in Requests, GetCw(p) \/ GetCwCached(p) \/ GetCwNoReader(p)
      PROVE  \A r \in Readers : "ACTIVE" \notin status[q][r]
  <2>1. CASE GetCw(p)
    BY <2>1 DEF GetCw, Refuses
  <2>2. CASE GetCwCached(p)
    BY <1>2, <2>2 DEF GetCwCached
  <2>3. CASE GetCwNoReader(p)
    <3>1. p = q /\ client[q] = "new"
      BY <1>0, <2>3, RefusalSent DEF GetCwNoReader
    <3> QED BY <3>1 DEF Places1, Marks
  <2> QED BY <1>3, <2>1, <2>2, <2>3
<1>4. ASSUME NEW p \in Requests, CacheexTimeout(p)
      PROVE  \A r \in selection[q] : ~Normal(r)
  <2>1. SendDcw(p, E_NOTFOUND, NoReader) /\ ~\E r \in selection[p] : Normal(r)
    BY <1>4 DEF CacheexTimeout, NoSend, Refuses
  <2>2. p = q
    BY <1>0, <2>1, RefusalSent
  <2> QED BY <2>1, <2>2
<1>5. ASSUME NEW p \in Requests, GiveVerdict(p) PROVE Exhausted(q)
  <2>1. /\ work[p].at = "verdict" /\ work[p].then = "refuse" /\ SendDcw(p, E_NOTFOUND, NoReader)
    BY <1>5 DEF GiveVerdict, NoSend, Refuses
  <2>2. p = q
    BY <1>0, <2>1, RefusalSent
  <2> QED BY <2>1, <2>2 DEF TInv, Turn, Placed
<1>6. ASSUME NEW p \in Requests, SendTimeout(p) PROVE FALSE
  BY <1>0, <1>6, RefusalSent DEF SendTimeout
<1>7. ASSUME NEW p \in Requests, AnswerFromCache(p) PROVE FALSE
  BY <1>2, <1>7 DEF AnswerFromCache
<1>8. ASSUME NEW p \in Requests, ChkDcw(p) PROVE FALSE
  <2>1. \E src : SendDcw(p, E_FOUND, src)
    BY <1>8 DEF ChkDcw, NoSend, Refuses
  <2> QED BY <1>0, <2>1, RefusalSent
<1>9. ASSUME NEW p \in Requests, ClientStep(p)
      PROVE  \/ CacheexTimeout(p) \/ GiveVerdict(p) \/ SendTimeout(p) \/ AnswerFromCache(p) \/ ChkDcw(p)
             \/ sent' = sent
  BY <1>9 DEF ClientStep, Ask, Scan, AfterCacheexScan, AfterScan, CacheexMode1Delay, CacheexTimeoutHit,
     FallbackTimeout, FallbackAgain, EcmTimeout
<1>10. ASSUME NEW p \in Requests, TimerStep(p) \/ Tick(p) \/ Disconnect(p) PROVE sent' = sent
  BY <1>10 DEF TimerStep, PostCacheexTimeout, PostMode1Delay, PostFallbackTimeout,
     PostClientTimeout, PostCacheHit, Posts, Disconnect, Tick, clVars
<1>11. ASSUME NEW t \in Requests \cup Readers, WriteStep(t) PROVE sent' = sent
  BY <1>11 DEF WriteStep, Record, Publish, Store, clVars
<1>12. ASSUME NEW r \in Readers, ReaderStep(r) \/ ServerAnswers(r) PROVE sent' = sent
  BY <1>12 DEF ReaderStep, RefuseEcm, FindSame, JoinSame, LimitEcm, ForwardEcm, ServerAnswers, clVars
<1>13. (\E e \in Ecms : PeerPushes(e)) \/ Quiescent \/ UNCHANGED vars => sent' = sent
  BY DEF PeerPushes, Quiescent, vars, clVars
<1> DEFINE Goal == \A r \in selection[q] : Normal(r) /\ "ACTIVE" \in status[q][r] =>
                     "ANSWERED" \in status[q][r] /\ earc[q][r] # E_FOUND
<1>14. Exhausted(q) => Goal
  BY <1>0 DEF Exhausted
<1>15. (\A r \in Readers : "ACTIVE" \notin status[q][r]) \/ (\A r \in selection[q] : ~Normal(r)) => Goal
  BY <1>0
<1> HIDE DEF Goal
<1>16. ASSUME NEW p \in Requests, ClientStep(p) PROVE Goal
  BY <1>1, <1>4, <1>5, <1>6, <1>7, <1>8, <1>9, <1>14, <1>15, <1>16
<1>17. Goal
  BY <1>1, <1>3, <1>10, <1>11, <1>12, <1>13, <1>15, <1>16 DEF Next
<1> QED BY <1>17 DEF Goal

\* request_cw_from_readers and its callers: readers are asked in their turn.
THEOREM StagesInTurnAlways == Spec => StagesInTurn
<1> DEFINE I == IInv /\ Fields /\ Places1 /\ TInv
<1>1. Init => I
  BY InitIInv, FieldsInit, InitPlaces, InitTInv
<1>2. I /\ [Next]_vars => I'
  BY NextIInv, NextFields, NextPlaces, NextTInv
<1>3. I /\ I' /\ [Next]_vars => HoldsFallback /\ AsksCacheexFirst
  BY InTurn
<1> HIDE DEF I
<1> QED BY <1>1, <1>2, <1>3, PTL DEF Spec, StagesInTurn

\* chk_dcw and its like: a refusal only when no reader is left that may answer.
THEOREM RefusedOnlyExhaustedAlways == Spec => RefusedOnlyExhausted
<1> DEFINE I == IInv /\ Fields /\ Places1 /\ TInv
<1>1. Init => I
  BY InitIInv, FieldsInit, InitPlaces, InitTInv
<1>2. I /\ [Next]_vars => I'
  BY NextIInv, NextFields, NextPlaces, NextTInv
<1>3. I /\ [Next]_vars => RefusesExhausted
  BY RefusedRightly DEF RefusesExhausted
<1> HIDE DEF I
<1> QED BY <1>1, <1>2, <1>3, PTL DEF Spec, RefusedOnlyExhausted

-----------------------------------------------------------------------------
(* double_check: a CW reaches the client when two readers have delivered one. *)

\* The readers that have delivered a CW for the ECM of q
Found(q) == {r \in Readers : \E p \in Requests : Ecm[p] = Ecm[q] /\ earc[p][r] = E_FOUND}
TwoFound(q) == \E r, s \in Found(q) : r # s

\* Cache exchange has put a CW for the ECM of q in the cache.
HasExchanged(q) == \E src \in cached[Ecm[q]] : Exchanged(src)

CheckOK ==
  /\ checked \in [Requests -> Nat]
  /\ origin \in [Requests -> Readers \cup {NoReader}]

\* A CW in the cache or on its way there has been delivered by its reader, one in a job is
\* in the cache.
StoreDue(f) == f.op = "store" => earc[f.q][f.r] = E_FOUND
HitDue(q, j) == j.act = "cache" => j.rdr \in cached[Ecm[q]]
Delivered ==
  /\ \A q \in Requests : cached[Ecm[q]] \subseteq Found(q) \cup {NoReader}
  /\ \A t \in Requests \cup Readers : \A i \in DOMAIN frames[t] : StoreDue(frames[t][i])
  /\ \A q \in Requests : \A i \in DOMAIN jobs[q] : HitDue(q, jobs[q][i])

\* What send_dcw has counted
IsCw(code) == code \in {E_FOUND, E_CACHE1, E_CACHE2}
Counted(q) ==
  /\ checked[q] > 0 => origin[q] \in Found(q)
  /\ checked[q] > 1 => TwoFound(q)
  /\ DoubleCheck /\ sent[q] # <<>> /\ IsCw(sent[q][1]) => TwoFound(q)
  /\ sent[q] # <<>> /\ sent[q][1] = E_CACHEEX => HasExchanged(q)
DInv == CheckOK /\ Delivered /\ \A q \in Requests : Counted(q)

\* The same after a step, by the answers before it
CountedNew(q) ==
  /\ checked'[q] > 0 => origin'[q] \in Found(q)
  /\ checked'[q] > 1 => TwoFound(q)
  /\ DoubleCheck /\ sent'[q] # <<>> /\ IsCw(sent'[q][1]) => TwoFound(q)
  /\ sent'[q] # <<>> /\ sent'[q][1] = E_CACHEEX => HasExchanged(q)

LEMMA InitDInv == ASSUME Init PROVE DInv
<1>1. CheckOK
  BY DEF Init, CheckOK
<1>2. Delivered
  BY DEF Init, Delivered, Ecms
<1>3. \A q \in Requests : Counted(q)
  BY DEF Init, Counted
<1> QED BY <1>1, <1>2, <1>3 DEF DInv

\* A CW that a reader has delivered stays.
LEMMA FoundKept ==
  ASSUME Fields, Places1, [Next]_vars
  PROVE  /\ \A p \in Requests, r \in Readers : earc[p][r] = E_FOUND => earc'[p][r] = E_FOUND
         /\ \A q \in Requests : Found(q) \subseteq Found(q)'
         /\ \A q \in Requests : TwoFound(q) => TwoFound(q)'
<1>1. \A p \in Requests, r \in Readers : earc[p][r] = E_FOUND => earc'[p][r] = E_FOUND
  BY CodeKept
<1>2. ASSUME NEW q \in Requests PROVE Found(q) \subseteq Found(q)'
  BY <1>1 DEF Found
<1>3. ASSUME NEW q \in Requests, TwoFound(q) PROVE TwoFound(q)'
  BY <1>2, <1>3 DEF TwoFound
<1> QED BY <1>1, <1>2, <1>3

\* send_dcw, called for a CW only with a reader that has delivered one
LEMMA SendCounts ==
  ASSUME CheckOK, Shapes, NEW q \in Requests, Counted(q), NEW src,
         NEW code \in {E_FOUND, E_CACHE1, E_CACHEEX, E_NOTFOUND, E_TIMEOUT},
         SendDcw(q, code, src), code \in {E_FOUND, E_CACHE1} => src \in Found(q),
         code = E_CACHEEX => HasExchanged(q)
  PROVE  CheckOK' /\ CountedNew(q)
         /\ \A p \in Requests \ {q} : checked'[p] = checked[p] /\ origin'[p] = origin[p] /\ sent'[p] = sent[p]
<1> DEFINE label == IF code = E_FOUND /\ src # NoReader /\ isPending[q][src]
                    THEN E_CACHE2 ELSE code
<1>1. /\ label \in Codes /\ (IsCw(label) => src \in Found(q))
      /\ (label = E_CACHEEX => HasExchanged(q)) /\ ~IsCw(E_CACHEEX)
  BY DEF IsCw, Codes, E_FOUND, E_CACHE1, E_CACHE2, E_CACHEEX, E_NOTFOUND, E_TIMEOUT
<1>2. Found(q) \subseteq Readers /\ NoReader \notin Found(q)
  BY ReadersAssumption DEF Found
<1>3. /\ checked \in [Requests -> Nat] /\ origin \in [Requests -> Readers \cup {NoReader}]
      /\ sent \in [Requests -> Seq(Codes)]
  BY DEF CheckOK, Shapes
<1>4. sent[q] \in Seq(Codes) /\ Append(sent[q], label) # <<>>
      /\ Append(sent[q], label)[1] = IF sent[q] = <<>> THEN label ELSE sent[q][1]
  BY <1>1, <1>3
<1>5. CASE DoubleCheck /\ IsCw(label) /\ src # NoReader
  <2>1. PICK n : \E same \in BOOLEAN :
          /\ n = IF checked[q] = 0 THEN 1
                 ELSE IF origin[q] # src /\ same THEN checked[q] + 1 ELSE checked[q]
          /\ checked' = [checked EXCEPT ![q] = n]
          /\ origin' = [origin EXCEPT ![q] = IF checked[q] = 0 THEN src ELSE @]
          /\ sent' = [sent EXCEPT ![q] = IF n < 2 THEN @ ELSE Append(@, label)]
    BY <1>5 DEF SendDcw, IsCw
  <2> HIDE DEF label
  <2>2. src \in Found(q) /\ n \in Nat \ {0}
    BY <1>1, <1>3, <1>5, <2>1
  <2>3. CheckOK'
    BY <1>2, <1>3, <2>1, <2>2 DEF CheckOK
  <2>4. checked'[q] = n /\ origin'[q] \in Found(q)
    BY <1>3, <2>1, <2>2 DEF Counted
  <2>5. n > 1 => TwoFound(q)
    BY <1>3, <2>1, <2>2 DEF Counted, TwoFound
  <2>6. DoubleCheck /\ sent'[q] # <<>> /\ IsCw(sent'[q][1]) => TwoFound(q)
    BY <1>3, <2>1, <2>2, <2>5 DEF Counted
  <2>8. sent'[q] # <<>> /\ sent'[q][1] = E_CACHEEX => HasExchanged(q)
    <3>1. sent'[q] = sent[q] \/ sent'[q] = Append(sent[q], label)
      BY <1>3, <2>1
    <3> QED BY <1>1, <1>4, <1>5, <3>1 DEF Counted
  <2>7. \A p \in Requests \ {q} : checked'[p] = checked[p] /\ origin'[p] = origin[p] /\ sent'[p] = sent[p]
    BY <1>3, <2>1
  <2> QED BY <2>3, <2>4, <2>5, <2>6, <2>7, <2>8 DEF CountedNew
<1>6. CASE ~(DoubleCheck /\ IsCw(label) /\ src # NoReader)
  <2>1. sent' = [sent EXCEPT ![q] = Append(@, label)] /\ UNCHANGED <<checked, origin>>
    BY <1>6 DEF SendDcw, IsCw
  <2> HIDE DEF label
  <2>2. ~(DoubleCheck /\ IsCw(label))
    BY <1>1, <1>2, <1>6
  <2>3. DoubleCheck /\ IsCw(sent'[q][1]) => TwoFound(q)
    BY <1>3, <1>4, <2>1, <2>2 DEF Counted
  <2>4. \A p \in Requests \ {q} : checked'[p] = checked[p] /\ origin'[p] = origin[p] /\ sent'[p] = sent[p]
    BY <1>3, <2>1
  <2>5. sent'[q] # <<>> /\ sent'[q][1] = E_CACHEEX => HasExchanged(q)
    <3>1. sent'[q] = Append(sent[q], label)
      BY <1>3, <2>1
    <3> QED BY <1>1, <1>4, <3>1 DEF Counted
  <2> QED BY <1>3, <2>1, <2>3, <2>4, <2>5 DEF CheckOK, CountedNew, Counted
<1> QED BY <1>5, <1>6

\* write_ecm_answer_fromcache, for a CW that is in the cache or was when its job was posted
LEMMA FromCacheCounts ==
  ASSUME CheckOK, Shapes, NEW q \in Requests, Counted(q), NEW src, FromCache(q, src),
         src \in cached[Ecm[q]], cached[Ecm[q]] \subseteq Found(q) \cup {NoReader}
  PROVE  CheckOK' /\ CountedNew(q)
         /\ \A p \in Requests \ {q} : checked'[p] = checked[p] /\ origin'[p] = origin[p] /\ sent'[p] = sent[p]
<1>1. CASE UNCHANGED <<checked, origin, sent>>
  BY <1>1 DEF CheckOK, Counted, CountedNew
<1>2. CASE SendDcw(q, CachedCode(src), src)
  <2>1. CASE Exchanged(src)
    <3>1. CachedCode(src) = E_CACHEEX /\ E_CACHEEX \notin {E_FOUND, E_CACHE1}
      BY <2>1 DEF CachedCode, E_CACHEEX, E_FOUND, E_CACHE1
    <3>2. HasExchanged(q)
      BY <2>1 DEF HasExchanged
    <3> QED BY <1>2, <3>1, <3>2, SendCounts
  <2>2. CASE ~Exchanged(src)
    <3>1. CachedCode(src) = E_CACHE1 /\ E_CACHEEX # E_CACHE1
      BY <2>2 DEF CachedCode, E_CACHEEX, E_CACHE1
    <3>2. src \in Found(q)
      BY <2>2 DEF Exchanged
    <3> QED BY <1>2, <3>1, <3>2, SendCounts
  <2> QED BY <2>1, <2>2
<1> QED BY <1>1, <1>2 DEF FromCache, NoSend

\* What get_cw and the handlers of q count
LEMMA HandlerCounts ==
  ASSUME SInv, DInv, NEW q \in Requests,
         ClientStep(q) \/ GetCw(q) \/ GetCwCached(q) \/ GetCwNoReader(q)
  PROVE  CheckOK' /\ CountedNew(q)
         /\ \A p \in Requests \ {q} : checked'[p] = checked[p] /\ origin'[p] = origin[p] /\ sent'[p] = sent[p]
<1>0. /\ E_CACHEEX \notin {E_NOTFOUND, E_TIMEOUT, E_FOUND}
      /\ E_NOTFOUND \notin {E_FOUND, E_CACHE1} /\ E_TIMEOUT \notin {E_FOUND, E_CACHE1}
      /\ Shapes /\ Dues(q) /\ Fields /\ CheckOK /\ Counted(q)
      /\ cached[Ecm[q]] \subseteq Found(q) \cup {NoReader}
  BY DEF SInv, IInv, JobsDue, RInv, DInv, Delivered, E_NOTFOUND, E_TIMEOUT, E_FOUND, E_CACHE1, E_CACHEEX
<1>1. ASSUME NEW act, Ready(q, act)
      PROVE  LET j == Head(jobs[q]) IN j.act = act /\ JobDue(q, j) /\ HitDue(q, j)
  <2>1. jobs[q] \in Seq(JobType) /\ jobs[q] # <<>>
    BY <1>0, <1>1 DEF Fields, ClOK, Ready
  <2>2. Head(jobs[q]) = jobs[q][1] /\ 1 \in DOMAIN jobs[q]
    BY <2>1, SeqParts
  <2> QED BY <1>0, <1>1, <2>2 DEF Ready, Dues, DInv, Delivered
<1>2. CASE UNCHANGED <<checked, origin, sent>>
  BY <1>0, <1>2 DEF CheckOK, Counted, CountedNew
<1>3. CASE SendDcw(q, E_NOTFOUND, NoReader) \/ SendDcw(q, E_TIMEOUT, NoReader)
  BY <1>0, <1>3, SendCounts
<1>4. CASE AnswerFromCache(q)
  <2>1. FromCache(q, Head(jobs[q]).rdr) /\ Ready(q, "cache")
    BY <1>4 DEF AnswerFromCache, Takes
  <2>2. Head(jobs[q]).rdr \in cached[Ecm[q]]
    BY <1>1, <2>1 DEF HitDue
  <2> QED BY <1>0, <2>1, <2>2, FromCacheCounts
<1>5. CASE ChkDcw(q)
  <2>1. PICK r : r = Head(jobs[q]).rdr
    OBVIOUS
  <2>2. r \in Readers
    BY <1>1, <1>5, <2>1 DEF ChkDcw, Takes, JobDue
  <2>3. (earc[q][r] = E_FOUND /\ SendDcw(q, E_FOUND, r)) \/ NoSend
    BY <1>5, <2>1 DEF ChkDcw
  <2>4. CASE NoSend
    BY <1>2, <2>4 DEF NoSend
  <2>5. CASE earc[q][r] = E_FOUND /\ SendDcw(q, E_FOUND, r)
    <3>1. r \in Found(q)
      BY <2>2, <2>5 DEF Found
    <3> QED BY <1>0, <2>5, <3>1, SendCounts
  <2> QED BY <2>3, <2>4, <2>5
<1>6. CASE GetCwCached(q)
  <2>1. PICK src \in cached[Ecm[q]] : FromCache(q, src)
    BY <1>6 DEF GetCwCached
  <2> QED BY <1>0, <2>1, FromCacheCounts
<1>7. \/ AnswerFromCache(q) \/ ChkDcw(q) \/ GetCwCached(q)
      \/ UNCHANGED <<checked, origin, sent>>
      \/ SendDcw(q, E_NOTFOUND, NoReader) \/ SendDcw(q, E_TIMEOUT, NoReader)
  <2>1. CASE GetCw(q) \/ GetCwCached(q) \/ GetCwNoReader(q)
    BY <2>1 DEF GetCw, GetCwNoReader
  <2>2. CASE GiveVerdict(q) \/ SendTimeout(q) \/ CacheexTimeout(q)
    BY <2>2 DEF GiveVerdict, SendTimeout, CacheexTimeout, NoSend
  <2>3. CASE Ask(q) \/ Scan(q) \/ AfterCacheexScan(q) \/ AfterScan(q) \/ CacheexMode1Delay(q)
             \/ CacheexTimeoutHit(q) \/ FallbackTimeout(q) \/ FallbackAgain(q) \/ EcmTimeout(q)
    BY <2>3 DEF Ask, Scan, AfterCacheexScan, AfterScan, CacheexMode1Delay, CacheexTimeoutHit,
       FallbackTimeout, FallbackAgain, EcmTimeout, erVars
  <2> QED BY <2>1, <2>2, <2>3 DEF ClientStep
<1> QED BY <1>2, <1>3, <1>4, <1>5, <1>6, <1>7

\* The jobs of a client are old ones or the one that a step posts.
LEMMA JobsTaken ==
  ASSUME Fields, NEW p \in Requests, NEW j \in JobType,
         \/ jobs' = jobs \/ jobs' = [jobs EXCEPT ![p] = <<>>]
         \/ jobs' = [jobs EXCEPT ![p] = Append(@, j)]
         \/ jobs[p] # <<>> /\ (\/ jobs' = [jobs EXCEPT ![p] = Tail(@)]
                               \/ jobs' = [jobs EXCEPT ![p] = Append(Tail(@), j)])
  PROVE  \A q \in Requests : \A i \in DOMAIN jobs'[q] :
           \/ q = p /\ jobs'[q][i] = j
           \/ \E k \in DOMAIN jobs[q] : jobs'[q][i] = jobs[q][k]
<1>1. jobs \in [Requests -> Seq(JobType)] /\ jobs[p] \in Seq(JobType)
  BY DEF Fields, ClOK
<1>2. \A q \in Requests \ {p} : jobs'[q] = jobs[q]
  BY <1>1
<1>3. jobs[p] # <<>> => /\ Tail(jobs[p]) \in Seq(JobType)
                       /\ \A i \in DOMAIN Tail(jobs[p]) :
                            \E k \in DOMAIN jobs[p] : Tail(jobs[p])[i] = jobs[p][k]
  BY <1>1, SeqParts
<1>4. ASSUME NEW s \in Seq(JobType)
      PROVE  \A i \in DOMAIN Append(s, j) :
               Append(s, j)[i] = j \/ (i \in DOMAIN s /\ Append(s, j)[i] = s[i])
  OBVIOUS
<1>5. ASSUME NEW i \in DOMAIN jobs'[p]
      PROVE  jobs'[p][i] = j \/ \E k \in DOMAIN jobs[p] : jobs'[p][i] = jobs[p][k]
  <2>1. CASE jobs' = jobs \/ jobs' = [jobs EXCEPT ![p] = <<>>]
    BY <1>1, <1>5, <2>1
  <2>2. CASE jobs' = [jobs EXCEPT ![p] = Append(@, j)]
    <3>1. jobs'[p] = Append(jobs[p], j)
      BY <1>1, <2>2
    <3> QED BY <1>1, <1>4, <1>5, <3>1
  <2>3. CASE jobs[p] # <<>> /\ jobs' = [jobs EXCEPT ![p] = Tail(@)]
    <3>1. jobs'[p] = Tail(jobs[p])
      BY <1>1, <2>3
    <3> QED BY <1>3, <1>5, <2>3, <3>1
  <2>4. CASE jobs[p] # <<>> /\ jobs' = [jobs EXCEPT ![p] = Append(Tail(@), j)]
    <3>1. jobs'[p] = Append(Tail(jobs[p]), j)
      BY <1>1, <2>4
    <3> QED BY <1>3, <1>4, <1>5, <2>4, <3>1
  <2> QED BY <2>1, <2>2, <2>3, <2>4
<1> QED BY <1>2, <1>5

\* Of the jobs a step posts, those of chkcache_process and cacheex_timeout name a CW in the cache.
LEMMA JobsPosted ==
  ASSUME Fields, [Next]_vars, NEW q \in Requests, NEW i \in DOMAIN jobs'[q]
  PROVE  \/ jobs'[q][i].act = "cache" => jobs'[q][i].rdr \in cached[Ecm[q]]
         \/ \E k \in DOMAIN jobs[q] : jobs'[q][i] = jobs[q][k]
<1> DEFINE Is(p, j) == j.act = "cache" => j.rdr \in cached[Ecm[p]]
           Posted(p, j) == \/ jobs' = jobs \/ jobs' = [jobs EXCEPT ![p] = <<>>]
                           \/ jobs' = [jobs EXCEPT ![p] = Append(@, j)]
                           \/ jobs[p] # <<>> /\ (\/ jobs' = [jobs EXCEPT ![p] = Tail(@)]
                                                 \/ jobs' = [jobs EXCEPT ![p] = Append(Tail(@), j)])
<1>0. /\ \A r \in Readers, p \in Requests : AnswerJob(r) \in JobType /\ Is(p, AnswerJob(r))
      /\ \A act \in {"cxtimeout", "cxdelay", "fallback", "ctimeout"}, p \in Requests :
           Job(act) \in JobType /\ Is(p, Job(act))
  BY JobIn DEF AnswerJob, Job
<1>1. ASSUME NEW p \in Requests, NEW src \in Hits(p)
      PROVE  CacheJob(src) \in JobType /\ Is(p, CacheJob(src))
  BY HitsIn, JobIn DEF Fields, CacheJob
<1>2. ASSUME NEW p \in Requests, NEW j \in JobType, Is(p, j), Posted(p, j)
      PROVE  Is(q, jobs'[q][i]) \/ \E k \in DOMAIN jobs[q] : jobs'[q][i] = jobs[q][k]
  BY <1>2, JobsTaken
<1>3. CASE jobs' = jobs
  BY <1>3
<1>4. ASSUME NEW p \in Requests,
             \/ jobs' = [jobs EXCEPT ![p] = <<>>]
             \/ jobs[p] # <<>> /\ jobs' = [jobs EXCEPT ![p] = Tail(@)]
      PROVE  Is(q, jobs'[q][i]) \/ \E k \in DOMAIN jobs[q] : jobs'[q][i] = jobs[q][k]
  <2>1. Job("fallback") \in JobType /\ Is(p, Job("fallback"))
    BY <1>0
  <2> QED BY <1>2, <1>4, <2>1
<1>5. ASSUME NEW p \in Requests, ClientStep(p)
      PROVE  \/ jobs' = jobs
             \/ jobs[p] # <<>> /\ jobs' = [jobs EXCEPT ![p] = Tail(@)]
             \/ /\ jobs[p] # <<>>
                /\ \E src \in Hits(p) : jobs' = [jobs EXCEPT ![p] = Append(Tail(@), CacheJob(src))]
  BY <1>5 DEF ClientStep, Ask, Scan, AfterCacheexScan, AfterScan, GiveVerdict, CacheexMode1Delay,
     CacheexTimeout, CacheexTimeoutHit, FallbackTimeout, FallbackAgain, EcmTimeout, SendTimeout,
     AnswerFromCache, ChkDcw, Takes, Ready
<1>6. ASSUME NEW p \in Requests, TimerStep(p)
      PROVE  \E j \in JobType : Is(p, j) /\ jobs' = [jobs EXCEPT ![p] = Append(@, j)]
  <2>1. CASE PostCacheHit(p)
    BY <1>1, <2>1 DEF PostCacheHit
  <2>2. CASE ~PostCacheHit(p)
    <3>1. \E act \in {"cxtimeout", "cxdelay", "fallback", "ctimeout"} :
            jobs' = [jobs EXCEPT ![p] = Append(@, Job(act))]
      BY <1>6, <2>2 DEF TimerStep, PostCacheexTimeout, PostMode1Delay, PostFallbackTimeout,
         PostClientTimeout, Posts
    <3> QED BY <1>0, <3>1
  <2> QED BY <2>1, <2>2
<1>7. ASSUME NEW t \in Requests \cup Readers, WriteStep(t)
      PROVE  \/ jobs' = jobs
             \/ \E p \in Requests, r \in Readers : jobs' = [jobs EXCEPT ![p] = Append(@, AnswerJob(r))]
  <2>1. CASE Record(t) \/ Store(t)
    BY <2>1 DEF Record, Store, clVars
  <2>2. CASE Publish(t)
    <3>1. PICK p, r : p = Top(t).q /\ r = Top(t).r
      OBVIOUS
    <3>2. /\ p \in Requests /\ r \in Readers
          /\ jobs' = [jobs EXCEPT ![p] = IF client[p] = "waiting" THEN Append(@, AnswerJob(r)) ELSE @]
      BY <2>2, <3>1, PublishEffect DEF Publish
    <3> QED BY <3>2 DEF Fields, ClOK
  <2> QED BY <1>7, <2>1, <2>2 DEF WriteStep
<1>8. ASSUME NEW p \in Requests, Disconnect(p) PROVE jobs' = [jobs EXCEPT ![p] = <<>>]
  BY <1>8 DEF Disconnect
<1>9. ASSUME NEW p \in Requests, GetCw(p) \/ GetCwCached(p) \/ GetCwNoReader(p) \/ Tick(p) PROVE jobs' = jobs
  BY <1>9 DEF GetCw, GetCwCached, GetCwNoReader, Tick, clVars
<1>10. ASSUME NEW r \in Readers, ReaderStep(r) \/ ServerAnswers(r) PROVE jobs' = jobs
  BY <1>10 DEF ReaderStep, RefuseEcm, FindSame, JoinSame, LimitEcm, ForwardEcm, ServerAnswers, clVars
<1>11. (\E e \in Ecms : PeerPushes(e)) \/ Quiescent \/ UNCHANGED vars => jobs' = jobs
  BY DEF PeerPushes, Quiescent, vars, clVars
<1>12. \/ jobs' = jobs
       \/ \E p \in Requests : \E j \in JobType : Is(p, j) /\ Posted(p, j)
  <2>1. ASSUME NEW p \in Requests, ClientStep(p)
        PROVE  jobs' = jobs \/ \E j \in JobType : Is(p, j) /\ Posted(p, j)
    <3>1. Job("fallback") \in JobType /\ Is(p, Job("fallback"))
      BY <1>0
    <3> QED BY <1>1, <1>5, <2>1, <3>1
  <2>2. ASSUME NEW p \in Requests, TimerStep(p) PROVE \E j \in JobType : Is(p, j) /\ Posted(p, j)
    BY <1>6, <2>2
  <2>3. ASSUME NEW t \in Requests \cup Readers, WriteStep(t)
        PROVE  jobs' = jobs \/ \E p \in Requests : \E j \in JobType : Is(p, j) /\ Posted(p, j)
    BY <1>0, <1>7, <2>3
  <2>4. ASSUME NEW p \in Requests, Disconnect(p) PROVE \E j \in JobType : Is(p, j) /\ Posted(p, j)
    <3>1. Job("fallback") \in JobType /\ Is(p, Job("fallback"))
      BY <1>0
    <3> QED BY <1>8, <2>4, <3>1
  <2> HIDE DEF Is, Posted
  <2> QED BY <1>9, <1>10, <1>11, <2>1, <2>2, <2>3, <2>4 DEF Next
<1> QED BY <1>2, <1>3, <1>12

\* A CW that a step stores has been delivered; none is taken out.
LEMMA CacheFed ==
  ASSUME Fields, Delivered, [Next]_vars, NEW q \in Requests
  PROVE  /\ cached'[Ecm[q]] \subseteq Found(q) \cup {NoReader}
         /\ cached[Ecm[q]] \subseteq cached'[Ecm[q]]
<1>0. Ecm[q] \in Ecms /\ cached[Ecm[q]] \subseteq Found(q) \cup {NoReader}
  BY DEF Ecms, Delivered
<1>1. ASSUME NEW t \in Requests \cup Readers, Store(t)
      PROVE  /\ cached'[Ecm[q]] \subseteq Found(q) \cup {NoReader}
             /\ cached[Ecm[q]] \subseteq cached'[Ecm[q]]
  <2>1. PICK f : f = Top(t)
    OBVIOUS
  <2>2. f.q \in Requests /\ f.r \in Readers /\ f = frames[t][1] /\ f.op = "store" /\ frames[t] # <<>>
        /\ cached' = [cached EXCEPT ![Ecm[f.q]] = @ \cup {f.r}]
    BY <1>1, <2>1, TopIn DEF Store, Fields, Busy
  <2>3. 1 \in DOMAIN frames[t]
    BY <2>2, SeqParts DEF Fields, FrOK
  <2>4. earc[f.q][f.r] = E_FOUND
    BY <2>2, <2>3 DEF Delivered, StoreDue
  <2>5. Ecm[q] = Ecm[f.q] => f.r \in Found(q)
    BY <2>2, <2>4 DEF Found
  <2>6. cached'[Ecm[q]] = IF Ecm[q] = Ecm[f.q] THEN cached[Ecm[q]] \cup {f.r} ELSE cached[Ecm[q]]
    BY <1>0, <2>2 DEF Fields, ClOK
  <2> QED BY <1>0, <2>5, <2>6
<1>2. ASSUME NEW e \in Ecms, PeerPushes(e)
      PROVE  /\ cached'[Ecm[q]] \subseteq Found(q) \cup {NoReader}
             /\ cached[Ecm[q]] \subseteq cached'[Ecm[q]]
  BY <1>0, <1>2 DEF PeerPushes, Fields, ClOK
<1>3. CASE cached' = cached
  BY <1>0, <1>3
<1>4. ASSUME NEW t \in Requests \cup Readers, Record(t) \/ Publish(t) PROVE cached' = cached
  BY <1>4 DEF Record, Publish
<1>5. ASSUME NEW p \in Requests, GetCw(p) \/ GetCwCached(p) \/ GetCwNoReader(p) \/ TimerStep(p)
                                 \/ Tick(p) \/ Disconnect(p)
      PROVE  cached' = cached
  BY <1>5 DEF GetCw, GetCwCached, GetCwNoReader, TimerStep, PostCacheexTimeout, PostMode1Delay,
     PostFallbackTimeout, PostClientTimeout, PostCacheHit, Posts, Tick, Disconnect
<1>6. ASSUME NEW p \in Requests, ClientStep(p) PROVE cached' = cached
  BY <1>6 DEF ClientStep, Ask, Scan, AfterCacheexScan, AfterScan, GiveVerdict, CacheexMode1Delay,
     CacheexTimeout, CacheexTimeoutHit, FallbackTimeout, FallbackAgain, EcmTimeout, SendTimeout,
     AnswerFromCache, ChkDcw
<1>7. ASSUME NEW r \in Readers, ReaderStep(r) \/ ServerAnswers(r) PROVE cached' = cached
  BY <1>7 DEF ReaderStep, RefuseEcm, FindSame, JoinSame, LimitEcm, ForwardEcm, ServerAnswers
<1>8. Quiescent \/ UNCHANGED vars => cached' = cached
  BY DEF Quiescent, vars
<1> QED BY <1>1, <1>2, <1>3, <1>4, <1>5, <1>6, <1>7, <1>8 DEF Next, WriteStep

\* A store that a step leaves to do is one of a CW that has been delivered.
LEMMA StoresDue ==
  ASSUME Fields, Delivered, [Next]_vars, NEW t \in Requests \cup Readers, NEW i \in DOMAIN frames'[t]
  PROVE  StoreDue(frames'[t][i])
<1>0. \A u \in Requests \cup Readers : \A k \in DOMAIN frames[u] : StoreDue(frames[u][k])
  BY DEF Delivered
<1>1. CASE frames' = frames
  BY <1>0, <1>1
<1>2. ASSUME NEW u \in Requests \cup Readers, Busy(u), NEW new \in Seq(FrameType),
             frames' = [frames EXCEPT ![u] = new \o Tail(@)],
             \A k \in DOMAIN new : StoreDue(new[k])
      PROVE  StoreDue(frames'[t][i])
  <2>1. /\ \A v \in Requests \cup Readers : v # u => frames'[v] = frames[v]
        /\ \A k \in DOMAIN frames'[u] :
             \/ k \in DOMAIN new /\ frames'[u][k] = new[k]
             \/ \E j \in DOMAIN frames[u] : frames'[u][k] = frames[u][j]
    BY <1>2, CallsLeft DEF Fields
  <2>2. \A k \in DOMAIN frames'[u] : StoreDue(frames'[u][k])
    BY <1>0, <1>2, <2>1
  <2> QED BY <1>0, <2>1, <2>2
<1>3. ASSUME NEW u \in Requests \cup Readers, \A v \in Requests \cup Readers : v # u => frames'[v] = frames[v],
             \A k \in DOMAIN frames'[u] : frames'[u][k].op = "record"
      PROVE  StoreDue(frames'[t][i])
  BY <1>0, <1>3 DEF StoreDue
<1>4. ASSUME NEW u \in Requests \cup Readers, Record(u) PROVE StoreDue(frames'[t][i])
  <2>1. PICK q, r, ans : q = Top(u).q /\ r = Top(u).r /\ ans = Top(u).ans
    OBVIOUS
  <2>2. /\ Busy(u) /\ q \in Requests /\ r \in Readers /\ ans \in AnswerKinds
        /\ \/ frames' = [frames EXCEPT ![u] = <<>> \o Tail(@)]
           \/ frames' = [frames EXCEPT ![u] = <<Frame("publish", q, r, ans)>> \o Tail(@)]
    BY <1>4, <2>1, RecordEffect
  <2>3. Frame("publish", q, r, ans) \in FrameType /\ StoreDue(Frame("publish", q, r, ans))
    BY <2>2, FrameIn DEF StoreDue, Frame
  <2>4. /\ <<Frame("publish", q, r, ans)>> \in Seq(FrameType) /\ <<>> \in Seq(FrameType)
        /\ \A k \in DOMAIN <<Frame("publish", q, r, ans)>> : StoreDue(<<Frame("publish", q, r, ans)>>[k])
        /\ \A k \in DOMAIN <<>> : StoreDue(<<>>[k])
    BY <2>3
  <2>5. \E s \in {<<>>, <<Frame("publish", q, r, ans)>>} : frames' = [frames EXCEPT ![u] = s \o Tail(@)]
    BY <2>2
  <2>6. PICK s \in {<<>>, <<Frame("publish", q, r, ans)>>} : frames' = [frames EXCEPT ![u] = s \o Tail(@)]
    BY <2>5
  <2>7. s \in Seq(FrameType) /\ \A k \in DOMAIN s : StoreDue(s[k])
    BY <2>4
  <2> QED BY <1>2, <2>2, <2>6, <2>7
<1>5. ASSUME NEW u \in Requests \cup Readers, Publish(u) PROVE StoreDue(frames'[t][i])
  <2> DEFINE q == Top(u).q
             r == Top(u).r
  <2>1. Busy(u)
    BY <1>5, PublishEffect
  <2>2. PICK new \in Seq(FrameType) :
              /\ frames' = [frames EXCEPT ![u] = new \o Tail(@)]
              /\ \A k \in DOMAIN new :
                   \/ \E m \in DOMAIN pending[q][r] :
                        new[k] = Frame("record", pending[q][r][m], r, Shared(q, r))
                   \/ new[k] = Frame("store", q, r, "found") /\ earc[q][r] = E_FOUND
              /\ \A m \in DOMAIN pending[q][r] : \E k \in DOMAIN new :
                   new[k] = Frame("record", pending[q][r][m], r, Shared(q, r))
    BY <1>5, PublishEffect
  <2> HIDE DEF q, r
  <2>3. \A p, ans : StoreDue(Frame("record", p, r, ans))
    BY DEF StoreDue, Frame
  <2>4. earc[q][r] = E_FOUND => StoreDue(Frame("store", q, r, "found"))
    BY DEF StoreDue, Frame
  <2>5. \A k \in DOMAIN new : StoreDue(new[k])
    BY <2>2, <2>3, <2>4
  <2> QED BY <1>2, <2>1, <2>2, <2>5
<1>6. ASSUME NEW u \in Requests \cup Readers, Store(u) PROVE StoreDue(frames'[t][i])
  <2>1. Busy(u) /\ frames' = [frames EXCEPT ![u] = Tail(@)] /\ Tail(frames[u]) \in Seq(FrameType)
    BY <1>6, TopIn DEF Store, Pop, Fields
  <2>2. frames' = [frames EXCEPT ![u] = <<>> \o Tail(@)]
    BY <2>1
  <2>3. <<>> \in Seq(FrameType) /\ \A k \in DOMAIN <<>> : StoreDue(<<>>[k])
    OBVIOUS
  <2> QED BY <1>2, <2>1, <2>2, <2>3
<1>7. ASSUME NEW q \in Requests, EcmTimeout(q) PROVE StoreDue(frames'[t][i])
  BY <1>3, <1>7, EcmTimeoutFields
<1>8. ASSUME NEW r \in Readers, ServerAnswers(r) PROVE StoreDue(frames'[t][i])
  BY <1>3, <1>8, ServerFields
<1>9. ASSUME NEW r \in Readers, NEW q, NEW ans, WriteAnswer(r, q, ans) PROVE StoreDue(frames'[t][i])
  <2>1. /\ frames'[r] = <<Frame("record", q, r, ans)>>
        /\ \A v \in Requests \cup Readers : v # r => frames'[v] = frames[v]
    BY <1>9 DEF WriteAnswer, Fields, FrOK
  <2>2. \A k \in DOMAIN frames'[r] : frames'[r][k].op = "record"
    BY <2>1 DEF Frame
  <2> QED BY <1>3, <2>1, <2>2
<1>10. ASSUME NEW r \in Readers, ReaderStep(r) PROVE StoreDue(frames'[t][i])
  <2>1. frames' = frames \/ \E q, ans : WriteAnswer(r, q, ans)
    BY <1>10 DEF ReaderStep, RefuseEcm, FindSame, JoinSame, LimitEcm, ForwardEcm
  <2> QED BY <1>1, <1>9, <2>1
<1>11. ASSUME NEW p \in Requests, GetCw(p) \/ GetCwCached(p) \/ GetCwNoReader(p) \/ TimerStep(p)
                                  \/ Tick(p) \/ Disconnect(p)
       PROVE  frames' = frames
  BY <1>11 DEF GetCw, GetCwCached, GetCwNoReader, TimerStep, PostCacheexTimeout, PostMode1Delay,
     PostFallbackTimeout, PostClientTimeout, PostCacheHit, Posts, Tick, Disconnect
<1>12. ASSUME NEW p \in Requests, ClientStep(p), ~EcmTimeout(p) PROVE frames' = frames
  BY <1>12 DEF ClientStep, Ask, Scan, AfterCacheexScan, AfterScan, GiveVerdict, CacheexMode1Delay,
     CacheexTimeout, CacheexTimeoutHit, FallbackTimeout, FallbackAgain, SendTimeout,
     AnswerFromCache, ChkDcw
<1>13. (\E e \in Ecms : PeerPushes(e)) \/ Quiescent \/ UNCHANGED vars => frames' = frames
  BY DEF PeerPushes, Quiescent, vars
<1> QED
  BY <1>1, <1>4, <1>5, <1>6, <1>7, <1>8, <1>10, <1>11, <1>12, <1>13 DEF Next, WriteStep

\* send_dcw is called by get_cw and the handlers of the client's thread only.
LEMMA OthersCount ==
  ASSUME [Next]_vars,
         \A q \in Requests : ~(ClientStep(q) \/ GetCw(q) \/ GetCwCached(q) \/ GetCwNoReader(q))
  PROVE  UNCHANGED <<checked, origin, sent>>
<1>1. ASSUME NEW p \in Requests, TimerStep(p) \/ Tick(p) \/ Disconnect(p)
      PROVE  UNCHANGED <<checked, origin, sent>>
  BY <1>1 DEF TimerStep, PostCacheexTimeout, PostMode1Delay, PostFallbackTimeout,
     PostClientTimeout, PostCacheHit, Posts, Disconnect, Tick, clVars, erVars
<1>2. ASSUME NEW t \in Requests \cup Readers, WriteStep(t) PROVE UNCHANGED <<checked, origin, sent>>
  BY <1>2 DEF WriteStep, Record, Publish, Store, clVars, erVars
<1>3. ASSUME NEW r \in Readers, ReaderStep(r) \/ ServerAnswers(r) PROVE UNCHANGED <<checked, origin, sent>>
  BY <1>3 DEF ReaderStep, RefuseEcm, FindSame, JoinSame, LimitEcm, ForwardEcm, ServerAnswers, clVars, erVars
<1>4. (\E e \in Ecms : PeerPushes(e)) \/ Quiescent \/ UNCHANGED vars => UNCHANGED <<checked, origin, sent>>
  BY DEF PeerPushes, Quiescent, vars, clVars, erVars
<1> QED BY <1>1, <1>2, <1>3, <1>4 DEF Next

LEMMA NextDInv ==
  ASSUME SInv, SInv', DInv, [Next]_vars
  PROVE  DInv'
<1>0. Fields /\ Places1 /\ Fields' /\ Delivered /\ CheckOK
  BY DEF SInv, RInv, DInv
<1>1. CheckOK' /\ \A q \in Requests : CountedNew(q)
  <2>1. ASSUME NEW q \in Requests, ClientStep(q) \/ GetCw(q) \/ GetCwCached(q) \/ GetCwNoReader(q)
        PROVE  CheckOK' /\ \A p \in Requests : CountedNew(p)
    BY <2>1, HandlerCounts DEF DInv, Counted, CountedNew
  <2>2. CASE UNCHANGED <<checked, origin, sent>>
    BY <1>0, <2>2 DEF DInv, Counted, CountedNew, CheckOK
  <2> QED BY <2>1, <2>2, OthersCount
<1>2. ASSUME NEW q \in Requests PROVE Counted(q)'
  <2>1. HasExchanged(q) => HasExchanged(q)'
    BY <1>0, CacheFed DEF HasExchanged, Exchanged
  <2> QED BY <1>0, <1>1, <2>1, FoundKept DEF Counted, CountedNew
<1>3. ASSUME NEW q \in Requests PROVE cached'[Ecm[q]] \subseteq Found(q)' \cup {NoReader}
  BY <1>0, CacheFed, FoundKept
<1>4. ASSUME NEW t \in Requests \cup Readers, NEW i \in DOMAIN frames'[t] PROVE StoreDue(frames[t][i])'
  <2>1. frames'[t][i].q \in Requests /\ frames'[t][i].r \in Readers
    <3>1. frames'[t][i] \in FrameType
      BY <1>0 DEF Fields, FrOK
    <3> QED BY <3>1 DEF FrameType
  <2> QED BY <1>0, <2>1, StoresDue, FoundKept DEF StoreDue
<1>5. ASSUME NEW q \in Requests, NEW i \in DOMAIN jobs'[q] PROVE HitDue(q, jobs[q][i])'
  <2>1. jobs'[q][i].act = "cache" => jobs'[q][i].rdr \in cached[Ecm[q]]
    BY <1>0, JobsPosted DEF Delivered, HitDue
  <2> QED BY <1>0, <2>1, CacheFed DEF HitDue
<1> QED BY <1>1, <1>2, <1>3, <1>4, <1>5 DEF DInv, Delivered

\* Two readers that have delivered a CW are at least two.
LEMMA TwoAtLeast ==
  ASSUME NEW q, NEW r \in Found(q), NEW s \in Found(q), r # s
  PROVE  Cardinality(Found(q)) >= 2
<1>1. IsFiniteSet(Readers)
  <2>1. MatchingRdr \in [DOMAIN MatchingRdr -> Readers]
        /\ \A x \in Readers : \E i \in DOMAIN MatchingRdr : MatchingRdr[i] = x
    BY ReadersAssumption DEF Readers
  <2>2. IsFiniteSet(DOMAIN MatchingRdr)
    BY ReadersAssumption, FS_Interval
  <2>3. MatchingRdr \in Surjection(DOMAIN MatchingRdr, Readers)
    BY <2>1 DEF Surjection
  <2> QED BY <2>2, <2>3, FS_Surjection
<1>2. IsFiniteSet(Found(q)) /\ Cardinality(Found(q)) \in Nat
  BY <1>1, FS_Subset, FS_CardinalityType DEF Found
<1>3. PICK two \in SUBSET Found(q) : two = {r} \cup {s}
  OBVIOUS
<1>4. Cardinality(two) = 2
  <2>1. IsFiniteSet({r}) /\ Cardinality({r}) = 1 /\ s \notin {r}
    BY FS_Singleton
  <2>2. Cardinality({r} \cup {s}) = Cardinality({r}) + 1
    BY <2>1, FS_AddElement
  <2> QED BY <1>3, <2>1, <2>2
<1>5. Cardinality(two) <= Cardinality(Found(q))
  BY <1>2, FS_Subset, Zenon
<1> QED BY <1>2, <1>4, <1>5

\* send_dcw under double_check: a CW reaches the client only when two readers, of all that
\* were asked for its ECM, have delivered one, or when cache exchange has supplied one.
THEOREM DoubleCheckedAlways == Spec => []DoubleChecked
<1> DEFINE I == SInv /\ DInv
<1>1. Init => I
  BY InitIInv, InitRInv, InitDues, InitDInv DEF SInv
<1>2. I /\ [Next]_vars => I'
  <2>1. SInv /\ [Next]_vars => SInv'
    BY NextIInv, NextRInv, NextDues DEF SInv, RInv
  <2> QED BY <2>1, NextDInv
<1>3. I => DoubleChecked
  <2> SUFFICES ASSUME SInv, DInv, DoubleCheck, NEW q \in Requests, sent[q] # <<>>,
                      sent[q][1] < E_NOTFOUND, sent[q][1] # E_CACHEEX
               PROVE  Cardinality(Found(q)) >= 2
    BY DEF DoubleChecked, Found, DInv, Counted, HasExchanged
  <2>0. IsCw(sent[q][1])
    <3>1. sent[q][1] \in Codes
      BY DEF SInv, IInv, Shapes
    <3> QED BY <3>1 DEF IsCw, Codes, E_FOUND, E_CACHE1, E_CACHE2, E_CACHEEX, E_NOTFOUND,
              E_TIMEOUT, E_INVALID, E_UNHANDLED
  <2>1. PICK r, s \in Found(q) : r # s
    BY <2>0 DEF DInv, Counted, TwoFound
  <2> QED BY <2>1, TwoAtLeast
<1> HIDE DEF I
<1> QED BY <1>1, <1>2, <1>3, PTL DEF Spec

\* Every field of ECM_REQUEST, s_ecm_answer and the queues has a value the code can give it:
\* no reader outside the request's list, no unknown code, no stage beyond 6.
THEOREM TypeOKAlways == Spec => []TypeOK
<1> DEFINE I == SInv /\ TInv /\ DInv
<1>1. Init => I
  BY InitIInv, InitRInv, InitDues, InitTInv, InitDInv DEF SInv
<1>2. I /\ [Next]_vars => I'
  <2>1. SInv /\ [Next]_vars => SInv'
    BY NextIInv, NextRInv, NextDues DEF SInv, RInv
  <2>2. SInv /\ SInv' /\ TInv /\ [Next]_vars => TInv'
    BY NextTInv DEF SInv, RInv
  <2> QED BY <2>1, <2>2, NextDInv
<1>3. I => TypeOK
  BY DEF SInv, IInv, Shapes, RInv, Fields, EaOK, RdrOK, FrOK, ClOK, TInv, OwnOK, DInv, CheckOK, TypeOK
<1> HIDE DEF I
<1> QED BY <1>1, <1>2, <1>3, PTL DEF Spec
=============================================================================
