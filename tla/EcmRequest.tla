----------------------------- MODULE EcmRequest -----------------------------
(***************************************************************************)
(* One ECM request from get_cw to its answer (ncam-ecm.c): the staged      *)
(* asking of the readers, the answers they write concurrently, the jobs    *)
(* the request's client works through one by one, and the timers           *)
(* cw_process posts.                                                       *)
(*                                                                         *)
(* Threads.  Every request q belongs to a client of its own, whose work    *)
(* thread runs the handlers of q's jobs; every reader r has a work thread  *)
(* that runs reader_get_ecm and writes answers.  cw_process and            *)
(* chkcache_process only post jobs.  A handler that other threads can      *)
(* observe half way is several actions, its place kept in work[q] or in    *)
(* frames[t], the stack of the write_ecm_answer calls of thread t.         *)
(***************************************************************************)
EXTENDS Naturals, Sequences, FiniteSets

CONSTANTS
  MatchingRdr,        \* the readers of er->matching_rdr, in list order
  Kind,               \* Kind[r]: the subset of {"FALLBACK", "LOCAL", "CACHEEX"} r is
  Selections,         \* the sets of readers lb_set_best_reader may leave active
  Requests,           \* the requests, one client each
  Ecm,                \* Ecm[q]: the ECM (caid and md5) q asks for
  Answers,            \* what a reader may find out about an ECM
  Refusals,           \* the refusals a reader may meet: "filter", "limit"
  PreferLocal,        \* er->preferlocalcards
  WaitTime,           \* a cacheex_wait_time is configured
  HitCache,           \* wait_time_hitcache # 0
  Mode1Delay,         \* a cacheex_mode1_delay is configured
  WaitUntilCtimeout,  \* cfg.wait_until_ctimeout
  DoubleCheck,        \* cfg.double_check
  Unreachable,        \* the readers that may be unconnected when they are asked
  CachePush,          \* cache-exchange peers may push a CW into the cache
  Disconnects,        \* clients may be killed
  MaxJobs,            \* bound: identical timer or cache jobs queued for one client
  MaxAge,             \* bound: the last phase of its age a request reaches
  NoReader            \* the NULL reader

Readers == {MatchingRdr[i] : i \in DOMAIN MatchingRdr}
Ecms == {Ecm[q] : q \in Requests}

E_FOUND == 0     E_CACHE1 == 1    E_CACHE2 == 2   E_CACHEEX == 3
E_NOTFOUND == 4  E_TIMEOUT == 5   E_INVALID == 8  E_99 == 99   E_UNHANDLED == 100

\* The phases of a request's age: nothing due, cacheex wait time over,
\* fallback timeout over, client timeout over, answers are too late.
Fresh == 0   CxDue == 1   FbDue == 2   CtDue == 3   Late == 4

\* What write_ecm_answer is called with: a CW; a CW that fails its checks; nothing; an
\* ECM with a wrong checksum; E_INVALID; a CW that is not locally generated where only
\* such are wanted; a refusal of the rate limiter; no answer in time.
AnswerKinds == {"found", "badcw", "notfound", "badecm", "invalid", "foreign", "limited", "timeout"}
KindFlags   == {"FALLBACK", "LOCAL", "CACHEEX"}
Flags       == KindFlags \cup {"ACTIVE", "SENT", "ANSWERED"}

ASSUME ReadersAssumption ==
  /\ MatchingRdr \in Seq(Readers)
  /\ \A i, j \in DOMAIN MatchingRdr : MatchingRdr[i] = MatchingRdr[j] => i = j
  /\ NoReader \notin Readers
  /\ Kind \in [Readers -> SUBSET KindFlags]
  /\ \A r \in Readers : ~({"LOCAL", "CACHEEX"} \subseteq Kind[r])
  /\ Selections \subseteq SUBSET Readers
  /\ Unreachable \subseteq Readers
  /\ Readers \cap Requests = {}
ASSUME ConfigAssumption ==
  /\ Answers \subseteq AnswerKinds \ {"timeout", "limited"}
  /\ Refusals \subseteq {"filter", "limit"}
  /\ PreferLocal \in 0 .. 2
  /\ {WaitTime, HitCache, Mode1Delay, WaitUntilCtimeout, DoubleCheck,
      CachePush, Disconnects} \subseteq BOOLEAN
  /\ MaxJobs \in Nat \ {0}
  /\ MaxAge \in Fresh .. Late

VARIABLES
  \* ECM_REQUEST
  rc, stage, selection, waitExpired, timeoutCheck, checked, origin,
  age,         \* how far the clock is past er->tps
  ecmcwcache,  \* the requests in the ecmcwcache list, newest first
  \* s_ecm_answer: one per request and matching reader
  status, earc, rcEx, isPending, pending,
  \* the clients
  client,      \* client[q]: "new", "waiting" (get_cw called) or "killed"
  jobs,        \* jobs[q]: the joblist of q's client
  work,        \* work[q]: where its work thread is in a handler
  reached,     \* history: the readers that were connected when q asked them
  sent,        \* sent[q]: the return codes sent to the client, oldest first
  \* the readers
  rdrJobs,     \* rdrJobs[r]: ACTION_READER_ECM_REQUEST jobs of r
  dup,         \* dup[r] = <<q, p>>: reader_get_ecm found q's ECM asked for p already
  atServer,    \* atServer[r]: requests forwarded to the card or server of r
  frames,      \* frames[t]: the write_ecm_answer calls thread t is in
  \* the CW cache
  cached       \* cached[e]: the readers whose CW for e is in it (NoReader: a peer's)

erVars  == <<rc, stage, selection, waitExpired, timeoutCheck, checked, origin,
             age, ecmcwcache>>
eaVars  == <<status, earc, rcEx, isPending, pending>>
clVars  == <<client, jobs, work, reached, sent>>
rdrVars == <<rdrJobs, dup, atServer>>
vars    == <<erVars, eaVars, clVars, rdrVars, frames, cached>>

-----------------------------------------------------------------------------
\* Helpers

Job(act)      == [act |-> act, rdr |-> NoReader]
AnswerJob(r)  == [act |-> "answer", rdr |-> r]
CacheJob(src) == [act |-> "cache", rdr |-> src]
JobType       == [act : {"cxtimeout", "cxdelay", "fallback", "ctimeout", "answer", "cache"},
                  rdr : Readers \cup {NoReader}]

Unseen   == [flags |-> {}, rc |-> E_UNHANDLED]
NoView   == [r \in Readers |-> Unseen]
IdleWork == [at |-> "idle", stop |-> 0, then |-> "done", i |-> 1, view |-> NoView]
Asking(stop, then)  == [IdleWork EXCEPT !.at = "ask", !.stop = stop, !.then = then]
Scanning(what)      == [IdleWork EXCEPT !.at = "scan", !.then = what]
Verdict(then)       == [IdleWork EXCEPT !.at = "verdict", !.then = then]
AskAgain            == [IdleWork EXCEPT !.at = "again"]
Expiring            == [IdleWork EXCEPT !.at = "expire"]

Frame(op, q, r, ans) == [op |-> op, q |-> q, r |-> r, ans |-> ans]
Busy(t) == frames[t] # <<>>

\* set_readers_counter has counted the readers of the selection; without a local
\* reader among them preferlocalcards is dropped for the request.
Normal(r)   == "CACHEEX" \notin Kind[r]
PreferOf(q) == IF \E r \in selection[q] : "LOCAL" \in Kind[r] THEN PreferLocal ELSE 0
Waits(q)    == WaitTime /\ PreferOf(q) < 2
HasCacheex(q) == \E r \in selection[q] : ~Normal(r)

\* ea->status of reader r when get_cw has built the list
FirstStatus(r, sel) ==
  (Kind[r] \ {"FALLBACK"})
    \cup (IF r \in sel THEN {"ACTIVE"} ELSE {})
    \cup (IF "FALLBACK" \in Kind[r] /\ ("LOCAL" \notin Kind[r] \/ PreferLocal = 0)
          THEN {"FALLBACK"} ELSE {})

\* Mutant of Eligible: the fallback readers with the normal ones.
EligibleFallback(q, r, s) ==
  {"ACTIVE", "SENT"} \cap status[q][r] = {"ACTIVE"} /\ (s = 1 => "CACHEEX" \in status[q][r])

\* The readers a request asks when it enters stage s (request_cw_from_readers).
Eligible(q, r, s) ==
  LET f == status[q][r] IN
  /\ "SENT" \notin f
  /\ "ACTIVE" \in f
  /\ CASE s = 1 -> "CACHEEX" \in f
       [] s = 2 -> "LOCAL" \in f /\ "FALLBACK" \notin f
       [] s = 3 -> "FALLBACK" \notin f
       [] OTHER -> "FALLBACK" \in f

\* The stage after s: 1 is skipped when only local cards count, 2 when they do not.
NextStage(q, s) ==
  LET a == IF s = 0 /\ PreferOf(q) = 2 THEN 2 ELSE s + 1
  IN  IF a = 2 /\ PreferOf(q) = 0 THEN 3 ELSE a

\* check_cache: the reader recorded with a CW the request may use (NoReader for a peer's).
Hits(q) ==
  {src \in cached[Ecm[q]] :
     (PreferOf(q) = 2 /\ stage[q] < 3) =>
        \E r \in cached[Ecm[q]] \ {NoReader} : "LOCAL" \in Kind[r]}

\* Mutant of SendDcw: the second CW may come from the first one's reader.
SendDcwSameReader(q, code, src) ==
  IF DoubleCheck /\ code \in {E_FOUND, E_CACHE1, E_CACHE2} /\ src # NoReader
  THEN LET n == checked[q] + 1 IN
       /\ checked' = [checked EXCEPT ![q] = n]
       /\ origin' = [origin EXCEPT ![q] = src]
       /\ rc' = [rc EXCEPT ![q] = IF n < 2 THEN E_UNHANDLED ELSE code]
       /\ sent' = [sent EXCEPT ![q] = IF n < 2 THEN @ ELSE Append(@, code)]
  ELSE /\ rc' = [rc EXCEPT ![q] = code]
       /\ sent' = [sent EXCEPT ![q] = Append(@, code)]
       /\ UNCHANGED <<checked, origin>>

\* send_dcw: the code is sent to the client, unless double_check makes it wait for
\* a second reader that delivers the same CW.
SendDcw(q, code, src) ==
  LET label == IF code = E_FOUND /\ src # NoReader /\ isPending[q][src] THEN E_CACHE2 ELSE code
  IN
  IF DoubleCheck /\ label \in {E_FOUND, E_CACHE1, E_CACHE2} /\ src # NoReader
  THEN \E same \in BOOLEAN :
         LET n == IF checked[q] = 0 THEN 1
                  ELSE IF origin[q] # src /\ same THEN checked[q] + 1 ELSE checked[q]
         IN /\ checked' = [checked EXCEPT ![q] = n]
            /\ origin' = [origin EXCEPT ![q] = IF checked[q] = 0 THEN src ELSE @]
            /\ rc' = [rc EXCEPT ![q] = IF n < 2 THEN E_UNHANDLED ELSE label]
            /\ sent' = [sent EXCEPT ![q] = IF n < 2 THEN @ ELSE Append(@, label)]
  ELSE /\ rc' = [rc EXCEPT ![q] = label]
       /\ sent' = [sent EXCEPT ![q] = Append(@, label)]
       /\ UNCHANGED <<checked, origin>>

NoSend == UNCHANGED <<rc, checked, origin, sent>>

\* A call of request_cw_from_readers as the last thing but "then" of a handler: it
\* returns at once from stage 4 on.
BeginAsk(q, stop, then) ==
  work' = [work EXCEPT ![q] =
             IF stage[q] < 4 THEN Asking(stop, then)
             ELSE IF then \in {"refuse", "keep"} THEN Verdict(then) ELSE IdleWork]

\* A CW has a cacheex_src when a peer, or a reader that only asks peers, was the first to
\* put it in the cache.
Exchanged(src) == src = NoReader \/ ~Normal(src)
CachedCode(src) == IF Exchanged(src) THEN E_CACHEEX ELSE E_CACHE1

\* Mutant of FromCache: an answer given meanwhile is not noticed.
FromCacheBlind(q, src) == SendDcw(q, CachedCode(src), src)

\* write_ecm_answer_fromcache
FromCache(q, src) ==
  \/ rc[q] < E_NOTFOUND /\ NoSend
  \/ rc[q] = E_UNHANDLED /\ SendDcw(q, CachedCode(src), src)
  \/ /\ E_NOTFOUND <= rc[q] /\ rc[q] < E_UNHANDLED
     /\ rc' = [rc EXCEPT ![q] = CachedCode(src)]
     /\ UNCHANGED <<checked, origin, sent>>

-----------------------------------------------------------------------------
\* get_cw, in the client's work thread

\* The CW is in the cache: answered on the spot and freed, never listed.
GetCwCached(q) ==
  /\ client[q] = "new"
  /\ \E src \in cached[Ecm[q]] :
       /\ (PreferLocal = 2 =>
             \E r \in cached[Ecm[q]] \ {NoReader} : "LOCAL" \in Kind[r])
       /\ FromCache(q, src)
  /\ client' = [client EXCEPT ![q] = "waiting"]
  /\ UNCHANGED <<stage, selection, waitExpired, timeoutCheck, age, ecmcwcache,
                 eaVars, jobs, work, reached, rdrVars, frames, cached>>

\* No reader to ask and nothing to wait for: not found, and freed.
GetCwNoReader(q) ==
  /\ client[q] = "new"
  /\ {} \in Selections
  /\ ~WaitTime
  /\ SendDcw(q, E_NOTFOUND, NoReader)
  /\ client' = [client EXCEPT ![q] = "waiting"]
  /\ UNCHANGED <<stage, selection, waitExpired, timeoutCheck, age, ecmcwcache,
                 eaVars, jobs, work, reached, rdrVars, frames, cached>>

\* The request is listed in ecmcwcache, then asks the readers: all stages, or the
\* cache-exchange readers only while it waits for the cache.
GetCw(q) ==
  /\ client[q] = "new"
  /\ \E sel \in Selections :
       LET prefer == IF \E r \in sel : "LOCAL" \in Kind[r] THEN PreferLocal ELSE 0
           waits  == WaitTime /\ prefer < 2
       IN /\ sel # {} \/ waits
          /\ selection' = [selection EXCEPT ![q] = sel]
          /\ status' = [status EXCEPT ![q] = [r \in Readers |-> FirstStatus(r, sel)]]
          /\ waitExpired' = [waitExpired EXCEPT ![q] = ~waits]
          /\ work' = [work EXCEPT ![q] =
                        IF ~waits THEN Asking(0, "done")
                        ELSE IF ~Mode1Delay /\ \E r \in sel : ~Normal(r)
                             THEN Asking(1, "done") ELSE IdleWork]
  /\ ecmcwcache' = <<q>> \o ecmcwcache
  /\ client' = [client EXCEPT ![q] = "waiting"]
  /\ UNCHANGED <<rc, stage, timeoutCheck, checked, origin, age,
                 earc, rcEx, isPending, pending, jobs, reached, sent, rdrVars, frames, cached>>

-----------------------------------------------------------------------------
\* request_cw_from_readers, one turn of its loop: the next stage and the readers it
\* asks.  The loop goes on only when none of them is connected.
Ask(q) ==
  /\ work[q].at = "ask"
  /\ LET s    == NextStage(q, stage[q])
         now  == {r \in Readers : Eligible(q, r, s)}
         then == work[q].then
     IN \E connected \in {c \in SUBSET now : now \ c \subseteq Unreachable} :
          /\ stage' = [stage EXCEPT ![q] = s]
          /\ status' = [status EXCEPT ![q] =
                          [r \in Readers |-> IF r \in now THEN @[r] \cup {"SENT"} ELSE @[r]]]
          /\ reached' = [reached EXCEPT ![q] = @ \cup connected]
          /\ rdrJobs' = [r \in Readers |-> IF r \in now THEN Append(rdrJobs[r], q)
                                           ELSE rdrJobs[r]]
          /\ work' = [work EXCEPT ![q] =
                IF s < 4 /\ connected = {} /\ work[q].stop = 0 THEN @
                ELSE CASE then = "fallback"          -> AskAgain
                       [] then \in {"refuse", "keep"} -> Verdict(then)
                       [] OTHER                      -> IdleWork]
  /\ UNCHANGED <<rc, selection, waitExpired, timeoutCheck, checked, origin, age, ecmcwcache,
                 earc, rcEx, isPending, pending, client, jobs, sent, dup, atServer,
                 frames, cached>>

-----------------------------------------------------------------------------
\* The jobs of the client's work thread

\* The thread is between two jobs; the oldest one is next.
Ready(q, act) ==
  /\ work[q].at = "idle"
  /\ ~Busy(q)
  /\ jobs[q] # <<>>
  /\ Head(jobs[q]).act = act

Takes(q, act) ==
  /\ Ready(q, act)
  /\ jobs' = [jobs EXCEPT ![q] = Tail(@)]

\* cacheex_mode1_delay
CacheexMode1Delay(q) ==
  /\ Takes(q, "cxdelay")
  /\ IF ~waitExpired[q] /\ Mode1Delay /\ HasCacheex(q) /\ stage[q] = 0 /\ rc[q] >= E_UNHANDLED
     THEN BeginAsk(q, 1, "done") ELSE UNCHANGED work
  /\ UNCHANGED <<erVars, eaVars, client, reached, sent, rdrVars, frames, cached>>

\* cacheex_timeout: a CW that is in the cache by now, else not found when there is no
\* normal reader, else the normal readers are asked.
CacheexTimeout(q) ==
  /\ Takes(q, "cxtimeout")
  /\ waitExpired' = [waitExpired EXCEPT ![q] = TRUE]
  /\ LET due       == ~waitExpired[q] /\ rc[q] >= E_UNHANDLED
         hasNormal == \E r \in selection[q] : Normal(r)
     IN \/ due /\ ~hasNormal /\ ~WaitUntilCtimeout /\ SendDcw(q, E_NOTFOUND, NoReader)
           /\ UNCHANGED work
        \/ due /\ hasNormal /\ stage[q] < 2 /\ BeginAsk(q, 0, "done") /\ NoSend
        \/ (due => IF hasNormal THEN stage[q] >= 2 ELSE WaitUntilCtimeout)
           /\ NoSend /\ UNCHANGED work
  /\ UNCHANGED <<stage, selection, timeoutCheck, age, ecmcwcache, eaVars, client,
                 reached, rdrVars, frames, cached>>

\* The same handler when check_cache finds a CW: a job of its own delivers it.
CacheexTimeoutHit(q) ==
  /\ Ready(q, "cxtimeout")
  /\ ~waitExpired[q]
  /\ rc[q] >= E_UNHANDLED
  /\ \E src \in Hits(q) : jobs' = [jobs EXCEPT ![q] = Append(Tail(@), CacheJob(src))]
  /\ waitExpired' = [waitExpired EXCEPT ![q] = TRUE]
  /\ UNCHANGED <<rc, stage, selection, timeoutCheck, checked, origin, age, ecmcwcache, eaVars,
                 client, work, reached, sent, rdrVars, frames, cached>>

\* fallback_timeout: every stage up to the fallback readers is gone through.
FallbackTimeout(q) ==
  /\ Takes(q, "fallback")
  /\ IF rc[q] >= E_UNHANDLED /\ stage[q] < 4
     THEN BeginAsk(q, 0, "fallback") ELSE UNCHANGED work
  /\ UNCHANGED <<erVars, eaVars, client, reached, sent, rdrVars, frames, cached>>

\* Mutant of FallbackAgain: the loop does not end with stage 4.
FallbackAgainAlways(q) ==
  /\ work[q].at = "again"
  /\ work' = [work EXCEPT ![q] = Asking(0, "fallback")]
  /\ UNCHANGED <<erVars, eaVars, client, jobs, reached, sent, rdrVars, frames, cached>>

\* The condition of fallback_timeout's loop
FallbackAgain(q) ==
  /\ work[q].at = "again"
  /\ work' = [work EXCEPT ![q] = IF stage[q] < 4 THEN Asking(0, "fallback") ELSE IdleWork]
  /\ UNCHANGED <<erVars, eaVars, client, jobs, reached, sent, rdrVars, frames, cached>>

\* ecm_timeout, first part: a timeout answer for every reader that still owes one
EcmTimeout(q) ==
  /\ Takes(q, "ctimeout")
  /\ timeoutCheck' = [timeoutCheck EXCEPT ![q] = TRUE]
  /\ IF ~timeoutCheck[q] /\ rc[q] >= E_UNHANDLED
     THEN LET owing == {i \in DOMAIN MatchingRdr :
                         LET f == status[q][MatchingRdr[i]] IN "SENT" \in f /\ "ANSWERED" \notin f}
          IN /\ \E order \in [1 .. Cardinality(owing) -> owing] :
                  /\ \A m, n \in DOMAIN order : m < n => order[m] < order[n]
                  /\ frames' = [frames EXCEPT ![q] =
                       [n \in DOMAIN order |-> Frame("record", q, MatchingRdr[order[n]], "timeout")]]
             /\ work' = [work EXCEPT ![q] = Expiring]
     ELSE UNCHANGED <<frames, work>>
  /\ UNCHANGED <<rc, stage, selection, waitExpired, checked, origin, age, ecmcwcache, eaVars,
                 client, reached, sent, rdrVars, cached>>

\* ecm_timeout, last part: the timeout is sent to the client.
SendTimeout(q) ==
  /\ work[q].at = "expire"
  /\ ~Busy(q)
  /\ SendDcw(q, E_TIMEOUT, NoReader)
  /\ work' = [work EXCEPT ![q] = IdleWork]
  /\ UNCHANGED <<stage, selection, waitExpired, timeoutCheck, age, ecmcwcache, eaVars, client,
                 jobs, reached, rdrVars, frames, cached>>

\* write_ecm_answer_fromcache as a job of chkcache_process
AnswerFromCache(q) ==
  /\ Takes(q, "cache")
  /\ FromCache(q, Head(jobs[q]).rdr)
  /\ UNCHANGED <<stage, selection, waitExpired, timeoutCheck, age, ecmcwcache, eaVars, client,
                 work, reached, rdrVars, frames, cached>>

-----------------------------------------------------------------------------
\* chk_dcw, the job an answer of reader r posts to the client

\* A CW, or an answer that cannot change anything any more.
ChkDcw(q) ==
  /\ Takes(q, "answer")
  /\ LET r == Head(jobs[q]).rdr IN
     \/ rc[q] < E_99 /\ NoSend /\ UNCHANGED work
     \/ /\ rc[q] >= E_99 /\ ~Normal(r)
        \* the cache answers; only see whether the next stage is due
        /\ work' = [work EXCEPT ![q] =
              IF (waitExpired[q] \/ ~HitCache) /\ stage[q] = 1 THEN Scanning("cacheex") ELSE @]
        /\ NoSend
     \/ /\ rc[q] >= E_99 /\ Normal(r)
        /\ \/ earc[q][r] = E_FOUND /\ SendDcw(q, E_FOUND, r) /\ UNCHANGED work
           \/ /\ earc[q][r] \in {E_INVALID, E_NOTFOUND}
              /\ work' = [work EXCEPT ![q] = Scanning("normal")]
              /\ NoSend
           \/ earc[q][r] \notin {E_FOUND, E_INVALID, E_NOTFOUND} /\ NoSend /\ UNCHANGED work
  /\ UNCHANGED <<stage, selection, waitExpired, timeoutCheck, age, ecmcwcache, eaVars, client,
                 reached, rdrVars, frames, cached>>

\* The answers are read one by one, each under its own ecmanswer_lock.
Scan(q) ==
  /\ work[q].at = "scan"
  /\ work[q].i <= Len(MatchingRdr)
  /\ LET r == MatchingRdr[work[q].i] IN
     work' = [work EXCEPT ![q].i = @ + 1,
                          ![q].view[r] = [flags |-> status[q][r], rc |-> earc[q][r]]]
  /\ UNCHANGED <<erVars, eaVars, client, jobs, reached, sent, rdrVars, frames, cached>>

\* r, as the scan saw it, has these flags and none of those.
Seen(q, r, with, without) ==
  LET f == work[q].view[r].flags IN with \subseteq f /\ without \cap f = {}
\* Mutant of HasCw: a reader that answered counts as one that has nothing.
HasCwNever(q, r) == FALSE
HasCw(q, r) == work[q].view[r].rc < E_NOTFOUND

ScannedAll(q) == work[q].at = "scan" /\ work[q].i > Len(MatchingRdr)

\* After the cache-exchange readers: with no answer outstanding, stage 2 or 3.
AfterCacheexScan(q) ==
  /\ ScannedAll(q)
  /\ work[q].then = "cacheex"
  /\ LET has  == \E r \in Readers : Seen(q, r, {"CACHEEX", "ACTIVE"}, {"FALLBACK"})
         left == \E r \in Readers :
                   \/ Seen(q, r, {"SENT", "CACHEEX", "ACTIVE"}, {"FALLBACK", "ANSWERED"})
                   \/ HasCw(q, r)
     IN IF has /\ ~left THEN BeginAsk(q, 0, "done") ELSE work' = [work EXCEPT ![q] = IdleWork]
  /\ UNCHANGED <<erVars, eaVars, client, jobs, reached, sent, rdrVars, frames, cached>>

\* After a "not found" of a normal reader: the next stage when this one is exhausted,
\* and not found for the client when no reader is left.
AfterScan(q) ==
  /\ ScannedAll(q)
  /\ work[q].then = "normal"
  /\ LET localLeft  == \E r \in Readers :
                         \/ Seen(q, r, {"SENT", "LOCAL", "ACTIVE"}, {"FALLBACK", "ANSWERED"})
                         \/ HasCw(q, r)
         normalLeft == \E r \in Readers :
                         \/ Seen(q, r, {"SENT", "ACTIVE"}, {"FALLBACK", "ANSWERED"})
                         \/ HasCw(q, r)
         left       == \E r \in Readers :
                         Seen(q, r, {"ACTIVE"}, {"ANSWERED"}) \/ HasCw(q, r)
         hasLocal   == \E r \in Readers : Seen(q, r, {"LOCAL", "ACTIVE"}, {"FALLBACK"})
         hasNormal  == \E r \in Readers : Seen(q, r, {"ACTIVE"}, {"FALLBACK"})
         then       == IF left \/ WaitUntilCtimeout THEN "keep" ELSE "refuse"
     IN IF \/ stage[q] = 2 /\ hasLocal /\ ~localLeft
           \/ stage[q] = 3 /\ hasNormal /\ ~normalLeft
        THEN BeginAsk(q, 0, then)
        ELSE work' = [work EXCEPT ![q] = Verdict(then)]
  /\ UNCHANGED <<erVars, eaVars, client, jobs, reached, sent, rdrVars, frames, cached>>

GiveVerdict(q) ==
  /\ work[q].at = "verdict"
  /\ work' = [work EXCEPT ![q] = IdleWork]
  /\ IF work[q].then = "refuse" THEN SendDcw(q, E_NOTFOUND, NoReader) ELSE NoSend
  /\ UNCHANGED <<stage, selection, waitExpired, timeoutCheck, age, ecmcwcache, eaVars, client,
                 jobs, reached, rdrVars, frames, cached>>

-----------------------------------------------------------------------------
\* write_ecm_answer, in a reader's thread or (from ecm_timeout) a client's

Code(ans) == CASE ans = "found"                  -> E_FOUND
               [] ans \in {"badecm", "invalid"}  -> E_INVALID
               [] ans = "timeout"                -> E_TIMEOUT
               [] OTHER                          -> E_NOTFOUND
CodeEx(ans) == CASE ans \in {"badcw", "badecm"} -> "wrong"
                 [] ans = "limited"             -> "limit"
                 [] OTHER                       -> "none"

\* What an answer to p is passed on as to a request pending on it: the CW, or "not
\* found" with the same rcEx, which for E2_WRONG_CHKSUM is a bad ECM.
Shared(p, r) == CASE earc[p][r] = E_FOUND  -> "found"
                  [] rcEx[p][r] = "wrong"  -> "badecm"
                  [] rcEx[p][r] = "limit"  -> "limited"
                  [] OTHER                 -> "notfound"

Top(t) == Head(frames[t])
Pop(t) == frames' = [frames EXCEPT ![t] = Tail(@)]

\* The part under ecmanswer_lock.  A too late answer and a second one are dropped; a bad
\* ECM takes every reader of the request out of the game.
Record(t) ==
  /\ Busy(t)
  /\ Top(t).op = "record"
  /\ LET q == Top(t).q    r == Top(t).r    ans == Top(t).ans
         answered == IF ans = "foreign" THEN {} ELSE {"ANSWERED"}
     IN IF age[q] = Late \/ "ANSWERED" \in status[q][r]
        THEN Pop(t) /\ UNCHANGED <<status, earc, rcEx, stage>>
        ELSE /\ earc' = [earc EXCEPT ![q][r] = Code(ans)]
             /\ rcEx' = [rcEx EXCEPT ![q][r] = CodeEx(ans)]
             /\ stage' = [stage EXCEPT ![q] = IF ans = "badecm" THEN 5 ELSE @]
             /\ status' = [status EXCEPT ![q] =
                  [s \in Readers |->
                     (IF ans = "badecm" THEN @[s] \ {"ACTIVE", "FALLBACK"} ELSE @[s])
                       \cup (IF s = r THEN answered ELSE {})]]
             /\ frames' = [frames EXCEPT ![t] = <<Frame("publish", q, r, ans)>> \o Tail(@)]
  /\ UNCHANGED <<rc, selection, waitExpired, timeoutCheck, checked, origin, age, ecmcwcache,
                 isPending, pending, clVars, rdrVars, cached>>

\* The rest: chk_dcw becomes a job of the client, distribute_ea answers the pending
\* requests, and a CW that was asked for goes to the cache.
Publish(t) ==
  /\ Busy(t)
  /\ Top(t).op = "publish"
  /\ LET q == Top(t).q    r == Top(t).r
         others == [i \in DOMAIN pending[q][r] |->
                      Frame("record", pending[q][r][i], r, Shared(q, r))]
         store  == IF earc[q][r] = E_FOUND /\ ~isPending[q][r]
                   THEN <<Frame("store", q, r, "found")>> ELSE <<>>
     IN /\ jobs' = [jobs EXCEPT ![q] = IF client[q] = "waiting" THEN Append(@, AnswerJob(r)) ELSE @]
        /\ frames' = [frames EXCEPT ![t] = others \o store \o Tail(@)]
  /\ UNCHANGED <<erVars, eaVars, client, work, reached, sent, rdrVars, cached>>

\* add_cache_from_reader
Store(t) ==
  /\ Busy(t)
  /\ Top(t).op = "store"
  /\ cached' = [cached EXCEPT ![Ecm[Top(t).q]] = @ \cup {Top(t).r}]
  /\ Pop(t)
  /\ UNCHANGED <<erVars, eaVars, clVars, rdrVars>>

-----------------------------------------------------------------------------
\* reader_get_ecm, in the reader's work thread

Free(r) == ~Busy(r) /\ dup[r] = <<>>

GetsEcm(r) ==
  /\ Free(r)
  /\ rdrJobs[r] # <<>>
  /\ rdrJobs' = [rdrJobs EXCEPT ![r] = Tail(@)]

\* Mutant of Same: only requests that are answered are joined.
SameAnswered(r, q) ==
  {i \in DOMAIN ecmcwcache :
     LET p == ecmcwcache[i] IN
     /\ p # q
     /\ Ecm[p] = Ecm[q]
     /\ age[p] < Late
     /\ {"SENT", "ANSWERED"} \subseteq status[p][r]
     /\ ~isPending[p][r]
     /\ earc[p][r] # E_TIMEOUT
     /\ rcEx[p][r] # "limit"}

\* Where in ecmcwcache the requests of the same ECM are that r has been asked to answer.
Same(r, q) ==
  {i \in DOMAIN ecmcwcache :
     LET p == ecmcwcache[i] IN
     /\ p # q
     /\ Ecm[p] = Ecm[q]
     /\ age[p] < Late
     /\ "SENT" \in status[p][r]
     /\ ~isPending[p][r]
     /\ earc[p][r] # E_TIMEOUT
     /\ rcEx[p][r] # "limit"}

WriteAnswer(r, q, ans) == frames' = [frames EXCEPT ![r] = <<Frame("record", q, r, ans)>>]

\* The caid is filtered for this reader.
RefuseEcm(r) ==
  /\ "filter" \in Refusals
  /\ GetsEcm(r)
  /\ WriteAnswer(r, Head(rdrJobs[r]), "notfound")
  /\ UNCHANGED <<erVars, eaVars, clVars, dup, atServer, cached>>

\* Mutant of FindSame: reader_get_ecm goes on to the server with the request it has joined.
FindSameSent(r) ==
  /\ GetsEcm(r)
  /\ LET q == Head(rdrJobs[r]) IN
     /\ \E i \in Same(r, q) : dup' = [dup EXCEPT ![r] = <<q, ecmcwcache[i]>>]
     /\ isPending' = [isPending EXCEPT ![q][r] = TRUE]
     /\ atServer' = [atServer EXCEPT ![r] = @ \cup {q}]
  /\ UNCHANGED <<erVars, status, earc, rcEx, pending, clVars, frames, cached>>

\* The search under ecmcache_lock finds the same ECM: this request will not be sent.
FindSame(r) ==
  /\ GetsEcm(r)
  /\ LET q == Head(rdrJobs[r]) IN
     /\ \E i \in Same(r, q) :
          /\ \A k \in Same(r, q) : i <= k
          /\ dup' = [dup EXCEPT ![r] = <<q, ecmcwcache[i]>>]
     /\ isPending' = [isPending EXCEPT ![q][r] = TRUE]
  /\ UNCHANGED <<erVars, status, earc, rcEx, pending, clVars, atServer, frames, cached>>

\* Mutant of JoinSame: it waits for an answer that may have been given already.
JoinSameBlind(r) ==
  /\ ~Busy(r)
  /\ dup[r] # <<>>
  /\ pending' = [pending EXCEPT ![dup[r][2]][r] = <<dup[r][1]>> \o @]
  /\ dup' = [dup EXCEPT ![r] = <<>>]
  /\ UNCHANGED <<erVars, status, earc, rcEx, isPending, clVars, rdrJobs, atServer, frames, cached>>

\* Under ecmanswer_lock of the answer found: use it, or wait for it as a pending one.
JoinSame(r) ==
  /\ ~Busy(r)
  /\ dup[r] # <<>>
  /\ LET q == dup[r][1]    p == dup[r][2] IN
     IF earc[p][r] < E_99
     THEN WriteAnswer(r, q, Shared(p, r)) /\ UNCHANGED pending
     ELSE /\ pending' = [pending EXCEPT ![p][r] = <<q>> \o @]
          /\ UNCHANGED frames
  /\ dup' = [dup EXCEPT ![r] = <<>>]
  /\ UNCHANGED <<erVars, status, earc, rcEx, isPending, clVars, rdrJobs, atServer, cached>>

\* The rate limiter has no space left.
LimitEcm(r) ==
  /\ "limit" \in Refusals
  /\ GetsEcm(r)
  /\ Same(r, Head(rdrJobs[r])) = {}
  /\ WriteAnswer(r, Head(rdrJobs[r]), "limited")
  /\ UNCHANGED <<erVars, eaVars, clVars, dup, atServer, cached>>

ForwardEcm(r) ==
  /\ GetsEcm(r)
  /\ Same(r, Head(rdrJobs[r])) = {}
  /\ atServer' = [atServer EXCEPT ![r] = @ \cup {Head(rdrJobs[r])}]
  /\ UNCHANGED <<erVars, eaVars, clVars, dup, frames, cached>>

\* The card or the server behind r answers; every request for that ECM is answered.
ServerAnswers(r) ==
  /\ Free(r)
  /\ \E e \in Ecms, ans \in Answers :
       LET asked == {q \in atServer[r] : Ecm[q] = e} IN
       /\ asked # {}
       /\ \E order \in [1 .. Cardinality(asked) -> asked] :
            /\ \A q \in asked : \E i \in DOMAIN order : order[i] = q
            /\ frames' = [frames EXCEPT ![r] =
                 [i \in DOMAIN order |-> Frame("record", order[i], r, ans)]]
       /\ atServer' = [atServer EXCEPT ![r] = @ \ asked]
  /\ UNCHANGED <<erVars, eaVars, clVars, rdrJobs, dup, cached>>

-----------------------------------------------------------------------------
\* cw_process and chkcache_process: jobs for the requests in ecmcwcache

Room(q, act) == Cardinality({i \in DOMAIN jobs[q] : jobs[q][i].act = act}) < MaxJobs

Posts(q, act) ==
  /\ \E i \in DOMAIN ecmcwcache : ecmcwcache[i] = q
  /\ ~timeoutCheck[q]
  /\ client[q] = "waiting"
  /\ Room(q, act)
  /\ jobs' = [jobs EXCEPT ![q] = Append(@, Job(act))]
  /\ UNCHANGED <<erVars, eaVars, client, work, reached, sent, rdrVars, frames, cached>>

PostCacheexTimeout(q) ==
  Waits(q) /\ ~waitExpired[q] /\ rc[q] >= E_UNHANDLED /\ age[q] >= CxDue /\ Posts(q, "cxtimeout")

PostMode1Delay(q) ==
  /\ Waits(q) /\ ~waitExpired[q] /\ rc[q] >= E_UNHANDLED /\ age[q] < CxDue
  /\ Mode1Delay /\ stage[q] = 0 /\ HasCacheex(q)
  /\ Posts(q, "cxdelay")

PostFallbackTimeout(q) ==
  rc[q] >= E_UNHANDLED /\ stage[q] < 4 /\ age[q] >= FbDue /\ Posts(q, "fallback")

\* Mutant of PostClientTimeout: not for a request that has asked all its readers.
PostClientTimeoutEarly(q) == age[q] >= CtDue /\ stage[q] < 4 /\ Posts(q, "ctimeout")

\* Posted for answered requests too: it marks them as checked.
PostClientTimeout(q) == age[q] >= CtDue /\ Posts(q, "ctimeout")

\* chkcache_process
PostCacheHit(q) ==
  /\ \E i \in DOMAIN ecmcwcache : ecmcwcache[i] = q
  /\ age[q] < Late
  /\ rc[q] >= E_UNHANDLED
  /\ ~timeoutCheck[q]
  /\ client[q] = "waiting"
  /\ Room(q, "cache")
  /\ \E src \in Hits(q) : jobs' = [jobs EXCEPT ![q] = Append(@, CacheJob(src))]
  /\ UNCHANGED <<erVars, eaVars, client, work, reached, sent, rdrVars, frames, cached>>

-----------------------------------------------------------------------------
\* The environment

\* A cache-exchange peer pushes a CW.
PeerPushes(e) ==
  /\ CachePush
  /\ NoReader \notin cached[e]
  /\ cached' = [cached EXCEPT ![e] = @ \cup {NoReader}]
  /\ UNCHANGED <<erVars, eaVars, clVars, rdrVars, frames>>

\* Time passes to the request's next deadline.
Tick(q) ==
  /\ \E i \in DOMAIN ecmcwcache : ecmcwcache[i] = q
  /\ age[q] < MaxAge
  /\ age' = [age EXCEPT ![q] = IF @ = Fresh /\ ~Waits(q) THEN FbDue ELSE @ + 1]
  /\ UNCHANGED <<rc, stage, selection, waitExpired, timeoutCheck, checked, origin, ecmcwcache,
                 eaVars, clVars, rdrVars, frames, cached>>

\* The client is killed between two jobs: cleanup_ecmtasks and free_joblist.
Disconnect(q) ==
  /\ Disconnects
  /\ client[q] = "waiting"
  /\ work[q].at = "idle"
  /\ ~Busy(q)
  /\ client' = [client EXCEPT ![q] = "killed"]
  /\ jobs' = [jobs EXCEPT ![q] = <<>>]
  /\ UNCHANGED <<erVars, eaVars, work, reached, sent, rdrVars, frames, cached>>

-----------------------------------------------------------------------------
Init ==
  /\ rc = [q \in Requests |-> E_UNHANDLED]
  /\ stage = [q \in Requests |-> 0]
  /\ selection = [q \in Requests |-> {}]
  /\ waitExpired = [q \in Requests |-> FALSE]
  /\ timeoutCheck = [q \in Requests |-> FALSE]
  /\ checked = [q \in Requests |-> 0]
  /\ origin = [q \in Requests |-> NoReader]
  /\ age = [q \in Requests |-> Fresh]
  /\ ecmcwcache = <<>>
  /\ status = [q \in Requests |-> [r \in Readers |-> {}]]
  /\ earc = [q \in Requests |-> [r \in Readers |-> E_UNHANDLED]]
  /\ rcEx = [q \in Requests |-> [r \in Readers |-> "none"]]
  /\ isPending = [q \in Requests |-> [r \in Readers |-> FALSE]]
  /\ pending = [q \in Requests |-> [r \in Readers |-> <<>>]]
  /\ client = [q \in Requests |-> "new"]
  /\ jobs = [q \in Requests |-> <<>>]
  /\ work = [q \in Requests |-> IdleWork]
  /\ reached = [q \in Requests |-> {}]
  /\ sent = [q \in Requests |-> <<>>]
  /\ rdrJobs = [r \in Readers |-> <<>>]
  /\ dup = [r \in Readers |-> <<>>]
  /\ atServer = [r \in Readers |-> {}]
  /\ frames = [t \in Requests \cup Readers |-> <<>>]
  /\ cached = [e \in Ecms |-> {}]

ClientStep(q) ==
  \/ Ask(q) \/ Scan(q) \/ AfterCacheexScan(q) \/ AfterScan(q) \/ GiveVerdict(q)
  \/ CacheexMode1Delay(q) \/ CacheexTimeout(q) \/ CacheexTimeoutHit(q)
  \/ FallbackTimeout(q) \/ FallbackAgain(q) \/ EcmTimeout(q) \/ SendTimeout(q)
  \/ AnswerFromCache(q) \/ ChkDcw(q)

WriteStep(t) == Record(t) \/ Publish(t) \/ Store(t)

ReaderStep(r) == RefuseEcm(r) \/ FindSame(r) \/ JoinSame(r) \/ LimitEcm(r) \/ ForwardEcm(r)

TimerStep(q) ==
  \/ PostCacheexTimeout(q) \/ PostMode1Delay(q) \/ PostFallbackTimeout(q)
  \/ PostClientTimeout(q) \/ PostCacheHit(q)

\* Every client has called get_cw, and every thread has done all it had to.
Quiescent ==
  /\ \A q \in Requests : client[q] # "new" /\ jobs[q] = <<>> /\ work[q].at = "idle"
  /\ \A t \in Requests \cup Readers : ~Busy(t)
  /\ \A r \in Readers : rdrJobs[r] = <<>> /\ dup[r] = <<>>
  /\ UNCHANGED vars

Next ==
  \/ \E q \in Requests : GetCw(q) \/ GetCwCached(q) \/ GetCwNoReader(q)
  \/ \E q \in Requests : ClientStep(q)
  \/ \E t \in Requests \cup Readers : WriteStep(t)
  \/ \E r \in Readers : ReaderStep(r)
  \/ \E r \in Readers : ServerAnswers(r)
  \/ \E q \in Requests : TimerStep(q)
  \/ \E q \in Requests : Tick(q) \/ Disconnect(q)
  \/ \E e \in Ecms : PeerPushes(e)
  \/ Quiescent

Spec == Init /\ [][Next]_vars

\* The work threads run, cw_process posts the client timeout, time passes.  Nothing is
\* assumed of the servers, the peers or the clients.
Fairness ==
  /\ \A q \in Requests : WF_vars(ClientStep(q)) /\ WF_vars(Tick(q)) /\ WF_vars(PostClientTimeout(q))
  /\ \A t \in Requests \cup Readers : WF_vars(WriteStep(t))
  /\ \A r \in Readers : WF_vars(ReaderStep(r))

FairSpec == Spec /\ Fairness

-----------------------------------------------------------------------------
\* Type invariant: every field of ECM_REQUEST, s_ecm_answer and the queues has a value
\* the code can give it.  Stage 6 is the 5 of a bad ECM counted up by a loop under way.
Codes == {E_FOUND, E_CACHE1, E_CACHE2, E_CACHEEX, E_NOTFOUND, E_TIMEOUT, E_INVALID, E_UNHANDLED}
WorkType ==
  [at : {"idle", "ask", "again", "scan", "verdict", "expire"}, stop : {0, 1},
   then : {"done", "fallback", "cacheex", "normal", "refuse", "keep"},
   i : Nat, view : [Readers -> [flags : SUBSET Flags, rc : Codes]]]
FrameType == [op : {"record", "publish", "store"}, q : Requests, r : Readers, ans : AnswerKinds]

TypeOK ==
  /\ rc \in [Requests -> Codes]
  /\ stage \in [Requests -> 0 .. 6]
  /\ selection \in [Requests -> SUBSET Readers]
  /\ waitExpired \in [Requests -> BOOLEAN]
  /\ timeoutCheck \in [Requests -> BOOLEAN]
  /\ checked \in [Requests -> Nat]
  /\ origin \in [Requests -> Readers \cup {NoReader}]
  /\ age \in [Requests -> Fresh .. Late]
  /\ ecmcwcache \in Seq(Requests)
  /\ status \in [Requests -> [Readers -> SUBSET Flags]]
  /\ earc \in [Requests -> [Readers -> Codes]]
  /\ rcEx \in [Requests -> [Readers -> {"none", "wrong", "limit"}]]
  /\ isPending \in [Requests -> [Readers -> BOOLEAN]]
  /\ pending \in [Requests -> [Readers -> Seq(Requests)]]
  /\ client \in [Requests -> {"new", "waiting", "killed"}]
  /\ jobs \in [Requests -> Seq(JobType)]
  /\ work \in [Requests -> WorkType]
  /\ reached \in [Requests -> SUBSET Readers]
  /\ sent \in [Requests -> Seq(Codes)]
  /\ rdrJobs \in [Readers -> Seq(Requests)]
  /\ dup \in [Readers -> {<<>>} \cup Requests \X Requests]
  /\ atServer \in [Readers -> SUBSET Requests]
  /\ frames \in [Requests \cup Readers -> Seq(FrameType)]
  /\ cached \in [Ecms -> SUBSET (Readers \cup {NoReader})]

-----------------------------------------------------------------------------
\* Safety

\* However the answers of readers, cache and timers race, a client is sent one answer
\* to a request (chk_dcw, ecm_timeout, cacheex_timeout, write_ecm_answer_fromcache).
AnsweredOnce == \A q \in Requests : Len(sent[q]) <= 1

\* chk_dcw refuses a request only when every active reader of it has answered and none
\* of the normal ones with a CW, also when answers arrive while it counts them.
Refuses(q) == sent'[q] # sent[q] /\ sent'[q][Len(sent'[q])] = E_NOTFOUND
RefusesExhausted ==
  \A q \in Requests : Refuses(q) =>
    \A r \in selection[q] : Normal(r) /\ "ACTIVE" \in status[q][r] =>
      "ANSWERED" \in status[q][r] /\ earc[q][r] # E_FOUND
RefusedOnlyExhausted == [][RefusesExhausted]_vars

\* request_cw_from_readers: before the fallback timeout a fallback reader is asked only
\* when no connected reader that is none, asked before it or with it, has still to answer.
AskedNow(q, r) == "SENT" \in status'[q][r] /\ "SENT" \notin status[q][r]
HoldsFallback ==
  \A q \in Requests, r \in Readers :
    AskedNow(q, r) /\ Normal(r) /\ "FALLBACK" \in status[q][r] /\ age[q] < FbDue =>
      \A s \in reached'[q] : Normal(s) /\ "FALLBACK" \notin Kind[s] => "ANSWERED" \in status[q][s]

\* While the cache is waited for, a normal reader is asked only when the wait time or the
\* fallback timeout is over, or (no hit was recorded) all cache-exchange readers answered
\* that are no fallback readers; those are asked with the others, but nobody waits for them.
AsksCacheexFirst ==
  \A q \in Requests, r \in Readers :
    AskedNow(q, r) /\ Normal(r) /\ Waits(q) /\ ~waitExpired[q] /\ age[q] < FbDue =>
      /\ ~HitCache
      /\ \A s \in selection[q] :
           ~Normal(s) /\ "FALLBACK" \notin Kind[s] /\ "SENT" \in status'[q][s] =>
             "ANSWERED" \in status[q][s]

\* The two together: readers are asked in turn.
StagesInTurn == [][HoldsFallback /\ AsksCacheexFirst]_vars

\* A reader is given a request once, and holds it in one place: its job list, the search
\* for the same ECM, its server, or the pending list of another request.
Places(q, r) ==
  Cardinality({i \in DOMAIN rdrJobs[r] : rdrJobs[r][i] = q})
    + (IF dup[r] # <<>> /\ dup[r][1] = q THEN 1 ELSE 0)
    + (IF q \in atServer[r] THEN 1 ELSE 0)
    + Cardinality({x \in Requests \X (1 .. Cardinality(Requests)) :
                     x[2] \in DOMAIN pending[x[1]][r] /\ pending[x[1]][r][x[2]] = q})
AskedOnce == \A q \in Requests, r \in Readers : Places(q, r) <= 1

\* A request pending on another one is not forgotten: once that one is answered, it is
\* answered as well or an answer to it is on its way, whoever wrote the first one
\* (distribute_ea runs after ecmanswer_lock is released).
OnItsWay(q, p, r) ==
  \E t \in Requests \cup Readers : \E i \in DOMAIN frames[t] :
    LET f == frames[t][i] IN
    f.r = r /\ (\/ f.op = "publish" /\ f.q = p
                \/ f.op = "record" /\ f.q = q)
PendingServed ==
  \A p \in Requests, r \in Readers : \A i \in DOMAIN pending[p][r] :
    LET q == pending[p][r][i] IN
    earc[p][r] < E_99 => earc[q][r] < E_99 \/ OnItsWay(q, p, r) \/ age[q] = Late

\* The server of a reader is asked for an ECM by one request at a time (reader_get_ecm), by
\* another one only after the first has timed out, or is too old to be joined.
ForwardedOnce ==
  \A r \in Readers : \A p, q \in atServer[r] : p # q /\ Ecm[p] = Ecm[q] =>
    \E x \in {p, q} : earc[x][r] = E_TIMEOUT \/ age[x] = Late

\* With double_check (send_dcw) one reader's word is not enough: a CW reaches the client only
\* when two readers have delivered one, or when a peer or a cache-exchange reader put one in
\* the cache (write_ecm_answer_fromcache says E_CACHEEX then, which is not checked twice).
DoubleChecked ==
  DoubleCheck => \A q \in Requests : sent[q] # <<>> /\ sent[q][1] < E_NOTFOUND =>
    \/ sent[q][1] = E_CACHEEX /\ \E src \in cached[Ecm[q]] : Exchanged(src)
    \/ Cardinality({r \in Readers : \E p \in Requests : Ecm[p] = Ecm[q] /\ earc[p][r] = E_FOUND}) >= 2

\* A request is given up (stage 5, all readers inactive) only when a reader that was asked
\* for its ECM found the ECM itself bad.
GivenUpOnlyIfBad ==
  \A q \in Requests : stage[q] >= 5 =>
    \E p \in Requests, r \in Readers : Ecm[p] = Ecm[q] /\ ~isPending[p][r] /\ earc[p][r] = E_INVALID

-----------------------------------------------------------------------------
\* Refinement, with liveness: a request is closed once, granted only what a reader or a
\* peer has supplied (send_dcw's callers), and as long as its client stays it is closed in
\* the end, if by nothing else by ecm_timeout.
Outcome(q) ==
  IF sent[q] # <<>>
  THEN CASE sent[q][1] < E_NOTFOUND -> "granted"
         [] sent[q][1] = E_NOTFOUND -> "refused"
         [] OTHER                   -> "expired"
  ELSE CASE client[q] = "new"     -> "new"
         [] client[q] = "waiting" -> "open"
         [] OTHER                 -> "lost"

Promise == INSTANCE EcmPromise WITH
  outcome  <- [q \in Requests |-> Outcome(q)],
  supplied <- {e \in Ecms : cached[e] # {} \/ \E q \in Requests, r \in Readers :
                              Ecm[q] = e /\ earc[q][r] = E_FOUND}
PromiseKept == Promise!Spec
=============================================================================
