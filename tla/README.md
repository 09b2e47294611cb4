# TLA+ specifications of ncam

ncam (an OSCam descendant) takes ECM requests from clients, asks card readers,
proxy readers and cache-exchange peers for the control word (CW), and answers
each client once.  It is a C program in which every client and every reader is
a `struct s_client` with a job list and a work thread, and in which a handful
of service threads (`cw_process`, `chkcache_process`, the garbage collector,
the reader check) look at shared lists under read/write locks.  These
specifications are about that machinery: what its threads, its servers and its
cards do to each other's state, in which order, and what its users may rely on.

## The system

| part | code | state | operations |
|---|---|---|---|
| ECM requests | `ncam-ecm.c` | `ECM_REQUEST` (`rc`, `stage`, the `s_ecm_answer` of every matching reader), the list `ecmcwcache` | `get_cw`, `request_cw_from_readers`, `write_ecm_answer`, `distribute_ea`, `chk_dcw`, `send_dcw`, `fallback_timeout`, `ecm_timeout`, the thread `cw_process` |
| job queues | `ncam-work.c` | `joblist`, `thread_active`, `kill` of a client | `add_job`, `work_thread`, `free_joblist` |
| locks | `ncam-lock.c` | `CS_MUTEX_LOCK`: two counters, two condition variables | lock, try, unlock, destroy |
| proxy readers | `ncam-reader.c`, `module-newcamd.c`, `module-camd35.c` | `ecmtask`, message numbers, the TCP connection | `reader_get_ecm`, `casc_process_ecm`, `casc_check_dcw`, connect and close |
| CCcam reader | `module-cccam.c` | `cc_data`: cards, `ecm_busy`, `extended_ecm_idx` | `cc_send_ecm`, `cc_parse_msg`, `cc_send_emm`, connect, cycle and close |
| rate limiter | `ncam-reader.c` | slots `rlecmh`, cooldown phase | `ecm_ratelimit_check`, `ecm_ratelimit_findspace` |
| card readers | `reader-common.c`, `icc_async.c` | `card_status`, the reset jobs | health check, reset, ECM, restart |
| cache exchange | `module-cacheex.c` | hit cache, wait times | `chkcache_process`, `cacheex_timeout`, `cacheex_mode1_delay`, pushing |
| CW cache | `ncam-cache.c` | CWs per ECM hash with their counts | `add_cache`, `check_cache`, clean-up |
| CW cycle check | `module-cw-cycle-check.c` | what is known of a service's CWs | `checkcwcycle`, `cleanupcwcycle` |
| clients | `ncam-client.c`, `ncam.c` | client list and hash, kill flags | log-in, `kill_thread`, `free_client` |
| garbage | `ncam-garbage.c` | lists of blocks with the time they were given | `add_garbage`, `garbage_collector` |
| lists | `ncam-llist.c` | list with a version number, iterators | iterate, insert, remove while others iterate |
| load balancer | `module-stat.c` | statistics per reader and service | `add_stat`, `stat_get_best_reader` |
| DVB API | `module-dvbapi.c` | `demux`: the ECM pids of a program, their filters, the pid that descrambles | `dvbapi_parse_capmt`, `dvbapi_process_input`, `dvbapi_main_local`, `dvbapi_send_dcw` |
| EMM | `ncam-emm.c`, `ncam-emm-cache.c` | EMM cache and statistics | `do_emm`, cache look-up and clean-up |
| bans | `ncam-failban.c` | offences per address | `cs_add_violation`, `cs_check_violation` |

How they interact.  A protocol module calls `get_cw` in the client's work
thread.  It posts `ACTION_READER_ECM_REQUEST` to the work threads of the
readers.  A local reader looks after its card and asks it; a proxy reader puts
the request into its table and sends it on; both call `write_ecm_answer`, which
records the answer under the answer's lock and posts `ACTION_ECM_ANSWER_READER`
back to the client.  `cw_process` posts the timeouts, `chkcache_process` the CWs
that appear in the cache.  So handlers of one client run one after the other,
and everything else runs beside them.

What is hard: answers, timers and cache hits race to end a request; its stage
is advanced by five different handlers; two clients that ask for the same ECM
share one answer of a reader, handed on between two locks; a reader's thread may
deactivate readers under the hands of the client's thread; answers of servers
come late, for requests whose slots are taken by others, or not at all because
the connection was lost; a card comes and goes while jobs about it wait; the
lock hands itself over through timed waits that are not re-checked; threads are
started and end while jobs are added; iterators outlive the nodes they stand on;
a client may be killed at any point.

What makes each part correct: a request is answered once, by what its readers
or the cache supplied, refused only when nothing can come any more, and always
answered in the end; an answer reaches only requests for its ECM, and a request
that is marked as sent will be heard of; a reader's lock is given back and its
card reset once; the job queue keeps order, runs no job twice, loses none and
never runs two handlers of one client side by side; a lock excludes, wakes
whoever may go on, and its counters come back to zero; shared lists stay sound;
memory is freed once and not too early; the cycle check lets no CW pass whose half
that has to stay is wrong, and takes none that follows for a bad one, until a wrong
CW that keeps a half misleads it (which the code cannot tell).  `PROJECT.json` lists the hazards line by line with the
properties about them.

## Modules

| module | models | notes |
|---|---|---|
| `EcmRequest` | requests from `get_cw` to the answer | clients, readers, timers and the cache around them |
| `EcmPromise` | what a client may expect of a request | abstract, implemented by `EcmRequest` |
| `EcmReaders` | small sets of readers and requests | used by the two below |
| `CwProcess` | the thread `cw_process`, its sleep, and the list of requests | |
| `MCEcmRequest`, `MCEcmStages` | instances of `EcmRequest` | the second runs two of them, and `CwProcess` |
| `WorkQueue` | the job queue and the work threads of one client | |
| `RwLock` | `CS_MUTEX_LOCK` | one lock, any threads |
| `Exclusion` | a readers-writer lock as its users see it | abstract, implemented by `RwLock` under conditions |
| `CascEcm` | the requests under way of a newcamd or camd35 reader | |
| `CccamReader` | the reader of a CCcam server | |
| `CardReader` | a local reader's card and its resets | |
| `RateLimit` | the ECM rate limiter of a reader | |
| `CwCache` | the cache of CWs | |
| `CwCycle` | the CW cycle check of a service | |
| `DvbapiDemux` | the ECM pids and filters of a demuxer of the DVB API | |
| `LinkedList` | a shared list and its iterators | |
| `Garbage` | one list of the garbage collector and its lock | |
| `Chains` | what is reached from a node along the links | used by the two above |
| `MCParts`, `MCAnswers` | instances of the parts above | one part in each behaviour |
| `EcmRequestProofs`, `CwProcessProofs`, `RwLockProofs`, `WorkQueueProofs` | proofs about the module of that name | |
| `ListProofs` | proofs about `LinkedList` and `Garbage` | |
| `ReaderProofs` | proofs about `CascEcm`, `CardReader` and `RateLimit` | |
| `CccamProofs` | proofs about `CccamReader` | |
| `AnswerProofs` | proofs about `CwCycle` and `DvbapiDemux` | |

Definitions named *...Blind*, *...Always* and the like, marked "Mutant of", are
deliberately wrong versions of a definition.  They are used nowhere; putting one
in the place of the definition shows that a property notices.

Variables marked *history* are not in the code.  Some of them name the one
circumstance under which a property does not hold, so that it can be stated for
everything else: `late`, `met` (RwLock), `overlap` (WorkQueue), `ambiguous`
(CascEcm), `spoiled` (CardReader), `raced` (RateLimit), `strayed` (LinkedList),
`beside`, `overtaken` (Garbage), `broken`, `fooled` (CwCycle), `lost`, `reused`
(CccamReader), `stranded` (DvbapiDemux).  Each is explained below; where it contradicts a comment of the
repository a run shows it.

### EcmRequest

State.  `rc`, `stage`, `waitExpired` (`cacheex_wait_time_expired`),
`timeoutCheck` (`readers_timeout_check`), `checked` and `origin` (double check)
are fields of `ECM_REQUEST`; `status`, `earc`, `rcEx`, `isPending` and `pending`
are fields of the `s_ecm_answer` of a request and a reader; `ecmcwcache` is the
list of that name.  `jobs[q]` is the job list of q's client, `rdrJobs[r]` that of
a reader.  `sent` and `reached` are history.

Steps.  A handler the others cannot observe half way is one action.  The others
are split where they release a lock or read another thread's state:
`request_cw_from_readers` is one `Ask` per turn of its loop; `chk_dcw` reads the
answers one by one (`Scan`), as each has its own lock, then decides and sends
(`AfterScan`, `GiveVerdict`); `write_ecm_answer` is the part under
`ecmanswer_lock` (`Record`), the part after it (`Publish`) and the cache update
(`Store`), and `frames[t]` is the stack of such calls of a thread, since
`distribute_ea` and `ecm_timeout` call it again; `reader_get_ecm` first searches
under `ecmcache_lock` (`FindSame`), then takes the lock of the answer it found
(`JoinSame`).

Abstractions.  Time is the phase of a request's age (`age`): cacheex wait time
over, fallback timeout over, client timeout over, too old for answers.  A CW is
its kind of answer; whether two CWs are equal in the double check is a choice.
Who was the first to put a CW in the cache decides how it is handed out
(`CachedCode`): what came from a peer or a reader of cache exchange (`Exchanged`) is
`E_CACHEEX`, and `send_dcw` does not check it twice; what came from another reader is
`E_CACHE1`, and it does.
The selection of the load balancer, the answers of servers and the connections
of readers are choices.  One request per client.  `cacheex_mode1_delay` may be
due at any time before the cacheex wait time ends.  `status` updates of all
readers by a bad ECM are one step, although the code holds only one of their
locks.

### CwProcess

The timeouts of `EcmRequest` may come whenever they are due; this module is about
the thread that makes them come, and about when requests leave its list.  `list` is
`ecmcwcache`; `step` is the place of `cw_process` between its locks and its sleep:
the test of `cw_process_wakeups`, the way into the wait, the wait, the reset of the
counter, the pass over the list (which posts and computes `msec_wait`), the search
for old requests and the cut.  A client's thread makes a request, lists it, counts
its wakeup and signals in four steps, as it holds no lock that `cw_process` does.
Time is in ticks and passes while `cw_process` sleeps.  Of the kinds of timeouts one
stands for those that end when a request is answered, the other is the client
timeout.  `cw_process` may find the two clocks apart: requests are dated by the
second (`part2nd`), its own waits are not.  `missed`: the wakeup came between the
test and the wait, which is not under the mutex of the condition.  The search for
old requests gives up the read lock before it takes the write lock; requests that
are listed in this gap are cut off with the old ones if the first of the list was
old, and `StaysListed` excepts them.  The other clean-ups `cw_process` does in the
same rounds only let it wake up earlier.

### WorkQueue

`at[w]` is the place of a thread in `work_thread`: `start`, the two loop
conditions (`outer`, `inner`, the latter with the kill test), `take`, `arm`,
`poll`, `run`, `after` (the check for a late job), `end` (the second, unlocked
reset of `thread_active`), `free` (`free_client`).  `state[j]` is what has become
of a job.  Handlers are opaque: they may open or close the client's socket
(`pfd`), set `kill`, or free their own client and end the thread (`RunExits`).
Each job is added by a caller of its own, in two steps, because `add_job` tests
`kill` once before and once under `thread_lock`.  `overlap` says that a thread was
started while another was between the check for a late job and its end.
Not modelled: a reader action posted to a client without a reader, which the
code answers by leaving the inner loop (`CardReader` has what follows from it),
and the wakeup signal to a polling thread, which only shortens a poll of at most
3 s.

### RwLock

`writelock` and `readlock` are the counters; `pc[t]` and `mode[t]` say where a
thread is and what for.  Every call is atomic, because it runs under the mutex
of the lock; a wait splits it.  A thread that wakes up takes the lock without
looking again, and one whose wait timed out enforces it (the counters are set so
that only it counts; `late`).  `met`: two threads have been inside as readers.
Not modelled: `cs_lock_destroy` and its `flag`.  The `nolog` variants are the same
code.

### CascEcm

`ecmtask[n]` is a slot: its request, its `idx`, and whether its `rc` says that it
waits.  All handlers run in the reader's thread, so each is one step:
`casc_process_ecm` is the choice of `Double` (the ECM is under way, no message),
`Send`, `SendFails`, `SendCloses` and `Overflow`; `casc_check_dcw` is in
`Answered` and `Told`; `network_tcp_connection_close` in `AllFree`.  A message on
the `wire` is its number and its ECM; the server answers in any order or never.
Message numbers are the real ones, 16 bits wide for newcamd and up to 8190 for
camd35.  `age[q]` has the two limits the code compares with.  `ambiguous` says
that a number has stood for two ECMs: newcamd guesses the number of the next
message, and gives it to slots that send none.

### CccamReader

The struct `cc_data`, `ecmtask` and the connection of one reader, in its own
work thread; `at` is the place in `cc_send_ecm`, whose loop is one step a round
(`LoopSends`, `LoopNoCard`, `LoopEnds`, `LoopSendsEmm`), because time passes
between rounds; what follows it (`casc_check_dcw`) is `Deliver`.  Every message
`cc_parse_msg` knows for a reader, but for those named below, is an action.  Requests are numbered by the
second they were made in; two of the same second would be found in the order of
the table.  `card` is kept from one round of extended mode to the next, as in the
code.  `lost`: requests that were sent when `cc_cycle_connection` closed the
connection without closing the slots; `reused`: the flag byte began again while
the server held the last message of that number.  Choices: which matching card
is taken (ratings and hops), whether a NOK2 blocks a card, when a service is
reopened.  Left out: the time between two messages (`sleepsend` off),
`forward_origin_card`, the commands 05, 0B, 0C and 0E (on the last, which it does not
know, a reader cycles its connection) and the log-in, that `move_card_to_end` also
takes the card away from the other entries that name it, a card that
comes with the list of its good services.  Cycling a connection from another
thread (`cc_available`) needs `AVAIL_CHECK_LOADBALANCE`, which no caller passes.

### CardReader

`status` is `card_status`, `queue` the jobs of the reader, `card` what is in the
slot, which changes at any time.  Each job of the reader's thread is an action
that contains all it calls: an ECM looks after the card first
(`cardreader_do_checkhealth`), a health check that finds a card adds a reset, a
reset of a videoguard card may ask for a fast one.  `statuscnt` and `modemstat`
are those of `smartreader`'s rationed status queries.  `device` is an azbox or another one: when an
azbox cannot activate its card, its reset returns -1 and `cardreader_do_reset` leaves
everything as it is (`Resets`).  `spoiled` names the four ways by which resets and
status get out of step: a card taken out while its reset waits, a reset dropped for
its age, the reset after `resetcycle` ECMs, and the azbox that gave up (`GaveUp`).

### RateLimit

The slots, the cooldown phase and one search in two steps: `Find` and what
follows, `Enter` or `Refuse`; `LookUp` is the search of a client's thread, which
releases and moves slots without a lock.  `raced` says that one came between the
two.  Times are ticks up to `Hold`.

### LinkedList, Garbage

Every call of a list holds its lock and is a step; an iterator (`it[t]`: `cur`,
`prv` and the version it last saw) lives from one call to the next.  A removed
node keeps its links, as its memory is in the garbage.  `strayed` says that the
node an iterator stood on was removed by another, or nodes were moved.

`Garbage` has the lock inside (the writers' half of `RwLock`), because the
collector leaves it twice: at the third entry, and again behind its loop
(`LastUnlock`), on behalf of whoever is inside then (`beside`).  `overtaken` are
entries linked before older ones, whose threads took their time and then had to
wait.

### CwCache

`cache` is the list of hashes with the two times of each (`first`, `upd`), and for
each its CWs with count, flags and origin.  `Sorted` is `tommy_list_sort`'s merge
sort with `count_sort`, which returns its -1 in a `uint8_t` and is called through a
pointer to a function that returns an `int`: `signed` is a build in which the
caller sees -1.  Every call holds `cache_lock`.

### CwCycle

A service's entry is copied by a thread, judged (`Verdict`) and put on top
(`Insert`), so checks may overlap.  A CW is a pair of halves, a half the number of
the ECM that brought it, relative to the current one.  Each half of a CW that is
checked (`Cws`) may be right, that of the ECM before, or one that only wrong CWs have.
Times are ticks ago.  So states repeat although time goes on.  Of the half that has
to change, `cwcycle_sensitive` (on by default) asks that it be unlike the one it
replaces: `like` is a choice (`Passes`).

A wrong CW that keeps a half the check relies on passes, and the right one that follows is then taken
for a bad one: the comment above `countCWpart` shows the case ("freeze, but for cwc is ok", "cw is
right, cwc out of step"), and `cwcycle_sensitive` catches it only when the other half
is like the old one.  `fooled` says that a CW which is not right and shares a half
with others has passed or was learned from, until the entry is gone; `NotFooled`
excepts that.  `broken`: since the entry was begun that happened, or right CWs left an
ECM out, came out of order or with a new half like the old one, or checks overlapped;
`RightOnesPass` excepts that.

### DvbapiDemux

One entry of `demux`: `ECMpids` with the fields that decide about trying (`status`,
`checked`, and `tries` as fresh or not), `pidindex` and `curindex`, and the ECM
`filters`, each with the pid it was set for and the index it keeps.  The main thread
parses a CA PMT (`NewProgram`, `UpdateProgram`), handles a section (`KillPid`,
`BadSection`, `WrongChid`, `RefusedAtOnce`) and restarts pids without filters
(`FirstRun`, `SecondRun`, `StartOver`); `dvbapi_send_dcw` runs in the work thread of
the client and is two steps, as it finds the index first (`PidAnswered`) and then acts on
it without a lock (`ActOnAnswer`).  An ECM pid is a system, a provider and a pid of the
transport stream; ECM pids that share the last, and a provider corrected from the ECM, are left out.  `TryNext` is `dvbapi_try_next_caid` with
`dvbapi_start_descrambling` (`Started`); which pids have a reader, which filters can be started and
what weight `dvbapi_resort_ecmpids` gives are choices.  Which ECMs have been asked for
is no part of the state: with a filter, one may have been.  `stranded`: a filter failed
or brought another CHID, a CA PMT listed the pids anew, or an answer was acted on after
its filter had ended; none of these looks at `pidindex`, and until another pid takes its
place the one that counts as descrambling may have no filter.  `StillFiltered` and
`BestPid` except that; what they are about is the other ends of filters (refusals, pids
given up, takeovers) and who takes over.

## Composition

`EcmRequest` composes clients, readers, the timer thread and the cache; it relies
on one handler of a client at a time, which is `OneRunner` of `WorkQueue`.
`CascEcm` and `CccamReader` stand for `ForwardEcm`/`ServerAnswers` of `EcmRequest`,
in the thread of a reader (`WorkQueue` again); `CascEcm` contains the part of
`reader_get_ecm` that finds an older request for the ECM.  `CardReader` is the job
queue of a reader with its card.  `Garbage` contains the lock.  The parts of
`MCParts` and of `MCAnswers` call each other only through job queues and share no
variable; they are checked in common runs, one part in each behaviour (`part`),
so what a run reaches is the union of what each part reaches alone.

## Runs

A run asks its questions on small instances of the modules; the first six pass,
the others end in the violation that is described with them.

| run | what it shows | distinct states |
|---|---|---|
| `ecm_stages` | readers are asked stage by stage, normal ones after the cache and fallback ones last; not found is sent only when no normal or fallback reader can answer any more; with double_check one reader's CW is not counted twice; `cw_process` sleeps over no timeout and takes no request off its list too early | 1.42 million |
| `ecm_shared` | two clients that ask one reader for the same ECM: no pending request is forgotten, the ECM is on its way to the server once, and the reader holds a request in one place | 2.40 million |
| `ecm_promise` | one answer, and the request implements `EcmPromise`: it is granted only what was supplied, and is answered in the end | 442,000 |
| `work` | one handler at a time, jobs in order and once, none lost, every job handled in the end | 478,000 |
| `parts` | six parts: lock, proxy reader, card, list, CW cache, garbage | 865,000 |
| `answers` | four parts: the CCcam reader, the CW cycle check, the rate limiter, a demuxer | 1.96 million |

Instances and bounds.

* `ecm_stages`: *stages*: a cache-exchange, a local and a fallback reader, with
  wait time, mode-1 delay and local cards preferred, which is every kind in a stage
  of its own, up to the fallback timeout (the client timeout asks no reader);
  *refused*: the same three readers with all kinds of answers and refusals, of which
  the local one may be unconnected and is not preferred, so that it is asked with the
  normal ones (`RefusedOnlyExhausted` is about these two: when the wait time is over, a
  request that has no other reader is refused without the cache-exchange reader's answer), clients that disconnect, and the age at which answers are too late; both parts with
  double_check, which `DoubleChecked` is about; *timers*: two
  requests, of which one may be listed late and behind the other, half a second to
  the tick, timeouts after half a second and a second.
* `ecm_shared`: one reader, two clients with one ECM, refusals, disconnecting
  clients, all ages, and any selection, so that a client may have no reader to ask.
* `ecm_promise`: a cache-exchange and a normal reader, wait
  time from the hit cache, pushed CWs.  `MaxJobs` = 1 timer or cache job of a kind
  per client: `cw_process` posts again on every round, and a second copy meets the
  same tests as the first.
* `work`: three jobs, to have one running, one queued and one being added; three
  threads, to have one ending, its replacement and one more; with and without a
  socket, kill, aged jobs, threads that cannot be started.
* `parts`, lock: four threads, any of which reads or writes, with timeouts, so that
  one can be inside, one woken and two waiting.  Proxy reader: three requests for
  two ECMs and two slots, so that slots are shared, reused and full; message numbers
  begin just below 65535 and 8190 to reach the wraparound.  Card: every system;
  an azbox and another device; status queries at each third look instead of the sixth, `resetcycle` 1, three
  foreign jobs in the queue.  List: three nodes, two iterators, two changes that iterators
  notice (three were checked too).  Cache: two hashes, three CWs of which a hash stores two, three copies.
  Garbage: four blocks, one more than the position at which the collector leaves the
  lock; a block may be freed after one of two ticks.
* `answers`: two requests for two ECMs, two cards of which one serves both, and
  flags 1 and 2 in extended mode, so that they begin again (three flags were checked
  too).  Cycle check: two threads, one wrong CW, a period of three ticks with answers
  up to one tick late; entries are kept for six ticks and then cleaned up, and
  stage 4 is left after one look (also checked: seven ticks, one more until the clean-up,
  two looks; and, with CWs wrong in both halves only, no fallback time, two wrong CWs,
  insertions up to two ticks late).  What follows after the check was misled is not
  explored (`NotMisled`, a state constraint): `NotFooled` and `RightOnesPass` say nothing
  of it; the theorems are about all states.
  Whether a half is like the old one, and whether the reader is a fixed fallback, is chosen
  only when a CW is compared (`Asked`), as nothing else looks at it.
  Rate limiter: four services with limits 3, 2, 2 and 1 in four slots.  Demuxer: two
  ECM pids, which is one that descrambles and one that could, two weights, both request
  modes.

Symmetry is used in `parts` (nodes, blocks and CWs; the two iterators, which are
also the two requests for the same ECM and the two hashes) and in `answers`
(the checking threads, which are also the pids of the demuxer).  The properties there are invariants and action properties,
and no definition tells these values apart.  In `ecm_stages` the two
requests of *timers* are alike, in `ecm_shared` the two clients (`Swap`).

Deadlock is checked except in `work`, where all jobs handled and all threads ended
is the end, and in `parts`, where all threads may have left the lock for good, all
blocks be in the garbage and the clock at its bound.  `EcmRequest` names its rest
states in `Quiescent`.

Fairness.  `EcmRequest!Fairness`: work threads of clients and readers run, time
passes, and `cw_process` posts the client timeout of a request it finds due in
its list, as its loop does on every round.  Servers, peers, pushes, disconnects,
the other timers and `chkcache_process` are under no obligation.
`WorkQueue!FairSpec`: threads run on.  Both are weak fairness of scheduled
threads.

### Where code and comments disagree

Six runs show a behaviour that contradicts a statement of the repository.

* `ecm_pending_given_up`: an answer with a wrong CW checksum, passed on to a
  request pending on it, is taken for a bad *ECM* there (`E_NOTFOUND` with
  `E2_WRONG_CHKSUM`); the request deactivates all its readers and goes to stage 5,
  although the comment in `distribute_ea` passes on "not found" so that it can
  still ask others.
* `lock_two_readers`: the first of two readers to unlock signals a waiting
  writer, which goes in beside the second reader.
* `work_job_lost`: `thread_active` is reset a second time outside of the lock; a
  thread started in between loses its job.
* `casc_wrong_cw`: a slot that shares another one's ECM sends no message but is
  numbered as if it did; the next message, for another ECM, gets the same number,
  and its answer goes to the first slot with it.
* `card_not_reset`: the reset after `resetcycle` ECMs is added to the queue of the
  client that asked for the ECM, where jobs for readers are thrown away; the card
  stays in `CARD_NEED_INIT`.
* `cccam_waiting`: a request that was marked as waiting because cards were still
  arriving is never marked as unsent again, and times out.

Four more were met on the way.  Of the requests that wait for a CCcam server the
youngest goes first (`module-cccam.c`, line 1138; the model does so), where the
comment in the line before says the one with the lowest time.  And requests that are
listed while `cw_process` changes from the read lock to the write lock may be freed
at once, where line 348 of `ncam-ecm.c` says that they stay in the cache for the
client timeout and two seconds (see `CwProcess`).  `dvbapi_send_dcw` drops an answer to
another ECM than the one asked for last only if it is a refusal (`status == 1 &&
er->rc`, line 7759 of `module-dvbapi.c`): a late CW is taken.  And a CW that a
cache-exchange reader delivered first is sent as `E_CACHEEX`, without the comparison that
`ncam.conf.txt` (line 209) promises for `double_check`.

## Proofs

All theorems hold for every value of the constants that meets the modules'
assumptions: any number of threads, readers, requests, cards and entries.  The
strengthened invariants of the CW cycle check, the lists and the garbage were checked by TLC on
the instances of the runs (for the garbage with four blocks, 1.2 million states)
before they were proved.

A request and its answers.

* `EcmRequestProofs!AnsweredOnceAlways`: `AnsweredOnce`.  The invariant `IInv`
  strengthens it: a work thread that is inside a handler of q, or a client that
  has not called `get_cw`, has an unanswered request, and an answered one has an
  `rc` below `E_UNHANDLED`.  Without the first part a handler that tested `rc` in
  an earlier step could send a second time.  `SendDcwOnce` and the lemmas after it
  reduce each handler to "sends at most one answer, to an unanswered request".
* `EcmRequestProofs!PendingServedAlways`, `ForwardedOnceAlways`: both follow from
  where a request is that has been passed to a reader (`Places1`): in the job list of
  the reader, once, or at its server, but not both (`JobOnce`); or it was given to the
  reader and will not be sent any more, as are those that wait in a pending list
  (`Waits1`, `Joined`); and what the reader's answer says agrees with the flags of the
  request (`Marks`), also for the calls that are still to write one (`Calls`).
* `EcmRequestProofs!AskedOnceAlways`: `AskedOnce`.  To `Places1` it adds that a request
  is on one pending list, once, and on none while its reader still has it in hand to
  join it to another one (`Held`): the request `reader_get_ecm` takes up is not marked
  as pending, hence is on no list, and joining moves it from the hand to one list.  The
  run has one reader; that a request goes through its stages and still asks each reader
  once is in the theorem, with any readers and any stages.
* `EcmRequestProofs!StagesInTurnAlways`, `RefusedOnlyExhaustedAlways`: both from `TInv`.
  The flags of a request's answers agree with the kinds of its readers, and what
  was asked is active until a bad ECM (`Flagged`); up to each stage all its connected
  readers have been asked (`Staged`), in the handlers that advance the stage as well
  as in those that have read it and not acted yet (`Placed`, which also says what the
  scan of the answers has seen and what follows from it); and a fallback job is posted
  after the fallback timeout only (`FbJobs`).  Proving it showed an exception that the
  small instances do not have: of the cache-exchange readers that are fallback readers,
  too, line 1358 of `ncam-ecm.c` asks those as well, but line 1545 does not wait for
  their answers before it goes on to the next stage (`AsksCacheexFirst`).
* `EcmRequestProofs!DoubleCheckedAlways`: `DoubleChecked`, from `DInv`.  A CW that is
  stored for the double check, or is on its way there in a job or a handler, was
  delivered by its reader (`Delivered`), and what `send_dcw` counts are different readers
  (`Counted`); it needs that an answer that was found stays so (`CodeKept`).  The
  configuration's documentation (`ncam.conf.txt`, line 209) says that the CWs of two readers
  are verified against each other; one that came by cache exchange is sent without
  that, which the property says as well (`E_CACHEEX`).
* `EcmRequestProofs!TypeOKAlways`: the types of `EcmRequest`.
* `EcmRequestProofs!PromiseKeptSafely`: the initial state of `EcmRequest` is one of
  `EcmPromise`, and every step a step of it or a stutter.  Needed for that: a job in
  a client's queue names only a CW that a reader or a peer has supplied (`JobsDue`).
  The liveness of the promise stays with the run `ecm_promise`.
* `CwProcessProofs!OnTimeAlways`: `OnTime`.  A listed request either was seen by the
  round that computed the sleep, which then ends by its next timeout, or was listed
  since, within a second; in the second case its wakeup is counted until the next
  round begins, and a wakeup that was signalled in time keeps `cw_process` from
  sleeping (`Seen`, `Fresh`).  That the request to cut at is on the list
  (`CutInList`) is needed because the cut might leave anything otherwise.
* `CwProcessProofs!StaysListedAlways`: `StaysListed`, if `get_cw` lists a request at most
  half a second after it was made (`2 * MaxDelay <= PerSecond`).  The list is in the order
  of listing (`Aged`), and `prv` stands directly before the request that was found too
  old, whatever came in front since (`CutAt`); so what is cut off was listed before that
  one or after the search.  The search rounds the client timeout to seconds, by half a
  second at most, and asks for more than three seconds on top; what this leaves over the
  two seconds of the comment is the margin for the delay (`OldEnough`).

Threads and locks.

* `RwLockProofs!ReleasedAlways`: the counters never exceed the threads present,
  with or without timeouts, so that they are zero when all are out.
* `RwLockProofs!NoLostWakeupAlways`: until a wait has timed out the counters are
  exactly the threads present in each mode, and if anybody waits somebody is inside
  or on the way in.
* `RwLockProofs!ExcludesUntilReadersMeet`: until a wait has timed out or two readers
  have met, every step of the lock is a step of `Exclusion` or a stutter.  The
  invariant is that at most one thread is inside or woken.
* `WorkQueueProofs!OneRunnerAlways`: unless threads overlapped, a client that is not
  killed has at most one thread, and `thread_active` tells so; after the kill no
  thread passes the kill test, so the one that was past it stays alone.
* `WorkQueueProofs!NoJobLostAlways`: the same invariant, and that a polling thread
  has no job and `thread_active` implies a thread, if threads can be started.
* `WorkQueueProofs!InOrderAlways`, `TypeOKAlways`: a job is in one place (`Once`); what
  a thread was handed was added after all that has run and before all that is listed,
  and the list is in the order of `accepted` (`Order`).  This proof failed at first
  and corrected the property: when a thread cannot be started, the job is gone but
  `thread_active` is set, the next job is appended, and when `thread_active` has
  been reset the one after it is handed to a new thread, before the one in the list.
  It takes four jobs, one more than the run has; `InOrder` now excepts it
  (`NeverFailed`).

Readers.

* `ReaderProofs!RightAnswerAlways`: what is on the wire under the number of a slot
  that waits, or of any slot with that number, is the slot's ECM; and numbers of two
  slots that are equal stand for the same ECM.  That has to hold for slots that no
  longer wait as well, since their numbers still match.
* `ReaderProofs!CarriedAlways`: from the same invariant and its counterpart
  (`Reached`): for each slot that waits there is a message under way about its ECM
  whose number is that of a slot that waits, or a request for that ECM is too old.
  Without the second slot the answer would be thrown away and the first wait on.
* `ReaderProofs!OneResetWaitsAlways`, `FailsForCauseAlways`: about the whole
  queue rather than its head: a reset is in it exactly when the card needs one, at
  most once, a fast reset only for an inserted card or one that failed after it, and
  `init` only at the head of a queue that has no reset.  All of that until `spoiled`,
  which an azbox that gives up on its reset makes it as well: then the card is in
  `CARD_NEED_INIT` and no reset waits.
* `ReaderProofs!RateKeptAlways`, `RateTypeOKAlways`: until `raced`, a slot is as old as its
  service's last ECM (`Dated`), no service has two slots (`Distinct`), and the slot that
  a search found is still free, or the service's own, when it is entered (`Reserved`).
  Outside a cooldown phase the slots in use are within the limit of each (`NoneOver`), also with the
  one found (`RoomLeft`), and every service of the last `Hold` ticks has one (`Covered`).
  The hard part is a service that is known already (`FindKnownFacts`): the search moves
  its slot downwards and never releases it for a limit.
* `CccamProofs!OneAtATimeAlways`, `NotStuckAlways`: while the mode is not extended,
  `ecm_busy` says that cc_send_ecm is in its loop or the server has something to
  answer, and what the server has is one message; a connection that is down has
  nothing on the wire.
* `CccamProofs!CwForItsRequestAlways`, `SentIsHeardOfAlways`, `CccamTypeOKAlways`:
  until a flag is used again, the entry with the number of a message under way is
  about the request of the message (`Numbered`), and a request that is marked as sent
  has an entry whose message is under way, or its CW is in hand (`Heard`); no two
  entries have one number (`OneEntry`), and without extended mode all messages have
  the number 1, under which the answer is looked for (`FlagOne`).

CWs.

* `AnswerProofs!NotFooledAlways`: until `fooled`, what entries hold is right or wrong in
  both halves, and an entry in stage 3, on the list or about to be put there, holds
  halves of right CWs (`Pure`): two CWs that are wrong in both halves never agree in just
  one half, so nothing is learned from them.
* `AnswerProofs!RightOnesPassAlways`: until `broken`, an entry in stage 3 holds the
  newest right CW and its `stays` names the half that the next one keeps (`InStep`),
  and no entry has a right CW newer than that (`Fits`); one thread at a time has an
  entry in hand, and while it has, this is said of its entry instead of the one on
  the list (`Chained`).
* `AnswerProofs!StillFilteredAlways`, `BestPidAlways`, `DemuxTypeOKAlways`: from `DInv`.
  All filters have different indices, and in request mode 0 there is at most one
  (`Apart`); a refusal under way for another index is not about the pid of the filter
  that descrambles (`Aside`).  In mode 1 what has a filter has not been given up, and
  nothing that has not been given up weighs less than the pid that descrambles
  (`Weighed`); in mode 0 a pid that is done with
  has been tried (`Tried`).  Once `stranded`, only `Apart` and the types are left of it:
  the theorems, like the properties, do not cover filters that fail or bring another CHID, CA
  PMTs that list the pids anew, and answers acted on after their filter has ended.

Lists and garbage.

* `ListProofs!NobodyLockedOutAlways`: the counter of the lock is at most the number
  of threads inside and waiting, but more than those that wait (`LockInv`).  So the
  collector's second unlock may forget somebody who is inside, never somebody who
  waits; this holds also while two threads are inside.
* `ListProofs!NothingLostAlways`, `NotEarlyAlways`: until two threads are inside
  (`ListInv`), no two links lead to one entry and none back (`Shape`); the collector's
  `prev` is an entry of the list that leads to its `garbage`, or it stands at the first
  (`Stand`); so what a cut leaves and what it takes have nothing in common and are
  together what there was (`ChainCut`); and each entry of the garbage is in one of the
  two parts or has been freed once (`Fate`).  What is behind an entry is older or was
  overtaken (`Ages`).  That the first entry has none before it, except from the thread
  that is about to put its own there, is needed when the list is cut before its second
  entry.
* `ListProofs!GcTypeOKAlways`: the types, and that the counter does not exceed the
  number of threads.
* `ListProofs!LinksSoundAlways`: from the first node on no two links lead to one node
  and none back, `last` and `count` agree with that, and a node outside has been given
  to the garbage at most once (`LlShape`).  That is inductive only with what iterators
  remember: one that has seen every change stands in the list, and its `prv` is the
  node before (`LlStand`), so that `ll_iter_remove_nolock` unlinks the right node when
  it trusts `prv`; when it does not, it searches.  Nothing is said of the `prv` of
  an iterator that missed a change, which may be in the garbage.
* `ListProofs!EachOnceAlways`, `LlTypeOKAlways`: of an iteration that was not lost, what
  it has returned is not ahead of it, and what it still owes is (`Walked`).  Each
  operation of the list takes one node from what is ahead of another one or adds one
  (`Loses`, `Gains`), whoever does it.

How definitions are written for the proofs.  What is reached from a node (`ChainIn` of
`Chains`) is the least set that no link leads out of, not a recursive function: the
lemmas about chains (`ChainStep`, `ChainSame`, `ChainCut`, `ChainOrdered` and others)
need no induction then, and serve both the lists and the garbage.  A least or last element
(the first free slot, the pid looked at last) comes from the well-foundedness of strict
subsets of a finite set (`LeastOf`, `LeastNumber`), again without induction.  `EcmRequest` selects from
sequences by quantified conditions rather
than `SelectSeq`, about which the provers know nothing.

Only model-checked: `CacheKept` and the types of `CwCache`, whose merge sort is a
recursive definition: what it computes for every input is an induction over data, which
is out of the proof system's reach.  So are liveness and ENABLED: the liveness of
`PromiseKept` (its safety part is proved) and `EventuallyHandled`.  The type invariants of
the instances (`StagesTypeOK`, `PartsTypeOK`, `AnswersTypeOK`) conjoin those of the
modules, which are proved one by one except the cache's (the theorems named `*TypeOKAlways`;
`CycleTypeOKAlways` where the bounds on ages are no smaller than `Delay` and `MaxSlow`).

## Plan

Nothing that the proof system can reach among the runs' properties is left unproved.
To model next: the server sides of the proxy protocols, the statistics of the load
balancer, and the descrambling indices of the DVB API.

## Not modelled

* Wire protocols, log-ins and ciphers, card protocols, DVB hardware: bytes around
  the parts above.  The server sides of the proxy protocols call `get_cw` and
  format what `send_dcw` gives them.  gbox, radegast, camd33 and others number
  their messages each in their own way around the same table.
* The web interface and the configuration (a fifth of the code): pages, parsing and
  storing of settings.
* The load balancer: its selection is a choice in `EcmRequest`, so whatever it
  selects the properties hold; the arithmetic of its statistics, and of CW
  checksums and reader weights, is an input of the models.
* Of the DVB API what is around the ECM pids of a demuxer: descrambling indices and
  streams, EMM filters, the channel cache, the dialects of the hosts.
* EMM filters, bans and anti-cascading: single-threaded tables of counters.
* minilzo, the crypto library and the drivers of card readers are third-party code.
* In the modelled parts: what `PROJECT.json` notes for each component.
