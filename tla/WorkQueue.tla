----------------------------- MODULE WorkQueue -----------------------------
(***************************************************************************)
(* The job queue of one client or reader (ncam-work.c): add_job, called by *)
(* any thread, either appends to the joblist of a client that has a work   *)
(* thread or starts one; work_thread runs the jobs one by one and ends     *)
(* when the client is killed, or (a client without a socket) when it has   *)
(* nothing to do.                                                          *)
(*                                                                         *)
(* A section under cl->thread_lock is one step; what work_thread and       *)
(* add_job read or write outside of it is a step of its own.  The wakeup   *)
(* signal of add_job is left out: the poll it interrupts ends by itself.   *)
(***************************************************************************)
EXTENDS Naturals, Sequences, FiniteSets

CONSTANTS
  Jobs,          \* the jobs, each added once, by a thread of its own
  Workers,       \* bound: the work threads that may be started
  Sockets,       \* what the handlers leave in cl->pfd: an open socket (TRUE) or none
  MayKill,       \* the client may be killed, by others or by a job
  MayExpire,     \* a job may have waited too long (ctimeout + 1000 ms)
  StartMayFail,  \* start_thread may fail
  NoJob, Event   \* data: none; an event on the socket

ASSUME WorkAssumption ==
  /\ NoJob # Event /\ {NoJob, Event} \cap Jobs = {}
  /\ Sockets \subseteq BOOLEAN
  /\ {MayKill, MayExpire, StartMayFail} \subseteq BOOLEAN

VARIABLES
  kill, freed,    \* cl->kill; cl->kill_started, free_client has begun
  pfd,            \* cl->pfd is set, and polled
  joblist,
  thread_active,  \* 0 no thread, 1 at work, 2 in poll
  at,             \* at[w]: where thread w is
  data,           \* data[w]: what it works on
  state,          \* state[j]: what has become of job j
  accepted, ran,  \* history: the jobs in the order they were added, and run
  overlap         \* history: a thread was started while another was about to end

vars == <<kill, freed, pfd, joblist, thread_active, at, data, state, accepted, ran, overlap>>

Places == {"unused", "start", "outer", "inner", "take", "arm", "poll", "run",
           "after", "free", "end", "dead"}
States == {"new", "adding", "refused", "failed", "queued", "given", "done", "expired", "discarded"}

Goes(w, place) == at' = [at EXCEPT ![w] = place]
Becomes(j, s) == state' = [state EXCEPT ![j] = s]
Finishes(w, s) ==
  /\ data' = [data EXCEPT ![w] = NoJob]
  /\ state' = [j \in Jobs |-> IF j = data[w] THEN s ELSE state[j]]

-----------------------------------------------------------------------------
\* add_job

\* The kill flag is tested before the lock is taken.
AddJob(j) ==
  /\ state[j] = "new"
  /\ Becomes(j, IF kill THEN "refused" ELSE "adding")
  /\ UNCHANGED <<kill, freed, pfd, joblist, thread_active, at, data, accepted, ran, overlap>>

\* Mutant of AppendJob: the job is appended whether or not a thread will look at the list.
AppendJobAlways(j) ==
  /\ state[j] = "adding"
  /\ joblist' = Append(joblist, j)
  /\ accepted' = Append(accepted, j)
  /\ Becomes(j, "queued")
  /\ UNCHANGED <<kill, freed, pfd, thread_active, at, data, ran, overlap>>

\* Under thread_lock: a thread is there, the job is appended.
AppendJob(j) ==
  /\ state[j] = "adding"
  /\ ~kill /\ thread_active # 0
  /\ joblist' = Append(joblist, j)
  /\ accepted' = Append(accepted, j)
  /\ Becomes(j, "queued")
  /\ UNCHANGED <<kill, freed, pfd, thread_active, at, data, ran, overlap>>

\* Mutant of StartThread: another thread whether or not there is one.
StartAnother(j, w) ==
  /\ state[j] = "adding"
  /\ at[w] = "unused"
  /\ Goes(w, "start")
  /\ data' = [data EXCEPT ![w] = j]
  /\ accepted' = Append(accepted, j)
  /\ Becomes(j, "given")
  /\ thread_active' = 1
  /\ overlap' = (overlap \/ \E v \in Workers : at[v] = "end")
  /\ UNCHANGED <<kill, freed, pfd, joblist, ran>>

\* Else a thread is started for it, also for a client killed meanwhile.
StartThread(j, w) ==
  /\ state[j] = "adding"
  /\ kill \/ thread_active = 0
  /\ at[w] = "unused"
  /\ Goes(w, "start")
  /\ data' = [data EXCEPT ![w] = j]
  /\ accepted' = Append(accepted, j)
  /\ Becomes(j, "given")
  /\ thread_active' = 1
  /\ overlap' = (overlap \/ \E v \in Workers : at[v] = "end")
  /\ UNCHANGED <<kill, freed, pfd, joblist, ran>>

\* It cannot be started: the job is freed, but the client counts as active.
StartFails(j) ==
  /\ StartMayFail
  /\ state[j] = "adding"
  /\ kill \/ thread_active = 0
  /\ Becomes(j, "failed")
  /\ thread_active' = 1
  /\ UNCHANGED <<kill, freed, pfd, joblist, at, data, accepted, ran, overlap>>

-----------------------------------------------------------------------------
\* work_thread

Begin(w) ==
  /\ at[w] = "start"
  /\ thread_active' = 1
  /\ Goes(w, "outer")
  /\ UNCHANGED <<kill, freed, pfd, joblist, data, state, accepted, ran, overlap>>

\* The two loops, each on thread_active
Outer(w) ==
  /\ at[w] = "outer"
  /\ Goes(w, IF thread_active = 0 THEN "end" ELSE "inner")
  /\ UNCHANGED <<kill, freed, pfd, joblist, thread_active, data, state, accepted, ran, overlap>>

\* The inner loop starts with the test of the kill flag.
Inner(w) ==
  /\ at[w] = "inner"
  /\ ~(kill /\ thread_active # 0)
  /\ Goes(w, IF thread_active = 0 THEN "after" ELSE "take")
  /\ UNCHANGED <<kill, freed, pfd, joblist, thread_active, data, state, accepted, ran, overlap>>

\* The client was killed: the thread gives up its job and will free the client.
InnerKilled(w) ==
  /\ at[w] = "inner"
  /\ kill /\ thread_active # 0
  /\ thread_active' = 0
  /\ Finishes(w, "discarded")
  /\ Goes(w, "free")
  /\ UNCHANGED <<kill, freed, pfd, joblist, accepted, ran, overlap>>

\* free_client: once, whoever comes first.
FreeClient(w) ==
  /\ at[w] = "free"
  /\ freed' = TRUE
  /\ joblist' = IF freed THEN joblist ELSE <<>>
  /\ state' = [j \in Jobs |-> IF ~freed /\ state[j] = "queued" THEN "discarded" ELSE state[j]]
  /\ Goes(w, "dead")
  /\ UNCHANGED <<kill, pfd, thread_active, data, accepted, ran, overlap>>

\* Mutant of Take: the newest job first.
TakeNewest(w) ==
  /\ at[w] = "take"
  /\ data[w] # NoJob \/ joblist # <<>>
  /\ data' = [data EXCEPT ![w] = IF @ = NoJob THEN joblist[Len(joblist)] ELSE @]
  /\ joblist' = IF data[w] = NoJob THEN SubSeq(joblist, 1, Len(joblist) - 1) ELSE joblist
  /\ state' = [state EXCEPT ![data[w]'] = "given"]
  /\ Goes(w, "run")
  /\ UNCHANGED <<kill, freed, pfd, thread_active, accepted, ran, overlap>>

\* Under thread_lock: the job the thread was started with, or the oldest one of the list
Take(w) ==
  /\ at[w] = "take"
  /\ data[w] # NoJob \/ joblist # <<>>
  /\ data' = [data EXCEPT ![w] = IF @ = NoJob THEN Head(joblist) ELSE @]
  /\ joblist' = IF data[w] = NoJob THEN Tail(joblist) ELSE joblist
  /\ state' = [state EXCEPT ![data[w]'] = "given"]
  /\ Goes(w, "run")
  /\ UNCHANGED <<kill, freed, pfd, thread_active, accepted, ran, overlap>>

\* Nothing to do: poll, or leave the inner loop.
NothingToDo(w) ==
  /\ at[w] = "take"
  /\ data[w] = NoJob /\ joblist = <<>>
  /\ Goes(w, IF pfd THEN "arm" ELSE "after")
  /\ UNCHANGED <<kill, freed, pfd, joblist, thread_active, data, state, accepted, ran, overlap>>

Arm(w) ==
  /\ at[w] = "arm"
  /\ thread_active' = 2
  /\ Goes(w, "poll")
  /\ UNCHANGED <<kill, freed, pfd, joblist, data, state, accepted, ran, overlap>>

\* Mutant of PollReturns: one more user of the client, counted up from 2.
PollCounts(w) ==
  /\ at[w] = "poll"
  /\ thread_active' = thread_active + 1
  /\ \/ Goes(w, "inner") /\ UNCHANGED data
     \/ Goes(w, "run") /\ data' = [data EXCEPT ![w] = Event]
  /\ UNCHANGED <<kill, freed, pfd, joblist, state, accepted, ran, overlap>>

\* poll returns: an event on the socket, a signal, or the 3 s are over.
PollReturns(w) ==
  /\ at[w] = "poll"
  /\ thread_active' = 1
  /\ \/ Goes(w, "inner") /\ UNCHANGED data
     \/ Goes(w, "run") /\ data' = [data EXCEPT ![w] = Event]
  /\ UNCHANGED <<kill, freed, pfd, joblist, state, accepted, ran, overlap>>

\* The job is done; it may have killed its client, opened its connection or closed it.
Run(w) ==
  /\ at[w] = "run"
  /\ kill' \in {kill, kill \/ MayKill}
  /\ pfd' \in Sockets
  /\ ran' = IF data[w] = Event THEN ran ELSE Append(ran, data[w])
  /\ Finishes(w, "done")
  /\ Goes(w, "inner")
  /\ UNCHANGED <<freed, joblist, thread_active, accepted, overlap>>

\* The handler disconnects its own client (cs_disconnect_client, cs_exit): the client is
\* freed with its job and its list, and the thread ends.
RunExits(w) ==
  /\ MayKill
  /\ at[w] = "run"
  /\ kill' = TRUE /\ freed' = TRUE
  /\ joblist' = IF freed THEN joblist ELSE <<>>
  /\ data' = [data EXCEPT ![w] = NoJob]
  /\ state' = [j \in Jobs |-> IF ~freed /\ (state[j] = "queued" \/ j = data[w])
                              THEN "discarded" ELSE state[j]]
  /\ Goes(w, "dead")
  /\ UNCHANGED <<pfd, thread_active, accepted, ran, overlap>>

\* It is too old and dropped.
Expire(w) ==
  /\ MayExpire
  /\ at[w] = "run"
  /\ data[w] # Event
  /\ Finishes(w, "expired")
  /\ Goes(w, "inner")
  /\ UNCHANGED <<kill, freed, pfd, joblist, thread_active, accepted, ran, overlap>>

\* The check for a job added while the thread was ending, under thread_lock
After(w) ==
  /\ at[w] = "after"
  /\ thread_active' = IF joblist = <<>> THEN 0 ELSE thread_active
  /\ Goes(w, IF joblist = <<>> THEN "end" ELSE "outer")
  /\ UNCHANGED <<kill, freed, pfd, joblist, data, state, accepted, ran, overlap>>

\* thread_active is reset once more, outside of the lock.
End(w) ==
  /\ at[w] = "end"
  /\ thread_active' = 0
  /\ Goes(w, "dead")
  /\ UNCHANGED <<kill, freed, pfd, joblist, data, state, accepted, ran, overlap>>

-----------------------------------------------------------------------------
\* kill_thread and the other places outside of work_thread that set the flag
Kill ==
  /\ MayKill
  /\ ~kill
  /\ kill' = TRUE
  /\ UNCHANGED <<freed, pfd, joblist, thread_active, at, data, state, accepted, ran, overlap>>

Init ==
  /\ kill = FALSE /\ freed = FALSE
  /\ pfd \in Sockets
  /\ joblist = <<>>
  /\ thread_active = 0
  /\ at = [w \in Workers |-> "unused"]
  /\ data = [w \in Workers |-> NoJob]
  /\ state = [j \in Jobs |-> "new"]
  /\ accepted = <<>> /\ ran = <<>>
  /\ overlap = FALSE

Adding(j) ==
  AddJob(j) \/ AppendJob(j) \/ StartFails(j) \/ \E w \in Workers : StartThread(j, w)

Working(w) ==
  \/ Begin(w) \/ Outer(w) \/ Inner(w) \/ InnerKilled(w) \/ FreeClient(w) \/ Take(w)
  \/ NothingToDo(w) \/ Arm(w) \/ PollReturns(w) \/ Run(w) \/ RunExits(w) \/ Expire(w)
  \/ After(w) \/ End(w)

Next == (\E j \in Jobs : Adding(j)) \/ (\E w \in Workers : Working(w)) \/ Kill

Spec == Init /\ [][Next]_vars

\* Callers of add_job and work threads run on: each is a thread of the system's scheduler.
FairSpec ==
  /\ Spec
  /\ \A j \in Jobs : WF_vars(Adding(j))
  /\ \A w \in Workers : WF_vars(Working(w))

-----------------------------------------------------------------------------
\* Type invariant of the client's queue, its threads and its jobs.
TypeOK ==
  /\ kill \in BOOLEAN /\ freed \in BOOLEAN /\ pfd \in BOOLEAN /\ overlap \in BOOLEAN
  /\ joblist \in Seq(Jobs)
  /\ thread_active \in 0 .. 2
  /\ at \in [Workers -> Places]
  /\ data \in [Workers -> Jobs \cup {NoJob, Event}]
  /\ state \in [Jobs -> States]
  /\ accepted \in Seq(Jobs) /\ ran \in Seq(Jobs)

\* Handlers of one client never run side by side (what the request handling of ncam-ecm.c
\* relies on): also around a kill, one work thread at most is in a job, unless a thread
\* was started while another was about to end.
OneRunner ==
  ~overlap => \A v, w \in Workers : at[v] = "run" /\ at[w] = "run" => v = w

NeverFailed == \A j \in Jobs : state[j] # "failed"

\* No job is run twice, however many threads take from the list; and with the same exception
\* the jobs of a client run in the order in which they were added, though the first one is
\* handed over another way than the rest.  A thread that could not be started is an
\* exception, too: the client counts as active without a thread, so that the next job is
\* appended, and the one after that may be handed to a new thread and overtake it.
InOrder ==
  /\ \A i, k \in DOMAIN ran : ran[i] = ran[k] => i = k
  /\ ~overlap /\ NeverFailed => \A i, k \in DOMAIN ran : i < k =>
       \E m, n \in DOMAIN accepted : m < n /\ accepted[m] = ran[i] /\ accepted[n] = ran[k]

\* Until the client is killed, a job add_job has taken is not lost: the thread that has
\* it, or for one in the list some thread, is still in its loops.  (It is not so: a thread
\* that ends hides the one started meanwhile.)
Looping(w) == at[w] \notin {"unused", "end", "dead"}
JobKept ==
  ~kill => \A j \in Jobs :
    /\ state[j] = "given"  => \E w \in Workers : data[w] = j /\ Looping(w)
    /\ state[j] = "queued" => \E w \in Workers : Looping(w)

\* What remains of it: no job is lost as long as threads can be started, and none is
\* started while another is about to end, also for a client without a socket, whose
\* threads come and go.
NoJobLost == NeverFailed /\ ~overlap => JobKept

\* Liveness: with the same exceptions, a job add_job was called with is run or dropped as
\* too old, unless the client is killed.
EventuallyHandled ==
  \A j \in Jobs : state[j] \in {"adding", "queued", "given"} ~>
                    kill \/ overlap \/ ~NeverFailed \/ state[j] \in {"done", "expired"}
=============================================================================
