-------------------------- MODULE WorkQueueProofs --------------------------
(***************************************************************************)
(* Proofs about the job queue of a client: its handlers never run side by  *)
(* side, and until it is killed it loses no job, as long as no thread is   *)
(* started while another is about to end.                                  *)
(*                                                                         *)
(* While the client is not killed it has one thread or none, and           *)
(* thread_active says which, except for a thread at its last statement.    *)
(* Once it is killed the threads that add_job still starts do not get past *)
(* the kill test of the inner loop, so that the thread that was past it    *)
(* remains the only one.                                                   *)
(*                                                                         *)
(* The order of the jobs: what a thread was handed comes after all that    *)
(* has run and before all that is listed, since a thread is started only   *)
(* when the list is empty; unless one could not be started (Order).        *)
(***************************************************************************)
EXTENDS WorkQueue, TLAPS

Alive(w) == at[w] \notin {"unused", "dead"}
Busy(w) == at[w] \in {"take", "arm", "poll", "run"}

Shape ==
  /\ at \in [Workers -> Places]
  /\ kill \in BOOLEAN

OneBusy == ~overlap => \A v, w \in Workers : Busy(v) /\ Busy(w) => v = w

\* Of a client that is not killed: its thread is the only one, and known as active until
\* its last statement.
OneThread ==
  ~kill /\ ~overlap =>
    /\ \A w \in Workers : at[w] # "free"
    /\ \A w \in Workers : Alive(w) /\ at[w] # "end" => thread_active # 0
    /\ \A v, w \in Workers : Alive(v) /\ Alive(w) => v = w

Single == Shape /\ OneBusy /\ OneThread

USE DEF Goes, Becomes, Finishes

LEMMA SingleInit == Init => Single
BY DEF Init, Single, Shape, OneBusy, OneThread, Alive, Busy, Places

\* The invariant holds over a step of add_job.
LEMMA SingleAdding ==
  ASSUME Single, NEW j \in Jobs, Adding(j)
  PROVE  Single'
<1>1. CASE AddJob(j)
  BY <1>1 DEF AddJob, Single, Shape, OneBusy, OneThread, Alive, Busy
<1>2. CASE AppendJob(j)
  BY <1>2 DEF AppendJob, Single, Shape, OneBusy, OneThread, Alive, Busy
<1>3. CASE StartFails(j)
  BY <1>3 DEF StartFails, Single, Shape, OneBusy, OneThread, Alive, Busy
<1>4. CASE \E w \in Workers : StartThread(j, w)
  <2>1. PICK w \in Workers : StartThread(j, w)
    BY <1>4
  <2>2. Shape' /\ OneBusy'
    BY <2>1 DEF StartThread, Single, Shape, OneBusy, Busy, Places
  <2>3. OneThread'
    <3> SUFFICES ASSUME ~kill', ~overlap' PROVE OneThread'
      BY DEF OneThread
    <3>1. ~overlap /\ \A v \in Workers : at[v] # "end"
      BY <2>1, Zenon DEF StartThread
    <3>2. \A v \in Workers : ~Alive(v)
      BY <2>1, <3>1 DEF StartThread, Single, OneThread, Alive
    <3> QED BY <2>1, <3>2 DEF StartThread, Single, Shape, OneThread, Alive
  <2> QED
    BY <2>2, <2>3 DEF Single
<1> QED
  BY <1>1, <1>2, <1>3, <1>4 DEF Adding

\* The invariant holds over a step of a work thread.
LEMMA SingleWorking ==
  ASSUME Single, NEW w \in Workers, Working(w)
  PROVE  Single'
<1> USE DEF Single, Shape, OneBusy, OneThread, Alive, Busy, Places
<1>1. CASE Begin(w)
  BY <1>1 DEF Begin
<1>2. CASE Outer(w)
  BY <1>2 DEF Outer
<1>3. CASE Inner(w)
  BY <1>3 DEF Inner
<1>4. CASE InnerKilled(w)
  BY <1>4 DEF InnerKilled
<1>5. CASE FreeClient(w)
  BY <1>5 DEF FreeClient
<1>6. CASE Take(w)
  BY <1>6 DEF Take
<1>7. CASE NothingToDo(w)
  BY <1>7 DEF NothingToDo
<1>8. CASE Arm(w)
  BY <1>8 DEF Arm
<1>9. CASE PollReturns(w)
  BY <1>9 DEF PollReturns
<1>10. CASE Run(w)
  <2>1. kill' \in BOOLEAN /\ (kill => kill')
    BY <1>10, Zenon DEF Run
  <2> QED
    BY <1>10, <2>1 DEF Run
<1>11. CASE Expire(w)
  BY <1>11 DEF Expire
<1>12. CASE After(w)
  BY <1>12 DEF After
<1>13. CASE End(w)
  BY <1>13 DEF End
<1>14. CASE RunExits(w)
  BY <1>14 DEF RunExits
<1> QED
  BY <1>1, <1>2, <1>3, <1>4, <1>5, <1>6, <1>7, <1>8, <1>9, <1>10, <1>11, <1>12, <1>13,
     <1>14
  DEF Working

LEMMA SingleNext ==
  ASSUME Single, [Next]_vars
  PROVE  Single'
<1>1. CASE \E j \in Jobs : Adding(j)
  BY <1>1, SingleAdding
<1>2. CASE \E w \in Workers : Working(w)
  BY <1>2, SingleWorking
<1>3. CASE Kill
  BY <1>3 DEF Kill, Single, Shape, OneBusy, OneThread, Busy
<1>4. CASE UNCHANGED vars
  BY <1>4 DEF vars, Single, Shape, OneBusy, OneThread, Alive, Busy
<1> QED
  BY <1>1, <1>2, <1>3, <1>4 DEF Next

\* The handlers of a client never run side by side (work_thread's kill test and add_job's
\* test of thread_active) as long as no thread is started while another is about to end,
\* for any number of jobs and threads.
THEOREM OneRunnerAlways == Spec => []OneRunner
<1>1. Single /\ [Next]_vars => Single'
  BY SingleNext
<1>2. Single => OneRunner
  BY DEF Single, OneBusy, Busy, OneRunner
<1> QED
  BY SingleInit, <1>1, <1>2, PTL DEF Spec

-----------------------------------------------------------------------------
\* What NoJobLost rests on: a thread that polls has no job, and thread_active tells of a
\* thread only if there is one.
Types ==
  /\ data \in [Workers -> Jobs \cup {NoJob, Event}]
  /\ state \in [Jobs -> States]
  /\ joblist \in Seq(Jobs)

\* Jobs that threads and the list hold have been taken by add_job.
TakenStates == {"queued", "given", "done", "expired", "discarded"}
Owned ==
  /\ \A w \in Workers : data[w] \in Jobs => state[data[w]] \in TakenStates
  /\ \A k \in DOMAIN joblist : state[joblist[k]] \in TakenStates

\* What is queued is in the list.
Listed == \A j \in Jobs : state[j] = "queued" => \E k \in DOMAIN joblist : joblist[k] = j

IdlePolls == \A w \in Workers : at[w] \in {"arm", "poll"} => data[w] = NoJob

Calm == ~kill /\ NeverFailed /\ ~overlap

HasThread == thread_active # 0 => \E w \in Workers : Looping(w)

AfterIdle == \A w \in Workers : at[w] = "after" => data[w] = NoJob

Given == \A j \in Jobs : state[j] = "given" => \E w \in Workers : data[w] = j /\ Looping(w)
Queued == \A j \in Jobs : state[j] = "queued" => \E w \in Workers : Looping(w)

Kept == Single /\ Types /\ Owned /\ Listed /\ IdlePolls /\ (Calm => HasThread /\ AfterIdle /\ Given /\ Queued)

LEMMA KeptInit == Init => Kept
<1> SUFFICES ASSUME Init PROVE Kept
  OBVIOUS
<1>1. Single
  BY SingleInit
<1>2. Types /\ Owned /\ Listed /\ IdlePolls /\ HasThread /\ AfterIdle /\ Given /\ Queued
  BY WorkAssumption DEF Init, Types, Owned, Listed, AfterIdle, IdlePolls, HasThread, Given, Queued, States
<1> QED
  BY <1>1, <1>2 DEF Kept

\* The types and the owners of jobs over a step of add_job.
LEMMA OwnedAdding ==
  ASSUME Types, Owned, NEW j \in Jobs, Adding(j)
  PROVE  Types' /\ Owned'
<1> USE DEF Types, Owned, TakenStates, States
<1>1. CASE AddJob(j)
  BY <1>1 DEF AddJob
<1>2. CASE AppendJob(j)
  BY <1>2 DEF AppendJob
<1>3. CASE StartFails(j)
  BY <1>3 DEF StartFails
<1>4. CASE \E w \in Workers : StartThread(j, w)
  BY <1>4 DEF StartThread
<1> QED
  BY <1>1, <1>2, <1>3, <1>4 DEF Adding

\* The job a thread takes and the list it leaves.
LEMMA TakesOwned ==
  ASSUME Types, Owned, NEW w \in Workers, Take(w)
  PROVE  /\ data'[w] \in Jobs \cup {Event}
         /\ data'[w] \in Jobs => state[data'[w]] \in TakenStates
         /\ data' = [data EXCEPT ![w] = data'[w]]
         /\ joblist' \in Seq(Jobs)
         /\ \A k \in DOMAIN joblist' : state[joblist'[k]] \in TakenStates
<1>1. CASE data[w] = NoJob
  <2>1. joblist # <<>> /\ data'[w] = Head(joblist) /\ joblist' = Tail(joblist)
    BY <1>1 DEF Take, Types
  <2>2. Head(joblist) \in Jobs /\ Head(joblist) = joblist[1] /\ 1 \in DOMAIN joblist
    BY <2>1 DEF Types
  <2>3. Tail(joblist) \in Seq(Jobs) /\ \A k \in DOMAIN Tail(joblist) :
          k + 1 \in DOMAIN joblist /\ Tail(joblist)[k] = joblist[k + 1]
    BY <2>1 DEF Types
  <2>4. data' = [data EXCEPT ![w] = Head(joblist)]
    BY <1>1 DEF Take
  <2> QED BY <2>1, <2>2, <2>3, <2>4 DEF Owned, Types
<1>2. CASE data[w] # NoJob
  BY <1>2 DEF Take, Types, Owned
<1> QED BY <1>1, <1>2

\* The same over a step of a work thread.
LEMMA OwnedWorking ==
  ASSUME Types, Owned, NEW w \in Workers, Working(w)
  PROVE  Types' /\ Owned'
<1> USE WorkAssumption DEF Types, Owned, TakenStates, States
<1>1. CASE Take(w)
  <2> DEFINE d == data'[w]
  <2>1. /\ d \in Jobs \cup {Event}
        /\ data' = [data EXCEPT ![w] = d]
        /\ joblist' \in Seq(Jobs)
        /\ \A k \in DOMAIN joblist' : state[joblist'[k]] \in TakenStates
    BY <1>1, TakesOwned
  <2>2. state' = [state EXCEPT ![d] = "given"]
    BY <1>1 DEF Take
  <2> HIDE DEF d
  <2>3. Types'
    BY <2>1, <2>2
  <2>4. \A k \in DOMAIN joblist' : state'[joblist'[k]] \in TakenStates
    <3> SUFFICES ASSUME NEW k \in DOMAIN joblist' PROVE state'[joblist'[k]] \in TakenStates
      OBVIOUS
    <3>1. joblist'[k] \in Jobs /\ state[joblist'[k]] \in TakenStates
      BY <2>1
    <3> QED BY <2>2, <3>1
  <2>5. \A v \in Workers : data'[v] \in Jobs => state'[data'[v]] \in TakenStates
    BY <2>1, <2>2
  <2> QED BY <2>3, <2>4, <2>5
<1>2. CASE Begin(w) \/ Outer(w) \/ Inner(w) \/ NothingToDo(w) \/ Arm(w) \/ After(w) \/ End(w)
  BY <1>2 DEF Begin, Outer, Inner, NothingToDo, Arm, After, End
<1>3. CASE InnerKilled(w)
  BY <1>3 DEF InnerKilled
<1>4. CASE FreeClient(w)
  BY <1>4 DEF FreeClient
<1>5. CASE PollReturns(w)
  BY <1>5 DEF PollReturns
<1>6. CASE Run(w)
  BY <1>6 DEF Run
<1>7. CASE RunExits(w)
  BY <1>7 DEF RunExits
<1>8. CASE Expire(w)
  BY <1>8 DEF Expire
<1> QED
  BY <1>1, <1>2, <1>3, <1>4, <1>5, <1>6, <1>7, <1>8 DEF Working

\* What excuses a lost job is not forgotten.
LEMMA CalmBefore ==
  ASSUME Types, Owned, [Next]_vars, Calm'
  PROVE  Calm
<1>1. ~kill
  <2> SUFFICES ASSUME kill PROVE kill'
    BY DEF Calm
  <2> QED
    BY Zenon DEF Next, Adding, Working, AddJob, AppendJob, StartThread, StartFails, Begin,
       Outer, Inner, InnerKilled, FreeClient, Take, NothingToDo, Arm, PollReturns, Run,
       RunExits, Expire, After, End, Kill, vars
<1>2. ~overlap
  <2> SUFFICES ASSUME overlap PROVE overlap'
    BY DEF Calm
  <2> QED
    BY Zenon DEF Next, Adding, Working, AddJob, AppendJob, StartThread, StartFails, Begin,
       Outer, Inner, InnerKilled, FreeClient, Take, NothingToDo, Arm, PollReturns, Run,
       RunExits, Expire, After, End, Kill, vars
<1>3. NeverFailed
  <2> SUFFICES ASSUME NEW j \in Jobs, state[j] = "failed" PROVE state'[j] = "failed"
    BY DEF Calm, NeverFailed
  <2>1. CASE \E i \in Jobs : Adding(i)
    BY <2>1 DEF Types, Adding, AddJob, AppendJob, StartThread, StartFails
  <2>2. CASE \E w \in Workers : Working(w)
    <3>0. PICK w \in Workers : Working(w)
      BY <2>2
    <3> USE DEF Types, Owned, TakenStates
    <3>1. CASE Take(w)
      BY <3>1, TakesOwned DEF Take
    <3> QED
      BY <3>0, <3>1 DEF Working, Begin, Outer, Inner, InnerKilled, FreeClient, NothingToDo,
         Arm, PollReturns, Run, RunExits, Expire, After, End
  <2> QED
    BY <2>1, <2>2 DEF Next, Kill, vars
<1> QED
  BY <1>1, <1>2, <1>3 DEF Calm

\* The last conjuncts of Kept over a step of add_job.
LEMMA KeptAdding ==
  ASSUME Kept, Calm, Calm', NEW j \in Jobs, Adding(j)
  PROVE  (HasThread /\ AfterIdle /\ Given /\ Queued)'
<1> USE DEF Kept, Calm, Single, Shape, Types, HasThread, AfterIdle, Given, Queued, Looping,
            Places, States
<1>1. CASE AddJob(j)
  BY <1>1 DEF AddJob
<1>2. CASE AppendJob(j)
  BY <1>2 DEF AppendJob
<1>3. CASE StartFails(j)
  BY <1>3 DEF StartFails, NeverFailed
<1>4. CASE \E w \in Workers : StartThread(j, w)
  <2>1. PICK w \in Workers : StartThread(j, w)
    BY <1>4
  <2>2. /\ at' = [at EXCEPT ![w] = "start"]
        /\ data' = [data EXCEPT ![w] = j]
        /\ state' = [state EXCEPT ![j] = "given"]
        /\ at[w] = "unused"
    BY <2>1 DEF StartThread
  <2> QED BY <2>2
<1> QED
  BY <1>1, <1>2, <1>3, <1>4 DEF Adding

\* The last conjuncts of Kept over a step of a work thread.
LEMMA KeptWorking ==
  ASSUME Kept, Calm, Calm', NEW w \in Workers, Working(w)
  PROVE  (HasThread /\ AfterIdle /\ Given /\ Queued)'
<1> USE WorkAssumption
    DEF Kept, Calm, Single, Shape, OneThread, Types, IdlePolls, HasThread, AfterIdle, Given,
        Queued, Listed, Alive, Looping, Places, States
<1>1. CASE Begin(w)
  BY <1>1 DEF Begin
<1>2. CASE Outer(w)
  BY <1>2 DEF Outer
<1>3. CASE Inner(w)
  BY <1>3 DEF Inner
<1>4. CASE InnerKilled(w)
  BY <1>4 DEF InnerKilled
<1>5. CASE FreeClient(w)
  BY <1>5 DEF FreeClient
<1>6. CASE Take(w)
  <2> DEFINE d == data'[w]
  <2>1. /\ at[w] = "take" /\ at' = [at EXCEPT ![w] = "run"]
        /\ state' = [state EXCEPT ![d] = "given"]
        /\ data[w] # NoJob => d = data[w]
        /\ UNCHANGED thread_active
    BY <1>6 DEF Take
  <2>2. data' = [data EXCEPT ![w] = d]
    BY <1>6, TakesOwned
  <2> HIDE DEF d
  <2>3. Looping(w)' /\ HasThread' /\ AfterIdle' /\ Queued'
    BY <2>1
  <2>4. ASSUME NEW i \in Jobs, state'[i] = "given"
        PROVE  \E v \in Workers : data'[v] = i /\ Looping(v)'
    <3>1. CASE i = d
      BY <2>2, <2>3, <3>1
    <3>2. CASE i # d
      <4>1. PICK v \in Workers : data[v] = i /\ Looping(v)
        BY <2>1, <2>4, <3>2
      <4>2. v # w
        BY <2>1, <3>2, <4>1
      <4> QED
        BY <2>1, <2>2, <4>1, <4>2
    <3> QED
      BY <3>1, <3>2
  <2> QED
    BY <2>3, <2>4
<1>7. CASE NothingToDo(w)
  BY <1>7 DEF NothingToDo
<1>8. CASE Arm(w)
  BY <1>8 DEF Arm
<1>9. CASE PollReturns(w)
  BY <1>9 DEF PollReturns
<1>10. CASE Run(w)
  BY <1>10 DEF Run
<1>11. CASE Expire(w)
  BY <1>11 DEF Expire
<1>12. CASE After(w)
  BY <1>12 DEF After
<1>13. CASE End(w)
  BY <1>13 DEF End
<1>14. CASE RunExits(w)
  BY <1>14 DEF RunExits
<1> QED
  BY <1>1, <1>2, <1>3, <1>4, <1>5, <1>6, <1>7, <1>8, <1>9, <1>10, <1>11, <1>12, <1>13,
     <1>14
  DEF Working

\* A thread that polls has no job, whatever the history.
LEMMA IdleNext ==
  ASSUME Types, Shape, IdlePolls, [Next]_vars
  PROVE  IdlePolls'
<1> USE WorkAssumption DEF Types, Shape, IdlePolls, Places
<1>1. CASE \E j \in Jobs : Adding(j)
  BY <1>1 DEF Adding, AddJob, AppendJob, StartThread, StartFails
<1>2. CASE \E w \in Workers : Working(w)
  BY <1>2 DEF Working, Begin, Outer, Inner, InnerKilled, FreeClient, Take, NothingToDo, Arm,
     PollReturns, Run, RunExits, Expire, After, End
<1> QED
  BY <1>1, <1>2 DEF Next, Kill, vars

\* What is queued stays in the list until it is taken.
LEMMA ListedNext ==
  ASSUME Types, Owned, Listed, [Next]_vars
  PROVE  Listed'
<1> USE DEF Types, Listed, States
<1>1. CASE \E j \in Jobs : Adding(j)
  <2>1. PICK j \in Jobs : Adding(j)
    BY <1>1
  <2>2. CASE AppendJob(j)
    <3>1. /\ joblist' = Append(joblist, j)
          /\ state' = [state EXCEPT ![j] = "queued"]
      BY <2>2 DEF AppendJob
    <3>2. \A k \in DOMAIN joblist : k \in DOMAIN joblist' /\ joblist'[k] = joblist[k]
      BY <3>1
    <3>3. Len(joblist) + 1 \in DOMAIN joblist' /\ joblist'[Len(joblist) + 1] = j
      BY <3>1
    <3> QED BY <3>1, <3>2, <3>3
  <2>3. CASE ~AppendJob(j)
    BY <2>1, <2>3 DEF Adding, AddJob, StartThread, StartFails
  <2> QED BY <2>2, <2>3
<1>2. CASE \E w \in Workers : Working(w)
  <2>1. PICK w \in Workers : Working(w)
    BY <1>2
  <2>2. CASE Take(w)
    <3>1. CASE data[w] = NoJob
      <4>1. /\ joblist # <<>> /\ joblist' = Tail(joblist)
            /\ state' = [state EXCEPT ![Head(joblist)] = "given"]
        BY <2>2, <3>1 DEF Take
      <4>2. Head(joblist) = joblist[1] /\ Head(joblist) \in Jobs
        BY <4>1
      <4> SUFFICES ASSUME NEW j \in Jobs, state'[j] = "queued"
                   PROVE  \E k \in DOMAIN joblist' : joblist'[k] = j
        OBVIOUS
      <4>3. state[j] = "queued" /\ j # Head(joblist)
        BY <4>1, <4>2
      <4>4. PICK k \in DOMAIN joblist : joblist[k] = j
        BY <4>3
      <4>5. k \in 2 .. Len(joblist)
        BY <4>2, <4>3, <4>4
      <4>6. k - 1 \in DOMAIN Tail(joblist) /\ Tail(joblist)[k - 1] = joblist[k]
        BY <4>5
      <4> QED BY <4>1, <4>4, <4>6
    <3>2. CASE data[w] # NoJob
      BY <2>2, <3>2 DEF Take
    <3> QED BY <3>1, <3>2
  <2>3. CASE ~Take(w)
    BY <2>1, <2>3 DEF Working, Begin, Outer, Inner, InnerKilled, FreeClient, NothingToDo, Arm,
       PollReturns, Run, RunExits, Expire, After, End
  <2> QED BY <2>2, <2>3
<1> QED
  BY <1>1, <1>2 DEF Next, Kill, vars

LEMMA KeptNext ==
  ASSUME Kept, [Next]_vars
  PROVE  Kept'
<1>1. Single' /\ IdlePolls' /\ Listed'
  BY SingleNext, IdleNext, ListedNext DEF Kept, Single
<1>2. Types' /\ Owned'
  <2>1. CASE \E j \in Jobs : Adding(j)
    BY <2>1, OwnedAdding DEF Kept
  <2>2. CASE \E w \in Workers : Working(w)
    BY <2>2, OwnedWorking DEF Kept
  <2> QED
    BY <2>1, <2>2 DEF Next, Kill, vars, Kept, Types, Owned
<1>3. ASSUME Calm' PROVE (HasThread /\ AfterIdle /\ Given /\ Queued)'
  <2>1. Calm
    BY <1>3, CalmBefore DEF Kept
  <2>2. CASE \E j \in Jobs : Adding(j)
    BY <1>3, <2>1, <2>2, KeptAdding
  <2>3. CASE \E w \in Workers : Working(w)
    BY <1>3, <2>1, <2>3, KeptWorking
  <2>4. CASE Kill
    BY <1>3, <2>4 DEF Kill, Calm
  <2>5. CASE UNCHANGED vars
    BY <2>1, <2>5 DEF vars, Kept, HasThread, AfterIdle, Given, Queued, Looping
  <2> QED
    BY <2>2, <2>3, <2>4, <2>5 DEF Next
<1> QED
  BY <1>1, <1>2, <1>3 DEF Kept

\* Until it is killed, a client loses no job add_job has taken (add_job's append,
\* work_thread's loops), as long as every thread it needs can be started and none is
\* started while another is about to end.
THEOREM NoJobLostAlways == Spec => []NoJobLost
<1>1. Kept /\ [Next]_vars => Kept'
  BY KeptNext
<1>2. Kept => NoJobLost
  BY DEF Kept, Calm, Given, Queued, NoJobLost, JobKept
<1> QED
  BY KeptInit, <1>1, <1>2, PTL DEF Spec
-----------------------------------------------------------------------------
\* Types

Flags ==
  /\ freed \in BOOLEAN /\ pfd \in BOOLEAN /\ overlap \in BOOLEAN
  /\ thread_active \in 0 .. 2
  /\ accepted \in Seq(Jobs) /\ ran \in Seq(Jobs)

\* A job that is run or waits has one place: a thread that was given it, the list, or what
\* has been run; and it has been added.  A thread in a handler has something to handle.
HasWork == \A w \in Workers : at[w] = "run" => data[w] # NoJob
InHand  == \A w \in Workers : data[w] \in Jobs =>
             state[data[w]] = "given" /\ \A v \in Workers : data[v] = data[w] => v = w
Waiting == \A k \in DOMAIN joblist :
             state[joblist[k]] = "queued" /\ \A l \in DOMAIN joblist : joblist[k] = joblist[l] => k = l
HasRun  == \A i \in DOMAIN ran :
             state[ran[i]] = "done" /\ \A k \in DOMAIN ran : ran[i] = ran[k] => i = k
Added   == \A j \in Jobs : state[j] \in {"given", "queued", "done"} =>
             \E m \in DOMAIN accepted : accepted[m] = j
Once == HasWork /\ InHand /\ Waiting /\ HasRun /\ Added

LEMMA OnceInit == ASSUME Init PROVE Flags /\ Once
<1>1. /\ freed = FALSE /\ overlap = FALSE /\ pfd \in BOOLEAN /\ thread_active = 0
      /\ accepted = <<>> /\ ran = <<>> /\ joblist = <<>>
  BY WorkAssumption DEF Init
<1>2. thread_active \in 0 .. 2 /\ accepted \in Seq(Jobs) /\ ran \in Seq(Jobs)
  BY <1>1
<1>3. Flags
  BY <1>1, <1>2, Zenon DEF Flags
<1>4. Once
  BY <1>1, WorkAssumption DEF Init, Once, HasWork, InHand, Waiting, HasRun, Added
<1> QED
  BY <1>3, <1>4

LEMMA OnceAdding ==
  ASSUME Shape, Types, Flags, Once, NEW j \in Jobs, Adding(j)
  PROVE  Flags' /\ Once'
<1> USE WorkAssumption DEF Shape, Types, Flags, Once, HasWork, InHand, Waiting, HasRun, Added, States
<1>1. CASE AddJob(j)
  BY <1>1 DEF AddJob
<1>2. CASE AppendJob(j)
  <2>1. /\ joblist' = Append(joblist, j) /\ accepted' = Append(accepted, j)
        /\ state' = [state EXCEPT ![j] = "queued"] /\ state[j] = "adding"
        /\ UNCHANGED <<freed, pfd, overlap, thread_active, ran, at, data>>
    BY <1>2 DEF AppendJob
  <2>2. Flags' /\ HasWork' /\ InHand' /\ HasRun'
    BY <2>1
  <2>3. Waiting'
    BY <2>1
  <2>4. Added'
    <3>1. Len(accepted) + 1 \in DOMAIN accepted' /\ accepted'[Len(accepted) + 1] = j
      BY <2>1
    <3>2. \A m \in DOMAIN accepted : m \in DOMAIN accepted' /\ accepted'[m] = accepted[m]
      BY <2>1
    <3> QED BY <2>1, <3>1, <3>2
  <2> QED BY <2>2, <2>3, <2>4
<1>3. CASE StartFails(j)
  BY <1>3 DEF StartFails
<1>4. CASE \E w \in Workers : StartThread(j, w)
  <2>0. PICK w \in Workers : StartThread(j, w)
    BY <1>4
  <2>1. /\ accepted' = Append(accepted, j) /\ data' = [data EXCEPT ![w] = j]
        /\ at' = [at EXCEPT ![w] = "start"]
        /\ state' = [state EXCEPT ![j] = "given"] /\ state[j] = "adding"
        /\ UNCHANGED <<freed, pfd, ran, joblist>> /\ thread_active' = 1
    BY <2>0 DEF StartThread
  <2>2. overlap' \in BOOLEAN
    BY <2>0, Zenon DEF StartThread
  <2>3. Flags' /\ HasWork' /\ InHand' /\ HasRun' /\ Waiting'
    BY <2>1, <2>2
  <2>4. Added'
    <3>1. Len(accepted) + 1 \in DOMAIN accepted' /\ accepted'[Len(accepted) + 1] = j
      BY <2>1
    <3>2. \A m \in DOMAIN accepted : m \in DOMAIN accepted' /\ accepted'[m] = accepted[m]
      BY <2>1
    <3> QED BY <2>1, <3>1, <3>2
  <2> QED BY <2>3, <2>4
<1> QED
  BY <1>1, <1>2, <1>3, <1>4 DEF Adding

LEMMA OnceWorking ==
  ASSUME Shape, Types, Flags, Once, NEW w \in Workers, Working(w)
  PROVE  Flags' /\ Once'
<1> USE WorkAssumption DEF Shape, Types, Flags, Once, HasWork, InHand, Waiting, HasRun, Added, States
<1>1. CASE Begin(w) \/ Outer(w) \/ Inner(w) \/ NothingToDo(w) \/ Arm(w) \/ After(w) \/ End(w)
  BY <1>1 DEF Begin, Outer, Inner, NothingToDo, Arm, After, End
<1>2. CASE InnerKilled(w)
  BY <1>2 DEF InnerKilled
<1>3. CASE FreeClient(w)
  BY <1>3 DEF FreeClient
<1>4. CASE PollReturns(w)
  BY <1>4 DEF PollReturns
<1>5. CASE Run(w)
  <2>1. CASE data[w] = Event
    BY <1>5, <2>1 DEF Run
  <2>2. CASE data[w] # Event
    <3>1. /\ data[w] \in Jobs /\ ran' = Append(ran, data[w]) /\ data' = [data EXCEPT ![w] = NoJob]
          /\ state' = [j \in Jobs |-> IF j = data[w] THEN "done" ELSE state[j]]
          /\ at' = [at EXCEPT ![w] = "inner"] /\ pfd' \in BOOLEAN
          /\ UNCHANGED <<freed, joblist, thread_active, accepted, overlap>>
      BY <1>5, <2>2 DEF Run
    <3>2. Flags' /\ HasWork' /\ InHand' /\ Waiting' /\ Added'
      BY <3>1
    <3>3. HasRun'
      BY <3>1
    <3> QED BY <3>2, <3>3
  <2> QED BY <2>1, <2>2
<1>6. CASE RunExits(w)
  BY <1>6 DEF RunExits
<1>7. CASE Expire(w)
  BY <1>7 DEF Expire
<1>8. CASE Take(w)
  <2>1. CASE data[w] = NoJob
    <3>1. /\ joblist # <<>> /\ joblist' = Tail(joblist)
          /\ data' = [data EXCEPT ![w] = Head(joblist)] /\ at' = [at EXCEPT ![w] = "run"]
          /\ state' = [state EXCEPT ![Head(joblist)] = "given"]
          /\ UNCHANGED <<freed, pfd, thread_active, accepted, ran, overlap>>
      BY <1>8, <2>1 DEF Take
    <3>2. Head(joblist) \in Jobs /\ Head(joblist) = joblist[1] /\ 1 \in DOMAIN joblist
      BY <3>1
    <3>3. \A k \in DOMAIN Tail(joblist) : k + 1 \in DOMAIN joblist /\ k + 1 # 1
                                          /\ Tail(joblist)[k] = joblist[k + 1]
      BY <3>1
    <3>4. Flags' /\ HasWork' /\ InHand' /\ HasRun' /\ Added'
      BY <3>1, <3>2
    <3>5. Waiting'
      BY <3>1, <3>2, <3>3
    <3> QED BY <3>4, <3>5
  <2>2. CASE data[w] # NoJob
    BY <1>8, <2>2 DEF Take
  <2> QED BY <2>1, <2>2
<1> QED
  BY <1>1, <1>2, <1>3, <1>4, <1>5, <1>6, <1>7, <1>8 DEF Working

LEMMA OnceNext ==
  ASSUME Shape, Types, Flags, Once, [Next]_vars
  PROVE  Flags' /\ Once'
<1>1. CASE \E j \in Jobs : Adding(j)
  BY <1>1, OnceAdding
<1>2. CASE \E w \in Workers : Working(w)
  BY <1>2, OnceWorking
<1>3. CASE Kill \/ UNCHANGED vars
  BY <1>3 DEF Kill, vars, Flags, Once, HasWork, InHand, Waiting, HasRun, Added
<1> QED
  BY <1>1, <1>2, <1>3 DEF Next

-----------------------------------------------------------------------------
\* The order of the jobs

Before(i, j) == \E m, n \in DOMAIN accepted : m < n /\ accepted[m] = i /\ accepted[n] = j

\* A thread that will run the job it has: once the client is killed, only one that is past
\* the kill test.
WillRun(w) == data[w] \in Jobs /\ (Busy(w) \/ (~kill /\ Alive(w) /\ at[w] # "end"))

\* While no thread is missing or too many, a thread that is about to end leaves no list
\* behind, and there is none without a thread that is known as active.
Orderly == ~overlap /\ NeverFailed
EmptyAtEnd ==
  ~kill => /\ thread_active = 0 => joblist = <<>>
           /\ \A w \in Workers : at[w] = "end" => thread_active = 0
\* First what has been run, then the job in hand, then the list
RanOrder  == \A i, k \in DOMAIN ran : i < k => Before(ran[i], ran[k])
ListOrder == \A k, l \in DOMAIN joblist : k < l => Before(joblist[k], joblist[l])
RanFirst  == \A i \in DOMAIN ran :
               /\ \A k \in DOMAIN joblist : Before(ran[i], joblist[k])
               /\ \A w \in Workers : WillRun(w) => Before(ran[i], data[w])
HandFirst == \A w \in Workers, k \in DOMAIN joblist : WillRun(w) => Before(data[w], joblist[k])
Order == EmptyAtEnd /\ RanOrder /\ ListOrder /\ RanFirst /\ HandFirst

\* What the order rests on
Base == Single /\ Types /\ Flags /\ Once

LEMMA OneWillRun ==
  ASSUME Single, ~overlap, NEW v \in Workers, NEW w \in Workers, WillRun(v), WillRun(w)
  PROVE  v = w
<1>1. CASE kill
  BY <1>1 DEF Single, OneBusy, WillRun
<1>2. CASE ~kill
  <2>1. Alive(v) /\ Alive(w)
    BY DEF WillRun, Busy, Alive
  <2> QED BY <1>2, <2>1 DEF Single, OneThread
<1> QED BY <1>1, <1>2

\* What is added comes behind all that has been added; nothing else changes the order.
LEMMA BehindAll ==
  ASSUME Types, Flags, Once, NEW j \in Jobs, accepted' = Append(accepted, j)
  PROVE  /\ \A x, y \in Jobs : Before(x, y) => Before(x, y)'
         /\ \A x \in Jobs : state[x] \in {"given", "queued", "done"} => Before(x, j)'
<1>1. \A m \in DOMAIN accepted : m \in DOMAIN accepted' /\ accepted'[m] = accepted[m]
  BY DEF Flags
<1>2. /\ Len(accepted) + 1 \in DOMAIN accepted' /\ accepted'[Len(accepted) + 1] = j
      /\ \A m \in DOMAIN accepted : m < Len(accepted) + 1
  BY DEF Flags
<1>3. \A x, y \in Jobs : Before(x, y) => Before(x, y)'
  BY <1>1 DEF Before
<1>4. ASSUME NEW x \in Jobs, state[x] \in {"given", "queued", "done"} PROVE Before(x, j)'
  <2>1. PICK m \in DOMAIN accepted : accepted[m] = x
    BY <1>4 DEF Once, Added
  <2> QED BY <1>1, <1>2, <2>1 DEF Before
<1> QED BY <1>3, <1>4

LEMMA OrderInit == ASSUME Init PROVE Order
<1>1. accepted = <<>> /\ ran = <<>> /\ joblist = <<>> /\ thread_active = 0
  BY DEF Init
<1>2. \A w \in Workers : at[w] # "end"
  BY DEF Init
<1> QED
  BY <1>1, <1>2 DEF Order, EmptyAtEnd, RanOrder, ListOrder, RanFirst, HandFirst

\* No thread is at its end, or there are two, while another is started or at work.
LEMMA EmptyAtEndNext ==
  ASSUME Base, Orderly, Orderly', EmptyAtEnd, [Next]_vars
  PROVE  EmptyAtEnd'
<1> USE DEF Base, Single, Shape, OneThread, Alive, Orderly, EmptyAtEnd, Types, Flags, Places
<1>1. CASE \E j \in Jobs : Adding(j)
  <2>0. PICK j \in Jobs : Adding(j)
    BY <1>1
  <2>1. CASE AddJob(j) \/ AppendJob(j)
    BY <2>1 DEF AddJob, AppendJob
  <2>2. CASE StartFails(j)
    BY <2>2 DEF StartFails, NeverFailed
  <2>3. CASE \E w \in Workers : StartThread(j, w)
    <3>1. PICK w \in Workers : StartThread(j, w)
      BY <2>3
    <3>2. \A v \in Workers : at[v] # "end"
      BY <3>1, Zenon DEF StartThread, Orderly
    <3>3. at' = [at EXCEPT ![w] = "start"] /\ thread_active' = 1
      BY <3>1 DEF StartThread
    <3> QED BY <3>2, <3>3
  <2> QED BY <2>0, <2>1, <2>2, <2>3 DEF Adding
<1>2. CASE \E w \in Workers : Working(w)
  <2>0. PICK w \in Workers : Working(w)
    BY <1>2
  <2>1. CASE Begin(w) \/ Arm(w) \/ PollReturns(w)
    BY <2>1 DEF Begin, Arm, PollReturns
  <2>2. CASE Outer(w) \/ Inner(w) \/ NothingToDo(w) \/ After(w) \/ End(w)
    BY <2>2 DEF Outer, Inner, NothingToDo, After, End
  <2>3. CASE InnerKilled(w) \/ FreeClient(w)
    BY <2>3 DEF InnerKilled, FreeClient
  <2>4. CASE Run(w)
    <3>1. kill => kill'
      BY <2>4, Zenon DEF Run
    <3> QED BY <2>4, <3>1 DEF Run
  <2>5. CASE RunExits(w) \/ Expire(w)
    BY <2>5 DEF RunExits, Expire
  <2>6. CASE Take(w)
    <3>1. at' = [at EXCEPT ![w] = "run"] /\ UNCHANGED <<kill, thread_active>>
      BY <2>6 DEF Take
    <3>2. joblist = <<>> => joblist' = <<>>
      BY <2>6 DEF Take
    <3> QED BY <3>1, <3>2
  <2> QED BY <2>0, <2>1, <2>2, <2>3, <2>4, <2>5, <2>6 DEF Working
<1> QED
  BY <1>1, <1>2 DEF Next, Kill, vars

\* Steps that add nothing: jobs are in hand or in the list that were so before.
LEMMA LessOrder ==
  ASSUME Order, accepted' = accepted, ran' = ran,
         joblist' = joblist \/ joblist' = <<>>,
         \A v \in Workers : WillRun(v)' => WillRun(v) /\ data'[v] = data[v]
  PROVE  RanOrder' /\ ListOrder' /\ RanFirst' /\ HandFirst'
  BY DEF Order, RanOrder, ListOrder, RanFirst, HandFirst, Before

LEMMA OrderAdding ==
  ASSUME Base, Orderly, Orderly', Order, NEW j \in Jobs, Adding(j)
  PROVE  RanOrder' /\ ListOrder' /\ RanFirst' /\ HandFirst'
<1> USE DEF Base, Single, Shape, Types, Flags
<1>1. CASE AddJob(j) \/ StartFails(j)
  BY <1>1, LessOrder DEF AddJob, StartFails, WillRun, Busy, Alive
<1>2. CASE AppendJob(j)
  <2>1. /\ accepted' = Append(accepted, j) /\ joblist' = Append(joblist, j)
        /\ UNCHANGED <<ran, data, at, kill>>
    BY <1>2 DEF AppendJob
  <2>2. \A v \in Workers : WillRun(v)' <=> WillRun(v)
    BY <2>1 DEF WillRun, Busy, Alive
  <2>3. /\ \A x, y \in Jobs : Before(x, y) => Before(x, y)'
        /\ \A x \in Jobs : state[x] \in {"given", "queued", "done"} => Before(x, j)'
    BY <2>1, BehindAll
  <2>4. RanOrder'
    BY <2>1, <2>3 DEF Order, RanOrder
  <2>5. /\ \A k \in DOMAIN joblist' : \/ k \in DOMAIN joblist /\ joblist'[k] = joblist[k]
                                      \/ k = Len(joblist) + 1 /\ joblist'[k] = j
        /\ \A k \in DOMAIN joblist : k < Len(joblist) + 1
    <3>1. joblist' = Append(joblist, j) /\ joblist \in Seq(Jobs)
      BY <2>1
    <3> QED BY ONLY <3>1
  <2>6. ListOrder'
    <3> SUFFICES ASSUME NEW k \in DOMAIN joblist', NEW l \in DOMAIN joblist', k < l
                 PROVE  Before(joblist[k], joblist[l])'
      BY DEF ListOrder
    <3>1. k \in DOMAIN joblist /\ joblist'[k] = joblist[k] /\ joblist[k] \in Jobs
      BY <2>1
    <3>2. CASE l \in DOMAIN joblist
      BY <2>1, <2>3, <3>1, <3>2 DEF Order, ListOrder
    <3>3. CASE joblist'[l] = j
      BY <2>3, <3>1, <3>3 DEF Once, Waiting
    <3> QED BY <2>5, <3>2, <3>3
  <2>7. RanFirst'
    BY <2>1, <2>2, <2>3, <2>5 DEF Order, RanFirst, Once, HasRun, WillRun
  <2>8. HandFirst'
    BY <2>1, <2>2, <2>3, <2>5 DEF Order, HandFirst, Once, InHand, WillRun
  <2> QED BY <2>4, <2>6, <2>7, <2>8
<1>3. CASE \E w \in Workers : StartThread(j, w)
  <2>0. PICK w \in Workers : StartThread(j, w)
    BY <1>3
  <2>1. /\ accepted' = Append(accepted, j) /\ data' = [data EXCEPT ![w] = j]
        /\ at' = [at EXCEPT ![w] = "start"] /\ UNCHANGED <<ran, joblist, kill>>
        /\ kill \/ thread_active = 0
    BY <2>0 DEF StartThread
  <2>2. /\ \A x, y \in Jobs : Before(x, y) => Before(x, y)'
        /\ \A x \in Jobs : state[x] \in {"given", "queued", "done"} => Before(x, j)'
    BY <2>1, BehindAll
  <2>3. \A v \in Workers \ {w} : WillRun(v)' => WillRun(v) /\ data'[v] = data[v]
    BY <2>1 DEF WillRun, Busy, Alive
  <2>4. WillRun(w)' => joblist = <<>> /\ data'[w] = j
    BY <2>1 DEF Order, EmptyAtEnd, WillRun, Busy
  <2>5. RanOrder' /\ ListOrder'
    BY <2>1, <2>2 DEF Order, RanOrder, ListOrder
  <2>6. RanFirst'
    BY <2>1, <2>2, <2>3, <2>4 DEF Order, RanFirst, Once, HasRun, WillRun
  <2>7. HandFirst'
    BY <2>1, <2>2, <2>3, <2>4 DEF Order, HandFirst, WillRun
  <2> QED BY <2>5, <2>6, <2>7
<1> QED
  BY <1>1, <1>2, <1>3 DEF Adding

LEMMA OrderWorking ==
  ASSUME Base, Orderly, Orderly', Order, NEW w \in Workers, Working(w)
  PROVE  RanOrder' /\ ListOrder' /\ RanFirst' /\ HandFirst'
<1> USE DEF Base, Single, Shape, Types, Flags
<1>1. CASE Begin(w) \/ Outer(w) \/ Inner(w) \/ NothingToDo(w) \/ Arm(w) \/ After(w) \/ End(w)
  BY <1>1, LessOrder DEF Begin, Outer, Inner, NothingToDo, Arm, After, End, WillRun, Busy, Alive
<1>2. CASE InnerKilled(w) \/ FreeClient(w)
  BY <1>2, LessOrder, WorkAssumption DEF InnerKilled, FreeClient, WillRun, Busy, Alive
<1>3. CASE PollReturns(w)
  BY <1>3, LessOrder, WorkAssumption DEF PollReturns, WillRun, Busy, Alive
<1>4. CASE RunExits(w) \/ Expire(w)
  BY <1>4, LessOrder, WorkAssumption DEF RunExits, Expire, WillRun, Busy, Alive
<1>5. CASE Run(w)
  <2>0. kill => kill'
    BY <1>5, Zenon DEF Run
  <2>1. /\ data' = [data EXCEPT ![w] = NoJob] /\ at' = [at EXCEPT ![w] = "inner"]
        /\ at[w] = "run" /\ joblist' = joblist /\ accepted' = accepted
    BY <1>5 DEF Run
  <2>2. \A v \in Workers : WillRun(v)' => WillRun(v) /\ data'[v] = data[v] /\ v # w
    BY <2>0, <2>1, WorkAssumption DEF WillRun, Busy, Alive
  <2>3. CASE data[w] = Event
    <3>1. ran' = ran
      BY <1>5, <2>3 DEF Run
    <3> QED BY <2>1, <2>2, <3>1, LessOrder
  <2>4. CASE data[w] # Event
    <3>1. ran' = Append(ran, data[w]) /\ data[w] \in Jobs
      BY <1>5, <2>4 DEF Run, Once, HasWork
    <3>2. WillRun(w)
      BY <2>1, <3>1 DEF WillRun, Busy
    <3>3. \A v \in Workers : ~WillRun(v)'
      BY <2>2, <3>2, OneWillRun DEF Orderly
    <3>4. \A x, y \in Jobs : Before(x, y) => Before(x, y)'
      BY <2>1 DEF Before
    <3>5. /\ \A i \in DOMAIN ran' : \/ i \in DOMAIN ran /\ ran'[i] = ran[i]
                                    \/ i = Len(ran) + 1 /\ ran'[i] = data[w]
          /\ \A i \in DOMAIN ran : i < Len(ran) + 1
      BY <3>1
    <3>6. RanOrder'
      BY <3>1, <3>2, <3>4, <3>5 DEF Order, RanOrder, RanFirst
    <3>7. ListOrder' /\ HandFirst'
      BY <2>1, <3>3, <3>4 DEF Order, ListOrder, HandFirst
    <3>8. RanFirst'
      BY <2>1, <3>1, <3>2, <3>3, <3>4, <3>5 DEF Order, RanFirst, HandFirst
    <3> QED BY <3>6, <3>7, <3>8
  <2> QED BY <2>3, <2>4
<1>6. CASE Take(w)
  <2>1. at[w] = "take" /\ at' = [at EXCEPT ![w] = "run"] /\ UNCHANGED <<kill, ran, accepted>>
    BY <1>6 DEF Take
  <2>2. CASE data[w] # NoJob
    <3>1. data' = data /\ joblist' = joblist
      BY <1>6, <2>2 DEF Take
    <3> QED BY <2>1, <3>1, LessOrder DEF WillRun, Busy, Alive
  <2>3. CASE data[w] = NoJob
    <3>1. /\ joblist # <<>> /\ joblist' = Tail(joblist)
          /\ data' = [data EXCEPT ![w] = Head(joblist)]
      BY <1>6, <2>3 DEF Take
    <3>2. Head(joblist) \in Jobs /\ Head(joblist) = joblist[1] /\ 1 \in DOMAIN joblist
      BY <3>1
    <3>3. \A k \in DOMAIN Tail(joblist) : k + 1 \in DOMAIN joblist /\ k + 1 > 1 /\ k \in Nat
                                          /\ Tail(joblist)[k] = joblist[k + 1]
      BY <3>1
    <3>4. \A x, y \in Jobs : Before(x, y) => Before(x, y)'
      BY <2>1 DEF Before
    <3>5. \A v \in Workers \ {w} : WillRun(v)' => WillRun(v) /\ data'[v] = data[v]
      BY <2>1, <3>1 DEF WillRun, Busy, Alive
    <3>6. RanOrder'
      BY <2>1, <3>4 DEF Order, RanOrder
    <3>7. ListOrder'
      BY <3>1, <3>3, <3>4 DEF Order, ListOrder
    <3>8. RanFirst'
      BY <2>1, <3>1, <3>2, <3>3, <3>4, <3>5 DEF Order, RanFirst, WillRun
    <3>9. HandFirst'
      BY <2>1, <3>1, <3>2, <3>3, <3>4, <3>5 DEF Order, ListOrder, HandFirst, WillRun
    <3> QED BY <3>6, <3>7, <3>8, <3>9
  <2> QED BY <2>2, <2>3
<1> QED
  BY <1>1, <1>2, <1>3, <1>4, <1>5, <1>6 DEF Working

LEMMA OrderNext ==
  ASSUME Base, Orderly, Orderly', Order, [Next]_vars
  PROVE  Order'
<1>1. EmptyAtEnd'
  BY EmptyAtEndNext DEF Order
<1>2. CASE \E j \in Jobs : Adding(j)
  BY <1>1, <1>2, OrderAdding DEF Order
<1>3. CASE \E w \in Workers : Working(w)
  BY <1>1, <1>3, OrderWorking DEF Order
<1>4. CASE Kill \/ UNCHANGED vars
  <2>1. \A v \in Workers : WillRun(v)' => WillRun(v) /\ data'[v] = data[v]
    BY <1>4 DEF Kill, vars, WillRun, Busy, Alive
  <2> QED BY <1>1, <1>4, <2>1, LessOrder DEF Kill, vars, Order
<1> QED
  BY <1>2, <1>3, <1>4 DEF Next

\* What excuses an order is not forgotten.
LEMMA OrderlyBefore ==
  ASSUME Types, Once, [Next]_vars, Orderly'
  PROVE  Orderly
<1>1. ~overlap
  <2> SUFFICES ASSUME overlap PROVE overlap'
    BY DEF Orderly
  <2> QED
    BY Zenon DEF Next, Adding, Working, AddJob, AppendJob, StartThread, StartFails, Begin,
       Outer, Inner, InnerKilled, FreeClient, Take, NothingToDo, Arm, PollReturns, Run,
       RunExits, Expire, After, End, Kill, vars
<1>2. NeverFailed
  <2> SUFFICES ASSUME NEW j \in Jobs, state[j] = "failed" PROVE state'[j] = "failed"
    BY DEF Orderly, NeverFailed
  <2>1. CASE \E i \in Jobs : Adding(i)
    BY <2>1 DEF Types, Adding, AddJob, AppendJob, StartThread, StartFails
  <2>2. CASE \E w \in Workers : Working(w)
    <3>0. PICK w \in Workers : Working(w)
      BY <2>2
    <3>1. CASE Take(w)
      <4>1. CASE data[w] = NoJob
        <5>1. joblist # <<>> /\ state' = [state EXCEPT ![Head(joblist)] = "given"]
          BY <3>1, <4>1 DEF Take, Types
        <5>2. Head(joblist) = joblist[1] /\ 1 \in DOMAIN joblist
          BY <5>1 DEF Types
        <5> QED BY <5>1, <5>2 DEF Once, Waiting, Types
      <4>2. CASE data[w] # NoJob
        BY <3>1, <4>2 DEF Take, Types, Once, InHand
      <4> QED BY <4>1, <4>2
    <3>2. CASE ~Take(w)
      BY <3>0, <3>2 DEF Working, Begin, Outer, Inner, InnerKilled, FreeClient, NothingToDo,
         Arm, PollReturns, Run, RunExits, Expire, After, End, Types, Once, InHand
    <3> QED
      BY <3>1, <3>2
  <2> QED
    BY <2>1, <2>2 DEF Next, Kill, vars
<1> QED
  BY <1>1, <1>2 DEF Orderly

InOrderInv == Kept /\ Flags /\ Once /\ (Orderly => Order)

LEMMA InOrderInvInit == Init => InOrderInv
<1> SUFFICES ASSUME Init PROVE InOrderInv
  OBVIOUS
<1> QED BY KeptInit, OnceInit, OrderInit DEF InOrderInv

LEMMA InOrderInvNext == InOrderInv /\ [Next]_vars => InOrderInv'
<1> SUFFICES ASSUME InOrderInv, [Next]_vars PROVE InOrderInv'
  OBVIOUS
<1>1. Kept' /\ Flags' /\ Once'
  BY KeptNext, OnceNext DEF InOrderInv, Kept, Single
<1>2. ASSUME Orderly' PROVE Order'
  BY <1>2, OrderlyBefore, OrderNext DEF InOrderInv, Kept, Base
<1> QED BY <1>1, <1>2 DEF InOrderInv

\* add_job and work_thread: the fields keep their types, thread_active is 0, 1 or 2.
THEOREM TypeOKAlways == Spec => []TypeOK
<1>1. InOrderInv => TypeOK
  BY DEF InOrderInv, Kept, Single, Shape, Types, Flags, TypeOK
<1> QED BY InOrderInvInit, InOrderInvNext, <1>1, PTL DEF Spec

\* add_job and work_thread: no job is run twice, and the jobs are run in the order in which
\* they were added, also the one handed to a new thread and also around a kill, unless a
\* thread was started while another was about to end, or could not be started.
THEOREM InOrderAlways == Spec => []InOrder
<1>1. InOrderInv => InOrder
  BY DEF InOrderInv, Once, HasRun, Orderly, Order, RanOrder, Before, InOrder
<1> QED BY InOrderInvInit, InOrderInvNext, <1>1, PTL DEF Spec
=============================================================================
