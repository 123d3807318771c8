-------------------------- MODULE Dispatcher_proofs --------------------------
(* Proofs about the thread pool, for any number of workers, callers, jobs.  *)
EXTENDS Dispatcher, FiniteSetTheorems, SequenceTheorems, TLAPS

(***************************************************************************)
(* Elements of the sequences the queue is built with.                      *)
(***************************************************************************)
(* Appending adds one element. *)
LEMMA ElementsAppend ==
  ASSUME NEW S, NEW s \in Seq(S), NEW e \in S
  PROVE  Elements(Append(s, e)) = Elements(s) \cup {e}
<1>1. /\ Len(Append(s, e)) = Len(s) + 1
      /\ Append(s, e)[Len(s) + 1] = e
      /\ \A i \in 1..Len(s) : Append(s, e)[i] = s[i]
      /\ Len(s) \in Nat
  OBVIOUS
<1>2. ASSUME NEW x PROVE x \in Elements(Append(s, e)) <=> x \in Elements(s) \cup {e}
  <2>1. 1..(Len(s) + 1) = (1..Len(s)) \cup {Len(s) + 1}
    BY <1>1
  <2> QED BY <1>1, <2>1, Zenon DEF Elements
<1> QED BY <1>2

(* The elements of a nonempty sequence are its head and its tail's. *)
LEMMA ElementsHeadTail ==
  ASSUME NEW S, NEW s \in Seq(S), s # <<>>
  PROVE  /\ Elements(s) = Elements(Tail(s)) \cup {Head(s)}
         /\ Head(s) \in S
         /\ Tail(s) \in Seq(S)
         /\ Len(Tail(s)) = Len(s) - 1
<1>1. /\ Len(s) \in Nat \ {0}
      /\ Len(Tail(s)) = Len(s) - 1
      /\ Head(s) = s[1]
      /\ Head(s) \in S
      /\ Tail(s) \in Seq(S)
      /\ \A i \in 1..(Len(s) - 1) : Tail(s)[i] = s[i + 1]
  OBVIOUS
<1>2. ASSUME NEW x \in Elements(s) PROVE x \in Elements(Tail(s)) \cup {Head(s)}
  <2>1. PICK i \in 1..Len(s) : x = s[i]
    BY DEF Elements
  <2>2. CASE i = 1
    BY <1>1, <2>1, <2>2
  <2>3. CASE i # 1
    <3>1. i - 1 \in 1..(Len(s) - 1) /\ Tail(s)[i - 1] = s[i]
      BY <1>1, <2>3
    <3> QED BY <1>1, <2>1, <3>1, Zenon DEF Elements
  <2> QED BY <2>2, <2>3
<1>3. ASSUME NEW x \in Elements(Tail(s)) \cup {Head(s)} PROVE x \in Elements(s)
  <2>1. CASE x = Head(s)
    <3>1. 1 \in 1..Len(s) /\ x = s[1]
      BY <1>1, <2>1
    <3> QED BY <3>1 DEF Elements
  <2>2. CASE x \in Elements(Tail(s))
    <3>1. PICK i \in 1..(Len(s) - 1) : x = Tail(s)[i]
      BY <1>1, <2>2 DEF Elements
    <3>2. i + 1 \in 1..Len(s) /\ x = s[i + 1]
      BY <1>1, <3>1
    <3> QED BY <3>2 DEF Elements
  <2> QED BY <1>3, <2>1, <2>2
<1> QED BY <1>1, <1>2, <1>3

(***************************************************************************)
(* The inductive invariant, conjunct by conjunct.                          *)
(***************************************************************************)
StopperState == stopped <=> stopper # "idle"

JobOfWorker == \A w \in Workers : wstate[w] = "running" <=> wjob[w] # NoJob

OneWorkerPerJob ==
  \A v, w \in Workers : wjob[v] = wjob[w] /\ wjob[v] # NoJob => v = w

(* Every job pushed is pending, running or finished, and only one of them.  *)
Pending == Elements(pendingJobs)
Conservation ==
  /\ Elements(submitted) = Pending \cup Running \cup finished
  /\ Pending \cap (Running \cup finished) = {}
  /\ Running \cap finished = {}
  /\ late \subseteq Elements(submitted)

PendingDistinct ==
  \A i, k \in 1..Len(pendingJobs) : pendingJobs[i] = pendingJobs[k] => i = k

(* A worker leaves an empty queue of a stopped pool: what is pushed later   *)
(* is late.                                                                 *)
ExitedWorkers ==
  \A w \in Workers : wstate[w] = "exited" => stopped /\ Pending \subseteq late

StopReturned == stopper = "done" => \A w \in Workers : wstate[w] = "exited"

IInv ==
  /\ TypeOK
  /\ StopperState /\ JobOfWorker /\ OneWorkerPerJob
  /\ Conservation /\ PendingDistinct
  /\ ExitedWorkers /\ StopReturned
  /\ NoSleeperAfterStop

(* The pool starts in the inductive invariant. *)
LEMMA InitIInv == Init => IInv
<1> SUFFICES ASSUME Init PROVE IInv
  OBVIOUS
<1>1. TypeOK
  <2>1. <<>> \in Seq(Jobs)
    OBVIOUS
  <2> QED BY <2>1, Zenon DEF Init, TypeOK
<1>2. Elements(<<>>) = {} /\ Running = {}
  BY DEF Init, Elements, Running
<1> QED
  BY <1>1, <1>2 DEF Init, IInv, StopperState, JobOfWorker, OneWorkerPerJob,
     Conservation, PendingDistinct, ExitedWorkers, StopReturned,
     NoSleeperAfterStop, Pending, Sleeping

(* The type of the state is kept by every step. *)
LEMMA TypeStep == TypeOK /\ JobOfWorker /\ [Next]_vars => TypeOK'
<1> SUFFICES ASSUME TypeOK, JobOfWorker, [Next]_vars PROVE TypeOK'
  OBVIOUS
<1> USE DEF TypeOK, queueVars, workerVars
<1>1. ASSUME NEW c \in Callers, NEW j \in Jobs, ScheduleJob(c, j) PROVE TypeOK'
  BY <1>1 DEF ScheduleJob
<1>2. ASSUME NEW c \in Callers, NotifyOne(c) PROVE TypeOK'
  BY <1>2 DEF NotifyOne, Wake, Sleeping
<1>3. ASSUME NEW w \in Workers, Wait(w) PROVE TypeOK'
  BY <1>3 DEF Wait
<1>4. ASSUME NEW w \in Workers, TakeJob(w) PROVE TypeOK'
  <2>1. pendingJobs # <<>>
    BY <1>4 DEF TakeJob, MayProceed, MustExit
  <2> QED BY <1>4, <2>1, ElementsHeadTail DEF TakeJob
<1>5. ASSUME NEW w \in Workers, FinishJob(w) PROVE TypeOK'
  BY <1>5 DEF FinishJob, JobOfWorker
<1>6. ASSUME NEW w \in Workers, ThrowJob(w) PROVE TypeOK'
  BY <1>6 DEF ThrowJob
<1>7. ASSUME NEW w \in Workers, Exit(w) PROVE TypeOK'
  BY <1>7 DEF Exit
<1>8. ASSUME NEW w \in Workers, SpuriousWakeup(w) PROVE TypeOK'
  BY <1>8 DEF SpuriousWakeup, Wake
<1>9. CASE Stop \/ NotifyAll \/ JoinWorkers \/ Ended \/ UNCHANGED vars
  BY <1>9 DEF Stop, NotifyAll, JoinWorkers, Ended, vars
<1> QED
  BY <1>1, <1>2, <1>3, <1>4, <1>5, <1>6, <1>7, <1>8, <1>9 DEF Next, WorkerStep

(* Scheduling a job keeps the invariant: the job is new, and it is late if  *)
(* the pool is stopped.                                                     *)
LEMMA ScheduleStep ==
  ASSUME IInv, NEW c \in Callers, NEW j \in Jobs, ScheduleJob(c, j)
  PROVE  /\ Conservation' /\ PendingDistinct' /\ ExitedWorkers'
<1> USE DEF IInv, TypeOK
<1>1. /\ Pending' = Pending \cup {j}
      /\ Elements(submitted)' = Elements(submitted) \cup {j}
      /\ j \notin Elements(submitted)
      /\ late' = IF stopped THEN late \cup {j} ELSE late
  BY ElementsAppend DEF ScheduleJob, Pending
<1>2. UNCHANGED <<Running, finished, wstate, wjob, stopped>>
  BY DEF ScheduleJob, Running, workerVars
<1>3. Conservation'
  BY <1>1, <1>2 DEF Conservation
<1>4. PendingDistinct'
  <2>1. \A i \in 1..Len(pendingJobs) : pendingJobs[i] \in Pending
    BY DEF Pending, Elements
  <2>2. \A i \in 1..Len(pendingJobs) : pendingJobs[i] # j
    BY <1>1, <2>1 DEF Conservation
  <2>3. /\ Len(pendingJobs') = Len(pendingJobs) + 1
        /\ pendingJobs'[Len(pendingJobs) + 1] = j
        /\ \A i \in 1..Len(pendingJobs) : pendingJobs'[i] = pendingJobs[i]
        /\ Len(pendingJobs) \in Nat
    BY DEF ScheduleJob
  <2>4. \A i \in 1..Len(pendingJobs') : i \in 1..Len(pendingJobs) \/ i = Len(pendingJobs) + 1
    BY <2>3
  <2> QED BY <2>2, <2>3, <2>4 DEF PendingDistinct
<1>5. ExitedWorkers'
  BY <1>1, <1>2 DEF ExitedWorkers
<1> QED BY <1>3, <1>4, <1>5

(* Taking a job moves it from the queue to the workers.                     *)
LEMMA TakeStep ==
  ASSUME IInv, NEW w \in Workers, TakeJob(w)
  PROVE  /\ Head(pendingJobs) \in Jobs
         /\ Head(pendingJobs) \in Pending
         /\ Head(pendingJobs) \notin Pending'
         /\ Pending = Pending' \cup {Head(pendingJobs)}
         /\ Running' = Running \cup {Head(pendingJobs)}
         /\ Head(pendingJobs) \notin Running \cup finished
<1> USE DEF IInv, TypeOK
<1>1. pendingJobs # <<>>
  BY DEF TakeJob, MayProceed, MustExit
<1>2. /\ Pending = Pending' \cup {Head(pendingJobs)}
      /\ Head(pendingJobs) \in Jobs
  BY <1>1, ElementsHeadTail DEF TakeJob, Pending
<1>3. Head(pendingJobs) \notin Pending'
  <2> SUFFICES ASSUME Head(pendingJobs) \in Pending' PROVE FALSE
    OBVIOUS
  <2>1. PICK i \in 1..Len(pendingJobs') : pendingJobs'[i] = Head(pendingJobs)
    BY DEF Pending, Elements
  <2>2. /\ i + 1 \in 1..Len(pendingJobs)
        /\ pendingJobs[i + 1] = pendingJobs[1]
        /\ 1 \in 1..Len(pendingJobs)
        /\ i + 1 # 1
    BY <1>1, <2>1 DEF TakeJob
  <2> QED BY <2>2 DEF PendingDistinct
<1>4. wjob[w] = NoJob
  BY DEF TakeJob, JobOfWorker
<1>5. Running' = Running \cup {Head(pendingJobs)}
  <2>1. /\ wjob'[w] = Head(pendingJobs)
        /\ \A v \in Workers \ {w} : wjob'[v] = wjob[v]
    BY <1>2 DEF TakeJob
  <2>2. Head(pendingJobs) # NoJob
    BY <1>2, PoolAssumption
  <2> QED BY <1>4, <2>1, <2>2 DEF Running
<1> QED BY <1>2, <1>3, <1>5 DEF Conservation

(* Finishing a job moves it from its one worker to the finished jobs.       *)
LEMMA FinishStep ==
  ASSUME IInv, NEW w \in Workers, FinishJob(w)
  PROVE  /\ wjob[w] \in Running
         /\ wjob[w] \in Jobs
         /\ Running' = Running \ {wjob[w]}
<1> USE DEF IInv, TypeOK
<1>1. wjob[w] # NoJob
  BY DEF FinishJob, JobOfWorker
<1>2. /\ wjob'[w] = NoJob
      /\ \A v \in Workers \ {w} : wjob'[v] = wjob[v] /\ wjob[v] # wjob[w]
  BY <1>1 DEF FinishJob, OneWorkerPerJob
<1>3. wjob[w] \in Jobs
  BY <1>1
<1> HIDE DEF IInv, TypeOK
<1>4. wjob[w] \in Running
  BY <1>1 DEF Running
<1>5. Running' = Running \ {wjob[w]}
  BY <1>1, <1>2 DEF Running
<1> QED BY <1>3, <1>4, <1>5

(* The steps that move a worker between ready, waiting and exited, or the   *)
(* thread in stop(), leave the queue and the running jobs alone.            *)
QueueUntouched == UNCHANGED <<pendingJobs, submitted, late, wjob, finished>>

LEMMA QueueUntouchedStep ==
  ASSUME IInv, QueueUntouched
  PROVE  /\ Conservation' /\ PendingDistinct' /\ OneWorkerPerJob'
         /\ Pending' = Pending
<1>1. UNCHANGED <<Pending, Running, Elements(submitted), late, finished>>
  BY DEF QueueUntouched, Pending, Running, Elements
<1>2. Conservation'
  BY <1>1, Zenon DEF IInv, Conservation
<1>3. PendingDistinct' /\ OneWorkerPerJob'
  BY DEF IInv, QueueUntouched, PendingDistinct, OneWorkerPerJob
<1> QED BY <1>1, <1>2, <1>3

(* Every step keeps the inductive invariant. *)
LEMMA NextIInv == IInv /\ [Next]_vars => IInv'
<1> SUFFICES ASSUME IInv, [Next]_vars PROVE IInv'
  OBVIOUS
<1>0. TypeOK'
  BY TypeStep DEF IInv
<1> USE DEF IInv
<1>1. ASSUME NEW c \in Callers, NEW j \in Jobs, ScheduleJob(c, j) PROVE IInv'
  <2>1. Conservation' /\ PendingDistinct' /\ ExitedWorkers'
    BY <1>1, ScheduleStep
  <2>2. UNCHANGED <<stopped, stopper, wstate, wjob>>
    BY <1>1 DEF ScheduleJob, workerVars
  <2> QED BY <1>0, <2>1, <2>2 DEF StopperState, JobOfWorker, OneWorkerPerJob,
             StopReturned, NoSleeperAfterStop, Sleeping
<1>2. ASSUME NEW c \in Callers, NotifyOne(c) PROVE IInv'
  <2>1. QueueUntouched /\ UNCHANGED <<stopped, stopper>>
    BY <1>2 DEF NotifyOne, QueueUntouched, queueVars
  <2>2. \/ UNCHANGED wstate
        \/ \E v \in Sleeping : Wake(v)
    BY <1>2 DEF NotifyOne
  <2> QED BY <1>0, <2>1, <2>2, QueueUntouchedStep
          DEF TypeOK, QueueUntouched, StopperState, JobOfWorker, ExitedWorkers,
              StopReturned, NoSleeperAfterStop, Sleeping, Wake
<1>3. ASSUME NEW w \in Workers, Wait(w) PROVE IInv'
  <2>1. /\ QueueUntouched /\ UNCHANGED <<stopped, stopper>>
        /\ wstate' = [wstate EXCEPT ![w] = "waiting"]
        /\ wstate[w] = "ready"
        /\ ~stopped
    BY <1>3 DEF Wait, QueueUntouched, queueVars, MayProceed
  <2> QED BY <1>0, <2>1, QueueUntouchedStep
          DEF TypeOK, QueueUntouched, StopperState, JobOfWorker, ExitedWorkers,
              StopReturned, NoSleeperAfterStop, Sleeping
<1>4. ASSUME NEW w \in Workers, TakeJob(w) PROVE IInv'
  <2> DEFINE j == Head(pendingJobs)
  <2>1. /\ j \in Jobs /\ j \in Pending /\ j \notin Pending'
        /\ Pending = Pending' \cup {j}
        /\ Running' = Running \cup {j}
        /\ j \notin Running \cup finished
    BY <1>4, TakeStep
  <2>2. /\ UNCHANGED <<stopped, stopper, submitted, late, finished>>
        /\ wstate' = [wstate EXCEPT ![w] = "running"]
        /\ wjob' = [wjob EXCEPT ![w] = j]
        /\ wstate[w] = "ready"
    BY <1>4 DEF TakeJob
  <2>3. Conservation'
    <3>1. Elements(submitted)' = Elements(submitted)
      BY <2>2 DEF Elements
    <3> QED BY <2>1, <2>2, <3>1 DEF Conservation
  <2>4. PendingDistinct'
    <3>1. pendingJobs # <<>>
      BY <1>4 DEF TakeJob, MayProceed, MustExit
    <3>2. /\ Len(pendingJobs') = Len(pendingJobs) - 1
          /\ Len(pendingJobs) \in Nat
          /\ \A i \in 1..Len(pendingJobs') : pendingJobs'[i] = pendingJobs[i + 1]
      BY <1>4, <3>1 DEF TakeJob, TypeOK
    <3> QED BY <3>2 DEF PendingDistinct
  <2>5. JobOfWorker'
    BY <2>1, <2>2, PoolAssumption DEF TypeOK, JobOfWorker
  <2>6. OneWorkerPerJob'
    <3>1. \A v \in Workers : wjob[v] # j
      BY <2>1, PoolAssumption DEF Running
    <3> QED BY <2>2, <3>1 DEF TypeOK, OneWorkerPerJob
  <2>7. ExitedWorkers' /\ StopReturned' /\ NoSleeperAfterStop' /\ StopperState'
    BY <2>1, <2>2 DEF TypeOK, ExitedWorkers, StopReturned, NoSleeperAfterStop,
                      Sleeping, StopperState
  <2> QED BY <1>0, <2>3, <2>4, <2>5, <2>6, <2>7
<1>5. ASSUME NEW w \in Workers, FinishJob(w) PROVE IInv'
  <2>1. /\ wjob[w] \in Running /\ wjob[w] \in Jobs
        /\ Running' = Running \ {wjob[w]}
    BY <1>5, FinishStep
  <2>2. /\ UNCHANGED <<stopped, stopper, pendingJobs, submitted, late>>
        /\ wstate' = [wstate EXCEPT ![w] = "ready"]
        /\ wjob' = [wjob EXCEPT ![w] = NoJob]
        /\ finished' = finished \cup {wjob[w]}
        /\ wstate[w] = "running"
    BY <1>5 DEF FinishJob, queueVars
  <2>3. Pending' = Pending /\ Elements(submitted)' = Elements(submitted)
    BY <2>2 DEF Pending, Elements
  <2>4. Conservation'
    BY <2>1, <2>2, <2>3 DEF Conservation
  <2>5. PendingDistinct'
    BY <2>2 DEF PendingDistinct
  <2>6. JobOfWorker' /\ OneWorkerPerJob'
    BY <2>2 DEF TypeOK, JobOfWorker, OneWorkerPerJob
  <2>7. ExitedWorkers' /\ StopReturned' /\ NoSleeperAfterStop' /\ StopperState'
    BY <2>2, <2>3 DEF TypeOK, ExitedWorkers, StopReturned, NoSleeperAfterStop,
                      Sleeping, StopperState
  <2> QED BY <1>0, <2>4, <2>5, <2>6, <2>7
<1>6. ASSUME NEW w \in Workers, ThrowJob(w) PROVE IInv'
  <2>1. QueueUntouched /\ UNCHANGED <<stopped, stopper, wstate>>
    BY <1>6 DEF ThrowJob, QueueUntouched, queueVars, workerVars
  <2> QED BY <1>0, <2>1, QueueUntouchedStep
          DEF QueueUntouched, StopperState, JobOfWorker, ExitedWorkers,
              StopReturned, NoSleeperAfterStop, Sleeping
<1>7. ASSUME NEW w \in Workers, Exit(w) PROVE IInv'
  <2>1. /\ QueueUntouched /\ UNCHANGED <<stopped, stopper>>
        /\ wstate' = [wstate EXCEPT ![w] = "exited"]
        /\ wstate[w] = "ready"
        /\ stopped
        /\ pendingJobs = <<>>
    BY <1>7 DEF Exit, QueueUntouched, queueVars, MustExit
  <2>2. Pending = {}
    BY <2>1 DEF Pending, Elements
  <2> QED BY <1>0, <2>1, <2>2, QueueUntouchedStep
          DEF TypeOK, QueueUntouched, StopperState, JobOfWorker, ExitedWorkers,
              StopReturned, NoSleeperAfterStop, Sleeping
<1>8. ASSUME NEW w \in Workers, SpuriousWakeup(w) PROVE IInv'
  <2>1. /\ QueueUntouched /\ UNCHANGED <<stopped, stopper>>
        /\ wstate' = [wstate EXCEPT ![w] = "ready"]
        /\ wstate[w] = "waiting"
    BY <1>8 DEF SpuriousWakeup, Wake, QueueUntouched, queueVars
  <2> QED BY <1>0, <2>1, QueueUntouchedStep
          DEF TypeOK, QueueUntouched, StopperState, JobOfWorker, ExitedWorkers,
              StopReturned, NoSleeperAfterStop, Sleeping
<1>9. CASE Stop
  <2>1. /\ QueueUntouched /\ UNCHANGED wstate
        /\ stopped' = TRUE /\ stopper' = "notifyAll"
    BY <1>9 DEF Stop, QueueUntouched, workerVars
  <2> QED BY <1>0, <2>1, QueueUntouchedStep
          DEF QueueUntouched, StopperState, JobOfWorker, ExitedWorkers,
              StopReturned, NoSleeperAfterStop
<1>10. CASE NotifyAll
  <2>1. /\ QueueUntouched /\ UNCHANGED stopped
        /\ stopper = "notifyAll" /\ stopper' = "join"
        /\ wstate' = [w \in Workers |->
                        IF w \in Sleeping THEN "ready" ELSE wstate[w]]
    BY <1>10 DEF NotifyAll, QueueUntouched, queueVars
  <2> QED BY <1>0, <2>1, QueueUntouchedStep
          DEF TypeOK, QueueUntouched, StopperState, JobOfWorker, ExitedWorkers,
              StopReturned, NoSleeperAfterStop, Sleeping
<1>11. CASE JoinWorkers
  <2>1. /\ QueueUntouched /\ UNCHANGED <<stopped, wstate>>
        /\ stopper = "join" /\ stopper' = "done"
        /\ \A w \in Workers : wstate[w] = "exited"
    BY <1>11 DEF JoinWorkers, QueueUntouched, queueVars, workerVars
  <2> QED BY <1>0, <2>1, QueueUntouchedStep
          DEF QueueUntouched, StopperState, JobOfWorker, ExitedWorkers,
              StopReturned, NoSleeperAfterStop, Sleeping
<1>12. CASE Ended \/ UNCHANGED vars
  <2>1. QueueUntouched /\ UNCHANGED <<stopped, stopper, wstate>>
    BY <1>12 DEF Ended, vars, QueueUntouched
  <2> QED BY <1>0, <2>1, QueueUntouchedStep
          DEF QueueUntouched, StopperState, JobOfWorker, ExitedWorkers,
              StopReturned, NoSleeperAfterStop, Sleeping
<1> QED
  BY <1>1, <1>2, <1>3, <1>4, <1>5, <1>6, <1>7, <1>8, <1>9, <1>10, <1>11, <1>12
  DEF Next, WorkerStep

(* The inductive invariant holds in every reachable state of the pool. *)
THEOREM Invariant == Spec => []IInv
<1> QED BY InitIInv, NextIInv, PTL DEF Spec

(* The state keeps its type. *)
THEOREM TypeCorrect == Spec => []TypeOK
<1>1. IInv => TypeOK
  BY DEF IInv
<1> QED BY <1>1, Invariant, PTL

(* No worker sleeps once stop() has sent notify_all: a worker that has seen *)
(* stopped_ unset cannot fall asleep afterwards, because the test and the   *)
(* sleep are one critical section.                                          *)
THEOREM NoSleeper == Spec => []NoSleeperAfterStop
<1>1. IInv => NoSleeperAfterStop
  BY DEF IInv
<1> QED BY <1>1, Invariant, PTL

(* stop() returns only when every job pushed before it has run to its end.  *)
THEOREM Drained == Spec => []DrainedAtStop
<1>1. IInv => DrainedAtStop
  <2> SUFFICES ASSUME IInv, stopper = "done"
               PROVE  Elements(submitted) \ late \subseteq finished
    BY DEF DrainedAtStop
  <2>1. \A w \in Workers : wstate[w] = "exited" /\ wjob[w] = NoJob
    BY DEF IInv, StopReturned, JobOfWorker, TypeOK
  <2>2. Running = {} /\ Pending \subseteq late
    BY <2>1, PoolAssumption DEF IInv, Running, ExitedWorkers
  <2> QED BY <2>2 DEF IInv, Conservation
<1> QED BY <1>1, Invariant, PTL

(***************************************************************************)
(* A wakeup for every pending job.                                         *)
(***************************************************************************)
(* The sets the invariant counts are finite. *)
LEMMA FiniteCounts ==
  ASSUME TypeOK
  PROVE  /\ IsFiniteSet(notifying) /\ Cardinality(notifying) \in Nat
         /\ IsFiniteSet(Awake) /\ Cardinality(Awake) \in Nat
<1>1. IsFiniteSet(notifying) /\ IsFiniteSet(Awake)
  BY PoolAssumption, FS_Subset DEF TypeOK, Awake
<1> QED BY <1>1, FS_CardinalityType

(* Every step keeps a wakeup on its way for every pending job. *)
LEMMA WakeupStep ==
  TypeOK /\ TypeOK' /\ WakeupPerJob /\ [Next]_vars => WakeupPerJob'
<1> SUFFICES ASSUME TypeOK, TypeOK', WakeupPerJob, [Next]_vars, Sleeping' # {}
             PROVE  Len(pendingJobs') <= Cardinality(notifying') + Cardinality(Awake')
  BY DEF WakeupPerJob
<1>0. /\ IsFiniteSet(notifying) /\ Cardinality(notifying) \in Nat
      /\ IsFiniteSet(Awake) /\ Cardinality(Awake) \in Nat
      /\ IsFiniteSet(notifying') /\ Cardinality(notifying') \in Nat
      /\ IsFiniteSet(Awake') /\ Cardinality(Awake') \in Nat
      /\ Len(pendingJobs) \in Nat
  <2>1. /\ IsFiniteSet(notifying') /\ Cardinality(notifying') \in Nat
        /\ IsFiniteSet(Awake') /\ Cardinality(Awake') \in Nat
    <3>1. IsFiniteSet(notifying') /\ IsFiniteSet(Awake')
      BY PoolAssumption, FS_Subset DEF TypeOK, Awake
    <3> QED BY <3>1, FS_CardinalityType
  <2> QED BY <2>1, FiniteCounts DEF TypeOK
<1>1. ASSUME NEW c \in Callers, NEW j \in Jobs, ScheduleJob(c, j)
      PROVE  Len(pendingJobs') <= Cardinality(notifying') + Cardinality(Awake')
  <2>1. /\ Sleeping' = Sleeping /\ Awake' = Awake
        /\ c \notin notifying /\ notifying' = notifying \cup {c}
        /\ Len(pendingJobs') = Len(pendingJobs) + 1
    BY <1>1 DEF ScheduleJob, workerVars, Sleeping, Awake, TypeOK
  <2>2. Cardinality(notifying') = Cardinality(notifying) + 1
    BY <1>0, <2>1, FS_AddElement
  <2> QED BY <1>0, <2>1, <2>2 DEF WakeupPerJob
<1>2. ASSUME NEW c \in Callers, NotifyOne(c)
      PROVE  Len(pendingJobs') <= Cardinality(notifying') + Cardinality(Awake')
  <2>1. /\ notifying' = notifying \ {c} /\ c \in notifying
        /\ pendingJobs' = pendingJobs
    BY <1>2 DEF NotifyOne, queueVars
  <2>2. Cardinality(notifying') = Cardinality(notifying) - 1
    BY <1>0, <2>1, FS_RemoveElement
  <2>3. Sleeping # {}
    BY <1>2 DEF NotifyOne, Sleeping
  <2>4. PICK w \in Sleeping : wstate' = [wstate EXCEPT ![w] = "ready"]
    BY <1>2, <2>3 DEF NotifyOne, Wake
  <2>5. Awake' = Awake \cup {w} /\ w \notin Awake
    BY <2>4 DEF Awake, Sleeping, TypeOK
  <2>6. Cardinality(Awake') = Cardinality(Awake) + 1
    BY <1>0, <2>5, FS_AddElement
  <2> QED BY <1>0, <2>1, <2>2, <2>3, <2>6 DEF WakeupPerJob
<1>3. ASSUME NEW w \in Workers, Wait(w) \/ Exit(w)
      PROVE  Len(pendingJobs') <= Cardinality(notifying') + Cardinality(Awake')
  <2>1. Len(pendingJobs') = 0
    BY <1>3 DEF Wait, Exit, MayProceed, MustExit, queueVars
  <2> QED BY <1>0, <2>1
<1>4. ASSUME NEW w \in Workers, TakeJob(w)
      PROVE  Len(pendingJobs') <= Cardinality(notifying') + Cardinality(Awake')
  <2>1. Len(pendingJobs') = Len(pendingJobs) - 1
    <3>1. pendingJobs # <<>>
      BY <1>4 DEF TakeJob, MayProceed, MustExit
    <3> QED BY <1>4, <3>1, ElementsHeadTail DEF TakeJob, TypeOK
  <2>2. /\ Sleeping' = Sleeping /\ notifying' = notifying
        /\ Awake' = Awake \ {w} /\ w \in Awake
    BY <1>4 DEF TakeJob, Sleeping, Awake, TypeOK
  <2>3. Cardinality(Awake') = Cardinality(Awake) - 1
    BY <1>0, <2>2, FS_RemoveElement
  <2> QED BY <1>0, <2>1, <2>2, <2>3 DEF WakeupPerJob
<1>5. ASSUME NEW w \in Workers, FinishJob(w) \/ SpuriousWakeup(w)
      PROVE  Len(pendingJobs') <= Cardinality(notifying') + Cardinality(Awake')
  <2>1. /\ Sleeping # {}
        /\ notifying' = notifying /\ pendingJobs' = pendingJobs
        /\ Awake' = Awake \cup {w} /\ w \notin Awake
    BY <1>5 DEF FinishJob, SpuriousWakeup, Wake, queueVars, Sleeping, Awake, TypeOK
  <2>2. Cardinality(Awake') = Cardinality(Awake) + 1
    BY <1>0, <2>1, FS_AddElement
  <2> QED BY <1>0, <2>1, <2>2 DEF WakeupPerJob
<1>6. CASE NotifyAll
  BY <1>6 DEF NotifyAll, Sleeping
<1>7. CASE \/ \E w \in Workers : ThrowJob(w)
           \/ Stop \/ JoinWorkers \/ Ended \/ UNCHANGED vars
  <2>1. UNCHANGED <<wstate, notifying, pendingJobs>>
    BY <1>7 DEF ThrowJob, Stop, JoinWorkers, Ended, vars, queueVars, workerVars
  <2> QED BY <2>1 DEF WakeupPerJob, Sleeping, Awake
<1> QED
  BY <1>1, <1>2, <1>3, <1>4, <1>5, <1>6, <1>7 DEF Next, WorkerStep

(* While a worker sleeps, every pending job has a notify_one still to come  *)
(* or an awake worker: no wakeup of scheduleJob is lost.                    *)
THEOREM NoLostWakeup == Spec => []WakeupPerJob
<1>1. Init => WakeupPerJob
  BY DEF Init, WakeupPerJob, Sleeping
<1> QED BY <1>1, WakeupStep, TypeCorrect, PTL DEF Spec

(***************************************************************************)
(* Jobs leave the queue in the order they entered it.                      *)
(***************************************************************************)
(* u is s followed by t. *)
Joined(u, s, t) == u = s \o t

(* Appending to a concatenation appends to its second part. *)
LEMMA AppendToJoined ==
  ASSUME NEW S, NEW s \in Seq(S), NEW t \in Seq(S), NEW u \in Seq(S), NEW e \in S,
         Joined(u, s, t)
  PROVE  Joined(Append(u, e), s, Append(t, e))
<1>1. <<e>> \in Seq(S)
  OBVIOUS
<1>2. Append(u, e) = u \o <<e>> /\ Append(t, e) = t \o <<e>>
  BY <1>1, AppendIsConcat
<1> QED BY <1>1, <1>2, ConcatAssociative DEF Joined

(* The head of the second part may join the first. *)
LEMMA HeadOfJoined ==
  ASSUME NEW S, NEW s \in Seq(S), NEW t \in Seq(S), NEW u, t # <<>>,
         Joined(u, s, t)
  PROVE  Joined(u, Append(s, Head(t)), Tail(t))
<1> QED BY DEF Joined

(* The pool serves jobs in the order in which they were pushed, each once.  *)
THEOREM FirstInFirstOut == Spec => []QueueOrder
<1>1. Init => QueueOrder
  BY DEF Init, QueueOrder
<1>2. TypeOK /\ QueueOrder /\ [Next]_vars => QueueOrder'
  <2> SUFFICES ASSUME TypeOK, Joined(submitted, taken, pendingJobs), [Next]_vars
               PROVE  Joined(submitted, taken, pendingJobs)'
    BY DEF Joined, QueueOrder
  <2>1. ASSUME NEW c \in Callers, NEW j \in Jobs, ScheduleJob(c, j)
        PROVE  Joined(submitted, taken, pendingJobs)'
    <3>1. Joined(Append(submitted, j), taken, Append(pendingJobs, j))
      BY AppendToJoined DEF TypeOK
    <3> QED BY <2>1, <3>1 DEF ScheduleJob, workerVars
  <2>2. ASSUME NEW w \in Workers, TakeJob(w) PROVE Joined(submitted, taken, pendingJobs)'
    <3>1. pendingJobs # <<>>
      BY <2>2 DEF TakeJob, MayProceed, MustExit
    <3>2. Joined(submitted, Append(taken, Head(pendingJobs)), Tail(pendingJobs))
      BY <3>1, HeadOfJoined DEF TypeOK
    <3> QED BY <2>2, <3>2 DEF TakeJob
  <2>3. CASE UNCHANGED <<pendingJobs, taken, submitted>>
    BY <2>3 DEF Joined
  <2> QED
    BY <2>1, <2>2, <2>3 DEF Next, WorkerStep, NotifyOne, Wait, FinishJob, ThrowJob,
       Exit, SpuriousWakeup, Stop, NotifyAll, JoinWorkers, Ended, vars,
       queueVars, workerVars
<1> QED BY <1>1, <1>2, TypeCorrect, PTL DEF Spec

(***************************************************************************)
(* The pool implements the job service.                                    *)
(***************************************************************************)
THEOREM Refinement == Spec => ImplementsService
<1>1. Init => Service!Init
  BY DEF Init, Service!Init, Running, Elements
<1>2. IInv /\ IInv' /\ [Next]_vars => [Service!Next]_(Service!vars)
  <2> SUFFICES ASSUME IInv, IInv', [Next]_vars
               PROVE  [Service!Next]_(Service!vars)
    OBVIOUS
  <2> USE DEF Service!Next
  <2>1. ASSUME NEW c \in Callers, NEW j \in Jobs, ScheduleJob(c, j)
        PROVE  Service!Submit(j)
    <3>1. Elements(submitted)' = Elements(submitted) \cup {j}
      BY <2>1, ElementsAppend DEF ScheduleJob, IInv, TypeOK
    <3>2. UNCHANGED <<Running, finished, stopper, up>>
      BY <2>1 DEF ScheduleJob, Running, workerVars
    <3> QED BY <2>1, <3>1, <3>2 DEF ScheduleJob, Service!Submit, IInv,
               Conservation, StopperState, TypeOK
  <2>2. ASSUME NEW w \in Workers, TakeJob(w) PROVE Service!Start
    <3>1. /\ Running' = Running \cup {Head(pendingJobs)}
          /\ Head(pendingJobs) \notin Running \cup finished
      BY <2>2, TakeStep
    <3>2. /\ UNCHANGED <<submitted, late, finished, stopper, up>> /\ up
          /\ pendingJobs # <<>> /\ pendingJobs' = Tail(pendingJobs)
          /\ stopper # "done"
      BY <2>2 DEF TakeJob, MayProceed, MustExit, IInv, StopReturned
    <3> QED BY <3>1, <3>2 DEF Service!Start, Elements, IInv, TypeOK
  <2>3. ASSUME NEW w \in Workers, FinishJob(w) PROVE Service!Complete(wjob[w])
    BY <2>3, FinishStep DEF FinishJob, Service!Complete, queueVars, Elements
  <2>4. ASSUME NEW w \in Workers, ThrowJob(w) PROVE Service!Crash
    <3>1. wjob[w] \in Running
      BY <2>4, PoolAssumption DEF ThrowJob, Running
    <3> QED BY <2>4, <3>1 DEF ThrowJob, Service!Crash, queueVars, workerVars,
               Elements, Running
  <2>5. CASE Stop
    BY <2>5 DEF Stop, Service!Close, workerVars, Elements, Running
  <2>6. CASE JoinWorkers
    <3>1. \A w \in Workers : wjob[w] = NoJob
      BY <2>6 DEF JoinWorkers, IInv, JobOfWorker, TypeOK
    <3>2. Running = {} /\ Pending \subseteq late
      BY <2>6, <3>1, PoolAssumption DEF JoinWorkers, Running, IInv, ExitedWorkers
    <3>3. Elements(submitted) \ late \subseteq finished
      BY <3>2 DEF IInv, Conservation
    <3> QED BY <2>6, <3>2, <3>3 DEF JoinWorkers, Service!Return, queueVars,
               workerVars, Elements, Running
  <2>7. CASE \/ NotifyAll \/ Ended \/ UNCHANGED vars
             \/ \E c \in Callers : NotifyOne(c)
             \/ \E w \in Workers : Wait(w) \/ Exit(w) \/ SpuriousWakeup(w)
    <3>1. UNCHANGED <<pendingJobs, submitted, late, wjob, finished, up>>
      BY <2>7 DEF NotifyAll, Ended, vars, NotifyOne, Wait, Exit, SpuriousWakeup,
         queueVars
    <3>2. \/ stopper' = stopper
          \/ stopper = "notifyAll" /\ stopper' = "join"
      BY <2>7 DEF NotifyAll, Ended, vars, NotifyOne, Wait, Exit, SpuriousWakeup
    <3> QED BY <3>1, <3>2 DEF Service!vars, Elements, Running
  <2>8. ASSUME NEW w \in Workers, FinishJob(w) PROVE wjob[w] \in Jobs
    BY <2>8, FinishStep
  <2> QED
    BY <2>1, <2>2, <2>3, <2>4, <2>5, <2>6, <2>7, <2>8 DEF Next, WorkerStep
<1> QED BY <1>1, <1>2, Invariant, PTL DEF Spec, ImplementsService, Service!Spec
=============================================================================
