----------------------------- MODULE Dispatcher -----------------------------
(***************************************************************************)
(* The thread pool of src/core/Dispatcher.cpp and Worker.cpp: a queue of   *)
(* jobs guarded by jobQueueMutex_, a condition variable jobNotifier_ on    *)
(* which idle workers sleep, and stop(), which lets the workers drain the  *)
(* queue and joins them.                                                   *)
(*                                                                         *)
(* Every access to pendingJobs_ and stopped_ happens under the mutex, so   *)
(* one critical section is one step.  The notifications are sent after     *)
(* the mutex is released and are steps of their own.                       *)
(***************************************************************************)
EXTENDS Naturals, Sequences, FiniteSets

CONSTANTS Workers,   (* threads started by the constructor                  *)
          Callers,   (* threads that call scheduleJob                       *)
          Jobs,      (* jobs, each scheduled at most once                   *)
          Blocking,  (* jobs that may never return (a read with no timeout) *)
          Throwing,  (* jobs that may throw out of Job::func                *)
          NoJob      (* "this worker runs no job"                           *)

ASSUME PoolAssumption ==
  /\ IsFiniteSet(Workers) /\ Workers # {}
  /\ IsFiniteSet(Callers)
  /\ Blocking \subseteq Jobs
  /\ Throwing \subseteq Jobs
  /\ NoJob \notin Jobs

VARIABLES
  pendingJobs,  (* pendingJobs_: the queue                                   *)
  stopped,      (* stopped_                                                  *)
  wstate,       (* where each worker is in threadMain/doJob                  *)
  wjob,         (* takenJob of each worker                                   *)
  notifying,    (* callers between unlock() and notify_one() of scheduleJob  *)
  stopper,      (* where the thread that calls stop() is                     *)
  up,           (* FALSE once std::terminate has ended the process           *)
  submitted,    (* history: jobs in the order they were pushed               *)
  taken,        (* history: jobs in the order they were popped               *)
  finished,     (* history: jobs whose func returned                         *)
  late          (* history: jobs pushed after stop() had set stopped_        *)

queueVars == <<pendingJobs, stopped, submitted, late>>
workerVars == <<wstate, wjob, taken, finished>>
vars == <<pendingJobs, stopped, wstate, wjob, notifying, stopper, up,
          submitted, taken, finished, late>>

(* The workers asleep on jobNotifier_, and those that compete for the mutex *)
Sleeping == {w \in Workers : wstate[w] = "waiting"}
Awake == {w \in Workers : wstate[w] = "ready"}

Elements(s) == {s[i] : i \in 1..Len(s)}

TypeOK ==
  /\ pendingJobs \in Seq(Jobs)
  /\ stopped \in BOOLEAN
  /\ wstate \in [Workers -> {"ready", "waiting", "running", "exited"}]
  /\ wjob \in [Workers -> Jobs \cup {NoJob}]
  /\ notifying \subseteq Callers
  /\ stopper \in {"idle", "notifyAll", "join", "done"}
  /\ up \in BOOLEAN
  /\ submitted \in Seq(Jobs)
  /\ taken \in Seq(Jobs)
  /\ finished \subseteq Jobs
  /\ late \subseteq Jobs

Init ==
  /\ pendingJobs = <<>>
  /\ stopped = FALSE
  /\ wstate = [w \in Workers |-> "ready"]
  /\ wjob = [w \in Workers |-> NoJob]
  /\ notifying = {}
  /\ stopper = "idle"
  /\ up = TRUE
  /\ submitted = <<>>
  /\ taken = <<>>
  /\ finished = {}
  /\ late = {}

-----------------------------------------------------------------------------
(* scheduleJob: the push under the mutex ...                                *)
ScheduleJob(c, j) ==
  /\ up
  /\ c \notin notifying
  /\ j \notin Elements(submitted)
  /\ pendingJobs' = Append(pendingJobs, j)
  /\ submitted' = Append(submitted, j)
  /\ late' = IF stopped THEN late \cup {j} ELSE late
  /\ notifying' = notifying \cup {c}
  /\ UNCHANGED <<stopped, workerVars, stopper, up>>

(* A sleeping worker wakes up and competes for the mutex again.             *)
Wake(w) == wstate' = [wstate EXCEPT ![w] = "ready"]

(* Mutant: the notification is forgotten.                                   *)
NotifyOneForgotten(c) ==
  /\ up
  /\ c \in notifying
  /\ notifying' = notifying \ {c}
  /\ UNCHANGED <<queueVars, workerVars, stopper, up>>

(* ... and notify_one() after it: any one sleeper, or nobody.               *)
NotifyOne(c) ==
  /\ up
  /\ c \in notifying
  /\ notifying' = notifying \ {c}
  /\ IF Sleeping = {} THEN UNCHANGED wstate ELSE \E w \in Sleeping : Wake(w)
  /\ UNCHANGED <<queueVars, wjob, taken, finished, stopper, up>>

-----------------------------------------------------------------------------
(* Mutant: the predicate of the wait forgets stopped_.                      *)
MayProceedIgnoringStop == pendingJobs # <<>>

(* The predicate of the wait in doJob.                                      *)
MayProceed == pendingJobs # <<>> \/ stopped

(* Mutant: a worker leaves as soon as it sees the stop.                     *)
MustExitUndrained == stopped

(* The early return of doJob: stopped and nothing left to do.               *)
MustExit == stopped /\ pendingJobs = <<>>

(* doJob, predicate false: release the mutex and sleep, in one step.        *)
Wait(w) ==
  /\ up
  /\ wstate[w] = "ready"
  /\ ~MayProceed
  /\ wstate' = [wstate EXCEPT ![w] = "waiting"]
  /\ UNCHANGED <<queueVars, wjob, taken, finished, notifying, stopper, up>>

(* std::condition_variable may wake a sleeper with no notification.         *)
SpuriousWakeup(w) ==
  /\ up
  /\ wstate[w] = "waiting"
  /\ Wake(w)
  /\ UNCHANGED <<queueVars, wjob, taken, finished, notifying, stopper, up>>

(* Mutant: the pool takes the newest job first.                             *)
TakeNewestJob(w) ==
  /\ up
  /\ wstate[w] = "ready"
  /\ MayProceed
  /\ ~MustExit
  /\ wjob' = [wjob EXCEPT ![w] = pendingJobs[Len(pendingJobs)]]
  /\ taken' = Append(taken, pendingJobs[Len(pendingJobs)])
  /\ pendingJobs' = SubSeq(pendingJobs, 1, Len(pendingJobs) - 1)
  /\ wstate' = [wstate EXCEPT ![w] = "running"]
  /\ UNCHANGED <<stopped, submitted, late, finished, notifying, stopper, up>>

(* Mutant: takenJob is not set.                                             *)
TakeJobUnset(w) ==
  /\ up
  /\ wstate[w] = "ready"
  /\ MayProceed
  /\ ~MustExit
  /\ taken' = Append(taken, Head(pendingJobs))
  /\ pendingJobs' = Tail(pendingJobs)
  /\ wstate' = [wstate EXCEPT ![w] = "running"]
  /\ UNCHANGED <<wjob, stopped, submitted, late, finished, notifying, stopper, up>>

(* doJob, predicate true: pop the oldest job and release the mutex.         *)
TakeJob(w) ==
  /\ up
  /\ wstate[w] = "ready"
  /\ MayProceed
  /\ ~MustExit
  /\ wjob' = [wjob EXCEPT ![w] = Head(pendingJobs)]
  /\ taken' = Append(taken, Head(pendingJobs))
  /\ pendingJobs' = Tail(pendingJobs)
  /\ wstate' = [wstate EXCEPT ![w] = "running"]
  /\ UNCHANGED <<stopped, submitted, late, finished, notifying, stopper, up>>

(* takenJob.func() returns, doJob returns true, threadMain calls it again.  *)
FinishJob(w) ==
  /\ up
  /\ wstate[w] = "running"
  /\ finished' = finished \cup {wjob[w]}
  /\ wjob' = [wjob EXCEPT ![w] = NoJob]
  /\ wstate' = [wstate EXCEPT ![w] = "ready"]
  /\ UNCHANGED <<queueVars, taken, notifying, stopper, up>>

(* takenJob.func() throws: nothing in doJob or threadMain catches it, so    *)
(* std::terminate ends the process.                                         *)
ThrowJob(w) ==
  /\ up
  /\ wstate[w] = "running"
  /\ wjob[w] \in Throwing
  /\ up' = FALSE
  /\ UNCHANGED <<queueVars, workerVars, notifying, stopper>>

(* doJob returns false and threadMain returns.                              *)
Exit(w) ==
  /\ up
  /\ wstate[w] = "ready"
  /\ MustExit
  /\ wstate' = [wstate EXCEPT ![w] = "exited"]
  /\ UNCHANGED <<queueVars, wjob, taken, finished, notifying, stopper, up>>

-----------------------------------------------------------------------------
(* stop(): set stopped_ under the mutex ...                                 *)
Stop ==
  /\ up
  /\ stopper = "idle"
  /\ stopped' = TRUE
  /\ stopper' = "notifyAll"
  /\ UNCHANGED <<pendingJobs, submitted, late, workerVars, notifying, up>>

(* Mutant: stop() wakes one worker only.                                    *)
NotifyOneOnStop ==
  /\ up
  /\ stopper = "notifyAll"
  /\ stopper' = "join"
  /\ IF Sleeping = {} THEN UNCHANGED wstate ELSE \E w \in Sleeping : Wake(w)
  /\ UNCHANGED <<queueVars, wjob, taken, finished, notifying, up>>

(* ... notify_all() ...                                                     *)
NotifyAll ==
  /\ up
  /\ stopper = "notifyAll"
  /\ stopper' = "join"
  /\ wstate' = [w \in Workers |->
                  IF w \in Sleeping THEN "ready" ELSE wstate[w]]
  /\ UNCHANGED <<queueVars, wjob, taken, finished, notifying, up>>

(* ... and return once every worker thread has been joined.                 *)
JoinWorkers ==
  /\ up
  /\ stopper = "join"
  /\ \A w \in Workers : wstate[w] = "exited"
  /\ stopper' = "done"
  /\ UNCHANGED <<queueVars, workerVars, notifying, up>>

(* The pool is stopped, or the process has ended: nothing more to do.       *)
Ended ==
  /\ stopper = "done" \/ ~up
  /\ UNCHANGED vars

WorkerStep(w) == \/ Wait(w) \/ TakeJob(w) \/ FinishJob(w) \/ ThrowJob(w)
                 \/ Exit(w) \/ SpuriousWakeup(w)

Next ==
  \/ \E c \in Callers : NotifyOne(c) \/ \E j \in Jobs : ScheduleJob(c, j)
  \/ \E w \in Workers : WorkerStep(w)
  \/ Stop \/ NotifyAll \/ JoinWorkers
  \/ Ended

Spec == Init /\ [][Next]_vars

(* What the scheduler owes: a worker that can take the mutex or whose job   *)
(* can return does so, except that a Blocking job owes nothing; a caller    *)
(* sends the notification it is about to send; stop(), once called, runs.   *)
(* Nobody is obliged to schedule a job or to call stop().                   *)
Fairness ==
  /\ \A w \in Workers :
       WF_vars(\/ Wait(w) \/ TakeJob(w) \/ Exit(w)
               \/ wjob[w] \notin Blocking /\ FinishJob(w))
  /\ \A c \in Callers : WF_vars(NotifyOne(c))
  /\ WF_vars(NotifyAll)
  /\ WF_vars(JoinWorkers)

FairSpec == Spec /\ Fairness

-----------------------------------------------------------------------------
(* Whenever somebody sleeps, every pending job has a wakeup on its way: a   *)
(* notify_one still to be sent or a worker already awake.  Without it a job *)
(* sits in the queue while a worker sleeps (scheduleJob notifies after it   *)
(* has released the mutex, so the two are not one step).                    *)
WakeupPerJob ==
  Sleeping # {} =>
    Len(pendingJobs) <= Cardinality(notifying) + Cardinality(Awake)

(* After notify_all no worker sleeps or goes back to sleep, or stop() would *)
(* never return from join().                                                *)
NoSleeperAfterStop == stopper \in {"join", "done"} => Sleeping = {}

(* The jobs popped and the jobs pending are the jobs pushed, in push order: *)
(* no job is lost, run twice or overtaken.                                  *)
QueueOrder == submitted = taken \o pendingJobs

(* When stop() returns, every job pushed before the call has run to its     *)
(* end: doJob returns false only once the queue is empty.                   *)
DrainedAtStop ==
  stopper = "done" => Elements(submitted) \ late \subseteq finished

(* The refinement mapping to JobService: the phase of the service is where  *)
(* the thread in stop() is, and what is owed is what was pushed before it.  *)
Running == {wjob[w] : w \in Workers} \ {NoJob}

Service == INSTANCE JobService WITH
  queue <- pendingJobs,
  seen <- Elements(submitted),
  owed <- Elements(submitted) \ late,
  running <- Running,
  done <- finished,
  phase <- CASE stopper = "idle" -> "open"
             [] stopper = "done" -> "closed"
             [] OTHER -> "closing"

(* The pool does what JobService promises: jobs start in push order, at     *)
(* most once, and stop() returns only after all it owed is done.            *)
ImplementsService == Service!Spec

(* A job pushed before stop() is eventually taken by a worker, as long as   *)
(* the jobs that may block forever are fewer than the workers, unless one   *)
(* brings the process down.                                                 *)
JobsServed ==
  \A j \in Jobs :
    (j \in Elements(submitted) /\ j \notin late) ~> (j \in Elements(taken) \/ ~up)

(* Once called, stop() returns, unless a worker it must join is in a job    *)
(* that may block forever, or the process ends: no other order of           *)
(* scheduleJob, doJob and stop leaves a worker asleep or the joining thread *)
(* behind.                                                                  *)
StopReturns ==
  stopped ~> (stopper = "done" \/ ~up \/ \E w \in Workers : wjob[w] \in Blocking)

=============================================================================
