----------------------------- MODULE JobService -----------------------------
(***************************************************************************)
(* What the thread pool promises to its users, with no threads, mutex or   *)
(* condition variable: jobs start in the order they were submitted, each   *)
(* at most once, and close() returns only after every job submitted before *)
(* it has run to its end.  Dispatcher implements this specification.       *)
(***************************************************************************)
EXTENDS Naturals, Sequences

CONSTANTS Jobs,     (* all jobs                                *)
          Throwing  (* jobs that may bring the process down    *)

VARIABLES
  queue,    (* submitted and not started, oldest first              *)
  seen,     (* every job submitted so far                           *)
  owed,     (* the jobs submitted before the service was closed     *)
  running,  (* started and not completed                            *)
  done,     (* completed                                            *)
  phase,    (* "open", "closing" (close() called) or "closed"       *)
  up        (* FALSE once the process has ended                     *)

vars == <<queue, seen, owed, running, done, phase, up>>

Init ==
  /\ queue = <<>>
  /\ seen = {} /\ owed = {} /\ running = {} /\ done = {}
  /\ phase = "open"
  /\ up = TRUE

Submit(j) ==
  /\ up
  /\ j \notin seen
  /\ seen' = seen \cup {j}
  /\ owed' = IF phase = "open" THEN owed \cup {j} ELSE owed
  /\ queue' = Append(queue, j)
  /\ UNCHANGED <<running, done, phase, up>>

Start ==
  /\ up /\ phase # "closed"
  /\ queue # <<>>
  /\ Head(queue) \notin running \cup done
  /\ running' = running \cup {Head(queue)}
  /\ queue' = Tail(queue)
  /\ UNCHANGED <<seen, owed, done, phase, up>>

Complete(j) ==
  /\ up
  /\ j \in running
  /\ running' = running \ {j}
  /\ done' = done \cup {j}
  /\ UNCHANGED <<queue, seen, owed, phase, up>>

Close ==
  /\ up /\ phase = "open"
  /\ phase' = "closing"
  /\ UNCHANGED <<queue, seen, owed, running, done, up>>

Return ==
  /\ up /\ phase = "closing"
  /\ owed \subseteq done
  /\ running = {}
  /\ phase' = "closed"
  /\ UNCHANGED <<queue, seen, owed, running, done, up>>

Crash ==
  /\ up
  /\ running \cap Throwing # {}
  /\ up' = FALSE
  /\ UNCHANGED <<queue, seen, owed, running, done, phase>>

Next ==
  \/ \E j \in Jobs : Submit(j) \/ Complete(j)
  \/ Start \/ Close \/ Return \/ Crash

Spec == Init /\ [][Next]_vars
=============================================================================
