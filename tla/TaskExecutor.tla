---------------------------- MODULE TaskExecutor ----------------------------
(***************************************************************************)
(* What a thread pool promises to the program that feeds it, with no        *)
(* workers, locks or condition variables in sight: tasks are started in     *)
(* the order they were accepted, each at most once; a graceful close        *)
(* accepts nothing more but lets everything accepted run; an abort drops    *)
(* what has not been started; and the executor reports that it has stopped  *)
(* only when nothing is pending and nothing runs.                           *)
(*                                                                          *)
(* ThreadPool.tla is shown to implement this specification.                 *)
(***************************************************************************)
EXTENDS Naturals, Sequences

CONSTANT Tasks      (* the tasks a program may submit, each at most once    *)

VARIABLES
  pending,          (* accepted and not yet started, oldest first           *)
  running,          (* started and not yet finished                         *)
  done,             (* finished                                             *)
  closed,           (* a shutdown has been requested                        *)
  stopped           (* the shutdown has returned                            *)

vars == <<pending, running, done, closed, stopped>>

Pending == {pending[i] : i \in DOMAIN pending}

Init ==
  /\ pending = <<>>
  /\ running = {}
  /\ done = {}
  /\ closed = FALSE
  /\ stopped = FALSE

Accept(t) ==
  /\ ~closed
  /\ t \notin Pending \cup running \cup done
  /\ pending' = Append(pending, t)
  /\ UNCHANGED <<running, done, closed, stopped>>

Start ==
  /\ pending # <<>>
  /\ running' = running \cup {Head(pending)}
  /\ pending' = Tail(pending)
  /\ UNCHANGED <<done, closed, stopped>>

Finish(t) ==
  /\ t \in running
  /\ running' = running \ {t}
  /\ done' = done \cup {t}
  /\ UNCHANGED <<pending, closed, stopped>>

Close ==
  /\ ~closed
  /\ closed' = TRUE
  /\ UNCHANGED <<pending, running, done, stopped>>

Abort ==
  /\ ~closed
  /\ closed' = TRUE
  /\ pending' = <<>>
  /\ UNCHANGED <<running, done, stopped>>

Stop ==
  /\ closed
  /\ pending = <<>>
  /\ running = {}
  /\ stopped' = TRUE
  /\ UNCHANGED <<pending, running, done, closed>>

Next ==
  \/ \E t \in Tasks : Accept(t) \/ Finish(t)
  \/ Start
  \/ Close
  \/ Abort
  \/ Stop

Spec == Init /\ [][Next]_vars
=============================================================================
