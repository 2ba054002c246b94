------------------------------ MODULE TaskPool ------------------------------
(***************************************************************************)
(* What a pool of threads promises its clients: accepted tasks are started *)
(* in the order they were accepted, at most Size at a time, each of them   *)
(* once; a closed pool accepts nothing; closing it either keeps the        *)
(* waiting tasks or drops all of them.                                     *)
(***************************************************************************)
EXTENDS Naturals, Sequences, FiniteSets

CONSTANTS Task, Size

VARIABLES
  seen,      \* the tasks ever accepted
  todo,      \* those that wait, in the order of acceptance
  running,   \* those that threads execute now
  closed     \* whether the pool refuses tasks

vars == <<seen, todo, running, closed>>

Init ==
  /\ seen = {}
  /\ todo = <<>>
  /\ running = {}
  /\ closed = FALSE

Accept(t) ==
  /\ ~closed
  /\ t \notin seen
  /\ seen' = seen \cup {t}
  /\ todo' = Append(todo, t)
  /\ UNCHANGED <<running, closed>>

Start ==
  /\ todo # <<>>
  /\ Cardinality(running) < Size
  /\ running' = running \cup {Head(todo)}
  /\ todo' = Tail(todo)
  /\ UNCHANGED <<seen, closed>>

Finish(t) ==
  /\ t \in running
  /\ running' = running \ {t}
  /\ UNCHANGED <<seen, todo, closed>>

Close ==
  /\ closed' = TRUE
  /\ todo' \in {todo, <<>>}
  /\ UNCHANGED <<seen, running>>

Next ==
  \/ \E t \in Task : Accept(t) \/ Finish(t)
  \/ Start
  \/ Close

Spec == Init /\ [][Next]_vars
=============================================================================
