---------------------------- MODULE TaskExecution ----------------------------
(***************************************************************************)
(* What running a build promises, whatever the scene queue, the stamps, the *)
(* workers and the schedulers do: the tasks of an acyclic graph are started *)
(* at most once each, and completed at most once each, in an order in which *)
(* a task comes after all it depends on; and once the build has ended       *)
(* nothing happens any more.  A task can be completed without running (it   *)
(* is skipped); one that fails is started and never completed.              *)
(***************************************************************************)
EXTENDS FiniteSets

CONSTANTS Tasks, Depends

VARIABLES started, complete, ended

vars == <<started, complete, ended>>

Init == started = {} /\ complete = {} /\ ended = FALSE

Ready(t) == ~ended /\ t \in Tasks \ started /\ Depends[t] \subseteq complete

Start(t) ==
  /\ Ready(t)
  /\ started' = started \cup {t}
  /\ UNCHANGED <<complete, ended>>

Complete(t) ==
  /\ ~ended /\ t \in started \ complete
  /\ complete' = complete \cup {t}
  /\ UNCHANGED <<started, ended>>

Skip(t) ==
  /\ Ready(t)
  /\ started' = started \cup {t} /\ complete' = complete \cup {t}
  /\ UNCHANGED ended

End == ended' = TRUE /\ UNCHANGED <<started, complete>>

Next == (\E t \in Tasks : Start(t) \/ Complete(t) \/ Skip(t)) \/ End

Spec == Init /\ [][Next]_vars

=============================================================================
