----------------------------- MODULE SourceTask -----------------------------
(***************************************************************************)
(* What collect_data relies on when it spawns a task for a source and      *)
(* awaits it: the task ends by itself, once, with data or with an error,   *)
(* and its outcome stays until it is taken.                                *)
(***************************************************************************)
CONSTANT Tasks
VARIABLE phase

Outcomes == {"ok", "err"}

Init == phase = [t \in Tasks |-> "idle"]

Spawn(t) ==
  /\ phase[t] = "idle"
  /\ phase' = [phase EXCEPT ![t] = "running"]

End(t) ==
  /\ phase[t] = "running"
  /\ \E o \in Outcomes : phase' = [phase EXCEPT ![t] = o]

Take(t) ==
  /\ phase[t] \in Outcomes
  /\ phase' = [phase EXCEPT ![t] = "idle"]

Next == \E t \in Tasks : Spawn(t) \/ End(t) \/ Take(t)

Spec == Init /\ [][Next]_phase /\ \A t \in Tasks : WF_phase(End(t))
=============================================================================
