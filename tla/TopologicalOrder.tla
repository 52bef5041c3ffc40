-------------------------- MODULE TopologicalOrder ---------------------------
(***************************************************************************)
(* What ordering objects by dependency promises, whatever the algorithm:   *)
(* every object is emitted exactly once, and if the dependencies have no   *)
(* cycle an object is emitted only after everything it depends on.         *)
(***************************************************************************)
EXTENDS Naturals, Sequences

CONSTANT Node

VARIABLES
  nodes,   \* the objects to order
  uses,    \* <<t, d>>: object t depends on object d
  ordered  \* the objects emitted so far

vars == <<nodes, uses, ordered>>

Emitted == {ordered[i] : i \in 1..Len(ordered)}

DependsOn(t) == {d \in nodes : <<t, d>> \in uses /\ d # t}

\* No set of objects in which each depends on another one of the set.
Acyclic == \A S \in SUBSET nodes : S # {} => \E t \in S : DependsOn(t) \cap S = {}

Init ==
  /\ nodes \subseteq Node
  /\ ordered = <<>>

Emit(t) ==
  /\ t \in nodes \ Emitted
  /\ Acyclic => DependsOn(t) \subseteq Emitted
  /\ ordered' = Append(ordered, t)
  /\ UNCHANGED <<nodes, uses>>

Next == \E t \in nodes : Emit(t)

Spec == Init /\ [][Next]_vars /\ WF_vars(Next)
==============================================================================
