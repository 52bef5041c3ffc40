--------------------------- MODULE DependencyOrder ---------------------------
(***************************************************************************)
(* order_by_dependency: the types and functions of a PostgreSQL schema in  *)
(* an order in which they can be created.  Objects without dependencies    *)
(* left are taken smallest key first; what is on a cycle is appended at    *)
(* the end in the order of the keys.                                       *)
(*                                                                         *)
(* Keys are numbers in their order, (kind, oid) in the code.  A dependency *)
(* is a triple <<t, d, copy>>: pg_depend may list the same pair more than  *)
(* once, and may name objects that are not being ordered.                  *)
(***************************************************************************)
EXTENDS Naturals, Sequences, FiniteSets

CONSTANTS
  NumKeys,   \* keys that nodes and dependencies range over
  NumCopies, \* how often pg_depend may repeat a pair
  MaxDeps    \* bound: dependencies in all

ASSUME NumKeysAssumption == NumKeys \in Nat /\ NumCopies \in Nat
ASSUME MaxDepsAssumption == MaxDeps \in Nat

VARIABLES
  nodes,      \* the keys that have a statement
  deps,       \* <<t, d, copy>>: t uses d
  statements, \* the keys whose statement has not been taken out yet
  pending,    \* for each key, its dependencies that are still to come
  ready,      \* keys that nothing is pending for
  ordered     \* the statements in their order

vars == <<nodes, deps, statements, pending, ready, ordered>>

Keys == 1..NumKeys
Deps == Keys \X Keys \X (1..NumCopies)

\* A mutant: a dependency on itself counts.
RelevantWithSelf(D, N) == {e \in D : {e[1], e[2]} \subseteq N}

\* The dependencies that count: between two different nodes.
Relevant(D, N) == {e \in D : e[1] # e[2] /\ {e[1], e[2]} \subseteq N}

\* The dependencies of t on objects of S.
On(t, S) == {e \in Relevant(deps, nodes) : e[1] = t /\ e[2] \in S}

\* t is what pop_first takes out of an ordered set S.
IsFirst(t, S) == t \in S /\ \A j \in S : t <= j

Init ==
  /\ nodes \in SUBSET Keys
  /\ deps \in {D \in SUBSET Deps : Cardinality(D) <= MaxDeps}
  /\ statements = nodes
  /\ pending = [t \in Keys |-> Cardinality(On(t, nodes))]
  /\ ready = {t \in nodes : pending[t] = 0}
  /\ ordered = <<>>

\* A mutant: the smallest ready key is not taken out of the set.
PopPeeking ==
  \E t \in ready :
    /\ IsFirst(t, ready)
    /\ statements' = statements \ {t}
    /\ ordered' = Append(ordered, t)
    /\ pending' = [u \in Keys |-> pending[u] - Cardinality(On(u, {t}))]
    /\ ready' = ready \cup {u \in nodes : On(u, {t}) # {} /\ pending'[u] = 0}
    /\ UNCHANGED <<nodes, deps>>

\* The smallest ready key is emitted, and those that waited for nothing else
\* become ready.
Pop ==
  \E t \in ready :
    /\ IsFirst(t, ready)
    /\ statements' = statements \ {t}
    /\ ordered' = Append(ordered, t)
    /\ pending' = [u \in Keys |-> pending[u] - Cardinality(On(u, {t}))]
    /\ ready' = (ready \ {t}) \cup {u \in nodes : On(u, {t}) # {} /\ pending'[u] = 0}
    /\ UNCHANGED <<nodes, deps>>

\* Nothing is ready: what is left is appended in the order of the keys.
AppendLeftover ==
  /\ ready = {}
  /\ \E t \in statements :
       /\ IsFirst(t, statements)
       /\ statements' = statements \ {t}
       /\ ordered' = Append(ordered, t)
  /\ UNCHANGED <<nodes, deps, pending, ready>>

Done == statements = {} /\ UNCHANGED vars

Next == Pop \/ AppendLeftover \/ Done

Spec == Init /\ [][Next]_vars /\ WF_vars(Pop \/ AppendLeftover)

------------------------------------------------------------------------------
\* Properties

\* The shape of the state; in particular no count goes below zero.
TypeOK ==
  /\ nodes \subseteq Keys /\ deps \subseteq Deps
  /\ statements \subseteq nodes /\ ready \subseteq statements
  /\ pending \in [Keys -> Nat]
  /\ ordered \in Seq(nodes)

\* A node is ready exactly when everything it uses has been emitted, however
\* often its dependencies are repeated: as long as something is ready, no node
\* is released too early or forgotten.
ReadyMeansFree ==
  ready # {} => ready = {t \in statements : On(t, statements) = {}}

\* What is emitted although nothing is ready really is stuck: it belongs to
\* objects each of which uses another one of them.
Stuck(t) == \E S \in SUBSET nodes : t \in S /\ \A u \in S : On(u, S) # {}
LeftoverIsStuck ==
  [][ready = {} => \A t \in statements : t \notin statements' => Stuck(t)]_vars

\* The result is a topological order of the nodes whenever there is one, it has
\* every node once, and the loop ends.
Topological == INSTANCE TopologicalOrder
  WITH Node <- Keys, uses <- {<<e[1], e[2]>> : e \in deps}
IsTopological == Topological!Spec
==============================================================================
