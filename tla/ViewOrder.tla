------------------------------ MODULE ViewOrder ------------------------------
(***************************************************************************)
(* order_views: the views of a schema in an order in which they can be     *)
(* created.  Whether one view uses another is read from the text of its    *)
(* definition (references_view), which may find a name that is not meant   *)
(* as a reference: unlike the views of a database, these dependencies can  *)
(* have cycles.                                                            *)
(*                                                                         *)
(* Views are numbered in the order of their names.                         *)
(***************************************************************************)
EXTENDS Naturals, Sequences

CONSTANT NumViews
ASSUME NumViewsAssumption == NumViews \in Nat

Views == 1..NumViews

VARIABLES
  mentions,     \* <<v, w>>: the name of view w occurs in the definition of view v
  done,         \* the views emitted so far
  orderedViews  \* the same, in their order

viewVars == <<mentions, done, orderedViews>>

\* A mutant: the dependencies are turned around.
ReversedDeps(v) == {w \in Views \ {v} : <<w, v>> \in mentions}

\* The dependencies of v; a view that mentions itself does not wait for itself.
ViewDeps(v) == {w \in Views \ {v} : <<v, w>> \in mentions}

ViewInit ==
  /\ mentions \in SUBSET (Views \X Views)
  /\ done = {}
  /\ orderedViews = <<>>

\* Mutants: views that are done are looked at again; dependencies on views that
\* come later by name are not waited for.
ReadyAgain == {v \in Views : ViewDeps(v) \subseteq done}
ReadyBackward == {v \in Views \ done : \A w \in ViewDeps(v) : w < v => w \in done}

\* The views that are not done and whose dependencies all are.
Ready == {v \in Views \ done : ViewDeps(v) \subseteq done}

Emit(v) ==
  /\ done' = done \cup {v}
  /\ orderedViews' = Append(orderedViews, v)
  /\ UNCHANGED mentions

\* The first ready view comes next.
EmitReady ==
  \E v \in Ready : (\A w \in Ready : v <= w) /\ Emit(v)

\* A cycle: the first view that is not done comes next, and the search for ready
\* views goes on.
EmitFirst ==
  /\ Ready = {}
  /\ \E v \in Views \ done : (\A w \in Views \ done : v <= w) /\ Emit(v)

ViewDone == done = Views /\ UNCHANGED viewVars

ViewNext == EmitReady \/ EmitFirst \/ ViewDone

ViewSpec == ViewInit /\ [][ViewNext]_viewVars /\ WF_viewVars(EmitReady \/ EmitFirst)

------------------------------------------------------------------------------
\* Properties

\* The shape of the state: every view at most once.
ViewTypeOK ==
  /\ mentions \subseteq Views \X Views
  /\ done \subseteq Views
  /\ orderedViews \in Seq(Views)
  /\ Len(orderedViews) <= NumViews

\* Each of the views of S waits for another one of S.
Circular(S) == S # {} /\ \A v \in S : ViewDeps(v) \cap S # {}

\* False references do no harm beyond their cycle: a view is emitted before one
\* it depends on only if it depends, perhaps through others, on a cycle, and a
\* view that depends on none comes after everything it uses.
OnlyCyclesBreakOrder ==
  [][\A v \in done' \ done :
       ViewDeps(v) \subseteq done \/ \E S \in SUBSET Views : v \in S /\ Circular(S)]_viewVars

\* The result is a topological order whenever there is one, it has every view
\* once, and the loop ends, cycle or not.
ViewTopological == INSTANCE TopologicalOrder
  WITH Node <- Views, nodes <- Views, uses <- mentions, ordered <- orderedViews
ViewsAreTopological == ViewTopological!Spec
==============================================================================
