----------------------------- MODULE OrderProofs ------------------------------
(***************************************************************************)
(* The two orders that the exporter computes, that of order_by_dependency, *)
(* for any number of objects and any dependencies between them, and that   *)
(* of order_views, for any number of views and any mentions between them.  *)
(***************************************************************************)
EXTENDS DependencyOrder, ViewOrder, FiniteSetTheorems, TLAPS

------------------------------------------------------------------------------
\* Types and functions

Emitted == {ordered[i] : i \in 1..Len(ordered)}

(***************************************************************************)
(* The inductive invariant.  While something is ready the counts are those *)
(* of the dependencies still to come; they are no longer kept once the     *)
(* main loop has ended, but then everything left over is stuck.            *)
(***************************************************************************)
CountsAreExact ==
  ready # {} =>
    /\ \A u \in Keys : pending[u] = Cardinality(On(u, statements))
    /\ ready = {t \in statements : pending[t] = 0}

EmittedWaitForNothing ==
  ready # {} => \A u \in nodes \ statements : On(u, statements) = {}

LeftoverStuck == ready = {} => \A t \in statements : Stuck(t)

EmittedIsTheRest == statements = nodes \ Emitted

IInv ==
  /\ TypeOK
  /\ CountsAreExact
  /\ EmittedWaitForNothing
  /\ LeftoverStuck
  /\ EmittedIsTheRest

------------------------------------------------------------------------------
\* Lemmas about the dependencies

\* The dependencies of an object on a set of objects are finitely many.
LEMMA OnFinite ==
  ASSUME deps \subseteq Deps, NEW t, NEW S
  PROVE  IsFiniteSet(On(t, S)) /\ Cardinality(On(t, S)) \in Nat
<1>1. IsFiniteSet(1..NumKeys) /\ IsFiniteSet(1..NumCopies)
  BY FS_Interval, NumKeysAssumption
<1>2. IsFiniteSet((Keys \X Keys) \X (1..NumCopies))
  BY <1>1, FS_Product DEF Keys
<1>3. IsFiniteSet(Deps)
  <2> DEFINE f == [e \in Deps |-> <<<<e[1], e[2]>>, e[3]>>]
  <2>1. f \in Injection(Deps, (Keys \X Keys) \X (1..NumCopies))
    <3>1. f \in [Deps -> (Keys \X Keys) \X (1..NumCopies)]
      BY DEF Deps
    <3>2. \A a, b \in Deps : f[a] = f[b] => a = b
      BY DEF Deps
    <3> QED  BY <3>1, <3>2 DEF Injection, IsInjective
  <2> QED  BY <2>1, <1>2, FS_Injection
<1>4. On(t, S) \in SUBSET Deps
  BY DEF On, Relevant
<1> QED  BY <1>3, <1>4, FS_Subset, FS_CardinalityType

\* Emitting t takes the dependencies on t away from those still to come.
LEMMA OnWithout ==
  ASSUME deps \subseteq Deps, NEW u, NEW S, NEW t \in S
  PROVE  Cardinality(On(u, S \ {t})) = Cardinality(On(u, S)) - Cardinality(On(u, {t}))
<1>1. On(u, S \ {t}) = On(u, S) \ On(u, {t})
  BY DEF On
<1>2. On(u, S) \cap On(u, {t}) = On(u, {t})
  BY DEF On
<1>3. IsFiniteSet(On(u, S))
  BY OnFinite
<1>4. Cardinality(On(u, S) \ On(u, {t})) = Cardinality(On(u, S)) - Cardinality(On(u, S) \cap On(u, {t}))
  BY <1>3, FS_Difference
<1> QED  BY <1>1, <1>2, <1>4, Zenon

\* A count of zero means that there are none.
LEMMA OnEmpty ==
  ASSUME deps \subseteq Deps, NEW u, NEW S
  PROVE  Cardinality(On(u, S)) = 0 <=> On(u, S) = {}
BY OnFinite, FS_EmptySet

\* Whether an object is stuck depends on the dependencies only.
LEMMA StuckStays ==
  ASSUME UNCHANGED <<nodes, deps>>
  PROVE  \A t : Stuck(t)' = Stuck(t)
<1>1. \A u, S : On(u, S)' = On(u, S)
  BY DEF On, Relevant
<1> QED  BY <1>1 DEF Stuck

\* Appending an element adds it to the elements of the list.
LEMMA EmittedAppend ==
  ASSUME ordered \in Seq(nodes), NEW t, ordered' = Append(ordered, t)
  PROVE  Emitted' = Emitted \cup {t}
<1>1. Len(ordered') = Len(ordered) + 1 /\ Len(ordered) \in Nat
  OBVIOUS
<1>2. \A i \in 1..Len(ordered) : ordered'[i] = ordered[i]
  OBVIOUS
<1>3. ordered'[Len(ordered) + 1] = t
  OBVIOUS
<1> QED  BY <1>1, <1>2, <1>3 DEF Emitted

------------------------------------------------------------------------------
\* The invariant is inductive

LEMMA InitIInv == Init => IInv
<1> SUFFICES ASSUME Init PROVE IInv
  OBVIOUS
<1>1. deps \subseteq Deps
  BY DEF Init
<1>2. TypeOK
  BY <1>1, OnFinite DEF Init, TypeOK
<1>3. CountsAreExact
  BY DEF Init, CountsAreExact
<1>4. LeftoverStuck
  <2> SUFFICES ASSUME ready = {}, NEW t \in nodes PROVE Stuck(t)
    BY DEF LeftoverStuck, Init
  <2>1. \A u \in nodes : Cardinality(On(u, nodes)) # 0
    BY DEF Init
  <2>2. \A u \in nodes : On(u, nodes) # {}
    BY <2>1, <1>1, OnEmpty
  <2> QED  BY <2>2 DEF Stuck
<1>5. EmittedIsTheRest
  BY DEF EmittedIsTheRest, Emitted, Init
<1>6. EmittedWaitForNothing
  BY DEF EmittedWaitForNothing, Init
<1> QED  BY <1>2, <1>3, <1>4, <1>5, <1>6 DEF IInv

LEMMA PopIInv == IInv /\ Pop => IInv'
<1> SUFFICES ASSUME IInv, Pop PROVE IInv'
  OBVIOUS
<1> USE DEF IInv
<1>1. PICK t \in ready :
        /\ statements' = statements \ {t}
        /\ ordered' = Append(ordered, t)
        /\ pending' = [u \in Keys |-> pending[u] - Cardinality(On(u, {t}))]
        /\ ready' = (ready \ {t}) \cup {u \in nodes : On(u, {t}) # {} /\ pending'[u] = 0}
        /\ UNCHANGED <<nodes, deps>>
  BY DEF Pop
<1>2. t \in statements /\ statements \subseteq nodes /\ nodes \subseteq Keys /\ deps \subseteq Deps
  BY DEF TypeOK
<1>3. \A u \in Keys : pending'[u] = Cardinality(On(u, statements \ {t}))
  <2> SUFFICES ASSUME NEW u \in Keys
               PROVE  pending[u] - Cardinality(On(u, {t})) = Cardinality(On(u, statements \ {t}))
    BY <1>1
  <2>1. pending[u] = Cardinality(On(u, statements))
    BY <1>1 DEF CountsAreExact
  <2> QED  BY <2>1, <1>2, OnWithout
<1>4. \A u \in Keys : pending'[u] \in Nat
  BY <1>3, <1>2, OnFinite
<1>5. \A u \in statements : pending[u] = 0 <=> u \in ready
  BY <1>1 DEF CountsAreExact
<1>6. On(t, statements) = {}
  BY <1>1, <1>2, <1>5, OnEmpty DEF CountsAreExact
<1>7. \A u \in nodes : On(u, {t}) # {} => u \in statements \ {t}
  <2> SUFFICES ASSUME NEW u \in nodes, On(u, {t}) # {} PROVE u \in statements \ {t}
    OBVIOUS
  <2>1. On(u, {t}) \subseteq On(u, statements)
    BY <1>2 DEF On
  <2>2. u # t
    BY <2>1, <1>6
  <2>3. u \in statements
    BY <2>1, <1>1 DEF EmittedWaitForNothing
  <2> QED  BY <2>2, <2>3
<1>8. ready' = {u \in statements' : pending'[u] = 0}
  <2>1. ASSUME NEW u \in statements \ {t}, pending'[u] = 0
        PROVE  u \in ready \/ On(u, {t}) # {}
    <3> SUFFICES ASSUME On(u, {t}) = {} PROVE u \in ready
      OBVIOUS
    <3>1. Cardinality(On(u, {t})) = 0
      BY FS_EmptySet
    <3>2. pending[u] \in Nat /\ pending'[u] = pending[u] - Cardinality(On(u, {t}))
      BY <1>1, <1>2 DEF TypeOK
    <3> QED  BY <2>1, <3>1, <3>2, <1>5
  <2>2. ASSUME NEW u \in ready \ {t}
        PROVE  pending'[u] = 0
    <3>1. u \in Keys /\ pending[u] = 0 /\ On(u, statements) = {}
      BY <1>1, <1>2, <1>5, OnEmpty DEF CountsAreExact, TypeOK
    <3>2. On(u, {t}) = {}
      BY <3>1, <1>2 DEF On
    <3>3. Cardinality(On(u, {t})) = 0
      BY <3>2, FS_EmptySet
    <3>4. pending'[u] = pending[u] - Cardinality(On(u, {t}))
      BY <3>1, <1>1
    <3> QED  BY <3>1, <3>3, <3>4
  <2> QED  BY <2>1, <2>2, <1>1, <1>2, <1>7 DEF TypeOK
<1>9. TypeOK'
  <2>1. ready' \subseteq statements' /\ statements' \subseteq nodes'
    BY <1>8, <1>1, <1>2
  <2>2. pending' \in [Keys -> Nat]
    BY <1>1, <1>4
  <2>3. ordered' \in Seq(nodes')
    BY <1>1, <1>2 DEF TypeOK
  <2> QED  BY <2>1, <2>2, <2>3, <1>1, <1>2 DEF TypeOK
<1>10. CountsAreExact'
  <2>1. \A u \in Keys : On(u, statements)' = On(u, statements \ {t})
    BY <1>1 DEF On, Relevant
  <2>2. Keys' = Keys
    BY DEF Keys
  <2> QED  BY <2>1, <2>2, <1>3, <1>8 DEF CountsAreExact
<1>11. EmittedWaitForNothing'
  <2> SUFFICES ASSUME NEW u \in nodes \ (statements \ {t})
               PROVE  On(u, statements \ {t}) = {}
    BY <1>1 DEF EmittedWaitForNothing, On, Relevant
  <2>1. On(u, statements) = {}
    BY <1>1, <1>6 DEF EmittedWaitForNothing
  <2> QED  BY <2>1 DEF On
<1>12. LeftoverStuck'
  <2> SUFFICES ASSUME ready' = {}, NEW v \in statements \ {t}
               PROVE  Stuck(v)
    BY <1>1, StuckStays DEF LeftoverStuck
  <2>1. \A u \in statements \ {t} : pending'[u] # 0
    BY <1>8, <1>1
  <2>2. \A u \in statements \ {t} : On(u, statements \ {t}) # {}
    BY <2>1, <1>3, <1>2, OnEmpty
  <2> QED  BY <2>2, <1>2 DEF Stuck
<1>13. EmittedIsTheRest'
  <2>1. Emitted' = Emitted \cup {t}
    BY <1>1, EmittedAppend DEF TypeOK
  <2> QED  BY <2>1, <1>1 DEF EmittedIsTheRest
<1> QED  BY <1>9, <1>10, <1>11, <1>12, <1>13

LEMMA AppendLeftoverIInv == IInv /\ AppendLeftover => IInv'
<1> SUFFICES ASSUME IInv, AppendLeftover PROVE IInv'
  OBVIOUS
<1> USE DEF IInv
<1>1. PICK t \in statements :
        /\ statements' = statements \ {t}
        /\ ordered' = Append(ordered, t)
  BY DEF AppendLeftover
<1>2. ready = {} /\ UNCHANGED <<nodes, deps, pending, ready>>
  BY DEF AppendLeftover
<1>3. TypeOK'
  BY <1>1, <1>2 DEF TypeOK
<1>4. CountsAreExact' /\ EmittedWaitForNothing'
  BY <1>2 DEF CountsAreExact, EmittedWaitForNothing
<1>5. LeftoverStuck'
  BY <1>1, <1>2, StuckStays DEF LeftoverStuck
<1>6. EmittedIsTheRest'
  <2>1. Emitted' = Emitted \cup {t}
    BY <1>1, EmittedAppend DEF TypeOK
  <2> QED  BY <2>1, <1>1, <1>2 DEF EmittedIsTheRest
<1> QED  BY <1>3, <1>4, <1>5, <1>6

LEMMA StutterIInv == IInv /\ UNCHANGED vars => IInv'
<1> SUFFICES ASSUME IInv, UNCHANGED vars PROVE IInv'
  OBVIOUS
<1>1. \A u : On(u, statements)' = On(u, statements)
  BY DEF On, Relevant, vars
<1>2. TypeOK' /\ CountsAreExact' /\ EmittedWaitForNothing'
  BY <1>1 DEF IInv, TypeOK, CountsAreExact, EmittedWaitForNothing, vars
<1>3. LeftoverStuck'
  BY StuckStays DEF IInv, LeftoverStuck, vars
<1>4. EmittedIsTheRest'
  BY DEF IInv, EmittedIsTheRest, Emitted, vars
<1> QED  BY <1>2, <1>3, <1>4 DEF IInv

\* The invariant holds in every reachable state.
THEOREM Invariance == Spec => []IInv
<1>1. Init => IInv
  BY InitIInv
<1>2. IInv /\ [Next]_vars => IInv'
  BY PopIInv, AppendLeftoverIInv, StutterIInv DEF Next, Done
<1> QED  BY <1>1, <1>2, PTL DEF Spec

------------------------------------------------------------------------------
\* The properties

\* Type correctness; the counts never go below zero.
THEOREM TypeCorrect == Spec => []TypeOK
<1>1. IInv => TypeOK
  BY DEF IInv
<1> QED  BY <1>1, Invariance, PTL

\* While the main loop runs, ready is the set of the objects whose dependencies
\* have all been emitted, repeated dependencies included.
THEOREM ReadyIsFree == Spec => []ReadyMeansFree
<1>1. IInv => ReadyMeansFree
  <2> SUFFICES ASSUME IInv, ready # {} 
               PROVE  ready = {t \in statements : On(t, statements) = {}}
    BY DEF ReadyMeansFree
  <2>1. \A t \in statements : pending[t] = 0 <=> On(t, statements) = {}
    BY OnEmpty DEF IInv, TypeOK, CountsAreExact
  <2> QED  BY <2>1 DEF IInv, CountsAreExact
<1> QED  BY <1>1, Invariance, PTL

\* Only objects that are part of or depend on a cycle are emitted out of order.
THEOREM OnlyStuckLeftovers == Spec => LeftoverIsStuck
<1>1. IInv => [ready = {} => \A t \in statements : t \notin statements' => Stuck(t)]_vars
  BY DEF IInv, LeftoverStuck
<1> QED  BY <1>1, Invariance, PTL DEF LeftoverIsStuck

------------------------------------------------------------------------------
\* The refinement

\* Objects that are stuck are on or behind a cycle.
LEMMA StuckIsCyclic ==
  ASSUME NEW t, Stuck(t)
  PROVE  ~Topological!Acyclic
<1>1. PICK S \in SUBSET nodes : t \in S /\ \A u \in S : On(u, S) # {}
  BY DEF Stuck
<1>2. \A u \in S : Topological!DependsOn(u) \cap S # {}
  <2> SUFFICES ASSUME NEW u \in S PROVE Topological!DependsOn(u) \cap S # {}
    OBVIOUS
  <2>1. PICK e \in deps : e[1] = u /\ e[2] \in S /\ e[1] # e[2] /\ {e[1], e[2]} \subseteq nodes
    BY <1>1 DEF On, Relevant
  <2> QED  BY <2>1 DEF Topological!DependsOn
<1> QED  BY <1>1, <1>2 DEF Topological!Acyclic

\* Objects without dependencies among S depend on nothing in S.
LEMMA FreeDependsOnNothing ==
  ASSUME deps \subseteq Deps, NEW t \in nodes, NEW S \in SUBSET nodes, On(t, S) = {}
  PROVE  Topological!DependsOn(t) \cap S = {}
<1> SUFFICES ASSUME NEW d \in S, NEW e \in deps, <<e[1], e[2]>> = <<t, d>>, d # t
             PROVE  FALSE
  BY DEF Topological!DependsOn
<1>1. e \in On(t, S)
  BY DEF On, Relevant
<1> QED  BY <1>1

\* Every run of the loop is a run of the abstract ordering: each object once,
\* and after everything it uses whenever the dependencies have no cycle.
THEOREM OrdersTopologically == Spec => Topological!Init /\ [][Topological!Next]_(Topological!vars)
<1>1. Init => Topological!Init
  BY DEF Init, Topological!Init
<1>2. IInv /\ [Next]_vars => [Topological!Next]_(Topological!vars)
  <2> SUFFICES ASSUME IInv, [Next]_vars PROVE [Topological!Next]_(Topological!vars)
    OBVIOUS
  <2>0. Topological!Emitted = Emitted
    BY DEF Topological!Emitted, Emitted
  <2>1. CASE Pop
    <3>1. PICK t \in ready : ordered' = Append(ordered, t) /\ UNCHANGED <<nodes, deps>>
      BY <2>1 DEF Pop
    <3>2. t \in nodes \ Emitted /\ t \in statements
      BY DEF IInv, TypeOK, EmittedIsTheRest
    <3>3. On(t, statements) = {}
      BY OnEmpty DEF IInv, TypeOK, CountsAreExact
    <3>4. Topological!DependsOn(t) \cap statements = {}
      BY <3>2, <3>3, FreeDependsOnNothing DEF IInv, TypeOK
    <3>5. Topological!DependsOn(t) \subseteq Emitted
      BY <3>4 DEF IInv, EmittedIsTheRest, Topological!DependsOn
    <3> QED  BY <2>0, <3>1, <3>2, <3>5 DEF Topological!Next, Topological!Emit
  <2>2. CASE AppendLeftover
    <3>1. PICK t \in statements : ordered' = Append(ordered, t) /\ UNCHANGED <<nodes, deps>>
      BY <2>2 DEF AppendLeftover
    <3>2. t \in nodes \ Emitted
      BY DEF IInv, EmittedIsTheRest
    <3>3. ~Topological!Acyclic
      BY <2>2, StuckIsCyclic DEF AppendLeftover, IInv, LeftoverStuck
    <3> QED  BY <2>0, <3>1, <3>2, <3>3 DEF Topological!Next, Topological!Emit
  <2>3. CASE Done \/ UNCHANGED vars
    BY <2>3 DEF Done, vars, Topological!vars
  <2> QED  BY <2>1, <2>2, <2>3 DEF Next
<1> QED  BY <1>1, <1>2, Invariance, PTL DEF Spec

------------------------------------------------------------------------------
\* Views

EmittedViews == {orderedViews[i] : i \in 1..Len(orderedViews)}

(***************************************************************************)
(* The inductive invariant: done and orderedViews hold the same views, each *)
(* of them once.                                                           *)
(***************************************************************************)
ViewIInv ==
  /\ mentions \subseteq Views \X Views
  /\ done \subseteq Views
  /\ orderedViews \in Seq(Views)
  /\ EmittedViews = done
  /\ Len(orderedViews) = Cardinality(done)

LEMMA ViewInitIInv == ViewInit => ViewIInv
<1> SUFFICES ASSUME ViewInit PROVE ViewIInv
  OBVIOUS
<1>1. EmittedViews = {} /\ Len(orderedViews) = 0
  BY DEF ViewInit, EmittedViews
<1> QED  BY <1>1, FS_EmptySet DEF ViewInit, ViewIInv

\* Views are finitely many, and so are those of them that are done.
LEMMA ViewsFinite ==
  /\ IsFiniteSet(Views) /\ Cardinality(Views) = NumViews
  /\ \A S \in SUBSET Views : /\ IsFiniteSet(S) /\ Cardinality(S) \in Nat
                             /\ Cardinality(S) <= NumViews
<1>1. IsFiniteSet(Views) /\ Cardinality(Views) = NumViews
  BY NumViewsAssumption, FS_Interval DEF Views
<1> QED  BY <1>1, FS_Subset, FS_CardinalityType

\* Either step emits a view that is not done.
LEMMA EmitIInv == ASSUME ViewIInv, NEW v \in Views \ done, Emit(v) PROVE ViewIInv'
<1> USE DEF ViewIInv, Emit
<1>1. Len(orderedViews') = Len(orderedViews) + 1 /\ Len(orderedViews) \in Nat
  OBVIOUS
<1>2. \A i \in 1..Len(orderedViews) : orderedViews'[i] = orderedViews[i]
  OBVIOUS
<1>3. orderedViews'[Len(orderedViews) + 1] = v
  OBVIOUS
<1>4. EmittedViews' = EmittedViews \cup {v}
  BY <1>1, <1>2, <1>3 DEF EmittedViews
<1>5. Cardinality(done') = Cardinality(done) + 1
  BY ViewsFinite, FS_AddElement
<1> QED  BY <1>1, <1>4, <1>5

LEMMA NextEmits ==
  ASSUME EmitReady \/ EmitFirst
  PROVE  \E v \in Views \ done : Emit(v) /\ (v \in Ready \/ Ready = {})
BY DEF EmitReady, EmitFirst, Ready

LEMMA ViewStutterIInv == ViewIInv /\ (ViewDone \/ UNCHANGED viewVars) => ViewIInv'
BY DEF ViewIInv, ViewDone, viewVars, EmittedViews

THEOREM ViewInvariance == ViewSpec => []ViewIInv
<1>1. ViewIInv /\ [ViewNext]_viewVars => ViewIInv'
  BY EmitIInv, NextEmits, ViewStutterIInv DEF ViewNext
<1> QED  BY <1>1, ViewInitIInv, PTL DEF ViewSpec

------------------------------------------------------------------------------
\* The properties

\* Type correctness, and no view comes twice.
THEOREM ViewTypeCorrect == ViewSpec => []ViewTypeOK
<1>1. ViewIInv => ViewTypeOK
  BY ViewsFinite DEF ViewIInv, ViewTypeOK
<1> QED  BY <1>1, ViewInvariance, PTL

\* If no view is ready, those that are not done wait for each other.
LEMMA NotReadyIsCircular ==
  ASSUME ViewIInv, Ready = {}, NEW v \in Views \ done
  PROVE  Circular(Views \ done)
BY DEF ViewIInv, Ready, Circular, ViewDeps

\* A view is emitted before one it depends on only if it is one of a set of views
\* that wait for each other (order_views in export/sql.rs).
THEOREM CyclesOnly == ViewSpec => OnlyCyclesBreakOrder
<1> DEFINE Kept == \A v \in done' \ done :
                     ViewDeps(v) \subseteq done \/ \E S \in SUBSET Views : v \in S /\ Circular(S)
<1>1. ViewIInv /\ [ViewNext]_viewVars => Kept
  <2> SUFFICES ASSUME ViewIInv, [ViewNext]_viewVars, NEW v \in done' \ done
               PROVE  ViewDeps(v) \subseteq done \/ \E S \in SUBSET Views : v \in S /\ Circular(S)
    OBVIOUS
  <2>1. EmitReady \/ EmitFirst
    BY DEF ViewNext, ViewDone, viewVars
  <2>2. v \in Views \ done /\ (v \in Ready \/ Ready = {})
    BY <2>1, NextEmits DEF Emit
  <2>3. CASE v \in Ready
    BY <2>3 DEF Ready
  <2>4. CASE Ready = {}
    BY <2>2, <2>4, NotReadyIsCircular
  <2> QED  BY <2>2, <2>3, <2>4
<1>2. ViewIInv /\ [ViewNext]_viewVars => [Kept]_viewVars
  BY <1>1
<1> QED  BY <1>2, ViewInvariance, PTL DEF ViewSpec, OnlyCyclesBreakOrder

\* Every run of the loop is a run of the abstract ordering: each view once, and
\* after everything it mentions whenever the mentions have no cycle.
THEOREM OrdersViewsTopologically == ViewSpec => ViewTopological!Init /\ [][ViewTopological!Next]_(ViewTopological!vars)
<1>1. ViewInit => ViewTopological!Init
  BY DEF ViewInit, ViewTopological!Init
<1>2. ViewIInv /\ [ViewNext]_viewVars => [ViewTopological!Next]_(ViewTopological!vars)
  <2> SUFFICES ASSUME ViewIInv, [ViewNext]_viewVars PROVE [ViewTopological!Next]_(ViewTopological!vars)
    OBVIOUS
  <2>0. /\ ViewTopological!Emitted = done
        /\ \A v \in Views : ViewTopological!DependsOn(v) = ViewDeps(v)
    BY DEF ViewTopological!Emitted, EmittedViews, ViewIInv, ViewTopological!DependsOn, ViewDeps
  <2>1. CASE EmitReady \/ EmitFirst
    <3>1. PICK v \in Views \ done : Emit(v) /\ (v \in Ready \/ Ready = {})
      BY <2>1, NextEmits
    <3>2. ViewTopological!Acyclic => ViewDeps(v) \subseteq done
      <4>1. CASE v \in Ready
        BY <4>1 DEF Ready
      <4>2. CASE Ready = {}
        <5>1. Circular(Views \ done)
          BY <4>2, NotReadyIsCircular
        <5>2. ~ViewTopological!Acyclic
          BY <5>1, <2>0 DEF ViewTopological!Acyclic, Circular
        <5> QED  BY <5>2
      <4> QED  BY <3>1, <4>1, <4>2
    <3> QED  BY <2>0, <3>1, <3>2 DEF ViewTopological!Next, ViewTopological!Emit, Emit
  <2>2. CASE ViewDone \/ UNCHANGED viewVars
    BY <2>2 DEF ViewDone, viewVars, ViewTopological!vars
  <2> QED  BY <2>1, <2>2 DEF ViewNext
<1> QED  BY <1>1, <1>2, ViewInvariance, PTL DEF ViewSpec
==============================================================================
