------------------------------- MODULE MCOrders -------------------------------
\* Model checking of DependencyOrder and of ViewOrder with ViewText: a schema's
\* types and functions are ordered first, then its views.  A schema has either
\*   - up to three types and functions with up to four dependencies, repeated,
\*     circular and dangling ones included, and views without references, or
\*   - three views, of which one has the name of another as its beginning and one
\*     has a quote in its name; they use each other in every way without a circle,
\*     and hold each other's names in one other way.
\* The two orders share nothing, so that no case is lost by this.
EXTENDS DependencyOrder, ViewText

MCViewName == <<<<"v">>, <<"v", "q">>, <<"v", "w">>>>

OrdersInit ==
  \/ /\ nodes = {} /\ deps = {}
     /\ Init /\ TextInit
  \/ /\ dialect = "postgres" /\ style = "plain" /\ foreign = "literal"
     /\ uses = {} /\ holds = {}
     /\ Init /\ TextInit

\* The types and functions come from get_schema_ddl; write_tables then sorts the views.
OrderStatements == Next /\ UNCHANGED textVars
OrderViews == statements = {} /\ TextNext /\ UNCHANGED vars

OrdersNext == OrderStatements \/ OrderViews

OrdersSpec ==
  /\ OrdersInit
  /\ [][OrdersNext]_<<vars, textVars>>
  /\ WF_<<vars, textVars>>(OrderStatements)
  /\ WF_<<vars, textVars>>(OrderViews)
===============================================================================
