----------------------------- MODULE MySqlSession -----------------------------
(***************************************************************************)
(* How the MySQL client gets the definitions of tables, views and routines: *)
(* each job takes a connection from the pool, selects the schema on it      *)
(* (tables and views), asks for the definition and gives the connection     *)
(* back.  What a session was told stays with the connection, so a job finds *)
(* the current database that an earlier job left (db/mysql.rs,              *)
(* db/mysql/routines.rs).  The pool and the server are external: they do    *)
(* what the code relies on.                                                 *)
(***************************************************************************)
EXTENDS MySqlText

CONSTANTS Jobs,            \* the objects whose definition is wanted
          SchemaOf,        \* job |-> its schema, a number; schemas go one by one
          KindOf,          \* job |-> "table", "view", "routine"
          HeadOf,          \* job |-> the head of its definition, see MySqlText
          SkipDefiner,     \* --skip-definer
          Concurrency,     \* METADATA_CONCURRENCY
          MaxConnections,  \* of the pool
          MaxBreaks,       \* bound: connections lost in a behaviour
          None

ASSUME SessionAssumption ==
    /\ IsFiniteSet(Jobs)
    /\ SchemaOf \in [Jobs -> Nat \ {0}]
    /\ KindOf \in [Jobs -> {"table", "view", "routine"}]
    /\ SkipDefiner \in BOOLEAN
    /\ Concurrency \in Nat \ {0} /\ MaxConnections \in Nat \ {0} /\ MaxBreaks \in Nat

ASSUME HeadAssumption == \A j \in Jobs : IsHead(HeadOf[j])

VARIABLES phase,     \* job |-> "todo", "acquire", "use", "show", "done"
          held,      \* job |-> the connection it has
          database,  \* open connection |-> its current database, 0: information_schema
          plain,     \* the open connections whose sql_mode was cleared
          result,    \* job |-> its definition
          warned,    \* jobs that a warning names
          breaks

sessionVars == <<phase, held, database, plain, result, warned, breaks>>

Connections == 1..MaxConnections
Open == DOMAIN database
Idle == {c \in Open : \A j \in Jobs : held[j] # c}
Running == {j \in Jobs : phase[j] \in {"acquire", "use", "show"}}

\* What a definition looks like: with the schema before the names, in ANSI
\* quotes, with its DEFINER clause; and how its head reads.
HeadText == [j \in Jobs |-> Worded(HeadOf[j])]
CutText == [j \in Jobs |-> WithoutDefiner(HeadText[j])]
Heads == {<<>>} \cup {HeadText[j] : j \in Jobs} \cup {CutText[j] : j \in Jobs}
Definitions == [qualified : BOOLEAN, ansi : BOOLEAN, definer : BOOLEAN, head : Heads]

ASSUME NoneAssumption == None \notin Connections /\ None \notin Definitions

SessionInit ==
    /\ phase = [j \in Jobs |-> "todo"] /\ held = [j \in Jobs |-> None]
    /\ database = [c \in {1} |-> 0] /\ plain = {1}   \* the connection of SELECT 1
    /\ result = [j \in Jobs |-> None] /\ warned = {} /\ breaks = 0

\* The schemas one by one; in each first the tables and views, Concurrency at a
\* time, then the routines one by one.
Turn(j) ==
    \A i \in Jobs \ {j} :
       \/ phase[i] = "done"
       \/ SchemaOf[i] > SchemaOf[j]
       \/ SchemaOf[i] = SchemaOf[j]
            /\ IF KindOf[i] = "routine" THEN i \notin Running ELSE KindOf[j] # "routine"

\* Mutant: one job more than the limit.
OneTooMany == Cardinality(Running) <= Concurrency

UpTo == Cardinality(Running) < Concurrency

Start(j) ==
    /\ phase[j] = "todo" /\ Turn(j) /\ UpTo
    /\ phase' = [phase EXCEPT ![j] = "acquire"]
    /\ UNCHANGED <<held, database, plain, result, warned, breaks>>

Acquired(j, c) ==
    /\ phase' = [phase EXCEPT ![j] = IF KindOf[j] = "routine" THEN "show" ELSE "use"]
    /\ held' = [held EXCEPT ![j] = c]

\* An idle connection as it was left, or a new one that after_connect set up.
TakeIdle(j) ==
    /\ phase[j] = "acquire"
    /\ \E c \in Idle : Acquired(j, c)
    /\ UNCHANGED <<database, plain, result, warned, breaks>>

\* Mutant: the pool has no limit.
ConnectBeyond(j) ==
    /\ phase[j] = "acquire"
    /\ LET c == Cardinality(Open) + 1
       IN  /\ c \notin Open /\ Acquired(j, c)
           /\ database' = [d \in Open \cup {c} |-> IF d = c THEN 0 ELSE database[d]]
           /\ plain' = plain \cup {c}
    /\ UNCHANGED <<result, warned, breaks>>

Connect(j) ==
    /\ phase[j] = "acquire"
    /\ \E c \in Connections \ Open :
          /\ Acquired(j, c)
          /\ database' = [d \in Open \cup {c} |-> IF d = c THEN 0 ELSE database[d]]
          /\ plain' = plain \cup {c}
    /\ UNCHANGED <<result, warned, breaks>>

\* Mutant: USE goes to the pool and not to the connection of the job.
UseOnPool(j) ==
    /\ phase[j] = "use"
    /\ \E c \in Idle \cup {held[j]} : database' = [database EXCEPT ![c] = SchemaOf[j]]
    /\ phase' = [phase EXCEPT ![j] = "show"]
    /\ UNCHANGED <<held, plain, result, warned, breaks>>

Use(j) ==
    /\ phase[j] = "use"
    /\ database' = [database EXCEPT ![held[j]] = SchemaOf[j]]
    /\ phase' = [phase EXCEPT ![j] = "show"]
    /\ UNCHANGED <<held, plain, result, warned, breaks>>

\* definer_policy: the clause goes; a head of another form stays as it is.
Policy(j) == IF SkipDefiner /\ CutText[j] # <<>> THEN CutText[j] ELSE HeadText[j]

\* The answer as the server words it: a view's names have their schema if it is
\* not the current one, quotes go by the mode of the session; a table has no
\* definer.
Show(j) ==
    /\ phase[j] = "show"
    /\ LET keeps == KindOf[j] # "table" /\ (SkipDefiner => CutText[j] = <<>>)
       IN  /\ result' = [result EXCEPT ![j] =
                  [qualified |-> KindOf[j] = "view" /\ database[held[j]] # SchemaOf[j],
                   ansi |-> held[j] \notin plain,
                   definer |-> keeps,
                   head |-> IF KindOf[j] = "table" THEN <<>> ELSE Policy(j)]]
           /\ warned' = IF keeps /\ SkipDefiner THEN warned \cup {j} ELSE warned
    /\ phase' = [phase EXCEPT ![j] = "done"]
    /\ held' = [held EXCEPT ![j] = None]
    /\ UNCHANGED <<database, plain, breaks>>

\* A routine whose text may not be read: SHOW answers without it.
ShowHidden(j) ==
    /\ phase[j] = "show" /\ KindOf[j] = "routine"
    /\ phase' = [phase EXCEPT ![j] = "done"]
    /\ held' = [held EXCEPT ![j] = None]
    /\ warned' = warned \cup {j}
    /\ UNCHANGED <<database, plain, result, breaks>>

\* Mutants: a failure without a warning; a connection that does not come back.
SilentlyGiveUp(j) ==
    /\ phase' = [phase EXCEPT ![j] = "done"]
    /\ held' = [held EXCEPT ![j] = None]
    /\ UNCHANGED warned
KeepConnection(j) ==
    /\ phase' = [phase EXCEPT ![j] = "done"]
    /\ warned' = warned \cup {j}
    /\ UNCHANGED held

\* An error ends the job with a warning; the connection goes back to the pool.
GiveUp(j) ==
    /\ phase' = [phase EXCEPT ![j] = "done"]
    /\ held' = [held EXCEPT ![j] = None]
    /\ warned' = warned \cup {j}

\* No connection is had, or a name cannot be quoted: the job ends before USE.
AcquireFails(j) ==
    /\ phase[j] = "acquire"
    /\ GiveUp(j)
    /\ UNCHANGED <<database, plain, result, breaks>>

\* USE or SHOW is refused, say because the object is gone.
Refused(j) ==
    /\ phase[j] \in {"use", "show"}
    /\ GiveUp(j)
    /\ UNCHANGED <<database, plain, result, breaks>>

Close(c) ==
    /\ breaks < MaxBreaks /\ breaks' = breaks + 1
    /\ database' = [d \in Open \ {c} |-> database[d]]
    /\ plain' = plain \ {c}

\* The connection is lost while the job uses it, or while it is idle.
Broken(j) ==
    /\ phase[j] \in {"use", "show"}
    /\ Close(held[j]) /\ GiveUp(j)
    /\ UNCHANGED result
IdleBroken(c) ==
    /\ c \in Idle /\ Close(c)
    /\ UNCHANGED <<phase, held, result, warned>>

Advance(j) ==
    Start(j) \/ TakeIdle(j) \/ Connect(j) \/ Use(j) \/ Show(j) \/ ShowHidden(j) \/ Refused(j)

SessionNext ==
    \/ \E j \in Jobs : Advance(j) \/ AcquireFails(j) \/ Broken(j)
    \/ \E c \in Connections : IdleBroken(c)

\* The executor polls every future that can go on, and the server answers.
SessionSpec == SessionInit /\ [][SessionNext]_sessionVars /\ \A j \in Jobs : WF_sessionVars(Advance(j))

-----------------------------------------------------------------------------
SessionTypeOK ==
    /\ phase \in [Jobs -> {"todo", "acquire", "use", "show", "done"}]
    /\ held \in [Jobs -> Connections \cup {None}]
    /\ Open \subseteq Connections /\ plain \subseteq Open
    /\ \A c \in Open : database[c] \in {0} \cup {SchemaOf[j] : j \in Jobs}
    /\ result \in [Jobs -> Definitions \cup {None}]
    /\ warned \subseteq Jobs /\ breaks \in 0..MaxBreaks

\* A view is read with its own schema as the current database, whatever the
\* connection was used for before, and everything in plain quotes: the text runs
\* in a database of another name (show_create's comment, mysql.rs).
ReadsAreUnqualified ==
    \A j \in Jobs : result[j] # None => ~result[j].qualified /\ ~result[j].ansi

\* A connection has one user, from acquire to the end of its job; a USE of
\* another job cannot come between a USE and its SHOW.
OneUser ==
    \A j \in Jobs :
       /\ (phase[j] \in {"use", "show"}) <=> (held[j] # None)
       /\ held[j] # None => held[j] \in Open /\ \A i \in Jobs \ {j} : held[i] # held[j]

\* METADATA_CONCURRENCY fits the pool: who wants a connection finds one, idle
\* or still to open, and never waits for another job.
AcquireNeverWaits ==
    \A j \in Jobs : phase[j] = "acquire" => Idle # {} \/ Cardinality(Open) < MaxConnections

\* A definition that is missing, or that kept the DEFINER clause against
\* --skip-definer, has a warning.
LossIsWarned ==
    \A j \in Jobs :
       /\ phase[j] = "done" /\ result[j] = None => j \in warned
       /\ result[j] # None /\ SkipDefiner /\ result[j].definer => j \in warned

BareText == [j \in Jobs |-> WordedWithout(HeadOf[j])]

\* --skip-definer takes out the clause and nothing else, whatever signs the names
\* of the account hold; only a head without a host stays, and is warned of.
DefinerIsCut ==
    \A j \in {i \in Jobs : result[i] # None /\ KindOf[i] # "table" /\ SkipDefiner} :
       IF HeadOf[j].host = <<"none">>
       THEN result[j].head = HeadText[j] /\ j \in warned
       ELSE result[j].head = BareText[j] /\ ~result[j].definer

\* Every job comes to an end, however connections and queries fail.
EveryJobEnds == \A j \in Jobs : <>(phase[j] = "done")
=============================================================================
