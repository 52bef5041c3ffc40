---------------------------- MODULE MCMySqlSession ----------------------------
EXTENDS MySqlSession
\* Schema 1: two views, a table and a routine.  Schema 2: a view and a table.
MCJobs == 1..6
MCSchemaOf == <<1, 1, 1, 1, 2, 2>>
MCKindOf == <<"view", "view", "table", "routine", "view", "table">>
\* Accounts whose names hold the quote that they stand in, blanks and an @; a
\* routine that was created with ANSI quotes; a definer that is a role.
Head1(algorithm, quote, user, host) ==
    [algorithm |-> algorithm, quote |-> quote, user |-> user, host |-> host, rest |-> <<"rest">>]
MCHeadOf ==
    <<Head1("MERGE", "backtick", <<"backtick", "@", "backtick", "backtick", " ">>, <<"%">>),
      Head1("UNDEFINED", "backtick", <<"r">>, <<"none">>),
      Head1("", "backtick", <<>>, <<>>),
      Head1("", "\"", <<"backtick", "\"", "\"">>, <<"DEFINER=", " ", "\"">>),
      Head1("UNDEFINED", "backtick", <<>>, <<"backtick", "backtick">>),
      Head1("", "backtick", <<>>, <<>>)>>
=============================================================================
