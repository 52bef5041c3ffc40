---------------------------- MODULE MCExportRun ------------------------------
\* Model checking of ExportRun: two schemas and two runs over one directory with
\* a change of definition between them.
EXTENDS ExportRun, TLC

Text(base, form) == [base |-> base, form |-> form, tail |-> <<>>]

\* Names that differ, that are one name, and that each system takes for one.
MCNamings ==
  {[system |-> "linux",   name |-> <<Text("a", "plain"), Text("b", "plain")>>],
   [system |-> "linux",   name |-> <<Text("a", "plain"), Text("a", "plain")>>],
   [system |-> "windows", name |-> <<Text("a", "upper"), Text("a", "plain")>>],
   [system |-> "macos",   name |-> <<Text("a", "plain"), Text("a", "decomposed")>>]}
==============================================================================
