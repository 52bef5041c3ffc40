----------------------------- MODULE MCSqlScript -----------------------------
\* Model checking of SqlScript: every schema of one sequence, one type, three functions,
\* one table and two views, with up to three dependencies and bad names in all.
EXTENDS SqlScript
==============================================================================
