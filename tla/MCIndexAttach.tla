----------------------------- MODULE MCIndexAttach -----------------------------
\* Model checking of IndexAttach: a table with two partitions, the first of which
\* has a partition of its own, and three trees of indexes.
EXTENDS IndexAttach

MCParentOf == <<0, 1, 1, 2>>
================================================================================
