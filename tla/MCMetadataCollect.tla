-------------------------- MODULE MCMetadataCollect --------------------------
\* Model checking of MetadataCollect: more tables than futures at a time, every
\* format and every mix of tables, views and other relations.
EXTENDS MetadataCollect
==============================================================================
