------------------------------ MODULE FileNames ------------------------------
(***************************************************************************)
(* The names of the output files and of the sheets.  A name is what is     *)
(* left of a schema's name once the forbidden characters are replaced; of  *)
(* its text it keeps what file systems tell apart or do not: case and      *)
(* Unicode form, and the ~n that tells colliding schemas apart.  A name    *)
(* cut to the longest length carries a hash of the whole: cut names are    *)
(* taken to differ where the whole ones do.                                *)
(***************************************************************************)
EXTENDS Naturals, Sequences

CONSTANTS
  NumSchemas, \* schemas the server has, numbered in the order of their names
  Namings     \* the systems that the program runs on, with the schemas' names

ASSUME NumSchemasAssumption == NumSchemas \in Nat \ {0}

Schemas  == 1..NumSchemas
Suffixes == 1..(NumSchemas + 1) \* as many as the loops ever need
Systems  == {"linux", "macos", "windows"}
Forms    == {"plain", "upper", "decomposed"}
Name     == [base : STRING, form : Forms, tail : Seq(Nat)]
Naming   == [system : Systems, name : [Schemas -> Name]]

ASSUME NamingsAssumption == Namings \subseteq Naming /\ Namings # {}

With(name, form, tail) == [base |-> name.base, form |-> form, tail |-> tail]

\* The n-th name tried for a schema: {schema}, {schema}~2, {schema}~3 ...
FileName(name, n) == IF n = 1 THEN name ELSE With(name, name.form, Append(name.tail, n))

Lower(name) == IF name.form = "upper" THEN With(name, "plain", name.tail) ELSE name

\* Which file a name opens: macOS ignores case and normalisation, NTFS case.
Inode(system, name) ==
  CASE system = "linux"   -> name
    [] system = "macos"   -> With(name, "plain", name.tail)
    [] system = "windows" -> Lower(name)

\* file_id: only Unix tells whether two open files are one.
HasFileId(system) == system # "windows"
==============================================================================
