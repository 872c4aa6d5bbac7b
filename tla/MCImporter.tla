----------------------------- MODULE MCImporter -----------------------------
(***************************************************************************)
(* Small instances of the writers and importers of metadata.               *)
(***************************************************************************)
EXTENDS Importer

CONSTANTS level1, level2   \* names of a dataset and of a child of it

MCNames == {level1, level2}
MCParentOf == [n \in MCNames |-> IF n = level2 THEN level1 ELSE NoName]

Version(no, active) == [no |-> no, active |-> active, listed |-> TRUE]

\* An active version and a deleted one.
DeletingVersions == {Version(1, TRUE), Version(2, FALSE)}
=============================================================================
