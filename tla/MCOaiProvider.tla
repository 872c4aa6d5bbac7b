--------------------------- MODULE MCOaiProvider ---------------------------
(***************************************************************************)
(* Small instances of the data provider.                                   *)
(***************************************************************************)
EXTENDS OaiProvider

MCIds == 1 .. 3

\* Paging only depends on the datestamp and the tag: active, valid datasets.
StampedRows == [stamp : Time, status : {"active"}, tag : {"met"}, valid : {TRUE}]

\* One window: a new datestamp brings a dataset into it, a newer one out of it.
NarrowQuery == {[from |-> 1, until |-> 1, set |-> "metset"]}

MCSetTags == [s \in {"metset"} |-> {"met"}]
=============================================================================
