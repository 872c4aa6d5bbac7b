----------------------------- MODULE Catalogue -----------------------------
(***************************************************************************)
(* What the importer promises of the index database, seen from the         *)
(* committed DataSet rows: a dataset is added with a ds_id of its own, it  *)
(* keeps its ds_id and its parent when it is imported again, and it never  *)
(* leaves the index (a deleted dataset has a row with the status deleted). *)
(* OAIInfo and DS_parent refer to ds_ids without a foreign key, and the    *)
(* order of OAI-PMH lists is that of the ds_ids: all rely on this.         *)
(***************************************************************************)
CONSTANTS
    Names,      \* DS_name of the datasets there may be
    ParentOf,   \* the name of the parent of a level 2 dataset, or NoName
    NoName,
    Versions,   \* what the files of a dataset may say
    DsIds,      \* the ds_ids there are
    Absent      \* no such row

VARIABLE entries  \* the committed rows, by name

Rows == [id : DsIds, parent : DsIds \cup {0}, version : Versions]

CatalogueInit == entries = [n \in Names |-> Absent]

\* A level 1 dataset has the DS_parent 0.
ParentId(n) == IF ParentOf[n] = NoName THEN 0 ELSE entries[ParentOf[n]].id

Add(n, id, v) ==
    /\ entries[n] = Absent
    /\ ParentOf[n] # NoName => entries[ParentOf[n]] # Absent
    /\ \A m \in Names : entries[m] # Absent => entries[m].id # id
    /\ entries' = [entries EXCEPT ![n] = [id |-> id, parent |-> ParentId(n), version |-> v]]

Replace(n, v) ==
    /\ entries[n] # Absent
    /\ entries' = [entries EXCEPT ![n].version = v]

CatalogueNext ==
    \E n \in Names, v \in Versions :
        \/ \E id \in DsIds : Add(n, id, v)
        \/ Replace(n, v)

CatalogueSpec == CatalogueInit /\ [][CatalogueNext]_entries
=============================================================================
