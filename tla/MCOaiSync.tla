----------------------------- MODULE MCOaiSync -----------------------------
(***************************************************************************)
(* A small instance of a METAMOD installation harvesting another one.       *)
(***************************************************************************)
EXTENDS OaiSync

MCIds == 1 .. 2

\* The first dataset comes from data files, the second one from an editor.
MCWriters == [i \in Ids |-> IF i = 1 THEN AllWriters \ {"editor"} ELSE {"editor"}]

MCSetTags == [s \in {"metset"} |-> {"met"}]

\* The harvester asks for every day of the bounded clock.
DayQueries == [from : {StartOfDay(t) : t \in Time}, until : {MaxTime}, set : {"metset"}]
AllRows    == [stamp : Time, status : {"active", "deleted"}, tag : Tags, valid : BOOLEAN]
=============================================================================
