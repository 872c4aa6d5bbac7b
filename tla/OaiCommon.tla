----------------------------- MODULE OaiCommon -----------------------------
(***************************************************************************)
(* What the OAI-PMH data provider and the harvester share: the clock, the  *)
(* identifiers, and the responses one sends and the other reads.           *)
(*                                                                         *)
(* The database's now(), DateTime->now and gmtime are one discrete clock.  *)
(* Datestamps have a granularity of seconds, but the harvester asks with   *)
(* the date only, so the days the instants fall in matter.                 *)
(***************************************************************************)
EXTENDS Integers, FiniteSets

CONSTANTS
    MaxTime,      \* bound: the last instant of a behaviour
    DayLength,    \* number of instants of a day
    Ids,          \* the ds_ids a catalogue may come to hold, in the order of lists
    Absent,       \* no such dataset
    NoToken       \* no resumption token

ASSUME CommonAssumption ==
    /\ MaxTime \in Nat
    /\ DayLength \in Nat \ {0}
    /\ Ids \subseteq Nat /\ IsFiniteSet(Ids)

VARIABLE now      \* the current instant

Time == 0 .. MaxTime

Day(t) == t \div DayLength

\* The instant a date without a time of day denotes.
StartOfDay(t) == Day(t) * DayLength

Tick ==
    /\ now < MaxTime
    /\ now' = now + 1

\* A record of a ListRecords response; metadata tells whether it carries any.
Records == [id : Ids, stamp : Time, status : {"active", "deleted"}, metadata : BOOLEAN]

Error(code) == [code |-> code, records |-> {}, token |-> NoToken]

First(records) == CHOOSE r \in records : \A s \in records : r.id <= s.id
=============================================================================
