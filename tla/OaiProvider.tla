---------------------------- MODULE OaiProvider ----------------------------
(***************************************************************************)
(* The OAI-PMH data provider: Metamod::OAI::DataProvider behind the        *)
(* Catalyst controller MetamodWeb::Controller::OAI, answering ListRecords. *)
(*                                                                         *)
(* A list is delivered in pages of at most MaxRecords records.  Nothing of *)
(* the list is kept between two pages: the resumption token only repeats   *)
(* the query and an offset, and every page runs the query again, in two    *)
(* statements (a count, then the rows), against a catalogue which imports  *)
(* change all the time.                                                    *)
(*                                                                         *)
(* A dataset is identified by its ds_id, the position the database         *)
(* sequence gave it; a re-import keeps it (_get_dsid).  Only level 1       *)
(* datasets (ds_parent = 0) are exported, so only those are in ds.         *)
(***************************************************************************)
EXTENDS OaiCommon

CONSTANTS
    ImportedRows, \* the rows imports write
    Tags,         \* owner tags
    ExportTags,   \* PMH_EXPORT_TAGS, or Tags when it is not configured
    SetTags,      \* PMH_SETCONFIG: setSpec |-> its datasetTags
    SetSpecs,     \* the setSpecs clients may name, configured or not
    Queries,      \* the lists clients ask for
    MaxRecords,   \* PMH_MAXRECORDS
    TokenLife,    \* one day, the life of a resumption token
    Validation,   \* PMH_VALIDATION
    Clients       \* OAI-PMH clients, each walking at most one list at a time

ASSUME ProviderAssumption ==
    /\ ExportTags \subseteq Tags
    /\ \A s \in DOMAIN SetTags : SetTags[s] \subseteq Tags
    /\ MaxRecords \in Nat \ {0}
    /\ TokenLife \in Nat
    /\ Validation \in BOOLEAN

VARIABLES
    ds,       \* the DataSet table joined with the metadata files
    tokens,   \* the files of WEBRUN_DIRECTORY/resumption_tokens
    pc,       \* where each client's request is
    req,      \* the parameters of the request
    plan,     \* what the count query of the request decided
    reply,    \* the last response
    seen,     \* history: the ids delivered during the walk
    repeated, \* history: the ids delivered more than once during the walk
    stayed,   \* history: the ids that matched during the whole walk so far
    moved     \* history: the ids that began or ceased to match during the walk

provider == <<tokens, pc, req, plan, reply, seen, repeated>>
history  == <<stayed, moved>>
vars     == <<now, ds, provider, history>>
-----------------------------------------------------------------------------
\* valid: whether the metadata file converts to the DIF format and validates.
Rows == [stamp : Time, status : {"active", "deleted"}, tag : Tags, valid : BOOLEAN]

AllQueries == [from : Time, until : Time, set : SetSpecs]

Tokens == [query : AllQueries, cursor : Nat, expires : Nat]

\* The verb is ListRecords.  resumptionToken is an exclusive argument, so a
\* resumption arrives without a metadataPrefix.
NoFormat == "none"
Requests ==
    [prefix : {"dif", NoFormat}, query : AllQueries, token : Tokens \cup {NoToken}]

ASSUME InputAssumption ==
    /\ ImportedRows \subseteq Rows
    /\ Queries \subseteq AllQueries /\ Queries # {}

ASSUME NoneAssumption == Absent \notin Rows /\ NoToken \notin Tokens

NoPlan == [limited |-> FALSE, offset |-> 0, next |-> NoToken]
Plans  == [limited : BOOLEAN, offset : Nat, next : Tokens \cup {NoToken}]

Replies ==
    [code : {"none", "records", "noRecordsMatch", "badResumptionToken"},
     records : SUBSET Records, token : Tokens \cup {NoToken}]

TypeOK ==
    /\ now \in Time
    /\ ds \in [Ids -> Rows \cup {Absent}]
    /\ tokens \subseteq Tokens
    /\ pc \in [Clients -> {"idle", "count", "rows", "page", "complete", "failed"}]
    /\ req \in [Clients -> Requests]
    /\ plan \in [Clients -> Plans]
    /\ reply \in [Clients -> Replies]
    /\ seen \in [Clients -> SUBSET Ids]
    /\ repeated \in [Clients -> SUBSET Ids]
    /\ stayed \in [Clients -> SUBSET Ids]
    /\ moved \in [Clients -> SUBSET Ids]
-----------------------------------------------------------------------------
(***************************************************************************)
(* The query.  An absent "from" is 0, an absent "until" is MaxTime.  A     *)
(* setSpec that is not configured filters nothing.                         *)
(***************************************************************************)
TagsOfSet(s) == IF s \in DOMAIN SetTags THEN SetTags[s] ELSE Tags

\* _base_resultset: of the level 1 datasets those with an exported tag.
Exportable(row) == row # Absent /\ row.tag \in ExportTags

\* Mutation: a record with exactly the datestamp asked for is left out.
MatchesAfter(row, q) ==
    /\ Exportable(row) /\ row.tag \in TagsOfSet(q.set)
    /\ q.from < row.stamp
    /\ row.stamp <= q.until

Matches(row, q) ==
    /\ Exportable(row) /\ row.tag \in TagsOfSet(q.set)
    /\ q.from <= row.stamp
    /\ row.stamp <= q.until

Matching(table, q) == {i \in Ids : Matches(table[i], q)}

\* The position of i among the rows ordered by ds_id, counted from 0.
Rank(i, list) == Cardinality({j \in list : j < i})

\* LIMIT MaxRecords OFFSET offset of the ordered list.
\* Mutation: a page and the next one overlap by a record.
WindowOneTooLong(list, offset) ==
    {i \in list : offset <= Rank(i, list) /\ Rank(i, list) <= offset + MaxRecords}

Window(list, offset) ==
    {i \in list : offset <= Rank(i, list) /\ Rank(i, list) < offset + MaxRecords}

\* The query a request stands for: the token's, if it carries one.
Query(r) == IF r.token = NoToken THEN r.query ELSE r.token.query

\* Mutation: the offset of the token's own page.
OffsetOfSamePage(r) == IF r.token = NoToken THEN 0 ELSE r.token.cursor
\* Mutation: the page size is subtracted.
OffsetOfPageBefore(r) == IF r.token = NoToken THEN 0 ELSE r.token.cursor - MaxRecords

Offset(r) == IF r.token = NoToken THEN 0 ELSE r.token.cursor + MaxRecords

\* _get_resumption_token: the file exists and its expiration date is not past.
TokenUsable(t) == t \in tokens /\ now <= t.expires

\* _create_resumption_token: a token id and a file, unless the page is the last.
\* Mutation: a last page of one record is forgotten.
NewTokenOneTooFew(q, cursor, size) ==
    IF cursor + MaxRecords < size - 1
    THEN [query |-> q, cursor |-> cursor, expires |-> now + TokenLife]
    ELSE NoToken

NewToken(q, cursor, size) ==
    IF cursor + MaxRecords < size
    THEN [query |-> q, cursor |-> cursor, expires |-> now + TokenLife]
    ELSE NoToken

(***************************************************************************)
(* _oai_record_header and _oai_record: with validation on, a document that *)
(* cannot be fetched or does not validate turns the record into a deleted  *)
(* one.  _get_metadata dies when the format is not one of the provider's;  *)
(* the metadata files themselves are taken to be there.                    *)
(***************************************************************************)
MetadataDies(prefix) == prefix = NoFormat

OaiRecord(i, prefix) ==
    LET row     == ds[i]
        invalid == MetadataDies(prefix) \/ ~row.valid
        status  == IF row.status = "active" /\ Validation /\ invalid
                   THEN "deleted" ELSE row.status
    IN  [id |-> i, stamp |-> row.stamp, status |-> status,
         metadata |-> status = "active" /\ ~MetadataDies(prefix)]
-----------------------------------------------------------------------------
Init ==
    /\ now = 0
    /\ ds = [i \in Ids |-> Absent]
    /\ tokens = {}
    /\ pc = [c \in Clients |-> "idle"]
    /\ req = [c \in Clients |->
                [prefix |-> "dif", query |-> CHOOSE q \in Queries : TRUE, token |-> NoToken]]
    /\ plan = [c \in Clients |-> NoPlan]
    /\ reply = [c \in Clients |-> Error("none")]
    /\ seen = [c \in Clients |-> {}]
    /\ repeated = [c \in Clients |-> {}]
    /\ stayed = [c \in Clients |-> {}]
    /\ moved = [c \in Clients |-> {}]

Walking(c) == pc[c] \in {"count", "rows", "page"}

(***************************************************************************)
(* write_to_database commits a new row for dataset i: the old row is       *)
(* deleted and the new one inserted in one transaction.  The datestamp is  *)
(* the one in the dataset's file, whatever the time of the import.         *)
(***************************************************************************)
Import(i, row) ==
    /\ ds' = [ds EXCEPT ![i] = row]
    /\ stayed' = [c \in Clients |->
          IF Walking(c) THEN stayed[c] \cap Matching(ds', Query(req[c])) ELSE stayed[c]]
    /\ moved' = [c \in Clients |->
          IF Walking(c) /\ (i \in Matching(ds', Query(req[c]))) # (i \in Matching(ds, Query(req[c])))
          THEN moved[c] \cup {i} ELSE moved[c]]
    /\ UNCHANGED <<now, provider>>

\* A client asks for a new list.
BeginWalk(c, q) ==
    /\ pc[c] \in {"idle", "complete", "failed"}
    /\ pc' = [pc EXCEPT ![c] = "count"]
    /\ req' = [req EXCEPT ![c] = [prefix |-> "dif", query |-> q, token |-> NoToken]]
    /\ seen' = [seen EXCEPT ![c] = {}]
    /\ repeated' = [repeated EXCEPT ![c] = {}]
    /\ stayed' = [stayed EXCEPT ![c] = Matching(ds, q)]
    /\ moved' = [moved EXCEPT ![c] = {}]
    /\ UNCHANGED <<now, ds, tokens, plan, reply>>

\* A client asks for the next page of its list.
Resume(c) ==
    /\ pc[c] = "page"
    /\ pc' = [pc EXCEPT ![c] = "count"]
    /\ req' = [req EXCEPT ![c].prefix = NoFormat, ![c].token = reply[c].token]
    /\ UNCHANGED <<now, ds, tokens, plan, reply, seen, repeated, history>>

\* An invalid or expired token: the badResumptionToken error.
RejectToken(c) ==
    /\ pc[c] = "count"
    /\ req[c].token # NoToken
    /\ ~TokenUsable(req[c].token)
    /\ pc' = [pc EXCEPT ![c] = "failed"]
    /\ reply' = [reply EXCEPT ![c] = Error("badResumptionToken")]
    /\ UNCHANGED <<now, ds, tokens, req, plan, seen, repeated, history>>

\* The count query.  A list that fits in a page is not limited, and has no
\* token; of a longer one a page is cut out and the next token is stored.
CountList(c) ==
    LET q      == Query(req[c])
        size   == Cardinality(Matching(ds, q))
        offset == Offset(req[c])
        next   == NewToken(q, offset, size)
    IN  /\ pc[c] = "count"
        /\ req[c].token = NoToken \/ TokenUsable(req[c].token)
        /\ pc' = [pc EXCEPT ![c] = "rows"]
        /\ IF size > MaxRecords
           THEN /\ plan' = [plan EXCEPT ![c] =
                              [limited |-> TRUE, offset |-> offset, next |-> next]]
                /\ tokens' = tokens \cup ({next} \ {NoToken})
           ELSE /\ plan' = [plan EXCEPT ![c] = NoPlan]
                /\ UNCHANGED tokens
        /\ UNCHANGED <<now, ds, req, reply, seen, repeated, history>>

\* The rows query, and the response built from the rows.
PageRows(c) ==
    LET list == Matching(ds, Query(req[c]))
    IN  IF plan[c].limited THEN Window(list, plan[c].offset) ELSE list

FetchPage(c) ==
    LET rows == PageRows(c)
    IN  /\ pc[c] = "rows"
        /\ pc' = [pc EXCEPT ![c] =
                    IF rows = {} \/ plan[c].next = NoToken THEN "complete" ELSE "page"]
        /\ reply' = [reply EXCEPT ![c] =
              IF rows = {} THEN Error("noRecordsMatch")
              ELSE [code |-> "records",
                    records |-> {OaiRecord(i, req[c].prefix) : i \in rows},
                    token |-> plan[c].next]]
        /\ seen' = [seen EXCEPT ![c] = @ \cup rows]
        /\ repeated' = [repeated EXCEPT ![c] = @ \cup (seen[c] \cap rows)]
        /\ UNCHANGED <<now, ds, tokens, req, plan, history>>

\* The token files are cleaned from outside ("it has like been cleaned").
CleanToken(t) ==
    /\ tokens' = tokens \ {t}
    /\ UNCHANGED <<now, ds, pc, req, plan, reply, seen, repeated, history>>

Server(c) == RejectToken(c) \/ CountList(c) \/ FetchPage(c)

PassTime == Tick /\ UNCHANGED <<ds, provider, history>>

Next ==
    \/ \E i \in Ids, row \in ImportedRows : Import(i, row)
    \/ \E c \in Clients :
         \/ \E q \in Queries : BeginWalk(c, q)
         \/ Resume(c)
         \/ Server(c)
    \/ \E t \in tokens : CleanToken(t)
    \/ PassTime

Spec == Init /\ [][Next]_vars

\* The web server answers every request, and clients follow their tokens.
Fairness == \A c \in Clients : WF_vars(Server(c)) /\ WF_vars(Resume(c))

FairSpec == Spec /\ Fairness
-----------------------------------------------------------------------------
(***************************************************************************)
(* A dataset that matched the query from the beginning to the end of a     *)
(* completed walk was delivered, unless some dataset with a smaller ds_id  *)
(* entered or left the list meanwhile (and shifted it across an offset).   *)
(* This is all that _search_datasets guarantees to a harvester: order_by   *)
(* ds_id is what keeps changes at larger ds_ids harmless.                  *)
(***************************************************************************)
PagingComplete ==
    \A c \in Clients : pc[c] = "complete" =>
        \A i \in stayed[c] \ seen[c] : \E j \in moved[c] : j < i

(***************************************************************************)
(* Within one walk _search_datasets delivers a dataset twice only when the *)
(* list changed during the walk (a shift, or a list that shrank to a page, *)
(* of which a resumption then gets all).                                   *)
(***************************************************************************)
RepeatsOnlyAfterChange ==
    \A c \in Clients : repeated[c] # {} => moved[c] # {}

(***************************************************************************)
(* A client that follows its tokens gets to the end of the list (or is     *)
(* told its token is bad), however the catalogue changes: each token of    *)
(* _create_resumption_token is further on than the one it answers.         *)
(***************************************************************************)
WalkEnds ==
    \A c \in Clients : pc[c] = "count" ~> pc[c] \in {"complete", "failed"}

(***************************************************************************)
(* _oai_record_header gives the status 'deleted' to deleted datasets and,  *)
(* when metadata is validated, to those with invalid metadata.             *)
(***************************************************************************)
DeletedMeansDeleted ==
    [][\A c \in Clients : FetchPage(c) =>
         \A r \in reply'[c].records : r.status = "deleted" =>
            ds[r.id].status = "deleted" \/ ~ds[r.id].valid]_vars
=============================================================================
