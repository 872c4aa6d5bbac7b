------------------------------- MODULE Basket -------------------------------
(***************************************************************************)
(* The collection basket of one browser: a cookie, and for a user who is   *)
(* logged in a row of the user database.  Every request to the search      *)
(* pages reads both when it begins and, because the basket is destroyed    *)
(* with the stash of the request, writes one of them when it ends.  No key *)
(* of the table keeps a user from having two rows.                         *)
(***************************************************************************)
EXTENDS Naturals, FiniteSets, Sequences, FiniteSetsExt, SequencesExt

CONSTANTS
    Files,          \* level 2 datasets
    Parents,        \* level 1 datasets with level 2 datasets under them
    Leaves,         \* level 1 datasets without any, for which there is a WMS
    ChildrenOf,
    SizeOf,         \* data_file_size, zero when there is none
    MaxSize,        \* COLLECTION_BASKET_MAX_SIZE
    MaxFiles,       \* COLLECTION_BASKET_MAX_FILES
    MaxFilesOfGuests, \* and the least of this and 100
    Slots,          \* requests of the browser that can be under way
    Idle,
    Lists,          \* the lists of datasets links to shared baskets have
    MaxRequests     \* bound: requests

Items == Files \cup Leaves
Datasets == Items \cup Parents

ASSUME BasketAssumption ==
    /\ IsFiniteSet(Items)
    /\ Files \cap Leaves = {} /\ Items \cap Parents = {}
    /\ ChildrenOf \in [Parents -> SUBSET Files]
    /\ SizeOf \in [Items -> Nat]
    /\ MaxSize \in Nat /\ MaxFiles \in Nat
    /\ MaxFilesOfGuests \in 0 .. MaxFiles
    /\ Lists \subseteq Seq(Datasets)
    /\ MaxRequests \in Nat

\* found, ids: dataset_ids at the begin and at the end of the request; at: how far it
\* is; row: the row update_basket found or created; alone: no other request and no
\* login was under way meanwhile.
Baskets == [user : BOOLEAN, found : SUBSET Items, ids : SUBSET Items, alone : BOOLEAN,
            at : {"page", "create", "write", "answer"}, row : Nat]

ASSUME IdleAssumption == Idle \notin Baskets

VARIABLES
    user,        \* the browser is logged in
    stored,      \* Infou rows BASKET of the user
    cookie,      \* metamod_basket of the browser
    request,     \* what each request under way has as its basket
    shown,       \* history: the basket of the last request, if that was alone
    trusted,     \* history: it was, and nothing but a login happened since
    raced,       \* history: two requests of the user overlapped when there was no row
    requests     \* number of requests

vars == <<user, stored, cookie, request, shown, trusted, raced, requests>>

TypeOK ==
    /\ user \in BOOLEAN
    /\ stored \in Seq(SUBSET Items)
    /\ cookie \subseteq Items
    /\ request \in [Slots -> Baskets \cup {Idle}]
    /\ shown \subseteq Items
    /\ trusted \in {"no", "login", "yes"}
    /\ raced \in BOOLEAN
    /\ requests \in Nat

Init ==
    /\ user = FALSE
    /\ stored = <<>> /\ cookie = {}
    /\ request = [r \in Slots |-> Idle]
    /\ shown = {} /\ trusted = "no" /\ raced = FALSE
    /\ requests = 0
-----------------------------------------------------------------------------
Size(ids) == MapThenSumSet(LAMBDA d : SizeOf[d], ids)

Limit == IF user THEN MaxFiles ELSE MaxFilesOfGuests

\* _build_dataset_ids: what a request may find; of two rows, first() takes either.
FoundBaskets ==
    IF user /\ stored # <<>> THEN {cookie \cup stored[i] : i \in DOMAIN stored} ELSE {cookie}

(***************************************************************************)
(* add_dataset: the baskets adding d may lead to.  Of the children of a    *)
(* level 1 dataset those that match the search are added, as many as there *)
(* is room for; the query has no order and does not exclude what is in the *)
(* basket.  Either all of them are added, or none when they are too big.   *)
(***************************************************************************)
Matching(ids, d) ==
    {c \in SUBSET ChildrenOf[d] :
        /\ Cardinality(c) + Cardinality(ids) <= Limit
        /\ MaxSize = 0 \/ c = {} \/ Size(ids) + Size(c) <= MaxSize}

\* Mutation: the level 1 dataset is put into the basket itself.
AddedSelf(ids, d) == {ids \cup {d}}

\* Mutation: the rows of the query are not limited.
AddedAll(ids, d) ==
    CASE d \in Parents -> {ids \cup c : c \in SUBSET ChildrenOf[d]}
      [] d \in Leaves -> {ids \cup {d}}
      [] d \in Files -> {IF Size(ids) + SizeOf[d] < MaxSize THEN ids \cup {d} ELSE ids}

Added(ids, d) ==
    IF Cardinality(ids) >= Limit THEN {ids}
    ELSE CASE d \in Parents -> {ids \cup c : c \in Matching(ids, d) \cup {{}}}
           [] d \in Leaves -> {ids \cup {d}}
           [] d \in Files -> {IF Size(ids) + SizeOf[d] < MaxSize THEN ids \cup {d} ELSE ids}

\* _add_list_to_basket: the baskets, of all there are, that adding one after the
\* other may lead to.
AddedList(ids, list) ==
    FoldLeft(LAMBDA baskets, d : UNION {Added(b, d) : b \in baskets}, {ids}, list)
       \cap SUBSET Items

Quiet(r) == \A o \in Slots \ {r} : request[o] = Idle

\* A request under way is not alone any more.
Disturbed(b) == IF b = Idle THEN Idle ELSE [b EXCEPT !.alone = FALSE]

\* A user who has no row makes a request while another one of his is under way.
Races ==
    user /\ stored = <<>> /\ \E o \in Slots : request[o] # Idle /\ request[o].user

\* A request begins, and its action makes ids of the basket it found.
Handle(r, found, ids) ==
    /\ request[r] = Idle
    /\ requests < MaxRequests
    /\ requests' = requests + 1
    /\ request' = [o \in Slots |->
          IF o = r THEN [user |-> user, found |-> found, ids |-> ids, alone |-> Quiet(r),
                         at |-> "page", row |-> 0]
          ELSE Disturbed(request[o])]
    /\ raced' = (raced \/ Races)
    /\ trusted' = "no" /\ shown' = {}
    /\ UNCHANGED <<user, stored, cookie>>

\* Any page of the search application; also a request for a download.
View(r) == \E found \in FoundBaskets : Handle(r, found, found)

AddToBasket(r, d) ==
    \E found \in FoundBaskets : \E ids \in Added(found, d) : Handle(r, found, ids)

RemoveDataset(r, d) == \E found \in FoundBaskets : Handle(r, found, found \ {d})

EmptyBasket(r) == \E found \in FoundBaskets : Handle(r, found, {})

MergeBasket(r, list) ==
    \E found \in FoundBaskets : \E ids \in AddedList(found, list) : Handle(r, found, ids)

ReplaceBasket(r, list) ==
    \E found \in FoundBaskets : \E ids \in AddedList({}, list) : Handle(r, found, ids)

At(r, label) == request[r] # Idle /\ request[r].at = label

\* update_basket of a user, when the stash is deleted at the end of the request:
\* search and first, whichever row that is.
FindRow(r) ==
    /\ At(r, "page") /\ request[r].user
    /\ \/ /\ stored = <<>>
          /\ request' = [request EXCEPT ![r].at = "create"]
       \/ \E i \in DOMAIN stored :
             request' = [request EXCEPT ![r].at = "write", ![r].row = i]
    /\ UNCHANGED <<user, stored, cookie, shown, trusted, raced, requests>>

\* It creates an empty row when it found none, without another look.
CreateRow(r) ==
    /\ At(r, "create")
    /\ stored' = Append(stored, {})
    /\ request' = [request EXCEPT ![r].at = "write", ![r].row = Len(stored) + 1]
    /\ UNCHANGED <<user, cookie, shown, trusted, raced, requests>>

UpdateRow(r) ==
    /\ At(r, "write")
    /\ stored' = [stored EXCEPT ![request[r].row] = request[r].ids]
    /\ request' = [request EXCEPT ![r].at = "answer"]
    /\ UNCHANGED <<user, cookie, shown, trusted, raced, requests>>

\* Mutation: remove_basket_cookie is forgotten.
RespondOnly(r) ==
    LET b == request[r]
    IN  /\ At(r, IF b # Idle /\ b.user THEN "answer" ELSE "page")
        /\ cookie' = IF b.user THEN cookie ELSE b.ids
        /\ request' = [request EXCEPT ![r] = Idle]
        /\ shown' = IF b.alone THEN b.ids ELSE {}
        /\ trusted' = IF b.alone THEN "yes" ELSE "no"
        /\ UNCHANGED <<user, stored, raced, requests>>

\* The response, with the cookie update_basket has set or removed, gets to the browser.
Respond(r) ==
    LET b == request[r]
    IN  /\ At(r, IF b # Idle /\ b.user THEN "answer" ELSE "page")
        /\ cookie' = IF b.user THEN {} ELSE b.ids
        /\ request' = [request EXCEPT ![r] = Idle]
        /\ shown' = IF b.alone THEN b.ids ELSE {}
        /\ trusted' = IF b.alone THEN "yes" ELSE "no"
        /\ UNCHANGED <<user, stored, raced, requests>>

Login ==
    /\ ~user
    /\ user' = TRUE
    /\ trusted' = IF trusted = "yes" THEN "login" ELSE "no"
    /\ request' = [r \in Slots |-> Disturbed(request[r])]
    /\ UNCHANGED <<stored, cookie, shown, raced, requests>>

Logout ==
    /\ user
    /\ user' = FALSE
    /\ trusted' = "no"
    /\ request' = [r \in Slots |-> Disturbed(request[r])]
    /\ UNCHANGED <<stored, cookie, shown, raced, requests>>

Next ==
    \/ \E r \in Slots :
          \/ View(r) \/ EmptyBasket(r)
          \/ FindRow(r) \/ CreateRow(r) \/ UpdateRow(r) \/ Respond(r)
          \/ \E d \in Datasets : AddToBasket(r, d) \/ RemoveDataset(r, d)
          \/ \E list \in Lists : MergeBasket(r, list) \/ ReplaceBasket(r, list)
    \/ Login \/ Logout

Spec == Init /\ [][Next]_vars
-----------------------------------------------------------------------------
(***************************************************************************)
(* A request that no other one overlapped leaves what it showed: the next  *)
(* one finds just this, neither less nor what was removed and came back    *)
(* from the other place; and a login does not take anything away.  Only a  *)
(* user whose first requests ever overlapped, and who has two rows since,  *)
(* may be shown the other one.                                             *)
(***************************************************************************)
BasketIsKept ==
    /\ trusted = "yes" => shown \in FoundBaskets /\ (raced \/ FoundBaskets = {shown})
    /\ trusted = "login" => \A found \in FoundBaskets : shown \subseteq found

(***************************************************************************)
(* No request adds to a basket so that it has more datasets than allowed,  *)
(* nor files so that they have more bytes, whatever it adds and in         *)
(* whatever order; it may leave a basket as it is that a login made too    *)
(* large.                                                                  *)
(***************************************************************************)
NeverOverfilled ==
    \A r \in Slots : request[r] # Idle =>
        LET b == request[r]
            new == b.ids \ b.found
        IN  /\ new # {} =>
                  Cardinality(b.ids) <= IF b.user THEN MaxFiles ELSE MaxFilesOfGuests
            /\ new \cap Files # {} /\ MaxSize > 0 => Size(b.ids \cap Files) <= MaxSize
=============================================================================
