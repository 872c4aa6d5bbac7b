--------------------------- MODULE Subscriptions ---------------------------
(***************************************************************************)
(* Subscriptions to one dataset: the InfoUDS rows of the user database,    *)
(* which web requests and administrators change, and the activation that   *)
(* ForeignDataset::writeToFile starts for every new file, which walks over *)
(* these rows one at a time, outside of any transaction, and pushes the    *)
(* file to the subscribers of each type.                                   *)
(***************************************************************************)
EXTENDS Naturals, FiniteSets

CONSTANTS
    Users,
    Addresses,     \* mail addresses
    Transfers,     \* parameters of subscriptions of type sms
    Malformed,     \* those that do not make a valid subscription document
    BadTransfers,  \* parameters _validate_transfer_params refuses
    Requests,      \* the requests the web server can do at a time
    NoRequest, NoRow,
    MaxRows,       \* bound: rows ever inserted
    MaxFiles       \* bound: activations

ASSUME SubscriptionsAssumption ==
    /\ Addresses \cap Transfers = {}
    /\ Malformed \subseteq Addresses \cup Transfers
    /\ BadTransfers \subseteq Transfers
    /\ MaxRows \in Nat /\ MaxFiles \in Nat

Types == {"email", "sms"}

Contents == [type : {"email"}, value : Addresses] \cup [type : {"sms"}, value : Transfers]

Valid(c) == c.value \notin Malformed

Rows == [i_id : Nat, user : Users, content : Contents]

Posts == [user : Users, content : Contents]

\* What of a level 2 dataset decides about the pushes: it has a dataref, and its
\* dataset has the location the files are in.
Files == [dataref : BOOLEAN, located : BOOLEAN]

ASSUME NoneAssumption == NoRequest \notin Posts /\ NoRow \notin Rows

VARIABLES
    users,       \* UserTable
    rows,        \* InfoUDS
    serial,      \* the sequence of InfoUDS.i_id
    posts,       \* requests between the search and the insert of update_or_create
    pc,          \* where activate_subscription_handlers is
    file,        \* the new file
    left,        \* infoUDS_rows: the ids not read yet, in any order
    row,         \* infoUDS_record: the current row
    subscriptions, \* what %subscriptions has collected
    served,      \* the rows whose subscribers were given the file
    present,     \* history: the rows the activation found
    cancelled,   \* history: rows of these deleted before its end
    refused,     \* history: types whose push failed
    raced,       \* history: subscriptions two requests made at the same time
    files        \* number of activations

table      == <<users, rows, serial, posts>>
activation == <<pc, file, left, row, subscriptions, served>>
vars == <<table, activation, present, cancelled, refused, raced, files>>

TypeOK ==
    /\ users \subseteq Users
    /\ rows \subseteq Rows
    /\ serial \in Nat
    /\ posts \in [Requests -> Posts \cup {NoRequest}]
    /\ pc \in {"idle", "read", "collect", "push", "done"}
    /\ file \in Files
    /\ left \subseteq Nat
    /\ row \in Rows \cup {NoRow}
    /\ pc = "collect" => row \in Rows
    /\ subscriptions \subseteq Rows
    /\ served \subseteq Rows
    /\ present \subseteq Rows /\ cancelled \subseteq Rows
    /\ refused \subseteq Types
    /\ raced \subseteq Posts
    /\ files \in Nat

Init ==
    /\ users = Users
    /\ rows = {} /\ serial = 0
    /\ posts = [q \in Requests |-> NoRequest]
    /\ pc = "idle" /\ file = [dataref |-> FALSE, located |-> FALSE]
    /\ left = {} /\ row = NoRow /\ subscriptions = {} /\ served = {}
    /\ present = {} /\ cancelled = {} /\ refused = {}
    /\ raced = {} /\ files = 0
-----------------------------------------------------------------------------
Same(r, p) == r.user = p.user /\ r.content = p.content

\* Mutation: an id of a deleted row is used again.
InsertReusing(p) ==
    /\ serial < MaxRows
    /\ serial' = serial + 1
    /\ rows' = rows \cup {[i_id |-> Cardinality(rows), user |-> p.user, content |-> p.content]}

Insert(p) ==
    LET r == [i_id |-> serial, user |-> p.user, content |-> p.content]
    IN  /\ serial < MaxRows
        /\ serial' = serial + 1
        /\ rows' = rows \cup {r}

Running == pc \notin {"idle", "done"}

Delete(rs) ==
    /\ rows' = rows \ rs
    /\ cancelled' = IF Running THEN cancelled \cup (rs \cap present) ELSE cancelled

\* Mutation: create for update_or_create.
PostAnyway(q, p) ==
    /\ posts[q] = NoRequest
    /\ p.user \in users /\ p.content.type = "email"
    /\ posts' = [posts EXCEPT ![q] = p]
    /\ raced' = IF \E o \in Requests : posts[o] = p THEN raced \cup {p} ELSE raced
    /\ UNCHANGED <<users, rows, serial, activation, present, cancelled, refused, files>>

\* subscription_POST: an identical row is left as it is; other than that, the row
\* is inserted by a statement of its own.
Post(q, p) ==
    /\ posts[q] = NoRequest
    /\ p.user \in users /\ p.content.type = "email"
    /\ \A r \in rows : ~Same(r, p)
    /\ posts' = [posts EXCEPT ![q] = p]
    /\ raced' = IF \E o \in Requests : posts[o] = p THEN raced \cup {p} ELSE raced
    /\ UNCHANGED <<users, rows, serial, activation, present, cancelled, refused, files>>

\* The row of a user deleted in the meantime is refused by its foreign key.
Create(q) ==
    /\ posts[q] # NoRequest
    /\ \/ posts[q].user \in users /\ Insert(posts[q])
       \/ posts[q].user \notin users /\ UNCHANGED <<rows, serial>>
    /\ posts' = [posts EXCEPT ![q] = NoRequest]
    /\ UNCHANGED <<users, activation, present, cancelled, refused, raced, files>>

\* subscription_DELETE: all subscriptions of the user to the dataset.
Cancel(u) ==
    /\ \E r \in rows : r.user = u
    /\ Delete({r \in rows : r.user = u})
    /\ UNCHANGED <<users, serial, posts, activation, present, refused, raced, files>>

\* Nothing but SQL by an administrator makes a subscription of type sms.
InsertSMS(p) ==
    /\ p.user \in users /\ p.content.type = "sms"
    /\ \A r \in rows : ~Same(r, p)
    /\ Insert(p)
    /\ UNCHANGED <<users, posts, activation, present, cancelled, refused, raced, files>>

\* deleteuser, with the ON DELETE CASCADE of InfoUDS.
DeleteUser(u) ==
    /\ u \in users
    /\ users' = users \ {u}
    /\ Delete({r \in rows : r.user = u})
    /\ UNCHANGED <<serial, posts, activation, present, refused, raced, files>>
-----------------------------------------------------------------------------
\* _get_subscriptions: the ids of all rows of the dataset.
Activate(f) ==
    /\ pc \in {"idle", "done"}
    /\ files < MaxFiles
    /\ files' = files + 1
    /\ file' = f
    /\ left' = {r.i_id : r \in rows}
    /\ row' = NoRow /\ subscriptions' = {} /\ served' = {}
    /\ pc' = IF rows = {} THEN "done" ELSE "read"
    /\ present' = rows /\ cancelled' = {} /\ refused' = {}
    /\ UNCHANGED <<table, raced>>

\* infoUDS_set or infoUDS_next reads the next row.
ReadRow(r) ==
    /\ pc = "read"
    /\ r.i_id \in left
    /\ row' = r
    /\ left' = left \ {r.i_id}
    /\ pc' = "collect"
    /\ UNCHANGED <<table, file, subscriptions, served, present, cancelled, refused, raced, files>>

\* Mutation: the result of _infoUDS_read is not looked at.
ReadGone(i) ==
    /\ pc = "read"
    /\ i \in left
    /\ \A r \in rows : r.i_id # i
    /\ left' = left \ {i}
    /\ pc' = "collect"
    /\ UNCHANGED <<table, file, row, subscriptions, served, present, cancelled, refused, raced, files>>

\* When the row is gone the loop ends, as after the last row.
RowGone(i) ==
    /\ pc = "read"
    /\ i \in left
    /\ \A r \in rows : r.i_id # i
    /\ pc' = "push"
    /\ UNCHANGED <<table, file, left, row, subscriptions, served, present, cancelled, refused, raced, files>>

Return == pc' = "done" /\ left' = {} /\ row' = NoRow /\ subscriptions' = {}

\* next, which means the do-while, leaves all subroutines up to a loop of a caller:
\* the document is not valid, or the user is gone.
LeaveAll ==
    /\ pc = "collect"
    /\ ~Valid(row.content) \/ row.user \notin users
    /\ Return
    /\ UNCHANGED <<table, file, served, present, cancelled, refused, raced, files>>

\* Mutation: the list of a type is made anew for every subscription.
CollectLast ==
    /\ pc = "collect"
    /\ Valid(row.content) /\ row.user \in users
    /\ subscriptions' = {r \in subscriptions : r.content.type # row.content.type} \cup {row}
    /\ pc' = IF left = {} THEN "push" ELSE "read"
    /\ UNCHANGED <<table, file, left, row, served, present, cancelled, refused, raced, files>>

Collect ==
    /\ pc = "collect"
    /\ Valid(row.content) /\ row.user \in users
    /\ subscriptions' = subscriptions \cup {row}
    /\ pc' = IF left = {} THEN "push" ELSE "read"
    /\ UNCHANGED <<table, file, left, row, served, present, cancelled, refused, raced, files>>

OfType(t) == {r \in subscriptions : r.content.type = t}

\* The subscribers a handler serves when nothing fails: all of them with one mail,
\* or those with usable parameters with one transfer file.
Eligible(t) ==
    CASE t = "email" -> IF file.dataref THEN OfType(t) ELSE {}
      [] t = "sms"   -> IF file.located
                        THEN {r \in OfType(t) : r.content.value \notin BadTransfers}
                        ELSE {}

Push(t) ==
    /\ pc = "push"
    /\ OfType(t) # {}
    /\ Eligible(t) # {}
    /\ served' = served \cup Eligible(t)
    /\ subscriptions' = subscriptions \ OfType(t)
    /\ UNCHANGED <<table, pc, file, left, row, present, cancelled, refused, raced, files>>

\* The handler cannot serve anybody, or the mailer, the transfer file or the file
\* last_changed fails.  This is logged, and the next type is tried.
PushFails(t) ==
    /\ pc = "push"
    /\ OfType(t) # {}
    /\ refused' = refused \cup {t}
    /\ subscriptions' = subscriptions \ OfType(t)
    /\ UNCHANGED <<table, pc, file, left, row, served, present, cancelled, raced, files>>

Finish ==
    /\ pc = "push"
    /\ subscriptions = {}
    /\ Return
    /\ UNCHANGED <<table, file, served, present, cancelled, refused, raced, files>>

Next ==
    \/ \E q \in Requests, p \in Posts : Post(q, p)
    \/ \E q \in Requests : Create(q)
    \/ \E p \in Posts : InsertSMS(p)
    \/ \E u \in Users : Cancel(u) \/ DeleteUser(u)
    \/ \E f \in Files : Activate(f)
    \/ \E r \in rows : ReadRow(r)
    \/ \E i \in left : RowGone(i)
    \/ LeaveAll \/ Collect \/ Finish
    \/ \E t \in Types : Push(t) \/ PushFails(t)

Spec == Init /\ [][Next]_vars
-----------------------------------------------------------------------------
(***************************************************************************)
(* When an activation is over, a subscriber it found was given the file,   *)
(* unless one of the subscriptions was cancelled while it ran, one of them *)
(* is not a valid document (either hinders all of them), the push to all   *)
(* of the type failed, or it is one with transfer parameters of no use.    *)
(***************************************************************************)
OnlyHinderedMiss ==
    pc = "done" =>
        \A r \in present :
            \/ r \in served
            \/ present \cap cancelled # {}
            \/ \E s \in present : ~Valid(s.content)
            \/ r.content.type \in refused
            \/ r.content.value \in BadTransfers

(***************************************************************************)
(* Nobody gets a file whose subscription was not there when the activation *)
(* for the file began: one cancelled before, or collected for another file.*)
(***************************************************************************)
OnlySubscribersAreServed == served \subseteq present

(***************************************************************************)
(* A user has the same subscription twice only when two requests for it    *)
(* were done at the same time: InfoUDS has no constraint against it.       *)
(***************************************************************************)
DoubledOnlyByRace ==
    \A r, s \in rows :
        r # s /\ Same(r, s) => [user |-> r.user, content |-> r.content] \in raced
=============================================================================
