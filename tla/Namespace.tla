----------------------------- MODULE Namespace -----------------------------
(***************************************************************************)
(* The folders of one NEUDFS class as rows of the DynamoDB metadata table. *)
(*                                                                         *)
(* A folder has a row of its own, whose sort key ends in a slash, and one  *)
(* row for each entry, under the same prefix.  Renaming a folder queries   *)
(* the prefix, page by page, and then puts and deletes row after row;      *)
(* deleting one does the same without the puts.  No lock, transaction or   *)
(* condition spans two of these calls.                                     *)
(*                                                                         *)
(* The permission lists that the same handlers maintain are the subject of *)
(* FolderLists, the objects of the files that of FileStore: a failing call *)
(* on either of them is a failing call here.                               *)
(***************************************************************************)
EXTENDS Integers, Sequences

CONSTANTS
    Names,     \* folder names, as sequences of letters
    Entries,   \* names of what a folder holds
    Self,      \* the part of a folder's own key after its name: the slash
    Order,     \* all keys, as the table sorts them
    PageEnds,  \* bound: the indices in Order where a page of a query may end
    Seeds,     \* the rows present at the start
    Start,     \* key -> its row at the start, or None
    Requests,  \* requests, each run once
    Jobs,      \* what a request may be asked to do
    None,      \* no row
    Faults,    \* calls may fail or lose their replies; servers may die
    Stale      \* queries may read a replica that lags behind

Keys == [folder: Names, rest: Entries \cup {Self}]

\* A row is told from its copies and its successors by who put it first.
Rows == Seeds \cup Requests

\* A rename from the command line has a slash at the end of both names, one
\* from the graphical client has none: its query also finds the folders whose
\* names only begin like the old one.
HasPrefix(s, p) == Len(p) <= Len(s) /\ SubSeq(s, 1, Len(p)) = p

\* Mutant of Matches: the slash is forgotten everywhere.
MatchesPrefix(j, k) == HasPrefix(k.folder, j.name)

Matches(j, k) == IF j.slash THEN k.folder = j.name ELSE HasPrefix(k.folder, j.name)

\* The new prefix in place of the old one.
Moved(j, k) ==
    [k EXCEPT !.folder = j.to \o SubSeq(@, Len(j.name) + 1, Len(@))]

Renames(j) == j.kind = "rename"

ASSUME NamespaceAssumption ==
    /\ Self \notin Entries
    /\ Order \in Seq(Keys)
    /\ \A k \in Keys : \E i \in 1 .. Len(Order) : Order[i] = k
    /\ \A i, j \in 1 .. Len(Order) : Order[i] = Order[j] => i = j
    /\ PageEnds \subseteq 1 .. Len(Order) /\ Len(Order) \in PageEnds
    /\ None \notin Rows /\ Seeds \cap Requests = {}
    /\ Start \in [Keys -> Seeds \cup {None}]
    /\ Jobs \subseteq
         [kind: {"put"}, name: Names, rest: Entries \cup {Self}, slash: {TRUE}, to: Names]
         \cup [kind: {"rename", "delete"}, name: Names, rest: {Self}, slash: BOOLEAN, to: Names]
    /\ \A j \in Jobs : /\ j.kind = "delete" => j.slash
                       /\ Renames(j) => /\ j.to # j.name
                                        /\ \A k \in Keys : Matches(j, k) => Moved(j, k) \in Keys
    /\ Faults \in BOOLEAN /\ Stale \in BOOLEAN

VARIABLES
    rows,      \* key -> its row, or None
    replica,   \* key -> its row as a lagging replica has it
    job,       \* request -> what it is asked to do
    pc,        \* request -> its next step, or how it ended
    upto,      \* request -> how many keys, in their order, its query has passed
    found,     \* request -> the rows its query returned that are still to be handled
    resent,    \* requests that have used up the resend of a call
    born,      \* rows that were ever put
    replaced,  \* rows that another one was put over, or that a delete removed
    exposed    \* rows put where a rename in flight has read something else

vars == <<rows, replica, job, pc, upto, found, resent, born, replaced, exposed>>

InFlight == {"page", "put", "drop"}
Finished == {"ok", "notfound", "error"}
Nothing == [k \in Keys |-> None]

Init ==
    /\ rows = Start
    /\ replica = Start
    /\ job \in [Requests -> Jobs]
    /\ pc = [r \in Requests |-> "new"]
    /\ upto = [r \in Requests |-> 0]
    /\ found = [r \in Requests |-> Nothing]
    /\ resent = {}
    /\ born = {Start[k] : k \in Keys} \ {None}
    /\ replaced = {} /\ exposed = {}

----------------------------------------------------------------------------
(* Calls and their replies *)

Goto(r, next) == pc' = [pc EXCEPT ![r] = next]

\* A request ends and forgets what it has read.
Finish(r, answer) ==
    /\ Goto(r, answer)
    /\ upto' = [upto EXCEPT ![r] = 0]
    /\ found' = [found EXCEPT ![r] = Nothing]

\* A call was applied, its reply is lost, and the SDK sends it again: at most
\* once in a request.
Resend(r) ==
    /\ Faults /\ r \notin resent
    /\ resent' = resent \cup {r}
    /\ UNCHANGED <<pc, upto, found>>

\* Whether a rename in flight has read a row at this key and will delete it.
AboutToDrop(k) ==
    \E q \in Requests : Renames(job[q]) /\ pc[q] \in InFlight /\ found[q][k] # None

\* PutItem, which replaces whatever the key has.
Put(k, row) ==
    /\ rows' = [rows EXCEPT ![k] = row]
    /\ born' = born \cup {row}
    /\ replaced' = replaced \cup ({rows[k]} \ {None, row})
    /\ exposed' = IF AboutToDrop(k) THEN exposed \cup {row} ELSE exposed

\* The views of the table a query may get.
Views == IF Stale THEN {rows, replica} ELSE {rows}

----------------------------------------------------------------------------
(* MakeDirectory, and the end of an Upload *)

\* Neither looks at the row it may replace.
PutRow(r) ==
    /\ pc[r] = "new" /\ job[r].kind = "put"
    /\ Put([folder |-> job[r].name, rest |-> job[r].rest], r)
    /\ \/ Finish(r, "ok") /\ UNCHANGED resent
       \/ Faults /\ Finish(r, "error") /\ UNCHANGED resent
       \/ Resend(r)
    /\ UNCHANGED <<replica, job>>

----------------------------------------------------------------------------
(* The query that renames and deletes start with *)

StartRename(r) ==
    /\ pc[r] = "new" /\ job[r].kind = "rename"
    /\ Goto(r, "page")
    /\ UNCHANGED <<rows, replica, job, upto, found, resent, born, replaced, exposed>>

\* Delete looks for the folder's own row, without ConsistentRead.
StartDelete(r) ==
    /\ pc[r] = "new" /\ job[r].kind = "delete"
    /\ \E view \in Views :
          Goto(r, IF view[[folder |-> job[r].name, rest |-> Self]] = None
                  THEN "notfound" ELSE "page")
    /\ UNCHANGED <<rows, replica, job, upto, found, resent, born, replaced, exposed>>

\* The keys of the next page, if it ends at the n-th key.
Page(r, n) == {Order[i] : i \in upto[r] + 1 .. n}

\* Mutant of AfterQuery: an empty result is not looked at.
AfterQueryAtOnce(r, items) ==
    IF Renames(job[r]) THEN "put" ELSE IF items = Nothing THEN "ok" ELSE "drop"

\* What follows the last page.
AfterQuery(r, items) ==
    IF items = Nothing
    THEN IF Renames(job[r]) THEN "notfound" ELSE "ok"
    ELSE IF Renames(job[r]) THEN "put" ELSE "drop"

\* queryAllPages: every page is a read of its own, of whatever view.
ReadPage(r) ==
    /\ pc[r] = "page"
    /\ \E n \in {e \in PageEnds : upto[r] < e}, view \in Views :
          LET new == {k \in Page(r, n) : Matches(job[r], k)}
              items == [k \in Keys |-> IF k \in new THEN view[k] ELSE found[r][k]]
          IN  /\ found' = [found EXCEPT ![r] = items]
              /\ upto' = [upto EXCEPT ![r] = IF n = Len(Order) THEN 0 ELSE n]
              /\ Goto(r, IF n = Len(Order) THEN AfterQuery(r, items) ELSE "page")
              /\ exposed' =
                    IF Renames(job[r])
                    THEN exposed \cup ({rows[k] : k \in {k \in new : view[k] \notin {None, rows[k]}}} \ {None})
                    ELSE exposed
    /\ UNCHANGED <<rows, replica, job, resent, born, replaced>>

----------------------------------------------------------------------------
(* renameDirectoryMetadata *)

\* The first of the items still to be handled.
Current(r) ==
    LET Left == {i \in 1 .. Len(Order) : found[r][Order[i]] # None}
    IN  Order[CHOOSE i \in Left : \A n \in Left : i <= n]

\* The next item, or the end.
NextItem(r, first) ==
    LET items == [found[r] EXCEPT ![Current(r)] = None]
    IN  IF items = Nothing THEN Finish(r, "ok")
        ELSE /\ Goto(r, first)
             /\ found' = [found EXCEPT ![r] = items]
             /\ UNCHANGED upto

PutNew(r) ==
    /\ pc[r] = "put"
    /\ Put(Moved(job[r], Current(r)), found[r][Current(r)])
    /\ \/ Goto(r, "drop") /\ UNCHANGED <<upto, found, resent>>
       \/ Faults /\ NextItem(r, "put") /\ UNCHANGED resent
       \/ Resend(r)
    /\ UNCHANGED <<replica, job>>

\* The old row is deleted, whatever it is by now.
DropOld(r) ==
    /\ pc[r] = "drop" /\ Renames(job[r])
    /\ rows' = [rows EXCEPT ![Current(r)] = None]
    /\ \/ NextItem(r, "put") /\ UNCHANGED resent
       \/ Resend(r)
    /\ UNCHANGED <<replica, job, born, replaced, exposed>>

\* Mutant of PutFails: the loop does not continue with the next item.
PutFailsGoesOn(r) ==
    /\ Faults
    /\ pc[r] = "put"
    /\ Goto(r, "drop")
    /\ UNCHANGED <<rows, replica, job, upto, found, resent, born, replaced, exposed>>

\* A row that cannot be put is left where it is.
PutFails(r) ==
    /\ Faults
    /\ pc[r] = "put"
    /\ NextItem(r, "put")
    /\ UNCHANGED <<rows, replica, job, resent, born, replaced, exposed>>

\* So is one that cannot be deleted: it is there twice then.
DropFails(r) ==
    /\ Faults
    /\ pc[r] = "drop" /\ Renames(job[r])
    /\ NextItem(r, "put")
    /\ UNCHANGED <<rows, replica, job, resent, born, replaced, exposed>>

----------------------------------------------------------------------------
(* Delete *)

DropRow(r) ==
    /\ pc[r] = "drop" /\ job[r].kind = "delete"
    /\ rows' = [rows EXCEPT ![Current(r)] = None]
    /\ replaced' = replaced \cup ({rows[Current(r)]} \ {None})
    /\ \/ NextItem(r, "drop") /\ UNCHANGED resent
       \/ Faults /\ Finish(r, "error") /\ UNCHANGED resent
       \/ Resend(r)
    /\ UNCHANGED <<replica, job, born, exposed>>

\* A failing call, with which a query, a put or a delete ends; or the server
\* stops, in the middle of whatever it does.
EndsInError(r) ==
    /\ Faults
    /\ pc[r] \in InFlight \/ pc[r] = "new"
    /\ Finish(r, "error")
    /\ UNCHANGED <<rows, replica, job, resent, born, replaced, exposed>>

----------------------------------------------------------------------------

\* The replica catches up on one key.  Keys that no query to come will find are
\* left alone.
Replicate(k) ==
    /\ Stale
    /\ \E r \in Requests : /\ pc[r] \in {"new", "page"} /\ job[r].kind # "put"
                           /\ Matches(job[r], k)
    /\ replica[k] # rows[k]
    /\ replica' = [replica EXCEPT ![k] = rows[k]]
    /\ UNCHANGED <<rows, job, pc, upto, found, resent, born, replaced, exposed>>

\* Nothing is left to do: every request runs once.
Done ==
    /\ \A r \in Requests : pc[r] \in Finished
    /\ UNCHANGED vars

Next ==
    \/ \E r \in Requests :
          \/ PutRow(r)
          \/ StartRename(r) \/ StartDelete(r) \/ ReadPage(r)
          \/ PutNew(r) \/ DropOld(r) \/ PutFails(r) \/ DropFails(r)
          \/ DropRow(r)
          \/ EndsInError(r)
    \/ \E k \in Keys : Replicate(k)
    \/ Done

Spec == Init /\ [][Next]_vars

----------------------------------------------------------------------------
(* Properties *)

\* The type invariant.  A request in its loop has an item to handle.
TypeOK ==
    /\ rows \in [Keys -> Rows \cup {None}]
    /\ replica \in [Keys -> Rows \cup {None}]
    /\ job \in [Requests -> Jobs]
    /\ pc \in [Requests -> {"new"} \cup InFlight \cup Finished]
    /\ upto \in [Requests -> 0 .. Len(Order)]
    /\ found \in [Requests -> [Keys -> Rows \cup {None}]]
    /\ resent \subseteq Requests
    /\ born \subseteq Rows /\ replaced \subseteq Rows /\ exposed \subseteq Rows
    /\ \A r \in Requests : pc[r] \in {"put", "drop"} => found[r] # Nothing

\* Whatever fails or dies in renames of folders, and however they race, the
\* only rows they lose are those that were put under the old name after the
\* query of a rename had read that key (or read an older version of it).
EntriesSurviveRenames ==
    \A row \in born \ (replaced \cup exposed) : \E k \in Keys : rows[k] = row

\* Deleting a folder, and renaming one from the command line, removes no row of
\* a folder whose name only begins like it.
RemovalsStayInside ==
    [][\A r \in Requests : \A k \in Keys :
          /\ pc[r] = "drop" /\ found'[r] # found[r]
          /\ job[r].slash
          /\ rows[k] # None /\ rows'[k] = None
          => k.folder = job[r].name]_vars

\* What report.md asks of concurrent renames (metadata is not corrupted): an
\* upload or mkdir that has reported success has its row, under whatever name,
\* unless it was replaced or deleted since.
AcknowledgedRowsStay ==
    \A r \in Requests : /\ job[r].kind = "put" /\ pc[r] = "ok" /\ r \notin replaced
                        => \E k \in Keys : rows[k] = r
=============================================================================
