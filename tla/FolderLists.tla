---------------------------- MODULE FolderLists ----------------------------
(***************************************************************************)
(* The folder permission lists of one NEUDFS class.                        *)
(*                                                                         *)
(* The class_info item lists the folders shared with the class, and every  *)
(* member's user item lists folders of its own.  A new folder is appended  *)
(* to one of these lists, renaming a folder rewrites single entries by     *)
(* their index in a list read before, and deleting one rewrites whole      *)
(* lists with compare-and-swap, a bounded number of times per list.  All   *)
(* this runs in concurrent requests.                                       *)
(*                                                                         *)
(* This is the part of MakeDirectory, RenameDirectory and Delete that      *)
(* works on the lists; what they do to the metadata rows comes before it   *)
(* (rename, delete) or after it (mkdir).  A folder is a sequence of path   *)
(* components, no component being a proper string prefix of another.       *)
(***************************************************************************)
EXTENDS Integers, Sequences

CONSTANTS
    Names,        \* path components
    Students,     \* students of the class
    Staff,        \* its TAs and its professor
    Class,        \* the holder of the shared list
    Order,        \* the holders in the order Delete visits them
    Requests,     \* request slots: so many requests can be in flight
    Jobs,         \* what a request may be asked to do
    Start,        \* the lists at the start
    MaxAttempts,  \* compare-and-swap attempts per list (8 in the code)
    MaxLen,       \* bound: no list grows beyond this length
    Stale,        \* eventually consistent reads may be stale
    Faults        \* calls to DynamoDB may fail

Holders == {Class} \cup Students \cup Staff
Paths == Seq(Names)

ASSUME ListsAssumption ==
    /\ Class \notin Students \cup Staff
    /\ Order \in Seq(Holders) /\ Order # <<>> /\ Order[1] = Class
    /\ \A h \in Holders : \E i \in 1 .. Len(Order) : Order[i] = h
    /\ \A i, j \in 1 .. Len(Order) : Order[i] = Order[j] => i = j
    /\ Start \in [Holders -> Seq(Paths)]
    /\ Jobs \subseteq [kind: {"mkdir"}, who: Holders, folder: Paths, to: {<<>>}]
                 \cup [kind: {"rename"}, who: Holders \ {Class}, folder: Paths, to: Paths]
                 \cup [kind: {"delete"}, who: {Class}, folder: Paths, to: {<<>>}]
    /\ Jobs # {}
    /\ MaxAttempts \in Nat \ {0} /\ MaxLen \in Nat
    /\ Stale \in BOOLEAN /\ Faults \in BOOLEAN

VARIABLES
    lists,     \* holder -> its list of folders
    lagged,    \* holder -> the list as an eventually consistent read may see it
    pc,        \* request -> its next step, or how it ended
    job,       \* request -> what it is asked to do
    holder,    \* request -> the list it is working on
    left,      \* request -> the lists still to come
    snap,      \* request -> the list it has read
    index,     \* request -> the first index of snap not yet looked at
    attempts,  \* request -> failed compare-and-swaps on the current list
    gaveUp     \* requests that used up their attempts on some list

vars == <<lists, lagged, pc, job, holder, left, snap, index, attempts, gaveUp>>

Resting == {"idle", "ok", "exists", "error"}

AnyJob == CHOOSE j \in Jobs : TRUE

Init ==
    /\ lists = Start
    /\ lagged = Start
    /\ pc = [r \in Requests |-> "idle"]
    /\ job = [r \in Requests |-> AnyJob]
    /\ holder = [r \in Requests |-> Class]
    /\ left = [r \in Requests |-> {}]
    /\ snap = [r \in Requests |-> <<>>]
    /\ index = [r \in Requests |-> 1]
    /\ attempts = [r \in Requests |-> 0]
    /\ gaveUp = {}

----------------------------------------------------------------------------
(* Lists and paths *)

Entries(s) == {s[i] : i \in 1 .. Len(s)}

\* f is the folder d itself or lies inside it.
Inside(d, f) == Len(f) >= Len(d) /\ SubSeq(f, 1, Len(d)) = d

\* f with the folder d at its front replaced by e.
Moved(f, d, e) == e \o SubSeq(f, Len(d) + 1, Len(f))

\* A list without the folder d and what is inside it: kept[i] is what is kept
\* of its first i entries.
Without(s, d) ==
    LET kept[i \in 0 .. Len(s)] ==
            IF i = 0 THEN <<>>
            ELSE IF Inside(d, s[i]) THEN kept[i - 1] ELSE Append(kept[i - 1], s[i])
    IN  kept[Len(s)]

Reads(h) == IF Stale THEN {lists[h], lagged[h]} ELSE {lists[h]}

Goto(r, next) == pc' = [pc EXCEPT ![r] = next]

\* The request is answered; of its locals nothing is left.
Finish(r, answer) ==
    /\ Goto(r, answer)
    /\ job' = [job EXCEPT ![r] = AnyJob]
    /\ holder' = [holder EXCEPT ![r] = Class]
    /\ left' = [left EXCEPT ![r] = {}]
    /\ snap' = [snap EXCEPT ![r] = <<>>]
    /\ index' = [index EXCEPT ![r] = 1]
    /\ attempts' = [attempts EXCEPT ![r] = 0]

----------------------------------------------------------------------------
(* MakeDirectory *)

\* The check for the folder, on a list read earlier.
StartMkdir(r, j) ==
    /\ pc[r] \in Resting /\ j.kind = "mkdir"
    /\ \E s \in Reads(j.who) :
          \/ /\ j.folder \in Entries(s)
             /\ Goto(r, "exists") /\ UNCHANGED job
          \/ /\ j.folder \notin Entries(s)
             /\ Goto(r, "append") /\ job' = [job EXCEPT ![r] = j]
    /\ gaveUp' = gaveUp \ {r}
    /\ UNCHANGED <<lists, lagged, holder, left, snap, index, attempts>>

\* list_append, without a condition.  If its reply is lost the caller sees an
\* error, or the SDK sends it again.
AppendFolder(r) ==
    /\ pc[r] = "append"
    /\ LET h == job[r].who IN
          /\ Len(lists[h]) < MaxLen
          /\ lists' = [lists EXCEPT ![h] = Append(@, job[r].folder)]
    /\ \/ Finish(r, "ok")
       \/ Faults /\ Finish(r, "error")
       \/ Faults /\ UNCHANGED <<pc, job, holder, left, snap, index, attempts>>
    /\ UNCHANGED <<lagged, gaveUp>>

----------------------------------------------------------------------------
(* Renaming a directory: updateFolderLists *)

\* The class list first, then the caller's and the students' lists.
StartRename(r, j) ==
    /\ pc[r] \in Resting /\ j.kind = "rename"
    /\ job' = [job EXCEPT ![r] = j]
    /\ holder' = [holder EXCEPT ![r] = Class]
    /\ index' = [index EXCEPT ![r] = 1]
    /\ \/ /\ \E s \in Reads(Class) : snap' = [snap EXCEPT ![r] = s]
          /\ left' = [left EXCEPT ![r] = {j.who} \cup Students]
       \/ /\ Faults           \* no class info: only the caller's list is left
          /\ snap' = [snap EXCEPT ![r] = <<>>]
          /\ left' = [left EXCEPT ![r] = {j.who}]
    /\ Goto(r, "reindex")
    /\ gaveUp' = gaveUp \ {r}
    /\ UNCHANGED <<lists, lagged, attempts>>

\* Mutant of ToRename: no entry is compared with the folder.
ToRenameAll(r) == index[r] .. Len(snap[r])

\* The indices of the list as read whose entries are to be renamed.
ToRename(r) == {i \in index[r] .. Len(snap[r]) : Inside(job[r].folder, snap[r][i])}

\* SET list[i] = :val sets the entry that has the index now; beyond the end of
\* the list it appends.  An error is logged and the loop goes on.
RenameEntry(r) ==
    /\ pc[r] = "reindex"
    /\ \E i \in ToRename(r) :
          LET h == holder[r]
              new == Moved(snap[r][i], job[r].folder, job[r].to) IN
          /\ \A k \in ToRename(r) : i <= k
          /\ index' = [index EXCEPT ![r] = i + 1]
          /\ \/ /\ i <= Len(lists[h])
                /\ lists' = [lists EXCEPT ![h][i] = new]
             \/ /\ i > Len(lists[h]) /\ Len(lists[h]) < MaxLen
                /\ lists' = [lists EXCEPT ![h] = Append(@, new)]
             \/ /\ Faults
                /\ UNCHANGED lists
    /\ UNCHANGED <<lagged, pc, job, holder, left, snap, attempts, gaveUp>>

\* The next profile, in the random order of a Go map; one that cannot be read
\* is skipped.
NextProfile(r) ==
    /\ pc[r] = "reindex" /\ ToRename(r) = {}
    /\ \E h \in left[r] :
          /\ left' = [left EXCEPT ![r] = @ \ {h}]
          /\ \/ /\ holder' = [holder EXCEPT ![r] = h]
                /\ index' = [index EXCEPT ![r] = 1]
                /\ \E s \in Reads(h) : snap' = [snap EXCEPT ![r] = s]
             \/ /\ Faults
                /\ UNCHANGED <<holder, index, snap>>
    /\ UNCHANGED <<lists, lagged, pc, job, attempts, gaveUp>>

RenameDone(r) ==
    /\ pc[r] = "reindex" /\ ToRename(r) = {} /\ left[r] = {}
    /\ Finish(r, "ok")
    /\ UNCHANGED <<lists, lagged, gaveUp>>

----------------------------------------------------------------------------
(* Deleting a directory: removeFolderFromLists *)

StartDelete(r, j) ==
    /\ pc[r] \in Resting /\ j.kind = "delete"
    /\ job' = [job EXCEPT ![r] = j]
    /\ holder' = [holder EXCEPT ![r] = Class]
    /\ left' = [left EXCEPT ![r] = Holders \ {Class}]
    /\ attempts' = [attempts EXCEPT ![r] = 0]
    /\ Goto(r, "read")
    /\ gaveUp' = gaveUp \ {r}
    /\ UNCHANGED <<lists, lagged, snap, index>>

\* On to the next list, or nil after the last one.
NextHolder(r) ==
    \/ /\ left[r] = {}
       /\ Finish(r, "ok")
    \/ \E i \in 1 .. Len(Order) :
          /\ Order[i] \in left[r]
          /\ \A k \in 1 .. i - 1 : Order[k] \notin left[r]
          /\ holder' = [holder EXCEPT ![r] = Order[i]]
          /\ left' = [left EXCEPT ![r] = @ \ {Order[i]}]
          /\ attempts' = [attempts EXCEPT ![r] = 0]
          /\ Goto(r, "read")
          /\ UNCHANGED <<job, snap, index>>

\* The loop ends at once if the list read holds nothing of the folder.
ReadList(r) ==
    /\ pc[r] = "read"
    /\ \E s \in Reads(holder[r]) :
          \/ /\ Without(s, job[r].folder) = s
             /\ NextHolder(r)
          \/ /\ Without(s, job[r].folder) # s
             /\ snap' = [snap EXCEPT ![r] = s]
             /\ Goto(r, "swap")
             /\ UNCHANGED <<job, holder, left, index, attempts>>
    /\ UNCHANGED <<lists, lagged, gaveUp>>

\* Mutant of Unchanged: no condition.
MaybeChanged(s, h) == TRUE

\* list = :expected, with the list as it was read.
Unchanged(s, h) == lists[h] = s

\* The compare-and-swap succeeds.  If its reply is lost the caller sees an
\* error, or the SDK sends it again.
SwapList(r) ==
    /\ pc[r] = "swap"
    /\ Unchanged(snap[r], holder[r])
    /\ lists' = [lists EXCEPT ![holder[r]] = Without(snap[r], job[r].folder)]
    /\ \/ NextHolder(r)
       \/ Faults /\ Finish(r, "error")
       \/ Faults /\ UNCHANGED <<pc, job, holder, left, snap, index, attempts>>
    /\ UNCHANGED <<lagged, gaveUp>>

\* attempt++, and the loop's condition.
NextAttempt(n) == n + 1

\* Mutant of AttemptsLeft: one attempt too many.
OneMoreAttempt(n) == n < MaxAttempts

AttemptsLeft(n) == NextAttempt(n) < MaxAttempts

\* Mutant of SwapRefused: break where the loop should continue.
SwapRefusedMovesOn(r) ==
    /\ pc[r] = "swap"
    /\ ~Unchanged(snap[r], holder[r])
    /\ NextHolder(r)
    /\ UNCHANGED <<lists, lagged, gaveUp>>

\* The swap fails because the list has changed: read again.
SwapRefused(r) ==
    /\ pc[r] = "swap"
    /\ ~Unchanged(snap[r], holder[r])
    /\ AttemptsLeft(attempts[r])
    /\ attempts' = [attempts EXCEPT ![r] = NextAttempt(@)]
    /\ Goto(r, "read")
    /\ UNCHANGED <<lists, lagged, job, holder, left, snap, index, gaveUp>>

\* It fails for the last time: the loop falls through to the next list.
SwapGivesUp(r) ==
    /\ pc[r] = "swap"
    /\ ~Unchanged(snap[r], holder[r])
    /\ ~AttemptsLeft(attempts[r])
    /\ gaveUp' = gaveUp \cup {r}
    /\ NextHolder(r)
    /\ UNCHANGED <<lists, lagged>>

\* Any other error ends the request, lists already rewritten staying so.
CallFails(r) ==
    /\ Faults
    /\ pc[r] \in {"append", "read", "swap"}
    /\ Finish(r, "error")
    /\ UNCHANGED <<lists, lagged, gaveUp>>

----------------------------------------------------------------------------

Replicate(h) ==
    /\ Stale
    /\ lagged[h] # lists[h]
    /\ lagged' = [lagged EXCEPT ![h] = lists[h]]
    /\ UNCHANGED <<lists, pc, job, holder, left, snap, index, attempts, gaveUp>>

\* The code of request r, once it has been called.
Step(r) ==
    \/ AppendFolder(r)
    \/ RenameEntry(r) \/ NextProfile(r) \/ RenameDone(r)
    \/ ReadList(r) \/ SwapList(r) \/ SwapRefused(r) \/ SwapGivesUp(r)
    \/ CallFails(r)

Next ==
    \/ \E r \in Requests, j \in Jobs :
          StartMkdir(r, j) \/ StartRename(r, j) \/ StartDelete(r, j)
    \/ \E r \in Requests : Step(r)
    \/ \E h \in Holders : Replicate(h)

Spec == Init /\ [][Next]_vars

----------------------------------------------------------------------------
(* Properties *)

\* The type invariant.  No request counts more attempts than the loop allows.
TypeOK ==
    /\ lists \in [Holders -> Seq(Paths)]
    /\ lagged \in [Holders -> Seq(Paths)]
    /\ pc \in [Requests -> Resting \cup {"append", "reindex", "read", "swap"}]
    /\ job \in [Requests -> Jobs]
    /\ holder \in [Requests -> Holders]
    /\ left \in [Requests -> SUBSET Holders]
    /\ snap \in [Requests -> Seq(Paths)]
    /\ index \in [Requests -> Nat]
    /\ attempts \in [Requests -> 0 .. MaxAttempts - 1]
    /\ gaveUp \subseteq Requests

\* Whatever other requests do to the lists meanwhile, a delete takes nothing
\* from a list but its own folder and what is inside it, and leaves the rest in
\* its order.
DeletesSpareOthers ==
    [][\A r \in Requests : pc[r] \in {"read", "swap"} /\ pc'[r] # pc[r] =>
          \A h \in Holders :
             Without(lists'[h], job[r].folder) = Without(lists[h], job[r].folder)]_vars

\* A delete that goes on from a list without having given up leaves nothing of
\* the folder there, unless it was shown the list as it was before the last
\* changes: the read of the list is only eventually consistent.
VisitedListsAreClean ==
    [][\A r \in Requests :
          /\ pc[r] \in {"read", "swap"} /\ pc'[r] # "error"
          /\ holder'[r] # holder[r] \/ pc'[r] = "ok"
          /\ r \notin gaveUp'
          /\ Stale => lagged[holder[r]] = lists[holder[r]]
          => Without(lists'[holder[r]], job[r].folder) = lists'[holder[r]]]_vars

\* The list that r renames in has changed since r read it, otherwise than by
\* this renaming.
ListMoved(r) ==
    LET s == lists[holder[r]] IN
    \/ Len(s) # Len(snap[r])
    \/ \E k \in 1 .. Len(s) :
          s[k] \notin {snap[r][k], Moved(snap[r][k], job[r].folder, job[r].to)}

\* A rename writes by index into lists that it has read before: it loses no
\* entry outside the folder it renames, on any list, unless another request
\* changed the list in between or the list read was a stale one.
RenamesSpareOthers ==
    [][\A r \in Requests :
          /\ pc[r] = "reindex" /\ index'[r] # index[r]
          /\ ~ListMoved(r)
          => \A h \in Holders : \A f \in Entries(lists[h]) :
                Inside(job[r].folder, f) \/ f \in Entries(lists'[h])]_vars

=============================================================================
