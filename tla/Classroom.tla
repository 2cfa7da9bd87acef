----------------------------- MODULE Classroom -----------------------------
(***************************************************************************)
(* One NEUDFS class as its members change it together: the rows of the     *)
(* metadata table, the permission lists, and the directory every member    *)
(* is in.                                                                  *)
(*                                                                         *)
(* Each handler looks at its guard once, in the state of the table at that *)
(* time, and then writes first one of the two representations of a folder  *)
(* and then the other: mkdir the list and then the row, rename and delete  *)
(* the rows and then the lists.  What one handler does to the rows is one  *)
(* step here, and so is what it does to the lists: Namespace and           *)
(* FolderLists take these apart.  A call may fail and a server may stop    *)
(* between any two steps, and within them.                                 *)
(*                                                                         *)
(* A member has one request in flight at a time, as the terminal does.     *)
(***************************************************************************)
EXTENDS Access, FiniteSets

CONSTANTS
    Order,     \* the holders in the order Delete visits their lists
    StartRows, StartLists,
    Requests,  \* user -> the requests made: kind, arg and to
    MaxDepth,  \* bound: no path is longer, and nobody is in a folder that deep
    MaxTorn    \* bound: requests start and fail only while fewer folders are torn

Kinds == {"mkdir", "upload", "delete", "deletefile", "rename", "renamefile"}

ASSUME ClassroomAssumption ==
    /\ Order \in Seq(Holders) /\ Order # <<>> /\ Order[1] = Class
    /\ \A h \in Holders : \E i \in 1 .. Len(Order) : Order[i] = h
    /\ StartRows \subseteq [path: Paths \ {<<>>}, dir: BOOLEAN] /\ InfoKey \in StartRows
    /\ StartLists \in [Holders -> SUBSET (Paths \ {<<>>})]
    /\ Requests \in [Users -> SUBSET [kind: {"mkdir", "upload", "delete", "rename", "renamefile"},
                                      arg: Paths \ {<<>>}, to: Names]]
    /\ MaxDepth \in Nat /\ MaxTorn \in Nat

\* The class as it is set up: the folders that have a row are those on the lists,
\* what is in a folder has a folder, what the staff have on lists of their own is
\* shared, and no path is longer than the bound.
ASSUME StartAssumption ==
    /\ {k.path : k \in {k \in StartRows : k.dir}} = UNION {StartLists[h] : h \in Holders}
    /\ \A k \in StartRows : \A n \in 1 .. Len(k.path) - 1 : Folder(SubSeq(k.path, 1, n)) \in StartRows
    /\ \A h \in Staff : StartLists[h] \subseteq StartLists[Class]
    /\ \A k \in StartRows : Len(k.path) <= MaxDepth

VARIABLES
    rows,   \* the keys of the class's rows
    lists,  \* holder -> the folders on its list
    dir,    \* user -> its directory within the class
    pc,     \* user -> the next step of its request
    job,    \* user -> what that request works on
    torn    \* folders from which on rows and lists may disagree

vars == <<rows, lists, dir, pc, job, torn>>

NoJob == [kind |-> "mkdir", folder |-> <<>>, to |-> <<>>, key |-> InfoKey, own |-> {}, whose |-> {}]

Init ==
    /\ rows = StartRows
    /\ lists = StartLists
    /\ dir = [u \in Users |-> <<>>]
    /\ pc = [u \in Users |-> "idle"]
    /\ job = [u \in Users |-> NoJob]
    /\ torn = {}

----------------------------------------------------------------------------
(* What may set rows and lists apart *)

Removes(j) == j.kind \in {"delete", "rename"}
Targets(j) == IF j.kind = "rename" THEN {j.folder, j.to} ELSE {j.folder}
Related(f, g) == Inside(f, g) \/ Inside(g, f)

\* Two requests of which one takes away what the other works on.
Clash(i, j) ==
    \/ Removes(i) /\ ~Removes(j) /\ Inside(i.folder, j.folder)
    \/ Removes(j) /\ ~Removes(i) /\ Inside(j.folder, i.folder)
    \/ /\ Removes(i) /\ Removes(j) /\ "rename" \in {i.kind, j.kind}
       /\ \E f \in Targets(i), g \in Targets(j) : Related(f, g)

Busy == {u \in Users : pc[u] # "idle"}

\* Folders about which a new request and those in flight are at odds.
Clashes(j) == UNION {Targets(j) \cup Targets(job[v]) : v \in {v \in Busy : Clash(j, job[v])}}

\* A folder renamed to itself, or taken away while somebody is in it.
Pitfalls(j) ==
    IF Removes(j) /\ (j.to = j.folder \/ \E v \in Users : Inside(j.folder, dir[v]))
    THEN {j.folder} ELSE {}

\* The bound: requests start, calls fail and servers stop while this holds.
Faults == Cardinality(torn) < MaxTorn

Torn(p) == \E f \in torn : Inside(f, p)

----------------------------------------------------------------------------
(* The guards, in the directory and with the list of the request's context *)

Start(u, j, step) ==
    /\ pc[u] = "idle" /\ Faults
    /\ pc' = [pc EXCEPT ![u] = step]
    /\ job' = [job EXCEPT ![u] = j]
    /\ torn' = torn \cup Clashes(j) \cup Pitfalls(j)
    /\ UNCHANGED <<rows, lists, dir>>

Job(u, kind, folder, to, key, whose) ==
    [kind |-> kind, folder |-> folder, to |-> to, key |-> key, own |-> lists[u], whose |-> whose]

\* Only the list is asked whether the folder is there already.
MakeDirectory(u) ==
    \E r \in Requests[u] :
       LET f == dir[u] \o r.arg
           whose == MkdirHolders(u, dir[u], lists[u]) IN
       /\ r.kind = "mkdir" /\ Len(f) <= MaxDepth
       /\ whose # {} /\ \A h \in whose : f \notin lists[h]
       /\ Start(u, Job(u, "mkdir", f, f, Folder(f), whose), "list")

Upload(u) ==
    \E r \in Requests[u] :
       LET f == dir[u] \o r.arg IN
       /\ r.kind = "upload" /\ Len(f) <= MaxDepth
       /\ MayUpload(u, dir[u], lists[u])
       /\ Start(u, Job(u, "upload", dir[u], dir[u], File(f), {}), "row")

\* A file goes before a folder of the same name.
Delete(u) ==
    \E r \in Requests[u] :
       LET f == dir[u] \o r.arg IN
       /\ r.kind = "delete"
       /\ MayDelete(u, dir[u], r.arg, lists[u], lists)
       /\ \/ /\ File(f) \in rows
             /\ Start(u, Job(u, "deletefile", dir[u], f, File(f), {}), "rows")
          \/ /\ File(f) \notin rows /\ Folder(f) \in rows
             /\ Start(u, Job(u, "delete", f, <<>>, Folder(f), {}), "rows")

\* Rename, of a file.
Rename(u) ==
    \E r \in Requests[u] :
       LET f == dir[u] \o r.arg
           to == dir[u] \o <<r.to>> IN
       /\ r.kind = "renamefile" /\ Len(to) <= MaxDepth
       /\ MayRename(u, dir[u], lists[Class])
       /\ File(f) \in rows
       /\ Start(u, Job(u, "renamefile", dir[u], to, File(f), {}), "rows")

\* The terminal puts a slash at the end of the two names; the new one is a name
\* in the same directory.
RenameDirectory(u) ==
    \E r \in Requests[u] :
       LET f == dir[u] \o r.arg
           to == dir[u] \o <<r.to>> IN
       /\ r.kind = "rename" /\ Len(to) <= MaxDepth
       /\ MayRename(u, dir[u], lists[Class])
       /\ Start(u, Job(u, "rename", f, to, Folder(f), {}), "rows")

----------------------------------------------------------------------------
(* The writes *)

Goto(u, step) ==
    /\ pc' = [pc EXCEPT ![u] = step]
    /\ job' = IF step = "idle" THEN [job EXCEPT ![u] = NoJob] ELSE job

\* The request ends with its work half done.
Breaks(u) ==
    /\ Goto(u, "idle")
    /\ torn' = torn \cup Targets(job[u])

\* updateSharedFolders or updateUserFolders.
AppendToList(u) ==
    /\ pc[u] = "list"
    /\ lists' = [h \in Holders |-> IF h \in job[u].whose THEN lists[h] \cup {job[u].folder}
                                   ELSE lists[h]]
    /\ \/ Goto(u, "row") /\ UNCHANGED torn
       \/ Faults /\ Breaks(u)
    /\ UNCHANGED <<rows, dir>>

\* createFolderMetadata or uploadFileMetadata.
PutRow(u) ==
    /\ pc[u] = "row"
    /\ rows' = rows \cup {job[u].key}
    /\ Goto(u, "idle")
    /\ UNCHANGED <<lists, dir, torn>>

\* The file's row goes, or moves in a transaction; it may be gone by now.
FileRow(u) ==
    /\ pc[u] = "rows" /\ job[u].kind \in {"deletefile", "renamefile"}
    /\ rows' = IF job[u].key \notin rows \/ job[u].kind = "deletefile" THEN rows \ {job[u].key}
               ELSE (rows \ {job[u].key}) \cup {File(job[u].to)}
    /\ Goto(u, "idle")
    /\ UNCHANGED <<lists, dir, torn>>

\* Mutant of Found: the rows below the folder are forgotten.
FoundOnly(u) == {k \in rows : k = job[u].key}

\* The rows of the folder itself and of everything below it.
Found(u) == {k \in rows : HasPrefix(k, job[u].key)}

\* The folder's own row is the first to go.
DropRows(u) ==
    /\ pc[u] = "rows" /\ job[u].kind = "delete"
    /\ \/ /\ rows' = rows \ Found(u)
          /\ Goto(u, "lists") /\ UNCHANGED torn
       \/ /\ Faults
          /\ \E gone \in SUBSET Found(u) :
                /\ gone # {} /\ (job[u].key \in Found(u) => job[u].key \in gone)
                /\ rows' = rows \ gone
          /\ Breaks(u)
    /\ UNCHANGED <<lists, dir>>

\* Mutant of Moved: the new name is lost.
MovedUp(j, p) == SubSeq(p, Len(j.folder) + 1, Len(p))

Moved(j, p) == j.to \o SubSeq(p, Len(j.folder) + 1, Len(p))

\* Every row is put under its new key before it is deleted under the old one.
RowsRenamed(j, found) ==
    (rows \cup {[k EXCEPT !.path = Moved(j, @)] : k \in found}) \ found

\* A row that cannot be put stays where it is, and the handler goes on.
MoveRows(u) ==
    /\ pc[u] = "rows" /\ job[u].kind = "rename"
    /\ \/ /\ Found(u) = {}
          /\ Goto(u, "idle") /\ UNCHANGED <<rows, torn>>
       \/ /\ Found(u) # {}
          /\ \E done \in SUBSET Found(u) :
                /\ done = Found(u) \/ Faults
                /\ rows' = RowsRenamed(job[u], done)
                /\ torn' = IF done = Found(u) THEN torn ELSE torn \cup Targets(job[u])
          /\ Goto(u, "lists")
    /\ UNCHANGED <<lists, dir>>

\* removeFolderFromLists goes through all the lists, or until a call fails.
CleanLists(u) ==
    /\ pc[u] = "lists" /\ job[u].kind = "delete"
    /\ \E n \in 0 .. Len(Order) :
          /\ lists' = [h \in Holders |->
                          IF \E i \in 1 .. n : Order[i] = h
                          THEN {f \in lists[h] : ~Inside(job[u].folder, f)} ELSE lists[h]]
          /\ \/ n = Len(Order) /\ Goto(u, "idle") /\ UNCHANGED torn
             \/ n < Len(Order) /\ Faults /\ Breaks(u)
    /\ UNCHANGED <<rows, dir>>

\* Mutant of Renamers: the students' lists are forgotten.
CallerOnly(u) == {Class, u}

\* The lists updateFolderLists looks at: of the staff, only the caller's.
Renamers(u) == {Class, u} \cup Students

\* An entry that cannot be set stays as it is.
MoveLists(u) ==
    /\ pc[u] = "lists" /\ job[u].kind = "rename"
    /\ LET j == job[u]
           entries == {e \in Renamers(u) \X UNION {lists[h] : h \in Holders} :
                          e[2] \in lists[e[1]] /\ Inside(j.folder, e[2])}
           others == {h \in Staff \ {u} : \E f \in lists[h] : Inside(j.folder, f)}
       IN  \E done \in SUBSET entries :
              /\ done = entries \/ Faults
              /\ lists' = [h \in Holders |-> {IF <<h, f>> \in done THEN Moved(j, f) ELSE f : f \in lists[h]}]
              /\ torn' = torn \cup {Moved(j, f) : f \in {f \in torn : Inside(j.folder, f)}}
                              \cup (IF done = entries THEN {} ELSE Targets(j))
                              \cup (IF others = {} THEN {} ELSE {j.folder})
    /\ Goto(u, "idle")
    /\ UNCHANGED <<rows, dir>>

\* A failing call, or a server that stops, between two steps.
Fails(u) ==
    /\ Faults
    /\ pc[u] # "idle"
    /\ IF pc[u] = "lists" \/ (pc[u] = "row" /\ job[u].kind = "mkdir") THEN Breaks(u)
       ELSE Goto(u, "idle") /\ UNCHANGED torn
    /\ UNCHANGED <<rows, lists, dir>>

----------------------------------------------------------------------------
(* ChangeDirectory, within the class, by the members who make requests *)

Enters(u, d) ==
    /\ pc[u] = "idle" /\ Requests[u] # {} /\ Len(d) < MaxDepth
    /\ dir' = [dir EXCEPT ![u] = d]
    /\ torn' = torn \cup {job[v].folder : v \in {v \in Busy : Removes(job[v]) /\ Inside(job[v].folder, d)}}
    /\ UNCHANGED <<rows, lists, pc, job>>

ChangeDirectory(u) ==
    \/ \E n \in Names : MayEnter(u, dir[u] \o <<n>>, rows, lists) /\ Enters(u, dir[u] \o <<n>>)
    \/ dir[u] # <<>> /\ Enters(u, SubSeq(dir[u], 1, Len(dir[u]) - 1))

Next ==
    \E u \in Users :
       \/ ChangeDirectory(u)
       \/ MakeDirectory(u) \/ Upload(u) \/ Delete(u) \/ Rename(u) \/ RenameDirectory(u)
       \/ AppendToList(u) \/ PutRow(u) \/ FileRow(u)
       \/ DropRows(u) \/ CleanLists(u) \/ MoveRows(u) \/ MoveLists(u)
       \/ Fails(u)

Spec == Init /\ [][Next]_vars

----------------------------------------------------------------------------
(* Properties *)

\* The type invariant.  No member is anywhere but at the class's root or in a
\* folder, and no list has the root.
TypeOK ==
    /\ rows \subseteq [path: Paths \ {<<>>}, dir: BOOLEAN]
    /\ lists \in [Holders -> SUBSET (Paths \ {<<>>})]
    /\ dir \in [Users -> Paths]
    /\ pc \in [Users -> {"idle", "list", "row", "rows", "lists"}]
    /\ job \in [Users -> [kind: Kinds, folder: Paths, to: Paths, key: Keys,
                           own: SUBSET Paths, whose: SUBSET Holders]]
    /\ torn \subseteq Paths

\* A folder that a request in flight is making, renaming or deleting.
Pending(f) ==
    \E u \in Busy : /\ job[u].kind \in {"mkdir", "rename", "delete"}
                    /\ \E g \in Targets(job[u]) : Inside(g, f)

\* A folder is on a list if and only if it has a row, so that it can be entered,
\* is shown, and can be made or deleted again.  The two may disagree only about
\* a folder on which a request failed or is still at work, which two requests
\* took apart together, which was renamed to itself, or which was renamed by a
\* member of the staff with another one's list naming it.
ListsFollowRows ==
    \A f \in {k.path : k \in {k \in rows : k.dir}} \cup UNION {lists[h] : h \in Holders} :
       \/ Pending(f) \/ Torn(f)
       \/ Folder(f) \in rows <=> \E h \in Holders : f \in lists[h]

\* What is in a folder is not left behind when the folder goes or moves, unless
\* one of these happened or somebody was in the folder at the time.
EntriesHaveFolders ==
    \A k \in rows : Len(k.path) > 1 =>
       LET p == SubSeq(k.path, 1, Len(k.path) - 1)
       IN  Folder(p) \in rows \/ Pending(p) \/ Torn(p)

\* ls shows the first level of what tree draws, in every directory and for every
\* member: the handlers filter rows and lists in different ways.  The staff's
\* ls also shows the class_info row as a file.
ViewsAgree ==
    Busy = {} /\ torn = {} =>
       \A u \in Users : \A cd \in {<<>>, <<College>>, <<College, Class>> \o dir[u]} :
          ListDirectory(u, cd, rows, lists) =
             {c \in RenderTree(TreeDirectory(u, cd, rows, lists)) : Len(c.path) = 1}
             \cup IF u \in Staff /\ cd = <<College, Class>> THEN {InfoKey} ELSE {}

\* A student's requests change nothing outside the root folders of the student's
\* own list, whatever directory the student is in and however long ago the list
\* was read; a directory taken away under the student's feet is the exception.
StudentsKeepOut ==
    [][\A u \in Students : pc[u] # "idle" /\ pc'[u] # pc[u] =>
          LET changed == {k.path : k \in (rows \ rows') \cup (rows' \ rows)}
                         \cup UNION {(lists[h] \ lists'[h]) \cup (lists'[h] \ lists[h]) : h \in Holders}
          IN  \A p \in changed : Torn(p) \/ \E f \in job[u].own : f[1] = p[1]]_vars

\* What report.md says of the permissions (student work is private): nothing in
\* a student's root folder is shown to another student.
HomesStayPrivate ==
    \A s, t \in Students : \A k \in rows :
       s # t /\ (\E f \in lists[s] : Inside(<<f[1]>>, k.path)) => ~Visible(k, Allowed(t, lists))
=============================================================================
