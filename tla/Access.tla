------------------------------- MODULE Access -------------------------------
(***************************************************************************)
(* Who may do what in a NEUDFS class, and what ls and tree show of it.     *)
(*                                                                         *)
(* A class is a set of keys in the metadata table and a permission list    *)
(* per member and one for the class.  The handlers compare paths as        *)
(* strings, most of them with a slash at the end but not all: a key is     *)
(* therefore a path with or without that slash, and Begins tells which     *)
(* names are the beginnings of others.  One class of one college stands    *)
(* for the user's colleges and classes.                                    *)
(*                                                                         *)
(* Everything here is a function of the rows and the lists; Classroom is   *)
(* the state machine that changes them.                                    *)
(***************************************************************************)
EXTENDS Integers, Sequences

CONSTANTS
    Names,      \* path components
    Begins,     \* <<a, b>>: the name b is a and something more
    ClassInfo,  \* the name of the row that holds the class's shared list
    College, Class,
    Students, Staff,
    EmailName   \* student -> the name made from the student's e-mail address

Users == Students \cup Staff
Holders == Users \cup {Class}
Paths == Seq(Names)
Keys == [path: Paths, dir: BOOLEAN]

ASSUME AccessAssumption ==
    /\ Begins \subseteq Names \X Names
    /\ {ClassInfo, College, Class} \subseteq Names
    /\ Students \cap Staff = {} /\ Class \notin Users
    /\ EmailName \in [Students -> Names]
    /\ \A s, t \in Students : EmailName[s] = EmailName[t] => s = t

File(p) == [path |-> p, dir |-> FALSE]
Folder(p) == [path |-> p, dir |-> TRUE]
InfoKey == File(<<ClassInfo>>)

\* The path f is d or lies below it.
Inside(d, f) == Len(d) <= Len(f) /\ SubSeq(f, 1, Len(d)) = d

\* strings.HasPrefix of two keys; the empty path stands for the empty string.
HasPrefix(k, p) ==
    LET n == Len(p.path) IN
    \/ n = 0
    \/ /\ n <= Len(k.path)
       /\ SubSeq(k.path, 1, n - 1) = SubSeq(p.path, 1, n - 1)
       /\ IF p.dir THEN k.path[n] = p.path[n] /\ (k.dir \/ n < Len(k.path))
          ELSE k.path[n] = p.path[n] \/ <<p.path[n], k.path[n]>> \in Begins

----------------------------------------------------------------------------
(* Directories *)

\* Of a full path: college, class, and what follows.
GetDepth(cd) == Len(cd)
PathWithinClass(cd) == SubSeq(cd, 3, Len(cd))

\* The folders a user may see: the user's own and the shared ones.
Allowed(u, lists) == lists[u] \cup lists[Class]

\* cd from inside a class to the folder f.
MayEnter(u, f, rows, lists) ==
    f \in Allowed(u, lists) \/ (u \in Staff /\ Folder(f) \in rows)

----------------------------------------------------------------------------
(* The guards of the operations, in the directory d of the class *)

\* MakeDirectory: whose list the folder goes to; if nobody's, it is refused.
\* own is the user's list in the request's context.
MkdirHolders(u, d, own) ==
    LET named == {s \in Students : d # <<>> /\ EmailName[s] = d[1]} IN
    IF u \in Students THEN {s \in {u} : d # <<>> /\ \E f \in own : f[1] = d[1]}
    ELSE IF named # {} THEN named ELSE {Class}

\* Rename and RenameDirectory look only for shared folders.
MayRename(u, d, shared) ==
    u \in Staff \/ (d # <<>> /\ \A f \in shared : ~Inside(f, d))

\* Mutant of MayUpload: any folder but the class's own.
MayUploadAnywhere(u, d, own) == u \in Staff \/ d # <<>>

MayUpload(u, d, own) ==
    u \in Staff \/ (d # <<>> /\ \E f \in own : Inside(f, d))

\* Nobody deletes a student's root folder by its name in the class directory;
\* students delete only what is inside their own folders.
MayDelete(u, d, arg, own, lists) ==
    /\ ~(d = <<>> /\ Len(arg) = 1 /\ \E s \in Students : arg \in lists[s])
    /\ u \in Students => \E f \in own : f # d \o arg /\ Inside(f, d \o arg)

----------------------------------------------------------------------------
(* ListDirectory *)

\* A row inside an allowed folder, or above one.
Visible(k, folders) ==
    \E f \in folders : HasPrefix(k, Folder(f)) \/ HasPrefix(Folder(f), k)

\* The first component of k below p; with a slash unless k ends there as a file.
Child(k, p) ==
    LET n == Len(p) + 1
    IN  [path |-> <<k.path[n]>>, dir |-> k.dir \/ n < Len(k.path)]

Below(ks, p) == {k \in ks : HasPrefix(k, Folder(p)) /\ k # Folder(p)}

\* Mutant of Shown: the rows are not filtered for students.
ShownAll(u, rows, lists) == rows

\* The rows ls lets a user see.
Shown(u, rows, lists) == {k \in rows : u \in Staff \/ Visible(k, Allowed(u, lists))}

\* Folders come from the lists, and files and folders from the rows.
ListDirectory(u, cd, rows, lists) ==
    LET p == PathWithinClass(cd)
        folders == Allowed(u, lists)
        shown == Shown(u, rows, lists)
    IN  CASE GetDepth(cd) = 0 -> {Folder(<<College>>)}
          [] GetDepth(cd) = 1 -> {Folder(<<Class>>)}
          [] OTHER -> {Child(k, p) : k \in Below({Folder(f) : f \in folders} \cup shown, p)}

----------------------------------------------------------------------------
(* TreeDirectory, and how the terminal draws its answer *)

QueryClassEntries(u, p, prefix, rows, lists) ==
    {[k EXCEPT !.path = prefix \o SubSeq(@, Len(p) + 1, Len(@))] :
        k \in {k \in rows : /\ HasPrefix(k, Folder(p)) /\ k # InfoKey
                            /\ u \in Staff \/ Visible(k, Allowed(u, lists))}}
    \ {Folder(<<>>)}

TreeDirectory(u, cd, rows, lists) ==
    CASE GetDepth(cd) = 0 -> {Folder(<<College>>), Folder(<<College, Class>>)}
                             \cup QueryClassEntries(u, <<>>, <<College, Class>>, rows, lists)
      [] GetDepth(cd) = 1 -> {Folder(<<Class>>)}
                             \cup QueryClassEntries(u, <<>>, <<Class>>, rows, lists)
      [] OTHER -> QueryClassEntries(u, PathWithinClass(cd), <<>>, rows, lists)

\* The lines drawn: for every folder its children, each once, whether or not
\* there is an entry for the child itself.
RenderTree(entries) ==
    LET drawn[p \in Paths] ==
            UNION {LET line == [path |-> p \o c.path, dir |-> c.dir]
                   IN  {line} \cup IF c.dir THEN drawn[line.path] ELSE {} :
                   c \in {Child(e, p) : e \in Below(entries, p)}}
    IN  drawn[<<>>]
=============================================================================
