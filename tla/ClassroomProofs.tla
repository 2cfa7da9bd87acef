-------------------------- MODULE ClassroomProofs --------------------------
(* Proofs, for any class, any members and whatever requests they make, that *)
(* a student's requests change nothing outside the student's own root       *)
(* folders, that lists, rows and the folders above them go together, and    *)
(* that ls and tree show the same of them.                                  *)
EXTENDS Classroom, SequenceTheorems, WellFoundedInduction, TLAPS

----------------------------------------------------------------------------
(* Paths *)

\* A path begins with its first part.
LEMMA SubSeqOfAll == ASSUME NEW p \in Paths PROVE SubSeq(p, 1, Len(p)) = p
<1>1. p \in Seq(Names) /\ Len(p) \in Nat
  BY DEF Paths
<1>2. /\ SubSeq(p, 1, Len(p)) \in Seq(Names)
      /\ Len(SubSeq(p, 1, Len(p))) = Len(p)
      /\ \A i \in 1 .. Len(p) : SubSeq(p, 1, Len(p))[i] = p[i]
  BY <1>1
<1> DEFINE q == SubSeq(p, 1, Len(p))
<1> HIDE DEF q
<1>3. q = p
  BY <1>1, <1>2, SeqEqual DEF q
<1> QED
  BY <1>3 DEF q

\* A folder is above a path, by their components.
LEMMA InsideByParts ==
    ASSUME NEW d \in Paths, NEW p \in Paths
    PROVE  Inside(d, p) <=> Len(d) <= Len(p) /\ \A i \in 1 .. Len(d) : p[i] = d[i]
<1> DEFINE q == SubSeq(p, 1, Len(d))
<1>1. d \in Seq(Names) /\ p \in Seq(Names) /\ Len(d) \in Nat /\ Len(p) \in Nat
  BY DEF Paths
<1>2. ASSUME Len(d) <= Len(p)
      PROVE  q = d <=> \A i \in 1 .. Len(d) : p[i] = d[i]
  <2>1. q \in Seq(Names) /\ Len(q) = Len(d) /\ \A i \in 1 .. Len(d) : q[i] = p[i]
    BY <1>1, <1>2
  <2> HIDE DEF q
  <2>2. (\A i \in 1 .. Len(d) : q[i] = d[i]) => q = d
    BY <1>1, <2>1, SeqEqual
  <2> QED
    BY <2>1, <2>2
<1> QED
  BY <1>2 DEF Inside

\* Every path has a first component, but the empty one.
LEMMA FirstName ==
    ASSUME NEW p \in Paths, p # <<>>
    PROVE  p[1] \in Names /\ Len(p) \in Nat /\ Len(p) >= 1 /\ <<p[1]>> \in Paths /\ <<p[1]>> # <<>>
BY EmptySeq DEF Paths

\* What is in a folder begins as the folder does.
LEMMA InsideRoot ==
    ASSUME NEW d \in Paths, NEW p \in Paths, Inside(d, p), d # <<>>
    PROVE  p # <<>> /\ p[1] = d[1]
<1>1. Len(d) \in Nat /\ Len(p) \in Nat /\ Len(d) >= 1 /\ Len(d) <= Len(p) /\ p[1] = d[1]
  BY FirstName, InsideByParts DEF Paths
<1>2. p # <<>>
  BY <1>1
<1> QED
  BY <1>1, <1>2

\* A path is in its root folder, and so is what begins alike.
LEMMA RootInside ==
    ASSUME NEW p \in Paths, p # <<>>, NEW n, n = p[1]
    PROVE  Inside(<<n>>, p)
<1>1. n \in Names /\ <<n>> \in Paths /\ Len(p) \in Nat /\ Len(p) >= 1
  BY FirstName
<1>2. Len(<<n>>) = 1 /\ \A i \in 1 .. 1 : p[i] = <<n>>[i]
  OBVIOUS
<1>3. Len(<<n>>) <= Len(p) /\ \A i \in 1 .. Len(<<n>>) : p[i] = <<n>>[i]
  BY <1>1, <1>2
<1> QED
  BY <1>1, <1>3, InsideByParts

\* Above a root folder there is nothing but the root.
LEMMA AboveRoot ==
    ASSUME NEW d \in Paths, d # <<>>, NEW n \in Names, Inside(d, <<n>>)
    PROVE  d = <<n>>
<1>1. <<n>> \in Paths /\ <<n>> \in Seq(Names) /\ d \in Seq(Names) /\ Len(<<n>>) = 1
  BY DEF Paths
<1>2. Len(d) \in Nat /\ Len(d) >= 1 /\ Len(d) <= 1 /\ d[1] = n
  BY <1>1, FirstName, InsideByParts
<1> QED
  BY <1>1, <1>2, SeqEqual

\* Inside is transitive.
LEMMA InsideTrans ==
    ASSUME NEW d \in Paths, NEW p \in Paths, NEW q \in Paths, Inside(d, p), Inside(p, q)
    PROVE  Inside(d, q)
<1>1. Len(d) \in Nat /\ Len(p) \in Nat /\ Len(q) \in Nat
  BY DEF Paths
<1> QED
  BY <1>1, InsideByParts

\* Everything is inside itself.
LEMMA InsideRefl == ASSUME NEW p \in Paths PROVE Inside(p, p)
<1>1. Len(p) \in Nat
  BY DEF Paths
<1> QED
  BY <1>1, InsideByParts

\* Joining two paths.
LEMMA Joined ==
    ASSUME NEW d \in Paths, NEW p \in Paths
    PROVE  /\ d \o p \in Paths /\ Len(d \o p) = Len(d) + Len(p)
           /\ d # <<>> \/ p # <<>> => d \o p # <<>>
           /\ d # <<>> => (d \o p)[1] = d[1]
           /\ d = <<>> => d \o p = p
<1>1. d \in Seq(Names) /\ p \in Seq(Names) /\ Len(d) \in Nat /\ Len(p) \in Nat
  BY DEF Paths
<1>2. /\ d \o p \in Seq(Names) /\ Len(d \o p) = Len(d) + Len(p)
      /\ \A i \in 1 .. Len(d) + Len(p) : (d \o p)[i] = IF i <= Len(d) THEN d[i] ELSE p[i - Len(d)]
  BY <1>1, ConcatProperties
<1>3. /\ d # <<>> => Len(d) >= 1
      /\ p # <<>> => Len(p) >= 1
  BY FirstName
<1>4. d # <<>> \/ p # <<>> => Len(d \o p) # 0
  BY <1>1, <1>2, <1>3
<1>5. d # <<>> => (d \o p)[1] = d[1]
  BY <1>1, <1>2, <1>3
<1>6. d = <<>> => d \o p = p
  BY <1>1
<1> QED
  BY <1>2, <1>4, <1>5, <1>6 DEF Paths

\* The directory above.
LEMMA Above ==
    ASSUME NEW d \in Paths, d # <<>>
    PROVE  LET up == SubSeq(d, 1, Len(d) - 1)
           IN  up \in Paths /\ Inside(up, d) /\ (up # <<>> => up[1] = d[1])
<1> DEFINE up == SubSeq(d, 1, Len(d) - 1)
<1>1. d \in Seq(Names) /\ Len(d) \in Nat /\ Len(d) >= 1
  BY FirstName DEF Paths
<1>2. /\ up \in Seq(Names) /\ Len(up) = Len(d) - 1
      /\ \A i \in 1 .. Len(d) - 1 : up[i] = d[i]
  BY <1>1
<1> HIDE DEF up
<1>3. up \in Paths /\ Inside(up, d)
  BY <1>1, <1>2, InsideByParts DEF Paths
<1>4. up # <<>> => up[1] = d[1]
  BY <1>3, InsideRoot
<1> QED
  BY <1>3, <1>4 DEF up

\* What a handler finds below a folder, by the beginning of the key, is inside.
LEMMA PrefixInside ==
    ASSUME NEW k \in Keys, NEW f \in Paths, HasPrefix(k, Folder(f))
    PROVE  Inside(f, k.path)
<1>1. k.path \in Paths /\ Folder(f).path = f /\ Folder(f).dir = TRUE
  BY DEF Keys, Folder
<1>2. f \in Seq(Names) /\ Len(f) \in Nat /\ Len(k.path) \in Nat
  BY <1>1 DEF Paths
<1>3. CASE Len(f) = 0
  BY <1>1, <1>2, <1>3, InsideByParts
<1>4. CASE Len(f) # 0
  <2> DEFINE n == Len(f)
             p == k.path
  <2>1. n \in Nat /\ n >= 1 /\ n <= Len(p) /\ p[n] = f[n] /\ SubSeq(p, 1, n - 1) = SubSeq(f, 1, n - 1)
    BY <1>1, <1>2, <1>4 DEF HasPrefix
  <2>2. p \in Seq(Names) /\ Len(p) \in Nat
    BY <1>1 DEF Paths
  <2>3. \A i \in 1 .. n - 1 : SubSeq(p, 1, n - 1)[i] = p[i] /\ SubSeq(f, 1, n - 1)[i] = f[i]
    BY <1>2, <2>1, <2>2
  <2> HIDE DEF p
  <2>4. \A i \in 1 .. n : i = n \/ i \in 1 .. n - 1
    BY <2>1
  <2>5. \A i \in 1 .. n : p[i] = f[i]
    BY <2>1, <2>3, <2>4
  <2>6. Inside(f, p)
    BY <1>1, <2>1, <2>5, InsideByParts DEF p
  <2> QED
    BY <2>6 DEF p
<1> QED
  BY <1>3, <1>4

\* Where a path inside a folder goes when the folder is renamed.
LEMMA MovedPath ==
    ASSUME NEW j, j.folder \in Paths, j.to \in Paths, NEW p \in Paths, Inside(j.folder, p)
    PROVE  /\ Moved(j, p) \in Paths /\ Inside(j.to, Moved(j, p))
           /\ j.to # <<>> => Moved(j, p) # <<>> /\ Moved(j, p)[1] = j.to[1]
<1> DEFINE a == j.folder
           b == j.to
           c == SubSeq(p, Len(a) + 1, Len(p))
<1>1. /\ a \in Seq(Names) /\ b \in Seq(Names) /\ p \in Seq(Names)
      /\ Len(a) \in Nat /\ Len(b) \in Nat /\ Len(p) \in Nat /\ Len(a) <= Len(p)
  BY DEF Paths, Inside
<1> HIDE DEF a
<1>2. c \in Paths
  BY <1>1, SubSeqProperties DEF Paths
<1> HIDE DEF b, c
<1>3. b \in Paths
  BY <1>1 DEF Paths
<1>4. /\ b \o c \in Paths /\ (b # <<>> => b \o c # <<>> /\ (b \o c)[1] = b[1])
  BY <1>2, <1>3, Joined
<1>5. Inside(b, b \o c)
  <2>1. c \in Seq(Names) /\ Len(c) \in Nat
    BY <1>2 DEF Paths
  <2>2. /\ Len(b \o c) = Len(b) + Len(c)
        /\ \A i \in 1 .. Len(b) + Len(c) : (b \o c)[i] = IF i <= Len(b) THEN b[i] ELSE c[i - Len(b)]
    BY <1>1, <2>1, ConcatProperties
  <2>3. Len(b) <= Len(b \o c) /\ \A i \in 1 .. Len(b) : (b \o c)[i] = b[i]
    BY <1>1, <2>1, <2>2
  <2> QED
    BY <1>3, <1>4, <2>3, InsideByParts
<1>6. Moved(j, p) = b \o c
  BY DEF Moved, a, b, c
<1> QED
  BY <1>4, <1>5, <1>6 DEF b

----------------------------------------------------------------------------
(* The inductive invariant *)

RowType == [path: Paths \ {<<>>}, dir: BOOLEAN]
ListType == [Holders -> SUBSET (Paths \ {<<>>})]
JobType == [kind: Kinds, folder: Paths, to: Paths, key: Keys,
            own: SUBSET Paths, whose: SUBSET Holders]

\* What a request works on, by its kind and its next step.
Kept(j, step) ==
    /\ j.own \subseteq Paths \ {<<>>} /\ j.key.path # <<>>
    /\ step = "list" => j.kind = "mkdir"
    /\ step = "row" => j.kind \in {"mkdir", "upload"}
    /\ step = "rows" => j.kind \in {"delete", "deletefile", "rename", "renamefile"}
    /\ step = "lists" => j.kind \in {"delete", "rename"}
    /\ j.kind \in {"mkdir", "delete", "rename"} => j.key = Folder(j.folder)
    /\ j.kind \in {"upload", "deletefile", "renamefile"} => j.key = File(j.key.path)
    /\ j.kind \in {"rename", "renamefile"} => j.to # <<>>
    /\ j.kind = "mkdir" => j.whose # {} /\ j.whose \subseteq Students \cup {Class}

AtWork == \A u \in Users : pc[u] # "idle" => Kept(job[u], pc[u])

\* Whoever is in a folder that is being taken away, the folder is torn.
Warned ==
    \A u, v \in Users :
       pc[v] # "idle" /\ Removes(job[v]) /\ Inside(job[v].folder, dir[u]) => job[v].folder \in torn

\* A student inside the class is below a folder of its own or a shared one,
\* unless that one was taken away.
Foothold ==
    \A u \in Students :
       dir[u] # <<>> => Torn(<<dir[u][1]>>) \/ <<dir[u][1]>> \in Allowed(u, lists)

\* The request works below the folder n of the class, which is the student's.
At(n, j) ==
    /\ j.key.path[1] = n
    /\ j.kind \in {"rename", "renamefile"} => j.to[1] = n
    /\ Torn(<<n>>) \/ \E f \in j.own : f[1] = n

AtHome == \A u \in Students : pc[u] # "idle" => \E n \in Names : At(n, job[u])

Inv == TypeOK /\ AtWork /\ Warned /\ Foothold /\ AtHome

\* Where the request's names are, in the directory it was made in.  Names may
\* have components, as a slash in the argument gives them.
RenamesOneName == \A u \in Users : \A r \in Requests[u] : r.kind = "rename" => Len(r.arg) = 1
EntersOneName == \A u \in Users : \A r \in Requests[u] : r.kind \in {"mkdir", "upload"} => Len(r.arg) = 1

Place(d, j) ==
    /\ j.kind \in {"rename", "renamefile"} => \E n \in Names : j.to = d \o <<n>>
    /\ RenamesOneName /\ j.kind = "rename" => \E n \in Names : j.folder = d \o <<n>>
    /\ EntersOneName /\ j.kind \in {"mkdir", "upload"} => \E n \in Names : j.key.path = d \o <<n>>

\* The path begins as something the request works on does.
InRoots(j, p) ==
    /\ p \in Paths /\ p # <<>>
    /\ \/ p[1] = j.key.path[1]
       \/ j.kind \in {"rename", "renamefile"} /\ p[1] = j.to[1]

\* A request that starts.
Starts(u) ==
    \E j \in JobType, step \in {"list", "row", "rows"} :
       /\ Start(u, j, step) /\ Kept(j, step) /\ (step = "row" => j.kind = "upload")
       /\ u \in Students => \E n \in Names : At(n, j)
       /\ Place(dir[u], j)

\* What a step of a request in flight does to the class.
Works(u) ==
    /\ pc[u] # "idle"
    /\ \E step \in {"idle", "row", "lists"} : Goto(u, step) /\ (step # "idle" => Kept(job[u], step))
    /\ dir' = dir
    /\ torn \subseteq torn' /\ torn' \subseteq Paths
    /\ rows' \subseteq RowType /\ lists' \in ListType
    /\ \A k \in (rows \ rows') \cup (rows' \ rows) : InRoots(job[u], k.path)
    /\ \A h \in Holders :
          /\ \A f \in lists[h] \ lists'[h] :
                /\ Removes(job[u]) /\ Inside(job[u].folder, f)
                /\ InRoots(job[u], f)
          /\ \A f \in lists'[h] \ lists[h] : InRoots(job[u], f)

\* What is torn stays torn.
LEMMA TornStays == ASSUME torn \subseteq torn', NEW p, Torn(p) PROVE Torn(p)'
BY DEF Torn

\* The steps of a request in flight keep the invariant.
LEMMA WorksStep ==
    ASSUME Inv, NEW u \in Users, Works(u)
    PROVE  Inv'
<1>1. PICK step \in {"idle", "row", "lists"} : Goto(u, step) /\ (step # "idle" => Kept(job[u], step))
  BY DEF Works
<1>2. /\ pc \in [Users -> {"idle", "list", "row", "rows", "lists"}] /\ job \in [Users -> JobType]
      /\ dir \in [Users -> Paths] /\ lists \in ListType
  BY DEF Inv, TypeOK, JobType, ListType
<1>3. /\ pc' = [pc EXCEPT ![u] = step]
      /\ job' = IF step = "idle" THEN [job EXCEPT ![u] = NoJob] ELSE job
  BY <1>1 DEF Goto
<1>4. dir' = dir /\ torn \subseteq torn'
  BY DEF Works
<1>5. TypeOK'
  <2>1. NoJob \in JobType
    BY AccessAssumption, EmptySeq DEF NoJob, JobType, Kinds, Paths, InfoKey, File, Keys
  <2>2. job' \in [Users -> JobType]
    BY <1>2, <1>3, <2>1
  <2>3. pc' \in [Users -> {"idle", "list", "row", "rows", "lists"}]
    BY <1>2, <1>3
  <2> QED
    BY <1>2, <1>4, <2>2, <2>3 DEF TypeOK, JobType, Works, RowType, ListType
<1>6. \A v \in Users : pc'[v] # "idle" => /\ pc[v] # "idle" /\ job'[v] = job[v]
                                          /\ Kept(job[v], pc'[v])
  BY <1>1, <1>2, <1>3 DEF Inv, AtWork, Works
<1>7. AtWork'
  BY <1>6 DEF AtWork
<1>8. Warned'
  BY <1>4, <1>6 DEF Inv, Warned
<1>9. AtHome'
  <2>1. ASSUME NEW v \in Students, pc'[v] # "idle" PROVE \E n \in Names : At(n, job[v])'
    <3>1. v \in Users /\ pc[v] # "idle" /\ job'[v] = job[v]
      BY <1>6, <2>1 DEF Users
    <3>2. PICK n \in Names : At(n, job[v])
      BY <2>1, <3>1 DEF Inv, AtHome
    <3>3. At(n, job[v])'
      BY <1>4, <3>1, <3>2, TornStays DEF At
    <3> QED
      BY <3>3
  <2> QED
    BY <2>1 DEF AtHome
<1>10. Foothold'
  <2>1. ASSUME NEW s \in Students, dir[s] # <<>>, NEW n, n = dir[s][1]
        PROVE  Torn(<<n>>)' \/ <<n>> \in Allowed(s, lists')
    <3>1. s \in Users /\ s \in Holders /\ Class \in Holders /\ dir[s] \in Paths /\ n \in Names
      BY <1>2, <2>1, FirstName DEF Users, Holders
    <3>2. ASSUME NEW h \in Holders, <<n>> \in lists[h] \ lists'[h] PROVE Torn(<<n>>)'
      <4>1. Removes(job[u]) /\ Inside(job[u].folder, <<n>>) /\ pc[u] # "idle"
        BY <3>2 DEF Works
      <4>2. Kept(job[u], pc[u]) /\ job[u].folder \in Paths
        BY <1>2, <4>1 DEF Inv, AtWork, JobType
      <4>3. job[u].folder # <<>>
        BY <4>1, <4>2 DEF Removes, Kept, Folder
      <4>4. job[u].folder = <<n>>
        BY <3>1, <4>1, <4>2, <4>3, AboveRoot
      <4>5. Inside(<<n>>, dir[s])
        BY <2>1, <3>1, RootInside
      <4>6. <<n>> \in torn'
        BY <1>4, <3>1, <4>1, <4>4, <4>5 DEF Inv, Warned
      <4>7. Inside(<<n>>, <<n>>)
        BY <4>2, <4>4, InsideRefl
      <4> QED
        BY <4>6, <4>7 DEF Torn
    <3>3. Torn(<<n>>) \/ <<n>> \in Allowed(s, lists)
      BY <2>1 DEF Inv, Foothold
    <3>4. Torn(<<n>>) => Torn(<<n>>)'
      BY <1>4, TornStays
    <3> QED
      BY <3>1, <3>2, <3>3, <3>4 DEF Allowed
  <2>2. ASSUME NEW s \in Students, dir'[s] # <<>>
        PROVE  (Torn(<<dir[s][1]>>) \/ <<dir[s][1]>> \in Allowed(s, lists))'
    <3>1. PICK n : n = dir[s][1]
      OBVIOUS
    <3>2. Torn(<<n>>)' \/ <<n>> \in Allowed(s, lists')
      BY <1>4, <2>1, <2>2, <3>1
    <3> QED
      BY <1>4, <3>1, <3>2 DEF Torn
  <2> QED
    BY <2>2 DEF Foothold
<1> QED
  BY <1>5, <1>7, <1>8, <1>9, <1>10 DEF Inv

----------------------------------------------------------------------------
(* The writes *)

\* What the invariant says of a request in flight.
LEMMA InFlight ==
    ASSUME Inv, NEW u \in Users, pc[u] # "idle"
    PROVE  /\ job[u] \in JobType /\ Kept(job[u], pc[u])
           /\ rows \subseteq RowType /\ lists \in ListType /\ torn \subseteq Paths
           /\ InRoots(job[u], job[u].key.path) /\ Targets(job[u]) \subseteq Paths
<1>1. /\ job[u] \in JobType /\ Kept(job[u], pc[u])
      /\ rows \subseteq RowType /\ lists \in ListType /\ torn \subseteq Paths
  BY DEF Inv, TypeOK, AtWork, JobType, RowType, ListType
<1>2. InRoots(job[u], job[u].key.path)
  BY <1>1 DEF InRoots, JobType, Keys, Kept
<1>3. Targets(job[u]) \subseteq Paths
  BY <1>1 DEF Targets, JobType
<1> QED
  BY <1>1, <1>2, <1>3

\* What is inside a folder that is being taken away begins as it does, and what
\* is moved out of it as its new name.
LEMMA RemovalRoots ==
    ASSUME NEW j \in JobType, NEW step, Kept(j, step), Removes(j),
           NEW p \in Paths, Inside(j.folder, p)
    PROVE  InRoots(j, p) /\ (j.kind = "rename" => InRoots(j, Moved(j, p)))
<1>1. j.folder \in Paths /\ j.to \in Paths /\ j.folder # <<>> /\ j.key.path = j.folder
  BY DEF JobType, Kept, Removes, Folder
<1>2. InRoots(j, p)
  BY <1>1, InsideRoot DEF InRoots
<1>3. ASSUME j.kind = "rename" PROVE InRoots(j, Moved(j, p))
  BY <1>1, <1>3, MovedPath DEF InRoots, Kept
<1> QED
  BY <1>2, <1>3

\* Putting the folder on the lists.
LEMMA ListWorks == ASSUME Inv, NEW u \in Users, AppendToList(u) PROVE Works(u)
<1>1. /\ pc[u] = "list" /\ dir' = dir /\ rows' = rows
      /\ lists' = [h \in Holders |-> IF h \in job[u].whose THEN lists[h] \cup {job[u].folder}
                                     ELSE lists[h]]
  BY DEF AppendToList
<1>2. /\ job[u] \in JobType /\ Kept(job[u], pc[u]) /\ job[u].kind = "mkdir"
      /\ rows \subseteq RowType /\ lists \in ListType /\ torn \subseteq Paths
      /\ InRoots(job[u], job[u].folder) /\ Targets(job[u]) \subseteq Paths
  BY <1>1, InFlight DEF Kept, Folder
<1>3. /\ \E step \in {"idle", "row", "lists"} : Goto(u, step) /\ (step # "idle" => Kept(job[u], step))
      /\ torn \subseteq torn' /\ torn' \subseteq Paths
  <2>1. Kept(job[u], "row")
    BY <1>1, <1>2 DEF Kept
  <2> QED
    BY <1>2, <2>1 DEF AppendToList, Breaks
<1>4. \A h \in Holders : lists'[h] = lists[h] \/ lists'[h] = lists[h] \cup {job[u].folder}
  BY <1>1
<1>5. lists' \in ListType
  <2>1. job[u].folder \in Paths \ {<<>>}
    BY <1>2 DEF InRoots
  <2> QED
    BY <1>1, <1>2, <2>1 DEF ListType
<1> QED
  BY <1>1, <1>2, <1>3, <1>4, <1>5 DEF Works

\* Putting the row, and what FileRow does.
LEMMA RowWorks ==
    ASSUME Inv, NEW u \in Users, PutRow(u) \/ FileRow(u)
    PROVE  Works(u)
<1>1. pc[u] # "idle" /\ dir' = dir /\ lists' = lists /\ torn' = torn /\ Goto(u, "idle")
  BY DEF PutRow, FileRow
<1>2. /\ job[u] \in JobType /\ Kept(job[u], pc[u])
      /\ rows \subseteq RowType /\ lists \in ListType /\ torn \subseteq Paths
      /\ InRoots(job[u], job[u].key.path)
  BY <1>1, InFlight
<1>3. ASSUME NEW k \in (rows \ rows') \cup (rows' \ rows)
      PROVE  k = job[u].key \/ (job[u].kind = "renamefile" /\ k = File(job[u].to))
  BY <1>3 DEF PutRow, FileRow
<1>4. job[u].kind = "renamefile" => InRoots(job[u], job[u].to)
  BY <1>2 DEF InRoots, JobType, Kept
<1>5. \A k \in (rows \ rows') \cup (rows' \ rows) : InRoots(job[u], k.path)
  BY <1>2, <1>3, <1>4 DEF File
<1>6. rows' \subseteq RowType
  <2>1. job[u].key \in RowType
    BY <1>2 DEF InRoots, RowType, JobType, Keys
  <2>2. job[u].kind = "renamefile" => File(job[u].to) \in RowType
    BY <1>4 DEF InRoots, RowType, File
  <2> QED
    BY <1>2, <1>3, <2>1, <2>2
<1> QED
  BY <1>1, <1>2, <1>5, <1>6 DEF Works

\* The rows found below the folder of a removal.
LEMMA FoundRows ==
    ASSUME Inv, NEW u \in Users, pc[u] = "rows", Removes(job[u]), NEW k \in Found(u)
    PROVE  /\ k \in rows /\ k \in RowType /\ k.path \in Paths
           /\ Inside(job[u].folder, k.path) /\ InRoots(job[u], k.path)
<1>1. /\ job[u] \in JobType /\ Kept(job[u], pc[u]) /\ rows \subseteq RowType
      /\ pc[u] # "idle"
  BY InFlight
<1>2. job[u].key = Folder(job[u].folder) /\ job[u].folder \in Paths
  BY <1>1 DEF Kept, Removes, JobType
<1>3. k \in rows /\ HasPrefix(k, Folder(job[u].folder))
  BY <1>2 DEF Found
<1>4. k \in RowType /\ k \in Keys /\ k.path \in Paths
  BY <1>1, <1>3 DEF RowType, Keys
<1>5. Inside(job[u].folder, k.path)
  BY <1>2, <1>3, <1>4, PrefixInside
<1> QED
  BY <1>1, <1>3, <1>4, <1>5, RemovalRoots

\* Deleting the rows.
LEMMA DropWorks == ASSUME Inv, NEW u \in Users, DropRows(u) PROVE Works(u)
<1>1. /\ pc[u] = "rows" /\ job[u].kind = "delete" /\ dir' = dir /\ lists' = lists
      /\ rows' \subseteq rows /\ rows \ rows' \subseteq Found(u)
  BY DEF DropRows
<1>2. /\ job[u] \in JobType /\ Kept(job[u], pc[u]) /\ Removes(job[u])
      /\ rows \subseteq RowType /\ lists \in ListType /\ torn \subseteq Paths
      /\ Targets(job[u]) \subseteq Paths
  BY <1>1, InFlight DEF Removes
<1>3. /\ \E step \in {"idle", "row", "lists"} : Goto(u, step) /\ (step # "idle" => Kept(job[u], step))
      /\ torn \subseteq torn' /\ torn' \subseteq Paths
  <2>1. Kept(job[u], "lists")
    BY <1>1, <1>2 DEF Kept
  <2> QED
    BY <1>2, <2>1 DEF DropRows, Breaks
<1>4. \A k \in (rows \ rows') \cup (rows' \ rows) : InRoots(job[u], k.path)
  BY <1>1, <1>2, FoundRows
<1> QED
  BY <1>1, <1>2, <1>3, <1>4 DEF Works

\* Moving the rows.
LEMMA MoveWorks == ASSUME Inv, NEW u \in Users, MoveRows(u) PROVE Works(u)
<1>1. pc[u] = "rows" /\ job[u].kind = "rename" /\ dir' = dir /\ lists' = lists
  BY DEF MoveRows
<1>2. /\ job[u] \in JobType /\ Kept(job[u], pc[u]) /\ Removes(job[u])
      /\ rows \subseteq RowType /\ lists \in ListType /\ torn \subseteq Paths
      /\ Targets(job[u]) \subseteq Paths /\ pc[u] # "idle"
  BY <1>1, InFlight DEF Removes
<1>3. /\ \E step \in {"idle", "row", "lists"} : Goto(u, step) /\ (step # "idle" => Kept(job[u], step))
      /\ torn \subseteq torn' /\ torn' \subseteq Paths
  <2>1. Kept(job[u], "lists")
    BY <1>1, <1>2 DEF Kept
  <2> QED
    BY <1>2, <2>1 DEF MoveRows
<1>4. CASE rows' = rows
  BY <1>1, <1>2, <1>3, <1>4 DEF Works
<1>5. ASSUME NEW done \in SUBSET Found(u), rows' = RowsRenamed(job[u], done)
      PROVE  Works(u)
  <2> DEFINE new(k) == [k EXCEPT !.path = Moved(job[u], k.path)]
  <2>1. ASSUME NEW k \in done
        PROVE  /\ InRoots(job[u], k.path) /\ new(k) \in RowType
               /\ new(k).path = Moved(job[u], k.path) /\ InRoots(job[u], Moved(job[u], k.path))
    <3>1. /\ k \in RowType /\ k.path \in Paths
          /\ Inside(job[u].folder, k.path) /\ InRoots(job[u], k.path)
      BY <1>1, <1>2, FoundRows
    <3>2. InRoots(job[u], Moved(job[u], k.path))
      BY <1>1, <1>2, <3>1, RemovalRoots
    <3>3. Moved(job[u], k.path) \in Paths \ {<<>>}
      BY <3>2 DEF InRoots
    <3> QED
      BY <3>1, <3>2, <3>3 DEF RowType
  <2>2. rows' = (rows \cup {new(k) : k \in done}) \ done
    BY <1>5 DEF RowsRenamed
  <2> HIDE DEF new
  <2>3. \A k \in (rows \ rows') \cup (rows' \ rows) : InRoots(job[u], k.path)
    BY <2>1, <2>2
  <2>4. rows' \subseteq RowType
    BY <1>2, <2>1, <2>2
  <2> QED
    BY <1>1, <1>2, <1>3, <2>3, <2>4 DEF Works
<1> QED
  BY <1>4, <1>5 DEF MoveRows

\* Taking the folder off the lists.
LEMMA CleanWorks == ASSUME Inv, NEW u \in Users, CleanLists(u) PROVE Works(u)
<1>1. pc[u] = "lists" /\ job[u].kind = "delete" /\ dir' = dir /\ rows' = rows
  BY DEF CleanLists
<1>2. /\ job[u] \in JobType /\ Kept(job[u], pc[u]) /\ Removes(job[u])
      /\ rows \subseteq RowType /\ lists \in ListType /\ torn \subseteq Paths
      /\ Targets(job[u]) \subseteq Paths /\ pc[u] # "idle"
  BY <1>1, InFlight DEF Removes
<1>3. PICK n \in 0 .. Len(Order) :
         /\ lists' = [h \in Holders |->
                         IF \E i \in 1 .. n : Order[i] = h
                         THEN {f \in lists[h] : ~Inside(job[u].folder, f)} ELSE lists[h]]
         /\ \/ n = Len(Order) /\ Goto(u, "idle") /\ UNCHANGED torn
            \/ n < Len(Order) /\ Faults /\ Breaks(u)
  BY DEF CleanLists
<1>4. /\ Goto(u, "idle") /\ torn \subseteq torn' /\ torn' \subseteq Paths
  BY <1>2, <1>3 DEF Breaks
<1>5. \A h \in Holders : lists'[h] = lists[h] \/ lists'[h] = {f \in lists[h] : ~Inside(job[u].folder, f)}
  BY <1>3
<1>6. lists' \in ListType
  BY <1>2, <1>3 DEF ListType
<1>7. ASSUME NEW h \in Holders
      PROVE  /\ \A f \in lists[h] \ lists'[h] : Inside(job[u].folder, f) /\ InRoots(job[u], f)
             /\ lists'[h] \ lists[h] = {}
  <2>1. ASSUME NEW f \in lists[h], Inside(job[u].folder, f) PROVE InRoots(job[u], f)
    BY <1>2, <2>1, RemovalRoots DEF ListType
  <2> QED
    BY <1>5, <2>1
<1> QED
  BY <1>1, <1>2, <1>4, <1>6, <1>7 DEF Works

\* Setting the entries of the lists.
LEMMA MoveListsWorks == ASSUME Inv, NEW u \in Users, MoveLists(u) PROVE Works(u)
<1> DEFINE j == job[u]
           entries == {e \in Renamers(u) \X UNION {lists[h] : h \in Holders} :
                          e[2] \in lists[e[1]] /\ Inside(j.folder, e[2])}
<1>1. pc[u] = "lists" /\ j.kind = "rename" /\ dir' = dir /\ rows' = rows /\ Goto(u, "idle")
  BY DEF MoveLists
<1>2. /\ j \in JobType /\ Kept(j, pc[u]) /\ Removes(j)
      /\ rows \subseteq RowType /\ lists \in ListType /\ torn \subseteq Paths
      /\ Targets(j) \subseteq Paths /\ pc[u] # "idle" /\ j.folder \in Paths /\ j.to \in Paths
  BY <1>1, InFlight DEF Removes, JobType
<1>3. PICK done \in SUBSET entries :
         /\ lists' = [h \in Holders |-> {IF <<h, f>> \in done THEN Moved(j, f) ELSE f : f \in lists[h]}]
         /\ torn \subseteq torn'
         /\ torn' \subseteq torn \cup {Moved(j, f) : f \in {f \in torn : Inside(j.folder, f)}}
                                 \cup Targets(j) \cup {j.folder}
  BY DEF MoveLists
<1>4. ASSUME NEW h \in Holders, NEW f \in lists[h], <<h, f>> \in done
      PROVE  Inside(j.folder, f)
  <2>1. <<h, f>> \in entries
    BY <1>4
  <2> QED
    BY <2>1
<1> HIDE DEF entries, j
<1>5. torn' \subseteq Paths
  <2>1. \A f \in torn : Inside(j.folder, f) => Moved(j, f) \in Paths
    BY <1>2, MovedPath
  <2> QED
    BY <1>2, <1>3, <2>1
<1>6. ASSUME NEW h \in Holders, NEW f \in lists[h], Inside(j.folder, f)
      PROVE  InRoots(j, f) /\ InRoots(j, Moved(j, f))
  BY <1>1, <1>2, <1>6, RemovalRoots DEF ListType, j
<1>7. lists' \in ListType
  <2>1. \A h \in Holders : \A f \in lists[h] : <<h, f>> \in done => Moved(j, f) \in Paths \ {<<>>}
    BY <1>4, <1>6 DEF InRoots
  <2>2. \A h \in Holders : \A f \in lists[h] : f \in Paths \ {<<>>}
    BY <1>2 DEF ListType
  <2> QED
    BY <1>3, <2>1, <2>2 DEF ListType
<1>8. ASSUME NEW h \in Holders
      PROVE  /\ \A f \in lists[h] \ lists'[h] : Inside(j.folder, f) /\ InRoots(j, f)
             /\ \A f \in lists'[h] \ lists[h] : InRoots(j, f)
  <2>1. lists'[h] = {IF <<h, f>> \in done THEN Moved(j, f) ELSE f : f \in lists[h]}
    BY <1>3
  <2> QED
    BY <1>4, <1>6, <2>1
<1> QED
  BY <1>1, <1>2, <1>3, <1>5, <1>7, <1>8 DEF Works, j

\* Ending the request, or leaving it half done.
LEMMA FailWorks == ASSUME Inv, NEW u \in Users, Fails(u) PROVE Works(u)
<1>1. pc[u] # "idle" /\ UNCHANGED <<rows, lists, dir>> /\ Goto(u, "idle")
  BY DEF Fails, Breaks
<1>2. /\ rows \subseteq RowType /\ lists \in ListType /\ torn \subseteq Paths
      /\ Targets(job[u]) \subseteq Paths
  BY <1>1, InFlight
<1>3. torn \subseteq torn' /\ torn' \subseteq Paths
  BY <1>2 DEF Fails, Breaks
<1> QED
  BY <1>1, <1>2, <1>3 DEF Works

----------------------------------------------------------------------------
(* The guards *)

\* A request that starts.
LEMMA StartStep ==
    ASSUME Inv, NEW u \in Users, Starts(u)
    PROVE  Inv'
<1>0. PICK j \in JobType, step \in {"list", "row", "rows"} :
         /\ Start(u, j, step) /\ Kept(j, step)
         /\ u \in Students => \E n \in Names : At(n, j)
  BY DEF Starts
<1>1. /\ pc \in [Users -> {"idle", "list", "row", "rows", "lists"}] /\ job \in [Users -> JobType]
      /\ torn \subseteq Paths
  BY DEF Inv, TypeOK, JobType
<1>2. /\ pc' = [pc EXCEPT ![u] = step] /\ job' = [job EXCEPT ![u] = j]
      /\ torn' = torn \cup Clashes(j) \cup Pitfalls(j)
      /\ UNCHANGED <<rows, lists, dir>>
  BY <1>0 DEF Start
<1>3. \A v \in Users : \/ v = u /\ job'[v] = j /\ pc'[v] = step
                       \/ v # u /\ job'[v] = job[v] /\ pc'[v] = pc[v]
  BY <1>1, <1>2
<1>4. torn' \subseteq Paths /\ torn \subseteq torn'
  <2>1. Targets(j) \subseteq Paths /\ \A v \in Users : Targets(job[v]) \subseteq Paths
    BY <1>1 DEF Targets, JobType
  <2> QED
    BY <1>1, <1>2, <2>1 DEF Clashes, Pitfalls, JobType, Busy
<1>5. TypeOK'
  <2>1. job' \in [Users -> JobType] /\ pc' \in [Users -> {"idle", "list", "row", "rows", "lists"}]
    BY <1>1, <1>2
  <2> QED
    BY <1>2, <1>4, <2>1 DEF Inv, TypeOK, JobType
<1>6. AtWork'
  BY <1>0, <1>3 DEF Inv, AtWork
<1>7. Warned'
  <2>1. ASSUME NEW w \in Users, Removes(j), Inside(j.folder, dir[w]) PROVE j.folder \in torn'
    BY <1>2, <2>1 DEF Pitfalls
  <2>2. ASSUME NEW w \in Users, NEW v \in Users, pc'[v] # "idle", Removes(job'[v]),
               Inside(job'[v].folder, dir[w])
        PROVE  job'[v].folder \in torn'
    BY <1>3, <1>4, <2>1, <2>2 DEF Inv, Warned
  <2> QED
    BY <1>2, <2>2 DEF Warned
<1>8. Foothold'
  <2>1. \A p : Torn(p) => Torn(p)'
    BY <1>4, TornStays
  <2>2. ASSUME NEW s \in Students, dir[s] # <<>>, NEW n, n = dir[s][1]
        PROVE  Torn(<<n>>)' \/ <<n>> \in Allowed(s, lists)
    BY <2>1, <2>2 DEF Inv, Foothold
  <2>3. ASSUME NEW s \in Students, dir'[s] # <<>>
        PROVE  (Torn(<<dir[s][1]>>) \/ <<dir[s][1]>> \in Allowed(s, lists))'
    BY <1>2, <2>2, <2>3 DEF Torn
  <2> QED
    BY <2>3 DEF Foothold
<1>9. AtHome'
  <2>1. ASSUME NEW v \in Students, pc'[v] # "idle" PROVE \E n \in Names : At(n, job[v])'
    <3>1. v \in Users
      BY DEF Users
    <3>2. PICK n \in Names : At(n, job'[v])
      BY <1>0, <1>3, <2>1, <3>1 DEF Inv, AtHome
    <3>3. At(n, job[v])'
      BY <1>4, <3>2, TornStays DEF At
    <3> QED
      BY <3>3
  <2> QED
    BY <2>1 DEF AtHome
<1> QED
  BY <1>5, <1>6, <1>7, <1>8, <1>9 DEF Inv

\* A path of one component is a name.
LEMMA OneName == ASSUME NEW p \in Paths, Len(p) = 1 PROVE \E n \in Names : p = <<n>>
<1>1. p \in Seq(Names) /\ p[1] \in Names /\ <<p[1]>> \in Seq(Names) /\ Len(<<p[1]>>) = 1
  BY DEF Paths
<1>2. p = <<p[1]>>
  BY <1>1, SeqEqual
<1> QED
  BY <1>1, <1>2

\* A path below the user's directory.
LEMMA BelowDirectory ==
    ASSUME Inv, NEW u \in Users, NEW a \in Paths \ {<<>>}
    PROVE  /\ dir[u] \in Paths /\ lists[u] \subseteq Paths \ {<<>>} /\ lists[Class] \subseteq Paths \ {<<>>}
           /\ dir[u] \o a \in Paths /\ dir[u] \o a # <<>>
           /\ dir[u] # <<>> => (dir[u] \o a)[1] = dir[u][1] /\ dir[u][1] \in Names
<1>1. /\ dir[u] \in Paths /\ lists[u] \subseteq Paths \ {<<>>} /\ lists[Class] \subseteq Paths \ {<<>>}
  BY DEF Inv, TypeOK, Holders
<1> QED
  BY <1>1, Joined, FirstName

\* The type of a job.
LEMMA NewJob ==
    ASSUME Inv, NEW u \in Users, NEW kind \in Kinds, NEW f \in Paths, NEW to \in Paths,
           NEW key \in Keys, NEW whose \in SUBSET Holders
    PROVE  /\ Job(u, kind, f, to, key, whose) \in JobType
           /\ Job(u, kind, f, to, key, whose).kind = kind
           /\ Job(u, kind, f, to, key, whose).folder = f
           /\ Job(u, kind, f, to, key, whose).to = to
           /\ Job(u, kind, f, to, key, whose).key = key
           /\ Job(u, kind, f, to, key, whose).own = lists[u]
           /\ Job(u, kind, f, to, key, whose).whose = whose
           /\ lists[u] \subseteq Paths \ {<<>>}
<1>1. lists[u] \subseteq Paths \ {<<>>}
  BY DEF Inv, TypeOK, Holders
<1> QED
  BY <1>1 DEF Job, JobType

\* Making a directory starts.
LEMMA MakeStarts == ASSUME Inv, NEW u \in Users, MakeDirectory(u) PROVE Starts(u)
<1> DEFINE d == dir[u]
           whose == MkdirHolders(u, d, lists[u])
<1>1. PICK r \in Requests[u] :
         /\ r.kind = "mkdir" /\ whose # {}
         /\ Start(u, Job(u, "mkdir", d \o r.arg, d \o r.arg, Folder(d \o r.arg), whose), "list")
  BY DEF MakeDirectory
<1> DEFINE f == d \o r.arg
           j == Job(u, "mkdir", f, f, Folder(f), whose)
<1>2. r.arg \in Paths \ {<<>>}
  BY ClassroomAssumption
<1>3. /\ f \in Paths /\ f # <<>> /\ (d # <<>> => f[1] = d[1] /\ d[1] \in Names)
      /\ Folder(f) \in Keys /\ Folder(f).path = f
  BY <1>2, BelowDirectory DEF Folder, Keys
<1>4. whose \subseteq Holders /\ whose # {} /\ whose \subseteq Students \cup {Class}
  BY <1>1 DEF MkdirHolders, Holders, Users
<1>5. Start(u, j, "list")
  BY <1>1
<1>6. u \in Students => d # <<>> /\ \E g \in lists[u] : g[1] = d[1]
  BY <1>1 DEF MkdirHolders
<1>p. EntersOneName => \E n \in Names : f = d \o <<n>>
  BY <1>1, <1>2, OneName DEF EntersOneName
<1> HIDE DEF f, d, whose
<1>7. /\ j \in JobType /\ j.kind = "mkdir" /\ j.key = Folder(f) /\ j.folder = f
      /\ j.own = lists[u] /\ j.own \subseteq Paths \ {<<>>} /\ j.whose = whose
  BY <1>3, <1>4, NewJob DEF Kinds
<1> HIDE DEF j
<1>8. Kept(j, "list")
  BY <1>3, <1>4, <1>7 DEF Kept
<1>9. u \in Students => At(d[1], j) /\ d[1] \in Names
  BY <1>3, <1>6, <1>7 DEF At
<1>10. Place(d, j)
  BY <1>3, <1>7, <1>p DEF Place
<1> QED
  BY <1>5, <1>7, <1>8, <1>9, <1>10 DEF Starts, d

\* An upload starts.
LEMMA UploadStarts == ASSUME Inv, NEW u \in Users, Upload(u) PROVE Starts(u)
<1> DEFINE d == dir[u]
<1>1. PICK r \in Requests[u] :
         /\ r.kind = "upload" /\ MayUpload(u, d, lists[u])
         /\ Start(u, Job(u, "upload", d, d, File(d \o r.arg), {}), "row")
  BY DEF Upload
<1> DEFINE f == d \o r.arg
           j == Job(u, "upload", d, d, File(f), {})
<1>2. r.arg \in Paths \ {<<>>}
  BY ClassroomAssumption
<1>3. /\ f \in Paths /\ f # <<>> /\ (d # <<>> => f[1] = d[1] /\ d[1] \in Names) /\ d \in Paths
      /\ File(f) \in Keys /\ File(f).path = f /\ lists[u] \subseteq Paths \ {<<>>}
  BY <1>2, BelowDirectory DEF File, Keys
<1>4. Start(u, j, "row")
  BY <1>1
<1>5. u \in Students => d # <<>> /\ \E g \in lists[u] : g[1] = d[1]
  <2>1. ASSUME u \in Students PROVE d # <<>> /\ \E g \in lists[u] : Inside(g, d)
    BY <1>1, <2>1, AccessAssumption DEF MayUpload
  <2> QED
    BY <1>3, <2>1, InsideRoot
<1>p. EntersOneName => \E n \in Names : f = d \o <<n>>
  <2>1. r.kind = "upload"
    BY <1>1
  <2> QED
    BY <1>2, <2>1, OneName DEF EntersOneName
<1> HIDE DEF f, d
<1>6. /\ j \in JobType /\ j.kind = "upload" /\ j.key = File(f) /\ j.own = lists[u]
  BY <1>3, NewJob DEF Kinds
<1> HIDE DEF j
<1>7. Kept(j, "row")
  BY <1>3, <1>6 DEF Kept
<1>8. u \in Students => At(d[1], j) /\ d[1] \in Names
  BY <1>3, <1>5, <1>6 DEF At
<1>9. Place(d, j)
  BY <1>3, <1>6, <1>p DEF Place
<1> QED
  BY <1>4, <1>6, <1>7, <1>8, <1>9 DEF Starts, d

\* A delete starts.
LEMMA DeleteStarts == ASSUME Inv, NEW u \in Users, Delete(u) PROVE Starts(u)
<1> DEFINE d == dir[u]
<1>1. PICK r \in Requests[u] :
         /\ MayDelete(u, d, r.arg, lists[u], lists)
         /\ \/ Start(u, Job(u, "deletefile", d, d \o r.arg, File(d \o r.arg), {}), "rows")
            \/ Start(u, Job(u, "delete", d \o r.arg, <<>>, Folder(d \o r.arg), {}), "rows")
  BY DEF Delete
<1> DEFINE f == d \o r.arg
           i == Job(u, "deletefile", d, f, File(f), {})
           j == Job(u, "delete", f, <<>>, Folder(f), {})
<1>2. r.arg \in Paths \ {<<>>}
  BY ClassroomAssumption
<1>3. /\ f \in Paths /\ f # <<>> /\ d \in Paths /\ <<>> \in Paths
      /\ File(f) \in Keys /\ File(f).path = f /\ Folder(f) \in Keys /\ Folder(f).path = f
      /\ lists[u] \subseteq Paths \ {<<>>}
  BY <1>2, BelowDirectory, EmptySeq DEF File, Folder, Keys, Paths
<1>4. Start(u, i, "rows") \/ Start(u, j, "rows")
  BY <1>1
<1>5. u \in Students => \E g \in lists[u] : g[1] = f[1]
  <2>1. ASSUME u \in Students PROVE \E g \in lists[u] : Inside(g, f)
    BY <1>1, <2>1 DEF MayDelete
  <2> QED
    BY <1>3, <2>1, InsideRoot
<1>6. f[1] \in Names
  BY <1>3, FirstName
<1> HIDE DEF f, d
<1>7. /\ i \in JobType /\ i.kind = "deletefile" /\ i.key = File(f) /\ i.own = lists[u]
      /\ j \in JobType /\ j.kind = "delete" /\ j.key = Folder(f) /\ j.own = lists[u] /\ j.folder = f
  BY <1>3, NewJob DEF Kinds
<1> HIDE DEF i, j
<1>8. Kept(i, "rows") /\ Kept(j, "rows")
  BY <1>3, <1>7 DEF Kept
<1>9. u \in Students => At(f[1], i) /\ At(f[1], j)
  BY <1>3, <1>5, <1>7 DEF At
<1>10. Place(d, i) /\ Place(d, j)
  BY <1>7 DEF Place
<1> QED
  BY <1>4, <1>6, <1>7, <1>8, <1>9, <1>10 DEF Starts, d

\* A student may rename only what is below the student's own folder, or below
\* one that was taken away.
LEMMA RenameRoot ==
    ASSUME Inv, NEW u \in Students, MayRename(u, dir[u], lists[Class])
    PROVE  dir[u] # <<>> /\ (Torn(<<dir[u][1]>>) \/ \E g \in lists[u] : g[1] = dir[u][1])
<1> DEFINE d == dir[u]
<1>1. u \in Users /\ u \notin Staff /\ d \in Paths
  BY AccessAssumption DEF Inv, TypeOK, Users
<1>2. d # <<>> /\ \A f \in lists[Class] : ~Inside(f, d)
  BY <1>1 DEF MayRename
<1>3. Inside(<<d[1]>>, d)
  BY <1>1, <1>2, RootInside
<1>4. Torn(<<d[1]>>) \/ <<d[1]>> \in lists[u]
  BY <1>2, <1>3 DEF Inv, Foothold, Allowed
<1> HIDE DEF d
<1>5. <<d[1]>>[1] = d[1]
  OBVIOUS
<1> QED
  BY <1>2, <1>4, <1>5 DEF d

\* A rename of a file, or of a directory, starts.
LEMMA RenameStarts ==
    ASSUME Inv, NEW u \in Users, Rename(u) \/ RenameDirectory(u)
    PROVE  Starts(u)
<1> DEFINE d == dir[u]
<1>1. PICK r \in Requests[u] :
         /\ MayRename(u, d, lists[Class])
         /\ \/ /\ r.kind = "renamefile"
               /\ Start(u, Job(u, "renamefile", d, d \o <<r.to>>, File(d \o r.arg), {}), "rows")
            \/ /\ r.kind = "rename"
               /\ Start(u, Job(u, "rename", d \o r.arg, d \o <<r.to>>, Folder(d \o r.arg), {}), "rows")
  BY DEF Rename, RenameDirectory
<1> DEFINE f == d \o r.arg
           to == d \o <<r.to>>
           i == Job(u, "renamefile", d, to, File(f), {})
           j == Job(u, "rename", f, to, Folder(f), {})
<1>2. r.arg \in Paths \ {<<>>} /\ <<r.to>> \in Paths \ {<<>>}
  <2>1. r.arg \in Paths \ {<<>>} /\ r.to \in Names
    BY ClassroomAssumption
  <2> QED
    BY <2>1 DEF Paths
<1>3. /\ f \in Paths /\ f # <<>> /\ d \in Paths /\ to \in Paths /\ to # <<>>
      /\ (d # <<>> => f[1] = d[1] /\ to[1] = d[1] /\ d[1] \in Names)
      /\ File(f) \in Keys /\ File(f).path = f /\ Folder(f) \in Keys /\ Folder(f).path = f
      /\ lists[u] \subseteq Paths \ {<<>>}
  BY <1>2, BelowDirectory DEF File, Folder, Keys
<1>4. Start(u, i, "rows") \/ (Start(u, j, "rows") /\ r.kind = "rename")
  BY <1>1
<1>p. /\ \E n \in Names : to = d \o <<n>>
      /\ RenamesOneName /\ r.kind = "rename" => \E n \in Names : f = d \o <<n>>
  <2>1. r.to \in Names
    BY ClassroomAssumption
  <2> QED
    BY <1>2, <2>1, OneName DEF RenamesOneName
<1>5. u \in Students => d # <<>> /\ (Torn(<<d[1]>>) \/ \E g \in lists[u] : g[1] = d[1])
  BY <1>1, RenameRoot
<1> HIDE DEF f, d, to
<1>7. /\ i \in JobType /\ i.kind = "renamefile" /\ i.key = File(f) /\ i.own = lists[u] /\ i.to = to
      /\ j \in JobType /\ j.kind = "rename" /\ j.key = Folder(f) /\ j.own = lists[u] /\ j.to = to
      /\ j.folder = f
  BY <1>3, NewJob DEF Kinds
<1> HIDE DEF i, j
<1>8. Kept(i, "rows") /\ Kept(j, "rows")
  BY <1>3, <1>7 DEF Kept
<1>9. u \in Students => At(d[1], i) /\ At(d[1], j) /\ d[1] \in Names
  BY <1>3, <1>5, <1>7 DEF At
<1>10. Place(d, i) /\ (r.kind = "rename" => Place(d, j))
  BY <1>7, <1>p DEF Place
<1> QED
  BY <1>4, <1>7, <1>8, <1>9, <1>10 DEF Starts, d

\* A member goes to another directory: one level down into a folder the member
\* may enter, or one level up.
LEMMA EnterStep == ASSUME Inv, NEW u \in Users, ChangeDirectory(u) PROVE Inv'
<1>1. PICK d : /\ Enters(u, d)
               /\ \/ \E n \in Names : d = dir[u] \o <<n>> /\ MayEnter(u, d, rows, lists)
                  \/ dir[u] # <<>> /\ d = SubSeq(dir[u], 1, Len(dir[u]) - 1)
  BY DEF ChangeDirectory
<1>2. /\ dir' = [dir EXCEPT ![u] = d] /\ UNCHANGED <<rows, lists, pc, job>>
      /\ torn' = torn \cup {job[v].folder : v \in {v \in Busy : Removes(job[v]) /\ Inside(job[v].folder, d)}}
  BY <1>1 DEF Enters
<1>3. dir \in [Users -> Paths] /\ dir[u] \in Paths /\ job \in [Users -> JobType] /\ torn \subseteq Paths
  BY DEF Inv, TypeOK, JobType
<1>4. /\ d \in Paths
      /\ dir[u] # <<>> /\ d # <<>> => d[1] = dir[u][1]
      /\ dir[u] = <<>> /\ d # <<>> => d = <<d[1]>> /\ MayEnter(u, d, rows, lists)
  <2>1. CASE dir[u] # <<>> /\ d = SubSeq(dir[u], 1, Len(dir[u]) - 1)
    BY <1>3, <2>1, Above
  <2>2. ASSUME NEW n \in Names, d = dir[u] \o <<n>>, MayEnter(u, d, rows, lists)
        PROVE  /\ d \in Paths
               /\ dir[u] # <<>> => d[1] = dir[u][1]
               /\ dir[u] = <<>> => d = <<d[1]>>
    <3>1. <<n>> \in Paths /\ <<n>>[1] = n
      BY DEF Paths
    <3> QED
      BY <1>3, <2>2, <3>1, Joined
  <2> QED
    BY <1>1, <2>1, <2>2
<1>5. torn \subseteq torn' /\ torn' \subseteq Paths
  BY <1>2, <1>3 DEF Busy, JobType
<1>6. TypeOK'
  BY <1>2, <1>3, <1>4, <1>5 DEF Inv, TypeOK
<1>7. AtWork'
  BY <1>2 DEF Inv, AtWork
<1>8. \A p : Torn(p) => Torn(p)'
  BY <1>5, TornStays
<1>9. Warned'
  <2>1. ASSUME NEW w \in Users, NEW v \in Users, pc[v] # "idle", Removes(job[v]),
               Inside(job[v].folder, dir'[w])
        PROVE  job[v].folder \in torn'
    <3>1. CASE w = u
      BY <1>2, <1>3, <2>1, <3>1 DEF Busy
    <3>2. CASE w # u
      BY <1>2, <1>3, <1>5, <2>1, <3>2 DEF Inv, Warned
    <3> QED
      BY <3>1, <3>2
  <2> QED
    BY <1>2, <2>1 DEF Warned
<1>10. Foothold'
  <2>1. ASSUME NEW s \in Students, dir'[s] # <<>>, NEW n, n = dir'[s][1]
        PROVE  Torn(<<n>>)' \/ <<n>> \in Allowed(s, lists)
    <3>1. CASE s # u \/ dir[u] # <<>>
      <4>1. dir[s] # <<>> /\ dir[s][1] = n
        BY <1>2, <1>3, <1>4, <2>1, <3>1 DEF Users
      <4> QED
        BY <1>8, <4>1 DEF Inv, Foothold
    <3>2. CASE s = u /\ dir[u] = <<>>
      <4>1. dir'[s] = d /\ d = <<n>> /\ MayEnter(s, d, rows, lists)
        BY <1>2, <1>3, <1>4, <2>1, <3>2
      <4> QED
        BY <4>1, AccessAssumption DEF MayEnter
    <3> QED
      BY <3>1, <3>2
  <2>2. ASSUME NEW s \in Students, dir'[s] # <<>>
        PROVE  (Torn(<<dir[s][1]>>) \/ <<dir[s][1]>> \in Allowed(s, lists))'
    BY <1>2, <2>1, <2>2 DEF Torn
  <2> QED
    BY <2>2 DEF Foothold
<1>11. AtHome'
  <2>1. \A n, j : At(n, j) => At(n, j)'
    BY <1>8 DEF At
  <2> QED
    BY <1>2, <2>1 DEF Inv, AtHome
<1> QED
  BY <1>6, <1>7, <1>9, <1>10, <1>11 DEF Inv

----------------------------------------------------------------------------
(* The theorems *)

\* The invariant holds at first.
LEMMA InvInit == Init => Inv
<1> SUFFICES ASSUME Init PROVE Inv
  OBVIOUS
<1>1. NoJob \in JobType
  BY AccessAssumption, EmptySeq DEF NoJob, JobType, Kinds, Paths, InfoKey, File, Keys
<1>2. <<>> \in Paths
  BY EmptySeq DEF Paths
<1>3. TypeOK
  BY <1>1, <1>2, ClassroomAssumption DEF Init, TypeOK, JobType
<1> QED
  BY <1>3 DEF Init, Inv, AtWork, Warned, Foothold, AtHome, Users

\* A request that starts.
LEMMA AllStart ==
    ASSUME Inv, NEW u \in Users,
           MakeDirectory(u) \/ Upload(u) \/ Delete(u) \/ Rename(u) \/ RenameDirectory(u)
    PROVE  Starts(u)
BY MakeStarts, UploadStarts, DeleteStarts, RenameStarts

\* A step of a request in flight.
LEMMA AllWorks ==
    ASSUME Inv, NEW u \in Users,
           \/ AppendToList(u) \/ PutRow(u) \/ FileRow(u)
           \/ DropRows(u) \/ CleanLists(u) \/ MoveRows(u) \/ MoveLists(u)
           \/ Fails(u)
    PROVE  Works(u)
BY ListWorks, RowWorks, DropWorks, CleanWorks, MoveWorks, MoveListsWorks, FailWorks

\* Every step keeps the invariant.
LEMMA InvStep == ASSUME Inv, [Next]_vars PROVE Inv'
<1>1. CASE UNCHANGED vars
  BY <1>1 DEF vars, Inv, TypeOK, AtWork, Warned, Foothold, AtHome, At, Torn
<1>2. ASSUME NEW u \in Users,
             \/ ChangeDirectory(u)
             \/ MakeDirectory(u) \/ Upload(u) \/ Delete(u) \/ Rename(u) \/ RenameDirectory(u)
      PROVE  Inv'
  BY <1>2, EnterStep, AllStart, StartStep
<1>3. ASSUME NEW u \in Users, Works(u) PROVE Inv'
  BY <1>3, WorksStep
<1> QED
  BY <1>1, <1>2, <1>3, AllWorks DEF Next

\* Rows, lists, directories and requests keep their types: no list ever has the
\* class's root, and nothing is renamed to it.
THEOREM TypeCorrect == Spec => []TypeOK
<1>1. Inv => TypeOK
  BY DEF Inv
<1>2. Inv /\ [Next]_vars => Inv'
  BY InvStep
<1> QED
  BY <1>1, <1>2, InvInit, PTL DEF Spec

\* The only step that starts a request is one of an idle member, and the only
\* step of a member's request is the member's.
LEMMA WhoseStep ==
    ASSUME Inv, Next, NEW s \in Users, pc[s] # "idle", pc'[s] # pc[s]
    PROVE  Works(s)
<1>1. pc \in [Users -> {"idle", "list", "row", "rows", "lists"}]
  BY DEF Inv, TypeOK
<1>2. PICK u \in Users :
         \/ ChangeDirectory(u)
         \/ MakeDirectory(u) \/ Upload(u) \/ Delete(u) \/ Rename(u) \/ RenameDirectory(u)
         \/ AppendToList(u) \/ PutRow(u) \/ FileRow(u)
         \/ DropRows(u) \/ CleanLists(u) \/ MoveRows(u) \/ MoveLists(u)
         \/ Fails(u)
  BY DEF Next
<1>3. ~ ChangeDirectory(u)
  BY DEF ChangeDirectory, Enters
<1>4. ASSUME NEW j, NEW step, Start(u, j, step) PROVE FALSE
  BY <1>1, <1>4 DEF Start
<1>5. ~ (MakeDirectory(u) \/ Upload(u) \/ Delete(u) \/ Rename(u) \/ RenameDirectory(u))
  BY <1>4 DEF MakeDirectory, Upload, Delete, Rename, RenameDirectory
<1>6. Works(u)
  BY <1>2, <1>3, <1>5, AllWorks
<1>7. u = s
  BY <1>1, <1>6 DEF Works, Goto
<1> QED
  BY <1>6, <1>7

\* Whatever others do meanwhile, and however long ago the student's list was
\* read, a step of a student's request changes rows and lists only below the
\* root folders of that list, or below a folder that was taken away.
THEOREM StudentsStayInTheirFolders == Spec => StudentsKeepOut
<1> DEFINE Changed ==
              {k.path : k \in (rows \ rows') \cup (rows' \ rows)}
              \cup UNION {(lists[h] \ lists'[h]) \cup (lists'[h] \ lists[h]) : h \in Holders}
           KeepsOut(u) ==
              pc[u] # "idle" /\ pc'[u] # pc[u] =>
                 \A p \in Changed : Torn(p) \/ \E f \in job[u].own : f[1] = p[1]
<1>1. ASSUME Inv, Next, NEW u \in Students PROVE KeepsOut(u)
  <2> SUFFICES ASSUME pc[u] # "idle", pc'[u] # pc[u], NEW p \in Changed
               PROVE  Torn(p) \/ \E f \in job[u].own : f[1] = p[1]
    OBVIOUS
  <2>1. u \in Users
    BY DEF Users
  <2>2. Works(u)
    BY <1>1, <2>1, WhoseStep
  <2>3. PICK n \in Names : At(n, job[u])
    BY <1>1 DEF Inv, AtHome
  <2>4. InRoots(job[u], p)
    BY <2>2 DEF Works
  <2>5. p \in Paths /\ p # <<>> /\ p[1] = n
    BY <2>3, <2>4 DEF InRoots, At
  <2>6. CASE Torn(<<n>>)
    <3>1. PICK f \in torn : Inside(f, <<n>>)
      BY <2>6 DEF Torn
    <3>2. f \in Paths /\ <<n>> \in Paths /\ Inside(<<n>>, p)
      BY <1>1, <2>5, RootInside DEF Inv, TypeOK, Paths
    <3>3. Inside(f, p)
      BY <2>5, <3>1, <3>2, InsideTrans
    <3> QED
      BY <3>3 DEF Torn
  <2> QED
    BY <2>3, <2>5, <2>6 DEF At
<1>2. Inv /\ [Next]_vars => [\A u \in Students : KeepsOut(u)]_vars
  <2>1. CASE UNCHANGED vars
    BY <2>1
  <2> QED
    BY <1>1, <2>1
<1>3. Inv /\ [Next]_vars => Inv'
  BY InvStep
<1>4. StudentsKeepOut <=> [][\A u \in Students : KeepsOut(u)]_vars
  BY DEF StudentsKeepOut
<1> HIDE DEF KeepsOut
<1> QED
  BY <1>2, <1>3, <1>4, InvInit, PTL DEF Spec

----------------------------------------------------------------------------
(* What is known of requests in flight together *)

\* Two requests of which one takes away what the other works on are torn, and
\* so is a folder renamed to itself.
Noticed ==
    \A u, v \in Users :
       pc[u] # "idle" /\ pc[v] # "idle" /\ u # v /\ Clash(job[u], job[v])
          => Targets(job[u]) \cup Targets(job[v]) \subseteq torn

OntoItself ==
    \A u \in Users : pc[u] # "idle" /\ Removes(job[u]) /\ job[u].to = job[u].folder
                        => job[u].folder \in torn

\* The request was made in the directory its member still is in.
Placed == \A u \in Users : pc[u] # "idle" => Place(dir[u], job[u])

Together == Inv /\ Noticed /\ OntoItself /\ Placed

\* Which of two requests clashes with the other does not matter.
LEMMA ClashSymmetric == ASSUME NEW i, NEW j, Clash(i, j) PROVE Clash(j, i)
BY DEF Clash, Related

\* What a step of a request does to the requests.
LEMMA OthersWork ==
    ASSUME TypeOK, NEW u \in Users, Works(u)
    PROVE  \A v \in Users : /\ v # u => pc'[v] = pc[v] /\ job'[v] = job[v]
                            /\ pc'[v] # "idle" => pc[v] # "idle" /\ job'[v] = job[v]
<1>1. PICK step \in {"idle", "row", "lists"} : Goto(u, step)
  BY DEF Works
<1>2. pc \in [Users -> {"idle", "list", "row", "rows", "lists"}] /\ job \in [Users -> JobType]
  BY DEF TypeOK, JobType
<1>3. /\ pc' = [pc EXCEPT ![u] = step]
      /\ job' = IF step = "idle" THEN [job EXCEPT ![u] = NoJob] ELSE job
  BY <1>1 DEF Goto
<1> QED
  BY <1>2, <1>3 DEF Works

\* What a request that starts does to the requests.
LEMMA OthersStart ==
    ASSUME TypeOK, NEW u \in Users, NEW j \in JobType, NEW step, Start(u, j, step)
    PROVE  \A v \in Users : \/ v = u /\ pc[v] = "idle" /\ job'[v] = j /\ pc'[v] = step
                            \/ v # u /\ job'[v] = job[v] /\ pc'[v] = pc[v]
BY DEF TypeOK, Start

\* Requests that clash are noticed when the second one starts.
LEMMA TogetherStart ==
    ASSUME Together, NEW u \in Users, Starts(u)
    PROVE  (Noticed /\ OntoItself /\ Placed)'
<1>1. PICK j \in JobType, step \in {"list", "row", "rows"} : Start(u, j, step) /\ Place(dir[u], j)
  BY DEF Starts
<1>2. \A v \in Users : \/ v = u /\ pc[v] = "idle" /\ job'[v] = j /\ pc'[v] = step
                       \/ v # u /\ job'[v] = job[v] /\ pc'[v] = pc[v]
  BY <1>1, OthersStart DEF Together, Inv
<1>3. torn' = torn \cup Clashes(j) \cup Pitfalls(j) /\ dir' = dir
  BY <1>1 DEF Start
<1>4. ASSUME NEW v \in Users, pc[v] # "idle", Clash(j, job[v])
      PROVE  Targets(j) \cup Targets(job[v]) \subseteq torn'
  BY <1>3, <1>4 DEF Clashes, Busy
<1>5. Noticed'
  <2>1. ASSUME NEW x \in Users, NEW v \in Users, pc'[x] # "idle", pc'[v] # "idle", x # v,
               Clash(job'[x], job'[v])
        PROVE  Targets(job'[x]) \cup Targets(job'[v]) \subseteq torn'
    <3>1. CASE x = u
      BY <1>2, <1>4, <2>1, <3>1
    <3>2. CASE v = u
      <4>1. Clash(job'[v], job'[x])
        BY <2>1, ClashSymmetric
      <4> QED
        BY <1>2, <1>4, <2>1, <3>2, <4>1
    <3>3. CASE x # u /\ v # u
      BY <1>2, <1>3, <2>1, <3>3 DEF Together, Noticed
    <3> QED
      BY <3>1, <3>2, <3>3
  <2> QED
    BY <2>1 DEF Noticed
<1>6. OntoItself'
  <2>1. Removes(j) /\ j.to = j.folder => j.folder \in torn'
    BY <1>3 DEF Pitfalls
  <2> QED
    BY <1>2, <1>3, <2>1 DEF Together, OntoItself
<1>7. Placed'
  BY <1>1, <1>2, <1>3 DEF Together, Placed
<1> QED
  BY <1>5, <1>6, <1>7

\* Every step keeps what is known of requests together.
LEMMA TogetherStep == ASSUME Together, [Next]_vars PROVE Together'
<1>0. Inv'
  BY InvStep DEF Together
<1>1. ASSUME NEW u \in Users, Starts(u) PROVE (Noticed /\ OntoItself /\ Placed)'
  BY <1>1, TogetherStart
<1>2. ASSUME NEW u \in Users, Works(u) PROVE (Noticed /\ OntoItself /\ Placed)'
  <2>1. \A v \in Users : pc'[v] # "idle" => pc[v] # "idle" /\ job'[v] = job[v]
    BY <1>2, OthersWork DEF Together, Inv
  <2>2. torn \subseteq torn' /\ dir' = dir
    BY <1>2 DEF Works
  <2>3. Noticed'
    BY <2>1, <2>2 DEF Together, Noticed
  <2>4. OntoItself' /\ Placed'
    BY <2>1, <2>2 DEF Together, OntoItself, Placed
  <2> QED
    BY <2>3, <2>4
<1>3. ASSUME NEW u \in Users, ChangeDirectory(u) PROVE (Noticed /\ OntoItself /\ Placed)'
  <2>1. PICK d : Enters(u, d)
    BY <1>3 DEF ChangeDirectory
  <2>2. /\ pc[u] = "idle" /\ dir' = [dir EXCEPT ![u] = d] /\ UNCHANGED <<pc, job>>
        /\ torn \subseteq torn'
    BY <2>1 DEF Enters
  <2>3. \A v \in Users : pc[v] # "idle" => dir'[v] = dir[v]
    BY <2>2 DEF Together, Inv, TypeOK
  <2> QED
    BY <2>2, <2>3 DEF Together, Noticed, OntoItself, Placed
<1>4. ASSUME UNCHANGED vars PROVE (Noticed /\ OntoItself /\ Placed)'
  <2>1. UNCHANGED <<pc, job, torn, dir>>
    BY <1>4 DEF vars
  <2>2. Noticed'
    BY <2>1 DEF Together, Noticed
  <2>3. OntoItself' /\ Placed'
    BY <2>1 DEF Together, OntoItself, Placed
  <2> QED
    BY <2>2, <2>3
<1>5. Inv
  BY DEF Together
<1> QED
  BY <1>0, <1>1, <1>2, <1>3, <1>4, <1>5, AllStart, AllWorks DEF Next, Together

----------------------------------------------------------------------------
(* Paths that move *)

\* Where p goes when a becomes b.
Shift(a, b, p) == b \o SubSeq(p, Len(a) + 1, Len(p))

\* Its components.
LEMMA ShiftParts ==
    ASSUME NEW a \in Paths, NEW b \in Paths, NEW p \in Paths, Inside(a, p)
    PROVE  /\ Shift(a, b, p) \in Paths /\ Inside(b, Shift(a, b, p))
           /\ Len(Shift(a, b, p)) = Len(b) + (Len(p) - Len(a))
           /\ \A i \in 1 .. Len(b) : Shift(a, b, p)[i] = b[i]
           /\ \A i \in 1 .. Len(p) - Len(a) : Shift(a, b, p)[Len(b) + i] = p[Len(a) + i]
<1> DEFINE c == SubSeq(p, Len(a) + 1, Len(p))
           q == b \o c
<1>1. /\ b \in Seq(Names) /\ p \in Seq(Names)
      /\ Len(a) \in Nat /\ Len(b) \in Nat /\ Len(p) \in Nat /\ Len(a) <= Len(p)
  BY DEF Paths, Inside
<1>2. /\ c \in Seq(Names) /\ Len(c) = Len(p) - Len(a)
      /\ \A i \in 1 .. Len(p) - Len(a) : c[i] = p[Len(a) + i]
  BY <1>1, SubSeqProperties
<1> HIDE DEF c
<1>3. /\ q \in Seq(Names) /\ Len(q) = Len(b) + Len(c)
      /\ \A i \in 1 .. Len(b) + Len(c) : q[i] = IF i <= Len(b) THEN b[i] ELSE c[i - Len(b)]
  BY <1>1, <1>2, ConcatProperties
<1> HIDE DEF q
<1>4. ASSUME NEW i \in 1 .. Len(b) PROVE q[i] = b[i]
  <2>1. i \in 1 .. Len(b) + Len(c) /\ i <= Len(b)
    BY <1>1, <1>2
  <2> QED
    BY <1>3, <2>1
<1>5. ASSUME NEW i \in 1 .. Len(p) - Len(a) PROVE q[Len(b) + i] = p[Len(a) + i]
  <2>1. /\ Len(b) + i \in 1 .. Len(b) + Len(c)
        /\ ~(Len(b) + i <= Len(b)) /\ (Len(b) + i) - Len(b) = i
    BY <1>1, <1>2
  <2> QED
    BY <1>2, <1>3, <2>1
<1>6. q \in Paths /\ Len(b) <= Len(q)
  BY <1>1, <1>2, <1>3 DEF Paths
<1>7. Inside(b, q)
  BY <1>4, <1>6, InsideByParts
<1> QED
  BY <1>2, <1>3, <1>4, <1>5, <1>6, <1>7 DEF Shift, q, c

\* Two paths with the same components are one.
LEMMA SamePath ==
    ASSUME NEW p \in Paths, NEW q \in Paths, Len(p) = Len(q),
           \A i \in 1 .. Len(p) : p[i] = q[i]
    PROVE  p = q
BY SeqEqual DEF Paths

\* Going there and back again.
LEMMA ShiftBack ==
    ASSUME NEW a \in Paths, NEW b \in Paths, NEW p \in Paths, Inside(a, p)
    PROVE  Shift(b, a, Shift(a, b, p)) = p
<1> DEFINE q == Shift(a, b, p)
           r == Shift(b, a, q)
<1>1. Len(a) \in Nat /\ Len(b) \in Nat /\ Len(p) \in Nat /\ Len(a) <= Len(p)
  BY DEF Paths, Inside
<1>2. /\ q \in Paths /\ Inside(b, q) /\ Len(q) = Len(b) + (Len(p) - Len(a))
      /\ \A i \in 1 .. Len(p) - Len(a) : q[Len(b) + i] = p[Len(a) + i]
  BY ShiftParts
<1> HIDE DEF q
<1>3. /\ r \in Paths /\ Len(r) = Len(a) + (Len(q) - Len(b))
      /\ \A i \in 1 .. Len(a) : r[i] = a[i]
      /\ \A i \in 1 .. Len(q) - Len(b) : r[Len(a) + i] = q[Len(b) + i]
  BY <1>2, ShiftParts
<1> HIDE DEF r
<1>4. Len(r) = Len(p) /\ Len(q) - Len(b) = Len(p) - Len(a)
  BY <1>1, <1>2, <1>3
<1>5. ASSUME NEW i \in 1 .. Len(r) PROVE r[i] = p[i]
  <2>1. CASE i <= Len(a)
    <3>1. i \in 1 .. Len(a)
      BY <1>1, <1>4, <2>1
    <3> QED
      BY <1>3, <3>1, InsideByParts
  <2>2. CASE ~(i <= Len(a))
    <3>1. i - Len(a) \in 1 .. Len(p) - Len(a) /\ Len(a) + (i - Len(a)) = i
      BY <1>1, <1>4, <2>2
    <3> DEFINE m == i - Len(a)
    <3>2. r[Len(a) + m] = q[Len(b) + m] /\ q[Len(b) + m] = p[Len(a) + m]
      BY <1>2, <1>3, <1>4, <3>1
    <3> QED
      BY <3>1, <3>2
  <2> QED
    BY <2>1, <2>2
<1>6. r = p
  BY <1>3, <1>4, <1>5, SamePath
<1> QED
  BY <1>6 DEF r, q

\* What is above stays above.
LEMMA ShiftInside ==
    ASSUME NEW a \in Paths, NEW b \in Paths, NEW t \in Paths, NEW p \in Paths,
           Inside(a, t), Inside(t, p)
    PROVE  Inside(Shift(a, b, t), Shift(a, b, p))
<1> DEFINE s == Shift(a, b, t)
           q == Shift(a, b, p)
<1>1. /\ Len(a) \in Nat /\ Len(b) \in Nat /\ Len(p) \in Nat /\ Len(t) \in Nat
      /\ Len(a) <= Len(t) /\ Len(t) <= Len(p) /\ Inside(a, p)
  BY InsideTrans DEF Paths, Inside
<1>2. /\ s \in Paths /\ Len(s) = Len(b) + (Len(t) - Len(a))
      /\ \A i \in 1 .. Len(b) : s[i] = b[i]
      /\ \A i \in 1 .. Len(t) - Len(a) : s[Len(b) + i] = t[Len(a) + i]
  BY ShiftParts
<1>3. /\ q \in Paths /\ Len(q) = Len(b) + (Len(p) - Len(a))
      /\ \A i \in 1 .. Len(b) : q[i] = b[i]
      /\ \A i \in 1 .. Len(p) - Len(a) : q[Len(b) + i] = p[Len(a) + i]
  BY <1>1, ShiftParts
<1> HIDE DEF s, q
<1>4. Len(s) <= Len(q)
  BY <1>1, <1>2, <1>3
<1>5. ASSUME NEW i \in 1 .. Len(s) PROVE q[i] = s[i]
  <2>1. CASE i <= Len(b)
    <3>1. i \in 1 .. Len(b)
      BY <1>1, <1>2, <2>1
    <3> QED
      BY <1>2, <1>3, <3>1
  <2>2. CASE ~(i <= Len(b))
    <3> DEFINE m == i - Len(b)
    <3>1. /\ m \in 1 .. Len(t) - Len(a) /\ m \in 1 .. Len(p) - Len(a) /\ Len(b) + m = i
          /\ Len(a) + m \in 1 .. Len(t)
      BY <1>1, <1>2, <2>2
    <3>2. q[Len(b) + m] = p[Len(a) + m] /\ s[Len(b) + m] = t[Len(a) + m]
      BY <1>2, <1>3, <3>1
    <3>3. p[Len(a) + m] = t[Len(a) + m]
      BY <3>1, InsideByParts
    <3> QED
      BY <3>1, <3>2, <3>3
  <2> QED
    BY <2>1, <2>2
<1>6. Inside(s, q)
  BY <1>2, <1>3, <1>4, <1>5, InsideByParts
<1> QED
  BY <1>6 DEF s, q

\* Of two folders above a path, one is above the other.
LEMMA AboveInLine ==
    ASSUME NEW a \in Paths, NEW b \in Paths, NEW f \in Paths, Inside(a, f), Inside(b, f)
    PROVE  Related(a, b)
<1>1. Len(a) \in Nat /\ Len(b) \in Nat /\ Len(f) \in Nat
  BY DEF Paths
<1>2. /\ \A i \in 1 .. Len(a) : f[i] = a[i]
      /\ \A i \in 1 .. Len(b) : f[i] = b[i]
  BY InsideByParts
<1>3. CASE Len(a) <= Len(b)
  <2>1. \A i \in 1 .. Len(a) : i \in 1 .. Len(b)
    BY <1>1, <1>3
  <2> QED
    BY <1>2, <1>3, <2>1, InsideByParts DEF Related
<1>4. CASE Len(b) <= Len(a)
  <2>1. \A i \in 1 .. Len(b) : i \in 1 .. Len(a)
    BY <1>1, <1>4
  <2> QED
    BY <1>2, <1>4, <2>1, InsideByParts DEF Related
<1> QED
  BY <1>1, <1>3, <1>4

\* The entry n of the directory d.
Entry(d, n) == d \o <<n>>

\* Two folders of one directory are the same or not above one another, and what
\* else is above one of them is above the other.
LEMMA InOneDirectory ==
    ASSUME NEW d \in Paths, NEW m \in Names, NEW n \in Names,
           NEW a, a = Entry(d, m), NEW b, b = Entry(d, n)
    PROVE  /\ a \in Paths /\ b \in Paths
           /\ Related(a, b) => a = b
           /\ \A t \in Paths : Inside(t, a) => t = a \/ Inside(t, b)
<1>1. /\ d \in Seq(Names) /\ Len(d) \in Nat /\ <<m>> \in Seq(Names) /\ <<n>> \in Seq(Names)
      /\ Len(<<m>>) = 1 /\ Len(<<n>>) = 1
  BY DEF Paths
<1>2. /\ a \in Seq(Names) /\ Len(a) = Len(d) + 1
      /\ \A i \in 1 .. Len(d) + 1 : a[i] = IF i <= Len(d) THEN d[i] ELSE <<m>>[i - Len(d)]
  BY <1>1, ConcatProperties DEF Entry
<1>3. /\ b \in Seq(Names) /\ Len(b) = Len(d) + 1
      /\ \A i \in 1 .. Len(d) + 1 : b[i] = IF i <= Len(d) THEN d[i] ELSE <<n>>[i - Len(d)]
  BY <1>1, ConcatProperties DEF Entry
<1>4. a \in Paths /\ b \in Paths
  BY <1>2, <1>3 DEF Paths
<1>5. \A i \in 1 .. Len(d) : i \in 1 .. Len(d) + 1 /\ i <= Len(d) /\ a[i] = d[i] /\ b[i] = d[i]
  BY <1>1, <1>2, <1>3
<1>6. ASSUME Inside(a, b) \/ Inside(b, a) PROVE a = b
  <2>1. \A i \in 1 .. Len(a) : a[i] = b[i]
    BY <1>2, <1>3, <1>4, <1>6, InsideByParts
  <2> QED
    BY <1>2, <1>3, <1>4, <2>1, SamePath
<1>7. ASSUME NEW t \in Paths, Inside(t, a) PROVE t = a \/ Inside(t, b)
  <2>0. Len(t) \in Nat /\ (Len(t) = Len(d) + 1 \/ Len(t) <= Len(d) \/ Len(t) > Len(d) + 1)
    BY <1>1 DEF Paths
  <2>1. Len(t) <= Len(a) /\ \A i \in 1 .. Len(t) : a[i] = t[i]
    BY <1>4, <1>7, InsideByParts
  <2>2. CASE Len(t) = Len(a)
    BY <1>4, <2>1, <2>2, SamePath
  <2>3. CASE Len(t) <= Len(d)
    <3>1. \A i \in 1 .. Len(t) : i \in 1 .. Len(d)
      BY <1>1, <2>1, <2>3
    <3>2. Len(t) <= Len(b) /\ \A i \in 1 .. Len(t) : b[i] = t[i]
      BY <1>1, <1>3, <1>5, <2>1, <2>3, <3>1
    <3> QED
      BY <1>4, <3>2, InsideByParts
  <2>4. Len(t) = Len(a) \/ Len(t) <= Len(d)
    <3>1. Len(a) = Len(d) + 1
      BY <1>2
    <3> QED
      BY <1>1, <2>0, <2>1, <3>1
  <2> QED
    BY <2>2, <2>3, <2>4
<1> QED
  BY <1>4, <1>6, <1>7 DEF Related

\* The row of a folder inside another is found by the beginning of its key, and
\* so is every row below.
LEMMA InsidePrefix ==
    ASSUME NEW k \in Keys, NEW f \in Paths, Inside(f, k.path), k.dir \/ Len(f) < Len(k.path)
    PROVE  HasPrefix(k, Folder(f))
<1> DEFINE n == Len(f)
           p == k.path
<1>1. p \in Paths /\ Folder(f).path = f /\ Folder(f).dir = TRUE
  BY DEF Keys, Folder
<1>2. f \in Seq(Names) /\ p \in Seq(Names) /\ n \in Nat /\ Len(p) \in Nat
  BY <1>1 DEF Paths
<1>3. n <= Len(p) /\ \A i \in 1 .. n : p[i] = f[i]
  BY <1>1, InsideByParts
<1>4. CASE n = 0
  BY <1>1, <1>4 DEF HasPrefix
<1>5. CASE n # 0
  <2> HIDE DEF p
  <2>1. /\ SubSeq(p, 1, n - 1) \in Seq(Names) /\ SubSeq(f, 1, n - 1) \in Seq(Names)
        /\ Len(SubSeq(p, 1, n - 1)) = n - 1 /\ Len(SubSeq(f, 1, n - 1)) = n - 1
        /\ \A i \in 1 .. n - 1 : SubSeq(p, 1, n - 1)[i] = p[i] /\ SubSeq(f, 1, n - 1)[i] = f[i]
    <3>1. n - 1 \in Nat /\ n - 1 <= Len(p) /\ n - 1 <= Len(f)
      BY <1>2, <1>3, <1>5
    <3> DEFINE m == n - 1
    <3> HIDE DEF m
    <3>2. m \in Nat /\ m <= Len(p) /\ m <= Len(f)
      BY <3>1 DEF m
    <3>3. /\ SubSeq(p, 1, m) \in Seq(Names) /\ SubSeq(f, 1, m) \in Seq(Names)
          /\ Len(SubSeq(p, 1, m)) = m /\ Len(SubSeq(f, 1, m)) = m
          /\ \A i \in 1 .. m : SubSeq(p, 1, m)[i] = p[i] /\ SubSeq(f, 1, m)[i] = f[i]
      BY <1>2, <3>2
    <3> QED
      BY <3>3 DEF m
  <2>2. \A i \in 1 .. n - 1 : i \in 1 .. n
    BY <1>2
  <2>3. SubSeq(p, 1, n - 1) = SubSeq(f, 1, n - 1)
    BY <1>3, <2>1, <2>2, SeqEqual
  <2>4. p[n] = f[n]
    BY <1>2, <1>3, <1>5
  <2> QED
    BY <1>1, <1>3, <1>5, <2>3, <2>4 DEF HasPrefix, p
<1> QED
  BY <1>4, <1>5

----------------------------------------------------------------------------
(* Rows and lists in step *)

Has(f) == Folder(f) \in rows
Listed(f) == \E h \in Holders : f \in lists[h]

\* What the request of v has done to one of the two only: the rows from f on are
\* gone and the lists not yet cleaned; the folder f is on a list and has no row
\* yet; f is inside the new name of a folder whose rows are there already.
GoneBy(v, f) == pc[v] = "lists" /\ Inside(job[v].folder, f)
MakingBy(v, f) == pc[v] = "row" /\ job[v].kind = "mkdir" /\ job[v].folder = f
Onto(v, f) == pc[v] = "lists" /\ job[v].kind = "rename" /\ Inside(job[v].to, f)

\* Then f follows the entry of the old name, and what tears that one.
Back(v, f) == Shift(job[v].to, job[v].folder, f)
OwedBy(v, f) == Onto(v, f) /\ Listed(Back(v, f))
MurkyBy(v, f) == Onto(v, f) /\ Torn(Back(v, f))

Gone(f) == \E v \in Users : GoneBy(v, f)
Making(f) == \E v \in Users : MakingBy(v, f)
Owed(f) == \E v \in Users : OwedBy(v, f)
Murky(f) == \E v \in Users : MurkyBy(v, f)

Agrees(f) ==
    /\ Gone(f) => ~Has(f)
    /\ Making(f) => Listed(f)
    /\ ~Gone(f) /\ ~Making(f) => (Has(f) <=> Listed(f) \/ Owed(f))

InStepAt(f) == Torn(f) \/ Murky(f) \/ Agrees(f)
InStep == \A f \in Paths : InStepAt(f)

\* What another member of the staff has on its list is on the class's as well.
StaffShare == \A h \in Staff : \A p \in lists[h] : Torn(p) \/ p \in lists[Class]

Accord == Together /\ InStep /\ StaffShare

\* Of a folder that is not torn and that a removal works on, no other request
\* moves anything there, and none makes it.
LEMMA Alone ==
    ASSUME Together, NEW u \in Users, pc[u] # "idle", Removes(job[u]),
           NEW f \in Paths, NEW a \in Targets(job[u]), Inside(a, f), ~Torn(f),
           NEW v \in Users, v # u
    PROVE  /\ ~Onto(v, f)
           /\ job[u].kind = "rename" => ~GoneBy(v, f)
           /\ a = job[u].folder => ~MakingBy(v, f)
<1>1. /\ job[u] \in JobType /\ Kept(job[u], pc[u]) /\ a \in Paths
      /\ job[v] \in JobType
  BY InFlight DEF Together, Inv, TypeOK, JobType
<1>2. pc[v] # "idle" => ~Clash(job[u], job[v])
  <2>1. a \notin torn
    BY DEF Torn
  <2> QED
    BY <2>1 DEF Together, Noticed
<1>3. ASSUME NEW b \in Targets(job[v]), Inside(b, f), pc[v] # "idle", Removes(job[v]),
             "rename" \in {job[u].kind, job[v].kind}
      PROVE  FALSE
  <2>1. b \in Paths
    BY <1>1 DEF Targets, JobType
  <2>2. Related(a, b)
    BY <1>1, <1>3, <2>1, AboveInLine
  <2> QED
    BY <1>2, <1>3, <2>2 DEF Clash
<1>4. ~Onto(v, f)
  BY <1>3 DEF Onto, Targets, Removes
<1>5. job[u].kind = "rename" => ~GoneBy(v, f)
  <2>1. pc[v] = "lists" => Removes(job[v]) /\ job[v].folder \in Targets(job[v])
    BY DEF Together, Inv, AtWork, Kept, Removes, Targets
  <2> QED
    BY <1>3, <2>1 DEF GoneBy
<1>6. a = job[u].folder => ~MakingBy(v, f)
  BY <1>2 DEF MakingBy, Clash, Removes
<1> QED
  BY <1>4, <1>5, <1>6

\* Where the request of u may change the lists.
Touches(u, p) ==
    /\ pc[u] # "idle"
    /\ \/ Removes(job[u]) /\ \E a \in Targets(job[u]) : Inside(a, p)
       \/ job[u].kind = "mkdir" /\ p = job[u].folder

\* An entry that another request has yet to move is not touched, or its new
\* name is torn.
LEMMA OthersEntries ==
    ASSUME Together, NEW u \in Users, NEW v \in Users, v # u,
           NEW f \in Paths, ~Torn(f), Onto(v, f), NEW p, p = Back(v, f)
    PROVE  p \in Paths /\ ~Touches(u, p)
<1>1. /\ job[v] \in JobType /\ job[v].folder \in Paths /\ job[v].to \in Paths
      /\ pc[v] # "idle" /\ job[v].kind = "rename" /\ Inside(job[v].to, f)
      /\ job[u] \in JobType /\ job[u].folder \in Paths /\ Targets(job[u]) \subseteq Paths
  BY DEF Together, Inv, TypeOK, JobType, Onto, Targets
<1>2. p \in Paths /\ Inside(job[v].folder, p)
  BY <1>1, ShiftParts DEF Back
<1>3. pc[u] # "idle" => ~Clash(job[u], job[v])
  <2>1. job[v].to \in Targets(job[v]) /\ job[v].to \notin torn
    BY <1>1 DEF Targets, Torn
  <2> QED
    BY <1>1, <2>1 DEF Together, Noticed
<1>4. ASSUME pc[u] # "idle", Removes(job[u]), NEW a \in Targets(job[u]), Inside(a, p) PROVE FALSE
  <2>1. Related(a, job[v].folder)
    BY <1>1, <1>2, <1>4, AboveInLine
  <2>2. Clash(job[u], job[v])
    BY <1>1, <1>4, <2>1 DEF Clash, Removes, Targets
  <2> QED
    BY <1>3, <1>4, <2>2
<1>5. ASSUME pc[u] # "idle", job[u].kind = "mkdir", p = job[u].folder PROVE FALSE
  BY <1>1, <1>2, <1>3, <1>5 DEF Clash, Removes
<1> QED
  BY <1>2, <1>4, <1>5 DEF Touches

\* A step of u, seen from the requests of the others.
StepOf(u) ==
    /\ torn \subseteq torn'
    /\ \A v \in Users : v # u => pc'[v] = pc[v] /\ job'[v] = job[v]
    /\ \A p \in Paths : Touches(u, p) \/ (Listed(p)' <=> Listed(p))

\* It leaves alone what they have to do.
LEMMA OthersSame ==
    ASSUME Together, NEW u \in Users, StepOf(u), NEW f \in Paths, ~Torn(f)',
           NEW v \in Users, v # u
    PROVE  /\ GoneBy(v, f)' <=> GoneBy(v, f)
           /\ MakingBy(v, f)' <=> MakingBy(v, f)
           /\ Onto(v, f)' <=> Onto(v, f)
           /\ OwedBy(v, f)' <=> OwedBy(v, f)
           /\ MurkyBy(v, f) => MurkyBy(v, f)'
<1>1. pc'[v] = pc[v] /\ job'[v] = job[v]
  BY DEF StepOf
<1>2. ~Torn(f)
  BY DEF StepOf, Torn
<1>3. /\ GoneBy(v, f)' <=> GoneBy(v, f)
      /\ MakingBy(v, f)' <=> MakingBy(v, f)
      /\ Onto(v, f)' <=> Onto(v, f)
  BY <1>1 DEF GoneBy, MakingBy, Onto
<1>4. PICK p : p = Back(v, f)
  OBVIOUS
<1>5. Back(v, f)' = p
  BY <1>1, <1>4 DEF Back
<1>6. Onto(v, f) => (Listed(p)' <=> Listed(p))
  BY <1>2, <1>4, OthersEntries DEF StepOf
<1>7. OwedBy(v, f)' <=> Onto(v, f)' /\ Listed(p)'
  BY <1>5 DEF OwedBy, Listed
<1>8. MurkyBy(v, f)' <=> Onto(v, f)' /\ Torn(p)'
  BY <1>5 DEF MurkyBy, Torn
<1>9. Torn(p) => Torn(p)'
  BY DEF StepOf, Torn
<1> QED
  BY <1>3, <1>4, <1>6, <1>7, <1>8, <1>9 DEF OwedBy, MurkyBy

\* Where the request of u has no part, before or after its step.
Apart(u, f) == ~GoneBy(u, f) /\ ~MakingBy(u, f) /\ ~Onto(u, f)

\* Where the step changes neither row nor lists, and u has no part, all stays.
LEMMA Unmoved ==
    ASSUME Together, NEW u \in Users, StepOf(u), NEW f \in Paths, InStepAt(f),
           Apart(u, f), Apart(u, f)', Has(f)' <=> Has(f), Listed(f)' <=> Listed(f)
    PROVE  InStepAt(f)'
<1>1. SUFFICES ASSUME ~Torn(f)' PROVE InStepAt(f)'
  BY DEF InStepAt
<1>2. ~Torn(f)
  BY <1>1 DEF StepOf, Torn
<1>3. ASSUME NEW v \in Users
      PROVE  /\ GoneBy(v, f)' <=> GoneBy(v, f)
             /\ MakingBy(v, f)' <=> MakingBy(v, f)
             /\ OwedBy(v, f)' <=> OwedBy(v, f)
             /\ MurkyBy(v, f) => MurkyBy(v, f)'
  <2>1. CASE v # u
    BY <1>1, <2>1, OthersSame
  <2>2. CASE v = u
    BY <2>2 DEF Apart, OwedBy, MurkyBy
  <2> QED
    BY <2>1, <2>2
<1>4. /\ Gone(f)' <=> Gone(f)
      /\ Making(f)' <=> Making(f)
      /\ Owed(f)' <=> Owed(f)
      /\ Murky(f) => Murky(f)'
  BY <1>3 DEF Gone, Making, Owed, Murky
<1> QED
  BY <1>2, <1>4 DEF InStepAt, Agrees

\* What a step of a request that goes on, or ends, is for the others.
LEMMA WorkIsStep ==
    ASSUME Together, NEW u \in Users, Works(u), NEW step, Goto(u, step),
           \A p \in Paths : Touches(u, p) \/ (Listed(p)' <=> Listed(p))
    PROVE  /\ StepOf(u) /\ pc'[u] = step /\ (step # "idle" => job'[u] = job[u])
           /\ step = "idle" => \A f : Apart(u, f)'
<1>1. StepOf(u)
  BY OthersWork DEF Together, Inv, Works, StepOf
<1>2. pc'[u] = step /\ (step # "idle" => job'[u] = job[u])
  BY DEF Goto, Together, Inv, TypeOK
<1>3. step = "idle" => \A f : Apart(u, f)'
  BY <1>2 DEF Apart, GoneBy, MakingBy, Onto
<1> QED
  BY <1>1, <1>2, <1>3

\* Where neither the folder nor its new name is above.
LEMMA Elsewhere ==
    ASSUME NEW u \in Users, Removes(job[u]), NEW f, \A a \in Targets(job[u]) : ~Inside(a, f)
    PROVE  Apart(u, f)
BY DEF Apart, GoneBy, MakingBy, Onto, Removes, Targets

\* Requests that start, and steps that do nothing to folders.
LEMMA QuietStep ==
    ASSUME Together, InStep, NEW u \in Users, StepOf(u), lists' = lists,
           \A f \in Paths : Has(f)' <=> Has(f),
           \A f \in Paths : Apart(u, f) /\ Apart(u, f)'
    PROVE  InStep'
<1>1. ASSUME NEW f \in Paths PROVE InStepAt(f)'
  <2>1. Listed(f)' <=> Listed(f)
    BY DEF Listed
  <2> QED
    BY <2>1, Unmoved DEF InStep
<1> QED
  BY <1>1 DEF InStep

\* A request that starts has done nothing yet.
LEMMA StartKeeps ==
    ASSUME Together, InStep, NEW u \in Users, Starts(u)
    PROVE  InStep'
<1>1. PICK j \in JobType, step \in {"list", "row", "rows"} :
         Start(u, j, step) /\ (step = "row" => j.kind = "upload")
  BY DEF Starts
<1>2. \A v \in Users : \/ v = u /\ pc[v] = "idle" /\ job'[v] = j /\ pc'[v] = step
                       \/ v # u /\ job'[v] = job[v] /\ pc'[v] = pc[v]
  BY <1>1, OthersStart DEF Together, Inv
<1>3. torn \subseteq torn' /\ rows' = rows /\ lists' = lists
  BY <1>1 DEF Start
<1>4. StepOf(u)
  BY <1>2, <1>3 DEF StepOf, Listed
<1>5. \A f \in Paths : Apart(u, f) /\ Apart(u, f)'
  BY <1>1, <1>2 DEF Apart, GoneBy, MakingBy, Onto
<1>6. \A f \in Paths : Has(f)' <=> Has(f)
  BY <1>3 DEF Has
<1> QED
  BY <1>3, <1>4, <1>5, <1>6, QuietStep

\* cd changes neither.
LEMMA EnterKeeps ==
    ASSUME Together, InStep, NEW u \in Users, ChangeDirectory(u)
    PROVE  InStep'
<1>1. /\ pc[u] = "idle" /\ UNCHANGED <<rows, lists, pc, job>> /\ torn \subseteq torn'
  BY DEF ChangeDirectory, Enters
<1>2. StepOf(u)
  BY <1>1 DEF StepOf, Listed
<1>3. \A f \in Paths : Apart(u, f) /\ Apart(u, f)'
  BY <1>1 DEF Apart, GoneBy, MakingBy, Onto
<1>4. \A f \in Paths : Has(f)' <=> Has(f)
  BY <1>1 DEF Has
<1> QED
  BY <1>1, <1>2, <1>3, <1>4, QuietStep

\* mkdir puts the folder on the list: now it is being made, or torn.
LEMMA ListKeeps ==
    ASSUME Together, InStep, NEW u \in Users, AppendToList(u)
    PROVE  InStep'
<1>1. /\ pc[u] = "list" /\ rows' = rows
      /\ lists' = [h \in Holders |-> IF h \in job[u].whose THEN lists[h] \cup {job[u].folder}
                                     ELSE lists[h]]
  BY DEF AppendToList
<1>2. /\ job[u] \in JobType /\ Kept(job[u], pc[u]) /\ job[u].kind = "mkdir"
      /\ Works(u) /\ Inv /\ TypeOK
  BY <1>1, InFlight, ListWorks DEF Together, Inv, Kept
<1> DEFINE a == job[u].folder
<1>3. a \in Paths /\ job[u].whose # {} /\ job[u].whose \subseteq Holders
  BY <1>2 DEF JobType, Kept
<1>4. \A p \in Paths : p # a => (Listed(p)' <=> Listed(p))
  BY <1>1 DEF Listed
<1>5. \A p \in Paths : Touches(u, p) \/ (Listed(p)' <=> Listed(p))
  BY <1>1, <1>2, <1>4 DEF Touches
<1>6. PICK step \in {"row", "idle"} :
         Goto(u, step) /\ (step = "idle" => torn' = torn \cup Targets(job[u]))
  BY DEF AppendToList, Breaks
<1>7. /\ StepOf(u) /\ pc'[u] = step /\ (step # "idle" => job'[u] = job[u])
      /\ (step = "idle" => \A f : Apart(u, f)')
  BY <1>2, <1>5, <1>6, WorkIsStep
<1>8. \A f : Apart(u, f)
  BY <1>1 DEF Apart, GoneBy, MakingBy, Onto
<1>9. \A f \in Paths : Has(f)' <=> Has(f)
  BY <1>1 DEF Has
<1>10. ASSUME NEW f \in Paths, f # a PROVE InStepAt(f)'
  <2>1. Apart(u, f)'
    BY <1>2, <1>6, <1>7, <1>10 DEF Apart, GoneBy, MakingBy, Onto
  <2> QED
    BY <1>4, <1>7, <1>8, <1>9, <1>10, <2>1, Unmoved DEF InStep
<1>11. ASSUME NEW f \in Paths, f = a PROVE InStepAt(f)'
  <2>1. SUFFICES ASSUME ~Torn(f)' PROVE InStepAt(f)'
    BY DEF InStepAt
  <2>2. step = "row"
    <3>1. step = "idle" => f \in torn'
      BY <1>2, <1>6, <1>11 DEF Targets
    <3> QED
      BY <1>6, <2>1, <3>1, InsideRefl DEF Torn
  <2>3. ~Torn(f)
    BY <1>7, <2>1 DEF StepOf, Torn
  <2>4. MakingBy(u, f)'
    BY <1>2, <1>7, <1>11, <2>2 DEF MakingBy
  <2>5. Listed(f)'
    <3>1. PICK h \in Holders : h \in job[u].whose
      BY <1>3
    <3>2. f \in lists'[h]
      BY <1>1, <1>11, <3>1
    <3> QED
      BY <3>2 DEF Listed
  <2>6. ASSUME NEW v \in Users, GoneBy(v, f)' PROVE GoneBy(v, f)
    <3>1. v # u
      BY <1>7, <2>2, <2>6 DEF GoneBy
    <3> QED
      BY <1>7, <2>1, <2>6, <3>1, OthersSame
  <2>7. Murky(f) => Murky(f)'
    <3>1. ASSUME NEW v \in Users, MurkyBy(v, f) PROVE MurkyBy(v, f)'
      <4>1. v # u
        BY <1>8, <3>1 DEF Apart, MurkyBy
      <4> QED
        BY <1>7, <2>1, <3>1, <4>1, OthersSame
    <3> QED
      BY <3>1 DEF Murky
  <2>8. Murky(f) \/ Agrees(f)
    BY <2>3 DEF InStep, InStepAt
  <2>9. Agrees(f) => Agrees(f)'
    BY <1>9, <2>4, <2>5, <2>6 DEF Agrees, Gone, Making
  <2> QED
    BY <2>7, <2>8, <2>9 DEF InStepAt
<1> QED
  BY <1>10, <1>11 DEF InStep

\* Whoever else tears or moves f keeps doing so.
LEMMA StaysMurky ==
    ASSUME Together, NEW u \in Users, StepOf(u), NEW f \in Paths, ~Torn(f)', ~MurkyBy(u, f), Murky(f)
    PROVE  Murky(f)'
<1>1. PICK v \in Users : MurkyBy(v, f)
  BY DEF Murky
<1>2. v # u
  BY <1>1
<1> QED
  BY <1>1, <1>2, OthersSame DEF Murky

\* A file's row, put, moved or deleted, is no folder's; mkdir puts the row of a
\* folder that is on a list.
LEMMA RowKeeps ==
    ASSUME Together, InStep, NEW u \in Users, PutRow(u) \/ FileRow(u)
    PROVE  InStep'
<1>1. /\ pc[u] \in {"row", "rows"} /\ lists' = lists /\ torn' = torn /\ Goto(u, "idle")
  BY DEF PutRow, FileRow
<1>2. /\ job[u] \in JobType /\ Kept(job[u], pc[u]) /\ Works(u)
  BY <1>1, InFlight, RowWorks DEF Together
<1>3. \A p : Listed(p)' <=> Listed(p)
  BY <1>1 DEF Listed
<1>4. StepOf(u) /\ \A f : Apart(u, f)'
  BY <1>1, <1>2, <1>3, WorkIsStep
<1>5. CASE job[u].kind # "mkdir"
  <2>1. \A f \in Paths : Apart(u, f)
    BY <1>1, <1>5 DEF Apart, GoneBy, MakingBy, Onto
  <2>2. job[u].key = File(job[u].key.path)
    BY <1>1, <1>2, <1>5 DEF Kept, PutRow, FileRow
  <2>3. \A p, q : File(p) # Folder(q)
    BY DEF File, Folder
  <2>4. \A k : k \in rows' /\ k \notin rows => \E p : k = File(p)
    BY <2>2 DEF PutRow, FileRow
  <2>5. \A k : k \notin rows' /\ k \in rows => \E p : k = File(p)
    BY <2>2 DEF PutRow, FileRow
  <2>6. \A f \in Paths : Has(f)' <=> Has(f)
    BY <2>3, <2>4, <2>5 DEF Has
  <2> QED
    BY <1>1, <1>4, <2>1, <2>6, QuietStep
<1>6. CASE job[u].kind = "mkdir"
  <2> DEFINE a == job[u].folder
  <2>1. /\ pc[u] = "row" /\ rows' = rows \cup {Folder(a)} /\ a \in Paths
    BY <1>1, <1>2, <1>6 DEF PutRow, FileRow, Kept, JobType
  <2>2. \A f \in Paths : f # a => (Has(f)' <=> Has(f)) /\ Apart(u, f)
    BY <2>1 DEF Has, Folder, Apart, GoneBy, MakingBy, Onto
  <2>3. ASSUME NEW f \in Paths, f # a PROVE InStepAt(f)'
    BY <1>3, <1>4, <2>2, <2>3, Unmoved DEF InStep
  <2>4. ASSUME NEW f \in Paths, f = a PROVE InStepAt(f)'
    <3>1. SUFFICES ASSUME ~Torn(f)' PROVE InStepAt(f)'
      BY DEF InStepAt
    <3>2. ~Torn(f)
      BY <1>4, <3>1 DEF StepOf, Torn
    <3>3. MakingBy(u, f) /\ ~MurkyBy(u, f) /\ ~GoneBy(u, f) /\ Has(f)'
      BY <1>6, <2>1, <2>4 DEF MakingBy, MurkyBy, Onto, GoneBy, Has
    <3>4. ASSUME NEW v \in Users, GoneBy(v, f)' PROVE FALSE
      <4>1. v # u
        BY <1>4, <3>4 DEF Apart
      <4>2. GoneBy(v, f)
        BY <1>4, <3>1, <3>4, <4>1, OthersSame
      <4>3. pc[v] # "idle" /\ Removes(job[v])
        BY <4>2 DEF GoneBy, Together, Inv, AtWork, Kept, Removes
      <4>4. Clash(job[v], job[u])
        BY <1>6, <2>4, <4>2, <4>3 DEF Clash, GoneBy, Removes
      <4>5. a \in torn
        BY <1>1, <1>6, <4>1, <4>3, <4>4 DEF Together, Noticed, Targets
      <4> QED
        BY <2>4, <3>2, <4>5, InsideRefl DEF Torn
    <3>5. Agrees(f) => Agrees(f)'
      BY <1>3, <3>3, <3>4 DEF Agrees, Gone, Making
    <3> QED
      BY <1>4, <3>1, <3>2, <3>3, <3>5, StaysMurky DEF InStep, InStepAt
  <2> QED
    BY <2>3, <2>4 DEF InStep
<1> QED
  BY <1>5, <1>6

\* A request that ends half done tears what it works on.
LEMMA FailKeeps ==
    ASSUME Together, InStep, NEW u \in Users, Fails(u)
    PROVE  InStep'
<1>1. /\ pc[u] # "idle" /\ rows' = rows /\ lists' = lists /\ Goto(u, "idle")
      /\ \/ torn' = torn \cup Targets(job[u])
         \/ pc[u] # "lists" /\ ~(pc[u] = "row" /\ job[u].kind = "mkdir")
  BY DEF Fails, Breaks
<1>2. Works(u) /\ Kept(job[u], pc[u]) /\ job[u] \in JobType
  BY <1>1, FailWorks, InFlight DEF Together
<1>3. \A p : (Listed(p)' <=> Listed(p)) /\ (Has(p)' <=> Has(p))
  BY <1>1 DEF Listed, Has
<1>4. StepOf(u) /\ \A f : Apart(u, f)'
  BY <1>1, <1>2, <1>3, WorkIsStep
<1>5. ASSUME NEW f \in Paths, ~Apart(u, f) PROVE Torn(f)'
  <2>1. \E a \in Targets(job[u]) : Inside(a, f)
    BY <1>2, <1>5, InsideRefl DEF Apart, GoneBy, MakingBy, Onto, Targets
  <2>2. torn' = torn \cup Targets(job[u])
    BY <1>1, <1>5 DEF Apart, GoneBy, MakingBy, Onto
  <2> QED
    BY <2>1, <2>2 DEF Torn
<1>6. ASSUME NEW f \in Paths PROVE InStepAt(f)'
  BY <1>3, <1>4, <1>5, Unmoved DEF InStep, InStepAt
<1> QED
  BY <1>6 DEF InStep

\* Deleting the rows of a folder: what is inside has none, or is torn.
LEMMA DropKeeps ==
    ASSUME Together, InStep, NEW u \in Users, DropRows(u)
    PROVE  InStep'
<1> DEFINE g == job[u].folder
<1>1. /\ pc[u] = "rows" /\ job[u].kind = "delete" /\ lists' = lists
      /\ rows' \subseteq rows /\ rows \ rows' \subseteq Found(u)
      /\ \/ rows' = rows \ Found(u) /\ Goto(u, "lists")
         \/ torn' = torn \cup Targets(job[u]) /\ Goto(u, "idle")
  BY DEF DropRows, Breaks
<1>2. /\ Works(u) /\ Kept(job[u], pc[u]) /\ job[u] \in JobType /\ Removes(job[u])
      /\ g \in Paths /\ Targets(job[u]) = {g} /\ job[u].key = Folder(g) /\ Inv
  BY <1>1, DropWorks, InFlight DEF Together, Kept, JobType, Removes, Targets
<1>3. \A p : Listed(p)' <=> Listed(p)
  BY <1>1 DEF Listed
<1>4. PICK step \in {"idle", "lists"} :
         /\ Goto(u, step)
         /\ step = "idle" => torn' = torn \cup {g}
         /\ step = "lists" => rows' = rows \ Found(u)
  BY <1>1, <1>2
<1>5. /\ StepOf(u) /\ pc'[u] = step /\ (step # "idle" => job'[u] = job[u])
      /\ (step = "idle" => \A f : Apart(u, f)')
  BY <1>2, <1>3, <1>4, WorkIsStep
<1>6. \A f : Apart(u, f)
  BY <1>1 DEF Apart, GoneBy, MakingBy, Onto
<1>7. ASSUME NEW f \in Paths, ~Inside(g, f) PROVE InStepAt(f)'
  <2>1. Folder(f) \in rows => Folder(f) \notin Found(u)
    <3>1. Folder(f).path = f
      BY DEF Folder
    <3> QED
      BY <1>1, <1>2, <1>7, <3>1, FoundRows
  <2>2. Has(f)' <=> Has(f)
    BY <1>1, <2>1 DEF Has
  <2>3. Apart(u, f)'
    BY <1>1, <1>5, <1>7, <1>4 DEF Apart, GoneBy, MakingBy, Onto
  <2> QED
    BY <1>3, <1>5, <1>6, <1>7, <2>2, <2>3, Unmoved DEF InStep
<1>8. ASSUME NEW f \in Paths, Inside(g, f) PROVE InStepAt(f)'
  <2>1. SUFFICES ASSUME ~Torn(f)' PROVE InStepAt(f)'
    BY DEF InStepAt
  <2>2. step = "lists" /\ ~Torn(f)
    BY <1>4, <1>5, <1>8, <2>1 DEF Torn, StepOf
  <2>3. Gone(f)'
    BY <1>5, <1>8, <2>2 DEF Gone, GoneBy
  <2>4. ~Has(f)'
    <3>1. Folder(f) \in Keys /\ Folder(f).path = f /\ Folder(f).dir
      BY DEF Folder, Keys
    <3>2. Folder(f) \in rows => Folder(f) \in Found(u)
      BY <1>2, <1>8, <3>1, InsidePrefix DEF Found
    <3> QED
      BY <1>4, <2>2, <3>2 DEF Has
  <2>5. ASSUME NEW v \in Users, MakingBy(v, f)' PROVE MakingBy(v, f)
    <3>1. v # u
      BY <1>5, <2>2, <2>5 DEF MakingBy
    <3> QED
      BY <1>5, <2>1, <2>5, <3>1, OthersSame
  <2>6. Agrees(f) => Agrees(f)'
    BY <1>3, <2>3, <2>4, <2>5 DEF Agrees, Making
  <2>7. ~MurkyBy(u, f)
    BY <1>6 DEF Apart, MurkyBy
  <2> QED
    BY <1>5, <2>1, <2>2, <2>6, <2>7, StaysMurky DEF InStep, InStepAt
<1> QED
  BY <1>7, <1>8 DEF InStep

\* Taking a folder off all lists: nothing is left of it, or it is torn.
LEMMA CleanKeeps ==
    ASSUME Together, InStep, NEW u \in Users, CleanLists(u)
    PROVE  InStep'
<1> DEFINE g == job[u].folder
<1>1. /\ pc[u] = "lists" /\ job[u].kind = "delete" /\ rows' = rows
      /\ Works(u) /\ Kept(job[u], pc[u]) /\ job[u] \in JobType /\ Removes(job[u])
      /\ g \in Paths /\ Targets(job[u]) = {g} /\ Inv
  BY CleanWorks, InFlight DEF CleanLists, Together, JobType, Removes, Targets
<1>2. PICK n \in 0 .. Len(Order) :
         /\ lists' = [h \in Holders |->
                         IF \E i \in 1 .. n : Order[i] = h
                         THEN {f \in lists[h] : ~Inside(g, f)} ELSE lists[h]]
         /\ n = Len(Order) \/ torn' = torn \cup {g}
         /\ Goto(u, "idle")
  BY <1>1 DEF CleanLists, Breaks
<1>3. \A f : ~Inside(g, f) => (Listed(f)' <=> Listed(f))
  BY <1>2 DEF Listed
<1>4. \A p \in Paths : Touches(u, p) \/ (Listed(p)' <=> Listed(p))
  BY <1>1, <1>3 DEF Touches
<1>5. StepOf(u) /\ pc'[u] = "idle" /\ \A f : Apart(u, f)'
  BY <1>1, <1>2, <1>4, WorkIsStep
<1>6. \A f : Has(f)' <=> Has(f)
  BY <1>1 DEF Has
<1>7. ASSUME NEW f \in Paths, ~Inside(g, f) PROVE InStepAt(f)'
  <2>1. Apart(u, f)
    BY <1>1, <1>7, Elsewhere
  <2> QED
    BY <1>3, <1>5, <1>6, <1>7, <2>1, Unmoved DEF InStep
<1>8. ASSUME NEW f \in Paths, Inside(g, f) PROVE InStepAt(f)'
  <2>1. SUFFICES ASSUME ~Torn(f)' PROVE InStepAt(f)'
    BY DEF InStepAt
  <2>2. n = Len(Order) /\ ~Torn(f)
    BY <1>2, <1>5, <1>8, <2>1 DEF Torn, StepOf
  <2>3. ~Listed(f)'
    BY <1>2, <1>8, <2>2, ClassroomAssumption DEF Listed
  <2>4. ASSUME NEW v \in Users PROVE ~Onto(v, f) /\ ~MakingBy(v, f) /\ ~Onto(v, f)' /\ ~MakingBy(v, f)'
    <3>1. CASE v = u
      BY <1>1, <1>5, <3>1 DEF Onto, MakingBy
    <3>2. CASE v # u
      <4>1. ~Onto(v, f) /\ ~MakingBy(v, f)
        BY <1>1, <1>8, <2>2, <3>2, Alone
      <4> QED
        BY <1>5, <2>1, <3>2, <4>1, OthersSame
    <3> QED
      BY <3>1, <3>2
  <2>5. ~Murky(f) /\ ~Making(f)' /\ ~Owed(f)'
    BY <2>4 DEF Murky, MurkyBy, Making, Owed, OwedBy
  <2>6. Gone(f)
    BY <1>1, <1>8 DEF Gone, GoneBy
  <2> QED
    BY <1>6, <2>2, <2>3, <2>5, <2>6 DEF InStep, InStepAt, Agrees
<1> QED
  BY <1>7, <1>8 DEF InStep

\* A folder and its new name are in one directory.
LEMMA Siblings ==
    ASSUME Together, RenamesOneName, NEW u \in Users, pc[u] # "idle", job[u].kind = "rename",
           NEW g, g = job[u].folder, NEW t, t = job[u].to
    PROVE  /\ g \in Paths /\ t \in Paths /\ Targets(job[u]) = {g, t} /\ Removes(job[u])
           /\ job[u] \in JobType /\ Kept(job[u], pc[u]) /\ job[u].key = Folder(g)
           /\ \A p \in Paths : Inside(p, g) => p = g \/ Inside(p, t)
           /\ \A f \in Paths : ~Torn(f) /\ Inside(g, f) => ~Inside(t, f)
<1>1. /\ job[u] \in JobType /\ Kept(job[u], pc[u]) /\ Place(dir[u], job[u])
      /\ dir[u] \in Paths
  BY InFlight DEF Together, Placed, Inv, TypeOK
<1>d. PICK d \in Paths : d = dir[u]
  BY <1>1
<1>2. PICK m \in Names : g = Entry(d, m)
  BY <1>1, <1>d DEF Place, Entry
<1>3. PICK n \in Names : t = Entry(d, n)
  BY <1>1, <1>d DEF Place, Entry
<1>4. /\ g \in Paths /\ t \in Paths
      /\ Related(g, t) => g = t
      /\ \A p \in Paths : Inside(p, g) => p = g \/ Inside(p, t)
  BY <1>2, <1>3, InOneDirectory
<1>5. Targets(job[u]) = {g, t} /\ Removes(job[u]) /\ job[u].key = Folder(g)
  BY <1>1 DEF Targets, Removes, Kept
<1>6. ASSUME NEW f \in Paths, ~Torn(f), Inside(g, f), Inside(t, f) PROVE FALSE
  <2>1. g = t
    BY <1>4, <1>6, AboveInLine
  <2>2. g \in torn
    BY <1>5, <2>1 DEF Together, OntoItself
  <2> QED
    BY <1>6, <2>2 DEF Torn
<1> QED
  BY <1>1, <1>4, <1>5, <1>6

\* Where a path inside the new name comes from.
LEMMA Origin ==
    ASSUME Together, RenamesOneName, NEW u \in Users, pc[u] # "idle", job[u].kind = "rename",
           NEW f \in Paths, Inside(job[u].to, f), NEW b, b = Back(u, f)
    PROVE  /\ b \in Paths /\ Inside(job[u].folder, b) /\ Moved(job[u], b) = f
           /\ \A p \in Paths : Inside(job[u].folder, p) /\ Moved(job[u], p) = f => p = b
<1> DEFINE g == job[u].folder
           t == job[u].to
<1>1. g \in Paths /\ t \in Paths
  BY Siblings
<1>2. \A p : Moved(job[u], p) = Shift(g, t, p)
  BY DEF Moved, Shift
<1>3. b = Shift(t, g, f)
  BY DEF Back
<1> HIDE DEF g, t
<1>4. Inside(t, f)
  BY DEF t
<1>5. b \in Paths /\ Inside(g, b) /\ Shift(g, t, b) = f
  BY <1>1, <1>3, <1>4, ShiftParts, ShiftBack
<1>6. ASSUME NEW p \in Paths, Inside(g, p), Shift(g, t, p) = f PROVE p = b
  BY <1>1, <1>3, <1>6, ShiftBack
<1> QED
  BY <1>2, <1>5, <1>6 DEF g

\* The rows of folders after a rename of some or all that were found.
LEMMA RowsAfter ==
    ASSUME Together, RenamesOneName, NEW u \in Users, pc[u] = "rows", job[u].kind = "rename",
           NEW done \in SUBSET Found(u), rows' = RowsRenamed(job[u], done), NEW f \in Paths
    PROVE  /\ ~Inside(job[u].folder, f) /\ ~Inside(job[u].to, f) => (Has(f)' <=> Has(f))
           /\ done = Found(u) /\ Inside(job[u].folder, f) /\ ~Inside(job[u].to, f) => ~Has(f)'
           /\ done = Found(u) /\ Inside(job[u].to, f) /\ ~Inside(job[u].folder, f)
                 => (Has(f)' <=> Has(f) \/ Has(Back(u, f)))
<1> DEFINE g == job[u].folder
           t == job[u].to
           new(k) == [k EXCEPT !.path = Moved(job[u], k.path)]
<1>1. rows' = (rows \cup {new(k) : k \in done}) \ done
  BY DEF RowsRenamed
<1>2. /\ g \in Paths /\ t \in Paths /\ Removes(job[u]) /\ job[u].key = Folder(g)
      /\ job[u] \in JobType
  BY Siblings
<1>3. ASSUME NEW k \in Found(u)
      PROVE  /\ k \in rows /\ k.path \in Paths /\ Inside(g, k.path)
             /\ new(k).path = Moved(job[u], k.path) /\ new(k).dir = k.dir
             /\ Inside(t, Moved(job[u], k.path))
             /\ k.dir => k = Folder(k.path)
  <2>1. k \in rows /\ k.path \in Paths /\ Inside(g, k.path) /\ k \in RowType
    BY <1>2, FoundRows DEF Together
  <2>2. Inside(t, Moved(job[u], k.path))
    BY <1>2, <2>1, MovedPath
  <2> QED
    BY <2>1, <2>2 DEF RowType, Folder
<1>4. Folder(f).path = f /\ Folder(f).dir /\ Folder(f) \in Keys
  BY DEF Folder, Keys
<1>5. ASSUME NEW p \in Paths, Inside(g, p), Has(p) PROVE Folder(p) \in Found(u)
  <2>1. Folder(p) \in Keys /\ Folder(p).path = p /\ Folder(p).dir
    BY DEF Folder, Keys
  <2> QED
    BY <1>2, <1>5, <2>1, InsidePrefix DEF Found, Has
<1> HIDE DEF new
<1>6. ASSUME NEW k \in done, new(k) = Folder(f) PROVE Inside(t, f) /\ k.dir /\ Moved(job[u], k.path) = f
  BY <1>3, <1>4, <1>6
<1>7. Folder(f) \in done => Inside(g, f)
  BY <1>3, <1>4
<1>8. ~Inside(g, f) /\ ~Inside(t, f) => (Has(f)' <=> Has(f))
  BY <1>1, <1>6, <1>7 DEF Has
<1>9. done = Found(u) /\ Inside(g, f) /\ ~Inside(t, f) => ~Has(f)'
  BY <1>1, <1>5, <1>6 DEF Has
<1>10. ASSUME done = Found(u), Inside(t, f), ~Inside(g, f), NEW b, b = Back(u, f)
       PROVE  Has(f)' <=> Has(f) \/ Has(b)
  <2>1. /\ b \in Paths /\ Inside(g, b) /\ Moved(job[u], b) = f
        /\ \A p \in Paths : Inside(g, p) /\ Moved(job[u], p) = f => p = b
    BY <1>10, Origin
  <2>2. ASSUME NEW k \in done, new(k) = Folder(f) PROVE Has(b)
    <3>1. k.path = b /\ k = Folder(b) /\ k \in rows
      BY <1>3, <1>6, <2>1, <2>2
    <3> QED
      BY <3>1 DEF Has
  <2>3. Has(b) => \E k \in done : new(k) = Folder(f)
    <3>1. new(Folder(b)) = Folder(f)
      <4>1. Folder(b).path = b /\ Folder(b) = [path |-> b, dir |-> TRUE]
        BY DEF Folder
      <4>2. new(Folder(b)) = [Folder(b) EXCEPT !.path = f]
        BY <2>1, <4>1 DEF new
      <4> QED
        BY <4>1, <4>2 DEF Folder
    <3> QED
      BY <1>5, <1>10, <2>1, <3>1
  <2> QED
    BY <1>1, <1>7, <1>10, <2>2, <2>3 DEF Has
<1> QED
  BY <1>8, <1>9, <1>10 DEF Has

\* Moving the rows of a folder: none is left under the old name, and under the
\* new one the rows are there and the entries to come.
LEMMA MoveKeeps ==
    ASSUME Together, InStep, RenamesOneName, NEW u \in Users, MoveRows(u)
    PROVE  InStep'
<1> DEFINE g == job[u].folder
           t == job[u].to
<1>1. /\ pc[u] = "rows" /\ job[u].kind = "rename" /\ lists' = lists /\ Works(u)
  BY MoveWorks DEF MoveRows, Together
<1>2. /\ g \in Paths /\ t \in Paths /\ Targets(job[u]) = {g, t} /\ Removes(job[u])
      /\ \A f \in Paths : ~Torn(f) /\ Inside(g, f) => ~Inside(t, f)
  BY <1>1, Siblings
<1>3. \A f : Listed(f)' <=> Listed(f)
  BY <1>1 DEF Listed
<1>4. \A f : Apart(u, f)
  BY <1>1 DEF Apart, GoneBy, MakingBy, Onto
<1>5. CASE Found(u) = {}
  <2>1. Goto(u, "idle") /\ rows' = rows
    BY <1>5 DEF MoveRows
  <2>2. StepOf(u) /\ \A f : Apart(u, f)'
    BY <1>1, <1>3, <2>1, WorkIsStep DEF Together
  <2>3. \A f \in Paths : Has(f)' <=> Has(f)
    BY <2>1 DEF Has
  <2> QED
    BY <1>1, <1>4, <2>2, <2>3, QuietStep
<1>6. CASE Found(u) # {}
  <2>1. PICK done \in SUBSET Found(u) :
           /\ rows' = RowsRenamed(job[u], done)
           /\ done = Found(u) \/ torn' = torn \cup Targets(job[u])
           /\ Goto(u, "lists")
    BY <1>6 DEF MoveRows
  <2>2. StepOf(u) /\ pc'[u] = "lists" /\ job'[u] = job[u]
    BY <1>1, <1>3, <2>1, WorkIsStep DEF Together
  <2>3. ASSUME NEW f \in Paths, ~Torn(f)' PROVE InStepAt(f)'
    <3>0. ~Torn(f)
      BY <2>2, <2>3 DEF StepOf, Torn
    <3>1. /\ GoneBy(u, f)' <=> Inside(g, f)
          /\ Onto(u, f)' <=> Inside(t, f)
          /\ ~MakingBy(u, f)'
      BY <1>1, <2>2 DEF GoneBy, Onto, MakingBy
    <3>2. CASE ~Inside(g, f) /\ ~Inside(t, f)
      <4>1. Has(f)' <=> Has(f)
        BY <1>1, <2>1, <3>2, RowsAfter
      <4>2. Apart(u, f)'
        BY <3>1, <3>2 DEF Apart
      <4> QED
        BY <1>3, <1>4, <2>2, <4>1, <4>2, Unmoved DEF InStep
    <3>3. Inside(g, f) \/ Inside(t, f) => done = Found(u)
      BY <1>2, <2>1, <2>3 DEF Torn
    <3>4. CASE Inside(g, f)
      <4>1. ~Has(f)'
        BY <1>1, <1>2, <2>1, <3>0, <3>3, <3>4, RowsAfter
      <4>2. ASSUME NEW v \in Users PROVE ~MakingBy(v, f)'
        <5>1. v # u => ~MakingBy(v, f)
          BY <1>1, <1>2, <3>0, <3>4, Alone
        <5> QED
          BY <2>2, <2>3, <3>1, <5>1, OthersSame
      <4>3. Gone(f)'
        BY <3>1, <3>4 DEF Gone
      <4> QED
        BY <4>1, <4>2, <4>3 DEF InStepAt, Agrees, Making
    <3>5. CASE Inside(t, f)
      <4>1. ~Inside(g, f)
        BY <1>2, <3>0, <3>5
      <4>2. PICK b : b = Back(u, f)
        OBVIOUS
      <4>3. b \in Paths /\ Inside(g, b)
        BY <1>1, <3>5, <4>2, Origin
      <4>4. Back(u, f)' = b
        BY <2>2, <4>2 DEF Back
      <4>5. /\ OwedBy(u, f)' <=> Listed(b)
            /\ MurkyBy(u, f)' <=> Torn(b)'
        BY <1>3, <3>1, <3>5, <4>4 DEF OwedBy, MurkyBy, Listed, Torn
      <4>6. CASE Torn(b)'
        BY <4>5, <4>6 DEF InStepAt, Murky
      <4>7. CASE ~Torn(b)'
        <5>1. ~Torn(b)
          BY <2>2, <4>7 DEF StepOf, Torn
        <5>2. ASSUME NEW v \in Users
              PROVE  ~Onto(v, b) /\ ~GoneBy(v, b) /\ ~MakingBy(v, b) /\ ~Onto(v, f) /\ ~GoneBy(v, f)
          <6>1. CASE v = u
            BY <1>4, <6>1 DEF Apart
          <6>2. CASE v # u
            <7>1. ~Onto(v, b) /\ ~GoneBy(v, b) /\ ~MakingBy(v, b)
              BY <1>1, <1>2, <4>3, <5>1, <6>2, Alone
            <7>2. ~Onto(v, f) /\ ~GoneBy(v, f)
              BY <1>1, <1>2, <3>0, <3>5, <6>2, Alone
            <7> QED
              BY <7>1, <7>2
          <6> QED
            BY <6>1, <6>2
        <5>3. Has(b) <=> Listed(b)
          BY <4>3, <5>1, <5>2
             DEF InStep, InStepAt, Agrees, Murky, MurkyBy, Gone, Making, Owed, OwedBy
        <5>4. Agrees(f) /\ ~Gone(f) /\ ~Owed(f)
          BY <3>0, <5>2 DEF InStep, InStepAt, Murky, MurkyBy, Gone, Owed, OwedBy
        <5>5. Has(f)' <=> Has(f) \/ Has(b)
          BY <1>1, <2>1, <3>3, <3>5, <4>1, <4>2, RowsAfter
        <5>6. ASSUME NEW v \in Users
              PROVE  /\ ~GoneBy(v, f)'
                     /\ MakingBy(v, f)' <=> MakingBy(v, f)
                     /\ OwedBy(v, f)' <=> v = u /\ Listed(b)
          <6>1. CASE v = u
            BY <1>4, <3>1, <4>1, <4>5, <6>1 DEF Apart
          <6>2. CASE v # u
            <7>1. /\ GoneBy(v, f)' <=> GoneBy(v, f)
                  /\ MakingBy(v, f)' <=> MakingBy(v, f)
                  /\ OwedBy(v, f)' <=> OwedBy(v, f)
              BY <2>2, <2>3, <6>2, OthersSame
            <7> QED
              BY <5>2, <6>2, <7>1 DEF OwedBy
          <6> QED
            BY <6>1, <6>2
        <5>7. ~Gone(f)' /\ (Making(f)' <=> Making(f)) /\ (Owed(f)' <=> Listed(b))
          BY <5>6 DEF Gone, Making, Owed
        <5> QED
          BY <1>3, <5>3, <5>4, <5>5, <5>7 DEF Agrees, InStepAt
      <4> QED
        BY <4>6, <4>7
    <3> QED
      BY <3>2, <3>4, <3>5
  <2>4. \A f \in Paths : InStepAt(f)'
    BY <2>3 DEF InStepAt
  <2> QED
    BY <2>4 DEF InStep
<1> QED
  BY <1>5, <1>6

\* The entries of lists that a rename of u is to move, and what it does when it
\* moves those of done: what is torn moves along, and what is left is torn.
ToMove(u, h, p) == h \in Renamers(u) /\ p \in lists[h] /\ Inside(job[u].folder, p)

SetsEntries(u, done) ==
    /\ \A h \in Holders : \A p \in Paths : <<h, p>> \in done => ToMove(u, h, p)
    /\ \A h \in Holders :
          lists'[h] = {IF <<h, p>> \in done THEN Moved(job[u], p) ELSE p : p \in lists[h]}
    /\ \A p \in torn : p \in torn'
    /\ \A p \in torn : Inside(job[u].folder, p) => Moved(job[u], p) \in torn'
    /\ \/ job[u].folder \in torn' /\ job[u].to \in torn'
       \/ \A h \in Holders : \A p \in Paths : ToMove(u, h, p) => <<h, p>> \in done
    /\ \/ job[u].folder \in torn'
       \/ \A h \in Staff \ {u} : \A p \in lists[h] : ~Inside(job[u].folder, p)

\* That is what MoveLists does.
LEMMA MoveEntries ==
    ASSUME Together, NEW u \in Users, MoveLists(u)
    PROVE  \E done \in SUBSET (Holders \X Paths) : SetsEntries(u, done)
<1> DEFINE j == job[u]
           entries == {e \in Renamers(u) \X UNION {lists[h] : h \in Holders} :
                          e[2] \in lists[e[1]] /\ Inside(j.folder, e[2])}
           others == {h \in Staff \ {u} : \E f \in lists[h] : Inside(j.folder, f)}
           moved == {Moved(j, f) : f \in {f \in torn : Inside(j.folder, f)}}
<1>1. PICK done \in SUBSET entries :
         /\ lists' = [h \in Holders |-> {IF <<h, f>> \in done THEN Moved(j, f) ELSE f : f \in lists[h]}]
         /\ torn' = torn \cup moved \cup (IF done = entries THEN {} ELSE Targets(j))
                              \cup (IF others = {} THEN {} ELSE {j.folder})
  BY DEF MoveLists
<1>2. /\ pc[u] = "lists" /\ j.kind = "rename"
      /\ lists \in ListType /\ Renamers(u) \subseteq Holders
  BY DEF MoveLists, Together, Inv, TypeOK, ListType, Renamers, Holders, Users
<1>3. \A h \in Holders : \A p \in Paths : <<h, p>> \in entries <=> ToMove(u, h, p)
  <2>1. ASSUME NEW h \in Holders, NEW p, ToMove(u, h, p) PROVE <<h, p>> \in entries
    BY <2>1 DEF ToMove
  <2>2. ASSUME NEW h, NEW p, <<h, p>> \in entries PROVE ToMove(u, h, p)
    BY <2>2 DEF ToMove
  <2> QED
    BY <2>1, <2>2
<1>4. entries \subseteq Holders \X Paths
  BY <1>2 DEF ListType
<1>5. done \in SUBSET (Holders \X Paths) /\ \A h \in Holders : \A p \in Paths : <<h, p>> \in done => ToMove(u, h, p)
  BY <1>1, <1>3, <1>4
<1>6. j.folder \in Targets(j) /\ j.to \in Targets(j)
  BY <1>2 DEF Targets
<1>7. \/ j.folder \in torn' /\ j.to \in torn'
      \/ \A h \in Holders : \A p \in Paths : ToMove(u, h, p) => <<h, p>> \in done
  <2>1. CASE done = entries
    BY <1>3, <2>1
  <2>2. CASE done # entries
    BY <1>1, <1>6, <2>2
  <2> QED
    BY <2>1, <2>2
<1>8. \/ j.folder \in torn'
      \/ \A h \in Staff \ {u} : \A p \in lists[h] : ~Inside(j.folder, p)
  BY <1>1
<1>9. /\ \A p \in torn : p \in torn'
      /\ \A p \in torn : Inside(j.folder, p) => Moved(j, p) \in torn'
  BY <1>1
<1>10. \A h \in Holders : lists'[h] = {IF <<h, p>> \in done THEN Moved(j, p) ELSE p : p \in lists[h]}
  BY <1>1
<1> HIDE DEF entries, others, moved
<1> QED
  BY <1>5, <1>7, <1>8, <1>9, <1>10 DEF SetsEntries

\* What is torn below the old name is torn below the new one.
LEMMA TearsMove ==
    ASSUME Together, RenamesOneName, NEW u \in Users, MoveLists(u),
           NEW f \in Paths, Inside(job[u].to, f), NEW b, b = Back(u, f), Torn(b)
    PROVE  Torn(f)'
<1> DEFINE g == job[u].folder
           t == job[u].to
<1>1. /\ pc[u] = "lists" /\ job[u].kind = "rename"
      /\ \A p \in torn : p \in torn'
      /\ \A p \in torn : Inside(g, p) => Moved(job[u], p) \in torn'
  BY MoveEntries DEF SetsEntries, MoveLists
<1>2. /\ g \in Paths /\ t \in Paths
      /\ \A p \in Paths : Inside(p, g) => p = g \/ Inside(p, t)
  BY <1>1, Siblings
<1>3. b \in Paths /\ Inside(g, b) /\ Moved(job[u], b) = f
  BY <1>1, Origin
<1>4. PICK q \in torn : Inside(q, b)
  BY DEF Torn
<1>5. q \in Paths
  BY DEF Together, Inv, TypeOK
<1>6. CASE Inside(g, q)
  <2>1. Inside(Shift(g, t, q), Shift(g, t, b))
    BY <1>2, <1>3, <1>4, <1>5, <1>6, ShiftInside
  <2>2. Inside(Moved(job[u], q), f)
    BY <1>3, <2>1 DEF Moved, Shift
  <2> QED
    BY <1>1, <1>4, <1>6, <2>2 DEF Torn
<1>7. CASE Inside(q, g)
  <2>1. CASE q = g
    BY <1>2, <1>6, <2>1, InsideRefl
  <2>2. CASE Inside(q, t)
    <3>1. Inside(q, f)
      BY <1>2, <1>5, <2>2, InsideTrans
    <3> QED
      BY <1>1, <1>4, <3>1 DEF Torn
  <2> QED
    BY <1>2, <1>5, <1>7, <2>1, <2>2
<1> QED
  BY <1>2, <1>3, <1>4, <1>5, <1>6, <1>7, AboveInLine DEF Related

\* The entries of the lists after a rename.
LEMMA EntriesAfter ==
    ASSUME Together, StaffShare, RenamesOneName, NEW u \in Users, MoveLists(u), NEW f \in Paths
    PROVE  /\ ~Inside(job[u].folder, f) /\ ~Inside(job[u].to, f) => (Listed(f)' <=> Listed(f))
           /\ ~Torn(f)' /\ Inside(job[u].folder, f) /\ ~Inside(job[u].to, f) => ~Listed(f)'
           /\ ~Torn(f)' /\ Inside(job[u].to, f) /\ ~Inside(job[u].folder, f)
                 => (Listed(f)' <=> Listed(f) \/ Listed(Back(u, f)))
<1> DEFINE g == job[u].folder
           t == job[u].to
<1>1. /\ pc[u] = "lists" /\ job[u].kind = "rename"
  BY DEF MoveLists
<1>2. PICK done \in SUBSET (Holders \X Paths) : SetsEntries(u, done)
  BY MoveEntries
<1>3. /\ g \in Paths /\ t \in Paths /\ lists \in ListType
      /\ Class \in Holders /\ Staff \subseteq Holders
      /\ \A h \in Holders : h \in Renamers(u) \/ h \in Staff \ {u}
      /\ Class \in Renamers(u)
  BY <1>1, Siblings DEF Together, Inv, TypeOK, ListType, Holders, Users, Renamers
<1>4. ASSUME NEW h \in Holders, NEW p \in lists[h], <<h, p>> \in done
      PROVE  Inside(g, p) /\ Inside(t, Moved(job[u], p)) /\ p \in Paths
  <2>1. p \in Paths
    BY <1>3 DEF ListType
  <2>2. Inside(g, p)
    BY <1>2, <1>4, <2>1 DEF SetsEntries, ToMove
  <2> QED
    BY <1>3, <2>1, <2>2, MovedPath
<1>5. ASSUME NEW h \in Holders, NEW p \in lists[h], <<h, p>> \notin done PROVE p \in lists'[h]
  BY <1>2, <1>5 DEF SetsEntries
<1>6. ASSUME NEW h \in Holders, NEW p \in lists[h], <<h, p>> \in done PROVE Moved(job[u], p) \in lists'[h]
  BY <1>2, <1>6 DEF SetsEntries
<1>7. ASSUME NEW h \in Holders, NEW p \in lists'[h]
      PROVE  \/ p \in lists[h] /\ <<h, p>> \notin done
             \/ \E q \in lists[h] : <<h, q>> \in done /\ p = Moved(job[u], q)
  BY <1>2, <1>7 DEF SetsEntries
<1>8. \A h \in Holders : \A p \in lists[h] : p \in Paths
  BY <1>3 DEF ListType
<1>9. ~Inside(g, f) /\ ~Inside(t, f) => (Listed(f)' <=> Listed(f))
  <2>1. ASSUME NEW h \in Holders, ~Inside(g, f), ~Inside(t, f)
        PROVE  f \in lists'[h] <=> f \in lists[h]
    <3>1. f \in lists[h] => f \in lists'[h]
      BY <1>4, <1>5, <2>1
    <3>2. f \in lists'[h] => f \in lists[h]
      BY <1>4, <1>7, <2>1
    <3> QED
      BY <3>1, <3>2
  <2> QED
    BY <2>1 DEF Listed
<1>10. ASSUME ~Torn(f)', Inside(g, f), ~Inside(t, f), Listed(f)' PROVE FALSE
  <2>1. PICK h \in Holders : f \in lists'[h]
    BY <1>10 DEF Listed
  <2>2. g \notin torn'
    BY <1>10 DEF Torn
  <2>3. f \in lists[h] /\ <<h, f>> \notin done
    BY <1>4, <1>7, <1>10, <2>1
  <2> QED
    BY <1>2, <1>3, <1>10, <2>2, <2>3 DEF SetsEntries, ToMove
<1>11. ASSUME ~Torn(f)', Inside(t, f), ~Inside(g, f), NEW b, b = Back(u, f)
       PROVE  Listed(f)' <=> Listed(f) \/ Listed(b)
  <2>1. /\ b \in Paths /\ Inside(g, b) /\ Moved(job[u], b) = f
        /\ \A p \in Paths : Inside(g, p) /\ Moved(job[u], p) = f => p = b
    BY <1>1, <1>11, Origin
  <2>2. t \notin torn' /\ ~Torn(b)
    BY <1>11, TearsMove DEF Torn
  <2>3. Listed(f) => Listed(f)'
    BY <1>4, <1>5, <1>11 DEF Listed
  <2>4. ASSUME Listed(b) PROVE Listed(f)'
    <3>1. PICK h \in Holders : b \in lists[h]
      BY <2>4 DEF Listed
    <3>2. \E i \in Renamers(u) \cap Holders : b \in lists[i]
      <4>1. CASE h \in Renamers(u)
        BY <3>1, <4>1
      <4>2. CASE h \in Staff
        BY <1>3, <2>2, <3>1, <4>2 DEF StaffShare
      <4> QED
        BY <1>3, <4>1, <4>2
    <3>3. PICK i \in Renamers(u) \cap Holders : b \in lists[i]
      BY <3>2
    <3>4. <<i, b>> \in done
      BY <1>2, <2>1, <2>2, <3>3 DEF SetsEntries, ToMove
    <3> QED
      BY <1>6, <2>1, <3>3, <3>4 DEF Listed
  <2>5. ASSUME Listed(f)' PROVE Listed(f) \/ Listed(b)
    <3>1. PICK h \in Holders : f \in lists'[h]
      BY <2>5 DEF Listed
    <3>2. CASE f \in lists[h]
      BY <3>2 DEF Listed
    <3>3. ASSUME NEW q \in lists[h], <<h, q>> \in done, f = Moved(job[u], q) PROVE Listed(b)
      <4>1. q = b
        BY <1>4, <2>1, <3>3
      <4> QED
        BY <4>1 DEF Listed
    <3> QED
      BY <1>7, <3>1, <3>2, <3>3
  <2> QED
    BY <2>3, <2>4, <2>5
<1> QED
  BY <1>9, <1>10, <1>11 DEF Listed

\* Moving the entries of a folder: the entries follow the rows.
LEMMA MoveListsKeeps ==
    ASSUME Together, InStep, StaffShare, RenamesOneName, NEW u \in Users, MoveLists(u)
    PROVE  InStep'
<1> DEFINE g == job[u].folder
           t == job[u].to
<1>1. /\ pc[u] = "lists" /\ job[u].kind = "rename" /\ rows' = rows
      /\ Works(u) /\ Goto(u, "idle")
  BY MoveListsWorks DEF MoveLists, Together
<1>2. /\ g \in Paths /\ t \in Paths /\ Targets(job[u]) = {g, t} /\ Removes(job[u])
      /\ \A f \in Paths : ~Torn(f) /\ Inside(g, f) => ~Inside(t, f)
  BY <1>1, Siblings
<1>3. \A p \in Paths : Touches(u, p) \/ (Listed(p)' <=> Listed(p))
  BY <1>1, <1>2, EntriesAfter DEF Touches
<1>4. StepOf(u) /\ pc'[u] = "idle" /\ \A f : Apart(u, f)'
  BY <1>1, <1>3, WorkIsStep
<1>5. \A f : Has(f)' <=> Has(f)
  BY <1>1 DEF Has
<1>6. ASSUME NEW f \in Paths, ~Torn(f)' PROVE InStepAt(f)'
  <2>0. ~Torn(f)
    BY <1>4, <1>6 DEF StepOf, Torn
  <2>1. /\ GoneBy(u, f) <=> Inside(g, f)
        /\ Onto(u, f) <=> Inside(t, f)
        /\ ~MakingBy(u, f)
    BY <1>1 DEF GoneBy, Onto, MakingBy
  <2>2. CASE ~Inside(g, f) /\ ~Inside(t, f)
    <3>1. Apart(u, f)
      BY <2>1, <2>2 DEF Apart
    <3> QED
      BY <1>4, <1>5, <2>2, <3>1, EntriesAfter, Unmoved DEF InStep
  <2>3. ASSUME Inside(g, f) \/ Inside(t, f), NEW v \in Users, v # u
        PROVE  /\ ~Onto(v, f) /\ ~GoneBy(v, f)
               /\ Inside(g, f) => ~MakingBy(v, f)
               /\ ~Onto(v, f)' /\ ~GoneBy(v, f)'
               /\ MakingBy(v, f)' <=> MakingBy(v, f)
    <3>1. ~Onto(v, f) /\ ~GoneBy(v, f)
      BY <1>1, <1>2, <2>0, <2>3, Alone
    <3>2. Inside(g, f) => ~MakingBy(v, f)
      BY <1>1, <1>2, <2>0, <2>3, Alone
    <3> QED
      BY <1>4, <1>6, <2>3, <3>1, <3>2, OthersSame
  <2>4. Inside(g, f) \/ Inside(t, f)
           => ~Gone(f)' /\ ~Owed(f)' /\ (Making(f)' <=> Making(f))
    <3>1. ASSUME Inside(g, f) \/ Inside(t, f), NEW v \in Users
          PROVE  ~GoneBy(v, f)' /\ ~OwedBy(v, f)' /\ (MakingBy(v, f)' <=> MakingBy(v, f))
      <4>1. CASE v = u
        BY <1>4, <2>1, <4>1 DEF Apart, OwedBy
      <4>2. CASE v # u
        BY <2>3, <3>1, <4>2 DEF OwedBy
      <4> QED
        BY <4>1, <4>2
    <3> QED
      BY <3>1 DEF Gone, Owed, Making
  <2>5. CASE Inside(g, f)
    <3>1. ~Inside(t, f)
      BY <1>2, <2>0, <2>5
    <3>2. ~Listed(f)'
      BY <1>6, <2>5, <3>1, EntriesAfter
    <3>3. ~Making(f) /\ ~Murky(f) /\ Gone(f)
      BY <2>1, <2>3, <2>5, <3>1 DEF Making, Murky, MurkyBy, Gone
    <3>4. ~Has(f)
      BY <2>0, <3>3 DEF InStep, InStepAt, Agrees
    <3> QED
      BY <1>5, <2>4, <2>5, <3>2, <3>3, <3>4 DEF InStepAt, Agrees
  <2>6. CASE Inside(t, f)
    <3>1. ~Inside(g, f)
      BY <1>2, <2>0, <2>6
    <3>2. PICK b : b = Back(u, f)
      OBVIOUS
    <3>3. Listed(f)' <=> Listed(f) \/ Listed(b)
      BY <1>6, <2>6, <3>1, <3>2, EntriesAfter
    <3>4. ~Torn(b)
      BY <1>6, <2>6, <3>2, TearsMove
    <3>5. ~Gone(f) /\ ~Murky(f) /\ (Owed(f) <=> Listed(b))
      <4>1. ASSUME NEW v \in Users PROVE ~GoneBy(v, f) /\ ~MurkyBy(v, f) /\ (OwedBy(v, f) <=> v = u /\ Listed(b))
        <5>1. CASE v = u
          BY <2>1, <2>6, <3>1, <3>2, <3>4, <5>1 DEF MurkyBy, OwedBy
        <5>2. CASE v # u
          BY <2>3, <2>6, <5>2 DEF MurkyBy, OwedBy
        <5> QED
          BY <5>1, <5>2
      <4> QED
        BY <4>1 DEF Gone, Murky, Owed
    <3>6. Agrees(f)
      BY <2>0, <3>5 DEF InStep, InStepAt
    <3> QED
      BY <1>5, <2>4, <2>6, <3>3, <3>5, <3>6 DEF InStepAt, Agrees
  <2> QED
    BY <2>2, <2>5, <2>6
<1>7. \A f \in Paths : InStepAt(f)'
  BY <1>6 DEF InStepAt
<1> QED
  BY <1>7 DEF InStep

\* What the staff have on lists of their own stays shared: mkdir appends to none
\* of these, a delete takes from the class's list first, and a rename sets the
\* entries of the class's list as it sets the caller's.
LEMMA StaffShareStep ==
    ASSUME Together, StaffShare, RenamesOneName, [Next]_vars
    PROVE  StaffShare'
<1>0. /\ Inv /\ lists \in ListType /\ Class \in Holders /\ Staff \subseteq Holders /\ Staff \subseteq Users
  BY DEF Together, Inv, TypeOK, ListType, Holders, Users
<1>1. ASSUME lists' = lists, torn \subseteq torn' PROVE StaffShare'
  <2>1. ASSUME NEW h \in Staff, NEW p \in lists'[h] PROVE Torn(p)' \/ p \in lists'[Class]
    BY <1>1, <2>1, TornStays DEF StaffShare
  <2> QED
    BY <2>1 DEF StaffShare
<1>2. CASE UNCHANGED vars
  BY <1>1, <1>2 DEF vars
<1>3. ASSUME NEW u \in Users, Starts(u) \/ ChangeDirectory(u) PROVE StaffShare'
  BY <1>1, <1>3 DEF Starts, Start, ChangeDirectory, Enters
<1>4. ASSUME NEW u \in Users, PutRow(u) \/ FileRow(u) \/ DropRows(u) \/ MoveRows(u) \/ Fails(u)
      PROVE  StaffShare'
  <2>1. torn \subseteq torn'
    BY <1>0, <1>4, AllWorks DEF Works
  <2>2. lists' = lists
    BY <1>4 DEF PutRow, FileRow, DropRows, MoveRows, Fails
  <2> QED
    BY <1>1, <2>1, <2>2
<1>5. ASSUME NEW u \in Users, AppendToList(u) PROVE StaffShare'
  <2>1. torn \subseteq torn'
    BY <1>0, <1>5, AllWorks DEF Works
  <2>2. job[u].whose \subseteq Students \cup {Class}
    BY <1>0, <1>5 DEF AppendToList, Inv, AtWork, Kept
  <2>3. lists' = [h \in Holders |-> IF h \in job[u].whose THEN lists[h] \cup {job[u].folder}
                                    ELSE lists[h]]
    BY <1>5 DEF AppendToList
  <2>4. \A h \in Staff : lists'[h] = lists[h]
    BY <1>0, <2>2, <2>3, AccessAssumption
  <2>5. lists[Class] \subseteq lists'[Class]
    BY <1>0, <2>3
  <2>6. ASSUME NEW h \in Staff, NEW p \in lists'[h] PROVE Torn(p)' \/ p \in lists'[Class]
    BY <2>1, <2>4, <2>5, <2>6, TornStays DEF StaffShare
  <2> QED
    BY <2>6 DEF StaffShare
<1>6. ASSUME NEW u \in Users, CleanLists(u) PROVE StaffShare'
  <2> DEFINE g == job[u].folder
  <2>1. torn \subseteq torn' /\ Targets(job[u]) = {g}
    BY <1>0, <1>6, AllWorks DEF Works, CleanLists, Targets
  <2>2. PICK n \in 0 .. Len(Order) :
         /\ lists' = [h \in Holders |->
                         IF \E i \in 1 .. n : Order[i] = h
                         THEN {f \in lists[h] : ~Inside(g, f)} ELSE lists[h]]
         /\ n = Len(Order) \/ torn' = torn \cup {g}
    BY <1>6, <2>1 DEF CleanLists, Breaks
  <2>3. ASSUME NEW h \in Staff, NEW p \in lists'[h] PROVE Torn(p)' \/ p \in lists'[Class]
    <3>1. p \in lists[h] /\ (Torn(p) \/ p \in lists[Class])
      BY <1>0, <2>2, <2>3 DEF StaffShare
    <3>2. CASE Torn(p)
      BY <2>1, <3>2, TornStays
    <3>3. CASE p \in lists[Class] /\ ~Inside(g, p)
      BY <1>0, <2>2, <3>3
    <3>4. CASE Inside(g, p)
      <4>1. n = Len(Order) => \E i \in 1 .. n : Order[i] = h
        BY <1>0, ClassroomAssumption
      <4>2. g \in torn'
        BY <1>0, <2>2, <2>3, <3>4, <4>1
      <4> QED
        BY <3>4, <4>2 DEF Torn
    <3> QED
      BY <3>1, <3>2, <3>3, <3>4
  <2> QED
    BY <2>3 DEF StaffShare
<1>7. ASSUME NEW u \in Users, MoveLists(u) PROVE StaffShare'
  <2> DEFINE g == job[u].folder
             t == job[u].to
  <2>1. torn \subseteq torn'
    BY <1>0, <1>7, AllWorks DEF Works
  <2>2. PICK done \in SUBSET (Holders \X Paths) : SetsEntries(u, done)
    BY <1>7, MoveEntries
  <2>3. /\ g \in Paths /\ t \in Paths /\ Class \in Renamers(u) /\ u \in Renamers(u)
    BY <1>7, Siblings DEF MoveLists, Renamers
  <2>4. ASSUME NEW h \in Staff, NEW q \in lists[h],
               NEW p, p = IF <<h, q>> \in done THEN Moved(job[u], q) ELSE q
        PROVE  Torn(p)' \/ p \in lists'[Class]
    <3>1. q \in Paths /\ h \in Holders /\ (Torn(q) \/ q \in lists[Class])
      BY <1>0 DEF ListType, StaffShare
    <3>2. CASE <<h, q>> \in done
      <4>1. Inside(g, q) /\ p = Moved(job[u], q)
        BY <2>2, <2>4, <3>1, <3>2 DEF SetsEntries, ToMove
      <4>2. p \in Paths /\ Inside(t, p) /\ pc[u] = "lists" /\ job[u].kind = "rename"
        BY <1>7, <2>3, <3>1, <4>1, MovedPath DEF MoveLists
      <4>3. q = Back(u, p)
        <5>1. \A b : b = Back(u, p) => q = b
          BY <3>1, <4>1, <4>2, Origin
        <5> QED
          BY <5>1
      <4>4. CASE Torn(q)
        BY <1>7, <4>2, <4>3, <4>4, TearsMove
      <4>5. CASE q \in lists[Class] /\ <<Class, q>> \in done
        BY <1>0, <2>2, <4>1, <4>5 DEF SetsEntries
      <4>6. CASE q \in lists[Class] /\ <<Class, q>> \notin done
        <5>1. ToMove(u, Class, q)
          BY <2>3, <4>1, <4>6 DEF ToMove
        <5>2. t \in torn'
          BY <1>0, <2>2, <3>1, <4>6, <5>1 DEF SetsEntries
        <5> QED
          BY <4>2, <5>2 DEF Torn
      <4> QED
        BY <3>1, <4>4, <4>5, <4>6
    <3>3. CASE <<h, q>> \notin done
      <4>1. CASE Torn(q)
        BY <2>1, <2>4, <3>3, <4>1, TornStays
      <4>2. CASE q \in lists[Class] /\ <<Class, q>> \notin done
        BY <1>0, <2>2, <2>4, <3>3, <4>2 DEF SetsEntries
      <4>3. CASE q \in lists[Class] /\ <<Class, q>> \in done
        <5>1. Inside(g, q)
          BY <1>0, <2>2, <3>1, <4>3 DEF SetsEntries, ToMove
        <5>2. h = u => ToMove(u, h, q)
          BY <2>3, <5>1 DEF ToMove
        <5>3. g \in torn'
          BY <2>2, <3>1, <3>3, <5>1, <5>2 DEF SetsEntries
        <5> QED
          BY <2>4, <3>3, <5>1, <5>3 DEF Torn
      <4> QED
        BY <3>1, <4>1, <4>2, <4>3
    <3> QED
      BY <3>2, <3>3
  <2>5. ASSUME NEW h \in Staff, NEW p \in lists'[h] PROVE Torn(p)' \/ p \in lists'[Class]
    <3>1. \E q \in lists[h] : p = IF <<h, q>> \in done THEN Moved(job[u], q) ELSE q
      BY <1>0, <2>2, <2>5 DEF SetsEntries
    <3> QED
      BY <2>4, <3>1
  <2> QED
    BY <2>5 DEF StaffShare
<1> QED
  BY <1>0, <1>2, <1>3, <1>4, <1>5, <1>6, <1>7, AllStart DEF Next

\* A class as it is set up is in step, and every step keeps it so.
LEMMA AccordInit == ASSUME Init PROVE Accord
<1>1. Inv
  BY InvInit
<1>2. \A u \in Users : pc[u] = "idle"
  BY DEF Init
<1>3. Together
  BY <1>1, <1>2 DEF Together, Noticed, OntoItself, Placed
<1>4. ASSUME NEW f \in Paths PROVE Agrees(f)
  <2>1. ~Gone(f) /\ ~Making(f) /\ ~Owed(f)
    BY <1>2 DEF Gone, Making, Owed, GoneBy, MakingBy, OwedBy, Onto
  <2>2. Has(f) <=> Listed(f)
    <3>1. f \in {k.path : k \in {k \in StartRows : k.dir}} <=> Listed(f)
      BY StartAssumption DEF Init, Listed
    <3>2. Has(f) => f \in {k.path : k \in {k \in StartRows : k.dir}}
      BY DEF Has, Init, Folder
    <3>3. ASSUME NEW k \in StartRows, k.dir, k.path = f PROVE k = Folder(f)
      <4>1. k \in RowType
        BY ClassroomAssumption DEF RowType
      <4> QED
        BY <3>3, <4>1 DEF RowType, Folder
    <3>4. f \in {k.path : k \in {k \in StartRows : k.dir}} => Has(f)
      BY <3>3 DEF Has, Init
    <3> QED
      BY <3>1, <3>2, <3>4
  <2> QED
    BY <2>1, <2>2 DEF Agrees
<1>5. InStep
  BY <1>4 DEF InStep, InStepAt
<1>6. StaffShare
  BY StartAssumption DEF StaffShare, Init
<1> QED
  BY <1>3, <1>5, <1>6 DEF Accord

\* Every step keeps the accord, if what is renamed is one name.
LEMMA AccordStep == ASSUME Accord, RenamesOneName, [Next]_vars PROVE Accord'
<1>0. Together /\ InStep /\ StaffShare /\ Inv
  BY DEF Accord, Together
<1>1. Together' /\ StaffShare'
  BY <1>0, TogetherStep, StaffShareStep
<1>2. ASSUME UNCHANGED vars PROVE InStep'
  <2>1. UNCHANGED <<rows, lists, pc, job, torn>>
    BY <1>2 DEF vars
  <2>2. ASSUME NEW f \in Paths PROVE InStepAt(f)'
    <3>1. \A v \in Users : /\ GoneBy(v, f)' <=> GoneBy(v, f)
                           /\ MakingBy(v, f)' <=> MakingBy(v, f)
                           /\ OwedBy(v, f)' <=> OwedBy(v, f)
                           /\ MurkyBy(v, f)' <=> MurkyBy(v, f)
      BY <2>1 DEF GoneBy, MakingBy, OwedBy, MurkyBy, Onto, Back, Listed, Torn
    <3>2. Has(f)' = Has(f) /\ Listed(f)' = Listed(f) /\ Torn(f)' = Torn(f)
      BY <2>1 DEF Has, Listed, Torn
    <3>3. InStepAt(f)
      BY <1>0 DEF InStep
    <3> QED
      BY <3>1, <3>2, <3>3 DEF InStepAt, Agrees, Gone, Making, Owed, Murky
  <2> QED
    BY <2>2 DEF InStep
<1>3. ASSUME NEW u \in Users, Starts(u) PROVE InStep'
  BY <1>0, <1>3, StartKeeps
<1>4. ASSUME NEW u \in Users,
             \/ ChangeDirectory(u) \/ AppendToList(u) \/ PutRow(u) \/ FileRow(u) \/ DropRows(u)
             \/ CleanLists(u) \/ MoveRows(u) \/ MoveLists(u) \/ Fails(u)
      PROVE  InStep'
  BY <1>0, <1>4, EnterKeeps, ListKeeps, RowKeeps, DropKeeps, CleanKeeps, MoveKeeps,
     MoveListsKeeps, FailKeeps
<1>5. ASSUME Next PROVE InStep'
  <2>1. PICK u \in Users :
           \/ MakeDirectory(u) \/ Upload(u) \/ Delete(u) \/ Rename(u) \/ RenameDirectory(u)
           \/ ChangeDirectory(u) \/ AppendToList(u) \/ PutRow(u) \/ FileRow(u) \/ DropRows(u)
           \/ CleanLists(u) \/ MoveRows(u) \/ MoveLists(u) \/ Fails(u)
    BY <1>5 DEF Next
  <2>2. MakeDirectory(u) \/ Upload(u) \/ Delete(u) \/ Rename(u) \/ RenameDirectory(u) => InStep'
    BY <1>0, <1>3, AllStart
  <2> QED
    BY <1>4, <2>1, <2>2
<1> QED
  BY <1>1, <1>2, <1>5 DEF Accord

\* What the accord says of folders without a request at work on them.
LEMMA AccordGives == ASSUME Accord PROVE ListsFollowRows
<1>0. Together /\ InStep /\ Inv
  BY DEF Accord, Together
<1>1. ASSUME NEW f \in Paths, ~Pending(f), ~Torn(f)
      PROVE  Folder(f) \in rows <=> \E h \in Holders : f \in lists[h]
  <2>1. ASSUME NEW v \in Users, NEW g \in Targets(job[v]), Inside(g, f), pc[v] # "idle",
               job[v].kind \in {"mkdir", "rename", "delete"}
        PROVE  FALSE
    BY <1>1, <2>1 DEF Pending, Busy
  <2>2. ASSUME NEW v \in Users PROVE ~GoneBy(v, f) /\ ~MakingBy(v, f) /\ ~Onto(v, f)
    <3>1. ~GoneBy(v, f)
      <4>1. pc[v] = "lists" => job[v].kind \in {"rename", "delete"}
        BY <1>0 DEF Inv, AtWork, Kept
      <4> QED
        BY <2>1, <4>1 DEF GoneBy, Targets
    <3>2. ~MakingBy(v, f)
      BY <2>1, InsideRefl DEF MakingBy, Targets
    <3>3. ~Onto(v, f)
      BY <2>1 DEF Onto, Targets
    <3> QED
      BY <3>1, <3>2, <3>3
  <2>3. ~Gone(f) /\ ~Making(f) /\ ~Owed(f) /\ ~Murky(f)
    BY <2>2 DEF Gone, Making, Owed, Murky, OwedBy, MurkyBy
  <2>4. Has(f) <=> Listed(f)
    BY <1>0, <1>1, <2>3 DEF InStep, InStepAt, Agrees
  <2> QED
    BY <2>4 DEF Has, Listed
<1>2. \A f \in {k.path : k \in {k \in rows : k.dir}} \cup UNION {lists[h] : h \in Holders} : f \in Paths
  <2>1. rows \subseteq RowType /\ lists \in ListType
    BY <1>0 DEF Inv, TypeOK, RowType, ListType
  <2> QED
    BY <2>1 DEF RowType, ListType
<1> QED
  BY <1>1, <1>2 DEF ListsFollowRows

\* A folder has a row if and only if a list names it, whatever requests run at the
\* same time and wherever they fail, for all folders that no request is at work on
\* and none has set apart.  Requests rename one name at a time, as the directory
\* a name is in and the one it is moved to are otherwise two.
THEOREM ListsAgreeWithRows == ASSUME RenamesOneName PROVE Spec => []ListsFollowRows
<1>1. Init => Accord
  BY AccordInit
<1>2. Accord /\ [Next]_vars => Accord'
  BY AccordStep
<1>3. Accord => ListsFollowRows
  BY AccordGives
<1> QED
  BY <1>1, <1>2, <1>3, PTL DEF Spec

----------------------------------------------------------------------------
(* What is in a folder has a folder *)

\* The folder p is there, or is being made, or something has set it apart.
Ground(p) == Has(p) \/ Torn(p) \/ Murky(p) \/ Making(p)

\* Everybody is on the ground, and so is every row.
Grounded ==
    /\ \A w \in Users : \A p \in Paths : p # <<>> /\ Inside(p, dir[w]) => Ground(p)
    /\ \A k \in rows : \A p \in Paths : p # <<>> /\ p # k.path /\ Inside(p, k.path) => Ground(p)

\* What is above an entry of a directory is the directory or above it.
LEMMA AboveEntry ==
    ASSUME NEW d \in Paths, NEW n \in Names, NEW q, q = Entry(d, n),
           NEW p \in Paths, Inside(p, q), p # q
    PROVE  q \in Paths /\ Inside(p, d)
<1>1. d \in Seq(Names) /\ Len(d) \in Nat /\ <<n>> \in Seq(Names) /\ Len(<<n>>) = 1
  BY DEF Paths
<1>2. /\ q \in Seq(Names) /\ Len(q) = Len(d) + 1
      /\ \A i \in 1 .. Len(d) + 1 : q[i] = IF i <= Len(d) THEN d[i] ELSE <<n>>[i - Len(d)]
  BY <1>1, ConcatProperties DEF Entry
<1>3. q \in Paths /\ Len(p) \in Nat
  BY <1>2 DEF Paths
<1>4. \A i \in 1 .. Len(d) : i \in 1 .. Len(d) + 1 /\ i <= Len(d) /\ q[i] = d[i]
  BY <1>1, <1>2
<1>5. Len(p) <= Len(q) /\ \A i \in 1 .. Len(p) : q[i] = p[i]
  BY <1>3, InsideByParts
<1>6. Len(p) # Len(q)
  BY <1>3, <1>5, SamePath
<1>7. Len(p) <= Len(d)
  BY <1>1, <1>2, <1>3, <1>5, <1>6
<1>8. \A i \in 1 .. Len(p) : i \in 1 .. Len(d)
  BY <1>1, <1>3, <1>7
<1> QED
  BY <1>3, <1>4, <1>5, <1>7, <1>8, InsideByParts

\* One folder strictly above another is shorter.
LEMMA StrictlyAbove ==
    ASSUME NEW p \in Paths, NEW q \in Paths, Inside(p, q), p # q
    PROVE  Len(p) < Len(q)
<1>1. Len(p) \in Nat /\ Len(q) \in Nat
  BY DEF Paths
<1>2. Len(p) <= Len(q) /\ \A i \in 1 .. Len(p) : q[i] = p[i]
  BY InsideByParts
<1>3. Len(p) # Len(q)
  BY <1>2, SamePath
<1> QED
  BY <1>1, <1>2, <1>3

\* The ground stays, but where rows of folders are dropped or moved.
LEMMA GroundStays ==
    ASSUME Together, RenamesOneName, NEW u \in Users, NEW p \in Paths, Ground(p),
           \/ Starts(u) \/ ChangeDirectory(u) \/ AppendToList(u) \/ PutRow(u) \/ FileRow(u)
           \/ DropRows(u) \/ CleanLists(u) \/ MoveRows(u) \/ MoveLists(u) \/ Fails(u)
    PROVE  Ground(p)' \/ ((DropRows(u) \/ MoveRows(u)) /\ Inside(job[u].folder, p))
<1>0. Inv /\ TypeOK
  BY DEF Together, Inv
<1>1. /\ torn \subseteq torn'
      /\ \A v \in Users : v # u => pc'[v] = pc[v] /\ job'[v] = job[v]
  <2>1. CASE Starts(u)
    <3>1. PICK j \in JobType, step \in {"list", "row", "rows"} : Start(u, j, step)
      BY <2>1 DEF Starts
    <3> QED
      BY <1>0, <3>1, OthersStart DEF Start
  <2>2. CASE ChangeDirectory(u)
    BY <2>2 DEF ChangeDirectory, Enters
  <2>3. CASE \/ AppendToList(u) \/ PutRow(u) \/ FileRow(u)
             \/ DropRows(u) \/ CleanLists(u) \/ MoveRows(u) \/ MoveLists(u) \/ Fails(u)
    <3>1. Works(u)
      BY <1>0, <2>3, AllWorks
    <3> QED
      BY <1>0, <3>1, OthersWork DEF Works
  <2> QED
    BY <2>1, <2>2, <2>3
<1>2. ASSUME NEW v \in Users, v # u
      PROVE  /\ MakingBy(v, p) => MakingBy(v, p)'
             /\ MurkyBy(v, p) => MurkyBy(v, p)'
  BY <1>1, <1>2 DEF MakingBy, MurkyBy, Onto, Back, Torn
<1>3. CASE Torn(p)
  BY <1>1, <1>3, TornStays DEF Ground
<1>4. ASSUME NEW v \in Users, MakingBy(v, p) PROVE Ground(p)'
  <2>1. CASE v # u
    <3>1. MakingBy(v, p)'
      BY <1>2, <1>4, <2>1
    <3>2. Making(p)'
      BY <3>1 DEF Making
    <3> QED
      BY <3>2 DEF Ground
  <2>2. CASE v = u
    <3>1. pc[u] = "row" /\ job[u].kind = "mkdir" /\ job[u].folder = p
      BY <1>4, <2>2 DEF MakingBy
    <3>2. PutRow(u) \/ Fails(u)
      BY <3>1 DEF Starts, Start, ChangeDirectory, Enters, AppendToList, FileRow, DropRows,
                  CleanLists, MoveRows, MoveLists
    <3>3. CASE PutRow(u)
      <4>1. job[u].key = Folder(p)
        BY <1>0, <3>1 DEF Inv, AtWork, Kept
      <4> QED
        BY <3>3, <4>1 DEF PutRow, Ground, Has
    <3>4. CASE Fails(u)
      <4>1. p \in torn'
        BY <3>1, <3>4 DEF Fails, Breaks, Targets
      <4> QED
        BY <4>1, InsideRefl DEF Ground, Torn
    <3> QED
      BY <3>2, <3>3, <3>4
  <2> QED
    BY <2>1, <2>2
<1>5. ASSUME NEW v \in Users, MurkyBy(v, p) PROVE Ground(p)'
  <2>1. CASE v # u
    <3>1. MurkyBy(v, p)'
      BY <1>2, <1>5, <2>1
    <3>2. Murky(p)'
      BY <3>1 DEF Murky
    <3> QED
      BY <3>2 DEF Ground
  <2>2. CASE v = u
    <3>1. pc[u] = "lists" /\ job[u].kind = "rename" /\ Inside(job[u].to, p)
      BY <1>5, <2>2 DEF MurkyBy, Onto
    <3>2. PICK b : b = Back(u, p)
      OBVIOUS
    <3>3. Torn(b)
      BY <1>5, <2>2, <3>2 DEF MurkyBy
    <3>4. MoveLists(u) \/ Fails(u)
      BY <3>1 DEF Starts, Start, ChangeDirectory, Enters, AppendToList, PutRow, FileRow, DropRows,
                  CleanLists, MoveRows
    <3>5. CASE MoveLists(u)
      BY <3>1, <3>2, <3>3, <3>5, TearsMove DEF Ground
    <3>6. CASE Fails(u)
      <4>1. job[u].to \in torn'
        BY <3>1, <3>6 DEF Fails, Breaks, Targets
      <4> QED
        BY <3>1, <4>1 DEF Ground, Torn
    <3> QED
      BY <3>4, <3>5, <3>6
  <2> QED
    BY <2>1, <2>2
<1>6. CASE Has(p)
  <2>1. Folder(p).path = p
    BY DEF Folder
  <2>2. CASE Starts(u) \/ ChangeDirectory(u) \/ AppendToList(u) \/ PutRow(u) \/ CleanLists(u)
             \/ MoveLists(u) \/ Fails(u)
    <3>1. rows \subseteq rows'
      BY <2>2 DEF Starts, Start, ChangeDirectory, Enters, AppendToList, PutRow, CleanLists,
                  MoveLists, Fails
    <3> QED
      BY <1>6, <3>1 DEF Has, Ground
  <2>3. CASE FileRow(u)
    <3>1. job[u].key = File(job[u].key.path)
      BY <1>0, <2>3 DEF FileRow, Inv, AtWork, Kept
    <3>2. Folder(p) # job[u].key
      BY <3>1 DEF File, Folder
    <3> QED
      BY <1>6, <2>3, <3>2 DEF FileRow, Has, Ground
  <2>4. CASE DropRows(u) \/ MoveRows(u)
    <3>1. pc[u] = "rows" /\ Removes(job[u])
      BY <2>4 DEF DropRows, MoveRows, Removes
    <3>2. rows \ rows' \subseteq Found(u)
      BY <2>4 DEF DropRows, MoveRows, RowsRenamed
    <3>3. Folder(p) \in rows' \/ Inside(job[u].folder, p)
      BY <1>0, <1>6, <2>1, <3>1, <3>2, FoundRows DEF Has
    <3> QED
      BY <2>4, <3>3 DEF Has, Ground
  <2> QED
    BY <2>2, <2>3, <2>4
<1> QED
  BY <1>3, <1>4, <1>5, <1>6 DEF Ground, Making, Murky

\* A folder that somebody is in, or that has something in it, is not dropped
\* without being torn: the first was noticed when the removal started or when the
\* member went there, and what is in a folder goes with it.
LEMMA GroundUnderfoot ==
    ASSUME Together, RenamesOneName, Grounded, NEW u \in Users,
           \/ Starts(u) \/ ChangeDirectory(u) \/ AppendToList(u) \/ PutRow(u) \/ FileRow(u)
           \/ DropRows(u) \/ CleanLists(u) \/ MoveRows(u) \/ MoveLists(u) \/ Fails(u),
           NEW p \in Paths, p # <<>>
    PROVE  /\ \A w \in Users : Inside(p, dir[w]) => Ground(p)'
           /\ \A k \in rows \cap rows' : p # k.path /\ Inside(p, k.path) => Ground(p)'
<1>0. Inv /\ TypeOK /\ rows \subseteq RowType /\ torn \subseteq torn'
  <2>1. torn \subseteq torn'
    BY AllWorks DEF Together, Starts, Start, ChangeDirectory, Enters, Works
  <2> QED
    BY <2>1 DEF Together, Inv, TypeOK, RowType
<1> DEFINE g == job[u].folder
<1>1. ASSUME DropRows(u) \/ MoveRows(u)
      PROVE  /\ pc[u] = "rows" /\ Removes(job[u]) /\ g \in Paths /\ job[u].key = Folder(g)
             /\ rows \cap rows' \cap Found(u) # {} => g \in torn'
  <2>1. pc[u] = "rows" /\ Removes(job[u])
    BY <1>1 DEF DropRows, MoveRows, Removes
  <2>2. g \in Paths /\ job[u].key = Folder(g)
    BY <1>0, <2>1, InFlight DEF Kept, JobType, Removes
  <2>3. rows' \cap Found(u) = {} \/ Targets(job[u]) \subseteq torn'
    <3>1. CASE DropRows(u)
      BY <3>1 DEF DropRows, Breaks
    <3>2. ASSUME NEW done \in SUBSET Found(u), rows' = RowsRenamed(job[u], done),
                 torn' = IF done = Found(u) THEN torn ELSE torn \cup Targets(job[u])
          PROVE  rows' \cap Found(u) = {} \/ Targets(job[u]) \subseteq torn'
      BY <3>2 DEF RowsRenamed
    <3>3. CASE MoveRows(u)
      BY <3>2, <3>3 DEF MoveRows
    <3> QED
      BY <1>1, <3>1, <3>3
  <2>4. g \in Targets(job[u])
    BY DEF Targets
  <2> QED
    BY <2>1, <2>2, <2>3, <2>4
<1>2. ASSUME NEW w \in Users, Inside(p, dir[w]) PROVE Ground(p)'
  <2>1. Ground(p) /\ dir[w] \in Paths
    BY <1>0, <1>2 DEF Grounded, TypeOK
  <2>2. CASE (DropRows(u) \/ MoveRows(u)) /\ Inside(g, p)
    <3>1. Inside(g, dir[w])
      BY <1>1, <1>2, <2>1, <2>2, InsideTrans
    <3>2. g \in torn
      BY <1>0, <1>1, <2>2, <3>1 DEF Inv, Warned
    <3> QED
      BY <1>0, <2>2, <3>2 DEF Torn, Ground
  <2> QED
    BY <2>1, <2>2, GroundStays
<1>3. ASSUME NEW k \in rows \cap rows', p # k.path, Inside(p, k.path) PROVE Ground(p)'
  <2>1. Ground(p) /\ k \in Keys /\ k.path \in Paths
    BY <1>0, <1>3 DEF Grounded, RowType, Keys
  <2>2. CASE (DropRows(u) \/ MoveRows(u)) /\ Inside(g, p)
    <3>1. Inside(g, k.path) /\ Len(g) <= Len(p) /\ Len(p) < Len(k.path)
      BY <1>1, <1>3, <2>1, <2>2, InsideTrans, StrictlyAbove DEF Inside
    <3>2. Len(g) < Len(k.path)
      BY <1>1, <2>1, <2>2, <3>1 DEF Paths
    <3>3. k \in Found(u)
      BY <1>1, <1>3, <2>1, <2>2, <3>1, <3>2, InsidePrefix DEF Found
    <3>4. g \in torn'
      BY <1>1, <1>3, <2>2, <3>3
    <3> QED
      BY <2>2, <3>4 DEF Torn, Ground
  <2> QED
    BY <2>1, <2>2, GroundStays
<1> QED
  BY <1>2, <1>3

\* A row that is put into the directory of the member has the folders above it.
LEMMA NewRowGrounded ==
    ASSUME Together, RenamesOneName, EntersOneName, Grounded, NEW u \in Users,
           PutRow(u) \/ FileRow(u), NEW k \in rows' \ rows,
           NEW p \in Paths, p # <<>>, p # k.path, Inside(p, k.path)
    PROVE  Ground(p)'
<1>1. pc[u] # "idle"
  BY DEF PutRow, FileRow
<1>2. Place(dir[u], job[u]) /\ Kept(job[u], pc[u]) /\ dir[u] \in Paths
  BY <1>1, InFlight DEF Together, Placed, Inv, TypeOK
<1>3. PICK d \in Paths : d = dir[u]
  BY <1>2
<1>4. \E n \in Names : k.path = Entry(d, n)
  <2>1. CASE PutRow(u)
    <3>1. k = job[u].key /\ job[u].kind \in {"mkdir", "upload"}
      BY <1>2, <2>1 DEF PutRow, Kept
    <3> QED
      BY <1>2, <1>3, <3>1 DEF Place, Entry
  <2>2. CASE FileRow(u)
    <3>1. k = File(job[u].to) /\ job[u].kind = "renamefile"
      BY <2>2 DEF FileRow
    <3>2. k.path = job[u].to
      BY <3>1 DEF File
    <3> QED
      BY <1>2, <1>3, <3>1, <3>2 DEF Place, Entry
  <2> QED
    BY <2>1, <2>2
<1>5. PICK n \in Names : k.path = Entry(d, n)
  BY <1>4
<1>6. Inside(p, d)
  BY <1>5, AboveEntry
<1> QED
  BY <1>3, <1>6, GroundUnderfoot

\* A row that is moved has, under its new name, the folders that it had under the
\* old one: they were moved as well, or are set apart with it.
LEMMA MovedRowGrounded ==
    ASSUME Together, RenamesOneName, Grounded, NEW u \in Users, MoveRows(u),
           NEW k \in Found(u), NEW q, q = Moved(job[u], k.path),
           NEW p \in Paths, p # <<>>, p # q, Inside(p, q)
    PROVE  Ground(p)'
<1> DEFINE g == job[u].folder
           t == job[u].to
<1>0. Inv /\ Grounded /\ Works(u)
  BY MoveWorks DEF Together
<1>1. /\ pc[u] = "rows" /\ job[u].kind = "rename" /\ Found(u) # {}
  BY DEF MoveRows
<1>2. /\ g \in Paths /\ t \in Paths /\ Targets(job[u]) = {g, t} /\ Removes(job[u])
      /\ Kept(job[u], pc[u]) /\ job[u].key = Folder(g)
      /\ \A f \in Paths : ~Torn(f) /\ Inside(g, f) => ~Inside(t, f)
  BY <1>1, Siblings
<1>3. k \in rows /\ k.path \in Paths /\ Inside(g, k.path)
  BY <1>0, <1>1, <1>2, FoundRows
<1>4. q \in Paths /\ Inside(t, q)
  BY <1>2, <1>3, MovedPath
<1>5. CASE Inside(p, t) /\ p # t
  <2>1. Place(dir[u], job[u]) /\ dir[u] \in Paths
    BY <1>1 DEF Together, Placed, Inv, TypeOK
  <2>2. PICK d \in Paths : d = dir[u]
    BY <2>1
  <2>3. PICK n \in Names : t = Entry(d, n)
    BY <1>1, <2>1, <2>2 DEF Place, Entry
  <2>4. Inside(p, d)
    BY <1>5, <2>3, AboveEntry
  <2> QED
    BY <2>2, <2>4, GroundUnderfoot
<1>6. CASE Inside(t, p)
  <2>1. PICK b : b = Back(u, p)
    OBVIOUS
  <2>2. b \in Paths /\ Inside(g, b) /\ Moved(job[u], b) = p
    BY <1>1, <1>6, <2>1, Origin
  <2>3. Inside(b, k.path) /\ b # k.path /\ b # <<>>
    <3> HIDE DEF g, t
    <3>1. \A x : Moved(job[u], x) = Shift(g, t, x)
      BY DEF Moved, Shift, g, t
    <3>2. b = Shift(t, g, p) /\ k.path = Shift(t, g, q)
      BY <1>2, <1>3, <2>1, <3>1, ShiftBack DEF Back, g, t
    <3>3. Inside(Shift(t, g, p), Shift(t, g, q))
      BY <1>2, <1>4, <1>6, ShiftInside
    <3>4. g # <<>>
      BY <1>2 DEF Kept, Folder
    <3>5. b # <<>>
      BY <1>2, <2>2, <3>4, InsideRoot
    <3> QED
      BY <2>2, <3>2, <3>3, <3>5
  <2>4. Ground(b)
    BY <1>3, <2>2, <2>3 DEF Grounded
  <2>5. PICK done \in SUBSET Found(u) :
           /\ rows' = RowsRenamed(job[u], done)
           /\ done = Found(u) \/ torn' = torn \cup Targets(job[u])
           /\ Goto(u, "lists")
    BY <1>1 DEF MoveRows
  <2>6. pc'[u] = "lists" /\ job'[u] = job[u] /\ torn \subseteq torn'
    BY <1>0, <2>5 DEF Goto, Inv, TypeOK, Works
  <2>7. CASE Torn(p)
    BY <2>6, <2>7, TornStays DEF Ground
  <2>8. CASE done # Found(u)
    <3>1. t \in torn'
      BY <1>2, <2>5, <2>8
    <3> QED
      BY <1>6, <3>1 DEF Torn, Ground
  <2>9. CASE Torn(b)
    <3>1. Back(u, p)' = b
      BY <2>1, <2>6 DEF Back
    <3>2. Torn(b)'
      BY <2>6, <2>9, TornStays
    <3>3. MurkyBy(u, p)'
      BY <1>1, <1>6, <2>6, <3>1, <3>2 DEF MurkyBy, Onto, Torn
    <3> QED
      BY <3>3 DEF Murky, Ground
  <2>10. CASE ~Torn(p) /\ ~Torn(b) /\ done = Found(u)
    <3>1. \A v \in Users : ~Onto(v, b) /\ ~MakingBy(v, b)
      <4>1. ASSUME NEW v \in Users PROVE ~Onto(v, b) /\ ~MakingBy(v, b)
        <5>1. CASE v = u
          BY <1>1, <5>1 DEF Onto, MakingBy
        <5>2. CASE v # u
          BY <1>1, <1>2, <2>2, <2>10, <5>2, Alone
        <5> QED
          BY <5>1, <5>2
      <4> QED
        BY <4>1
    <3>2. Has(b)
      BY <2>4, <2>10, <3>1 DEF Ground, Murky, MurkyBy, Making
    <3>3. ~Inside(g, p)
      BY <1>2, <1>6, <2>10
    <3>4. Has(p)'
      BY <1>1, <1>6, <2>1, <2>5, <2>10, <3>2, <3>3, RowsAfter
    <3> QED
      BY <3>4 DEF Ground
  <2> QED
    BY <2>7, <2>8, <2>9, <2>10
<1> QED
  BY <1>2, <1>4, <1>5, <1>6, InsideRefl, AboveInLine DEF Related

\* Where a member goes there is ground.
LEMMA EnteredGround ==
    ASSUME Accord, RenamesOneName, Grounded, NEW u \in Users, ChangeDirectory(u),
           NEW p \in Paths, p # <<>>, Inside(p, dir'[u])
    PROVE  Ground(p)'
<1>0. Together /\ InStep /\ Inv /\ TypeOK /\ dir[u] \in Paths
  BY DEF Accord, Together, Inv, TypeOK
<1>1. /\ torn \subseteq torn'
      /\ \A v \in Users : pc[v] # "idle" /\ Removes(job[v]) /\ Inside(job[v].folder, dir'[u])
                             => job[v].folder \in torn'
  <2>1. PICK d : Enters(u, d)
    BY DEF ChangeDirectory
  <2>2. dir'[u] = d
    BY <1>0, <2>1 DEF Enters, TypeOK
  <2>3. ASSUME NEW v \in Users, pc[v] # "idle", Removes(job[v]), Inside(job[v].folder, d)
        PROVE  job[v].folder \in torn'
    BY <2>1, <2>3 DEF Enters, Busy
  <2> QED
    BY <2>1, <2>2, <2>3 DEF Enters
<1>2. CASE Inside(p, dir[u])
  BY <1>0, <1>2, GroundUnderfoot
<1>3. ASSUME dir[u] # <<>>, dir'[u] = SubSeq(dir[u], 1, Len(dir[u]) - 1) PROVE Inside(p, dir[u])
  <2>1. dir'[u] \in Paths /\ Inside(dir'[u], dir[u])
    BY <1>0, <1>3, Above
  <2> QED
    BY <1>0, <2>1, InsideTrans
<1>4. ASSUME NEW n \in Names, dir'[u] = Entry(dir[u], n), MayEnter(u, Entry(dir[u], n), rows, lists)
      PROVE  Ground(p)'
  <2>1. PICK d \in Paths : d = dir[u]
    BY <1>0
  <2>2. PICK e : e = Entry(d, n)
    OBVIOUS
  <2>3. CASE p # e
    BY <1>2, <1>4, <2>1, <2>2, <2>3, AboveEntry
  <2>4. CASE p = e
    <3>1. Has(p) \/ Listed(p)
      BY <1>4, <2>1, <2>2, <2>4 DEF MayEnter, Allowed, Has, Listed, Holders, Users
    <3>2. CASE Ground(p)
      BY <1>0, <3>2, GroundStays DEF ChangeDirectory, Enters, DropRows, MoveRows
    <3>3. CASE ~Ground(p)
      <4>1. Gone(p)
        BY <1>0, <3>1, <3>3 DEF Ground, InStep, InStepAt, Agrees
      <4>2. PICK v \in Users : GoneBy(v, p)
        BY <4>1 DEF Gone
      <4>3. pc[v] # "idle" /\ Removes(job[v]) /\ Inside(job[v].folder, p)
        BY <1>0, <4>2 DEF GoneBy, Inv, AtWork, Kept, Removes
      <4>4. job[v].folder \in torn'
        BY <1>1, <1>4, <2>1, <2>2, <2>4, <4>3
      <4> QED
        BY <4>3, <4>4 DEF Ground, Torn
    <3> QED
      BY <3>2, <3>3
  <2> QED
    BY <2>3, <2>4
<1>5. \/ dir[u] # <<>> /\ dir'[u] = SubSeq(dir[u], 1, Len(dir[u]) - 1)
      \/ \E n \in Names : dir'[u] = Entry(dir[u], n) /\ MayEnter(u, Entry(dir[u], n), rows, lists)
  BY <1>0 DEF ChangeDirectory, Enters, Entry, TypeOK
<1> QED
  BY <1>2, <1>3, <1>4, <1>5

\* Every step keeps everybody and every row on the ground.
LEMMA GroundedStep ==
    ASSUME Accord, RenamesOneName, EntersOneName, Grounded, [Next]_vars
    PROVE  Grounded'
<1>0. Together /\ Inv /\ TypeOK
  BY DEF Accord, Together, Inv
<1>1. ASSUME NEW u \in Users,
             \/ Starts(u) \/ ChangeDirectory(u) \/ AppendToList(u) \/ PutRow(u) \/ FileRow(u)
             \/ DropRows(u) \/ CleanLists(u) \/ MoveRows(u) \/ MoveLists(u) \/ Fails(u)
      PROVE  Grounded'
  <2>1. ASSUME NEW w \in Users, NEW p \in Paths, p # <<>>, Inside(p, dir'[w]) PROVE Ground(p)'
    <3>1. CASE dir'[w] = dir[w]
      BY <1>0, <1>1, <2>1, <3>1, GroundUnderfoot
    <3>2. CASE dir'[w] # dir[w]
      <4>1. ChangeDirectory(u)
        BY <1>1, <3>2 DEF Starts, Start, AppendToList, PutRow, FileRow, DropRows, CleanLists,
                          MoveRows, MoveLists, Fails
      <4>2. w = u
        BY <1>0, <3>2, <4>1 DEF ChangeDirectory, Enters, TypeOK
      <4> QED
        BY <2>1, <4>1, <4>2, EnteredGround
    <3> QED
      BY <3>1, <3>2
  <2>2. ASSUME NEW k \in rows', NEW p \in Paths, p # <<>>, p # k.path, Inside(p, k.path)
        PROVE  Ground(p)'
    <3>1. CASE k \in rows
      BY <1>0, <1>1, <2>2, <3>1, GroundUnderfoot
    <3>2. CASE k \notin rows
      <4>1. PutRow(u) \/ FileRow(u) \/ MoveRows(u)
        BY <1>1, <2>2, <3>2 DEF Starts, Start, ChangeDirectory, Enters, AppendToList, DropRows,
                          CleanLists, MoveLists, Fails
      <4>2. CASE PutRow(u) \/ FileRow(u)
        BY <1>0, <2>2, <3>2, <4>2, NewRowGrounded
      <4>3. CASE MoveRows(u)
        <5>1. PICK done \in SUBSET Found(u) : rows' = RowsRenamed(job[u], done)
          BY <2>2, <3>2, <4>3 DEF MoveRows
        <5>2. PICK i \in done : k = [i EXCEPT !.path = Moved(job[u], i.path)]
          BY <2>2, <3>2, <5>1 DEF RowsRenamed
        <5>3. k.path = Moved(job[u], i.path)
          <6>1. i \in rows
            BY <5>1 DEF Found
          <6>2. i \in RowType
            BY <1>0, <6>1 DEF TypeOK, RowType
          <6> QED
            BY <5>2, <6>2 DEF RowType
        <5> QED
          BY <1>0, <2>2, <4>3, <5>3, MovedRowGrounded
      <4> QED
        BY <4>1, <4>2, <4>3
    <3> QED
      BY <3>1, <3>2
  <2> QED
    BY <2>1, <2>2 DEF Grounded
<1>2. ASSUME UNCHANGED vars PROVE Grounded'
  <2>1. UNCHANGED <<rows, dir, pc, job, torn>>
    BY <1>2 DEF vars
  <2>2. \A p : Ground(p)' <=> Ground(p)
    BY <2>1 DEF Ground, Has, Torn, Murky, MurkyBy, Onto, Back, Making, MakingBy
  <2> QED
    BY <2>1, <2>2 DEF Grounded
<1>3. ASSUME Next PROVE Grounded'
  <2>1. PICK u \in Users :
           \/ MakeDirectory(u) \/ Upload(u) \/ Delete(u) \/ Rename(u) \/ RenameDirectory(u)
           \/ ChangeDirectory(u) \/ AppendToList(u) \/ PutRow(u) \/ FileRow(u) \/ DropRows(u)
           \/ CleanLists(u) \/ MoveRows(u) \/ MoveLists(u) \/ Fails(u)
    BY <1>3 DEF Next
  <2>2. CASE MakeDirectory(u) \/ Upload(u) \/ Delete(u) \/ Rename(u) \/ RenameDirectory(u)
    <3>1. Starts(u)
      BY <1>0, <2>2, AllStart
    <3> QED
      BY <1>1, <3>1
  <2>3. CASE \/ ChangeDirectory(u) \/ AppendToList(u) \/ PutRow(u) \/ FileRow(u) \/ DropRows(u)
             \/ CleanLists(u) \/ MoveRows(u) \/ MoveLists(u) \/ Fails(u)
    BY <1>1, <2>3
  <2> QED
    BY <2>1, <2>2, <2>3
<1> QED
  BY <1>2, <1>3

\* A class as it is set up.
LEMMA GroundedInit == ASSUME Init PROVE Grounded
<1>1. /\ \A w \in Users : dir[w] = <<>>
      /\ rows = StartRows /\ rows \subseteq RowType
  BY ClassroomAssumption DEF Init, RowType
<1>2. ASSUME NEW p \in Paths, p # <<>>, Inside(p, <<>>) PROVE FALSE
  BY <1>2, FirstName DEF Inside
<1>3. ASSUME NEW k \in rows, NEW p \in Paths, p # <<>>, p # k.path, Inside(p, k.path)
      PROVE  Ground(p)
  <2>1. k.path \in Paths /\ Len(k.path) \in Nat /\ Len(p) \in Nat /\ Len(p) >= 1
    BY <1>1, <1>3, FirstName DEF RowType, Paths
  <2>2. Len(p) < Len(k.path)
    BY <1>3, <2>1, StrictlyAbove
  <2>3. Len(p) \in 1 .. Len(k.path) - 1
    BY <2>1, <2>2
  <2>4. p = SubSeq(k.path, 1, Len(p))
    BY <1>3 DEF Inside
  <2>5. Folder(SubSeq(k.path, 1, Len(p))) \in StartRows
    BY <1>1, <2>3, StartAssumption
  <2> QED
    BY <1>1, <2>4, <2>5 DEF Ground, Has
<1> QED
  BY <1>1, <1>2, <1>3 DEF Grounded

\* What the ground says of the folder an entry is in.
LEMMA GroundedGives == ASSUME Accord, Grounded PROVE EntriesHaveFolders
<1>0. Inv /\ TypeOK
  BY DEF Accord, Together, Inv
<1>1. ASSUME NEW k \in rows, Len(k.path) > 1, NEW p, p = SubSeq(k.path, 1, Len(k.path) - 1)
      PROVE  Folder(p) \in rows \/ Pending(p) \/ Torn(p)
  <2>1. k.path \in Paths /\ k.path \in Seq(Names) /\ k.path # <<>> /\ Len(k.path) \in Nat
    BY <1>0 DEF TypeOK, Paths
  <2>2. p \in Paths /\ Inside(p, k.path)
    BY <1>1, <2>1, Above
  <2>3. Len(p) = Len(k.path) - 1
    BY <1>1, <2>1
  <2>4. p # <<>> /\ p # k.path
    <3>1. \A q : p = q => Len(p) = Len(q)
      OBVIOUS
    <3>2. Len(p) # 0 /\ Len(p) # Len(k.path)
      BY <1>1, <2>1, <2>3
    <3> QED
      BY <3>1, <3>2
  <2>5. Ground(p)
    BY <2>2, <2>4 DEF Grounded
  <2>6. Murky(p) \/ Making(p) => Pending(p)
    <3>1. ASSUME NEW v \in Users, Onto(v, p) \/ MakingBy(v, p) PROVE Pending(p)
      BY <2>2, <3>1, InsideRefl DEF Onto, MakingBy, Pending, Busy, Targets
    <3> QED
      BY <3>1 DEF Murky, Making, MurkyBy
  <2> QED
    BY <2>5, <2>6 DEF Ground, Has
<1> QED
  BY <1>1 DEF EntriesHaveFolders

\* Nothing is left in a folder that has gone, for all folders that no request is at
\* work on and none has set apart.  Requests make and rename one name at a time: a
\* name with a slash in it makes a folder without the one it is in.
THEOREM EntriesStayInFolders ==
    ASSUME RenamesOneName, EntersOneName PROVE Spec => []EntriesHaveFolders
<1>1. Init => Accord /\ Grounded
  BY AccordInit, GroundedInit
<1>2. Accord /\ Grounded /\ [Next]_vars => (Accord /\ Grounded)'
  BY AccordStep, GroundedStep
<1>3. Accord /\ Grounded => EntriesHaveFolders
  BY GroundedGives
<1> QED
  BY <1>1, <1>2, <1>3, PTL DEF Spec

----------------------------------------------------------------------------
(* What is drawn *)

\* A non-empty set of numbers has a least member.
LEMMA LeastMember ==
    ASSUME NEW T \in SUBSET Nat, T # {}
    PROVE  \E x \in T : \A y \in T : x <= y
<1> DEFINE Less == {ss \in Nat \X Nat : ss[1] < ss[2]}
<1>1. IsWellFoundedOn(Less, Nat)
  BY NatLessThanWellFounded DEF OpToRel
<1>2. \A x, y \in Nat : y < x => <<y, x>> \in Less
  OBVIOUS
<1> HIDE DEF Less
<1>3. PICK x \in T : \A y \in T : ~ (<<y, x>> \in Less)
  BY <1>1, WFMin
<1>4. ASSUME NEW y \in T PROVE x <= y
  <2>1. x \in Nat /\ y \in Nat /\ ~ (<<y, x>> \in Less)
    BY <1>3
  <2>2. ~ (y < x)
    BY <2>1, <1>2
  <2> QED
    BY <2>1, <2>2
<1> QED
  BY <1>4

\* The first n components of an entry, as a line.
LineOf(e, n) == [path |-> SubSeq(e.path, 1, n), dir |-> e.dir \/ n < Len(e.path)]

\* The entries with a component more than p.
LEMMA BelowByParts ==
    ASSUME NEW entries \in SUBSET RowType, NEW p \in Paths, NEW e \in entries
    PROVE  e \in Below(entries, p) <=> Inside(p, e.path) /\ Len(p) < Len(e.path)
<1>1. /\ e \in Keys /\ e.path \in Paths /\ e.path # <<>> /\ e.dir \in BOOLEAN
      /\ Len(p) \in Nat /\ Len(e.path) \in Nat /\ Len(e.path) >= 1
      /\ e = [path |-> e.path, dir |-> e.dir]
  BY FirstName DEF RowType, Keys, Paths
<1>2. ASSUME Inside(p, e.path), Len(p) < Len(e.path) PROVE e \in Below(entries, p)
  <2>1. HasPrefix(e, Folder(p))
    BY <1>1, <1>2, InsidePrefix
  <2>2. e # Folder(p)
    BY <1>1, <1>2 DEF Folder
  <2> QED
    BY <2>1, <2>2 DEF Below
<1>3. ASSUME e \in Below(entries, p) PROVE Inside(p, e.path) /\ Len(p) < Len(e.path)
  <2>1. HasPrefix(e, Folder(p)) /\ e # Folder(p)
    BY <1>3 DEF Below
  <2>2. Inside(p, e.path)
    BY <1>1, <2>1, PrefixInside
  <2>3. ASSUME Len(p) = Len(e.path) PROVE FALSE
    <3>1. \A i \in 1 .. Len(p) : e.path[i] = p[i]
      BY <1>1, <2>2, InsideByParts
    <3>2. e.path = p
      BY <1>1, <2>3, <3>1, SamePath
    <3>3. e.dir
      BY <1>1, <2>1, <2>3 DEF HasPrefix, Folder
    <3> QED
      BY <1>1, <2>1, <3>2, <3>3 DEF Folder
  <2> QED
    BY <1>1, <2>2, <2>3 DEF Inside
<1> QED
  BY <1>2, <1>3

\* The child of such an entry, below p, is its line one component longer than p.
LEMMA ChildLine ==
    ASSUME NEW e \in RowType, NEW p \in Paths, Inside(p, e.path), Len(p) < Len(e.path),
           NEW c, c = Child(e, p), NEW q, q = p \o c.path
    PROVE  /\ q \in Paths /\ Len(q) = Len(p) + 1 /\ Inside(q, e.path) /\ Inside(p, q)
           /\ [path |-> q, dir |-> c.dir] = LineOf(e, Len(p) + 1)
           /\ c.dir \in BOOLEAN /\ c.path = <<e.path[Len(p) + 1]>> /\ (Len(p) + 1 < Len(e.path) => c.dir)
<1> DEFINE n == Len(p) + 1
           f == e.path
<1>1. /\ f \in Paths /\ f \in Seq(Names) /\ e.dir \in BOOLEAN
      /\ Len(p) \in Nat /\ Len(f) \in Nat /\ n \in Nat /\ n \in 1 .. Len(f) /\ p \in Seq(Names)
  BY DEF RowType, Paths
<1>2. c = [path |-> <<f[n]>>, dir |-> e.dir \/ n < Len(f)]
  BY DEF Child
<1>3. f[n] \in Names /\ <<f[n]>> \in Seq(Names) /\ Len(<<f[n]>>) = 1 /\ <<f[n]>>[1] = f[n]
  BY <1>1
<1> DEFINE m == f[n]
<1>4. /\ q = p \o <<m>> /\ c.dir = (e.dir \/ n < Len(f)) /\ c.path = <<m>>
  BY <1>2
<1>5. \A i \in 1 .. Len(p) : f[i] = p[i]
  BY <1>1, InsideByParts
<1> HIDE DEF f, m
<1>6. /\ q \in Seq(Names) /\ Len(q) = n
      /\ \A i \in 1 .. n : q[i] = IF i <= Len(p) THEN p[i] ELSE m
  BY <1>1, <1>3, <1>4 DEF m
<1>7. \A i \in 1 .. n : q[i] = f[i]
  <2>1. ASSUME NEW i \in 1 .. n PROVE q[i] = f[i]
    <3>1. CASE i <= Len(p)
      BY <1>1, <1>5, <1>6, <3>1
    <3>2. CASE i = n
      BY <1>1, <1>6, <3>2 DEF m
    <3>3. i <= Len(p) \/ i = n
      <4>1. Len(p) \in Nat /\ i \in 1 .. Len(p) + 1
        BY <1>1
      <4> QED
        BY <4>1
    <3> QED
      BY <3>1, <3>2, <3>3
  <2> QED
    BY <2>1
<1>8. q \in Paths /\ Inside(q, f) /\ Inside(p, q)
  <2>1. q \in Paths
    BY <1>6 DEF Paths
  <2>2. ASSUME NEW i \in 1 .. Len(p) PROVE q[i] = p[i]
    <3>1. Len(p) \in Nat /\ i \in 1 .. Len(p) + 1 /\ i <= Len(p)
      BY <1>1
    <3> QED
      BY <1>6, <3>1
  <2>3. Len(p) <= Len(q) /\ Len(q) <= Len(f) /\ Len(q) = n
    BY <1>1, <1>6
  <2>4. Inside(p, q)
    BY <2>1, <2>2, <2>3, InsideByParts
  <2>5. Inside(q, f)
    BY <1>1, <1>7, <2>1, <2>3, InsideByParts
  <2> QED
    BY <2>1, <2>4, <2>5
<1>9. q = SubSeq(f, 1, n)
  BY <1>6, <1>8 DEF Inside
<1> QED
  BY <1>1, <1>4, <1>6, <1>8, <1>9 DEF LineOf, f, m

\* The lines below p, when h has those below every folder; renderTree is an h of
\* which this is true everywhere.
Drawn(entries, h, p) ==
    UNION {LET line == [path |-> p \o c.path, dir |-> c.dir]
           IN  {line} \cup IF c.dir THEN h[line.path] ELSE {} :
           c \in {Child(e, p) : e \in Below(entries, p)}}

Draws(entries, h) == h = [p \in Paths |-> Drawn(entries, h, p)]

\* Line by line.
LEMMA DrawnLines ==
    ASSUME NEW entries \in SUBSET RowType, NEW p \in Paths, NEW h, NEW l
    PROVE  l \in Drawn(entries, h, p) <=>
              \E e \in entries :
                 /\ Inside(p, e.path) /\ Len(p) < Len(e.path)
                 /\ \/ l = LineOf(e, Len(p) + 1)
                    \/ LineOf(e, Len(p) + 1).dir /\ l \in h[LineOf(e, Len(p) + 1).path]
<1> DEFINE G(c) == LET line == [path |-> p \o c.path, dir |-> c.dir]
                   IN  {line} \cup IF c.dir THEN h[line.path] ELSE {}
<1>1. Drawn(entries, h, p) = UNION {G(c) : c \in {Child(e, p) : e \in Below(entries, p)}}
  BY DEF Drawn
<1>2. ASSUME NEW e \in entries, Inside(p, e.path), Len(p) < Len(e.path)
      PROVE  l \in G(Child(e, p)) <=>
                \/ l = LineOf(e, Len(p) + 1)
                \/ LineOf(e, Len(p) + 1).dir /\ l \in h[LineOf(e, Len(p) + 1).path]
  <2> DEFINE c == Child(e, p)
             k == LineOf(e, Len(p) + 1)
             q == p \o c.path
  <2>1. [path |-> q, dir |-> c.dir] = k
    BY <1>2, ChildLine
  <2>2. k.path = q /\ k.dir = c.dir
    BY <2>1
  <2>3. G(c) = {k} \cup IF c.dir THEN h[q] ELSE {}
    BY <2>1
  <2> HIDE DEF G, c, k, q
  <2>4. l \in G(c) <=> l = k \/ (k.dir /\ l \in h[k.path])
    BY <2>2, <2>3
  <2> QED
    BY <2>4 DEF c, k
<1> HIDE DEF G
<1>3. Below(entries, p) \subseteq entries
  BY DEF Below
<1>4. l \in Drawn(entries, h, p) <=> \E e \in Below(entries, p) : l \in G(Child(e, p))
  BY <1>1
<1>5. \A e \in entries : e \in Below(entries, p) <=> Inside(p, e.path) /\ Len(p) < Len(e.path)
  BY BelowByParts
<1> QED
  BY <1>2, <1>3, <1>4, <1>5

\* The recursion has a solution: every folder draws all the lines of its entries.
LEMMA DrawsExist ==
    ASSUME NEW entries \in SUBSET RowType
    PROVE  \E h : Draws(entries, h)
<1> DEFINE Has2(p, l) == \E e \in entries : \E n \in 1 .. Len(e.path) :
                             Inside(p, e.path) /\ Len(p) < n /\ l = LineOf(e, n)
           h == [p \in Paths |-> {l \in Keys : Has2(p, l)}]
<1>1. ASSUME NEW e \in entries PROVE e \in RowType /\ e.path \in Paths /\ Len(e.path) \in Nat
  BY DEF RowType, Paths
<1>2. ASSUME NEW e \in entries, NEW n \in 1 .. Len(e.path)
      PROVE  /\ LineOf(e, n) \in Keys /\ LineOf(e, n).path \in Paths /\ Len(LineOf(e, n).path) = n
             /\ LineOf(e, n).path = SubSeq(e.path, 1, n)
             /\ LineOf(e, n).dir = (e.dir \/ n < Len(e.path))
             /\ Inside(LineOf(e, n).path, e.path)
  <2>1. /\ e.path \in Seq(Names) /\ e.dir \in BOOLEAN
        /\ SubSeq(e.path, 1, n) \in Seq(Names) /\ Len(SubSeq(e.path, 1, n)) = n /\ n <= Len(e.path)
    BY <1>1 DEF RowType, Paths
  <2>2. SubSeq(e.path, 1, n) \in Paths
    BY <2>1 DEF Paths
  <2> QED
    BY <2>1, <2>2 DEF LineOf, Keys, Inside
<1>3. ASSUME NEW p \in Paths, NEW l
      PROVE  l \in h[p] <=> l \in Drawn(entries, h, p)
  <2>0. Len(p) \in Nat
    BY DEF Paths
  <2>1. l \in h[p] <=> Has2(p, l)
    BY <1>2
  <2>2. ASSUME NEW e \in entries, NEW n \in 1 .. Len(e.path), Inside(p, e.path), Len(p) < n,
               l = LineOf(e, n)
        PROVE  l \in Drawn(entries, h, p)
    <3> DEFINE m == Len(p) + 1
               q == LineOf(e, m).path
    <3>1. m \in 1 .. Len(e.path) /\ Len(p) < Len(e.path) /\ (n = m \/ (m < n /\ m < Len(e.path)))
      BY <1>1, <2>0, <2>2
    <3>2. q \in Paths /\ Len(q) = m /\ Inside(q, e.path)
          /\ (m < Len(e.path) => LineOf(e, m).dir)
      BY <1>2, <3>1
    <3> HIDE DEF q, h
    <3>3. ASSUME m < n, m < Len(e.path) PROVE LineOf(e, m).dir /\ l \in h[q]
      <4>1. Has2(q, l) /\ l \in Keys
        BY <1>2, <2>2, <3>2, <3>3
      <4> QED
        BY <3>2, <3>3, <4>1 DEF h
    <3>4. l = LineOf(e, m) \/ (LineOf(e, m).dir /\ l \in h[q])
      BY <2>2, <3>1, <3>3
    <3> QED
      BY <2>2, <3>1, <3>4, DrawnLines DEF q
  <2>3. ASSUME NEW e \in entries, Inside(p, e.path), Len(p) < Len(e.path),
               \/ l = LineOf(e, Len(p) + 1)
               \/ l \in h[LineOf(e, Len(p) + 1).path]
        PROVE  Has2(p, l)
    <3> DEFINE m == Len(p) + 1
               q == LineOf(e, m).path
    <3>1. m \in 1 .. Len(e.path) /\ Len(p) < m
      BY <1>1, <2>0, <2>3
    <3>2. q \in Paths /\ Len(q) = m /\ q = SubSeq(e.path, 1, m) /\ Inside(q, e.path)
      BY <1>2, <3>1
    <3>3. Inside(p, q)
      <4>1. e.path \in Paths /\ e.path \in Seq(Names)
        BY <1>1 DEF Paths
      <4>2. \A i \in 1 .. m : q[i] = e.path[i]
        BY <1>1, <3>2, InsideByParts
      <4>3. \A i \in 1 .. Len(p) : e.path[i] = p[i]
        BY <2>3, <4>1, InsideByParts
      <4>4. ASSUME NEW i \in 1 .. Len(p) PROVE q[i] = p[i]
        <5>1. i \in 1 .. m
          BY <2>0
        <5> QED
          BY <4>2, <4>3, <5>1
      <4>5. Len(p) <= Len(q)
        BY <2>0, <3>2
      <4> QED
        BY <3>2, <4>4, <4>5, InsideByParts
    <3>4. CASE l = LineOf(e, m)
      BY <2>3, <3>1, <3>4
    <3>5. CASE l \in h[q]
      <4>1. Has2(q, l)
        BY <3>2, <3>5
      <4> HIDE DEF q
      <4>2. PICK e2 \in entries : \E n \in 1 .. Len(e2.path) :
                   Inside(q, e2.path) /\ Len(q) < n /\ l = LineOf(e2, n)
        BY <4>1
      <4>3. PICK n \in 1 .. Len(e2.path) : Inside(q, e2.path) /\ Len(q) < n /\ l = LineOf(e2, n)
        BY <4>2
      <4>4. Inside(p, e2.path)
        BY <1>1, <3>2, <3>3, <4>3, InsideTrans
      <4>5. Len(p) < n
        BY <1>1, <2>0, <3>2, <4>3
      <4> QED
        BY <4>3, <4>4, <4>5
    <3> QED
      BY <2>3, <3>4, <3>5
  <2> HIDE DEF h
  <2>4. l \in Drawn(entries, h, p) => Has2(p, l)
    BY <2>3, DrawnLines
  <2>5. Has2(p, l) => l \in Drawn(entries, h, p)
    BY <2>2
  <2> QED
    BY <2>1, <2>4, <2>5
<1>4. h = [p \in Paths |-> h[p]]
  OBVIOUS
<1> HIDE DEF h
<1>5. \A p \in Paths : h[p] = Drawn(entries, h, p)
  BY <1>3
<1>6. h = [p \in Paths |-> Drawn(entries, h, p)]
  BY <1>4, <1>5
<1> QED
  BY <1>6 DEF Draws

\* What renderTree draws is such a solution.
LEMMA Rendered ==
    ASSUME NEW entries \in SUBSET RowType
    PROVE  \E h : Draws(entries, h) /\ RenderTree(entries) = h[<<>>]
<1> DEFINE Body(h) == [p \in Paths |->
                         UNION {LET line == [path |-> p \o c.path, dir |-> c.dir]
                                IN  {line} \cup IF c.dir THEN h[line.path] ELSE {} :
                                c \in {Child(e, p) : e \in Below(entries, p)}}]
           drawn == CHOOSE h : h = Body(h)
<1>1. PICK h : Draws(entries, h)
  BY DrawsExist
<1>2. h = Body(h)
  BY <1>1 DEF Draws, Drawn
<1>3. drawn = Body(drawn)
  BY <1>2
<1>4. RenderTree(entries) = drawn[<<>>]
  BY DEF RenderTree
<1> HIDE DEF drawn
<1>5. Draws(entries, drawn)
  BY <1>3 DEF Draws, Drawn
<1> QED
  BY <1>4, <1>5

\* Whatever solves it draws, below p, only lines longer than p, as entries end.
LEMMA DrawnLonger ==
    ASSUME NEW entries \in SUBSET RowType, NEW m \in Nat, \A e \in entries : Len(e.path) <= m,
           NEW h, Draws(entries, h), NEW p \in Paths, NEW l \in h[p]
    PROVE  Len(l.path) > Len(p)
<1> DEFINE Bad(q) == \E k \in h[q] : ~(Len(k.path) > Len(q))
           T == {m - Len(q) : q \in {q \in Paths : Len(q) <= m /\ Bad(q)}}
<1>1. ASSUME NEW q \in Paths, Bad(q)
      PROVE  /\ Len(q) < m
             /\ \E r \in Paths : Len(r) = Len(q) + 1 /\ Bad(r)
  <2>1. PICK k \in h[q] : ~(Len(k.path) > Len(q))
    BY <1>1
  <2>2. k \in Drawn(entries, h, q)
    BY <2>1 DEF Draws
  <2>3. PICK e \in entries :
           /\ Inside(q, e.path) /\ Len(q) < Len(e.path)
           /\ k = LineOf(e, Len(q) + 1) \/ k \in h[LineOf(e, Len(q) + 1).path]
    BY <2>2, DrawnLines
  <2> DEFINE r == q \o Child(e, q).path
  <2>4. /\ e \in RowType /\ Len(q) \in Nat /\ Len(e.path) \in Nat /\ Len(e.path) <= m
    BY DEF RowType, Paths
  <2>5. r \in Paths /\ Len(r) = Len(q) + 1 /\ LineOf(e, Len(q) + 1).path = r
    <3>1. /\ r \in Paths /\ Len(r) = Len(q) + 1
          /\ [path |-> r, dir |-> Child(e, q).dir] = LineOf(e, Len(q) + 1)
      BY <2>3, <2>4, ChildLine
    <3> HIDE DEF r
    <3>2. [path |-> r, dir |-> Child(e, q).dir].path = r
      OBVIOUS
    <3> QED
      BY <3>1, <3>2
  <2> HIDE DEF r
  <2>6. k # LineOf(e, Len(q) + 1)
    BY <2>1, <2>4, <2>5
  <2>7. k \in h[r] /\ ~(Len(k.path) > Len(r))
    <3>1. k \in h[r]
      BY <2>3, <2>5, <2>6
    <3>2. Len(k.path) > Len(r) => Len(k.path) > Len(q)
      BY <2>4, <2>5
    <3> QED
      BY <2>1, <3>1, <3>2
  <2> QED
    BY <2>3, <2>4, <2>5, <2>7
<1> SUFFICES ASSUME Bad(p) PROVE FALSE
  OBVIOUS
<1> HIDE DEF Bad
<1>2. \A q \in Paths : Len(q) \in Nat
  BY DEF Paths
<1>3. T \in SUBSET Nat /\ T # {}
  <2>1. Len(p) <= m /\ m - Len(p) \in T
    BY <1>1, <1>2
  <2>2. \A q \in Paths : Len(q) <= m => m - Len(q) \in Nat
    BY <1>2
  <2> QED
    BY <2>1, <2>2
<1>4. PICK x \in T : \A y \in T : x <= y
  BY <1>3, LeastMember
<1>5. PICK q \in Paths : Len(q) <= m /\ Bad(q) /\ x = m - Len(q)
  BY <1>4
<1>6. PICK r \in Paths : Len(r) = Len(q) + 1 /\ Bad(r) /\ Len(r) < m
  BY <1>1, <1>5
<1>7. m - Len(r) \in T
  <2>1. Len(r) <= m
    BY <1>2, <1>6
  <2> QED
    BY <1>6, <2>1
<1>8. x <= m - Len(r)
  BY <1>4, <1>7
<1> QED
  BY <1>2, <1>5, <1>6, <1>8

\* The first level of the tree has the first components of the entries.
LEMMA FirstLevel ==
    ASSUME NEW entries \in SUBSET RowType, NEW m \in Nat, \A e \in entries : Len(e.path) <= m
    PROVE  {l \in RenderTree(entries) : Len(l.path) = 1} = {Child(e, <<>>) : e \in entries}
<1>1. PICK h : Draws(entries, h) /\ RenderTree(entries) = h[<<>>]
  BY Rendered
<1>0. <<>> \in Paths /\ Len(<<>>) = 0
  BY EmptySeq DEF Paths
<1> DEFINE root == <<>>
<1>2. root \in Paths /\ Len(root) = 0 /\ root = <<>>
  BY <1>0
<1> HIDE DEF root
<1>r. ASSUME NEW e \in entries, NEW l
      PROVE  /\ LineOf(e, Len(root) + 1) = LineOf(e, 1)
             /\ l \in h[LineOf(e, Len(root) + 1).path] <=> l \in h[LineOf(e, 1).path]
  <2>1. Len(root) + 1 = 1
    BY <1>2
  <2> QED
    BY <2>1
<1>3. h[root] = Drawn(entries, h, root)
  BY <1>1, <1>2 DEF Draws
<1>4. ASSUME NEW e \in entries
      PROVE  /\ Inside(root, e.path) /\ Len(root) < Len(e.path) /\ LineOf(e, 1) = Child(e, root)
             /\ Len(LineOf(e, 1).path) = 1 /\ LineOf(e, 1).path \in Paths
  <2>1. /\ e \in RowType /\ e.path \in Paths /\ e.path # <<>> /\ Len(e.path) \in Nat /\ Len(e.path) >= 1
    BY FirstName DEF RowType
  <2>2. Inside(root, e.path) /\ Len(root) < Len(e.path)
    BY <1>2, <2>1, InsideByParts
  <2> DEFINE c == Child(e, root)
             q == root \o c.path
  <2>3. /\ q \in Paths /\ Len(q) = 1 /\ [path |-> q, dir |-> c.dir] = LineOf(e, 1)
        /\ c.path = <<e.path[1]>>
    <3>1. /\ q \in Paths /\ Len(q) = Len(root) + 1
          /\ [path |-> q, dir |-> c.dir] = LineOf(e, Len(root) + 1)
          /\ c.path = <<e.path[Len(root) + 1]>>
      <4>1. root \in Paths /\ e \in RowType /\ Inside(root, e.path) /\ Len(root) < Len(e.path)
        BY <1>2, <2>1, <2>2
      <4> QED
        BY <4>1, ChildLine
    <3>2. Len(root) + 1 = 1
      BY <1>2
    <3> QED
      BY <3>1, <3>2
  <2>4. q = c.path /\ c = [path |-> c.path, dir |-> c.dir]
    <3>1. <<e.path[1]>> \in Paths
      BY <2>1, FirstName
    <3>2. c = [path |-> <<e.path[1]>>, dir |-> e.dir \/ 1 < Len(e.path)]
      BY <1>2 DEF Child
    <3> QED
      BY <1>2, <2>3, <3>1, <3>2, Joined
  <2> HIDE DEF c, q
  <2>5. LineOf(e, 1) = c /\ LineOf(e, 1).path = q
    BY <2>3, <2>4
  <2> QED
    BY <2>2, <2>3, <2>5 DEF c
<1>5. ASSUME NEW e \in entries PROVE Child(e, root) \in h[root] /\ Len(Child(e, root).path) = 1
  <2>1. Child(e, root) = LineOf(e, Len(root) + 1)
    BY <1>4, <1>r
  <2>2. Child(e, root) \in Drawn(entries, h, root)
    BY <1>2, <1>4, <2>1, DrawnLines
  <2> QED
    BY <1>3, <1>4, <2>2
<1>6. ASSUME NEW l \in h[root], Len(l.path) = 1 PROVE \E e \in entries : l = Child(e, root)
  <2>1. PICK e \in entries : l = LineOf(e, 1) \/ l \in h[LineOf(e, 1).path]
    <3>1. PICK e \in entries : l = LineOf(e, Len(root) + 1) \/ l \in h[LineOf(e, Len(root) + 1).path]
      <4>1. root \in Paths /\ l \in Drawn(entries, h, root)
        BY <1>2, <1>3, <1>6
      <4> QED
        BY <4>1, DrawnLines
    <3> QED
      BY <3>1, <1>r
  <2>2. ~(l \in h[LineOf(e, 1).path])
    <3>1. LineOf(e, 1).path \in Paths /\ Len(LineOf(e, 1).path) = 1
      BY <1>4
    <3>2. l \in h[LineOf(e, 1).path] => Len(l.path) > 1
      BY <1>1, <3>1, DrawnLonger
    <3> QED
      BY <1>6, <3>2
  <2> QED
    BY <1>4, <2>1, <2>2
<1> QED
  BY <1>1, <1>2, <1>5, <1>6

----------------------------------------------------------------------------
(* Names that class_info does not begin *)

\* What is named class_info, or something that begins so.
Shadows == {ClassInfo} \cup {n \in Names : <<ClassInfo, n>> \in Begins}
Clear(p) == p[1] \notin Shadows

\* Nobody gives a file or folder such a name, and none has it but the class's row.
NamesApart ==
    /\ \A u \in Users : \A r \in Requests[u] : Clear(r.arg) /\ r.to \notin Shadows
    /\ \A k \in StartRows : k = InfoKey \/ Clear(k.path)

\* The class's row is there, and everything else has another name.
Plain ==
    /\ InfoKey \in rows
    /\ \A k \in rows : k = InfoKey \/ Clear(k.path)
    /\ \A h \in Holders : \A f \in lists[h] : Clear(f)
    /\ \A u \in Users : dir[u] # <<>> => Clear(dir[u])
    /\ \A u \in Users : pc[u] # "idle" =>
          /\ Clear(job[u].key.path)
          /\ job[u].kind \in {"rename", "renamefile"} => Clear(job[u].to)

\* No row is deeper than the bound, nor will be when the requests have run.
Shallow ==
    /\ \A k \in rows : Len(k.path) <= MaxDepth
    /\ \A u \in Users : pc[u] # "idle" =>
          /\ job[u].kind \in {"mkdir", "upload"} => Len(job[u].key.path) <= MaxDepth
          /\ job[u].kind = "renamefile" => Len(job[u].to) <= MaxDepth

\* The names of a new request.
LEMMA Begun ==
    ASSUME Inv, NamesApart, Plain, NEW u \in Users,
           MakeDirectory(u) \/ Upload(u) \/ Delete(u) \/ Rename(u) \/ RenameDirectory(u)
    PROVE  \E j, step : /\ Start(u, j, step) /\ Clear(j.key.path)
                        /\ j.kind \in {"rename", "renamefile"} => Clear(j.to)
                        /\ j.kind \in {"mkdir", "upload"} => Len(j.key.path) <= MaxDepth
                        /\ j.kind = "renamefile" => Len(j.to) <= MaxDepth
<1> DEFINE d == dir[u]
<1>1. ASSUME NEW r \in Requests[u]
      PROVE  Clear(d \o r.arg) /\ Clear(d \o <<r.to>>)
  <2>1. r.arg \in Paths \ {<<>>} /\ r.to \in Names /\ Clear(r.arg) /\ r.to \notin Shadows
    BY ClassroomAssumption DEF NamesApart
  <2>2. <<r.to>> \in Paths \ {<<>>} /\ <<r.to>>[1] = r.to
    BY <2>1 DEF Paths
  <2>3. d \in Paths /\ (d # <<>> => Clear(d))
    BY DEF Plain, Inv, TypeOK
  <2> HIDE DEF d
  <2>4. ASSUME NEW a \in Paths \ {<<>>}, Clear(a) PROVE Clear(d \o a)
    BY <2>3, <2>4, Joined DEF Clear
  <2> QED
    BY <2>1, <2>2, <2>4 DEF Clear
<1> HIDE DEF d
<1>2. CASE MakeDirectory(u)
  <2>1. PICK r \in Requests[u] :
           /\ Len(d \o r.arg) <= MaxDepth
           /\ Start(u, Job(u, "mkdir", d \o r.arg, d \o r.arg, Folder(d \o r.arg),
                           MkdirHolders(u, d, lists[u])), "list")
    BY <1>2 DEF MakeDirectory, d
  <2> DEFINE j == Job(u, "mkdir", d \o r.arg, d \o r.arg, Folder(d \o r.arg),
                      MkdirHolders(u, d, lists[u]))
  <2>2. j.kind = "mkdir" /\ j.key.path = d \o r.arg
    BY DEF Job, Folder
  <2>3. Start(u, j, "list") /\ Len(d \o r.arg) <= MaxDepth
    BY <2>1
  <2> HIDE DEF j
  <2> QED
    BY <1>1, <2>2, <2>3
<1>3. CASE Upload(u)
  <2>1. PICK r \in Requests[u] :
           /\ Len(d \o r.arg) <= MaxDepth
           /\ Start(u, Job(u, "upload", d, d, File(d \o r.arg), {}), "row")
    BY <1>3 DEF Upload, d
  <2> DEFINE j == Job(u, "upload", d, d, File(d \o r.arg), {})
  <2>2. j.kind = "upload" /\ j.key.path = d \o r.arg
    BY DEF Job, File
  <2>3. Start(u, j, "row") /\ Len(d \o r.arg) <= MaxDepth
    BY <2>1
  <2> HIDE DEF j
  <2> QED
    BY <1>1, <2>2, <2>3
<1>4. CASE Delete(u)
  <2>1. PICK r \in Requests[u] :
           \/ Start(u, Job(u, "deletefile", d, d \o r.arg, File(d \o r.arg), {}), "rows")
           \/ Start(u, Job(u, "delete", d \o r.arg, <<>>, Folder(d \o r.arg), {}), "rows")
    BY <1>4 DEF Delete, d
  <2> DEFINE i == Job(u, "deletefile", d, d \o r.arg, File(d \o r.arg), {})
             j == Job(u, "delete", d \o r.arg, <<>>, Folder(d \o r.arg), {})
  <2>2. /\ i.kind = "deletefile" /\ i.key.path = d \o r.arg
        /\ j.kind = "delete" /\ j.key.path = d \o r.arg
    BY DEF Job, File, Folder
  <2>3. Start(u, i, "rows") \/ Start(u, j, "rows")
    BY <2>1
  <2> HIDE DEF i, j
  <2> QED
    BY <1>1, <2>2, <2>3
<1>5. CASE Rename(u)
  <2>1. PICK r \in Requests[u] :
           /\ Len(d \o <<r.to>>) <= MaxDepth
           /\ Start(u, Job(u, "renamefile", d, d \o <<r.to>>, File(d \o r.arg), {}), "rows")
    BY <1>5 DEF Rename, d
  <2> DEFINE j == Job(u, "renamefile", d, d \o <<r.to>>, File(d \o r.arg), {})
  <2>2. j.kind = "renamefile" /\ j.key.path = d \o r.arg /\ j.to = d \o <<r.to>>
    BY DEF Job, File
  <2>3. Start(u, j, "rows") /\ Len(d \o <<r.to>>) <= MaxDepth
    BY <2>1
  <2> HIDE DEF j
  <2> QED
    BY <1>1, <2>2, <2>3
<1>6. CASE RenameDirectory(u)
  <2>1. PICK r \in Requests[u] :
           Start(u, Job(u, "rename", d \o r.arg, d \o <<r.to>>, Folder(d \o r.arg), {}), "rows")
    BY <1>6 DEF RenameDirectory, d
  <2> DEFINE j == Job(u, "rename", d \o r.arg, d \o <<r.to>>, Folder(d \o r.arg), {})
  <2>2. j.kind = "rename" /\ j.key.path = d \o r.arg /\ j.to = d \o <<r.to>>
    BY DEF Job, Folder
  <2>3. Start(u, j, "rows")
    BY <2>1
  <2> HIDE DEF j
  <2> QED
    BY <1>1, <2>2, <2>3
<1> QED
  BY <1>2, <1>3, <1>4, <1>5, <1>6

\* A member who goes one level down or up is in a folder with a plain name.
LEMMA EntersPlain ==
    ASSUME Inv, Plain, NEW u \in Users, ChangeDirectory(u), dir'[u] # <<>>
    PROVE  Clear(dir'[u])
<1>1. PICK d : /\ Enters(u, d)
               /\ \/ \E n \in Names : d = dir[u] \o <<n>> /\ MayEnter(u, d, rows, lists)
                  \/ dir[u] # <<>> /\ d = SubSeq(dir[u], 1, Len(dir[u]) - 1)
  BY DEF ChangeDirectory
<1>2. dir \in [Users -> Paths] /\ dir[u] \in Paths /\ (dir[u] # <<>> => Clear(dir[u]))
  BY DEF Inv, TypeOK, Plain
<1>3. dir'[u] = d
  BY <1>1, <1>2 DEF Enters
<1>4. CASE dir[u] # <<>> /\ d = SubSeq(dir[u], 1, Len(dir[u]) - 1)
  BY <1>2, <1>3, <1>4, Above DEF Clear
<1>5. ASSUME NEW n \in Names, d = dir[u] \o <<n>>, MayEnter(u, d, rows, lists)
      PROVE  Clear(d)
  <2>1. ASSUME d \in lists[u] \cup lists[Class] PROVE Clear(d)
    BY <2>1 DEF Plain, Holders
  <2>2. ASSUME Folder(d) \in rows PROVE Clear(d)
    <3>1. Folder(d) # InfoKey /\ Folder(d).path = d
      BY DEF Folder, InfoKey, File
    <3> QED
      BY <2>2, <3>1 DEF Plain
  <2> QED
    BY <1>5, <2>1, <2>2 DEF MayEnter, Allowed
<1> QED
  BY <1>1, <1>3, <1>4, <1>5

\* Every step keeps the names plain.
LEMMA PlainStep ==
    ASSUME Inv, NamesApart, Plain, [Next]_vars
    PROVE  Plain'
<1>1. ASSUME NEW u \in Users,
             MakeDirectory(u) \/ Upload(u) \/ Delete(u) \/ Rename(u) \/ RenameDirectory(u)
      PROVE  Plain'
  <2>1. PICK j, step : /\ Start(u, j, step) /\ Clear(j.key.path)
                       /\ j.kind \in {"rename", "renamefile"} => Clear(j.to)
    BY <1>1, Begun
  <2>2. /\ UNCHANGED <<rows, lists, dir>>
        /\ \A v \in Users : (v = u /\ job'[v] = j) \/ (job'[v] = job[v] /\ pc'[v] = pc[v])
    BY <2>1 DEF Start, Inv, TypeOK
  <2>3. \A v \in Users : pc'[v] # "idle" =>
           /\ Clear(job'[v].key.path)
           /\ job'[v].kind \in {"rename", "renamefile"} => Clear(job'[v].to)
    BY <2>1, <2>2 DEF Plain
  <2> QED
    BY <2>2, <2>3 DEF Plain, Clear
<1>2. ASSUME NEW u \in Users, Works(u) PROVE Plain'
  <2>1. /\ dir' = dir /\ lists \in ListType /\ pc[u] # "idle"
        /\ \A k \in (rows \ rows') \cup (rows' \ rows) : InRoots(job[u], k.path)
        /\ \A h \in Holders : \A f \in lists'[h] \ lists[h] : InRoots(job[u], f)
    BY <1>2 DEF Works, Inv, TypeOK, ListType
  <2>2. ASSUME NEW p, InRoots(job[u], p) PROVE Clear(p)
    BY <2>1, <2>2 DEF Plain, InRoots, Clear
  <2>3. \A v \in Users : pc'[v] # "idle" => pc[v] # "idle" /\ job'[v] = job[v]
    BY <1>2, OthersWork DEF Inv
  <2>4. ~ Clear(InfoKey.path)
    BY DEF Clear, Shadows, InfoKey, File
  <2>5. InfoKey \in rows' /\ \A k \in rows' : k = InfoKey \/ Clear(k.path)
    BY <2>1, <2>2, <2>4 DEF Plain
  <2>6. \A h \in Holders : \A f \in lists'[h] : Clear(f)
    BY <2>1, <2>2 DEF Plain
  <2>7. \A v \in Users : pc'[v] # "idle" =>
           /\ Clear(job'[v].key.path)
           /\ job'[v].kind \in {"rename", "renamefile"} => Clear(job'[v].to)
    BY <2>3 DEF Plain
  <2> QED
    BY <2>1, <2>5, <2>6, <2>7 DEF Plain, Clear
<1>3. ASSUME NEW u \in Users, ChangeDirectory(u) PROVE Plain'
  <2>1. /\ UNCHANGED <<rows, lists, pc, job>>
        /\ \A v \in Users : v # u => dir'[v] = dir[v]
    BY <1>3 DEF ChangeDirectory, Enters, Inv, TypeOK
  <2>2. \A v \in Users : dir'[v] # <<>> => Clear(dir'[v])
    BY <1>3, <2>1, EntersPlain DEF Plain
  <2> QED
    BY <2>1, <2>2 DEF Plain, Clear
<1>4. CASE UNCHANGED vars
  BY <1>4 DEF vars, Plain, Clear
<1> QED
  BY <1>1, <1>2, <1>3, <1>4, AllWorks DEF Next

\* A file's row is put, or a folder's rows move: the new ones are no deeper.
LEMMA NewRowShallow ==
    ASSUME Together, RenamesOneName, Shallow, NEW u \in Users,
           PutRow(u) \/ FileRow(u) \/ MoveRows(u), NEW k \in rows'
    PROVE  Len(k.path) <= MaxDepth
<1>1. pc[u] # "idle" /\ job[u] \in JobType /\ Kept(job[u], pc[u]) /\ rows \subseteq RowType
  BY InFlight DEF Together, PutRow, FileRow, MoveRows
<1>2. CASE PutRow(u)
  BY <1>1, <1>2 DEF PutRow, Kept, Shallow
<1>3. CASE FileRow(u)
  BY <1>1, <1>3 DEF FileRow, Kept, Shallow, File
<1>4. CASE MoveRows(u)
  <2>1. /\ pc[u] = "rows" /\ job[u].kind = "rename" /\ Removes(job[u])
        /\ \/ rows' = rows
           \/ \E done \in SUBSET Found(u) : rows' = RowsRenamed(job[u], done)
    BY <1>4 DEF MoveRows, Removes
  <2>2. Len(job[u].to) = Len(job[u].folder) /\ job[u].to \in Paths /\ job[u].folder \in Paths
    <3>1. dir[u] \in Paths /\ job[u].to \in Paths /\ job[u].folder \in Paths
      BY <1>1 DEF Together, Inv, TypeOK, JobType
    <3>2. \A n \in Names : <<n>> \in Paths /\ Len(<<n>>) = 1
      BY DEF Paths
    <3>3. \A n \in Names : Len(dir[u] \o <<n>>) = Len(dir[u]) + 1
      BY <3>1, <3>2, Joined
    <3> QED
      BY <1>1, <2>1, <3>1, <3>3 DEF Together, Placed, Place
  <2>3. ASSUME NEW r \in Found(u) PROVE Len(Moved(job[u], r.path)) = Len(r.path) /\ r \in rows
    <3>1. r \in rows /\ r.path \in Paths /\ Inside(job[u].folder, r.path)
      BY <2>1, FoundRows DEF Together
    <3>2. Moved(job[u], r.path) = Shift(job[u].folder, job[u].to, r.path)
      BY DEF Moved, Shift
    <3>3. Len(Shift(job[u].folder, job[u].to, r.path))
             = Len(job[u].to) + (Len(r.path) - Len(job[u].folder))
      BY <2>2, <3>1, ShiftParts
    <3>4. Len(job[u].to) \in Nat /\ Len(r.path) \in Nat
      BY <2>2, <3>1 DEF Paths
    <3> QED
      BY <2>2, <3>1, <3>2, <3>3, <3>4
  <2>4. ASSUME NEW done \in SUBSET Found(u), rows' = RowsRenamed(job[u], done)
        PROVE  k \in rows \/ \E r \in done : k.path = Moved(job[u], r.path)
    <3>1. rows' = (rows \cup {[r EXCEPT !.path = Moved(job[u], r.path)] : r \in done}) \ done
      BY <2>4 DEF RowsRenamed
    <3>2. \A r \in done : [r EXCEPT !.path = Moved(job[u], r.path)].path = Moved(job[u], r.path)
      BY <1>1, <2>3 DEF RowType
    <3> QED
      BY <3>1, <3>2
  <2> QED
    BY <2>1, <2>3, <2>4 DEF Shallow
<1> QED
  BY <1>2, <1>3, <1>4

\* Every step keeps the rows shallow.
LEMMA ShallowStep ==
    ASSUME Together, RenamesOneName, NamesApart, Plain, Shallow, [Next]_vars
    PROVE  Shallow'
<1>0. Inv
  BY DEF Together
<1>1. ASSUME NEW u \in Users,
             MakeDirectory(u) \/ Upload(u) \/ Delete(u) \/ Rename(u) \/ RenameDirectory(u)
      PROVE  Shallow'
  <2>1. PICK j, step : /\ Start(u, j, step)
                       /\ j.kind \in {"mkdir", "upload"} => Len(j.key.path) <= MaxDepth
                       /\ j.kind = "renamefile" => Len(j.to) <= MaxDepth
    BY <1>0, <1>1, Begun
  <2>2. /\ rows' = rows
        /\ \A v \in Users : (v = u /\ job'[v] = j) \/ (job'[v] = job[v] /\ pc'[v] = pc[v])
    BY <1>0, <2>1 DEF Start, Inv, TypeOK
  <2> QED
    BY <2>1, <2>2 DEF Shallow
<1>2. ASSUME NEW u \in Users, Works(u), \A k \in rows' : Len(k.path) <= MaxDepth PROVE Shallow'
  <2>1. \A v \in Users : pc'[v] # "idle" => pc[v] # "idle" /\ job'[v] = job[v]
    BY <1>0, <1>2, OthersWork DEF Inv
  <2> QED
    BY <1>2, <2>1 DEF Shallow
<1>3. ASSUME NEW u \in Users,
             AppendToList(u) \/ DropRows(u) \/ CleanLists(u) \/ MoveLists(u) \/ Fails(u)
      PROVE  Shallow'
  <2>1. rows' \subseteq rows
    BY <1>3 DEF AppendToList, DropRows, CleanLists, MoveLists, Fails
  <2> QED
    BY <1>0, <1>2, <1>3, <2>1, AllWorks DEF Shallow
<1>4. ASSUME NEW u \in Users, PutRow(u) \/ FileRow(u) \/ MoveRows(u) PROVE Shallow'
  BY <1>0, <1>2, <1>4, AllWorks, NewRowShallow
<1>5. ASSUME NEW u \in Users, ChangeDirectory(u) PROVE Shallow'
  BY <1>5 DEF ChangeDirectory, Enters, Shallow
<1>6. CASE UNCHANGED vars
  BY <1>6 DEF vars, Shallow
<1> QED
  BY <1>1, <1>3, <1>4, <1>5, <1>6 DEF Next

\* They are plain and shallow at the start.
LEMMA PlainInit == ASSUME Init, NamesApart PROVE Plain /\ Shallow
<1>1. /\ InfoKey \in rows /\ \A k \in rows : (k = InfoKey \/ Clear(k.path)) /\ Len(k.path) <= MaxDepth
  BY ClassroomAssumption, StartAssumption DEF Init, NamesApart
<1>2. ASSUME NEW h \in Holders, NEW f \in lists[h] PROVE Clear(f)
  <2>1. f \in UNION {StartLists[i] : i \in Holders}
    BY <1>2 DEF Init
  <2>2. PICK k \in StartRows : k.dir /\ k.path = f
    BY <2>1, StartAssumption
  <2>3. k # InfoKey
    BY <2>2 DEF InfoKey, File
  <2> QED
    BY <2>2, <2>3 DEF NamesApart
<1> QED
  BY <1>1, <1>2 DEF Init, Plain, Shallow

----------------------------------------------------------------------------
(* ls and tree *)

\* In a class at rest, what ls shows of the folder p is what begins tree's
\* answer there, but for the class's row.
LEMMA SameEntries ==
    ASSUME TypeOK, Plain, NEW u \in Users, NEW p \in Paths,
           \A h \in Holders : \A f \in lists[h] : Folder(f) \in rows,
           NEW k
    PROVE  /\ k \in Below({Folder(f) : f \in Allowed(u, lists)} \cup Shown(u, rows, lists), p)
                 => \/ /\ k \in rows /\ k # InfoKey
                       /\ HasPrefix(k, Folder(p)) /\ k # Folder(p)
                       /\ u \in Staff \/ Visible(k, Allowed(u, lists))
                    \/ k = InfoKey /\ u \in Staff /\ p = <<>>
           /\ \/ /\ k \in rows /\ k # InfoKey
                 /\ HasPrefix(k, Folder(p)) /\ k # Folder(p)
                 /\ u \in Staff \/ Visible(k, Allowed(u, lists))
              \/ k = InfoKey /\ u \in Staff /\ p = <<>>
              => k \in Below(Shown(u, rows, lists), p)
<1> DEFINE folders == Allowed(u, lists)
<1>1. rows \subseteq RowType /\ InfoKey \in rows
  BY DEF TypeOK, RowType, Plain
<1>2. ASSUME NEW f \in folders
      PROVE  f \in Paths \ {<<>>} /\ Folder(f) \in rows /\ Clear(f) /\ Folder(f) # InfoKey
  <2>1. f \in lists[u] \/ f \in lists[Class]
    BY DEF Allowed
  <2>2. f \in Paths \ {<<>>} /\ Folder(f) \in rows /\ Clear(f)
    BY <2>1 DEF TypeOK, Plain, Holders
  <2> QED
    BY <2>2 DEF Folder, InfoKey, File
<1>3. ASSUME NEW f \in folders PROVE Visible(Folder(f), folders)
  <2>1. /\ Folder(f) \in Keys /\ Folder(f).path = f /\ Folder(f).dir
        /\ f \in Paths /\ Inside(f, f)
    BY <1>2, InsideRefl DEF Folder, Keys
  <2>2. HasPrefix(Folder(f), Folder(f))
    BY <2>1, InsidePrefix
  <2> QED
    BY <2>2 DEF Visible
<1>4. ~ Visible(InfoKey, folders)
  <2>1. ASSUME NEW f \in folders PROVE ~HasPrefix(InfoKey, Folder(f)) /\ ~HasPrefix(Folder(f), InfoKey)
    <3>1. /\ f \in Paths /\ f # <<>> /\ Len(f) \in Nat /\ Len(f) >= 1 /\ f[1] \in Names
          /\ f[1] # ClassInfo /\ <<ClassInfo, f[1]>> \notin Begins
      BY <1>2, FirstName DEF Clear, Shadows
    <3>2. /\ InfoKey.path = <<ClassInfo>> /\ InfoKey.dir = FALSE /\ Len(<<ClassInfo>>) = 1
          /\ <<ClassInfo>>[1] = ClassInfo /\ Folder(f).path = f /\ Folder(f).dir = TRUE
      BY DEF InfoKey, File, Folder
    <3>3. ~HasPrefix(InfoKey, Folder(f))
      BY <3>1, <3>2 DEF HasPrefix
    <3>4. ~HasPrefix(Folder(f), InfoKey)
      BY <3>1, <3>2 DEF HasPrefix
    <3> QED
      BY <3>3, <3>4
  <2> QED
    BY <2>1 DEF Visible
<1>5. InfoKey # Folder(p) /\ (HasPrefix(InfoKey, Folder(p)) <=> p = <<>>)
  <2>1. /\ InfoKey.path = <<ClassInfo>> /\ InfoKey.dir = FALSE /\ Len(<<ClassInfo>>) = 1
        /\ Folder(p).path = p /\ Folder(p).dir = TRUE
    BY DEF InfoKey, File, Folder
  <2>2. p # <<>> => Len(p) \in Nat /\ Len(p) >= 1
    BY FirstName
  <2>3. Len(<<>>) = 0
    OBVIOUS
  <2> QED
    BY <2>1, <2>2, <2>3 DEF HasPrefix
<1> HIDE DEF folders
<1>6. Shown(u, rows, lists) = {r \in rows : u \in Staff \/ Visible(r, folders)}
  BY DEF Shown, folders
<1>7. ASSUME k \in Below({Folder(f) : f \in folders} \cup Shown(u, rows, lists), p)
      PROVE  \/ /\ k \in rows /\ k # InfoKey
                /\ HasPrefix(k, Folder(p)) /\ k # Folder(p)
                /\ u \in Staff \/ Visible(k, folders)
             \/ k = InfoKey /\ u \in Staff /\ p = <<>>
  <2>1. /\ HasPrefix(k, Folder(p)) /\ k # Folder(p)
        /\ k \in {Folder(f) : f \in folders} \/ k \in Shown(u, rows, lists)
    BY <1>7 DEF Below
  <2>2. k \in rows /\ (u \in Staff \/ Visible(k, folders))
    BY <1>2, <1>3, <1>6, <2>1
  <2> QED
    BY <1>4, <1>5, <2>1, <2>2
<1>8. ASSUME \/ /\ k \in rows /\ k # InfoKey
                /\ HasPrefix(k, Folder(p)) /\ k # Folder(p)
                /\ u \in Staff \/ Visible(k, folders)
             \/ k = InfoKey /\ u \in Staff /\ p = <<>>
      PROVE  k \in Below(Shown(u, rows, lists), p)
  BY <1>1, <1>5, <1>6, <1>8 DEF Below
<1> QED
  BY <1>7, <1>8 DEF folders

\* A row below p as tree's answer has it.
Answered(k, p, prefix) == [k EXCEPT !.path = prefix \o SubSeq(@, Len(p) + 1, Len(@))]

\* What it says, and how long it is.
LEMMA Relative ==
    ASSUME NEW k \in RowType, NEW p \in Paths, NEW prefix \in Paths,
           HasPrefix(k, Folder(p)),
           NEW e, e = Answered(k, p, prefix)
    PROVE  /\ e \in Keys /\ Len(e.path) = Len(prefix) + (Len(k.path) - Len(p)) /\ e.dir = k.dir
           /\ Len(p) \in Nat /\ Len(k.path) \in Nat /\ Len(p) <= Len(k.path)
           /\ prefix # <<>> => e.path # <<>> /\ e.path[1] = prefix[1]
           /\ prefix = <<>> => /\ e = Folder(<<>>) <=> k = Folder(p)
                               /\ k # Folder(p) => e.path # <<>> /\ Child(e, <<>>) = Child(k, p)
<1> DEFINE c == SubSeq(k.path, Len(p) + 1, Len(k.path))
<1>1. /\ k.path \in Paths /\ k.dir \in BOOLEAN /\ k \in Keys
      /\ Len(p) \in Nat /\ Len(k.path) \in Nat /\ k.path \in Seq(Names)
      /\ k = [path |-> k.path, dir |-> k.dir]
  BY DEF RowType, Keys, Paths
<1>2. Inside(p, k.path) /\ Len(p) <= Len(k.path)
  BY <1>1, PrefixInside DEF Inside
<1>3. /\ c \in Seq(Names) /\ Len(c) = Len(k.path) - Len(p)
      /\ \A i \in 1 .. Len(k.path) - Len(p) : c[i] = k.path[Len(p) + i]
  BY <1>1, <1>2, SubSeqProperties
<1>4. e = [path |-> prefix \o c, dir |-> k.dir]
  BY <1>1 DEF Answered
<1> HIDE DEF c
<1>5. c \in Paths
  BY <1>3 DEF Paths
<1>6. /\ prefix \o c \in Paths /\ Len(prefix \o c) = Len(prefix) + Len(c)
      /\ prefix # <<>> => prefix \o c # <<>> /\ (prefix \o c)[1] = prefix[1]
      /\ prefix = <<>> => prefix \o c = c
  BY <1>5, Joined
<1>7. ASSUME k # Folder(p) PROVE Len(p) < Len(k.path)
  <2>1. k \in Below({k}, p)
    BY <1>7 DEF Below
  <2>2. {k} \in SUBSET RowType
    OBVIOUS
  <2> QED
    BY <2>1, <2>2, BelowByParts
<1>8. ASSUME prefix = <<>>
      PROVE  /\ e = Folder(<<>>) <=> k = Folder(p)
             /\ k # Folder(p) => e.path # <<>> /\ Child(e, <<>>) = Child(k, p)
  <2>1. e = [path |-> c, dir |-> k.dir] /\ e.path = c /\ e.dir = k.dir
    <3> DEFINE q == prefix \o c
    <3>1. q = c
      BY <1>6, <1>8
    <3>2. e = [path |-> q, dir |-> k.dir]
      BY <1>4
    <3> HIDE DEF q
    <3> QED
      BY <3>1, <3>2
  <2>2. ASSUME k = Folder(p) PROVE e = Folder(<<>>)
    <3>1. k.path = p /\ k.dir = TRUE
      BY <2>2 DEF Folder
    <3>2. c = <<>>
      BY <1>1, <1>3, <3>1, EmptySeq
    <3> QED
      BY <2>1, <3>1, <3>2 DEF Folder
  <2>3. ASSUME k # Folder(p) PROVE c # <<>> /\ e # Folder(<<>>) /\ Child(e, <<>>) = Child(k, p)
    <3>1. Len(c) \in Nat /\ Len(c) >= 1 /\ Len(c) = Len(k.path) - Len(p) /\ c[1] = k.path[Len(p) + 1]
      <4>1. Len(p) < Len(k.path)
        BY <1>7, <2>3
      <4>2. 1 \in 1 .. Len(k.path) - Len(p)
        BY <1>1, <4>1
      <4>3. c[1] = k.path[Len(p) + 1]
        BY <1>3, <4>2
      <4> QED
        BY <1>1, <1>3, <4>1, <4>3
    <3>2. c # <<>>
      BY <3>1
    <3>3. e # Folder(<<>>)
      BY <2>1, <3>2 DEF Folder
    <3>4. Child(k, p) = [path |-> <<k.path[Len(p) + 1]>>, dir |-> k.dir \/ Len(p) + 1 < Len(k.path)]
      BY DEF Child
    <3>5. Child(e, <<>>) = [path |-> <<c[1]>>, dir |-> k.dir \/ 1 < Len(c)]
      <4>1. Len(<<>>) + 1 = 1
        OBVIOUS
      <4> QED
        BY <2>1, <4>1 DEF Child
    <3>6. 1 < Len(c) <=> Len(p) + 1 < Len(k.path)
      BY <1>1, <3>1
    <3> QED
      BY <3>1, <3>2, <3>3, <3>4, <3>5, <3>6
  <2> QED
    BY <2>1, <2>2, <2>3
<1>9. e \in Keys /\ Len(e.path) = Len(prefix) + (Len(k.path) - Len(p)) /\ e.dir = k.dir
      /\ (prefix # <<>> => e.path # <<>> /\ e.path[1] = prefix[1])
  <2> DEFINE q == prefix \o c
  <2>1. e = [path |-> q, dir |-> k.dir]
    BY <1>4
  <2>2. /\ q \in Paths /\ Len(q) = Len(prefix) + (Len(k.path) - Len(p))
        /\ prefix # <<>> => q # <<>> /\ q[1] = prefix[1]
    BY <1>3, <1>6
  <2> HIDE DEF q
  <2>3. e.path = q /\ e.dir = k.dir /\ e = [path |-> q, dir |-> k.dir]
    BY <2>1
  <2>4. e \in Keys
    BY <1>1, <2>1, <2>2 DEF Keys
  <2> QED
    BY <2>2, <2>3, <2>4
<1> QED
  BY <1>1, <1>2, <1>8, <1>9

\* The directories ls and tree are asked for, below the college and the class.
LEMMA WithinClass ==
    ASSUME NEW p \in Paths, NEW cd, cd = <<College, Class>> \o p
    PROVE  /\ GetDepth(cd) \in Nat /\ GetDepth(cd) >= 2 /\ PathWithinClass(cd) = p
           /\ cd = <<College, Class>> <=> p = <<>>
<1> DEFINE top == <<College, Class>>
           q == SubSeq(cd, 3, Len(cd))
<1>1. /\ top \in Seq(Names) /\ Len(top) = 2 /\ p \in Seq(Names) /\ Len(p) \in Nat
      /\ top \in Paths
  BY AccessAssumption DEF Paths
<1>2. cd = top \o p
  OBVIOUS
<1> HIDE DEF top
<1>3. /\ cd \in Seq(Names) /\ Len(cd) = 2 + Len(p)
      /\ \A i \in 1 .. Len(p) : cd[2 + i] = p[i]
  <2>1. /\ cd \in Seq(Names) /\ Len(cd) = Len(top) + Len(p)
        /\ \A i \in 1 .. Len(top) + Len(p) : cd[i] = IF i <= Len(top) THEN top[i] ELSE p[i - Len(top)]
    BY <1>1, <1>2, ConcatProperties
  <2>2. ASSUME NEW i \in 1 .. Len(p) PROVE cd[2 + i] = p[i]
    <3>1. 2 + i \in 1 .. 2 + Len(p) /\ ~(2 + i <= 2) /\ (2 + i) - 2 = i
      BY <1>1
    <3> QED
      BY <1>1, <2>1, <3>1
  <2> QED
    BY <1>1, <2>1, <2>2
<1>4. /\ q \in Seq(Names) /\ Len(q) = Len(p)
      /\ \A i \in 1 .. Len(p) : q[i] = p[i]
  <2>1. /\ Len(cd) \in Int /\ 3 \in Int /\ Len(cd) - 3 + 1 = Len(p)
        /\ (IF 3 <= Len(cd) THEN Len(cd) - 3 + 1 ELSE 0) = Len(p)
        /\ \A i \in 3 .. Len(cd) : cd[i] \in Names
    <3>1. cd \in Seq(Names) /\ Len(cd) \in Nat
      BY <1>3
    <3>2. ASSUME NEW i \in 3 .. Len(cd) PROVE cd[i] \in Names
      <4>1. i \in 1 .. Len(cd)
        BY <3>1
      <4> QED
        BY <3>1, <4>1, ElementOfSeq
    <3>3. Len(cd) = 2 + Len(p) /\ Len(p) \in Nat
      BY <1>1, <1>3
    <3>4. Len(cd) \in Int /\ Len(cd) - 3 + 1 = Len(p) /\ (IF 3 <= Len(cd) THEN Len(cd) - 3 + 1 ELSE 0) = Len(p)
      BY <3>1, <3>3
    <3> QED
      BY <3>2, <3>4
  <2>2. /\ q \in Seq(Names) /\ Len(q) = Len(p)
        /\ \A i \in 1 .. Len(p) : q[i] = cd[3 + i - 1]
    <3> HIDE <1>2, <1>3
    <3> QED
      BY <2>1, SubSeqProperties
  <2>3. \A i \in 1 .. Len(p) : 3 + i - 1 = 2 + i
    BY <1>1
  <2> HIDE DEF q
  <2> QED
    BY <1>3, <2>2, <2>3
<1> HIDE DEF q
<1>5. q = p
  <2>1. q \in Paths
    BY <1>4 DEF Paths
  <2> QED
    BY <1>1, <1>4, <2>1, SamePath
<1>6. cd = top <=> p = <<>>
  <2>1. ASSUME cd = top PROVE Len(p) = 0
    <3> DEFINE size == Len(cd)
    <3>1. size = 2
      BY <1>1, <2>1, Zenon
    <3>2. size = 2 + Len(p) /\ Len(p) \in Nat
      BY <1>1, <1>3, Zenon
    <3> HIDE DEF size
    <3> QED
      BY <3>1, <3>2
  <2>2. p = <<>> => cd = top
    <3>1. ASSUME p = <<>> PROVE cd = top
      <4>1. Len(p) = 0
        BY <3>1
      <4>2. Len(cd) = 2
        BY <1>3, <4>1
      <4>3. \A i \in 1 .. 2 : cd[i] = top[i]
        <5>1. \A i \in 1 .. Len(top) + Len(p) : cd[i] = IF i <= Len(top) THEN top[i] ELSE p[i - Len(top)]
          BY <1>1, <1>2, ConcatProperties
        <5> QED
          BY <1>1, <4>1, <5>1
      <4>4. cd \in Paths
        BY <1>3 DEF Paths
      <4> QED
        BY <1>1, <4>2, <4>3, <4>4, SamePath
    <3> QED
      BY <3>1
  <2>3. Len(p) = 0 => p = <<>>
    BY <1>1, EmptySeq
  <2> QED
    BY <2>1, <2>2, <2>3
<1> QED
  BY <1>1, <1>3, <1>5, <1>6 DEF GetDepth, PathWithinClass, q, top

\* Above the class every entry begins with the same component.
LEMMA OneRoot ==
    ASSUME TypeOK, Shallow, NEW u \in Users, NEW top \in Paths, top # <<>>,
           NEW above \in SUBSET RowType, above # {},
           \A e \in above : e.dir /\ e.path[1] = top[1] /\ Len(e.path) <= Len(top)
    PROVE  {c \in RenderTree(above \cup QueryClassEntries(u, <<>>, top, rows, lists)) : Len(c.path) = 1}
              = {Folder(<<top[1]>>)}
<1> DEFINE Q == QueryClassEntries(u, <<>>, top, rows, lists)
           ES == above \cup Q
           m == MaxDepth + Len(top)
<1>1. /\ rows \subseteq RowType /\ MaxDepth \in Nat /\ <<>> \in Paths /\ Len(<<>>) = 0
      /\ Len(top) \in Nat /\ Len(top) >= 1
  BY ClassroomAssumption, EmptySeq DEF TypeOK, RowType, Paths
<1>2. ASSUME NEW e \in Q
      PROVE  e \in RowType /\ e.path[1] = top[1] /\ Len(e.path) <= m /\ 1 < Len(e.path)
  <2>1. PICK k \in rows : HasPrefix(k, Folder(<<>>)) /\ e = Answered(k, <<>>, top)
    BY DEF QueryClassEntries, Answered
  <2> DEFINE root == <<>>
  <2>2. root \in Paths /\ Len(root) = 0 /\ HasPrefix(k, Folder(root)) /\ k \in RowType
        /\ e = Answered(k, root, top)
    BY <1>1, <2>1
  <2> HIDE DEF root
  <2>3. /\ e \in Keys /\ Len(e.path) = Len(top) + (Len(k.path) - Len(root))
        /\ Len(k.path) \in Nat
        /\ top # <<>> => e.path # <<>> /\ e.path[1] = top[1]
    BY <2>2, Relative
  <2>4. e.path # <<>> /\ e.path[1] = top[1]
    BY <2>3
  <2>5. Len(k.path) <= MaxDepth
    BY DEF Shallow
  <2>6. e \in RowType
    BY <2>3, <2>4 DEF Keys, RowType
  <2>7. Len(k.path) >= 1
    BY <2>2, EmptySeq DEF RowType, Paths
  <2> QED
    BY <1>1, <2>2, <2>3, <2>4, <2>5, <2>6, <2>7
<1>3. ASSUME NEW e \in ES
      PROVE  /\ e \in RowType /\ Len(e.path) <= m
             /\ Child(e, <<>>) = Folder(<<top[1]>>)
  <2>1. /\ e \in RowType /\ Len(e.path) <= m /\ e.path[1] = top[1]
        /\ e.dir \in BOOLEAN /\ (e.dir \/ 1 < Len(e.path))
    <3>1. CASE e \in Q
      BY <1>2, <3>1 DEF RowType
    <3>2. CASE e \in above
      <4>1. e \in RowType /\ Len(e.path) \in Nat
        BY <3>2 DEF RowType, Paths
      <4> QED
        BY <1>1, <3>2, <4>1 DEF RowType
    <3> QED
      BY <3>1, <3>2
  <2>2. Len(<<>>) + 1 = 1
    OBVIOUS
  <2>3. Child(e, <<>>) = [path |-> <<e.path[1]>>, dir |-> e.dir \/ 1 < Len(e.path)]
    BY <2>2 DEF Child
  <2>4. (e.dir \/ 1 < Len(e.path)) = TRUE
    BY <2>1
  <2> QED
    BY <2>1, <2>3, <2>4 DEF Folder
<1>4. ES # {} /\ ES \in SUBSET RowType /\ m \in Nat
  BY <1>1, <1>3
<1> HIDE DEF ES, m
<1>5. {c \in RenderTree(ES) : Len(c.path) = 1} = {Child(e, <<>>) : e \in ES}
  BY <1>3, <1>4, FirstLevel
<1>6. {Child(e, <<>>) : e \in ES} = {Folder(<<top[1]>>)}
  BY <1>3, <1>4
<1> QED
  BY <1>5, <1>6 DEF ES

\* So at the root both show the college, and in the college the class.
LEMMA RootsAgree ==
    ASSUME TypeOK, Shallow, NEW u \in Users, NEW cd \in {<<>>, <<College>>}
    PROVE  ListDirectory(u, cd, rows, lists) =
              {c \in RenderTree(TreeDirectory(u, cd, rows, lists)) : Len(c.path) = 1}
<1>1. /\ Folder(<<College>>) \in RowType /\ Folder(<<College, Class>>) \in RowType
      /\ Folder(<<Class>>) \in RowType
      /\ <<Class>> \in Paths /\ <<College, Class>> \in Paths
      /\ <<Class>> # <<>> /\ <<College, Class>> # <<>>
  BY AccessAssumption DEF Folder, RowType, Paths
<1>2. CASE cd = <<>>
  <2> DEFINE top == <<College, Class>>
             above == {Folder(<<College>>), Folder(top)}
  <2>1. GetDepth(cd) = 0
    BY <1>2 DEF GetDepth
  <2>2. ListDirectory(u, cd, rows, lists) = {Folder(<<College>>)}
    BY <2>1 DEF ListDirectory
  <2>3. TreeDirectory(u, cd, rows, lists)
           = above \cup QueryClassEntries(u, <<>>, top, rows, lists)
    BY <2>1 DEF TreeDirectory
  <2>4. above \in SUBSET RowType /\ above # {} /\ top \in Paths /\ top # <<>> /\ top[1] = College
    BY <1>1
  <2>5. ASSUME NEW e \in above PROVE e.dir /\ e.path[1] = top[1] /\ Len(e.path) <= Len(top)
    <3>1. e.dir /\ e.path \in {<<College>>, top}
      BY DEF Folder
    <3>2. /\ <<College>>[1] = College /\ top[1] = College
          /\ Len(<<College>>) = 1 /\ Len(top) = 2
      OBVIOUS
    <3>3. CASE e.path = <<College>>
      BY <3>1, <3>2, <3>3
    <3>4. CASE e.path = top
      <4>1. Len(e.path) = 2
        BY <3>2, <3>4
      <4> QED
        BY <3>1, <3>2, <3>4, <4>1
    <3> QED
      BY <3>1, <3>3, <3>4
  <2> HIDE DEF top, above
  <2>6. {c \in RenderTree(above \cup QueryClassEntries(u, <<>>, top, rows, lists)) : Len(c.path) = 1}
           = {Folder(<<top[1]>>)}
    BY <2>4, <2>5, OneRoot
  <2> QED
    BY <2>2, <2>3, <2>4, <2>6
<1>3. CASE cd = <<College>>
  <2> DEFINE top == <<Class>>
             above == {Folder(top)}
  <2>1. GetDepth(cd) = 1
    BY <1>3 DEF GetDepth
  <2>2. ListDirectory(u, cd, rows, lists) = {Folder(<<Class>>)}
    BY <2>1 DEF ListDirectory
  <2>3. TreeDirectory(u, cd, rows, lists)
           = above \cup QueryClassEntries(u, <<>>, top, rows, lists)
    BY <2>1 DEF TreeDirectory
  <2>4. above \in SUBSET RowType /\ above # {} /\ top \in Paths /\ top # <<>> /\ top[1] = Class
    BY <1>1
  <2>5. ASSUME NEW e \in above PROVE e.dir /\ e.path[1] = top[1] /\ Len(e.path) <= Len(top)
    <3>1. e.dir /\ e.path = top
      BY DEF Folder
    <3>2. Len(top) = 1
      OBVIOUS
    <3>3. Len(e.path) = 1
      BY <3>1, <3>2
    <3> QED
      BY <3>1, <3>2, <3>3
  <2> HIDE DEF top, above
  <2>6. {c \in RenderTree(above \cup QueryClassEntries(u, <<>>, top, rows, lists)) : Len(c.path) = 1}
           = {Folder(<<top[1]>>)}
    BY <2>4, <2>5, OneRoot
  <2> QED
    BY <2>2, <2>3, <2>4, <2>6
<1> QED
  BY <1>2, <1>3

\* Inside the class both show the same names.
LEMMA ClassesAgree ==
    ASSUME TypeOK, Plain, Shallow, NEW u \in Users, NEW p \in Paths,
           \A h \in Holders : \A f \in lists[h] : Folder(f) \in rows,
           NEW cd, cd = <<College, Class>> \o p
    PROVE  ListDirectory(u, cd, rows, lists) =
              {c \in RenderTree(TreeDirectory(u, cd, rows, lists)) : Len(c.path) = 1}
              \cup IF u \in Staff /\ cd = <<College, Class>> THEN {InfoKey} ELSE {}
<1> DEFINE ks == Below({Folder(f) : f \in Allowed(u, lists)} \cup Shown(u, rows, lists), p)
           Q == QueryClassEntries(u, p, <<>>, rows, lists)
           InAnswer(k) == /\ k \in rows /\ k # InfoKey
                          /\ HasPrefix(k, Folder(p)) /\ k # Folder(p)
                          /\ u \in Staff \/ Visible(k, Allowed(u, lists))
           Rel(k) == Answered(k, p, <<>>)
<1>1. /\ GetDepth(cd) \in Nat /\ GetDepth(cd) >= 2 /\ PathWithinClass(cd) = p
      /\ cd = <<College, Class>> <=> p = <<>>
  BY WithinClass
<1>d. GetDepth(cd) # 0 /\ GetDepth(cd) # 1
  BY <1>1
<1>2. ListDirectory(u, cd, rows, lists) = {Child(k, p) : k \in ks}
  BY <1>1, <1>d, Zenon DEF ListDirectory
<1>3. TreeDirectory(u, cd, rows, lists) = Q
  BY <1>1, <1>d, Zenon DEF TreeDirectory
<1>4. rows \subseteq RowType /\ MaxDepth \in Nat /\ <<>> \in Paths
  BY ClassroomAssumption, EmptySeq DEF TypeOK, RowType, Paths
<1>5. ASSUME NEW k \in rows, HasPrefix(k, Folder(p))
      PROVE  /\ Rel(k) = Folder(<<>>) <=> k = Folder(p)
             /\ k # Folder(p) => Child(Rel(k), <<>>) = Child(k, p)
             /\ k # Folder(p) => Rel(k) \in RowType /\ Len(Rel(k).path) <= MaxDepth
  <2> DEFINE e == Rel(k)
             prefix == <<>>
  <2>1. k \in RowType /\ prefix \in Paths /\ Len(prefix) = 0 /\ prefix = <<>>
        /\ e = Answered(k, p, prefix)
    BY <1>4
  <2> HIDE DEF e, prefix
  <2>2. /\ e \in Keys /\ Len(e.path) = 0 + (Len(k.path) - Len(p))
        /\ Len(p) \in Nat /\ Len(k.path) \in Nat /\ Len(p) <= Len(k.path)
        /\ e = Folder(<<>>) <=> k = Folder(p)
        /\ k # Folder(p) => e.path # <<>> /\ Child(e, <<>>) = Child(k, p)
    BY <1>5, <2>1, Relative
  <2>3. Len(k.path) <= MaxDepth
    BY DEF Shallow
  <2>4. e.path # <<>> => e \in RowType
    BY <2>2 DEF Keys, RowType
  <2>5. Len(e.path) <= MaxDepth
    BY <1>4, <2>2, <2>3
  <2> QED
    BY <2>2, <2>4, <2>5 DEF e
<1>6. Q = {Rel(k) : k \in {k \in rows : /\ HasPrefix(k, Folder(p)) /\ k # InfoKey
                                        /\ u \in Staff \/ Visible(k, Allowed(u, lists))}}
          \ {Folder(<<>>)}
  BY DEF QueryClassEntries, Answered
<1> HIDE DEF Rel, Q, ks
<1>7. Q = {Rel(k) : k \in {k \in rows : InAnswer(k)}}
  BY <1>5, <1>6
<1>8. {c \in RenderTree(Q) : Len(c.path) = 1} = {Child(e, <<>>) : e \in Q}
  <2>1. Q \in SUBSET RowType /\ \A e \in Q : Len(e.path) <= MaxDepth
    BY <1>5, <1>7
  <2> QED
    BY <1>4, <2>1, FirstLevel
<1>9. {Child(e, <<>>) : e \in Q} = {Child(k, p) : k \in {k \in rows : InAnswer(k)}}
  BY <1>5, <1>7
<1>10. /\ \A k \in ks : (k \in rows /\ InAnswer(k)) \/ (k = InfoKey /\ u \in Staff /\ p = <<>>)
       /\ \A k : InAnswer(k) \/ (k = InfoKey /\ u \in Staff /\ p = <<>>) => k \in ks
  <2>1. \A k : k \in Below(Shown(u, rows, lists), p) => k \in ks
    BY DEF Below, ks
  <2> QED
    BY <2>1, SameEntries DEF ks
<1>11. p = <<>> => Child(InfoKey, p) = InfoKey
  <2>1. Len(<<>>) + 1 = 1
    OBVIOUS
  <2>2. InfoKey = [path |-> <<ClassInfo>>, dir |-> FALSE] /\ Len(<<ClassInfo>>) = 1
    BY DEF InfoKey, File
  <2>3. Child(InfoKey, <<>>) = [path |-> <<InfoKey.path[1]>>, dir |-> InfoKey.dir \/ 1 < Len(InfoKey.path)]
    BY <2>1 DEF Child
  <2>4. InfoKey.path[1] = ClassInfo /\ InfoKey.dir = FALSE /\ ~(1 < Len(InfoKey.path))
    BY <2>2
  <2> QED
    BY <2>2, <2>3, <2>4
<1> HIDE DEF InAnswer
<1>12. {Child(k, p) : k \in ks} = {Child(k, p) : k \in {k \in rows : InAnswer(k)}}
                                  \cup IF u \in Staff /\ p = <<>> THEN {InfoKey} ELSE {}
  <2>1. CASE u \in Staff /\ p = <<>>
    BY <1>10, <1>11, <2>1
  <2>2. CASE ~(u \in Staff /\ p = <<>>)
    BY <1>10, <2>2
  <2> QED
    BY <2>1, <2>2
<1> QED
  BY <1>1, <1>2, <1>3, <1>8, <1>9, <1>12

\* So ls and tree agree in a class at rest.
LEMMA ViewsGiven == ASSUME TypeOK, ListsFollowRows, Plain, Shallow PROVE ViewsAgree
<1> SUFFICES ASSUME Busy = {}, torn = {}, NEW u \in Users,
                    NEW cd \in {<<>>, <<College>>, <<College, Class>> \o dir[u]}
             PROVE  ListDirectory(u, cd, rows, lists) =
                       {c \in RenderTree(TreeDirectory(u, cd, rows, lists)) : Len(c.path) = 1}
                       \cup IF u \in Staff /\ cd = <<College, Class>> THEN {InfoKey} ELSE {}
  BY Zenon DEF ViewsAgree
<1>1. ASSUME NEW h \in Holders, NEW f \in lists[h] PROVE Folder(f) \in rows
  <2>1. ~ Pending(f) /\ ~ Torn(f)
    BY DEF Pending, Torn
  <2>2. f \in {k.path : k \in {k \in rows : k.dir}} \cup UNION {lists[i] : i \in Holders}
    OBVIOUS
  <2> QED
    BY <2>1, <2>2 DEF ListsFollowRows
<1>2. CASE cd \in {<<>>, <<College>>}
  <2>1. cd # <<College, Class>>
    BY <1>2
  <2>2. ListDirectory(u, cd, rows, lists) =
           {c \in RenderTree(TreeDirectory(u, cd, rows, lists)) : Len(c.path) = 1}
    BY <1>2, RootsAgree
  <2> QED
    BY <2>1, <2>2
<1>3. CASE cd = <<College, Class>> \o dir[u]
  <2>1. dir[u] \in Paths
    BY DEF TypeOK
  <2> QED
    BY <1>1, <1>3, <2>1, ClassesAgree
<1> QED
  BY <1>2, <1>3

\* In every directory and for every member, ls shows the first level of what tree
\* draws, whatever made the rows and lists what they are, once no request is in
\* flight and nothing is set apart.  No name is class_info or begins so, but the
\* class's own row's: ls and tree hide that row in different ways.
THEOREM ListAndTreeAgree ==
    ASSUME RenamesOneName, NamesApart PROVE Spec => []ViewsAgree
<1>1. Init => Accord /\ Plain /\ Shallow
  BY AccordInit, PlainInit
<1>2. Accord /\ Plain /\ Shallow /\ [Next]_vars => (Accord /\ Plain /\ Shallow)'
  <2> SUFFICES ASSUME Accord, Plain, Shallow, [Next]_vars PROVE (Accord /\ Plain /\ Shallow)'
    OBVIOUS
  <2>1. Together /\ Inv
    BY DEF Accord, Together
  <2>2. Accord' /\ Plain' /\ Shallow'
    BY <2>1, AccordStep, PlainStep, ShallowStep
  <2> QED
    BY <2>2
<1>3. Accord /\ Plain /\ Shallow => ViewsAgree
  <2> SUFFICES ASSUME Accord, Plain, Shallow PROVE ViewsAgree
    OBVIOUS
  <2>1. TypeOK /\ ListsFollowRows
    BY AccordGives DEF Accord, Together, Inv
  <2> QED
    BY <2>1, ViewsGiven
<1> QED
  BY <1>1, <1>2, <1>3, PTL DEF Spec

=============================================================================
