------------------------- MODULE FolderListsProofs -------------------------
(***************************************************************************)
(* Theorems about the folder permission lists of a class, for any members, *)
(* folders, jobs, attempts and number of concurrent requests: what deletes *)
(* and renames spare, and what a delete leaves behind.                     *)
(***************************************************************************)
EXTENDS FolderLists, WellFoundedInduction, TLAPS

----------------------------------------------------------------------------
(* Induction along a list: the least number for which something fails *)

\* A non-empty set of numbers has a least member.
LEMMA LeastMember ==
    ASSUME NEW T \in SUBSET Nat, T # {}
    PROVE  \E x \in T : \A y \in T : x <= y
<1> DEFINE Less == {ss \in Nat \X Nat : ss[1] < ss[2]}
<1>1. IsWellFoundedOn(Less, Nat)
  BY NatLessThanWellFounded DEF OpToRel
<1>2. \A x, y \in Nat : y < x => <<y, x>> \in Less
  OBVIOUS
<1> HIDE DEF Less
<1>3. PICK x \in T : \A y \in T : ~ (<<y, x>> \in Less)
  BY <1>1, WFMin
<1>4. ASSUME NEW y \in T PROVE x <= y
  <2>1. x \in Nat /\ y \in Nat /\ ~ (<<y, x>> \in Less)
    BY <1>3
  <2>2. ~ (y < x)
    BY <2>1, <1>2
  <2> QED
    BY <2>1, <2>2
<1> QED
  BY <1>4

\* A set that 0 is in, and with every number its successor, has all of them.
LEMMA UpTo ==
    ASSUME NEW m \in Nat, NEW P \in SUBSET (0 .. m), 0 \in P,
           \A i \in 0 .. m : i < m /\ i \in P => i + 1 \in P
    PROVE  P = 0 .. m
<1> DEFINE T == (0 .. m) \ P
<1>1. ASSUME T # {} PROVE FALSE
  <2>1. T \in SUBSET Nat
    OBVIOUS
  <2>2. PICK x \in T : \A y \in T : x <= y
    BY <1>1, <2>1, LeastMember
  <2>3. x \in 0 .. m /\ x \notin P /\ x # 0
    BY <2>2
  <2>4. x - 1 \in 0 .. m /\ x - 1 < m /\ ~(x <= x - 1) /\ (x - 1) + 1 = x
    BY <2>3
  <2>5. x - 1 \in P
    BY <2>2, <2>4
  <2> QED
    BY <2>3, <2>4, <2>5
<1> QED
  BY <1>1

----------------------------------------------------------------------------
(* Without *)

\* What the loop makes of what it has kept, at the next entry.
Keep(kept, d, f) == IF Inside(d, f) THEN kept ELSE Append(kept, f)

\* g is what is kept of the entries of s up to the n-th.
Keeps(g, n, s, d) ==
    /\ g = [i \in 0 .. n |-> g[i]]
    /\ g[0] = <<>>
    /\ \A i \in 1 .. n : g[i] = Keep(g[i - 1], d, s[i])

\* One more entry.
Longer(g, n, s, d) == [i \in 0 .. n + 1 |-> IF i = n + 1 THEN Keep(g[n], d, s[n + 1]) ELSE g[i]]

\* It is the loop, one entry further.
LEMMA KeepOneMore ==
    ASSUME NEW n \in Nat, NEW s, NEW d, NEW g, Keeps(g, n, s, d)
    PROVE  Keeps(Longer(g, n, s, d), n + 1, s, d)
<1> DEFINE h == Longer(g, n, s, d)
<1>1. \A i \in 0 .. n : i \in 0 .. n + 1 /\ i # n + 1
  OBVIOUS
<1>2. (\A i \in 0 .. n : h[i] = g[i]) /\ h[n + 1] = Keep(g[n], d, s[n + 1])
  BY <1>1 DEF Longer
<1>3. h = [i \in 0 .. n + 1 |-> h[i]]
  BY DEF Longer
<1> HIDE DEF h
<1>4. h[0] = <<>>
  BY <1>2 DEF Keeps
<1>5. ASSUME NEW i \in 1 .. n + 1 PROVE h[i] = Keep(h[i - 1], d, s[i])
  <2>1. CASE i = n + 1
    <3>1. h[n] = g[n] /\ i - 1 = n
      BY <1>2, <2>1
    <3> QED
      BY <1>2, <2>1, <3>1
  <2>2. CASE i # n + 1
    <3>1. i \in 1 .. n /\ i \in 0 .. n /\ i - 1 \in 0 .. n
      BY <2>2
    <3>2. g[i] = Keep(g[i - 1], d, s[i])
      BY <3>1 DEF Keeps
    <3>3. h[i] = g[i] /\ h[i - 1] = g[i - 1]
      BY <1>2, <3>1
    <3> QED
      BY <3>2, <3>3
  <2> QED
    BY <2>1, <2>2
<1>6. Keeps(h, n + 1, s, d)
  BY <1>3, <1>4, <1>5 DEF Keeps
<1> QED
  BY <1>6 DEF h

\* The loop gets to the end of every list.
LEMMA KeepsExist ==
    ASSUME NEW m \in Nat, NEW s, NEW d
    PROVE  \E g : Keeps(g, m, s, d)
<1> DEFINE P == {n \in 0 .. m : \E g : Keeps(g, n, s, d)}
<1>1. 0 \in P
  <2> DEFINE g == [i \in 0 .. 0 |-> <<>>]
  <2>1. g = [i \in 0 .. 0 |-> g[i]] /\ g[0] = <<>>
    OBVIOUS
  <2> HIDE DEF g
  <2>2. Keeps(g, 0, s, d)
    BY <2>1 DEF Keeps
  <2> QED
    BY <2>2
<1>2. ASSUME NEW i \in 0 .. m, i < m, i \in P PROVE i + 1 \in P
  <2>1. PICK g : Keeps(g, i, s, d)
    BY <1>2
  <2>2. Keeps(Longer(g, i, s, d), i + 1, s, d)
    BY <2>1, KeepOneMore
  <2>3. i + 1 \in 0 .. m
    BY <1>2
  <2> QED
    BY <2>2, <2>3
<1>3. P \in SUBSET (0 .. m)
  OBVIOUS
<1> HIDE DEF P
<1>4. P = 0 .. m
  BY <1>1, <1>2, <1>3, UpTo
<1>5. m \in P
  BY <1>4
<1> QED
  BY <1>5 DEF P

\* So Without is what the loop has kept at the end.
LEMMA WithoutKeeps ==
    ASSUME NEW S, NEW s \in Seq(S), NEW d
    PROVE  \E g : Keeps(g, Len(s), s, d) /\ Without(s, d) = g[Len(s)]
<1> DEFINE Body(g) == [i \in 0 .. Len(s) |->
                         IF i = 0 THEN <<>>
                         ELSE IF Inside(d, s[i]) THEN g[i - 1] ELSE Append(g[i - 1], s[i])]
           kept == CHOOSE g : g = Body(g)
<1>1. Len(s) \in Nat
  OBVIOUS
<1>2. PICK g : Keeps(g, Len(s), s, d)
  BY <1>1, KeepsExist
<1>3. g = Body(g)
  <2>1. \A i \in 0 .. Len(s) :
           g[i] = IF i = 0 THEN <<>>
                  ELSE IF Inside(d, s[i]) THEN g[i - 1] ELSE Append(g[i - 1], s[i])
    <3>1. ASSUME NEW i \in 1 .. Len(s)
          PROVE  g[i] = IF Inside(d, s[i]) THEN g[i - 1] ELSE Append(g[i - 1], s[i])
      BY <1>2 DEF Keeps, Keep
    <3>2. g[0] = <<>>
      BY <1>2 DEF Keeps
    <3>3. \A i \in 0 .. Len(s) : i = 0 \/ (i # 0 /\ i \in 1 .. Len(s))
      BY <1>1
    <3> QED
      BY <3>1, <3>2, <3>3
  <2> QED
    BY <1>2, <2>1 DEF Keeps
<1>4. kept = Body(kept)
  BY <1>3
<1>5. Without(s, d) = kept[Len(s)]
  BY DEF Without
<1> HIDE DEF kept
<1>6. Keeps(kept, Len(s), s, d)
  <2>1. kept = [i \in 0 .. Len(s) |-> kept[i]]
    BY <1>4
  <2>2. \A i \in 0 .. Len(s) :
           kept[i] = IF i = 0 THEN <<>>
                     ELSE IF Inside(d, s[i]) THEN kept[i - 1] ELSE Append(kept[i - 1], s[i])
    BY <1>4
  <2> HIDE DEF Body
  <2>3. kept[0] = <<>> /\ \A i \in 1 .. Len(s) : kept[i] = Keep(kept[i - 1], d, s[i])
    BY <1>1, <2>2 DEF Keep
  <2> QED
    BY <2>1, <2>3 DEF Keeps
<1> QED
  BY <1>5, <1>6

\* The entries that are not of the folder.
Foreign(d) == {f \in Paths : ~Inside(d, f)}

\* Without keeps nothing of the folder.
LEMMA WithoutIsForeign ==
    ASSUME NEW s \in Seq(Paths), NEW d
    PROVE  Without(s, d) \in Seq(Foreign(d)) /\ Without(s, d) \in Seq(Paths)
<1>1. PICK g : Keeps(g, Len(s), s, d) /\ Without(s, d) = g[Len(s)]
  BY WithoutKeeps
<1> DEFINE P == {n \in 0 .. Len(s) : g[n] \in Seq(Foreign(d))}
<1>2. 0 \in P
  <2>1. g[0] = <<>> /\ 0 \in 0 .. Len(s)
    BY <1>1 DEF Keeps
  <2>2. <<>> \in Seq(Foreign(d))
    OBVIOUS
  <2> QED
    BY <2>1, <2>2
<1>3. ASSUME NEW i \in 0 .. Len(s), i < Len(s), i \in P PROVE i + 1 \in P
  <2>1. i + 1 \in 1 .. Len(s) /\ i + 1 \in 0 .. Len(s) /\ (i + 1) - 1 = i
    BY <1>3
  <2>2. g[i + 1] = Keep(g[i], d, s[i + 1]) /\ s[i + 1] \in Paths
    BY <1>1, <2>1 DEF Keeps
  <2>3. CASE Inside(d, s[i + 1])
    BY <1>3, <2>1, <2>2, <2>3 DEF Keep
  <2>4. CASE ~Inside(d, s[i + 1])
    <3>1. s[i + 1] \in Foreign(d) /\ g[i + 1] = Append(g[i], s[i + 1])
      BY <2>2, <2>4 DEF Keep, Foreign
    <3>2. g[i] \in Seq(Foreign(d))
      BY <1>3
    <3>3. Append(g[i], s[i + 1]) \in Seq(Foreign(d))
      BY <3>1, <3>2
    <3> QED
      BY <2>1, <3>1, <3>3
  <2> QED
    BY <2>3, <2>4
<1>4. P \in SUBSET (0 .. Len(s)) /\ Len(s) \in Nat
  OBVIOUS
<1> HIDE DEF P
<1>5. P = 0 .. Len(s)
  BY <1>2, <1>3, <1>4, UpTo
<1>6. Without(s, d) \in Seq(Foreign(d))
  BY <1>1, <1>4, <1>5 DEF P
<1>7. Foreign(d) \subseteq Paths
  BY DEF Foreign
<1> HIDE DEF Foreign
<1> QED
  BY <1>6, <1>7

\* A list that has nothing of the folder is left as it is.
LEMMA NothingToDo ==
    ASSUME NEW d, NEW s \in Seq(Foreign(d))
    PROVE  Without(s, d) = s
<1>1. PICK g : Keeps(g, Len(s), s, d) /\ Without(s, d) = g[Len(s)]
  BY WithoutKeeps
<1> DEFINE P == {n \in 0 .. Len(s) : g[n] = SubSeq(s, 1, n)}
<1>2. 0 \in P
  <2>1. SubSeq(s, 1, 0) = <<>>
    OBVIOUS
  <2> QED
    BY <1>1, <2>1 DEF Keeps
<1>3. ASSUME NEW i \in 0 .. Len(s), i < Len(s), i \in P PROVE i + 1 \in P
  <2>1. i + 1 \in 1 .. Len(s) /\ i + 1 \in 0 .. Len(s) /\ (i + 1) - 1 = i
    BY <1>3
  <2>2. g[i + 1] = Keep(g[i], d, s[i + 1]) /\ s[i + 1] \in Foreign(d)
    BY <1>1, <2>1 DEF Keeps
  <2>3. g[i + 1] = Append(SubSeq(s, 1, i), s[i + 1])
    BY <1>3, <2>2 DEF Keep, Foreign
  <2>4. Append(SubSeq(s, 1, i), s[i + 1]) = SubSeq(s, 1, i + 1)
    BY <2>1
  <2> QED
    BY <2>1, <2>3, <2>4
<1>4. P \in SUBSET (0 .. Len(s)) /\ Len(s) \in Nat
  OBVIOUS
<1> HIDE DEF P
<1>5. P = 0 .. Len(s)
  BY <1>2, <1>3, <1>4, UpTo
<1>6. Without(s, d) = SubSeq(s, 1, Len(s))
  BY <1>1, <1>4, <1>5 DEF P
<1> HIDE DEF Foreign
<1> QED
  BY <1>6

\* Once is enough.
LEMMA WithoutTwice ==
    ASSUME NEW s \in Seq(Paths), NEW d
    PROVE  Without(Without(s, d), d) = Without(s, d)
BY WithoutIsForeign, NothingToDo

----------------------------------------------------------------------------
(* Types *)

\* A job names a holder and folders.
LEMMA JobTypes ==
    ASSUME NEW j \in Jobs
    PROVE  j.who \in Holders /\ j.folder \in Paths /\ j.to \in Paths
<1>1. j \in [kind: {"mkdir"}, who: Holders, folder: Paths, to: {<<>>}]
         \cup [kind: {"rename"}, who: Holders \ {Class}, folder: Paths, to: Paths]
         \cup [kind: {"delete"}, who: {Class}, folder: Paths, to: {<<>>}]
  BY ListsAssumption
<1>2. <<>> \in Paths
  BY DEF Paths
<1>3. Class \in Holders
  BY DEF Holders
<1> QED
  BY <1>1, <1>2, <1>3

\* A folder moved with its parent is a folder.
LEMMA MovedType ==
    ASSUME NEW f \in Paths, NEW d \in Paths, NEW e \in Paths
    PROVE  Moved(f, d, e) \in Paths
<1>1. Len(d) + 1 \in Nat \ {0} /\ Len(f) \in Nat
  BY DEF Paths
<1>2. \A i \in Len(d) + 1 .. Len(f) : i \in 1 .. Len(f)
  BY <1>1
<1>3. SubSeq(f, Len(d) + 1, Len(f)) \in Seq(Names)
  BY <1>1, <1>2 DEF Paths
<1> HIDE DEF Paths
<1>4. e \in Seq(Names)
  BY DEF Paths
<1>5. e \o SubSeq(f, Len(d) + 1, Len(f)) \in Seq(Names)
  BY <1>3, <1>4
<1> QED
  BY <1>5 DEF Moved, Paths

\* The variables a request keeps for itself; indices start at 1.
Locals ==
    /\ pc \in [Requests -> Resting \cup {"append", "reindex", "read", "swap"}]
    /\ job \in [Requests -> Jobs]
    /\ holder \in [Requests -> Holders]
    /\ left \in [Requests -> SUBSET Holders]
    /\ snap \in [Requests -> Seq(Paths)]
    /\ index \in [Requests -> Nat \ {0}]
    /\ attempts \in [Requests -> 0 .. MaxAttempts - 1]

\* A request that ends has forgotten them.
LEMMA Ending ==
    ASSUME Locals, NEW r \in Requests, NEW answer \in Resting, Finish(r, answer)
    PROVE  Locals'
<1>1. AnyJob \in Jobs /\ Class \in Holders /\ 0 \in 0 .. MaxAttempts - 1
  BY ListsAssumption DEF AnyJob, Holders
<1>2. <<>> \in Seq(Paths)
  OBVIOUS
<1> QED
  BY <1>1, <1>2 DEF Locals, Finish, Goto

\* A delete goes on to the next list.
LEMMA GoingOn ==
    ASSUME Locals, NEW r \in Requests, NextHolder(r)
    PROVE  Locals'
<1>1. CASE Finish(r, "ok")
  BY <1>1, Ending DEF Resting
<1>2. CASE \E i \in 1 .. Len(Order) :
             /\ Order[i] \in left[r]
             /\ holder' = [holder EXCEPT ![r] = Order[i]]
             /\ left' = [left EXCEPT ![r] = @ \ {Order[i]}]
             /\ attempts' = [attempts EXCEPT ![r] = 0]
             /\ Goto(r, "read")
             /\ UNCHANGED <<job, snap, index>>
  <2>1. 0 \in 0 .. MaxAttempts - 1
    BY ListsAssumption
  <2> QED
    BY <1>2, <2>1 DEF Locals, Goto
<1> QED
  BY <1>1, <1>2 DEF NextHolder

\* What may be read of a list is a list.
LEMMA ReadsLists ==
    ASSUME TypeOK, NEW h \in Holders
    PROVE  Reads(h) \subseteq Seq(Paths)
BY DEF TypeOK, Reads

\* The inductive invariant: the types, with an index that is never 0.
Inv ==
    /\ Locals
    /\ lists \in [Holders -> Seq(Paths)]
    /\ lagged \in [Holders -> Seq(Paths)]
    /\ gaveUp \subseteq Requests

\* It is the type invariant and a little more.
LEMMA InvTypes == Inv => TypeOK
BY DEF Inv, Locals, TypeOK

\* Every step keeps it.
LEMMA Inductive == Inv /\ [Next]_vars => Inv'
<1> SUFFICES ASSUME Inv, [Next]_vars PROVE Inv'
  OBVIOUS
<1> USE DEF Inv
<1>1. TypeOK
  BY InvTypes
<1>2. ASSUME NEW r \in Requests, NEW j \in Jobs, StartMkdir(r, j) PROVE Inv'
  BY <1>2, JobTypes DEF StartMkdir, Goto, Resting, Locals
<1>3. ASSUME NEW r \in Requests, NEW j \in Jobs, StartRename(r, j) PROVE Inv'
  <2>1. Class \in Holders /\ {j.who} \cup Students \subseteq Holders
    BY JobTypes DEF Holders
  <2>2. Reads(Class) \subseteq Seq(Paths) /\ <<>> \in Seq(Paths)
    BY <1>1, <2>1, ReadsLists
  <2> QED
    <3>1. PICK s \in Seq(Paths), more \in SUBSET Holders :
             snap' = [snap EXCEPT ![r] = s] /\ left' = [left EXCEPT ![r] = more]
      <4>1. {j.who} \in SUBSET Holders /\ {j.who} \cup Students \in SUBSET Holders
        BY <2>1
      <4>2. CASE /\ snap' = [snap EXCEPT ![r] = <<>>]
                 /\ left' = [left EXCEPT ![r] = {j.who}]
        BY <2>2, <4>1, <4>2
      <4>3. CASE /\ \E s \in Reads(Class) : snap' = [snap EXCEPT ![r] = s]
                 /\ left' = [left EXCEPT ![r] = {j.who} \cup Students]
        BY <2>2, <4>1, <4>3
      <4> QED
        BY <1>3, <4>2, <4>3 DEF StartRename
    <3> QED
      BY <1>3, <2>1, <3>1 DEF StartRename, Goto, Locals
<1>4. ASSUME NEW r \in Requests, NEW j \in Jobs, StartDelete(r, j) PROVE Inv'
  <2>1. Class \in Holders /\ 0 \in 0 .. MaxAttempts - 1
    BY ListsAssumption DEF Holders
  <2> QED
    BY <1>4, <2>1 DEF StartDelete, Goto, Locals
<1>5. ASSUME NEW r \in Requests, AppendFolder(r) PROVE Inv'
  <2>1. job[r].who \in Holders /\ job[r].folder \in Paths
    BY JobTypes DEF Locals
  <2>2. Append(lists[job[r].who], job[r].folder) \in Seq(Paths)
    BY <2>1
  <2>3. lists' \in [Holders -> Seq(Paths)] /\ UNCHANGED <<lagged, gaveUp>>
    BY <1>5, <2>2 DEF AppendFolder
  <2>4. Locals'
    BY <1>5, Ending DEF AppendFolder, Locals, Resting
  <2> QED
    BY <2>3, <2>4
<1>6. ASSUME NEW r \in Requests, RenameEntry(r) PROVE Inv'
  <2>1. PICK i \in ToRename(r) :
          LET h == holder[r]
              new == Moved(snap[r][i], job[r].folder, job[r].to) IN
          /\ index' = [index EXCEPT ![r] = i + 1]
          /\ \/ /\ i <= Len(lists[h])
                /\ lists' = [lists EXCEPT ![h][i] = new]
             \/ /\ i > Len(lists[h]) /\ Len(lists[h]) < MaxLen
                /\ lists' = [lists EXCEPT ![h] = Append(@, new)]
             \/ UNCHANGED lists
    BY <1>6 DEF RenameEntry
  <2> DEFINE h == holder[r]
             new == Moved(snap[r][i], job[r].folder, job[r].to)
  <2>2. /\ i \in index[r] .. Len(snap[r]) /\ index[r] \in Nat \ {0} /\ h \in Holders
        /\ snap[r] \in Seq(Paths) /\ lists[h] \in Seq(Paths)
        /\ index' = [index EXCEPT ![r] = i + 1]
    BY <2>1 DEF ToRename, Locals
  <2>3. i \in 1 .. Len(snap[r]) /\ i + 1 \in Nat \ {0}
    BY <2>2
  <2>4. snap[r][i] \in Paths /\ job[r].folder \in Paths /\ job[r].to \in Paths
    BY <2>2, <2>3, JobTypes DEF Locals
  <2>5. new \in Paths
    BY <2>4, MovedType
  <2>6. \/ i <= Len(lists[h]) /\ lists' = [lists EXCEPT ![h] = [@ EXCEPT ![i] = new]]
        \/ lists' = [lists EXCEPT ![h] = Append(@, new)]
        \/ UNCHANGED lists
    BY <2>1
  <2> HIDE DEF h, new
  <2>7. Append(lists[h], new) \in Seq(Paths)
    BY <2>2, <2>5
  <2>8. i <= Len(lists[h]) => [lists[h] EXCEPT ![i] = new] \in Seq(Paths)
    BY <2>2, <2>3, <2>5
  <2>9. lists' \in [Holders -> Seq(Paths)]
    BY <2>2, <2>6, <2>7, <2>8
  <2> QED
    BY <1>6, <2>2, <2>3, <2>9 DEF RenameEntry, Locals
<1>7. ASSUME NEW r \in Requests, NextProfile(r) PROVE Inv'
  <2>1. PICK h \in left[r] :
           /\ left' = [left EXCEPT ![r] = @ \ {h}]
           /\ \/ /\ holder' = [holder EXCEPT ![r] = h]
                 /\ index' = [index EXCEPT ![r] = 1]
                 /\ \E s \in Reads(h) : snap' = [snap EXCEPT ![r] = s]
              \/ UNCHANGED <<holder, index, snap>>
    BY <1>7 DEF NextProfile
  <2>2. h \in Holders /\ Reads(h) \subseteq Seq(Paths)
    BY <1>1, ReadsLists DEF Locals
  <2> QED
    <3>1. left' \in [Requests -> SUBSET Holders]
      BY <2>1 DEF Locals
    <3>2. CASE UNCHANGED <<holder, index, snap>>
      BY <1>7, <3>1, <3>2 DEF NextProfile, Locals
    <3>3. CASE \E s \in Reads(h) :
                  /\ holder' = [holder EXCEPT ![r] = h]
                  /\ index' = [index EXCEPT ![r] = 1]
                  /\ snap' = [snap EXCEPT ![r] = s]
      <4>1. PICK s \in Seq(Paths) : /\ holder' = [holder EXCEPT ![r] = h]
                                    /\ index' = [index EXCEPT ![r] = 1]
                                    /\ snap' = [snap EXCEPT ![r] = s]
        BY <2>2, <3>3
      <4> QED
        BY <1>7, <2>2, <3>1, <4>1 DEF NextProfile, Locals
    <3> QED
      BY <2>1, <3>2, <3>3
<1>8. ASSUME NEW r \in Requests, RenameDone(r) \/ CallFails(r) PROVE Inv'
  BY <1>8, Ending DEF RenameDone, CallFails, Resting
<1>9. ASSUME NEW r \in Requests, ReadList(r) PROVE Inv'
  <2>1. Reads(holder[r]) \subseteq Seq(Paths)
    BY <1>1, ReadsLists DEF Locals
  <2>2. CASE NextHolder(r)
    BY <1>9, <2>2, GoingOn DEF ReadList
  <2>3. CASE \E s \in Reads(holder[r]) :
                /\ snap' = [snap EXCEPT ![r] = s]
                /\ Goto(r, "swap")
                /\ UNCHANGED <<job, holder, left, index, attempts>>
    BY <1>9, <2>1, <2>3 DEF ReadList, Goto, Locals
  <2> QED
    BY <1>9, <2>2, <2>3 DEF ReadList
<1>10. ASSUME NEW r \in Requests, SwapList(r) PROVE Inv'
  <2>1. snap[r] \in Seq(Paths) /\ holder[r] \in Holders
    BY DEF Locals
  <2>2. Without(snap[r], job[r].folder) \in Seq(Paths)
    BY <2>1, WithoutIsForeign
  <2>3. lists' \in [Holders -> Seq(Paths)]
    BY <1>10, <2>1, <2>2 DEF SwapList
  <2>4. Locals'
    <3>1. CASE UNCHANGED <<pc, job, holder, left, snap, index, attempts>>
      BY <3>1 DEF Locals
    <3> QED
      BY <1>10, <3>1, GoingOn, Ending DEF SwapList, Resting
  <2> QED
    BY <1>10, <2>3, <2>4 DEF SwapList
<1>11. ASSUME NEW r \in Requests, SwapRefused(r) PROVE Inv'
  <2>1. attempts[r] + 1 \in 0 .. MaxAttempts - 1
    <3>1. attempts[r] \in 0 .. MaxAttempts - 1 /\ attempts[r] + 1 < MaxAttempts
      BY <1>11 DEF SwapRefused, AttemptsLeft, NextAttempt, Locals
    <3>2. MaxAttempts \in Nat
      BY ListsAssumption
    <3> QED
      BY <3>1, <3>2
  <2> QED
    BY <1>11, <2>1 DEF SwapRefused, NextAttempt, Goto, Locals
<1>12. ASSUME NEW r \in Requests, SwapGivesUp(r) PROVE Inv'
  BY <1>12, GoingOn DEF SwapGivesUp
<1>13. ASSUME NEW h \in Holders, Replicate(h) PROVE Inv'
  BY <1>13 DEF Replicate, Locals
<1>14. CASE UNCHANGED vars
  BY <1>14 DEF vars, Locals
<1> QED
  BY <1>2, <1>3, <1>4, <1>5, <1>6, <1>7, <1>8, <1>9, <1>10, <1>11, <1>12, <1>13, <1>14 DEF Next, Step

\* It holds at the start.
LEMMA Initially == Init => Inv
<1> SUFFICES ASSUME Init PROVE Inv
  OBVIOUS
<1>1. AnyJob \in Jobs /\ Class \in Holders /\ 0 \in 0 .. MaxAttempts - 1
  BY ListsAssumption DEF AnyJob, Holders
<1>2. <<>> \in Seq(Paths)
  OBVIOUS
<1>3. Locals
  BY <1>1, <1>2 DEF Init, Locals, Resting
<1> QED
  BY <1>3, ListsAssumption DEF Init, Inv

\* So it holds always.
LEMMA Always == Spec => []Inv
BY Initially, Inductive, PTL DEF Spec

\* The lists hold folders, a request works on the lists of the class's members,
\* and none counts more attempts than the loop allows.
THEOREM TypeCorrect == Spec => []TypeOK
BY InvTypes, Always, PTL

----------------------------------------------------------------------------
(* What deletes and renames leave alone *)

\* Who acts: a step that moves a delete on is a step of this delete.
LEMMA DeleteActs ==
    ASSUME Inv, [Next]_vars, NEW r \in Requests, pc[r] \in {"read", "swap"},
           pc'[r] # pc[r] \/ holder'[r] # holder[r]
    PROVE  \/ ReadList(r) \/ SwapList(r) \/ SwapRefused(r) \/ SwapGivesUp(r) \/ CallFails(r)
<1> USE DEF Inv, Locals
<1>1. ASSUME NEW q \in Requests, NEW answer, Finish(q, answer) PROVE q = r
  BY <1>1 DEF Finish, Goto
<1>2. ASSUME NEW q \in Requests, NextHolder(q) PROVE q = r
  BY <1>1, <1>2 DEF NextHolder, Goto
<1>3. ASSUME NEW q \in Requests, NEW j \in Jobs, StartMkdir(q, j) PROVE FALSE
  BY <1>3 DEF StartMkdir, Goto, Resting
<1>4. ASSUME NEW q \in Requests, NEW j \in Jobs, StartRename(q, j) PROVE FALSE
  BY <1>4 DEF StartRename, Goto, Resting
<1>5. ASSUME NEW q \in Requests, NEW j \in Jobs, StartDelete(q, j) PROVE FALSE
  BY <1>5 DEF StartDelete, Goto, Resting
<1>6. ASSUME NEW q \in Requests, AppendFolder(q) PROVE FALSE
  BY <1>1, <1>6 DEF AppendFolder
<1>7. ASSUME NEW q \in Requests, RenameEntry(q) \/ RenameDone(q) PROVE FALSE
  BY <1>1, <1>7 DEF RenameEntry, RenameDone
<1>8. ASSUME NEW q \in Requests, NextProfile(q) PROVE FALSE
  BY <1>8 DEF NextProfile
<1>9. ASSUME NEW q \in Requests, ReadList(q) PROVE q = r
  BY <1>2, <1>9 DEF ReadList, Goto
<1>10. ASSUME NEW q \in Requests, SwapList(q) PROVE q = r
  BY <1>1, <1>2, <1>10 DEF SwapList
<1>11. ASSUME NEW q \in Requests, SwapRefused(q) \/ SwapGivesUp(q) PROVE q = r
  BY <1>2, <1>11 DEF SwapRefused, SwapGivesUp, Goto
<1>12. ASSUME NEW q \in Requests, CallFails(q) PROVE q = r
  BY <1>1, <1>12 DEF CallFails
<1>13. ASSUME NEW h \in Holders, Replicate(h) PROVE FALSE
  BY <1>13 DEF Replicate
<1> QED
  BY <1>3, <1>4, <1>5, <1>6, <1>7, <1>8, <1>9, <1>10, <1>11, <1>12, <1>13 DEF Next, Step, vars

\* A swap replaces a list that is as it was read.
LEMMA SwapWrites ==
    ASSUME Inv, NEW r \in Requests, SwapList(r)
    PROVE  /\ holder[r] \in Holders /\ lists[holder[r]] \in Seq(Paths)
           /\ \A h \in Holders :
                 lists'[h] = IF h = holder[r] THEN Without(lists[h], job[r].folder) ELSE lists[h]
BY DEF Inv, Locals, SwapList, Unchanged

\* A delete takes nothing from any list but its own folder and what is inside
\* it, however many requests append to the lists and rewrite them meanwhile.
THEOREM DeletesTakeOnlyTheirFolder == Spec => DeletesSpareOthers
<1> DEFINE A(r) == pc[r] \in {"read", "swap"} /\ pc'[r] # pc[r] =>
                      \A h \in Holders :
                         Without(lists'[h], job[r].folder) = Without(lists[h], job[r].folder)
<1>1. ASSUME Inv, [Next]_vars, NEW r \in Requests, pc[r] \in {"read", "swap"}, pc'[r] # pc[r],
             NEW h \in Holders
      PROVE  Without(lists'[h], job[r].folder) = Without(lists[h], job[r].folder)
  <2>1. CASE SwapList(r)
    <3>1. lists'[h] = IF h = holder[r] THEN Without(lists[h], job[r].folder) ELSE lists[h]
      BY <1>1, <2>1, SwapWrites
    <3>2. lists[h] \in Seq(Paths)
      BY <1>1 DEF Inv
    <3> QED
      BY <3>1, <3>2, WithoutTwice
  <2>2. CASE ReadList(r) \/ SwapRefused(r) \/ SwapGivesUp(r) \/ CallFails(r)
    BY <2>2 DEF ReadList, SwapRefused, SwapGivesUp, CallFails
  <2> QED
    BY <1>1, <2>1, <2>2, DeleteActs
<1>2. Inv /\ [Next]_vars => [\A r \in Requests : A(r)]_vars
  BY <1>1
<1> QED
  BY <1>2, Always, PTL DEF Spec, DeletesSpareOthers

\* A delete that goes on from a list has found nothing of its folder there, or
\* left nothing there, unless it gave up or its read was behind.
THEOREM DeletesCleanWhatTheyVisit == Spec => VisitedListsAreClean
<1> DEFINE A(r) == /\ pc[r] \in {"read", "swap"} /\ pc'[r] # "error"
                   /\ holder'[r] # holder[r] \/ pc'[r] = "ok"
                   /\ r \notin gaveUp'
                   /\ Stale => lagged[holder[r]] = lists[holder[r]]
                   => Without(lists'[holder[r]], job[r].folder) = lists'[holder[r]]
<1>1. ASSUME Inv, [Next]_vars, NEW r \in Requests, pc[r] \in {"read", "swap"}, pc'[r] # "error",
             holder'[r] # holder[r] \/ pc'[r] = "ok", r \notin gaveUp',
             Stale => lagged[holder[r]] = lists[holder[r]]
      PROVE  Without(lists'[holder[r]], job[r].folder) = lists'[holder[r]]
  <2>1. ReadList(r) \/ SwapList(r) \/ SwapRefused(r) \/ SwapGivesUp(r) \/ CallFails(r)
    BY <1>1, DeleteActs
  <2>2. CASE ReadList(r)
    <3>1. PICK s \in Reads(holder[r]) :
             \/ Without(s, job[r].folder) = s
             \/ Goto(r, "swap") /\ UNCHANGED <<job, holder, left, index, attempts>>
      BY <2>2 DEF ReadList
    <3>2. s = lists[holder[r]]
      BY <1>1 DEF Reads
    <3>3. Without(s, job[r].folder) = s
      BY <1>1, <3>1 DEF Goto, Inv, Locals
    <3> QED
      BY <2>2, <3>2, <3>3 DEF ReadList
  <2>3. CASE SwapList(r)
    BY <1>1, <2>3, SwapWrites, WithoutTwice
  <2>4. CASE SwapRefused(r)
    BY <1>1, <2>4 DEF SwapRefused, Goto, Inv, Locals
  <2>5. CASE SwapGivesUp(r)
    BY <1>1, <2>5 DEF SwapGivesUp
  <2>6. CASE CallFails(r)
    BY <1>1, <2>6 DEF CallFails, Finish, Goto, Inv, Locals
  <2> QED
    BY <2>1, <2>2, <2>3, <2>4, <2>5, <2>6
<1>2. Inv /\ [Next]_vars => [\A r \in Requests : A(r)]_vars
  BY <1>1
<1> QED
  BY <1>2, Always, PTL DEF Spec, VisitedListsAreClean

\* Although a rename writes by indices of a list it read before, it overwrites
\* no entry but those it renames, on a list nobody else has changed since.
THEOREM RenamesOverwriteOnlyTheirFolder == Spec => RenamesSpareOthers
<1> DEFINE A(r) == /\ pc[r] = "reindex" /\ index'[r] # index[r]
                   /\ ~ListMoved(r)
                   => \A h \in Holders : \A f \in Entries(lists[h]) :
                         Inside(job[r].folder, f) \/ f \in Entries(lists'[h])
<1>1. ASSUME Inv, [Next]_vars, NEW r \in Requests, pc[r] = "reindex", index'[r] # index[r],
             ~ListMoved(r), NEW h \in Holders, NEW f \in Entries(lists[h])
      PROVE  Inside(job[r].folder, f) \/ f \in Entries(lists'[h])
  <2>1. CASE lists'[h] = lists[h]
    BY <1>1, <2>1
  <2>2. CASE RenameEntry(r) /\ lists'[h] # lists[h]
    <3> DEFINE new(i) == Moved(snap[r][i], job[r].folder, job[r].to)
    <3>1. PICK i \in ToRename(r) :
             \/ /\ i <= Len(lists[holder[r]])
                /\ lists' = [lists EXCEPT ![holder[r]][i] = new(i)]
             \/ i > Len(lists[holder[r]])
             \/ UNCHANGED lists
      BY <2>2 DEF RenameEntry
    <3>2. Len(lists[holder[r]]) = Len(snap[r])
      BY <1>1 DEF ListMoved
    <3>3. i \in 1 .. Len(snap[r]) /\ i <= Len(snap[r]) /\ Inside(job[r].folder, snap[r][i])
      BY <1>1 DEF ToRename, Inv, Locals
    <3>4. h = holder[r] /\ lists' = [lists EXCEPT ![h] = [@ EXCEPT ![i] = new(i)]]
      BY <1>1, <2>2, <3>1, <3>2, <3>3 DEF Inv, Locals
    <3>5. lists[h] \in Seq(Paths)
      BY <1>1 DEF Inv
    <3>6. PICK k \in 1 .. Len(lists[h]) : f = lists[h][k]
      BY DEF Entries
    <3>7. lists[h][i] \in {snap[r][i], new(i)}
      BY <1>1, <3>2, <3>3, <3>4 DEF ListMoved
    <3> HIDE DEF new
    <3>8. lists'[h] = [lists[h] EXCEPT ![i] = new(i)]
      BY <1>1, <3>4 DEF Inv
    <3>9. Len(lists'[h]) = Len(lists[h])
      BY <3>5, <3>8
    <3>10. lists'[h][k] = IF k = i THEN new(i) ELSE f
      BY <3>5, <3>6, <3>8
    <3>11. lists'[h][k] \in Entries(lists'[h])
      BY <3>6, <3>9 DEF Entries
    <3> QED
      BY <3>3, <3>6, <3>7, <3>10, <3>11
  <2>3. RenameEntry(r) \/ lists'[h] = lists[h]
    <3>1. ASSUME NEW q \in Requests, NEW answer, Finish(q, answer) PROVE q = r
      BY <1>1, <3>1 DEF Finish, Inv, Locals
    <3>2. ASSUME NEW q \in Requests, NextHolder(q) PROVE q = r
      BY <1>1, <3>1, <3>2 DEF NextHolder
    <3>3. ASSUME NEW q \in Requests, AppendFolder(q) PROVE FALSE
      BY <1>1, <3>1, <3>3 DEF AppendFolder
    <3>4. ASSUME NEW q \in Requests, SwapList(q) PROVE FALSE
      BY <1>1, <3>1, <3>2, <3>4 DEF SwapList
    <3>5. ASSUME NEW q \in Requests, RenameEntry(q) PROVE q = r
      BY <1>1, <3>5 DEF RenameEntry, Inv, Locals
    <3>6. ASSUME NEW q \in Requests, NEW j \in Jobs,
                 StartMkdir(q, j) \/ StartRename(q, j) \/ StartDelete(q, j)
          PROVE  UNCHANGED lists
      BY <3>6 DEF StartMkdir, StartRename, StartDelete
    <3>7. ASSUME NEW q \in Requests, \/ NextProfile(q) \/ RenameDone(q) \/ ReadList(q)
                                     \/ SwapRefused(q) \/ SwapGivesUp(q) \/ CallFails(q)
          PROVE  UNCHANGED lists
      BY <3>7 DEF NextProfile, RenameDone, ReadList, SwapRefused, SwapGivesUp, CallFails
    <3>8. ASSUME NEW q \in Holders, Replicate(q) PROVE UNCHANGED lists
      BY <3>8 DEF Replicate
    <3> QED
      BY <1>1, <3>3, <3>4, <3>5, <3>6, <3>7, <3>8 DEF Next, Step, vars
  <2> QED
    BY <2>1, <2>2, <2>3
<1>2. Inv /\ [Next]_vars => [\A r \in Requests : A(r)]_vars
  BY <1>1
<1> QED
  BY <1>2, Always, PTL DEF Spec, RenamesSpareOthers
=============================================================================
