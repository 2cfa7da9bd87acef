-------------------------- MODULE FileStoreProofs --------------------------
(* Proofs, for every set of files, operations and sizes, with every kind of *)
(* fault, of the safety properties of FileStore.                            *)
EXTENDS FileStore, TLAPS

----------------------------------------------------------------------------
(* Type correctness *)

\* What an operation is asked to do names files of the store.
LEMMA JobFacts ==
    ASSUME NEW j \in Jobs
    PROVE  /\ j.file \in Files
           /\ j.to \in Files \cup {None}
           /\ j.size \in Nat
           /\ j.kind \in AllKinds
<1>1. CASE j \in [kind: {"upload"} \cap Kinds, file: Files, to: {None}, size: Sizes]
  BY <1>1, StoreAssumption DEF AllKinds
<1>2. CASE j \in [kind: {"download", "delete"} \cap Kinds, file: Files, to: {None}, size: {0}]
  BY <1>2 DEF AllKinds
<1>3. CASE j \in [kind: {"rename"} \cap Kinds, file: Files, to: Files, size: {0}]
  BY <1>3 DEF AllKinds
<1> QED
  BY <1>1, <1>2, <1>3 DEF Jobs

\* A version that an upload completes, and the constant ones, are objects.
LEMMA ObjectFacts ==
    /\ NoObject \in Objects /\ SeedObject \in Objects
    /\ \A o \in Ops, p, s \in Nat : [of |-> o, parts |-> p, size |-> s] \in Objects
  BY DEF Objects, NoObject, SeedObject

\* Putting rows keeps the types of the rows and of their counter.
LEMMA PutRowsType ==
    ASSUME TypeOK, NEW new \in [Files -> Files \cup {None}], PutRows(new)
    PROVE  row' \in [Files -> Files \cup {None}] /\ created' \in [Files -> Nat]
  BY DEF TypeOK, PutRows

\* Init establishes the types.
LEMMA TypeInit == Init => TypeOK
<1> SUFFICES ASSUME Init PROVE TypeOK
  OBVIOUS
<1>1. PICK present \in SUBSET Files :
         /\ row = [f \in Files |-> IF f \in present THEN f ELSE None]
         /\ obj = [f \in Files |-> IF f \in present THEN SeedObject ELSE NoObject]
         /\ created = [f \in Files |-> IF f \in present THEN 1 ELSE 0]
  BY DEF Init
<1>2. /\ row \in [Files -> Files \cup {None}]
      /\ created \in [Files -> Nat]
  BY <1>1
<1>3. obj \in [Files -> Objects]
  BY <1>1, ObjectFacts
<1> QED
  BY <1>2, <1>3, ObjectFacts DEF Init, TypeOK, InFlight, Finished

\* Every step keeps the types.
LEMMA TypeStep == TypeOK /\ [Next]_vars => TypeOK'
<1> SUFFICES ASSUME TypeOK, [Next]_vars PROVE TypeOK'
  OBVIOUS
<1>0. /\ \A o \in Ops : /\ File(o) \in Files /\ job[o].to \in Files \cup {None}
                        /\ job[o].size \in Nat
      /\ NoObject \in Objects
      /\ \A o \in Ops, p, s \in Nat : [of |-> o, parts |-> p, size |-> s] \in Objects
  BY JobFacts, ObjectFacts DEF TypeOK, File
<1>1. CASE UNCHANGED vars
  BY <1>1 DEF vars, TypeOK
<1>2. ASSUME NEW o \in Ops, StartUpload(o) PROVE TypeOK'
  BY <1>2 DEF StartUpload, Goto, TypeOK, InFlight, Finished
<1>3. ASSUME NEW o \in Ops, RecvChunk(o) \/ SendChunk(o) PROVE TypeOK'
  BY <1>3 DEF RecvChunk, SendChunk, TypeOK
<1>4. ASSUME NEW o \in Ops, RecvEOF(o) \/ SendEOF(o) PROVE TypeOK'
  BY <1>4 DEF RecvEOF, SendEOF, Goto, TypeOK, InFlight, Finished
<1>5. ASSUME NEW o \in Ops, CompleteUpload(o) PROVE TypeOK'
  <2>1. obj' \in [Files -> Objects]
    BY <1>0, <1>5 DEF CompleteUpload, TypeOK
  <2>2. \A q \in Ops : pc'[q] = "tx" => item'[q] \in Files
    BY <1>5 DEF CompleteUpload, Reply, Goto, TypeOK
  <2>3. pc' \in [Ops -> {"new"} \cup InFlight \cup Finished]
    BY <1>5 DEF CompleteUpload, Reply, Goto, TypeOK, InFlight
  <2> QED
    BY <1>5, <2>1, <2>2, <2>3 DEF CompleteUpload, TypeOK
<1>6. ASSUME NEW o \in Ops, AbortUpload(o) PROVE TypeOK'
  BY <1>6 DEF AbortUpload, Goto, TypeOK, InFlight, Finished
<1>7. ASSUME NEW o \in Ops, PutRow(o) PROVE TypeOK'
  <2>1. row' \in [Files -> Files \cup {None}] /\ created' \in [Files -> Nat]
    <3>1. [row EXCEPT ![File(o)] = File(o)] \in [Files -> Files \cup {None}]
      BY <1>0 DEF TypeOK
    <3> QED
      BY <1>7, <3>1, PutRowsType DEF PutRow
  <2>2. pc' \in [Ops -> {"new"} \cup InFlight \cup Finished] /\ resent' \subseteq Ops
    BY <1>7 DEF PutRow, Reply, Resend, Goto, TypeOK, Finished
  <2>3. \A q \in Ops : pc'[q] = "tx" => item'[q] \in Files
    BY <1>7 DEF PutRow, Reply, Resend, Goto, TypeOK
  <2> QED
    BY <1>7, <2>1, <2>2, <2>3 DEF PutRow, TypeOK
<1>8. ASSUME NEW o \in Ops, StartDownload(o) PROVE TypeOK'
  BY <1>8 DEF StartDownload, Goto, TypeOK, InFlight, Finished
<1>9. ASSUME NEW o \in Ops, GetObject(o) PROVE TypeOK'
  <2>1. got' \in [Ops -> Objects]
    BY <1>0, <1>9 DEF GetObject, TypeOK
  <2>2. pc' \in [Ops -> {"new"} \cup InFlight \cup Finished]
    BY <1>9 DEF GetObject, Goto, TypeOK, InFlight, Finished
  <2>3. \A q \in Ops : pc'[q] = "tx" => item'[q] \in Files
    BY <1>9 DEF GetObject, Goto, TypeOK
  <2> QED
    BY <1>9, <2>1, <2>2, <2>3 DEF GetObject, TypeOK
<1>10. ASSUME NEW o \in Ops, Lookup(o) PROVE TypeOK'
  <2>1. PICK r \in EventualRead(File(o)) :
          /\ item' = [item EXCEPT ![o] = r]
          /\ pc' = [pc EXCEPT ![o] = IF ~Found(r) THEN "notfound"
                                     ELSE IF job[o].kind = "delete" THEN "s3" ELSE "tx"]
    BY <1>10 DEF Lookup, Goto
  <2>2. r \in Files \cup {None}
    BY <1>0 DEF EventualRead, TypeOK
  <2>3. item' \in [Ops -> Files \cup {None}]
    BY <2>1, <2>2 DEF TypeOK
  <2>4. pc' \in [Ops -> {"new"} \cup InFlight \cup Finished]
    BY <2>1 DEF TypeOK, InFlight, Finished
  <2>5. \A q \in Ops : pc'[q] = "tx" => item'[q] \in Files
    BY <2>1, <2>2 DEF Found, TypeOK
  <2> QED
    BY <1>10, <2>3, <2>4, <2>5 DEF Lookup, TypeOK
<1>11. ASSUME NEW o \in Ops, DeleteObject(o) PROVE TypeOK'
  <2>1. obj' \in [Files -> Objects]
    BY <1>0, <1>11 DEF DeleteObject, TypeOK
  <2>2. pc' \in [Ops -> {"new"} \cup InFlight \cup Finished] /\ resent' \subseteq Ops
    BY <1>11 DEF DeleteObject, Reply, Resend, Goto, TypeOK, InFlight, Finished
  <2>3. \A q \in Ops : pc'[q] = "tx" => item'[q] \in Files
    BY <1>11 DEF DeleteObject, Reply, Resend, Goto, TypeOK
  <2> QED
    BY <1>11, <2>1, <2>2, <2>3 DEF DeleteObject, TypeOK
<1>12. ASSUME NEW o \in Ops, DeleteRow(o) PROVE TypeOK'
  <2>1. row' \in [Files -> Files \cup {None}] /\ created' \in [Files -> Nat]
    <3>1. [row EXCEPT ![File(o)] = None] \in [Files -> Files \cup {None}]
      BY <1>0 DEF TypeOK
    <3>2. CASE PutRows([row EXCEPT ![File(o)] = None])
      BY <3>1, <3>2, PutRowsType
    <3>3. CASE UNCHANGED <<row, created>>
      BY <3>3 DEF TypeOK
    <3> QED
      BY <1>12, <3>2, <3>3 DEF DeleteRow
  <2>2. removed' \in [Files -> Nat]
    BY <1>12 DEF DeleteRow, CountRemoval, TypeOK
  <2>3. pc' \in [Ops -> {"new"} \cup InFlight \cup Finished] /\ resent' \subseteq Ops
    BY <1>12 DEF DeleteRow, Reply, Resend, Goto, TypeOK, Finished
  <2>4. \A q \in Ops : pc'[q] = "tx" => item'[q] \in Files
    BY <1>12 DEF DeleteRow, Reply, Resend, Goto, TypeOK
  <2> QED
    BY <1>12, <2>1, <2>2, <2>3, <2>4 DEF DeleteRow, TypeOK
<1>13. ASSUME NEW o \in Ops, RenameRow(o) PROVE TypeOK'
  <2>1. row' \in [Files -> Files \cup {None}] /\ created' \in [Files -> Nat]
    <3>1. [row EXCEPT ![File(o)] = None, ![job[o].to] = item[o]] \in [Files -> Files \cup {None}]
      BY <1>0 DEF TypeOK
    <3>2. CASE PutRows([row EXCEPT ![File(o)] = None, ![job[o].to] = item[o]])
      BY <3>1, <3>2, PutRowsType
    <3>3. CASE UNCHANGED <<row, created>>
      BY <3>3 DEF TypeOK
    <3> QED
      BY <1>13, <3>2, <3>3 DEF RenameRow
  <2>2. removed' \in [Files -> Nat]
    BY <1>13 DEF RenameRow, CountRemoval, TypeOK
  <2>3. pc' \in [Ops -> {"new"} \cup InFlight \cup Finished]
    BY <1>13 DEF RenameRow, Reply, Goto, TypeOK, Finished
  <2>4. \A q \in Ops : pc'[q] = "tx" => item'[q] \in Files
    BY <1>13 DEF RenameRow, Reply, Goto, TypeOK
  <2> QED
    BY <1>13, <2>1, <2>2, <2>3, <2>4 DEF RenameRow, TypeOK
<1>14. ASSUME NEW o \in Ops, RenameToItself(o) \/ RenameConflicts(o) PROVE TypeOK'
  BY <1>14 DEF RenameToItself, RenameConflicts, Goto, TypeOK, Finished
<1>15. ASSUME NEW o \in Ops, ClientGone(o) PROVE TypeOK'
  BY <1>15 DEF ClientGone, TypeOK
<1>16. ASSUME NEW o \in Ops, CallFails(o) \/ CompleteRefused(o) \/ ServerDies(o) PROVE TypeOK'
  BY <1>16 DEF CallFails, CompleteRefused, ServerDies, OnError, Goto, TypeOK, InFlight, Finished
<1>17. ASSUME NEW f \in Files, Replicate(f) PROVE TypeOK'
  BY <1>17 DEF Replicate, TypeOK
<1>18. CASE Done
  BY <1>1, <1>18 DEF Done
<1> QED
  BY <1>1, <1>2, <1>3, <1>4, <1>5, <1>6, <1>7, <1>8, <1>9, <1>10, <1>11, <1>12,
     <1>13, <1>14, <1>15, <1>16, <1>17, <1>18 DEF Next

\* Every variable keeps its type, whatever faults, disconnects and stale reads
\* the operations meet; a rename about to write holds the item it has read.
THEOREM TypeCorrect == Spec => []TypeOK
  BY TypeInit, TypeStep, PTL DEF Spec

----------------------------------------------------------------------------
(* Successful removals *)

\* Putting rows keeps the balance of every file, and where a row disappears one
\* more removal may be counted.
LEMMA PutRowsBalance ==
    ASSUME TypeOK, RemovalsNeverExceedCreations,
           NEW new \in [Files -> Files \cup {None}], PutRows(new), NEW f \in Files
    PROVE  /\ removed[f] + (IF row'[f] = None THEN 0 ELSE 1) <= created'[f]
           /\ row[f] # None /\ row'[f] = None => removed[f] + 1 <= created'[f]
  BY DEF TypeOK, RemovalsNeverExceedCreations, PutRows

\* Every step keeps the balance.
LEMMA BalanceStep ==
    TypeOK /\ RemovalsNeverExceedCreations /\ [Next]_vars => RemovalsNeverExceedCreations'
<1> SUFFICES ASSUME TypeOK, RemovalsNeverExceedCreations, [Next]_vars
             PROVE  RemovalsNeverExceedCreations'
  OBVIOUS
<1>0. \A o \in Ops : File(o) \in Files
  BY JobFacts DEF TypeOK, File
<1>1. ASSUME UNCHANGED <<row, created, removed>> PROVE RemovalsNeverExceedCreations'
  BY <1>1 DEF RemovalsNeverExceedCreations
<1>2. ASSUME NEW o \in Ops, PutRow(o) PROVE RemovalsNeverExceedCreations'
  <2>1. [row EXCEPT ![File(o)] = File(o)] \in [Files -> Files \cup {None}]
    BY <1>0 DEF TypeOK
  <2>2. PutRows([row EXCEPT ![File(o)] = File(o)]) /\ UNCHANGED removed
    BY <1>2 DEF PutRow
  <2> QED
    BY <2>1, <2>2, PutRowsBalance DEF RemovalsNeverExceedCreations
<1>3. ASSUME NEW o \in Ops, NEW new \in [Files -> Files \cup {None}],
             PutRows(new), row[File(o)] # None, new[File(o)] = None,
             CountRemoval(File(o)) \/ UNCHANGED removed
      PROVE  RemovalsNeverExceedCreations'
  <2>1. row' = new
    BY <1>3 DEF PutRows
  <2>2. ASSUME NEW f \in Files
        PROVE  removed'[f] + (IF row'[f] = None THEN 0 ELSE 1) <= created'[f]
    <3>1. CASE UNCHANGED removed
      BY <1>3, <3>1, PutRowsBalance
    <3>2. CASE CountRemoval(File(o)) /\ f = File(o)
      <4>1. removed[f] + 1 <= created'[f]
        BY <1>3, <2>1, <3>2, PutRowsBalance
      <4> QED
        BY <1>3, <2>1, <3>2, <4>1 DEF CountRemoval, TypeOK
    <3>3. CASE CountRemoval(File(o)) /\ f # File(o)
      <4>1. removed'[f] = removed[f]
        BY <3>3 DEF CountRemoval, TypeOK
      <4> QED
        BY <1>3, <4>1, PutRowsBalance
    <3> QED
      BY <1>3, <3>1, <3>2, <3>3
  <2> QED
    BY <2>2 DEF RemovalsNeverExceedCreations
<1>4. ASSUME NEW o \in Ops, DeleteRow(o) PROVE RemovalsNeverExceedCreations'
  <2>1. CASE ~StillThere(File(o))
    BY <1>1, <1>4, <2>1 DEF DeleteRow
  <2>2. CASE StillThere(File(o))
    <3>1. /\ [row EXCEPT ![File(o)] = None] \in [Files -> Files \cup {None}]
          /\ [row EXCEPT ![File(o)] = None][File(o)] = None
      BY <1>0 DEF TypeOK
    <3> QED
      BY <1>3, <1>4, <2>2, <3>1 DEF DeleteRow, StillThere
  <2> QED
    BY <2>1, <2>2
<1>5. ASSUME NEW o \in Ops, RenameRow(o) PROVE RemovalsNeverExceedCreations'
  <2> DEFINE new == [row EXCEPT ![File(o)] = None, ![job[o].to] = item[o]]
  <2>1. CASE ~StillThere(File(o))
    BY <1>1, <1>5, <2>1 DEF RenameRow
  <2>2. CASE StillThere(File(o))
    <3>1. new \in [Files -> Files \cup {None}] /\ new[File(o)] = None
      BY <1>0, <1>5 DEF TypeOK, RenameRow
    <3>2. /\ PutRows(new) /\ row[File(o)] # None
          /\ CountRemoval(File(o)) \/ UNCHANGED removed
      BY <1>5, <2>2 DEF RenameRow, StillThere
    <3> QED
      BY <1>3, <3>1, <3>2
  <2> QED
    BY <2>1, <2>2
<1>6. ASSUME NEW o \in Ops,
             \/ StartUpload(o) \/ RecvChunk(o) \/ RecvEOF(o)
             \/ CompleteUpload(o) \/ CompleteRefused(o) \/ AbortUpload(o)
             \/ StartDownload(o) \/ GetObject(o) \/ SendChunk(o) \/ SendEOF(o)
             \/ Lookup(o) \/ DeleteObject(o)
             \/ RenameToItself(o) \/ RenameConflicts(o)
             \/ ClientGone(o) \/ CallFails(o) \/ ServerDies(o)
      PROVE  UNCHANGED <<row, created, removed>>
  BY <1>6 DEF StartUpload, RecvChunk, RecvEOF, CompleteUpload, CompleteRefused, AbortUpload,
     StartDownload, GetObject, SendChunk, SendEOF, Lookup, DeleteObject,
     RenameToItself, RenameConflicts, ClientGone, CallFails, ServerDies
<1>7. ASSUME NEW f \in Files, Replicate(f) PROVE UNCHANGED <<row, created, removed>>
  BY <1>7 DEF Replicate
<1>8. CASE Done \/ UNCHANGED vars
  BY <1>1, <1>8 DEF Done, vars
<1> QED
  BY <1>1, <1>2, <1>4, <1>5, <1>6, <1>7, <1>8 DEF Next

\* However many deletes and renames of a file race, with stale lookups, resends
\* and conflicts, no two of them report success for the same row.
THEOREM RemovalsAreDistinct == Spec => []RemovalsNeverExceedCreations
<1>1. Init => RemovalsNeverExceedCreations
  <2> SUFFICES ASSUME Init PROVE RemovalsNeverExceedCreations
    OBVIOUS
  <2>1. PICK present \in SUBSET Files :
           /\ row = [f \in Files |-> IF f \in present THEN f ELSE None]
           /\ created = [f \in Files |-> IF f \in present THEN 1 ELSE 0]
    BY DEF Init
  <2>2. ASSUME NEW f \in Files
        PROVE  removed[f] + (IF row[f] = None THEN 0 ELSE 1) <= created[f]
    <3>1. removed[f] = 0 /\ f # None
      BY StoreAssumption DEF Init
    <3> QED
      BY <2>1, <3>1
  <2> QED
    BY <2>2 DEF RemovalsNeverExceedCreations
<1> QED
  BY <1>1, TypeInit, TypeStep, BalanceStep, PTL DEF Spec

----------------------------------------------------------------------------
(* Downloads *)

\* What every object is, an upload that completes has received, and a download
\* sends: one version with all of its parts.
WholeVersions ==
    /\ \A f \in Files : obj[f] # NoObject => obj[f].of # None /\ obj[f].parts = obj[f].size
    /\ \A o \in Ops : pc[o] = "complete" => parts[o] = job[o].size
    /\ \A o \in Ops : pc[o] = "send" => got[o].of # None /\ got[o].parts = got[o].size
    /\ \A o \in Ops : pc[o] = "tx" => job[o].kind = "rename"

DownloadsInv == WholeVersions /\ DownloadsComplete

\* A step that leaves the objects alone, and in which the operation takes none
\* of the positions the invariant speaks of.
LEMMA QuietStep ==
    ASSUME TypeOK, DownloadsInv, NEW o \in Ops,
           UNCHANGED <<job, obj, got>>,
           \A q \in Ops \ {o} : pc'[q] = pc[q] /\ parts'[q] = parts[q],
           pc'[o] = pc[o] => parts'[o] = parts[o] \/ pc[o] \in {"recv", "send"},
           pc'[o] # pc[o] => \/ pc'[o] \notin {"complete", "send", "tx", "ok"}
                             \/ pc'[o] = "ok" /\ job[o].kind # "download"
    PROVE  DownloadsInv'
<1>1. WholeVersions'
  BY DEF DownloadsInv, WholeVersions
<1>2. DownloadsComplete'
  BY DEF DownloadsInv, DownloadsComplete
<1> QED
  BY <1>1, <1>2 DEF DownloadsInv

\* WholeVersions is inductive and implies that downloads are complete.
LEMMA DownloadsStep == TypeOK /\ DownloadsInv /\ [Next]_vars => DownloadsInv'
<1> SUFFICES ASSUME TypeOK, DownloadsInv, [Next]_vars PROVE DownloadsInv'
  OBVIOUS
<1>0. \A o \in Ops : File(o) \in Files
  BY JobFacts DEF TypeOK, File
<1>1. ASSUME UNCHANGED <<job, pc, obj, got, parts>> PROVE DownloadsInv'
  BY <1>1 DEF DownloadsInv, WholeVersions, DownloadsComplete
<1>2. ASSUME NEW o \in Ops,
             \/ StartUpload(o) \/ RecvChunk(o) \/ SendChunk(o)
             \/ CompleteRefused(o) \/ AbortUpload(o) \/ StartDownload(o)
             \/ RenameToItself(o) \/ RenameConflicts(o) \/ CallFails(o) \/ ServerDies(o)
      PROVE  DownloadsInv'
  <2>1. UNCHANGED <<job, obj, got>>
    BY <1>2 DEF StartUpload, RecvChunk, SendChunk, CompleteRefused, AbortUpload,
       StartDownload, RenameToItself, RenameConflicts, CallFails, ServerDies
  <2>2. /\ \A q \in Ops \ {o} : pc'[q] = pc[q] /\ parts'[q] = parts[q]
        /\ pc'[o] = pc[o] => parts'[o] = parts[o] \/ pc[o] \in {"recv", "send"}
        /\ pc'[o] # pc[o] => pc'[o] \notin {"complete", "send", "tx", "ok"}
    BY <1>2 DEF StartUpload, RecvChunk, SendChunk, CompleteRefused, AbortUpload,
       StartDownload, RenameToItself, RenameConflicts, CallFails, ServerDies,
       Goto, OnError, TypeOK
  <2> QED
    BY <2>1, <2>2, QuietStep
<1>3. ASSUME NEW o \in Ops, PutRow(o) \/ DeleteRow(o) \/ RenameRow(o) PROVE DownloadsInv'
  <2>1. UNCHANGED <<job, obj, got, parts>>
    BY <1>3 DEF PutRow, DeleteRow, RenameRow
  <2>2. job[o].kind # "download"
    BY <1>3 DEF PutRow, DeleteRow, RenameRow, DownloadsInv, WholeVersions
  <2>3. /\ \A q \in Ops \ {o} : pc'[q] = pc[q]
        /\ pc'[o] \in {pc[o], "ok", "error", "notfound"}
    BY <1>3 DEF PutRow, DeleteRow, RenameRow, Reply, Resend, Goto, TypeOK
  <2> QED
    BY <2>1, <2>2, <2>3, QuietStep
<1>4. ASSUME NEW o \in Ops, RecvEOF(o) PROVE DownloadsInv'
  <2>1. WholeVersions'
    BY <1>4 DEF RecvEOF, EndOfStream, Goto, TypeOK, DownloadsInv, WholeVersions
  <2>2. DownloadsComplete'
    BY <1>4 DEF RecvEOF, Goto, TypeOK, DownloadsInv, DownloadsComplete
  <2> QED
    BY <2>1, <2>2 DEF DownloadsInv
<1>5. ASSUME NEW o \in Ops, CompleteUpload(o) PROVE DownloadsInv'
  <2>1. /\ obj' = [obj EXCEPT ![File(o)] =
                      [of |-> o, parts |-> parts[o], size |-> job[o].size]]
        /\ parts[o] = job[o].size /\ o # None
    BY <1>5, StoreAssumption DEF CompleteUpload, DownloadsInv, WholeVersions
  <2>2. \A f \in Files : obj'[f] # NoObject => obj'[f].of # None /\ obj'[f].parts = obj'[f].size
    BY <1>0, <2>1 DEF TypeOK, DownloadsInv, WholeVersions
  <2>3. /\ UNCHANGED <<job, parts, got>>
        /\ \A q \in Ops \ {o} : pc'[q] = pc[q]
        /\ pc'[o] \in {"row", "abort"}
    BY <1>5 DEF CompleteUpload, Reply, Goto, TypeOK
  <2>4. WholeVersions'
    BY <2>2, <2>3 DEF DownloadsInv, WholeVersions
  <2>5. DownloadsComplete'
    BY <2>3 DEF DownloadsInv, DownloadsComplete
  <2> QED
    BY <2>4, <2>5 DEF DownloadsInv
<1>6. ASSUME NEW o \in Ops, GetObject(o) PROVE DownloadsInv'
  <2>1. /\ UNCHANGED <<job, obj, parts>>
        /\ \A q \in Ops \ {o} : pc'[q] = pc[q] /\ got'[q] = got[q]
        /\ pc'[o] \in {"notfound", "send"}
        /\ pc'[o] = "send" => obj[File(o)] # NoObject /\ got'[o] = obj[File(o)]
    BY <1>6 DEF GetObject, Goto, TypeOK
  <2>2. WholeVersions'
    BY <1>0, <2>1 DEF DownloadsInv, WholeVersions
  <2>3. DownloadsComplete'
    BY <2>1 DEF DownloadsInv, DownloadsComplete
  <2> QED
    BY <2>2, <2>3 DEF DownloadsInv
<1>7. ASSUME NEW o \in Ops, SendEOF(o) PROVE DownloadsInv'
  <2>1. /\ UNCHANGED <<job, obj, parts, got>>
        /\ \A q \in Ops \ {o} : pc'[q] = pc[q]
        /\ pc'[o] = "ok" /\ pc[o] = "send" /\ parts[o] = got[o].parts
    BY <1>7 DEF SendEOF, BodyEOF, Goto, TypeOK
  <2>2. WholeVersions'
    BY <2>1 DEF DownloadsInv, WholeVersions
  <2>3. DownloadsComplete'
    BY <2>1 DEF DownloadsInv, WholeVersions, DownloadsComplete
  <2> QED
    BY <2>2, <2>3 DEF DownloadsInv
<1>8. ASSUME NEW o \in Ops, Lookup(o) PROVE DownloadsInv'
  <2>1. /\ UNCHANGED <<job, obj, parts, got>>
        /\ \A q \in Ops \ {o} : pc'[q] = pc[q]
        /\ pc'[o] \in {"notfound", "s3", "tx"}
        /\ pc'[o] = "tx" => job[o].kind = "rename"
    BY <1>8 DEF Lookup, Goto, TypeOK
  <2>2. WholeVersions'
    BY <2>1 DEF DownloadsInv, WholeVersions
  <2>3. DownloadsComplete'
    BY <2>1 DEF DownloadsInv, DownloadsComplete
  <2> QED
    BY <2>2, <2>3 DEF DownloadsInv
<1>9. ASSUME NEW o \in Ops, DeleteObject(o) PROVE DownloadsInv'
  <2>1. /\ UNCHANGED <<job, parts, got>>
        /\ \A q \in Ops \ {o} : pc'[q] = pc[q]
        /\ pc'[o] \in {"row", "error", pc[o]}
    BY <1>9 DEF DeleteObject, Reply, Resend, Goto, TypeOK
  <2>2. \A f \in Files : obj'[f] # NoObject => obj'[f] = obj[f]
    BY <1>9 DEF DeleteObject, TypeOK
  <2>3. WholeVersions'
    BY <2>1, <2>2 DEF DownloadsInv, WholeVersions
  <2>4. DownloadsComplete'
    BY <2>1 DEF DownloadsInv, DownloadsComplete
  <2> QED
    BY <2>3, <2>4 DEF DownloadsInv
<1>10. CASE \/ \E o \in Ops : ClientGone(o)
            \/ \E f \in Files : Replicate(f)
            \/ Done \/ UNCHANGED vars
  BY <1>1, <1>10 DEF ClientGone, Replicate, Done, vars
<1> QED
  BY <1>2, <1>3, <1>4, <1>5, <1>6, <1>7, <1>8, <1>9, <1>10 DEF Next

\* The invariant holds at the start.
LEMMA DownloadsInit == Init => DownloadsInv
<1> SUFFICES ASSUME Init PROVE DownloadsInv
  OBVIOUS
<1>1. PICK present \in SUBSET Files :
         obj = [f \in Files |-> IF f \in present THEN SeedObject ELSE NoObject]
  BY DEF Init
<1>2. \A f \in Files : obj[f] # NoObject => obj[f].of # None /\ obj[f].parts = obj[f].size
  BY <1>1, StoreAssumption DEF SeedObject
<1>3. WholeVersions
  BY <1>2 DEF Init, WholeVersions
<1>4. DownloadsComplete
  BY DEF Init, DownloadsComplete
<1> QED
  BY <1>3, <1>4 DEF DownloadsInv

\* Every object anybody meets, in the bucket or on its way, is whole.
THEOREM VersionsAreWhole == Spec => []WholeVersions
<1>1. DownloadsInv => WholeVersions
  BY DEF DownloadsInv
<1> QED
  BY <1>1, DownloadsInit, TypeInit, TypeStep, DownloadsStep, PTL DEF Spec

\* A download that reports success has sent one whole version of the file,
\* whatever overwrites, deletes, disconnects and faults it or the uploads met.
THEOREM DownloadsAreComplete == Spec => []DownloadsComplete
<1>1. DownloadsInv => DownloadsComplete
  BY DEF DownloadsInv
<1> QED
  BY <1>1, DownloadsInit, TypeInit, TypeStep, DownloadsStep, PTL DEF Spec

----------------------------------------------------------------------------
(* Contents and rows *)

\* Which kind of operation can be where.
Positions ==
    \A o \in Ops :
        /\ pc[o] \in {"recv", "complete", "abort"} => job[o].kind = "upload"
        /\ pc[o] \in {"get", "send"} => job[o].kind = "download"
        /\ pc[o] = "s3" => job[o].kind = "delete"
        /\ pc[o] = "row" => job[o].kind \in {"upload", "delete"}
        /\ pc[o] = "tx" => job[o].kind = "rename"

\* No step brings an operation of another kind to a position, and none brings
\* an operation back to its start.
LEMMA PositionsStep ==
    ASSUME TypeOK, Positions, [Next]_vars
    PROVE  Positions' /\ UNCHANGED job /\ \A o \in Ops : pc[o] # "new" => pc'[o] # "new"
<1> DEFINE Goal == Positions' /\ UNCHANGED job /\ \A o \in Ops : pc[o] # "new" => pc'[o] # "new"
<1> USE DEF TypeOK, Positions, Goto
<1>1. ASSUME NEW o \in Ops,
             \/ StartUpload(o) \/ RecvChunk(o) \/ RecvEOF(o)
             \/ CompleteRefused(o) \/ AbortUpload(o)
      PROVE  Goal
  BY <1>1 DEF StartUpload, RecvChunk, RecvEOF, CompleteRefused, AbortUpload
<1>2. ASSUME NEW o \in Ops, CompleteUpload(o) \/ PutRow(o) PROVE Goal
  BY <1>2 DEF CompleteUpload, PutRow, Reply, Resend
<1>3. ASSUME NEW o \in Ops, StartDownload(o) \/ GetObject(o) \/ SendChunk(o) \/ SendEOF(o)
      PROVE  Goal
  BY <1>3 DEF StartDownload, GetObject, SendChunk, SendEOF
<1>4. ASSUME NEW o \in Ops, Lookup(o) \/ DeleteObject(o) PROVE Goal
  BY <1>4 DEF Lookup, DeleteObject, Reply, Resend
<1>5. ASSUME NEW o \in Ops, DeleteRow(o) \/ RenameRow(o) PROVE Goal
  BY <1>5 DEF DeleteRow, RenameRow, Reply, Resend
<1>6. ASSUME NEW o \in Ops,
             \/ RenameToItself(o) \/ RenameConflicts(o)
             \/ CallFails(o) \/ ServerDies(o) \/ ClientGone(o)
      PROVE  Goal
  BY <1>6 DEF RenameToItself, RenameConflicts, CallFails, ServerDies, ClientGone, OnError
<1>7. CASE (\E f \in Files : Replicate(f)) \/ Done \/ UNCHANGED vars
  BY <1>7 DEF Replicate, Done, vars
<1> QED
  BY <1>1, <1>2, <1>3, <1>4, <1>5, <1>6, <1>7 DEF Next

\* What has touched a file has touched it for good.
LEMMA TouchesStay ==
    ASSUME TypeOK, Positions, [Next]_vars, NEW o \in Ops, NEW f \in Files, Touches(o, f)
    PROVE  Touches(o, f)'
  BY PositionsStep DEF Touches, File

\* The object of a file is that of an upload to the file, or was there at the
\* start.
Authored(f) ==
    obj[f] # NoObject =>
        \/ obj[f].of = Seed
        \/ obj[f].of \in Ops /\ File(obj[f].of) = f /\ job[obj[f].of].kind = "upload"

\* A delete that is past its DeleteObject finds no object of the start any more.
SeedGone(f) ==
    \A o \in Ops : File(o) = f /\ job[o].kind = "delete" /\ pc[o] = "row"
                      => obj[f] = NoObject \/ obj[f].of \in Ops

\* UntouchedFilesReadable for one file; and an upload about to put its row has
\* its file's object there.
Readable(f) ==
    Untouched(f) =>
        /\ row[f] # None => obj[f] # NoObject /\ obj[f].parts = obj[f].size
        /\ \A o \in Ops : File(o) = f /\ job[o].kind = "upload" =>
              /\ pc[o] = "ok" => row[f] = f
              /\ pc[o] = "row" => obj[f] # NoObject

\* NoContentLeftBehind for one file.
Reachable(f) ==
    obj[f] # NoObject /\ row[f] = None =>
        \/ \E o \in Ops : job[o].kind = "rename" /\ Touches(o, f)
        \/ /\ obj[f].of \in Ops
           /\ \/ pc[obj[f].of] # "ok"
              \/ \E o \in Ops : job[o].kind = "delete" /\ Touches(o, f)

FileInv(f) == Authored(f) /\ SeedGone(f) /\ Readable(f) /\ Reachable(f)

\* A step that leaves the row and the object of a file alone, and in which no
\* upload or delete of the file takes a position the invariant speaks of.
LEMMA QuietFile ==
    ASSUME TypeOK, Positions, [Next]_vars, NEW f \in Files, FileInv(f),
           obj'[f] = obj[f], row'[f] = row[f],
           \A q \in Ops : File(q) = f /\ pc'[q] # pc[q] =>
               \/ job[q].kind \in {"download", "rename"}
               \/ job[q].kind = "upload" /\ pc'[q] \notin {"row", "ok"}
               \/ job[q].kind = "delete" /\ pc'[q] # "row"
    PROVE  FileInv(f)'
<1>1. UNCHANGED job /\ \A q \in Ops : File(q)' = File(q)
  BY PositionsStep DEF File
<1>2. \A q \in Ops : Touches(q, f) => Touches(q, f)'
  BY TouchesStay
<1>3. Untouched(f)' => Untouched(f)
  BY <1>2 DEF Untouched
<1>4. Authored(f)'
  BY <1>1 DEF FileInv, Authored, File
<1>5. SeedGone(f)'
  BY <1>1 DEF FileInv, SeedGone, File
<1>6. Readable(f)'
  BY <1>1, <1>3 DEF FileInv, Readable, File
<1>7. Reachable(f)'
  <2>1. SUFFICES ASSUME obj[f] # NoObject, row[f] = None,
                        ~ \E o \in Ops : job[o].kind = "rename" /\ Touches(o, f)
                 PROVE  /\ obj[f].of \in Ops
                        /\ \/ pc'[obj[f].of] # "ok"
                           \/ \E o \in Ops : job[o].kind = "delete" /\ Touches(o, f)'
    BY <1>1, <1>2 DEF Reachable
  <2>2. /\ obj[f].of \in Ops /\ File(obj[f].of) = f /\ job[obj[f].of].kind = "upload"
        /\ \/ pc[obj[f].of] # "ok"
           \/ \E o \in Ops : job[o].kind = "delete" /\ Touches(o, f)
    BY <2>1, StoreAssumption DEF FileInv, Reachable, Authored
  <2> QED
    BY <1>2, <2>2
<1> QED
  BY <1>4, <1>5, <1>6, <1>7 DEF FileInv

\* FileInv is inductive for every file, given the types, the positions and that
\* versions are whole.
LEMMA FileStep ==
    ASSUME TypeOK, Positions, WholeVersions, [Next]_vars, NEW f \in Files, FileInv(f)
    PROVE  FileInv(f)'
<1>1. UNCHANGED job /\ \A q \in Ops : File(q)' = File(q)
  BY PositionsStep DEF File
<1>2. \A q \in Ops : Touches(q, f) => Touches(q, f)'
  BY TouchesStay
<1>3. Untouched(f)' => Untouched(f)
  BY <1>2 DEF Untouched
<1>4. f # None /\ None \notin Ops
  BY StoreAssumption
<1>5. ASSUME NEW o \in Ops,
             \/ StartUpload(o) \/ RecvChunk(o) \/ RecvEOF(o)
             \/ CompleteRefused(o) \/ AbortUpload(o)
             \/ RenameToItself(o) \/ RenameConflicts(o) \/ CallFails(o) \/ ServerDies(o)
      PROVE  FileInv(f)'
  <2>1. /\ obj'[f] = obj[f] /\ row'[f] = row[f]
        /\ \A q \in Ops : pc'[q] # pc[q] => pc'[q] \notin {"row", "ok"}
    BY <1>5 DEF StartUpload, RecvChunk, RecvEOF, CompleteRefused, AbortUpload,
       RenameToItself, RenameConflicts, CallFails, ServerDies, OnError, Goto, TypeOK
  <2>2. \A q \in Ops : job[q].kind \in AllKinds
    BY JobFacts DEF TypeOK
  <2> QED
    BY <2>1, <2>2, QuietFile DEF AllKinds
<1>6. ASSUME NEW o \in Ops,
             StartDownload(o) \/ GetObject(o) \/ SendChunk(o) \/ SendEOF(o) \/ Lookup(o)
      PROVE  FileInv(f)'
  <2>1. /\ obj'[f] = obj[f] /\ row'[f] = row[f]
        /\ \A q \in Ops : pc'[q] # pc[q] =>
              \/ job[q].kind \in {"download", "rename"}
              \/ job[q].kind = "delete" /\ pc'[q] # "row"
    BY <1>6 DEF StartDownload, GetObject, SendChunk, SendEOF, Lookup, Goto, TypeOK, Positions
  <2> QED
    BY <2>1, QuietFile
<1>7. ASSUME NEW o \in Ops, CompleteUpload(o) PROVE FileInv(f)'
  <2>1. CASE File(o) # f
    <3>1. /\ obj'[f] = obj[f] /\ row'[f] = row[f]
          /\ \A q \in Ops : pc'[q] # pc[q] => q = o
      BY <1>7, <2>1 DEF CompleteUpload, Reply, Goto, TypeOK
    <3> QED
      BY <2>1, <3>1, QuietFile
  <2>2. CASE File(o) = f
    <3>1. /\ obj'[f].of = o /\ obj'[f].parts = obj'[f].size /\ obj'[f] # NoObject
          /\ row'[f] = row[f] /\ pc'[o] \in {"row", "abort"}
          /\ \A q \in Ops \ {o} : pc'[q] = pc[q]
          /\ job[o].kind = "upload"
      BY <1>4, <1>7, <2>2 DEF CompleteUpload, Reply, Goto, TypeOK, WholeVersions, Positions, NoObject
    <3>2. Authored(f)' /\ SeedGone(f)'
      BY <1>1, <2>2, <3>1 DEF Authored, SeedGone, File
    <3>3. Readable(f)'
      BY <1>1, <1>3, <2>2, <3>1 DEF FileInv, Readable, File
    <3>4. Reachable(f)'
      BY <3>1 DEF Reachable
    <3> QED
      BY <3>2, <3>3, <3>4 DEF FileInv
  <2> QED
    BY <2>1, <2>2
<1>8. ASSUME NEW o \in Ops, PutRow(o) PROVE FileInv(f)'
  <2>1. /\ obj' = obj
        /\ row' = [row EXCEPT ![File(o)] = File(o)]
        /\ pc'[o] \in {pc[o], "ok", "error"}
        /\ pc[o] = "row" /\ job[o].kind = "upload"
        /\ \A q \in Ops \ {o} : pc'[q] = pc[q]
    BY <1>8 DEF PutRow, PutRows, Reply, Resend, Goto, TypeOK
  <2>2. CASE File(o) # f
    <3>1. row'[f] = row[f] /\ \A q \in Ops : pc'[q] # pc[q] => q = o
      BY <2>1, <2>2 DEF TypeOK
    <3> QED
      BY <2>1, <2>2, <3>1, QuietFile
  <2>3. CASE File(o) = f
    <3>1. row'[f] = f
      BY <2>1, <2>3 DEF TypeOK
    <3>2. Authored(f)' /\ SeedGone(f)'
      BY <1>1, <2>1 DEF FileInv, Authored, SeedGone, File
    <3>3. Readable(f)'
      BY <1>1, <1>3, <2>1, <2>3, <3>1 DEF FileInv, Readable, WholeVersions, File
    <3>4. Reachable(f)'
      BY <1>4, <3>1 DEF Reachable
    <3> QED
      BY <3>2, <3>3, <3>4 DEF FileInv
  <2> QED
    BY <2>2, <2>3
<1>9. ASSUME NEW o \in Ops, DeleteObject(o) PROVE FileInv(f)'
  <2>1. /\ obj' = [obj EXCEPT ![File(o)] = NoObject] /\ row' = row
        /\ pc[o] = "s3" /\ job[o].kind = "delete"
        /\ \A q \in Ops : pc'[q] # pc[q] => q = o
    BY <1>9 DEF DeleteObject, Reply, Resend, Goto, TypeOK, Positions
  <2>2. CASE File(o) # f
    <3>1. obj'[f] = obj[f]
      BY <2>1, <2>2 DEF TypeOK
    <3> QED
      BY <2>1, <2>2, <3>1, QuietFile
  <2>3. CASE File(o) = f
    <3>1. obj'[f] = NoObject
      BY <2>1, <2>3 DEF TypeOK
    <3>2. Touches(o, f)'
      BY <1>2, <2>1, <2>3 DEF Touches
    <3>3. ~Untouched(f)'
      BY <3>2 DEF Untouched
    <3> QED
      BY <3>1, <3>3 DEF FileInv, Authored, SeedGone, Readable, Reachable
  <2> QED
    BY <2>2, <2>3
<1>10. ASSUME NEW o \in Ops, DeleteRow(o) PROVE FileInv(f)'
  <2>1. /\ obj' = obj
        /\ row' = row \/ row' = [row EXCEPT ![File(o)] = None]
        /\ pc[o] = "row" /\ job[o].kind = "delete"
        /\ \A q \in Ops : pc'[q] # pc[q] => q = o /\ pc'[q] # "row"
    BY <1>10 DEF DeleteRow, PutRows, Reply, Resend, Goto, TypeOK
  <2>2. CASE row'[f] = row[f]
    BY <2>1, <2>2, QuietFile
  <2>3. CASE row'[f] # row[f]
    <3>1. File(o) = f
      BY <2>1, <2>3 DEF TypeOK
    <3>2. obj[f] = NoObject \/ obj[f].of \in Ops
      BY <2>1, <3>1 DEF FileInv, SeedGone
    <3>3. Touches(o, f)'
      BY <1>2, <2>1, <3>1 DEF Touches
    <3>4. ~Untouched(f)'
      BY <3>3 DEF Untouched
    <3>5. Authored(f)' /\ SeedGone(f)'
      BY <1>1, <2>1, <3>2 DEF FileInv, Authored, SeedGone, File
    <3>6. Readable(f)'
      BY <3>4 DEF Readable
    <3>7. Reachable(f)'
      BY <1>1, <2>1, <3>2, <3>3 DEF Reachable
    <3> QED
      BY <3>5, <3>6, <3>7 DEF FileInv
  <2> QED
    BY <2>2, <2>3
<1>11. ASSUME NEW o \in Ops, RenameRow(o) PROVE FileInv(f)'
  <2>1. /\ obj' = obj
        /\ row' = row \/ row' = [row EXCEPT ![File(o)] = None, ![job[o].to] = item[o]]
        /\ pc[o] = "tx" /\ job[o].kind = "rename"
        /\ \A q \in Ops : pc'[q] # pc[q] => q = o
    BY <1>11 DEF RenameRow, PutRows, Reply, Goto, TypeOK, Positions
  <2>2. CASE row'[f] = row[f]
    BY <2>1, <2>2, QuietFile
  <2>3. CASE row'[f] # row[f]
    <3>1. f \in {File(o), job[o].to}
      BY <2>1, <2>3 DEF TypeOK
    <3>2. Touches(o, f)'
      BY <1>2, <2>1, <3>1 DEF Touches
    <3>3. ~Untouched(f)'
      BY <3>2 DEF Untouched
    <3>4. Authored(f)' /\ SeedGone(f)'
      BY <1>1, <2>1 DEF FileInv, Authored, SeedGone, File
    <3>5. Readable(f)'
      BY <3>3 DEF Readable
    <3>6. Reachable(f)'
      BY <1>1, <2>1, <3>2 DEF Reachable
    <3> QED
      BY <3>4, <3>5, <3>6 DEF FileInv
  <2> QED
    BY <2>2, <2>3
<1>12. CASE \/ \E o \in Ops : ClientGone(o)
            \/ \E g \in Files : Replicate(g)
            \/ Done \/ UNCHANGED vars
  <2>1. UNCHANGED <<obj, row, pc>>
    BY <1>12 DEF ClientGone, Replicate, Done, vars
  <2> QED
    BY <2>1, QuietFile
<1> QED
  BY <1>5, <1>6, <1>7, <1>8, <1>9, <1>10, <1>11, <1>12 DEF Next

ContentsInv == Positions /\ \A f \in Files : FileInv(f)

\* At the start every object has its row, and nothing is under way.
LEMMA ContentsInit == Init => ContentsInv
<1> SUFFICES ASSUME Init PROVE ContentsInv
  OBVIOUS
<1>1. Positions
  BY DEF Init, Positions
<1>2. ASSUME NEW f \in Files PROVE FileInv(f)
  <2>1. PICK present \in SUBSET Files :
           /\ row = [g \in Files |-> IF g \in present THEN g ELSE None]
           /\ obj = [g \in Files |-> IF g \in present THEN SeedObject ELSE NoObject]
    BY DEF Init
  <2>2. (row[f] = f /\ obj[f] = SeedObject) \/ (row[f] = None /\ obj[f] = NoObject)
    BY <2>1
  <2>3. SeedObject # NoObject /\ f # None /\ \A o \in Ops : pc[o] = "new"
    BY StoreAssumption DEF SeedObject, NoObject, Init
  <2> QED
    BY <2>2, <2>3 DEF FileInv, Authored, SeedGone, Readable, Reachable, SeedObject
<1> QED
  BY <1>1, <1>2 DEF ContentsInv

\* ContentsInv is an invariant.
LEMMA ContentsCorrect == Spec => []ContentsInv
<1>1. TypeOK /\ WholeVersions /\ ContentsInv /\ [Next]_vars => ContentsInv'
  <2> SUFFICES ASSUME TypeOK, WholeVersions, ContentsInv, [Next]_vars PROVE ContentsInv'
    OBVIOUS
  <2>1. Positions'
    BY PositionsStep DEF ContentsInv
  <2>2. ASSUME NEW f \in Files PROVE FileInv(f)'
    BY FileStep DEF ContentsInv
  <2> QED
    BY <2>1, <2>2 DEF ContentsInv
<1> QED
  BY <1>1, ContentsInit, TypeCorrect, VersionsAreWhole, PTL DEF Spec

\* Whatever faults, overwrites and disconnects uploads and downloads meet: as
\* long as no delete or rename of a file has started, its row implies a whole
\* object, and a successful upload stays listed.
THEOREM FilesStayReadable == Spec => []UntouchedFilesReadable
<1>1. ContentsInv => UntouchedFilesReadable
  BY DEF ContentsInv, FileInv, Readable, UntouchedFilesReadable
<1> QED
  BY <1>1, ContentsCorrect, PTL

\* Deletes, in whatever order their two halves meet those of uploads, leave no
\* object without a row behind but those of unfinished or racing uploads.
THEOREM DeletesLeaveNoContent == Spec => []NoContentLeftBehind
<1>1. ContentsInv => NoContentLeftBehind
  BY DEF ContentsInv, FileInv, Reachable, NoContentLeftBehind
<1> QED
  BY <1>1, ContentsCorrect, PTL

----------------------------------------------------------------------------
(* Uploads and downloads are atomic *)

\* How the multipart upload and the object being streamed go with the position.
UploadInv ==
    /\ \A o \in Ops :
          /\ pc[o] = "new" => mp[o] = "none"
          /\ pc[o] \in {"new", "get"} => got[o] = NoObject
          /\ pc[o] \in {"recv", "complete"} => mp[o] = "open"
          /\ pc[o] = "row" /\ job[o].kind = "upload" => mp[o] = "done"
          /\ mp[o] = "done" => job[o].kind = "upload"
          /\ job[o].kind = "upload" => pc[o] # "notfound"
    /\ \A f \in Files : obj[f].of \in Ops => mp[obj[f].of] = "done"

\* UploadInv is inductive.
LEMMA UploadStep ==
    ASSUME TypeOK, Positions, UploadInv, [Next]_vars
    PROVE  UploadInv'
<1> USE StoreAssumption DEF TypeOK, Positions, UploadInv, Goto, NoObject
<1>1. ASSUME NEW o \in Ops, StartUpload(o) \/ RecvChunk(o) \/ RecvEOF(o) PROVE UploadInv'
  BY <1>1 DEF StartUpload, RecvChunk, RecvEOF
<1>2. ASSUME NEW o \in Ops, CompleteUpload(o) PROVE UploadInv'
  BY <1>2 DEF CompleteUpload, Reply
<1>3. ASSUME NEW o \in Ops, CompleteRefused(o) \/ AbortUpload(o) PROVE UploadInv'
  BY <1>3 DEF CompleteRefused, AbortUpload
<1>4. ASSUME NEW o \in Ops, PutRow(o) PROVE UploadInv'
  BY <1>4 DEF PutRow, Reply, Resend
<1>5. ASSUME NEW o \in Ops, StartDownload(o) \/ GetObject(o) PROVE UploadInv'
  BY <1>5 DEF StartDownload, GetObject
<1>6. ASSUME NEW o \in Ops, SendChunk(o) \/ SendEOF(o) \/ Lookup(o) PROVE UploadInv'
  BY <1>6 DEF SendChunk, SendEOF, Lookup
<1>7. ASSUME NEW o \in Ops, DeleteObject(o) PROVE UploadInv'
  BY <1>7 DEF DeleteObject, Reply, Resend
<1>8. ASSUME NEW o \in Ops, DeleteRow(o) \/ RenameRow(o) PROVE UploadInv'
  BY <1>8 DEF DeleteRow, RenameRow, Reply, Resend
<1>9. ASSUME NEW o \in Ops,
             \/ RenameToItself(o) \/ RenameConflicts(o)
             \/ CallFails(o) \/ ServerDies(o) \/ ClientGone(o)
      PROVE  UploadInv'
  BY <1>9 DEF RenameToItself, RenameConflicts, CallFails, ServerDies, ClientGone, OnError, InFlight
<1>10. CASE (\E f \in Files : Replicate(f)) \/ Done \/ UNCHANGED vars
  BY <1>10 DEF Replicate, Done, vars
<1> QED
  BY <1>1, <1>2, <1>3, <1>4, <1>5, <1>6, <1>7, <1>8, <1>9, <1>10 DEF Next

\* Where nothing deletes or renames, a row stays, and a download that has found
\* it goes on with it there.
RowsStay ==
    \A o \in Ops : pc[o] = "get" => row[File(o)] # None

OnlyUploadsAndDownloads == Kinds \subseteq {"upload", "download"}

\* RowsStay is inductive if there are only uploads and downloads.
LEMMA RowsStayStep ==
    ASSUME OnlyUploadsAndDownloads, TypeOK, Positions, RowsStay, [Next]_vars
    PROVE  RowsStay'
<1>1. \A o \in Ops : job[o].kind \in {"upload", "download"} /\ File(o) \in Files
  BY JobFacts DEF OnlyUploadsAndDownloads, TypeOK, Jobs, File
<1>2. UNCHANGED job
  BY PositionsStep
<1>3. ASSUME NEW f \in Files, row[f] # None PROVE row'[f] # None
  <2>1. \A o \in Ops : ~DeleteRow(o) /\ ~RenameRow(o)
    BY <1>1 DEF DeleteRow, RenameRow, Positions
  <2>2. row' = row \/ \E o \in Ops : row' = [row EXCEPT ![File(o)] = File(o)]
    BY <2>1 DEF Next, StartUpload, RecvChunk, RecvEOF, CompleteUpload, CompleteRefused,
       AbortUpload, PutRow, PutRows, StartDownload, GetObject, SendChunk, SendEOF, Lookup,
       DeleteObject, RenameToItself, RenameConflicts, ClientGone, CallFails, ServerDies,
       Replicate, Done, vars
  <2> QED
    BY <1>3, <2>2, StoreAssumption DEF TypeOK
<1>4. ASSUME NEW q \in Ops, pc'[q] = "get", pc[q] # "get" PROVE row[File(q)] # None
  <2> USE <1>4 DEF TypeOK, Goto
  <2>1. ASSUME NEW o \in Ops, StartDownload(o) PROVE row[File(q)] # None
    BY <2>1 DEF StartDownload, ConsistentRead, Found
  <2>2. ~ \E o \in Ops : \/ StartUpload(o) \/ RecvChunk(o) \/ RecvEOF(o)
                         \/ CompleteRefused(o) \/ AbortUpload(o)
                         \/ GetObject(o) \/ SendChunk(o) \/ SendEOF(o) \/ Lookup(o)
    BY DEF StartUpload, RecvChunk, RecvEOF, CompleteRefused, AbortUpload, GetObject,
           SendChunk, SendEOF, Lookup
  <2>3. ~ \E o \in Ops : \/ CompleteUpload(o) \/ PutRow(o)
                         \/ DeleteObject(o) \/ DeleteRow(o) \/ RenameRow(o)
    BY DEF CompleteUpload, PutRow, DeleteObject, DeleteRow, RenameRow, Reply, Resend
  <2>4. ~ \E o \in Ops : \/ RenameToItself(o) \/ RenameConflicts(o)
                         \/ CallFails(o) \/ ServerDies(o) \/ ClientGone(o)
    BY DEF RenameToItself, RenameConflicts, CallFails, ServerDies, ClientGone, OnError
  <2>5. ~ ((\E f \in Files : Replicate(f)) \/ Done \/ UNCHANGED vars)
    BY DEF Replicate, Done, vars
  <2> QED
    BY <2>1, <2>2, <2>3, <2>4, <2>5 DEF Next
<1> QED
  BY <1>1, <1>2, <1>3, <1>4 DEF RowsStay, File

\* The mapped state: what AtomicStore's variables are here.
Asked == [o \in Ops |-> [kind |-> job[o].kind, file |-> job[o].file]]
Contents == [f \in Files |-> IF row[f] = None THEN None ELSE obj[f].of]
Seen == [o \in Ops |-> got[o].of]
Answers == [o \in Ops |-> Answer(o)]

\* The abstract step relation over the mapped state.
LEMMA AtomicSteps ==
    /\ UNCHANGED <<Asked, Contents, Published, Seen, Answers>> => UNCHANGED Atomic!vars
    /\ \A o \in Ops :
          /\ Answers[o] = "new" /\ Answers' = [Answers EXCEPT ![o] = "open"]
             /\ UNCHANGED <<Asked, Contents, Published, Seen>> => Atomic!Next
          /\ Answers[o] = "open" /\ Answers' = [Answers EXCEPT ![o] = "error"]
             /\ UNCHANGED <<Asked, Contents, Published, Seen>> => Atomic!Next
          /\ Answers[o] = "open" /\ Answers' = [Answers EXCEPT ![o] = "ok"]
             /\ Asked[o].kind = "upload" /\ o \in Published'
             /\ UNCHANGED <<Asked, Contents, Published, Seen>> => Atomic!Next
          /\ Answers[o] = "open" /\ Answers' = [Answers EXCEPT ![o] = "ok"]
             /\ Asked[o].kind = "download" /\ Seen[o] # None
             /\ UNCHANGED <<Asked, Contents, Published, Seen>> => Atomic!Next
          /\ Answers[o] = "new" /\ Answers' = [Answers EXCEPT ![o] = "notfound"]
             /\ Asked[o].kind = "download" /\ Contents[Asked[o].file] = None
             /\ UNCHANGED <<Asked, Contents, Published, Seen>> => Atomic!Next
          /\ Answers[o] = "open" /\ Asked[o].kind = "download" /\ Seen[o] = None
             /\ Contents[Asked[o].file] # None
             /\ Seen' = [Seen EXCEPT ![o] = Contents[Asked[o].file]]
             /\ UNCHANGED <<Asked, Contents, Published, Answers>> => Atomic!Next
<1> USE DEF Asked, Contents, Seen, Answers
<1>1. UNCHANGED <<Asked, Contents, Published, Seen, Answers>> => UNCHANGED Atomic!vars
  BY DEF Atomic!vars
<1>2. ASSUME NEW o \in Ops,
             Answers[o] = "new", Answers' = [Answers EXCEPT ![o] = "open"],
             UNCHANGED <<Asked, Contents, Published, Seen>>
      PROVE  Atomic!Next
  <2>1. Atomic!Call(o)
    BY <1>2 DEF Atomic!Call
  <2> QED
    BY <2>1 DEF Atomic!Next
<1>3. ASSUME NEW o \in Ops,
             Answers[o] = "open", Answers' = [Answers EXCEPT ![o] = "error"],
             UNCHANGED <<Asked, Contents, Published, Seen>>
      PROVE  Atomic!Next
  <2>1. Atomic!Fail(o)
    BY <1>3 DEF Atomic!Fail, Atomic!Failed
  <2> QED
    BY <2>1 DEF Atomic!Next
<1>4. ASSUME NEW o \in Ops,
             Answers[o] = "open", Answers' = [Answers EXCEPT ![o] = "ok"],
             Asked[o].kind = "upload", o \in Published',
             UNCHANGED <<Asked, Contents, Published, Seen>>
      PROVE  Atomic!Next
  <2>1. Atomic!UploadAnswer(o)
    BY <1>4 DEF Atomic!UploadAnswer, Atomic!Answered
  <2> QED
    BY <2>1 DEF Atomic!Next
<1>5. ASSUME NEW o \in Ops,
             Answers[o] = "open", Answers' = [Answers EXCEPT ![o] = "ok"],
             Asked[o].kind = "download", Seen[o] # None,
             UNCHANGED <<Asked, Contents, Published, Seen>>
      PROVE  Atomic!Next
  <2>1. Atomic!DownloadAnswer(o)
    BY <1>5 DEF Atomic!DownloadAnswer
  <2> QED
    BY <2>1 DEF Atomic!Next
<1>6. ASSUME NEW o \in Ops,
             Answers[o] = "new", Answers' = [Answers EXCEPT ![o] = "notfound"],
             Asked[o].kind = "download", Contents[Asked[o].file] = None,
             UNCHANGED <<Asked, Contents, Published, Seen>>
      PROVE  Atomic!Next
  <2>1. Atomic!NotFound(o)
    BY <1>6 DEF Atomic!NotFound
  <2> QED
    BY <2>1 DEF Atomic!Next
<1>7. ASSUME NEW o \in Ops,
             Answers[o] = "open", Asked[o].kind = "download", Seen[o] = None,
             Contents[Asked[o].file] # None,
             Seen' = [Seen EXCEPT ![o] = Contents[Asked[o].file]],
             UNCHANGED <<Asked, Contents, Published, Answers>>
      PROVE  Atomic!Next
  <2>1. Atomic!See(o)
    BY <1>7 DEF Atomic!See
  <2> QED
    BY <2>1 DEF Atomic!Next
<1> QED
  BY <1>1, <1>2, <1>3, <1>4, <1>5, <1>6, <1>7

\* One effect of several uploads, along with the answer of one of them.
LEMMA AtomicEffect ==
    ASSUME NEW f \in Files, NEW S \in SUBSET Ops, NEW w \in S, NEW o \in S,
           \A q \in S : Asked[q] = [kind |-> "upload", file |-> f] /\ q \notin Published
                           /\ Answers[q] \in {"open", "error"},
           Contents' = [Contents EXCEPT ![f] = w],
           Published' = Published \cup S,
           UNCHANGED <<Asked, Seen>>,
           \/ UNCHANGED Answers
           \/ Answers[o] = "open" /\ Answers' = [Answers EXCEPT ![o] = "ok"]
           \/ Answers[o] = "open" /\ Answers' = [Answers EXCEPT ![o] = "error"]
    PROVE  Atomic!Next
<1> USE DEF Asked, Contents, Seen, Answers
<1>1. S \subseteq Atomic!Writers(f)
  BY DEF Atomic!Writers
<1>2. Atomic!Write(f, S, w)
  BY <1>1 DEF Atomic!Write
<1>3. UNCHANGED Answers \/ Atomic!Answered(o) \/ Atomic!Failed(o)
  BY DEF Atomic!Answered, Atomic!Failed
<1> QED
  BY <1>1, <1>2, <1>3 DEF Atomic!Next, Atomic!Effect

\* An operation moves: what becomes of its answer.
LEMMA AnswerMoves ==
    ASSUME TypeOK, NEW o \in Ops, NEW next, Goto(o, next)
    PROVE  /\ pc[o] = "new" => Answers[o] = "new"
           /\ pc[o] \in InFlight => Answers[o] = "open"
           /\ next \in InFlight => Answers' = [Answers EXCEPT ![o] = "open"]
           /\ next \in Finished => Answers' = [Answers EXCEPT ![o] = next]
           /\ pc[o] \in InFlight /\ next \in InFlight => Answers' = Answers
<1>1. /\ pc' \in [Ops -> {pc'[q] : q \in Ops}] /\ pc'[o] = next
      /\ \A q \in Ops \ {o} : pc'[q] = pc[q]
  BY DEF Goto, TypeOK
<1>2. \A q \in Ops \ {o} : Answer(q)' = Answer(q)
  BY <1>1 DEF Answer
<1>3. /\ pc[o] = "new" => Answer(o) = "new"
      /\ pc[o] \in InFlight => Answer(o) = "open"
      /\ next \in InFlight => Answer(o)' = "open"
      /\ next \in Finished => Answer(o)' = next
  BY <1>1 DEF Answer, InFlight, Finished
<1> QED
  BY <1>2, <1>3 DEF Answers

AtomicInv ==
    /\ Positions /\ WholeVersions /\ UploadInv /\ RowsStay
    /\ \A f \in Files : FileInv(f)

\* What the invariants say where nothing deletes or renames.
LEMMA AtomicFacts ==
    ASSUME OnlyUploadsAndDownloads, TypeOK, AtomicInv
    PROVE  /\ \A o \in Ops : File(o) \in Files /\ job[o].kind \in {"upload", "download"}
           /\ \A f \in Files : /\ row[f] # None => obj[f] # NoObject /\ obj[f].of # None
                               /\ obj[f] # NoObject /\ row[f] = None =>
                                     /\ obj[f].of \in Ops /\ File(obj[f].of) = f
                                     /\ mp[obj[f].of] = "done"
           /\ \A o \in Ops : /\ pc[o] = "row" => /\ job[o].kind = "upload" /\ mp[o] = "done"
                                                 /\ obj[File(o)] # NoObject
                             /\ job[o].kind = "upload" /\ pc[o] = "ok" => row[File(o)] # None
<1>1. \A o \in Ops : File(o) \in Files /\ job[o].kind \in {"upload", "download"}
  BY JobFacts DEF OnlyUploadsAndDownloads, TypeOK, Jobs, File
<1>2. \A f \in Files : Untouched(f) /\ ~ \E o \in Ops : job[o].kind = "rename" /\ Touches(o, f)
  BY <1>1 DEF Untouched, Touches
<1>3. None \notin Files /\ Seed \notin Ops
  BY StoreAssumption
<1>4. ASSUME NEW f \in Files
      PROVE  /\ row[f] # None => obj[f] # NoObject /\ obj[f].of # None
             /\ obj[f] # NoObject /\ row[f] = None =>
                   obj[f].of \in Ops /\ File(obj[f].of) = f /\ mp[obj[f].of] = "done"
  BY <1>2, <1>3 DEF AtomicInv, FileInv, Readable, Reachable, Authored, WholeVersions, UploadInv
<1>5. ASSUME NEW o \in Ops
      PROVE  /\ pc[o] = "row" => /\ job[o].kind = "upload" /\ mp[o] = "done"
                                 /\ obj[File(o)] # NoObject
             /\ job[o].kind = "upload" /\ pc[o] = "ok" => row[File(o)] # None
  BY <1>1, <1>2, <1>3 DEF AtomicInv, FileInv, Readable, Positions, UploadInv
<1> QED
  BY <1>1, <1>4, <1>5

\* The initial states are mapped to initial states.
LEMMA AtomicInit == OnlyUploadsAndDownloads /\ Init => Atomic!Init
<1> SUFFICES ASSUME OnlyUploadsAndDownloads, Init PROVE Atomic!Init
  OBVIOUS
<1>1. PICK present \in SUBSET Files :
         /\ row = [f \in Files |-> IF f \in present THEN f ELSE None]
         /\ obj = [f \in Files |-> IF f \in present THEN SeedObject ELSE NoObject]
  BY DEF Init
<1>2. \A o \in Ops : job[o].kind \in {"upload", "download"} /\ job[o].file \in Files
  BY DEF Init, Jobs, OnlyUploadsAndDownloads
<1>3. Asked \in [Ops -> [kind: {"upload", "download"}, file: Files]]
  BY <1>2 DEF Asked
<1>4. \A f \in Files : Contents[f] \in {Seed, None}
  BY <1>1 DEF Contents, SeedObject
<1>5. Published = {}
  BY DEF Init, Published
<1>6. Seen = [o \in Ops |-> None] /\ Answers = [o \in Ops |-> "new"]
  BY DEF Init, Seen, Answers, Answer, InFlight, NoObject
<1>7. Contents \in [Files -> {Seed, None}]
  BY <1>4 DEF Contents
<1> QED
  BY <1>3, <1>5, <1>6, <1>7 DEF Atomic!Init, Asked, Contents, Seen, Answers

\* Calls that are not visible to the clients, and those that start or end a call
\* without an effect on the contents.
LEMMA PlainSteps ==
    ASSUME OnlyUploadsAndDownloads, TypeOK, AtomicInv, NEW o \in Ops,
           \/ StartUpload(o) \/ RecvChunk(o) \/ RecvEOF(o) \/ CompleteRefused(o)
           \/ AbortUpload(o) \/ StartDownload(o) \/ SendChunk(o) \/ SendEOF(o)
           \/ ClientGone(o) \/ CallFails(o) \/ ServerDies(o)
    PROVE  [Atomic!Next]_(Atomic!vars)
<1> DEFINE Fixed == UNCHANGED <<Asked, Contents, Published, Seen>>
<1>0. UNCHANGED <<job, row, obj, got>>
  BY DEF StartUpload, RecvChunk, RecvEOF, CompleteRefused, AbortUpload, StartDownload,
         SendChunk, SendEOF, ClientGone, CallFails, ServerDies
<1>1. \A q \in Ops : mp'[q] = "done" <=> mp[q] = "done"
  <2>1. UNCHANGED mp \/ StartUpload(o) \/ AbortUpload(o)
    BY DEF RecvChunk, RecvEOF, CompleteRefused, StartDownload,
           SendChunk, SendEOF, ClientGone, CallFails, ServerDies
  <2>2. StartUpload(o) => mp[o] = "none" /\ mp' = [mp EXCEPT ![o] = "open"]
    BY DEF StartUpload, AtomicInv, UploadInv
  <2>3. AbortUpload(o) => mp' = [mp EXCEPT ![o] = IF @ = "open" THEN "aborted" ELSE @]
    BY DEF AbortUpload
  <2> QED
    BY <2>1, <2>2, <2>3 DEF TypeOK
<1>2. Fixed
  BY <1>0, <1>1 DEF Asked, Contents, Published, Seen, File
<1>3. CASE RecvChunk(o) \/ SendChunk(o) \/ ClientGone(o)
  <2>1. UNCHANGED Answers
    BY <1>3 DEF RecvChunk, SendChunk, ClientGone, Answers, Answer
  <2> QED
    BY <1>2, <2>1, AtomicSteps
<1>4. CASE \/ RecvEOF(o) \/ CompleteRefused(o)
           \/ CallFails(o) /\ pc[o] \in {"recv", "complete"}
  <2>1. \E next \in InFlight : pc[o] \in InFlight /\ Goto(o, next)
    BY <1>4 DEF RecvEOF, CompleteRefused, CallFails, OnError, InFlight
  <2> QED
    BY <1>2, <2>1, AnswerMoves, AtomicSteps
<1>5. CASE \/ AbortUpload(o) \/ ServerDies(o)
           \/ CallFails(o) /\ pc[o] \notin {"recv", "complete"}
  <2>1. pc[o] \in InFlight /\ Goto(o, "error")
    BY <1>5 DEF AbortUpload, ServerDies, CallFails, OnError, InFlight
  <2>2. Answers[o] = "open" /\ Answers' = [Answers EXCEPT ![o] = "error"]
    BY <2>1, AnswerMoves DEF Finished
  <2> QED
    BY <1>2, <2>2, AtomicSteps
<1>6. CASE StartUpload(o)
  <2>1. pc[o] = "new" /\ Goto(o, "recv")
    BY <1>6 DEF StartUpload
  <2>2. Answers[o] = "new" /\ Answers' = [Answers EXCEPT ![o] = "open"]
    BY <2>1, AnswerMoves DEF InFlight
  <2> QED
    BY <1>2, <2>2, AtomicSteps
<1>7. CASE StartDownload(o)
  <2>1. CASE row[File(o)] # None
    <3>1. pc[o] = "new" /\ Goto(o, "get")
      BY <1>7, <2>1 DEF StartDownload, ConsistentRead, Found
    <3>2. Answers[o] = "new" /\ Answers' = [Answers EXCEPT ![o] = "open"]
      BY <3>1, AnswerMoves DEF InFlight
    <3> QED
      BY <1>2, <3>2, AtomicSteps
  <2>2. CASE row[File(o)] = None
    <3>1. pc[o] = "new" /\ Goto(o, "notfound") /\ job[o].kind = "download"
      BY <1>7, <2>2 DEF StartDownload, ConsistentRead, Found
    <3>2. Answers[o] = "new" /\ Answers' = [Answers EXCEPT ![o] = "notfound"]
      BY <3>1, AnswerMoves DEF Finished
    <3>3. Asked[o].kind = "download" /\ Contents[Asked[o].file] = None
      BY <2>2, <3>1, AtomicFacts DEF Asked, Contents, File
    <3> QED
      BY <1>2, <3>2, <3>3, AtomicSteps
  <2> QED
    BY <2>1, <2>2
<1>8. CASE SendEOF(o)
  <2>1. pc[o] = "send" /\ Goto(o, "ok")
    BY <1>8 DEF SendEOF
  <2>2. Answers[o] = "open" /\ Answers' = [Answers EXCEPT ![o] = "ok"]
    BY <2>1, AnswerMoves DEF InFlight, Finished
  <2>3. Asked[o].kind = "download" /\ Seen[o] # None
    BY <2>1 DEF Asked, Seen, AtomicInv, Positions, WholeVersions
  <2> QED
    BY <1>2, <2>2, <2>3, AtomicSteps
<1> QED
  BY <1>3, <1>4, <1>5, <1>6, <1>7, <1>8 DEF CallFails

\* The object a download streams is the content of the instant it is opened.
LEMMA SeeStep ==
    ASSUME OnlyUploadsAndDownloads, TypeOK, AtomicInv, NEW o \in Ops, GetObject(o)
    PROVE  [Atomic!Next]_(Atomic!vars)
<1>1. /\ pc[o] = "get" /\ job[o].kind = "download" /\ row[File(o)] # None
      /\ got[o] = NoObject /\ File(o) \in Files
  BY AtomicFacts DEF GetObject, AtomicInv, Positions, RowsStay, UploadInv
<1>2. obj[File(o)] # NoObject /\ obj[File(o)].of # None
  BY <1>1, AtomicFacts
<1>3. /\ Goto(o, "send") /\ got' = [got EXCEPT ![o] = obj[File(o)]]
      /\ UNCHANGED <<job, row, obj, mp>>
  BY <1>2 DEF GetObject
<1>4. Answers[o] = "open" /\ UNCHANGED Answers
  BY <1>1, <1>3, AnswerMoves DEF InFlight
<1>5. /\ Asked[o].kind = "download" /\ Asked[o].file = File(o)
      /\ Seen[o] = None /\ Contents[File(o)] = obj[File(o)].of
  BY <1>1 DEF Asked, Seen, Contents, NoObject, File
<1>6. \A q \in Ops : got'[q].of = IF q = o THEN Contents[File(o)] ELSE got[q].of
  BY <1>3, <1>5 DEF TypeOK
<1>7. Seen' = [Seen EXCEPT ![o] = Contents[File(o)]]
  BY <1>6 DEF Seen
<1>8. UNCHANGED <<Asked, Contents, Published>>
  BY <1>3 DEF Asked, Contents, Published, File
<1> QED
  BY <1>2, <1>4, <1>5, <1>7, <1>8, AtomicSteps

\* Completing an upload takes effect at once where the file has its row, and
\* is not visible where it has none.
LEMMA CompleteStep ==
    ASSUME OnlyUploadsAndDownloads, TypeOK, AtomicInv, NEW o \in Ops, CompleteUpload(o)
    PROVE  [Atomic!Next]_(Atomic!vars)
<1> DEFINE f == File(o)
<1>1. /\ pc[o] = "complete" /\ job[o].kind = "upload" /\ f \in Files /\ mp[o] = "open"
      /\ None \notin Ops
  BY AtomicFacts, StoreAssumption DEF CompleteUpload, AtomicInv, Positions, UploadInv
<1>2. /\ obj' = [obj EXCEPT ![f] = [of |-> o, parts |-> parts[o], size |-> job[o].size]]
      /\ mp' = [mp EXCEPT ![o] = "done"]
      /\ Goto(o, "row") \/ Goto(o, "abort")
      /\ UNCHANGED <<job, row, got>>
  BY DEF CompleteUpload, Reply
<1>3. Answers[o] = "open" /\ UNCHANGED Answers
  BY <1>1, <1>2, AnswerMoves DEF InFlight
<1>4. UNCHANGED <<Asked, Seen>>
  BY <1>2 DEF Asked, Seen
<1>5. \A g \in Files : obj'[g].of = IF g = f THEN o ELSE obj[g].of
  BY <1>1, <1>2 DEF TypeOK
<1>6. \A q \in Ops : mp'[q] = "done" <=> mp[q] = "done" \/ q = o
  BY <1>2 DEF TypeOK
<1>7. CASE row[f] = None
  <2>1. UNCHANGED Contents
    BY <1>2, <1>5, <1>7 DEF Contents
  <2>2. UNCHANGED Published
    BY <1>2, <1>6, <1>7 DEF Published, File
  <2> QED
    BY <1>3, <1>4, <2>1, <2>2, AtomicSteps
<1>8. CASE row[f] # None
  <2>1. Contents' = [Contents EXCEPT ![f] = o]
    BY <1>1, <1>2, <1>5, <1>8 DEF Contents
  <2>2. Published' = Published \cup {o}
    BY <1>2, <1>6, <1>8 DEF Published, File
  <2>3. Asked[o] = [kind |-> "upload", file |-> f] /\ o \notin Published
    BY <1>1 DEF Asked, Published, File
  <2> DEFINE S == {o}
  <2>4. /\ S \in SUBSET Ops /\ o \in S
        /\ \A q \in S : /\ Asked[q] = [kind |-> "upload", file |-> f] /\ q \notin Published
                       /\ Answers[q] \in {"open", "error"}
    BY <1>3, <2>3
  <2>5. Published' = Published \cup S
    BY <2>2
  <2> HIDE DEF S, f
  <2>6. Atomic!Next
    BY <1>1, <1>3, <1>4, <2>1, <2>4, <2>5, AtomicEffect
  <2> QED
    BY <2>6
<1> QED
  BY <1>7, <1>8

\* Putting the row of a file without one publishes every version its object has
\* had so far, the last of them staying; otherwise it only answers the upload.
LEMMA PutRowStep ==
    ASSUME OnlyUploadsAndDownloads, TypeOK, AtomicInv, NEW o \in Ops, PutRow(o)
    PROVE  [Atomic!Next]_(Atomic!vars)
<1> DEFINE f == File(o)
<1>1. /\ pc[o] = "row" /\ job[o].kind = "upload" /\ f \in Files /\ mp[o] = "done"
      /\ obj[f] # NoObject /\ f # None
  BY AtomicFacts, StoreAssumption DEF PutRow
<1>2. /\ row' = [row EXCEPT ![f] = f]
      /\ UNCHANGED <<job, obj, got, mp>>
      /\ Goto(o, "ok") \/ Goto(o, "error") \/ UNCHANGED pc
  BY DEF PutRow, PutRows, Reply, Resend
<1>3. /\ Answers[o] = "open"
      /\ \/ UNCHANGED Answers
         \/ Answers' = [Answers EXCEPT ![o] = "ok"]
         \/ Answers' = [Answers EXCEPT ![o] = "error"]
  <2>1. Answer(o) = "open"
    BY <1>1 DEF Answer, InFlight
  <2>2. Answers[o] = "open"
    BY <2>1 DEF Answers
  <2>3. UNCHANGED pc => UNCHANGED Answers
    BY DEF Answers, Answer
  <2> QED
    BY <1>2, <2>2, <2>3, AnswerMoves DEF Finished
<1>4. UNCHANGED <<Asked, Seen>>
  BY <1>2 DEF Asked, Seen
<1>5. \A g \in Files : row'[g] # None <=> row[g] # None \/ g = f
  BY <1>1, <1>2 DEF TypeOK
<1>6. CASE row[f] # None
  <2>1. UNCHANGED Contents
    BY <1>2, <1>5, <1>6 DEF Contents
  <2>2. UNCHANGED Published
    BY <1>2, <1>5, <1>6, AtomicFacts DEF Published, File
  <2>3. Asked[o].kind = "upload" /\ o \in Published'
    BY <1>1, <1>6, <2>2 DEF Asked, Published
  <2> QED
    BY <1>3, <1>4, <2>1, <2>2, <2>3, AtomicSteps
<1>7. CASE row[f] = None
  <2> DEFINE S == {q \in Ops : File(q) = f /\ mp[q] = "done"}
             w == obj[f].of
  <2>1. w \in S /\ o \in S
    BY <1>1, <1>7, AtomicFacts
  <2>2. ASSUME NEW q \in S
        PROVE  /\ Asked[q] = [kind |-> "upload", file |-> f] /\ q \notin Published
               /\ Answers[q] \in {"open", "error"}
    <3>1. job[q].kind = "upload" /\ pc[q] \notin {"new", "notfound"}
      BY DEF AtomicInv, UploadInv
    <3>2. pc[q] # "ok"
      BY <1>7, <3>1, AtomicFacts
    <3>3. Answer(q) \in {"open", "error"}
      BY <3>1, <3>2 DEF Answer, TypeOK, Finished
    <3> QED
      BY <1>7, <3>1, <3>3 DEF Asked, Answers, Published, File
  <2>3. Contents' = [Contents EXCEPT ![f] = w]
    BY <1>1, <1>2, <1>5 DEF Contents
  <2>4. Published' = Published \cup S
    BY <1>2, <1>5, AtomicFacts DEF Published, File
  <2>5. S \in SUBSET Ops
    OBVIOUS
  <2> HIDE DEF S, w, f
  <2>6. Atomic!Next
    BY <1>1, <1>3, <1>4, <2>1, <2>2, <2>3, <2>4, <2>5, AtomicEffect
  <2> QED
    BY <2>6
<1> QED
  BY <1>6, <1>7

\* Every step of uploads and downloads is a step of atomic files, or none.
LEMMA AtomicStep ==
    ASSUME OnlyUploadsAndDownloads, TypeOK, AtomicInv, [Next]_vars
    PROVE  [Atomic!Next]_(Atomic!vars)
<1>1. \A o \in Ops : job[o].kind \in {"upload", "download"}
  BY AtomicFacts
<1>2. \A o \in Ops : /\ ~Lookup(o) /\ ~DeleteObject(o) /\ ~DeleteRow(o) /\ ~RenameRow(o)
                     /\ ~RenameToItself(o) /\ ~RenameConflicts(o)
  BY <1>1 DEF Lookup, DeleteObject, DeleteRow, RenameRow, RenameToItself, RenameConflicts,
              AtomicInv, Positions
<1>3. CASE (\E f \in Files : Replicate(f)) \/ Done \/ UNCHANGED vars
  <2>1. UNCHANGED <<job, pc, row, obj, mp, got>>
    BY <1>3 DEF Replicate, Done, vars
  <2>2. UNCHANGED <<Asked, Contents, Published, Seen, Answers>>
    BY <2>1 DEF Asked, Contents, Published, Seen, Answers, Answer, File
  <2> QED
    BY <2>2, AtomicSteps
<1> QED
  BY <1>2, <1>3, PlainSteps, SeeStep, CompleteStep, PutRowStep DEF Next

\* Uploads and downloads, however they interleave, lose their clients or meet
\* faults, make every file an atomic register: each upload takes effect at one
\* instant or never, and each download returns the content of one instant.
THEOREM UploadsAndDownloadsAreAtomic ==
    ASSUME OnlyUploadsAndDownloads
    PROVE  Spec => ImplementsAtomicStore
<1>1. Init => UploadInv /\ RowsStay
  <2> SUFFICES ASSUME Init PROVE UploadInv /\ RowsStay
    OBVIOUS
  <2>1. \A f \in Files : obj[f] \in {SeedObject, NoObject}
    BY DEF Init
  <2> QED
    BY <2>1, StoreAssumption DEF Init, UploadInv, RowsStay, SeedObject, NoObject
<1>2. TypeOK /\ ContentsInv /\ UploadInv /\ RowsStay /\ [Next]_vars => (UploadInv /\ RowsStay)'
  BY UploadStep, RowsStayStep DEF ContentsInv
<1>3. /\ TypeOK /\ WholeVersions /\ ContentsInv /\ UploadInv /\ RowsStay /\ [Next]_vars
      => [Atomic!Next]_(Atomic!vars)
  BY AtomicStep DEF AtomicInv, ContentsInv
<1>4. Init => Atomic!Init
  BY AtomicInit
<1> QED
  BY <1>1, <1>2, <1>3, <1>4, TypeCorrect, VersionsAreWhole, ContentsCorrect, PTL
     DEF Spec, ImplementsAtomicStore, Atomic!Spec

=============================================================================
