----------------------------- MODULE FileStore -----------------------------
(***************************************************************************)
(* Files of one NEUDFS folder: metadata rows in DynamoDB, contents in S3.  *)
(*                                                                         *)
(* Upload, Download, Delete and Rename are sequences of calls to the two   *)
(* stores with no lock or transaction across them.  A row is keyed by the  *)
(* file's path; the object Download and Delete look for is keyed by the    *)
(* same path, whatever the row's s3_url says.  The strongly consistent     *)
(* reads see the table, the others a replica that may lag behind it.       *)
(*                                                                         *)
(* An operation in flight may lose its client, which cancels the context   *)
(* of every later call; with Faults any call may fail, or be applied with  *)
(* its reply lost, and a server may die.  Who may do what to which folder  *)
(* is not modelled here.                                                   *)
(***************************************************************************)
EXTENDS Integers

CONSTANTS
    Files,        \* file paths
    Ops,          \* operations, each run once
    Kinds,        \* kinds of operations: a subset of AllKinds
    Sizes,        \* possible sizes of an uploaded file, in parts
    Seed,         \* the author of the files present at the start
    None,         \* no row, no object
    Faults,       \* calls may fail or lose their replies; servers may die
    Disconnects,  \* clients may disconnect
    Stale         \* eventually consistent reads may be stale

AllKinds == {"upload", "download", "delete", "rename"}

ASSUME StoreAssumption ==
    /\ None \notin Files \cup Ops \cup {Seed}
    /\ Seed \notin Ops
    /\ Kinds \subseteq AllKinds
    /\ Sizes \subseteq Nat
    /\ Faults \in BOOLEAN /\ Disconnects \in BOOLEAN /\ Stale \in BOOLEAN

VARIABLES
    job,      \* op -> what it is asked to do
    pc,       \* op -> its next step, or how it ended
    gone,     \* operations whose client disconnected
    row,      \* file -> the file its metadata row's s3_url names, or None
    replica,  \* file -> row as the eventually consistent reads may see it
    obj,      \* file -> the object in the bucket
    mp,       \* op -> state of its multipart upload
    parts,    \* op -> parts received (upload) or sent (download)
    item,     \* op -> the row it read (delete, rename)
    got,      \* op -> the object it is streaming (download)
    resent,   \* operations that have used up their resend
    created,  \* file -> how often its row has come into being
    removed   \* file -> how many deletes and renames of it reported success

vars == <<job, pc, gone, row, replica, obj, mp, parts, item, got, resent,
          created, removed>>

Jobs == [kind: {"upload"} \cap Kinds, file: Files, to: {None}, size: Sizes]
   \cup [kind: {"download", "delete"} \cap Kinds, file: Files, to: {None}, size: {0}]
   \cup [kind: {"rename"} \cap Kinds, file: Files, to: Files, size: {0}]

Objects == [of: Ops \cup {Seed, None}, parts: Nat, size: Nat]
NoObject == [of |-> None, parts |-> 0, size |-> 0]
SeedObject == [of |-> Seed, parts |-> 1, size |-> 1]

Finished == {"ok", "notfound", "error"}
InFlight == {"recv", "complete", "abort", "s3", "row", "lookup", "get", "send", "tx"}

Init ==
    /\ job \in [Ops -> Jobs]
    /\ pc = [o \in Ops |-> "new"]
    /\ gone = {} /\ resent = {}
    /\ \E present \in SUBSET Files :
          /\ row = [f \in Files |-> IF f \in present THEN f ELSE None]
          /\ obj = [f \in Files |-> IF f \in present THEN SeedObject ELSE NoObject]
          /\ created = [f \in Files |-> IF f \in present THEN 1 ELSE 0]
    /\ replica = row
    /\ mp = [o \in Ops |-> "none"]
    /\ parts = [o \in Ops |-> 0]
    /\ item = [o \in Ops |-> None]
    /\ got = [o \in Ops |-> NoObject]
    /\ removed = [f \in Files |-> 0]

----------------------------------------------------------------------------
(* Calls and their replies *)

File(o) == job[o].file

Goto(o, next) == pc' = [pc EXCEPT ![o] = next]

\* A call was applied: the caller goes on, or takes it for failed because the
\* reply is lost or the context is cancelled.
Reply(o, next, otherwise) ==
    \/ o \notin gone /\ Goto(o, next)
    \/ (Faults \/ o \in gone) /\ Goto(o, otherwise)

\* A call was applied, its reply is lost, and the SDK sends it again: at most
\* once in an operation.
Resend(o) ==
    /\ Faults /\ o \notin resent
    /\ resent' = resent \cup {o}
    /\ UNCHANGED pc

\* The rows become new.
PutRows(new) ==
    /\ row' = new
    /\ created' = [f \in Files |->
          created[f] + IF row[f] = None /\ new[f] # None THEN 1 ELSE 0]

CountRemoval(f) == removed' = [removed EXCEPT ![f] = @ + 1]

\* Mutant of ConsistentRead: ConsistentRead is not asked for.
InconsistentRead(f) == {row[f], replica[f]}

\* A consistent read of the row; one that is only eventually consistent.
ConsistentRead(f) == {row[f]}
EventualRead(f) == IF Stale THEN {row[f], replica[f]} ELSE {row[f]}

\* Mutant of Found: the empty answer is not looked at.
AlwaysFound(r) == TRUE

Found(r) == r # None

----------------------------------------------------------------------------
(* Upload *)

\* CreateMultipartUpload, once the stream's metadata message has arrived.
StartUpload(o) ==
    /\ pc[o] = "new" /\ job[o].kind = "upload"
    /\ mp' = [mp EXCEPT ![o] = "open"]
    /\ Goto(o, "recv")
    /\ UNCHANGED <<job, gone, row, replica, obj, parts, item, got, resent, created, removed>>

RecvChunk(o) ==
    /\ pc[o] = "recv" /\ o \notin gone
    /\ parts[o] < job[o].size
    /\ parts' = [parts EXCEPT ![o] = @ + 1]
    /\ UNCHANGED <<job, pc, gone, row, replica, obj, mp, item, got, resent, created, removed>>

\* Mutant of EndOfStream: every error of Recv ends the stream.
EndOrError(o) == parts[o] = job[o].size \/ o \in gone

\* io.EOF: the client has closed its side after the last chunk.
EndOfStream(o) == parts[o] = job[o].size /\ o \notin gone

RecvEOF(o) ==
    /\ pc[o] = "recv"
    /\ EndOfStream(o)
    /\ Goto(o, "complete")
    /\ UNCHANGED <<job, gone, row, replica, obj, mp, parts, item, got, resent, created, removed>>

\* CompleteMultipartUpload; S3 refuses an upload without parts.
CompleteUpload(o) ==
    /\ pc[o] = "complete" /\ parts[o] > 0
    /\ obj' = [obj EXCEPT ![File(o)] =
                  [of |-> o, parts |-> parts[o], size |-> job[o].size]]
    /\ mp' = [mp EXCEPT ![o] = "done"]
    /\ Reply(o, "row", "abort")
    /\ UNCHANGED <<job, gone, row, replica, parts, item, got, resent, created, removed>>

\* AbortMultipartUpload, whose own error nobody looks at.
AbortUpload(o) ==
    /\ pc[o] = "abort" /\ o \notin gone
    /\ mp' = [mp EXCEPT ![o] = IF @ = "open" THEN "aborted" ELSE @]
    /\ Goto(o, "error")
    /\ UNCHANGED <<job, gone, row, replica, obj, parts, item, got, resent, created, removed>>

\* PutItem of the metadata row, without a condition.  When the reply is lost
\* the SDK may send it again.
PutRow(o) ==
    /\ pc[o] = "row" /\ job[o].kind = "upload"
    /\ PutRows([row EXCEPT ![File(o)] = File(o)])
    /\ \/ Reply(o, "ok", "error") /\ UNCHANGED resent
       \/ Resend(o)
    /\ UNCHANGED <<job, gone, replica, obj, mp, parts, item, got, removed>>

----------------------------------------------------------------------------
(* Download *)

StartDownload(o) ==
    /\ pc[o] = "new" /\ job[o].kind = "download"
    /\ \E r \in ConsistentRead(File(o)) : Goto(o, IF Found(r) THEN "get" ELSE "notfound")
    /\ UNCHANGED <<job, gone, row, replica, obj, mp, parts, item, got, resent, created, removed>>

\* GetObject answers from one version of the object, or NoSuchKey.
GetObject(o) ==
    /\ pc[o] = "get" /\ o \notin gone
    /\ got' = [got EXCEPT ![o] = obj[File(o)]]
    /\ Goto(o, IF obj[File(o)] = NoObject THEN "notfound" ELSE "send")
    /\ UNCHANGED <<job, gone, row, replica, obj, mp, parts, item, resent, created, removed>>

SendChunk(o) ==
    /\ pc[o] = "send" /\ o \notin gone
    /\ parts[o] < got[o].parts
    /\ parts' = [parts EXCEPT ![o] = @ + 1]
    /\ UNCHANGED <<job, pc, gone, row, replica, obj, mp, item, got, resent, created, removed>>

\* Mutant of BodyEOF: the loop ends at any error of Read.
BodyEOFOrError(o) == parts[o] = got[o].parts \/ Faults

\* The body is at io.EOF, and the handler returns nil.
BodyEOF(o) == parts[o] = got[o].parts

SendEOF(o) ==
    /\ pc[o] = "send"
    /\ BodyEOF(o)
    /\ Goto(o, "ok")
    /\ UNCHANGED <<job, gone, row, replica, obj, mp, parts, item, got, resent, created, removed>>

----------------------------------------------------------------------------
(* Delete and Rename *)

\* Both start with a read that is only eventually consistent.
Lookup(o) ==
    /\ pc[o] = "new" /\ job[o].kind \in {"delete", "rename"}
    /\ \E r \in EventualRead(File(o)) :
          /\ item' = [item EXCEPT ![o] = r]
          /\ Goto(o, IF ~Found(r) THEN "notfound"
                     ELSE IF job[o].kind = "delete" THEN "s3" ELSE "tx")
    /\ UNCHANGED <<job, gone, row, replica, obj, mp, parts, got, resent, created, removed>>

\* The object goes first; DeleteObject succeeds whether there is one or not.
DeleteObject(o) ==
    /\ pc[o] = "s3"
    /\ obj' = [obj EXCEPT ![File(o)] = NoObject]
    /\ \/ Reply(o, "row", "error") /\ UNCHANGED resent
       \/ Resend(o)
    /\ UNCHANGED <<job, gone, row, replica, mp, parts, item, got, created, removed>>

\* Mutant of StillThere: no condition.
Unconditional(f) == TRUE

\* The condition attribute_exists(pk) on the row that is to go.
StillThere(f) == row[f] # None

\* DeleteItem under that condition; NotFound when it fails.
DeleteRow(o) ==
    /\ pc[o] = "row" /\ job[o].kind = "delete"
    /\ \/ /\ StillThere(File(o))
          /\ PutRows([row EXCEPT ![File(o)] = None])
          /\ \/ Reply(o, "ok", "error") /\ UNCHANGED resent
             \/ Resend(o)
          /\ IF pc'[o] = "ok" THEN CountRemoval(File(o)) ELSE UNCHANGED removed
       \/ /\ ~StillThere(File(o))
          /\ Goto(o, "notfound")
          /\ UNCHANGED <<row, resent, created, removed>>
    /\ UNCHANGED <<job, gone, replica, obj, mp, parts, item, got>>

\* TransactWriteItems: delete the old row if it is still there, put the item
\* that was read under the new key.  Nothing touches the object.
RenameRow(o) ==
    /\ pc[o] = "tx" /\ job[o].to # File(o)
    /\ \/ /\ StillThere(File(o))
          /\ PutRows([row EXCEPT ![File(o)] = None, ![job[o].to] = item[o]])
          /\ Reply(o, "ok", "error")
          /\ IF pc'[o] = "ok" THEN CountRemoval(File(o)) ELSE UNCHANGED removed
       \/ /\ ~StillThere(File(o))
          /\ Goto(o, "notfound")
          /\ UNCHANGED <<row, created, removed>>
    /\ UNCHANGED <<job, gone, replica, obj, mp, parts, item, got, resent>>

\* DynamoDB refuses a transaction with two writes of one item.
RenameToItself(o) ==
    /\ pc[o] = "tx" /\ job[o].to = File(o)
    /\ Goto(o, "error")
    /\ UNCHANGED <<job, gone, row, replica, obj, mp, parts, item, got, resent, created, removed>>

\* The files whose rows an operation is about to write.
Writes(o) == IF pc[o] \in {"row", "tx"} THEN {File(o), job[o].to} \ {None} ELSE {}

\* DynamoDB cancels a transaction that meets another write of the same item;
\* every TransactionCanceledException is taken to mean that the file is gone.
RenameConflicts(o) ==
    /\ pc[o] = "tx" /\ job[o].to # File(o)
    /\ \E p \in Ops \ {o} : Writes(p) \cap Writes(o) # {}
    /\ Goto(o, "notfound")
    /\ UNCHANGED <<job, gone, row, replica, obj, mp, parts, item, got, resent, created, removed>>

----------------------------------------------------------------------------
(* The environment *)

\* The client disconnects, or the connection reaches its maximal age.
ClientGone(o) ==
    /\ Disconnects
    /\ pc[o] \in InFlight /\ o \notin gone
    /\ gone' = gone \cup {o}
    /\ UNCHANGED <<job, pc, row, replica, obj, mp, parts, item, got, resent, created, removed>>

\* Mutant of OnError: the error of Complete is dropped.
IgnoreComplete(o) == CASE pc[o] = "recv"     -> "abort"
                      [] pc[o] = "complete" -> "row"
                      [] OTHER              -> "error"

\* Mutant of OnError: the error of DeleteObject is dropped.
IgnoreDelete(o) == CASE pc[o] \in {"recv", "complete"} -> "abort"
                     [] pc[o] = "s3"                   -> "row"
                     [] OTHER                          -> "error"

\* Where an error takes an operation: an upload that has not completed goes to
\* its Abort, everything else returns.
OnError(o) == IF pc[o] \in {"recv", "complete"} THEN "abort" ELSE "error"

\* A call fails without effect, for a fault or because its context is
\* cancelled.
CallFails(o) ==
    /\ Faults \/ o \in gone
    /\ pc[o] \in InFlight
    /\ Goto(o, OnError(o))
    /\ UNCHANGED <<job, gone, row, replica, obj, mp, parts, item, got, resent, created, removed>>

\* S3 answers InvalidRequest to the completion of an upload without parts.
CompleteRefused(o) ==
    /\ pc[o] = "complete" /\ parts[o] = 0
    /\ Goto(o, "abort")
    /\ UNCHANGED <<job, gone, row, replica, obj, mp, parts, item, got, resent, created, removed>>

\* The server running the operation stops.
ServerDies(o) ==
    /\ Faults
    /\ pc[o] \in InFlight
    /\ Goto(o, "error")
    /\ UNCHANGED <<job, gone, row, replica, obj, mp, parts, item, got, resent, created, removed>>

\* The replica catches up on one row.
Replicate(f) ==
    /\ Stale
    /\ replica[f] # row[f]
    /\ replica' = [replica EXCEPT ![f] = row[f]]
    /\ UNCHANGED <<job, pc, gone, row, obj, mp, parts, item, got, resent, created, removed>>

AllFinished == \A o \in Ops : pc[o] \in Finished

\* Nothing is left to do: every operation runs once.
Done == AllFinished /\ (Stale => replica = row) /\ UNCHANGED vars

Next ==
    \/ \E o \in Ops :
          \/ StartUpload(o) \/ RecvChunk(o) \/ RecvEOF(o)
          \/ CompleteUpload(o) \/ CompleteRefused(o) \/ AbortUpload(o) \/ PutRow(o)
          \/ StartDownload(o) \/ GetObject(o) \/ SendChunk(o) \/ SendEOF(o)
          \/ Lookup(o) \/ DeleteObject(o) \/ DeleteRow(o)
          \/ RenameRow(o) \/ RenameToItself(o) \/ RenameConflicts(o)
          \/ ClientGone(o) \/ CallFails(o) \/ ServerDies(o)
    \/ \E f \in Files : Replicate(f)
    \/ Done

Spec == Init /\ [][Next]_vars

----------------------------------------------------------------------------
(* Properties *)

\* The type invariant.  A rename about to write holds the item it will put.
TypeOK ==
    /\ job \in [Ops -> Jobs]
    /\ pc \in [Ops -> {"new"} \cup InFlight \cup Finished]
    /\ gone \subseteq Ops /\ resent \subseteq Ops
    /\ row \in [Files -> Files \cup {None}]
    /\ replica \in [Files -> Files \cup {None}]
    /\ obj \in [Files -> Objects]
    /\ mp \in [Ops -> {"none", "open", "done", "aborted"}]
    /\ parts \in [Ops -> Nat]
    /\ item \in [Ops -> Files \cup {None}]
    /\ got \in [Ops -> Objects]
    /\ created \in [Files -> Nat]
    /\ removed \in [Files -> Nat]
    /\ \A o \in Ops : pc[o] = "tx" => item[o] \in Files

\* A download that succeeds has sent one whole version of the file as some
\* client meant it, whatever disconnects, faults, overwrites and deletes meet
\* the download or the uploads.
DownloadsComplete ==
    \A o \in Ops : job[o].kind = "download" /\ pc[o] = "ok"
                       => got[o].of # None /\ parts[o] = got[o].size

\* However deletes and renames of a file race, no more of them report success
\* than its row has come into being, less the row still there: each success
\* removed a row of its own.
RemovalsNeverExceedCreations ==
    \A f \in Files : removed[f] + (IF row[f] = None THEN 0 ELSE 1) <= created[f]

Touches(o, f) == /\ job[o].kind \in {"delete", "rename"}
                 /\ pc[o] # "new"
                 /\ f \in {File(o), job[o].to}
Untouched(f) == \A o \in Ops : ~Touches(o, f)

\* As long as no delete or rename has started on a file, its row implies a whole
\* object, and an upload that reported success is there to be read.
UntouchedFilesReadable ==
    \A f \in Files : Untouched(f) =>
        /\ row[f] # None => obj[f] # NoObject /\ obj[f].parts = obj[f].size
        /\ \A o \in Ops : File(o) = f /\ job[o].kind = "upload" /\ pc[o] = "ok"
                             => row[f] = f

\* Deletes leave no content behind that nobody can reach any more: when a file
\* has an object but no row, a rename has taken the row away, or the object is
\* that of an upload which has not put its row yet or never will, or which ran
\* beside a delete of the file.
NoContentLeftBehind ==
    \A f \in Files : obj[f] # NoObject /\ row[f] = None =>
        \/ \E o \in Ops : job[o].kind = "rename" /\ Touches(o, f)
        \/ /\ obj[f].of \in Ops
           /\ \/ pc[obj[f].of] # "ok"
              \/ \E o \in Ops : job[o].kind = "delete" /\ Touches(o, f)

\* What report.md asks of renames (a consistent state, metadata not corrupted)
\* and of concurrent writers (the file remains in a readable state): once
\* everything has finished, a file that is listed can be read.
FilesAreReadable ==
    AllFinished => \A f \in Files : row[f] # None => obj[f] # NoObject

----------------------------------------------------------------------------
(* Refinement *)

\* The uploads whose version has become the file's content, or been
\* overwritten there.
Published == {o \in Ops : mp[o] = "done" /\ row[File(o)] # None}

Answer(o) ==
    CASE pc[o] = "new"      -> "new"
      [] pc[o] \in InFlight -> "open"
      [] OTHER              -> pc[o]

\* The files as a client means them.
Atomic == INSTANCE AtomicStore WITH
    calls   <- [o \in Ops |-> [kind |-> job[o].kind, file |-> job[o].file]],
    content <- [f \in Files |-> IF row[f] = None THEN None ELSE obj[f].of],
    written <- Published,
    seen    <- [o \in Ops |-> got[o].of],
    answer  <- [o \in Ops |-> Answer(o)]

\* Uploads and downloads alone implement an atomic register per file.
ImplementsAtomicStore == Atomic!Spec
=============================================================================
