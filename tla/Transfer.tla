------------------------------ MODULE Transfer ------------------------------
(***************************************************************************)
(* One upload or download from end to end: a client and its local file,    *)
(* the gRPC stream, the handler on the server, and for an upload the part  *)
(* buffer and the parts in S3.  FileStore has what several operations do   *)
(* to one another, with contents reduced to their author; here there is    *)
(* one operation, and the bytes are followed.                              *)
(*                                                                         *)
(* The command-line client and the graphical one differ in what they do    *)
(* about errors of the local file and of a send.  A transfer starts with   *)
(* the file to send open.  A stream that breaks (connection lost or too    *)
(* old, client gone, ten minutes over) cancels the server's context: every *)
(* later call on it fails.                                                 *)
(***************************************************************************)
EXTENDS Integers, Sequences

CONSTANTS
    Sizes,      \* sizes of the file, in bytes of the model
    ChunkSize,  \* a read returns at most so many (64 KB in the code)
    MinPart,    \* the least size of a part but the last (5 MB)
    Window,     \* bound: chunks in flight before a Send blocks
    Faults      \* calls may fail or lose their replies; servers may die

ASSUME TransferAssumption ==
    /\ Sizes \subseteq Nat
    /\ ChunkSize \in Nat \ {0} /\ MinPart \in Nat \ {0} /\ Window \in Nat \ {0}
    /\ Faults \in BOOLEAN

VARIABLES
    job,      \* kind of transfer, client and size of the file
    client,   \* the client's next step, or how the transfer ended there
    server,   \* the handler's next step, or how it ended
    disk,     \* whether the client can use its local file
    sent,     \* bytes the sending side has read from its file
    pipe,     \* messages on the stream
    broken,   \* the stream is broken
    buf,      \* MultipartUpload.buf
    number,   \* MultipartUpload.partNumber
    stored,   \* the parts S3 holds, by number
    object,   \* the object in the bucket; none if empty
    row,      \* the metadata row has been put
    refused,  \* S3 has refused to complete the upload
    saved     \* the downloaded local file

up == <<buf, number, stored, object, row, refused>>
vars == <<job, client, server, disk, sent, pipe, broken, up, saved>>

Jobs == [kind: {"upload", "download"}, who: {"cli", "gui"}, size: Sizes]
Ended == {"ok", "error"}

Uploading == job.kind = "upload"
Gui == job.who = "gui"

\* The bytes of the file, told apart by their position.
Source == [i \in 1 .. job.size |-> i]

Chunk(bytes) == [data |-> bytes, last |-> FALSE]
HalfClose == [data |-> <<>>, last |-> TRUE]

Init ==
    /\ job \in Jobs
    /\ client = "start" /\ server = "start"
    /\ disk = "fine"
    /\ sent = 0 /\ pipe = <<>> /\ broken = FALSE
    /\ buf = <<>> /\ number = 1 /\ stored = <<>>
    /\ object = <<>> /\ row = FALSE /\ refused = FALSE
    /\ saved = <<>>

----------------------------------------------------------------------------
(* The stream *)

\* A Send is accepted while the window is open; the sender of a stream that
\* is over on the other side may not know yet.
CanSend == ~broken /\ Len(pipe) < Window
SendRefused == broken \/ (Uploading /\ server \in Ended)

\* CloseAndRecv closes this side of the stream.
Close == pipe' = IF SendRefused THEN pipe ELSE Append(pipe, HalfClose)

\* What a read of up to ChunkSize bytes may return.
Reads == {SubSeq(Source, sent + 1, sent + n) :
             n \in {n \in 1 .. ChunkSize : sent + n <= job.size}}

\* Mutant of AtEOF: the end of the file is not recognised.
NeverAtEOF == sent > job.size

AtEOF == sent = job.size

----------------------------------------------------------------------------
(* The uploading client *)

\* The stream is opened and the metadata sent.
SendMetadata ==
    /\ client = "start" /\ Uploading
    /\ client' = IF SendRefused THEN "error" ELSE "read"
    /\ UNCHANGED <<job, server, disk, sent, pipe, broken, up, saved>>

SendChunk ==
    /\ client = "read" /\ disk = "fine"
    /\ CanSend
    /\ \E bytes \in Reads :
          /\ pipe' = Append(pipe, Chunk(bytes))
          /\ sent' = sent + Len(bytes)
    /\ UNCHANGED <<job, client, server, disk, broken, up, saved>>

\* The graphical client returns, which cancels its context; the other one does
\* not look at the error of Send and reads on.
SendFails ==
    /\ client = "read" /\ disk = "fine"
    /\ SendRefused
    /\ \E bytes \in Reads : sent' = sent + Len(bytes)
    /\ IF Gui THEN client' = "error" /\ broken' = TRUE
              ELSE UNCHANGED <<client, broken>>
    /\ UNCHANGED <<job, server, disk, pipe, up, saved>>

\* Mutant of ReadFails: the loop breaks at any error.
ReadFailsBreaks ==
    /\ client = "read" /\ disk = "bad"
    /\ client' = "wait"
    /\ Close
    /\ UNCHANGED <<job, server, disk, sent, broken, up, saved>>

\* A failing read of the local file: the graphical client returns; the other
\* one sends the empty chunk, or fails to, and tries again.
ReadFails ==
    /\ client = "read" /\ disk = "bad"
    /\ \/ /\ Gui
          /\ client' = "error" /\ broken' = TRUE
          /\ UNCHANGED pipe
       \/ /\ ~Gui /\ CanSend
          /\ pipe' = Append(pipe, Chunk(<<>>))
          /\ UNCHANGED <<client, broken>>
       \/ /\ ~Gui /\ SendRefused
          /\ UNCHANGED <<client, broken, pipe>>
    /\ UNCHANGED <<job, server, disk, sent, up, saved>>

\* The end of the file.
CloseSend ==
    /\ client = "read" /\ disk = "fine"
    /\ AtEOF
    /\ client' = "wait"
    /\ Close
    /\ UNCHANGED <<job, server, disk, sent, broken, up, saved>>

\* The answer of CloseAndRecv.
RecvAnswer ==
    /\ client = "wait"
    /\ \/ server = "ok" /\ client' = "ok"
       \/ /\ (server = "error" \/ broken)
          /\ client' = "error"
    /\ UNCHANGED <<job, server, disk, sent, pipe, broken, up, saved>>
----------------------------------------------------------------------------
(* Upload on the server *)

\* A call on the stream's context: it succeeds, or is taken for failed.
Reply(next, otherwise) ==
    \/ ~broken /\ server' = next
    \/ (Faults \/ broken) /\ server' = otherwise

\* The first message has arrived; the user may not upload here, or
\* CreateMultipartUpload may fail.
StartUpload ==
    /\ server = "start" /\ Uploading /\ client # "start"
    /\ server' \in {"recv", "error"}
    /\ UNCHANGED <<job, client, disk, sent, pipe, broken, up, saved>>

\* Mutant of Full: every chunk becomes a part.
AnyBytes(bytes) == bytes # <<>>

\* Mutant of Full: a part is full when it has more than the minimum.
MoreThanFull(bytes) == Len(bytes) > MinPart

Full(bytes) == Len(bytes) >= MinPart

\* Write appends to the buffer, and flushes it once it is full.
RecvChunk ==
    /\ server = "recv" /\ pipe # <<>> /\ ~Head(pipe).last
    /\ pipe' = Tail(pipe)
    /\ buf' = buf \o Head(pipe).data
    /\ server' = IF Head(pipe).data # <<>> /\ Full(buf') THEN "flush" ELSE "recv"
    /\ UNCHANGED <<job, client, disk, sent, broken, number, stored, object, row, refused, saved>>

\* io.EOF: what is left in the buffer becomes the last part.
RecvEOF ==
    /\ server = "recv" /\ pipe # <<>> /\ Head(pipe).last
    /\ pipe' = Tail(pipe)
    /\ server' = IF buf = <<>> THEN "complete" ELSE "lastpart"
    /\ UNCHANGED <<job, client, disk, sent, broken, up, saved>>

\* Mutant of RecvFails: the loop goes on after an error of Recv.
RecvFailsGoesOn ==
    /\ server = "recv" /\ broken
    /\ UNCHANGED vars

\* Any other error of Recv.
RecvFails ==
    /\ server = "recv" /\ broken
    /\ server' = "abort"
    /\ UNCHANGED <<job, client, disk, sent, pipe, broken, up, saved>>

\* UploadPart under the current number; when the reply is lost the SDK may send
\* it again, which stores it again.
FlushPart ==
    /\ server \in {"flush", "lastpart"}
    /\ stored' = SubSeq(stored, 1, number - 1) \o <<buf>>
    /\ \/ /\ Reply(IF server = "flush" THEN "recv" ELSE "complete", "abort")
          /\ IF server' = "abort" THEN UNCHANGED <<buf, number>>
                                  ELSE buf' = <<>> /\ number' = number + 1
       \/ Faults /\ UNCHANGED <<server, buf, number>>
    /\ UNCHANGED <<job, client, disk, sent, pipe, broken, object, row, refused, saved>>

\* The contents of the parts that have been listed, in their order.
Contents == LET upto[i \in 0 .. number - 1] ==
                   IF i = 0 THEN <<>> ELSE upto[i - 1] \o stored[i]
            IN  upto[number - 1]

\* S3 wants at least one part, and no small ones but the last.
Completable == number > 1 /\ \A i \in 1 .. number - 2 : Len(stored[i]) >= MinPart

CompleteUpload ==
    /\ server = "complete"
    /\ \/ /\ Completable
          /\ object' = Contents
          /\ Reply("row", "abort")
          /\ UNCHANGED refused
       \/ /\ ~Completable
          /\ refused' = TRUE /\ server' = "abort"
          /\ UNCHANGED object
    /\ UNCHANGED <<job, client, disk, sent, pipe, broken, buf, number, stored, row, saved>>

\* Abort; nothing looks at how it ends.
AbortUpload ==
    /\ server = "abort"
    /\ server' = "error"
    /\ UNCHANGED <<job, client, disk, sent, pipe, broken, up, saved>>

\* uploadFileMetadata.
PutRow ==
    /\ server = "row"
    /\ row' = TRUE
    /\ Reply("ok", "error")
    /\ UNCHANGED <<job, client, disk, sent, pipe, broken, buf, number, stored, object, refused, saved>>

\* Mutant of AfterFailure: the error of uploadFileMetadata is dropped.
RowOrNot == IF server = "row" THEN "ok" ELSE "abort"

\* Where an error of a call leads: once the object is complete there is
\* nothing to abort.
AfterFailure == IF server = "row" THEN "error" ELSE "abort"

\* A call fails and has had no effect.
CallFails ==
    /\ Faults \/ broken
    /\ server \in {"flush", "lastpart", "complete", "row"}
    /\ server' = AfterFailure
    /\ UNCHANGED <<job, client, disk, sent, pipe, broken, up, saved>>

----------------------------------------------------------------------------
(* Download *)

\* The request is sent; the command-line client then creates its file.  The
\* graphical one has it from a dialog.
OpenDownload ==
    /\ client = "start" /\ ~Uploading
    /\ client' = IF disk = "bad" /\ ~Gui THEN "error" ELSE "recv"
    /\ UNCHANGED <<job, server, disk, sent, pipe, broken, up, saved>>

\* The handler has the body of the object, or ends for want of permission, of
\* the file, or of an answer.
StartDownload ==
    /\ server = "start" /\ ~Uploading /\ client # "start"
    /\ server' \in {"send", "error"}
    /\ UNCHANGED <<job, client, disk, sent, pipe, broken, up, saved>>

SendData ==
    /\ server = "send" /\ CanSend
    /\ \E bytes \in Reads :
          /\ pipe' = Append(pipe, Chunk(bytes))
          /\ sent' = sent + Len(bytes)
    /\ UNCHANGED <<job, client, server, disk, broken, up, saved>>

BodyEOF ==
    /\ server = "send" /\ AtEOF
    /\ server' = "ok"
    /\ UNCHANGED <<job, client, disk, sent, pipe, broken, up, saved>>

\* The context is done, or the body cannot be read on.
DownloadFails ==
    /\ server = "send" /\ (broken \/ Faults)
    /\ server' = "error"
    /\ UNCHANGED <<job, client, disk, sent, pipe, broken, up, saved>>

\* The client writes what it receives.  When that fails the graphical client
\* returns; the other one does not look.
RecvData ==
    /\ client = "recv" /\ pipe # <<>>
    /\ pipe' = Tail(pipe)
    /\ saved' = IF disk = "fine" THEN saved \o Head(pipe).data ELSE saved
    /\ IF disk = "bad" /\ Gui THEN client' = "error" /\ broken' = TRUE
                              ELSE UNCHANGED <<client, broken>>
    /\ UNCHANGED <<job, server, disk, sent, up>>

\* io.EOF comes with the handler's nil, after all data.
DownloadEOF ==
    /\ client = "recv" /\ pipe = <<>> /\ server = "ok"
    /\ client' = "ok"
    /\ UNCHANGED <<job, server, disk, sent, pipe, broken, up, saved>>

\* Mutant of DownloadBreaks: the loop ends at an error like at the end.
DownloadStops ==
    /\ client = "recv" /\ (server = "error" \/ broken)
    /\ client' = "ok"
    /\ UNCHANGED <<job, server, disk, sent, pipe, broken, up, saved>>

\* Any other error of Recv; what has been saved stays where it is.
DownloadBreaks ==
    /\ client = "recv" /\ (server = "error" \/ broken)
    /\ client' = "error"
    /\ UNCHANGED <<job, server, disk, sent, pipe, broken, up, saved>>

----------------------------------------------------------------------------
(* The environment *)

\* The connection is lost or too old, the client dies or has waited too long.
Breaks ==
    /\ ~broken /\ ~(client \in Ended /\ server \in Ended)
    /\ broken' = TRUE
    /\ UNCHANGED <<job, client, server, disk, sent, pipe, up, saved>>

\* The local file cannot be read, or the local disk is full, from now on.
DiskFails ==
    /\ disk = "fine" /\ client \notin Ended
    /\ disk' = "bad"
    /\ UNCHANGED <<job, client, server, sent, pipe, broken, up, saved>>

ServerDies ==
    /\ Faults
    /\ server \notin Ended
    /\ server' = "error" /\ broken' = TRUE
    /\ UNCHANGED <<job, client, disk, sent, pipe, up, saved>>

\* Both sides have ended.
Over ==
    /\ client \in Ended /\ server \in Ended
    /\ UNCHANGED vars

ClientStep ==
    \/ SendMetadata \/ SendChunk \/ SendFails \/ ReadFails \/ CloseSend \/ RecvAnswer
    \/ OpenDownload \/ RecvData \/ DownloadEOF \/ DownloadBreaks

ServerStep ==
    \/ StartUpload \/ RecvChunk \/ RecvEOF \/ RecvFails
    \/ FlushPart \/ CompleteUpload \/ AbortUpload \/ PutRow \/ CallFails
    \/ StartDownload \/ SendData \/ BodyEOF \/ DownloadFails

Next == ClientStep \/ ServerStep \/ Breaks \/ DiskFails \/ ServerDies \/ Over

Spec == Init /\ [][Next]_vars

\* Both sides keep running: each has a goroutine or a process of its own, and
\* a call to S3 or DynamoDB is answered or given up.
FairSpec == Spec /\ WF_vars(ClientStep) /\ WF_vars(ServerStep)

----------------------------------------------------------------------------
(* Properties *)

\* The type invariant.  Between two messages the buffer holds less than a
\* part, and everything sent and not yet flushed is in it or on the stream.
TypeOK ==
    /\ job \in Jobs
    /\ client \in {"start", "read", "wait", "recv"} \cup Ended
    /\ server \in {"start", "recv", "flush", "lastpart", "complete", "row", "abort", "send"} \cup Ended
    /\ disk \in {"fine", "bad"}
    /\ sent \in 0 .. job.size
    /\ pipe \in Seq([data: Seq(1 .. job.size), last: BOOLEAN])
    /\ broken \in BOOLEAN /\ row \in BOOLEAN /\ refused \in BOOLEAN
    /\ buf \in Seq(1 .. job.size) /\ (server = "recv" => Len(buf) < MinPart)
    /\ number \in 1 .. job.size + 1
    /\ stored \in Seq(Seq(1 .. job.size))
    /\ object \in Seq(1 .. job.size)
    /\ saved \in Seq(1 .. job.size)

\* Whatever breaks, and wherever: an object comes into being only from the
\* whole local file, each byte in its place.
UploadsAreWhole == object # <<>> => object = Source

\* A client that reports a successful upload has its file in the bucket and its
\* row in the table.
SuccessIsStored == Uploading /\ client = "ok" => object = Source /\ row

\* S3 never refuses the parts the buffer has made, unless the file is empty.
RefusalsAreEmpty == refused => job.size = 0

\* A client that reports a successful download has the whole file, unless it is
\* the command-line client and its disk has failed, which it does not look at.
DownloadsAreWhole ==
    ~Uploading /\ client = "ok" => saved = Source \/ (~Gui /\ disk = "bad")

\* Every transfer ends at the client.  The exception is the command-line client
\* when it cannot read its file: it tries for ever.
TransfersEnd == <>(client \in Ended \/ (Uploading /\ ~Gui /\ disk = "bad"))

\* Every handler ends, whatever its client does: also when the client keeps
\* sending for ever, or has stopped receiving.  The server closes a connection
\* after five minutes and half a minute of grace.
HandlersEnd == WF_vars(Breaks) => <>(server \in Ended)
=============================================================================
