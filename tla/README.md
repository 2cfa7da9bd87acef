# NEUDFS in TLA+

NEUDFS is a file store for university classes. A Go server (`src/server`) offers
cd, ls, tree, mkdir, upload, download, rename and delete over gRPC and keeps all
of its state in AWS: a DynamoDB table of users, a DynamoDB table of metadata
(one row per folder and file of a class, plus a `class_info` row per class) and
an S3 bucket of file contents. A command-line client (`src/client`) and a
graphical one (`src/gui`) use it. Several servers may run behind a load balancer,
every request is a goroutine, and no lock is held anywhere: what keeps the
requests of a class apart is which DynamoDB calls are conditional, which reads
are consistent, and in which order the calls are made. That is what is modelled
here.

The modules are written from the Go code; `PROJECT.json` maps each definition to
its lines. The theorems are checked by TLAPS, everything else by TLC.

## The parts of the system

| Part | State | Operations | What can go wrong |
| --- | --- | --- | --- |
| Sessions and interceptors (`main.go` 66-156, 310-405, `utils.go` 644-671) | `currentDirectory` and `directoryTTL` of the user's row; the `User` each request carries in its context | both interceptors, ChangeDirectory, CurrentDirectory | requests of one user read the row, decide on their own clock, and write later; an expiry meets a cd; a reply is lost |
| File store (`main.go` 768-1055, `utils.go` 25-129, 232-303, 600-642) | a metadata row and an S3 object per file; one multipart upload per Upload | Upload, Download, Delete, Rename of files | two stores without a common transaction, disconnecting clients, failing calls, stale reads |
| Folder permission lists (`main.go` 422-525, 748-766, 1098, `utils.go` 131-209, 386-596) | `shared_folders` of the class, `folders` of every member | the list part of mkdir, directory rename and directory delete | whole lists are rewritten by compare-and-swap, entries by index, new entries appended, all at once |
| Directory rows (`main.go` 422-525, 748-766, 1013-1096, `utils.go` 307-384, 696-710) | one row per folder and entry | the row part of the same three | a paged query followed by one put and one delete per row |
| Multipart buffer (`utils.go` 25-108) | `buf`, `partNumber`, `completedParts` of one upload | Write, flushPart, Complete, Abort | size limits of S3 parts, the empty file |
| Listing, tree and access control (`main.go` 158-294, 592-713 and the first half of every handler, `renderTree` of the command line) | none of its own: rows, lists and the request's `User` | ListDirectory, TreeDirectory, the checks on role, depth and lists | strings compared as prefixes with and without a slash; a guard that looks at one list and not at another; a list that is old when it is used |
| Metrics (`cloudwatch.go`) | a buffer under a mutex, a ticker goroutine | recordMetric, flush, Close | data recorded during a flush, a failed publish, shutdown |
| Command-line client (`client/commands/commands.go`) | the stream of one transfer, the local file | Upload, Download, one RPC for each other command | errors of a local read, of a send, of the last reply |
| Graphical client (`gui`) | e-mail, connection, directory shown, entries, the fields of the window | login, logout, the buttons, transfers in goroutines | goroutines that read the window's state and answer after the user has moved on or logged out |
| Stubs, storage helper, generated code, seed, load tests, Terraform | none at run time | | not modelled |

Every request passes an interceptor first, which reads the user's row (the only
consistent read of sessions) and puts a `User` into the request's context; the
handlers trust that copy to their end. Upload and Delete touch S3 and the
metadata table; mkdir, rename and delete of directories touch the metadata table
and then the permission lists. ChangeDirectory reads the lists that those
maintain.

### Hard behaviours, and what makes each part correct

* **Sessions.** cd is a conditional update (`currentDirectory` absent or as
  read), the removal of an expired session is unconditional and its error is
  dropped. Correct means: concurrent cds never add up to a jump that no single cd
  could make; a stored directory always expires; Aborted is answered only for a
  reason; a live session is not taken away (this one does not hold; what holds is that it
  goes only to a request that found the one before it expired).
* **File store.** An upload completes the object and then puts the row; a delete
  removes the object and then the row; a rename moves the row in a transaction
  and not the object. Correct means: a download that succeeds is one whole version;
  uploads and downloads of a file behave as an atomic register; a listed file can
  be read; each reported removal removed something; no object is left without a
  row (a renamed file cannot be read, and beside a delete or a rename an upload may
  leave an object alone).
* **Permission lists.** Correct means: a delete takes away its own folder and
  nothing else, whatever others do to the list meanwhile; it cleans every
  list or reports an error; a rename touches only what it renames (the last two
  hold only while the other requests leave the list alone long enough).
* **Rows, lists and access together.** Correct means: a folder has a row if and
  only if a list names it; nothing is left in a folder that has gone; ls and tree
  show the same; a student changes nothing outside the student's own root folders;
  student work is private (the last does not hold).
* **Window.** Correct means: the window shows the directory its requests will work
  in; what was listed for one user never reaches the next; a transfer works in
  the directory it was started for.
* **Transfers and the multipart buffer.** Correct means: what is stored, and what
  is reported as uploaded or downloaded, is the whole file; S3 is never given parts it
  must refuse, but for an empty file; both sides end, whatever breaks.
* **Metrics.** Correct means: data are published in order and once, unless the SDK
  repeats a call; none disappears unaccounted for; none stays in memory.
* **Directory rows.** Correct means: renames lose no row, deletes and renames
  stay inside the folder they name, and what was reported as stored stays (the
  last does not hold while a rename is under way).

## Modules

| Module | Models | Extends |
| --- | --- | --- |
| `Session` | the session of one user and the RPCs of that user | |
| `FileStore` | uploads, downloads, deletes and renames of files in one folder | |
| `AtomicStore` | what uploads and downloads promise: one atomic register per file | |
| `FolderLists` | the permission lists of one class under mkdir, directory rename and delete | |
| `Namespace` | the metadata rows of one class under the same operations | |
| `Transfer` | one upload or download from the client's disk to the bucket or back, byte by byte | |
| `Metrics` | the buffer of CloudWatch metrics, its ticker and its publication | |
| `Access` | who may do what in a class, and what ls and tree show: operators | |
| `Classroom` | rows, lists and directories of a class under all the requests of its members | `Access` |
| `Gui` | the window of the graphical client, its handlers and its goroutines | |
| `SessionProofs`, `FileStoreProofs` | theorems about the module of the name | that module, `TLAPS` |
| `MetricsProofs`, `TransferProofs`, `GuiProofs` | theorems about the module of the name | that module, `SequenceTheorems`, `TLAPS` |
| `ClassroomProofs` | theorems about the module of the name, and lemmas on the operators of `Access` | that module, `SequenceTheorems`, `WellFoundedInduction`, `TLAPS` |
| `FolderListsProofs`, `NamespaceProofs` | theorems about the module of the name | that module, `WellFoundedInduction`, `TLAPS` |
| `MCSession`, `MCFileStore`, `MCFolderLists`, `MCNamespace`, `MCClassroom` | constants and symmetry for TLC | the module of the name |

In all of them but `Classroom` an action is one call to DynamoDB or S3, or the local code between
two calls: a failure, a crash or another request can come between any two.
A call can fail without effect, be applied with its reply lost (the caller sees
an error), or be applied and sent again by the AWS SDK, whose standard retryer
repeats calls that time out.

**Session.** `user` is the row; `read[r]` is the `User` in the context of request
`r`, `goal[r]` the values of its UpdateItem. `Begin` is the GetItem of both
interceptors; `Live`, `ExpiredAtRoot`, `ExpiredInside` are the three outcomes of
their check and `RemoveSession`, `RemoveFails` the REMOVE. `ChangeDirectory`
stands for the handler up to its UpdateItem, `Targets` for the cases of the path
(root, parent, one component into a college or a class, a path below a class),
`Condition` for the ConditionExpression. Directories are sequences of
components. Which directories the user may enter is the constant `Dirs`.
`failed`, `applied` and `changed` are history variables: they feed no guard and
exist to state `AbortsAreJustified`.

**FileStore.** `row` is the metadata table, `replica` the same as an eventually
consistent read may see it, `obj` the bucket. One program counter per operation
steps through the handler; `gone` is the set of operations whose client has
disconnected (or whose connection has reached `MaxConnectionAge`), which makes
every later call on their context fail. Contents are reduced to who wrote them,
in how many parts of how many. `created` and `removed` are counters for
`RemovalsNeverExceedCreations`.

**AtomicStore.** The abstract specification: an upload takes effect at one
instant between call and answer, possibly along with other uploads of the file
that it overwrites; a failed one may still take effect; a download answers with
the content of one instant. `FileStore` maps into it by `content` = author of the
object where there is a row.

**FolderLists.** `lists` holds the class list and each member's list; `snap`,
`index`, `attempts` and `left` are the loop variables of `updateFolderLists` and
`removeFolderFromLists`. Delete's compare-and-swap is `SwapList`, `SwapRefused`
(try again) and `SwapGivesUp` (the loop ends after its last attempt).

**Namespace.** `rows` maps a key (folder, rest) to a row, told from its copies by
who put it first; `found[r]` is what the query of `r` returned and the loop has
not handled yet. A query reads page by page, each page from the table or from a
lagging replica. `Matches` is begins_with: with the slash that the command line
leaves at the end of a folder's name it is equality of the folder, without it (as
the graphical client sends it) a prefix of its name.

**Transfer.** `client` and `server` are the program counters of the loop in a
client and of the handler, `pipe` the messages between them, `broken` the state of
the stream (a broken one cancels the server's context). `buf` and `number` are the
fields of `MultipartUpload`, `stored` the parts S3 has. Bytes are told apart by their
position in the file. `job.who` chooses between the two clients, which differ
where an error of the local file or of Send is looked at (`SendFails`, `ReadFails`,
`RecvData`, `OpenDownload`). `FileStore` has the same handlers call by call and
several at once, with contents reduced to author and number of parts; what it
takes for granted about the buffer and the stream is checked here.

**Metrics.** `open` is the set of calls yet to record, `buffer` the slice under the
mutex; `flushing`, `batch` and `next` are flush's place in its loop, `ticked` the
ticker's channel of capacity one. `recorded`, `published` and `lost` are histories
of what went in and out. The mutex is never held across a call, so each critical
section is one step.

**Access.** Operators over rows and lists, one for each guard and for each of ls,
tree and the terminal's `renderTree`. A key is a path with or without a slash at the
end; `HasPrefix` is Go's string comparison of two of them, for which `Begins` says
which names begin with which. One class of one college stands for the user's.

**Classroom.** The handlers over the table as a whole: `MakeDirectory`, `Upload`,
`Delete`, `Rename` and `RenameDirectory` evaluate the guards of `Access` in the
state they start in and with the list in the request's context (`job.own`), then
`AppendToList` and `PutRow`, or `DropRows` and `CleanLists`, or `MoveRows` and
`MoveLists` follow, each for what one handler does to one of the two
representations, in whole or, when a call fails, in part. What happens between two
calls of one such step is in `Namespace` and `FolderLists`. `ChangeDirectory` moves a
member between requests and beside those of the others; that the stored directory
survives concurrent cds is `Session`'s. `RenameDirectory` is called as the terminal
calls it, with a slash after both names; without it (the window's way) `Namespace`
shows what a prefix takes along. `torn` is the history of what may set rows and
lists apart: a request that ended half done, two of which one takes away what the
other works on, a folder taken away under somebody's feet or renamed to itself, and
a rename while another staff member's list names the folder, which
`updateFolderLists` does not look at. `StartAssumption` says what the seed leaves: rows
and lists name the same folders, every entry has the folder it is in, what is on
a list of the staff is on the class's, and no path is longer than the bound `MaxDepth`.

**Gui.** The handlers of the buttons run on the event queue and block there for
their calls (`todo`); a goroutine per transfer (`tx`) reads the e-mail field and
`s.client` when it gets there, and the listing after an upload lands by `queueUI`.
A list of names is reduced to where it was listed. The server's handlers are reduced
to the directory that the interceptor reads (`Arrive`, `Answer`). `trust`, `over`
and `ghost` are histories of the causes that may set window and server apart.
`NilClient`: a goroutine that calls `s.client` after a logout panics, which ends
the program.

## What the runs check

| Run | Checks | Result |
| --- | --- | --- |
| `Session` | `TypeOK`, `NoImmortalSession`, `AbortsAreJustified`, `StepwiseNavigation`, `OnlyRacesEndLiveSessions` | hold |
| `FileStore` | `TypeOK`, `DownloadsComplete`, `UntouchedFilesReadable`, `RemovalsNeverExceedCreations`, `NoContentLeftBehind` | hold |
| `FileStoreAtomic` | `DownloadsComplete`, `ImplementsAtomicStore` | hold without deletes and renames |
| `FileStoreRenameReadable` | `FilesAreReadable` | violated: a renamed file cannot be downloaded |
| `FolderLists` | `TypeOK`, `DeletesSpareOthers`, `VisitedListsAreClean`, `RenamesSpareOthers` | hold |
| `Namespace` | `TypeOK`, `EntriesSurviveRenames`, `RemovalsStayInside` | hold |
| `NamespaceLost` | `AcknowledgedRowsStay` | violated: an upload inside a rename of its folder |
| `Classroom` | `TypeOK`, `ListsFollowRows`, `EntriesHaveFolders`, `ViewsAgree`, `StudentsKeepOut` | hold, but for what is `torn` |
| `ClassroomShared` | `HomesStayPrivate` | violated: mkdir of a student's root folder by the staff shares it |
| `Gui` | `TypeOK`, `WindowInStep`, `LoginsShareNothing`, `TransfersStayInDirectory` | hold, with the exceptions that the properties name |
| `Transfer` | `TypeOK`, `UploadsAreWhole`, `SuccessIsStored`, `RefusalsAreEmpty`, `DownloadsAreWhole`, `TransfersEnd`, `HandlersEnd` | hold, with the exceptions that the properties name |
| `Metrics` | `TypeOK`, `NothingVanishes`, `PublishedInOrder`, `MemoryDrains` | hold |

A violated property quotes a statement of the repository; `PROJECT.json`
"findings" has the lines. Their runs turn faults and staleness off where the
disagreement does not need them.

### What the properties leave out

Where the code does not keep a promise unconditionally, the property says exactly
under which condition it does. These are the known limits:

* The REMOVE of an expired session is unconditional: it takes away the session a
  concurrent cd has started meanwhile (`OnlyRacesEndLiveSessions` allows that and
  nothing else).
* A folder delete that loses its eight compare-and-swaps goes on as if the list
  were clean, although the comment at `utils.go` 471 speaks of an error
  (`VisitedListsAreClean` is about the others).
* A folder rename writes to an index of a list read before: it overwrites another
  folder's entry when the list has been shortened (`RenamesSpareOthers` excepts lists
  that changed or were read stale).
* A request that fails half way is not undone, and repeating it does not always help:
  a second Delete finds the folder's own row gone. Nothing ties the two
  representations of a folder together, so two requests of which one removes what the
  other makes may leave either alone (`ListsFollowRows` names these).
* Renaming a folder to its own name deletes its rows; renaming one leaves the lists
  of the other TAs and professors alone.
* ls shows the row `class_info` to the staff as if it were a file; tree does not
  (`ViewsAgree` says so).
* After a logout, a listing asked for before may land in the window of the next
  login (`ghost`), and a goroutine that starts its call dies with the program.

### Bounds, and why they are enough

* `Session`: two requests, a lifetime of one tick, a clock of three values. The
  properties relate at most two requests, each of which may be before, at or after
  the deadline of a session that the other has set; request slots are reused, so
  a third request of the user is one of these two running again. The directories
  are a chain of depth three with a sibling, which has every case of `Targets`.
* `FileStore`: three operations on two files, every combination of kinds. Two
  operations show every race of a pair, the third an upload or a rename that a
  delete and another operation both meet. One resend per operation. Uploads have
  two parts, so that one can be cut in the middle; `FileStoreAtomic` adds the
  empty upload and disconnects, `FileStore` failing calls and stale reads.
* `FolderLists`: two requests, lists of at most three folders, stale reads that
  lag behind the table, two attempts instead of eight, of which the second is the
  last as the eighth is in the code.
* `Namespace`: two requests, two folders of which one is named like the beginning
  of the other, with one entry each; a page of a query may end after the fifth key
  or the last one, which splits the folder under rename and its sibling. One resend
  per request. The replica catches up only on keys that a query to come
  matches: the others are never read.
* `Classroom`: two students with a root folder each, of whom one makes requests, a
  professor who does, a TA whose list is the exception of the renames, a shared folder
  that is also on the lists of the staff, as in the seed. Folders are two deep and
  members go into those of the first level: a folder, its parent and its content are
  what the properties relate. `MaxTorn` of one lets requests start and calls fail
  until something is torn, and what is in flight then runs to its end.
* `Gui`: two users, two directories, one transfer slot which is used again and
  again. The properties relate one listing or transfer to the window at another time.
* `Transfer`: reads of at most two bytes, parts of at least three, so that a part
  may exceed the minimum and a chunk may cross a part; files of none, two, five
  and seven bytes, which give no part, one short one, two and three. Two
  messages fill the window of the stream. It is one transfer: what several do to one
  another is in `FileStore`.
* `Metrics`: two calls with two or three data each in chunks of two: batches of one
  to three chunks, full and not, with a second call recording before, during and
  after the publication of the first; one stop of the server, one repetition by
  the SDK per chunk.

### Fairness

`Transfer` assumes weak fairness of the client's and of the server's steps: they
are a process or a goroutine each, and the SDK gives every call up in the end.
Nothing is assumed of faults, and `TransfersEnd` needs no help from the
environment. `HandlersEnd` does: when a client keeps sending or stops receiving,
what ends the handler is the `MaxConnectionAge` of five minutes with its grace, so
it assumes, within the property, that a stream that lasts breaks.

`Metrics` assumes that the ticker ticks and that its goroutine, which only waits for
calls that end, keeps running; nothing of the calls that record. All other properties
are safety properties.

## What is proved

Every safety property and every action property that a passing run checks is a theorem,
for every value of the constants that meets the module's assumptions. Each module proves `Spec => []TypeOK` as `TypeCorrect`. What the others
rest on:

**`SessionProofs`**, for any requests, directories, lifetimes and clocks.

* `TypeCorrect`: says that whatever stale contexts are written from, the stored
  directory stays one the user may enter, and needs the assumption that access to a
  folder implies access to its parents.
* `SessionsEnd`: `[]NoImmortalSession`; `NavigationIsStepwise`: `StepwiseNavigation`. The
  strengthening is `GoalIsSound` (`GoalsAreSound`): a request about to update has fixed a target that
  is one cd away from the directory in its context, and a deadline no later than a
  lifetime from now. Hence what an update stores expires, and, as its condition
  compares with that same directory, moves a stored directory one step.
* `AbortsHaveCauses`: `[]AbortsAreJustified`. `ContextIsCurrent`: until another request
  changes the directory, the one in the context of a request is the one stored, unless one
  of its own calls went wrong. Hence a failing condition has a cause.
* `OnlyOvertakenRequestsEndLiveSessions`: `OnlyRacesEndLiveSessions`. `RemovalsAreDue`:
  a request about to remove has read an expired session, and until another request
  changes the directory the deadline stored is the one it has read.

**`FileStoreProofs`**, for any files, operations and kinds, with or without faults,
disconnects and stale reads.

* `RemovalsAreDistinct`: `[]RemovalsNeverExceedCreations`, inductive together with
  `TypeOK`: a row that disappears makes room for one more removal (`PutRowsBalance`).
* `DownloadsAreComplete`: `[]DownloadsComplete`. `VersionsAreWhole` is the strengthening:
  every object is whole, an upload about to complete has received all
  parts, and what a download sends is a whole version.
* `FilesStayReadable`: `[]UntouchedFilesReadable`, and `DeletesLeaveNoContent`:
  `[]NoContentLeftBehind`. `Positions` says which kind of operation can be where, and
  `FileInv(f)` is about one file: who may be the author of its object (`Authored`),
  when the seed's object has gone (`SeedGone`), that of an untouched file the row
  has an object (`Readable`), and who leaves an object without a row (`Reachable`).
  A step touches one file; for all others one lemma (`QuietFile`) is enough.
* `UploadsAndDownloadsAreAtomic`: `Spec => ImplementsAtomicStore`, for operations that are
  uploads and downloads: `AtomicStore` promises nothing of deletes and renames, and the run has the
  same restriction. Under `AtomicInv` every step of `FileStore` is, through the refinement
  mapping, a step of `AtomicStore` or leaves its variables alone: the completion of an object
  that has a row publishes, so does the row put for an object that had none, and for whoever
  wrote that object since; a GetObject is the instant of its download.

**`MetricsProofs`**, for any calls and any limit of a chunk.

* `TypeCorrect` includes that no chunk is empty or too long.
* `DataAreAccountedFor`: `[]NothingVanishes`. The strengthening is that the
  goroutine holds no batch between two flushes; the argument is that a chunk which is
  handled leaves the memory and nothing else does (`ChunkLeaves`), over lemmas on the
  elements of parts of sequences.
* `PublicationIsInOrder`: `[]PublishedInOrder`. `OrderInv` places everything in the order
  of recording: each datum is in it once (`Once`), the buffer is its end
  (`Queued`), the batch is just before that, and what was published is before both and
  in order (`Sent`, `Ordered`).

**`TransferProofs`**, for any sizes of files, parts, reads and window.

* `UploadedFilesAreWhole`, `SuccessfulUploadsAreStored`, `OnlyEmptyFilesAreRefused`,
  `DownloadedFilesAreWhole`: the four invariants of the run, of one inductive invariant. Its
  core is `Flow`: the parts in S3, the buffer and the messages on the stream
  are adjacent stretches of the file, that begin at its first byte and end where the client
  reads next. `Positions` and `Progress` relate the two program counters
  to the stream, `Parts` the sizes of what is stored to S3's minimum, `Outcome` and `Received`
  what each side reports to what it has.

**`GuiProofs`**, for any users, directories and transfers.

* `WindowShowsTheDirectory`: `[]WindowInStep`; `NamesStayWithTheirUser`:
  `[]LoginsShareNothing`; `TransfersReachTheirDirectory`: `[]TransfersStayInDirectory`.
  The invariant says which handler may run in which view (`Handlers`), what the window knows
  of the server's directory while a handler still has calls to make (`InStep`), that a
  listing on its way is of the present directory or of the one a handler is just leaving
  (`Fresh`) and of the user who is logged in unless it is a ghost (`Sharing`), and that the user
  of a transfer which has not reached the server is still where it was started (`Starting`).

**`NamespaceProofs`**, for any folders, requests, pages, faults and stale reads.

* `RenamesLoseNothingElse`: `[]EntriesSurviveRenames`. That a row is somewhere is not inductive: it may
  be there only until a rename deletes it. `Kept` says more: a row that was neither replaced nor
  exposed is at a key where no rename is about to delete it (`Doomed`). When a rename puts a copy, the
  copy takes over from the original; `Known`, that what a rename has read and not yet
  handled is still there, gone or exposed, says that the copy is of the row it deletes.
* `RemovalsAreInside`: `RemovalsStayInside`. What a query has found is inside the folder
  of its request (`Inside`), whatever page it came from.

**`FolderListsProofs`**, for any holders, lists, jobs and attempts.

* `DeletesTakeOnlyTheirFolder`: `DeletesSpareOthers`; `DeletesCleanWhatTheyVisit`:
  `VisitedListsAreClean`; `RenamesOverwriteOnlyTheirFolder`: `RenamesSpareOthers`. With the
  types they follow step by step from which step writes what to a list, and from three lemmas on
  `Without`: nothing of the folder is left, a list that has nothing of it stays as it is, and
  doing it twice is doing it once. `Without` is a loop over a list; what it returns is proved
  by taking the least index for which the claim fails.

**`ClassroomProofs`**, for any members, lists, rows, requests and depth.

* `StudentsStayInTheirFolders`: `StudentsKeepOut`. The invariant says that a student's
  directory is below a folder the student may see or below one that was taken away (`Foothold`,
  `Warned`), that a student's request works below one folder of the class, and that this one
  is on the list the request carries (`AtHome`), although the guards look at different lists at
  different times.
* `ListsAgreeWithRows`: `[]ListsFollowRows`, when every rename is of one name. The
  property only speaks of folders nobody is at work on; `InStep` says of all the
  others what holds meanwhile: a folder that a request has taken the rows of has no row, one being made
  is already listed, one that has been moved to a new name is listed or *owed* by the
  rename that has moved the rows and not yet the lists. Two requests of which one removes
  what the other works on are excused: `Noticed` says that both folders are then torn.
* `EntriesStayInFolders`: `[]EntriesHaveFolders`, when in addition mkdir and upload get one
  name. `Grounded` says of every row and every member's directory that all folders above are there,
  are being made, or have been set apart.

* `ListAndTreeAgree`: `[]ViewsAgree`, when every rename is of one name and no name is
  `class_info` or begins so, but for the class's own row (`NamesApart`). At rest every folder listed has
  a row, by the invariant of `ListsAgreeWithRows`, so ls, which adds folders from the lists, and tree,
  which does not, start from the same entries (`SameEntries`). What remains is the operators: the
  answer of TreeDirectory is what is below the directory, made relative to it (`Relative`), and
  `FirstLevel` says that the lines the terminal draws first are the children that ls shows.
  `RenderTree` recurs over folders; what it draws is described without recursion (`Draws`), such a
  description exists (`DrawsExist`: below a folder, every beginning of an entry inside it), and whatever
  fits it draws below a folder only what is longer (`DrawnLonger`, as no entry is longer than a
  bound).

The hypotheses about names are what the runs have as well, and the first theorems do not
need them. With a folder whose name begins with `class_info` ls and tree disagree: ls leaves the row
`class_info` out by what the user may see, and such a folder lets a student see it;
tree leaves it out by its name. A rename of `a/b` to `c` moves a folder up, and then the order of the loop over
its rows decides which of two rows stays; `mkdir a/b` makes a folder without the
one it is in, so that what is in it has no parent.

## Only model-checked

* Liveness: `MemoryDrains`, `TransfersEnd`, `HandlersEnd`. Fairness and ENABLED are out of
  the prover's reach.

## Not modelled, and why

* Several classes and colleges: every handler works in one class at a time, and ls
  and tree of the levels above are lists of names.
* Of the graphical client: the checks at start-up, the detection of the server's
  address, the opening and viewing of downloaded files, drawing.
* Widgets, themes, argument parsing, logging, printing: input and output only.
* `src/main.go` and `src/commands` (commands that only print),
  `src/internal/storage` (unused by the server), generated protocol code,
  seeds, load tests, Terraform.
* `ClearCurrentDirectory` and `GetCurrentDirectory`, which nothing calls.

Observed while modelling, with no run of its own: cd with a full path is refused
at the root although the comment on ChangeDirectory allows it; Abort of an upload
runs on the context whose cancellation made it necessary, so that the parts stay;
an upload that completes between the two deletes of a Delete leaves an object
without a row; the command-line client tries for ever to read a local file that
cannot be read, and reports a download as done when its disk is full;
any cancelled rename transaction, a conflict included, is answered with NotFound;
Delete looks a file up with a read that may be stale; two mkdirs may list one folder
twice; the server accepts `mkdir a/b` where there is no `a`, and makes a folder without
a row of the one it is in.

## Plan

1. Models: `Session`, `FileStore` with `AtomicStore`, `FolderLists`, `Namespace`,
   `Transfer`, `Metrics`, `Access` with `Classroom`, `Gui`: done.
2. Proofs: every safety and action property of the passing runs, and the refinement of
   `AtomicStore`: done.
3. Left: what a proof needs hypotheses for (renames to a path of several names, names that
   begin like `class_info`) could be said as properties of what the code does then.
