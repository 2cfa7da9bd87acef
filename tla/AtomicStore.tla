---------------------------- MODULE AtomicStore ----------------------------
(***************************************************************************)
(* What uploads and downloads promise: every file is an atomic register.   *)
(* An upload takes effect at one instant between its call and its answer,  *)
(* and a download returns the content of one instant.  An upload that      *)
(* reports an error may have taken effect, or may do so later.             *)
(***************************************************************************)
CONSTANTS Files, Ops, Seed, None

VARIABLES
    calls,    \* op -> its kind and its file
    content,  \* file -> the upload whose version it holds, Seed, or None
    written,  \* the uploads that have taken effect
    seen,     \* op -> the version a download returns
    answer    \* op -> new, open, or how it ended

vars == <<calls, content, written, seen, answer>>

Init ==
    /\ calls \in [Ops -> [kind: {"upload", "download"}, file: Files]]
    /\ content \in [Files -> {Seed, None}]
    /\ written = {}
    /\ seen = [o \in Ops |-> None]
    /\ answer = [o \in Ops |-> "new"]

Call(o) ==
    /\ answer[o] = "new"
    /\ answer' = [answer EXCEPT ![o] = "open"]
    /\ UNCHANGED <<calls, content, written, seen>>

\* The calls that wait for their effect on f.
Writers(f) == {o \in Ops : /\ calls[o] = [kind |-> "upload", file |-> f]
                           /\ answer[o] \in {"open", "error"}} \ written

\* Several uploads of f take effect in one go, the last of them staying.
Write(f, S, w) ==
    /\ S \subseteq Writers(f) /\ w \in S
    /\ content' = [content EXCEPT ![f] = w]
    /\ written' = written \cup S
    /\ UNCHANGED <<calls, seen>>

\* An upload is answered after its effect, or along with it.
Answered(o) ==
    /\ answer[o] = "open" /\ calls[o].kind = "upload"
    /\ o \in written'
    /\ answer' = [answer EXCEPT ![o] = "ok"]

Failed(o) ==
    /\ answer[o] = "open"
    /\ answer' = [answer EXCEPT ![o] = "error"]

Effect == \E f \in Files : \E S \in SUBSET Writers(f) : \E w \in S :
             /\ Write(f, S, w)
             /\ UNCHANGED answer \/ \E o \in S : Answered(o) \/ Failed(o)

UploadAnswer(o) == Answered(o) /\ UNCHANGED <<calls, content, written, seen>>

Fail(o) == Failed(o) /\ UNCHANGED <<calls, content, written, seen>>

\* A download sees the content of one instant and returns it later.
See(o) ==
    /\ answer[o] = "open" /\ calls[o].kind = "download" /\ seen[o] = None
    /\ content[calls[o].file] # None
    /\ seen' = [seen EXCEPT ![o] = content[calls[o].file]]
    /\ UNCHANGED <<calls, content, written, answer>>

DownloadAnswer(o) ==
    /\ answer[o] = "open" /\ calls[o].kind = "download" /\ seen[o] # None
    /\ answer' = [answer EXCEPT ![o] = "ok"]
    /\ UNCHANGED <<calls, content, written, seen>>

\* NotFound is returned only for a file that holds nothing.
NotFound(o) ==
    /\ answer[o] = "new" /\ calls[o].kind = "download"
    /\ content[calls[o].file] = None
    /\ answer' = [answer EXCEPT ![o] = "notfound"]
    /\ UNCHANGED <<calls, content, written, seen>>

Next == \/ Effect
        \/ \E o \in Ops : \/ Call(o) \/ UploadAnswer(o) \/ Fail(o)
                          \/ See(o) \/ DownloadAnswer(o) \/ NotFound(o)

Spec == Init /\ [][Next]_vars
=============================================================================
