-------------------------------- MODULE Gui --------------------------------
(***************************************************************************)
(* The window of the NEUDFS graphical client.                              *)
(*                                                                         *)
(* The handlers of the buttons run one at a time on the window's event     *)
(* queue and wait there for their calls: cd, mkdir, rename and delete do   *)
(* their own call and then pwd and ls.  Uploads and downloads run in       *)
(* goroutines that read the e-mail field and the client of the window at   *)
(* any time, and an upload ends with a listing of its own that lands in    *)
(* the window when it is ready.  The current directory is kept by the      *)
(* server, per user, and other clients of the user move it.                *)
(*                                                                         *)
(* Of a list of names, in the window or picked from it into the fields,    *)
(* the model keeps where it was listed: for whom and in which directory.   *)
(***************************************************************************)
EXTENDS Integers, Sequences

CONSTANTS
    Users,      \* e-mail addresses that may be typed
    Dirs, Root, \* directories, and the one a new session is in
    Transfers,  \* transfer slots: so many goroutines at a time
    None        \* no names

Places == [who: Users, dir: Dirs]

ASSUME GuiAssumption == Users # {} /\ Root \in Dirs /\ None \notin Places

VARIABLES
    server,   \* user -> the stored current directory
    email,    \* the text of the e-mail field
    client,   \* the window has a connection and a client
    view,     \* the content of the window: login or main
    shown,    \* the directory the window shows
    entries,  \* where the entries in the window were listed
    fields,   \* where the names in the fields were listed
    todo,     \* the calls the running handler has still to make
    tx,       \* transfer -> its goroutine
    trust,    \* whether the window is in step with the server; see below
    ghost     \* a listing asked for before a logout has landed since

vars == <<server, email, client, view, shown, entries, fields, todo, tx, trust, ghost>>
window == <<email, client, view, shown, entries, fields, todo, trust, ghost>>

(* trust is "ok" while nothing has happened that may set window and server *)
(* apart: another client moved the session or it expired, a call of a      *)
(* refresh failed, the reply to a cd was lost, or a late listing landed.   *)
(* A pwd that clears the fields because the directory is another one, with *)
(* nothing picked before the next ls, makes up for these: "half", then ok. *)

Off == [pc |-> "off", kind |-> "upload", from |-> None, sure |-> FALSE,
        who |-> None, list |-> None, cut |-> FALSE, over |-> "no"]

Init ==
    /\ server \in [Users -> Dirs] /\ email \in Users
    /\ client = FALSE /\ view = "login" /\ shown = Root
    /\ entries = None /\ fields = None /\ todo = <<>>
    /\ tx = [t \in Transfers |-> Off]
    /\ trust = "no" /\ ghost = FALSE

\* The next call of the running handler.
Calls(c) == todo # <<>> /\ Head(todo) = c

Here == [who |-> email, dir |-> server[email]]

----------------------------------------------------------------------------
(* What happens to the goroutines when the window changes *)

InFlight(t) == tx[t].pc \in {"open", "running", "asked"}

\* The directory shown changes, or is about to.
Overtaken == [t \in Transfers |-> IF tx[t].over = "no" THEN [tx[t] EXCEPT !.over = "moved"] ELSE tx[t]]

\* The connection is closed.
LoggedOut == [t \in Transfers |-> [tx[t] EXCEPT !.over = "logout", !.cut = @ \/ InFlight(t)]]

\* Mutant of disconnect: the client stays.
disconnectConn ==
    /\ entries' = None /\ fields' = None
    /\ tx' = LoggedOut /\ ghost' = FALSE
    /\ UNCHANGED client

\* Mutant of disconnect: the names of the last user stay.
disconnectOnly ==
    /\ client' = FALSE
    /\ tx' = LoggedOut /\ ghost' = FALSE
    /\ UNCHANGED <<entries, fields>>

disconnect ==
    /\ client' = FALSE
    /\ entries' = None /\ fields' = None
    /\ tx' = LoggedOut /\ ghost' = FALSE

----------------------------------------------------------------------------
(* The login view *)

TypeEmail(u) ==
    /\ view = "login" /\ todo = <<>>
    /\ email' = u
    /\ UNCHANGED <<server, client, view, shown, entries, fields, todo, tx, trust, ghost>>

login ==
    /\ view = "login" /\ todo = <<>>
    /\ disconnect
    /\ todo' = <<"dial", "greet", "pwd", "ls">>
    /\ UNCHANGED <<server, email, view, shown, trust>>

Dial ==
    /\ Calls("dial")
    /\ \/ client' = TRUE /\ todo' = Tail(todo)
       \/ todo' = <<>> /\ UNCHANGED client
    /\ UNCHANGED <<server, email, view, shown, entries, fields, tx, trust, ghost>>

\* A first call with the e-mail address; if it fails the connection goes.
Greet ==
    /\ Calls("greet")
    /\ \/ /\ view' = "main" /\ todo' = Tail(todo)
          /\ trust' = "half"
          /\ UNCHANGED <<client, entries, fields, tx, ghost>>
       \/ /\ disconnect
          /\ todo' = <<>>
          /\ UNCHANGED <<view, trust>>
    /\ UNCHANGED <<server, email, shown>>

----------------------------------------------------------------------------
(* The main view *)

Handles(calls) ==
    /\ view = "main" /\ todo = <<>>
    /\ todo' = calls
    /\ UNCHANGED <<server, email, client, view, shown, entries, fields, trust, ghost>>

Logout ==
    /\ view = "main" /\ todo = <<>>
    /\ disconnect
    /\ view' = "login" /\ trust' = "no"
    /\ UNCHANGED <<server, email, shown, todo>>

\* pwd, ls and tree each have a button.
Refresh == \E c \in {"pwd", "ls"} : Handles(<<c>>) /\ UNCHANGED tx

\* Mutant of refreshAll: only the listing is fetched.
lsOnly == <<"ls">>

refreshAll == <<"pwd", "ls">>

\* mkdir, rename, renamedir and delete.
Operate == Handles(<<"op">> \o refreshAll) /\ UNCHANGED tx

\* The button, the arrow, or a double tap on an entry.
cd == Handles(<<"cd">> \o refreshAll) /\ tx' = Overtaken

\* upload..., download... and open... show a modal dialog.
Dialog == Handles(<<"dialog">>) /\ UNCHANGED tx

\* A tap on an entry puts its name into the fields.
selectEntry ==
    /\ view = "main" /\ todo = <<>>
    /\ entries # None
    /\ fields' = entries
    /\ trust' = IF trust = "half" THEN "no" ELSE trust
    /\ UNCHANGED <<server, email, client, view, shown, entries, todo, tx, ghost>>

----------------------------------------------------------------------------
(* The calls of the handlers *)

\* The server moves the session or refuses; if the reply is lost the window is
\* not refreshed.
CdCall ==
    /\ Calls("cd")
    /\ \/ /\ \E d \in Dirs : server' = [server EXCEPT ![email] = d]
          /\ \/ todo' = Tail(todo) /\ UNCHANGED trust
             \/ todo' = <<>> /\ trust' = "no"
       \/ /\ todo' = <<>> /\ UNCHANGED <<server, trust>>
    /\ UNCHANGED <<email, client, view, shown, entries, fields, tx, ghost>>

\* It works in the current directory and does not change it.
OpCall ==
    /\ Calls("op")
    /\ todo' \in {Tail(todo), <<>>}
    /\ UNCHANGED <<server, email, client, view, shown, entries, fields, tx, trust, ghost>>

\* Mutant of Cleared: the fields are never cleared.
NeverCleared(dir) == fields

\* Fields and selection go when the directory is another one.
Cleared(dir) == IF dir # shown THEN None ELSE fields

pwd ==
    /\ Calls("pwd")
    /\ shown' = server[email]
    /\ fields' = Cleared(server[email])
    /\ IF server[email] # shown
       THEN /\ tx' = Overtaken
            /\ trust' = IF trust = "no" THEN "half" ELSE trust
       ELSE UNCHANGED <<tx, trust>>
    /\ todo' = Tail(todo)
    /\ UNCHANGED <<server, email, client, view, entries, ghost>>

\* ls and tree replace the entries and touch nothing else.
ls ==
    /\ Calls("ls")
    /\ entries' = Here
    /\ trust' = IF trust = "half" THEN "ok" ELSE trust
    /\ todo' = Tail(todo)
    /\ UNCHANGED <<server, email, client, view, shown, fields, tx, ghost>>

\* The error is logged; refreshAll goes on.
RefreshFails ==
    /\ Calls("pwd") \/ Calls("ls")
    /\ trust' = "no"
    /\ todo' = Tail(todo)
    /\ UNCHANGED <<server, email, client, view, shown, entries, fields, tx, ghost>>

----------------------------------------------------------------------------
(* Transfers *)

Cancel ==
    /\ Calls("dialog")
    /\ todo' = <<>>
    /\ UNCHANGED <<server, email, client, view, shown, entries, fields, tx, trust, ghost>>

\* A file is chosen: the goroutine starts with the name from the field, or one
\* that means the directory shown.
Choose(t) ==
    /\ Calls("dialog") /\ tx[t].pc = "off"
    /\ \E k \in {"upload", "download"} :
          tx' = [tx EXCEPT ![t] = [Off EXCEPT
                    !.pc = "start", !.kind = k, !.sure = trust = "ok",
                    !.from = IF fields # None THEN fields ELSE [who |-> email, dir |-> shown]]]
    /\ todo' = <<>>
    /\ UNCHANGED <<server, email, client, view, shown, entries, fields, trust, ghost>>

Goto(t, step) == tx' = [tx EXCEPT ![t].pc = step]
Ends(t) == tx' = [tx EXCEPT ![t] = Off]

\* rpcCtx, in the goroutine, for the transfer and for the listing after it.
rpcCtx(t) ==
    /\ \/ /\ tx[t].pc = "start"
          /\ tx' = [tx EXCEPT ![t].pc = "call", ![t].who = email]
       \/ /\ tx[t].pc = "again"
          /\ tx' = [tx EXCEPT ![t].pc = "relist", ![t].who = email, ![t].over = "no"]
    /\ UNCHANGED <<server, window>>

\* s.client is read here; the stream or the call goes out on its connection.
Call(t) ==
    /\ client
    /\ \/ tx[t].pc = "call" /\ tx' = [tx EXCEPT ![t].pc = "open", ![t].cut = FALSE]
       \/ tx[t].pc = "relist" /\ tx' = [tx EXCEPT ![t].pc = "asked", ![t].cut = FALSE]
    /\ UNCHANGED <<server, window>>

\* s.client is nil: the goroutine panics, and the program is started anew.
NilClient(t) ==
    /\ ~client /\ tx[t].pc \in {"call", "relist"}
    /\ view' = "login" /\ shown' = Root
    /\ entries' = None /\ fields' = None /\ todo' = <<>>
    /\ tx' = [q \in Transfers |-> Off]
    /\ trust' = "no" /\ ghost' = FALSE
    /\ UNCHANGED <<server, email, client>>

At(t) == [who |-> tx[t].who, dir |-> server[tx[t].who]]

\* The server's interceptor puts the current directory into the context.
Arrive(t) ==
    /\ tx[t].pc = "open" /\ ~tx[t].cut
    /\ tx' = [tx EXCEPT ![t].pc = "running", ![t].list = At(t)]
    /\ UNCHANGED <<server, window>>

\* A download that is done leaves the window alone.
Finish(t) ==
    /\ tx[t].pc = "running" /\ ~tx[t].cut
    /\ IF tx[t].kind = "upload" THEN Goto(t, "stored") ELSE Ends(t)
    /\ UNCHANGED <<server, window>>

\* The listing after an upload is left out if the user has logged out.
AfterUpload(t) ==
    /\ tx[t].pc = "stored"
    /\ IF client THEN Goto(t, "again") ELSE Ends(t)
    /\ UNCHANGED <<server, window>>

Answer(t) ==
    /\ tx[t].pc = "asked" /\ ~tx[t].cut
    /\ tx' = [tx EXCEPT ![t].pc = "answered", ![t].list = At(t)]
    /\ UNCHANGED <<server, window>>

\* A call fails, or its connection has been closed.
TransferFails(t) ==
    /\ InFlight(t)
    /\ Ends(t)
    /\ UNCHANGED <<server, window>>

\* queueUI: the listing replaces the entries, wherever the window is by now:
\* between two handlers, or within one if the window has no event queue.
Land(t) ==
    /\ tx[t].pc = "answered"
    /\ entries' = tx[t].list
    /\ trust' = IF tx[t].over = "no" THEN trust ELSE "no"
    /\ ghost' = (ghost \/ tx[t].over = "logout")
    /\ Ends(t)
    /\ UNCHANGED <<server, email, client, view, shown, fields, todo>>

----------------------------------------------------------------------------

\* Another client of the user changes directory, or the session expires.
Elsewhere(u) ==
    /\ \E d \in Dirs : server' = [server EXCEPT ![u] = d]
    /\ IF u = email THEN trust' = "no" /\ tx' = Overtaken ELSE UNCHANGED <<trust, tx>>
    /\ UNCHANGED <<email, client, view, shown, entries, fields, todo, ghost>>

Handler ==
    \/ login \/ Dial \/ Greet \/ Logout
    \/ Refresh \/ Operate \/ cd \/ Dialog \/ selectEntry
    \/ CdCall \/ OpCall \/ pwd \/ ls \/ RefreshFails \/ Cancel

Goroutine(t) ==
    \/ Choose(t) \/ rpcCtx(t) \/ Call(t) \/ NilClient(t)
    \/ Arrive(t) \/ Finish(t) \/ AfterUpload(t) \/ Answer(t)
    \/ TransferFails(t) \/ Land(t)

Next ==
    \/ \E u \in Users : TypeEmail(u) \/ Elsewhere(u)
    \/ Handler
    \/ \E t \in Transfers : Goroutine(t)

Spec == Init /\ [][Next]_vars

----------------------------------------------------------------------------
(* Properties *)

\* The type invariant.  The main view has a client, and the login view none but
\* while it is logging in.
TypeOK ==
    /\ server \in [Users -> Dirs] /\ email \in Users
    /\ client \in BOOLEAN /\ ghost \in BOOLEAN
    /\ view \in {"login", "main"} /\ shown \in Dirs
    /\ entries \in Places \cup {None} /\ fields \in Places \cup {None}
    /\ \A i \in 1 .. Len(todo) : todo[i] \in {"dial", "greet", "cd", "op", "pwd", "ls", "dialog"}
    /\ \A t \in Transfers :
          /\ tx[t].pc \in {"off", "start", "call", "open", "running", "stored",
                           "again", "relist", "asked", "answered"}
          /\ tx[t].who \in Users \cup {None}
          /\ tx[t].from \in Places \cup {None} /\ tx[t].list \in Places \cup {None}
    /\ trust \in {"ok", "half", "no"}
    /\ client <=> view = "main" \/ Calls("greet")

\* Between two handlers the window shows the directory its requests will work
\* in, and the names in the entries and in the fields were listed there: only
\* the causes named at trust part them.
WindowInStep ==
    view = "main" /\ todo = <<>> /\ trust = "ok" =>
       /\ shown = server[email]
       /\ {entries, fields} \subseteq {None, Here}

\* Nothing listed for one user is in the window of the next, unless a listing
\* that was asked for before the logout landed after it.
LoginsShareNothing ==
    view = "main" /\ ~ghost =>
       \A names \in {entries, fields} \ {None} : names.who = email

\* A transfer works in the directory in which its name was picked, although it
\* gets there after the handler has returned: unless the user has begun to
\* leave that directory, or window and server were apart when it was started.
TransfersStayInDirectory ==
    \A t \in Transfers :
       tx[t].pc = "running" /\ tx[t].sure => tx[t].list = tx[t].from \/ tx[t].over # "no"
=============================================================================
