----------------------------- MODULE GuiProofs -----------------------------
(***************************************************************************)
(* Theorems about the window of the graphical client, for any users,       *)
(* directories and number of concurrent transfers: the four invariants     *)
(* that the run Gui checks with one transfer.                              *)
(***************************************************************************)
EXTENDS Gui, SequenceTheorems, TLAPS

----------------------------------------------------------------------------
(* The calls a handler can have left *)

Idle == <<>>
Login == <<"dial", "greet", "pwd", "ls">>
Greeting == <<"greet", "pwd", "ls">>
Moving == <<"cd", "pwd", "ls">>
Operating == <<"op", "pwd", "ls">>
JustPwd == <<"pwd">>
JustLs == <<"ls">>
Asking == <<"dialog">>

\* The handlers of the login view, and those of the main view.
InLogin == {Idle, Login, Greeting}
InMain == {Idle, Moving, Operating, refreshAll, JustPwd, JustLs, Asking}

\* Which handler runs in which view, and when the window has a client.
Handlers ==
    /\ view \in {"login", "main"}
    /\ view = "login" => todo \in InLogin /\ trust = "no"
    /\ view = "main" => todo \in InMain
    /\ client <=> view = "main" \/ todo = Greeting

\* No two of the sequences are the same, and what is left after a call.
LEMMA Different ==
    /\ Idle \notin {Login, Greeting, Moving, Operating, refreshAll, JustPwd, JustLs, Asking}
    /\ Login \notin {Greeting, Moving, Operating, refreshAll, JustPwd, JustLs, Asking}
    /\ Greeting \notin {Moving, Operating, refreshAll, JustPwd, JustLs, Asking}
    /\ Moving \notin {Operating, refreshAll, JustPwd, JustLs, Asking}
    /\ Operating \notin {refreshAll, JustPwd, JustLs, Asking}
    /\ refreshAll \notin {JustPwd, JustLs, Asking}
    /\ JustPwd \notin {JustLs, Asking}
    /\ JustLs # Asking
BY DEF Idle, Login, Greeting, Moving, Operating, refreshAll, JustPwd, JustLs, Asking

\* The head of each sequence.
LEMMA Heads ==
    /\ Head(Login) = "dial" /\ Head(Greeting) = "greet" /\ Head(Moving) = "cd"
    /\ Head(Operating) = "op" /\ Head(refreshAll) = "pwd" /\ Head(JustPwd) = "pwd"
    /\ Head(JustLs) = "ls" /\ Head(Asking) = "dialog"
BY DEF Login, Greeting, Moving, Operating, refreshAll, JustPwd, JustLs, Asking

\* The rest of each sequence.
LEMMA Tails ==
    /\ Tail(Login) = Greeting /\ Tail(Greeting) = refreshAll /\ Tail(Moving) = refreshAll
    /\ Tail(Operating) = refreshAll /\ Tail(refreshAll) = JustLs /\ Tail(JustPwd) = Idle
    /\ Tail(JustLs) = Idle /\ Tail(Asking) = Idle
BY DEF Idle, Login, Greeting, Moving, Operating, refreshAll, JustPwd, JustLs, Asking

\* A call followed by two others.
LEMMA Followed ==
    ASSUME NEW S, NEW a \in S, NEW b \in S, NEW c \in S
    PROVE  <<a>> \o <<b, c>> = <<a, b, c>>
<1> DEFINE r == <<b, c>>
           s == <<a>> \o r
           u == <<a, b, c>>
<1>1. <<a>> \in Seq(S) /\ Len(<<a>>) = 1 /\ <<a>>[1] = a
  OBVIOUS
<1>2. r \in Seq(S) /\ Len(r) = 2 /\ r[1] = b /\ r[2] = c
  OBVIOUS
<1>3. u \in Seq(S) /\ Len(u) = 3 /\ u[1] = a /\ u[2] = b /\ u[3] = c
  OBVIOUS
<1> HIDE DEF r, u
<1>4. /\ s \in Seq(S) /\ Len(s) = Len(<<a>>) + Len(r)
      /\ \A i \in 1 .. Len(<<a>>) + Len(r) : s[i] = IF i <= Len(<<a>>) THEN <<a>>[i] ELSE r[i - Len(<<a>>)]
  BY <1>1, <1>2, ConcatProperties
<1> HIDE DEF s
<1>5. Len(s) = 3 /\ s[1] = a /\ s[2] = b /\ s[3] = c
  BY <1>1, <1>2, <1>4
<1>6. \A i \in 1 .. Len(s) : s[i] = u[i]
  BY <1>3, <1>5
<1>7. s = u
  BY <1>3, <1>4, <1>5, <1>6, SeqEqual
<1> QED
  BY <1>7 DEF s, r, u

\* The sequences the handlers start with.
LEMMA Begun ==
    /\ <<>> = Idle
    /\ <<"dial", "greet", "pwd", "ls">> = Login
    /\ <<"op">> \o refreshAll = Operating /\ <<"cd">> \o refreshAll = Moving
    /\ <<"pwd">> = JustPwd /\ <<"ls">> = JustLs /\ <<"dialog">> = Asking
<1>1. <<"op">> \o refreshAll = <<"op", "pwd", "ls">> /\ <<"cd">> \o refreshAll = <<"cd", "pwd", "ls">>
  <2> DEFINE S == {"op", "cd", "pwd", "ls"}
  <2>1. "op" \in S /\ "cd" \in S /\ "pwd" \in S /\ "ls" \in S
    OBVIOUS
  <2> HIDE DEF S
  <2> QED
    BY <2>1, Followed DEF refreshAll
<1> QED
  BY <1>1 DEF Idle, Login, Moving, Operating, JustPwd, JustLs, Asking

\* Where the handler is when it makes a call, and what it has left afterwards.
LEMMA Calling ==
    ASSUME Handlers
    PROVE  /\ Calls("dial") => todo = Login /\ view = "login" /\ Tail(todo) = Greeting
           /\ Calls("greet") => todo = Greeting /\ view = "login" /\ Tail(todo) = refreshAll
           /\ Calls("cd") => todo = Moving /\ view = "main" /\ Tail(todo) = refreshAll
           /\ Calls("op") => todo = Operating /\ view = "main" /\ Tail(todo) = refreshAll
           /\ Calls("pwd") => /\ view = "main"
                              /\ \/ todo = refreshAll /\ Tail(todo) = JustLs
                                 \/ todo = JustPwd /\ Tail(todo) = Idle
           /\ Calls("ls") => todo = JustLs /\ view = "main" /\ Tail(todo) = Idle
           /\ Calls("dialog") => todo = Asking /\ view = "main"
BY Heads, Tails, Begun, Different DEF Handlers, Calls, InLogin, InMain

----------------------------------------------------------------------------
(* Types *)

\* The goroutine of a transfer.
Record ==
    [pc : {"off", "start", "call", "open", "running", "stored",
           "again", "relist", "asked", "answered"},
     kind : {"upload", "download"}, from : Places \cup {None}, sure : BOOLEAN,
     who : Users \cup {None}, list : Places \cup {None}, cut : BOOLEAN,
     over : {"no", "moved", "logout"}]

\* The types of the variables; a goroutine past its first step has a user.
Types ==
    /\ server \in [Users -> Dirs] /\ email \in Users
    /\ client \in BOOLEAN /\ ghost \in BOOLEAN /\ shown \in Dirs
    /\ entries \in Places \cup {None} /\ fields \in Places \cup {None}
    /\ tx \in [Transfers -> Record]
    /\ trust \in {"ok", "half", "no"}
    /\ \A t \in Transfers : tx[t].pc \notin {"off", "start"} => tx[t].who \in Users

\* A change of directory marks the transfers that were not marked.
LEMMA Overtaking ==
    ASSUME tx \in [Transfers -> Record]
    PROVE  /\ Overtaken \in [Transfers -> Record]
           /\ \A t \in Transfers :
                 /\ Overtaken[t].over # "no"
                 /\ tx[t].over # "no" => Overtaken[t] = tx[t]
                 /\ Overtaken[t].over = "logout" <=> tx[t].over = "logout"
                 /\ Overtaken[t].pc = tx[t].pc /\ Overtaken[t].who = tx[t].who
                 /\ Overtaken[t].list = tx[t].list
BY DEF Overtaken, Record

\* A logout marks every transfer.
LEMMA LoggingOut ==
    ASSUME tx \in [Transfers -> Record]
    PROVE  /\ LoggedOut \in [Transfers -> Record]
           /\ \A t \in Transfers :
                 /\ LoggedOut[t].over = "logout"
                 /\ LoggedOut[t].pc = tx[t].pc /\ LoggedOut[t].who = tx[t].who
                 /\ LoggedOut[t].list = tx[t].list
<1>1. ASSUME NEW r \in Record, NEW c \in BOOLEAN, NEW q,
             q = [r EXCEPT !.over = "logout", !.cut = c]
      PROVE  /\ q \in Record /\ q.over = "logout"
             /\ q.pc = r.pc /\ q.who = r.who /\ q.list = r.list
  BY <1>1 DEF Record
<1>2. ASSUME NEW t \in Transfers
      PROVE  /\ LoggedOut[t] \in Record /\ LoggedOut[t].over = "logout"
             /\ LoggedOut[t].pc = tx[t].pc /\ LoggedOut[t].who = tx[t].who
             /\ LoggedOut[t].list = tx[t].list
  <2> DEFINE r == tx[t]
             q == LoggedOut[t]
             c == tx[t].cut \/ InFlight(t)
  <2>1. c \in BOOLEAN /\ r \in Record
    OBVIOUS
  <2>2. q = [r EXCEPT !.over = "logout", !.cut = c]
    BY DEF LoggedOut
  <2> HIDE DEF c, q, r
  <2>3. /\ q \in Record /\ q.over = "logout"
        /\ q.pc = r.pc /\ q.who = r.who /\ q.list = r.list
    BY <1>1, <2>1, <2>2
  <2> QED
    BY <2>3 DEF q, r
<1>3. LoggedOut = [t \in Transfers |-> LoggedOut[t]]
  BY DEF LoggedOut
<1> QED
  BY <1>2, <1>3

\* A slot no goroutine is in.
LEMMA Nobody == Off \in Record /\ Off.pc = "off" /\ Off.over = "no"
BY DEF Off, Record

\* A step of a transfer leaves the handlers where they are, or the program has
\* been started anew, or a chosen file has closed the dialog.
LEMMA HandlersStep ==
    ASSUME Handlers, Next
    PROVE  Handlers'
<1>1. ASSUME NEW u \in Users, TypeEmail(u) \/ Elsewhere(u) PROVE Handlers'
  BY <1>1 DEF Handlers, TypeEmail, Elsewhere
<1>2. CASE login \/ Logout
  BY <1>2, Begun, Different DEF Handlers, InLogin, InMain, login, Logout, disconnect
<1>3. CASE Dial \/ Greet
  <2>1. CASE Dial
    <3>1. todo = Login /\ view = "login" /\ Tail(todo) = Greeting /\ ~client
      BY <2>1, Calling, Different DEF Dial, Handlers
    <3>2. CASE client' = TRUE /\ todo' = Tail(todo)
      BY <2>1, <3>1, <3>2 DEF Handlers, InLogin, Dial
    <3>3. CASE todo' = <<>> /\ UNCHANGED client
      BY <2>1, <3>1, <3>3, Begun, Different DEF Handlers, InLogin, Dial
    <3> QED
      BY <2>1, <3>2, <3>3 DEF Dial
  <2>2. CASE Greet
    <3>1. todo = Greeting /\ view = "login" /\ Tail(todo) = refreshAll
      BY <2>2, Calling DEF Greet
    <3>2. CASE view' = "main" /\ todo' = Tail(todo) /\ UNCHANGED client
      BY <3>1, <3>2, Different DEF Handlers, InMain
    <3>3. CASE client' = FALSE /\ todo' = <<>> /\ UNCHANGED <<view, trust>>
      BY <3>1, <3>3, Begun, Different DEF Handlers, InLogin
    <3> QED
      BY <2>2, <3>2, <3>3 DEF Greet, disconnect
  <2> QED
    BY <1>3, <2>1, <2>2
<1>4. CASE Refresh \/ Operate \/ cd \/ Dialog
  BY <1>4, Begun, Different DEF Handlers, InLogin, InMain, Refresh, Operate, cd, Dialog, Handles
<1>5. CASE selectEntry \/ Cancel
  BY <1>5, Begun, Different, Calling DEF Handlers, InLogin, InMain, selectEntry, Cancel
<1>6. CASE CdCall \/ OpCall
  BY <1>6, Begun, Different, Calling DEF Handlers, InLogin, InMain, CdCall, OpCall
<1>7. CASE pwd \/ ls \/ RefreshFails
  BY <1>7, Begun, Different, Calling DEF Handlers, InLogin, InMain, pwd, ls, RefreshFails
<1>8. ASSUME NEW t \in Transfers, Goroutine(t) PROVE Handlers'
  <2>1. CASE Choose(t)
    BY <2>1, Begun, Different, Calling DEF Handlers, InLogin, InMain, Choose
  <2>2. CASE NilClient(t)
    BY <2>2, Begun, Different DEF Handlers, InLogin, InMain, NilClient
  <2>3. CASE Land(t)
    BY <2>3 DEF Handlers, Land
  <2>4. CASE \/ rpcCtx(t) \/ Call(t) \/ Arrive(t) \/ Finish(t)
             \/ AfterUpload(t) \/ Answer(t) \/ TransferFails(t)
    BY <2>4 DEF Handlers, window, rpcCtx, Call, Arrive, Finish, AfterUpload, Answer, TransferFails
  <2> QED
    BY <1>8, <2>1, <2>2, <2>3, <2>4 DEF Goroutine
<1> QED
  BY <1>1, <1>2, <1>3, <1>4, <1>5, <1>6, <1>7, <1>8 DEF Next, Handler

\* Every step keeps the types.
LEMMA TypesStep ==
    ASSUME Types, Next
    PROVE  Types'
<1> USE DEF Types
<1>1. ASSUME NEW u \in Users, TypeEmail(u) PROVE Types'
  BY <1>1 DEF TypeEmail
<1>2. ASSUME NEW u \in Users, Elsewhere(u) PROVE Types'
  BY <1>2, Overtaking DEF Elsewhere
<1>3. CASE login \/ Logout
  BY <1>3, LoggingOut DEF login, Logout, disconnect
<1>4. CASE Dial
  BY <1>4 DEF Dial
<1>5. CASE Greet
  BY <1>5, LoggingOut DEF Greet, disconnect
<1>6. CASE Refresh \/ Operate \/ Dialog
  BY <1>6 DEF Refresh, Operate, Dialog, Handles
<1>7. CASE cd
  BY <1>7, Overtaking DEF cd, Handles
<1>8. CASE selectEntry \/ Cancel
  BY <1>8 DEF selectEntry, Cancel
<1>9. CASE CdCall \/ OpCall \/ RefreshFails
  BY <1>9 DEF CdCall, OpCall, RefreshFails
<1>10. CASE pwd
  BY <1>10, Overtaking DEF pwd, Cleared
<1>11. CASE ls
  BY <1>11 DEF ls, Here, Places
<1>12. ASSUME NEW t \in Transfers, Goroutine(t) PROVE Types'
  <2>1. CASE Choose(t)
    <3>1. [who |-> email, dir |-> shown] \in Places /\ (trust = "ok") \in BOOLEAN
      BY DEF Places
    <3>2. PICK k \in {"upload", "download"} :
             tx' = [tx EXCEPT ![t] = [Off EXCEPT
                       !.pc = "start", !.kind = k, !.sure = trust = "ok",
                       !.from = IF fields # None THEN fields ELSE [who |-> email, dir |-> shown]]]
      BY <2>1 DEF Choose
    <3> DEFINE from == IF fields # None THEN fields ELSE [who |-> email, dir |-> shown]
               r == [Off EXCEPT !.pc = "start", !.kind = k, !.sure = trust = "ok", !.from = from]
    <3>3. from \in Places \cup {None}
      BY <3>1
    <3> HIDE DEF from
    <3>4. r \in Record /\ r.pc = "start"
      BY <3>1, <3>3 DEF Off, Record
    <3>5. tx' = [tx EXCEPT ![t] = r]
      BY <3>2 DEF from
    <3> HIDE DEF r
    <3> QED
      BY <2>1, <3>4, <3>5 DEF Choose
  <2>2. CASE rpcCtx(t)
    BY <2>2 DEF rpcCtx, window, Record
  <2>3. CASE Call(t)
    BY <2>3 DEF Call, window, Record
  <2>4. CASE NilClient(t)
    BY <2>4, GuiAssumption, Nobody DEF NilClient
  <2>5. CASE Arrive(t)
    <3>1. tx[t].who \in Users
      BY <2>5 DEF Arrive, Record
    <3>2. At(t) \in Places
      BY <3>1 DEF At, Places
    <3> QED
      <4> DEFINE r == [tx[t] EXCEPT !.pc = "running", !.list = At(t)]
      <4>1. r \in Record /\ r.who = tx[t].who
        BY <3>2 DEF Record
      <4>2. tx' = [tx EXCEPT ![t] = r]
        BY <2>5 DEF Arrive
      <4> HIDE DEF r
      <4>3. tx' \in [Transfers -> Record] /\ \A q \in Transfers : tx'[q] = IF q = t THEN r ELSE tx[q]
        BY <4>1, <4>2
      <4> QED
        BY <2>5, <3>1, <4>1, <4>3 DEF Arrive, window
  <2>6. CASE Finish(t) \/ AfterUpload(t)
    BY <2>6, Nobody DEF Finish, AfterUpload, Goto, Ends, window, Record
  <2>7. CASE Answer(t)
    <3>1. tx[t].who \in Users
      BY <2>7 DEF Answer, Record
    <3>2. At(t) \in Places
      BY <3>1 DEF At, Places
    <3> QED
      <4> DEFINE r == [tx[t] EXCEPT !.pc = "answered", !.list = At(t)]
      <4>1. r \in Record /\ r.who = tx[t].who
        BY <3>2 DEF Record
      <4>2. tx' = [tx EXCEPT ![t] = r]
        BY <2>7 DEF Answer
      <4> HIDE DEF r
      <4>3. tx' \in [Transfers -> Record] /\ \A q \in Transfers : tx'[q] = IF q = t THEN r ELSE tx[q]
        BY <4>1, <4>2
      <4> QED
        BY <2>7, <3>1, <4>1, <4>3 DEF Answer, window
  <2>8. CASE TransferFails(t)
    BY <2>8, Nobody DEF TransferFails, Ends, window
  <2>9. CASE Land(t)
    BY <2>9, Nobody DEF Land, Ends, Record
  <2> QED
    BY <1>12, <2>1, <2>2, <2>3, <2>4, <2>5, <2>6, <2>7, <2>8, <2>9 DEF Goroutine
<1> QED
  BY <1>1, <1>2, <1>3, <1>4, <1>5, <1>6, <1>7, <1>8, <1>9, <1>10, <1>11, <1>12 DEF Next, Handler

----------------------------------------------------------------------------
(* One user's names *)

\* The window is used by somebody, or on the way to be.
Connected == view = "main" \/ todo # Idle

\* The listing of a transfer that has not been logged out since.
Relisting(t) == tx[t].pc \in {"relist", "asked", "answered"} /\ tx[t].over # "logout"

\* What is in the window belongs to its user, and what a listing may still put
\* there does so too unless it was asked for before a logout.
Sharing ==
    Connected =>
       /\ ~ghost => \A names \in {entries, fields} \ {None} : names.who = email
       /\ \A t \in Transfers : Relisting(t) =>
             tx[t].who = email /\ (tx[t].pc = "answered" => tx[t].list.who = email)

\* A step that leaves the window's names, its user and the transfers alone.
LEMMA SharingKept ==
    ASSUME Sharing, Connected' => Connected,
           UNCHANGED <<email, ghost, entries, tx>>, fields' \in {fields, None}
    PROVE  Sharing'
BY DEF Sharing, Relisting

\* Every step keeps the users apart.
LEMMA SharingStep ==
    ASSUME Types, Handlers, Sharing, Next
    PROVE  Sharing'
<1>1. ASSUME NEW u \in Users, TypeEmail(u) PROVE Sharing'
  BY <1>1, Begun DEF TypeEmail, Sharing, Connected
<1>2. ASSUME NEW u \in Users, Elsewhere(u) PROVE Sharing'
  BY <1>2, Overtaking DEF Elsewhere, Sharing, Relisting, Connected, Types
<1>3. CASE login \/ Logout \/ (Greet /\ disconnect)
  BY <1>3, LoggingOut DEF login, Logout, disconnect, Sharing, Relisting, Types
<1>4. CASE Dial
  BY <1>4, Calling, Different, SharingKept DEF Dial, Connected
<1>5. CASE Greet /\ view' = "main"
  BY <1>5, Calling, Different, SharingKept DEF Greet, Connected
<1>6. CASE Refresh \/ Operate \/ Dialog
  BY <1>6, SharingKept DEF Refresh, Operate, Dialog, Handles, Connected
<1>7. CASE cd
  BY <1>7, Overtaking DEF cd, Handles, Sharing, Relisting, Connected, Types
<1>8. CASE selectEntry
  BY <1>8 DEF selectEntry, Sharing, Relisting, Connected
<1>9. CASE CdCall \/ OpCall \/ RefreshFails \/ Cancel
  BY <1>9, Calling, SharingKept DEF CdCall, OpCall, RefreshFails, Cancel, Connected
<1>10. CASE pwd
  BY <1>10, Calling, Overtaking DEF pwd, Cleared, Sharing, Relisting, Connected, Types
<1>11. CASE ls
  BY <1>11, Calling DEF ls, Here, Sharing, Relisting, Connected
<1>12. ASSUME NEW t \in Transfers, Goroutine(t) PROVE Sharing'
  <2>1. CASE Choose(t)
    BY <2>1, Calling DEF Choose, Off, Sharing, Relisting, Connected, Types
  <2>2. CASE rpcCtx(t)
    BY <2>2 DEF rpcCtx, window, Sharing, Relisting, Connected, Types, Record
  <2>3. CASE Call(t)
    BY <2>3 DEF Call, window, Sharing, Relisting, Connected, Types, Record
  <2>4. CASE NilClient(t)
    BY <2>4, Begun DEF NilClient, Sharing, Connected
  <2>5. CASE Arrive(t)
    BY <2>5 DEF Arrive, window, Sharing, Relisting, Connected, Types, Record
  <2>6. CASE Finish(t) \/ AfterUpload(t)
    BY <2>6, Nobody DEF Finish, AfterUpload, Goto, Ends, window, Sharing, Relisting, Connected, Types, Record
  <2>7. CASE Answer(t)
    BY <2>7 DEF Answer, At, window, Sharing, Relisting, Connected, Types, Record
  <2>8. CASE TransferFails(t)
    BY <2>8, Nobody DEF TransferFails, Ends, window, Sharing, Relisting, Connected, Types
  <2>9. CASE Land(t)
    BY <2>9, Nobody DEF Land, Ends, Sharing, Relisting, Connected, Types, Record
  <2> QED
    BY <1>12, <2>1, <2>2, <2>3, <2>4, <2>5, <2>6, <2>7, <2>8, <2>9 DEF Goroutine
<1> QED
  BY <1>1, <1>2, <1>3, <1>4, <1>5, <1>6, <1>7, <1>8, <1>9, <1>10, <1>11, <1>12 DEF Next, Handler, Greet

----------------------------------------------------------------------------
(* The window in step *)

\* Of the directory the window shows.
Seen == [who |-> email, dir |-> shown]

\* What the window knows, by trust and by the calls the handler still makes.
InStep ==
    /\ view = "login" => fields = None
    /\ view = "main" =>
          /\ trust # "no" /\ todo # refreshAll => shown = server[email]
          /\ trust = "ok" => fields \in {None, Seen}
          /\ trust = "half" => fields = None
          /\ trust = "ok" /\ todo \notin {refreshAll, JustLs} => entries \in {None, Here}

\* A listing on its way to the window is of the directory the user is in, or
\* of the one a handler is just leaving.
Fresh ==
    trust # "no" \/ (view = "login" /\ todo # Idle) =>
       \A t \in Transfers : tx[t].pc = "answered" /\ tx[t].over = "no" =>
          tx[t].list = Here \/ (todo = refreshAll /\ tx[t].list = Seen)

\* Every step keeps the window in step.
LEMMA InStepStep ==
    ASSUME Types, Handlers, InStep, Fresh, Next
    PROVE  InStep'
<1> USE DEF InStep
<1>1. ASSUME NEW u \in Users, TypeEmail(u) PROVE InStep'
  BY <1>1 DEF TypeEmail
<1>2. ASSUME NEW u \in Users, Elsewhere(u) PROVE InStep'
  <2>1. CASE u = email
    BY <1>2, <2>1 DEF Elsewhere
  <2>2. CASE u # email
    BY <1>2, <2>2 DEF Elsewhere, Here, Seen, Types
  <2> QED
    BY <2>1, <2>2
<1>3. CASE login \/ Logout
  BY <1>3 DEF login, Logout, disconnect
<1>4. CASE Dial
  BY <1>4, Calling DEF Dial
<1>5. CASE Greet
  BY <1>5, Calling, Different DEF Greet, disconnect
<1>6. CASE Refresh \/ Operate \/ Dialog \/ cd
  BY <1>6, Begun, Different DEF Refresh, Operate, Dialog, cd, Handles, Here, Seen
<1>7. CASE selectEntry
  BY <1>7, Begun, Different DEF selectEntry, Here, Seen
<1>8. CASE Cancel \/ OpCall
  BY <1>8, Calling, Begun, Different DEF Cancel, OpCall, Here, Seen
<1>9. CASE CdCall
  BY <1>9, Calling, Begun, Different DEF CdCall, Here, Seen
<1>10. CASE pwd
  BY <1>10, Calling, Different DEF pwd, Cleared, Here, Seen
<1>11. CASE ls
  BY <1>11, Calling, Different DEF ls, Here, Seen
<1>12. CASE RefreshFails
  BY <1>12, Calling DEF RefreshFails
<1>13. ASSUME NEW t \in Transfers, Goroutine(t) PROVE InStep'
  <2>1. CASE Choose(t)
    BY <2>1, Calling, Begun, Different DEF Choose, Here, Seen
  <2>2. CASE NilClient(t)
    BY <2>2 DEF NilClient
  <2>3. CASE Land(t)
    BY <2>3 DEF Land, Fresh, Handlers, Here, Seen
  <2>4. CASE \/ rpcCtx(t) \/ Call(t) \/ Arrive(t) \/ Finish(t)
             \/ AfterUpload(t) \/ Answer(t) \/ TransferFails(t)
    BY <2>4 DEF window, rpcCtx, Call, Arrive, Finish, AfterUpload, Answer, TransferFails, Here, Seen
  <2> QED
    BY <1>13, <2>1, <2>2, <2>3, <2>4 DEF Goroutine
<1> QED
  BY <1>1, <1>2, <1>3, <1>4, <1>5, <1>6, <1>7, <1>8, <1>9, <1>10, <1>11, <1>12, <1>13 DEF Next, Handler

\* Every step keeps the listings that are on their way fresh.
LEMMA FreshStep ==
    ASSUME Types, Handlers, Sharing, InStep, Fresh, Next
    PROVE  Fresh'
<1> USE DEF Fresh
<1>1. ASSUME NEW u \in Users, TypeEmail(u) PROVE Fresh'
  BY <1>1, Begun, Different DEF TypeEmail, Handlers
<1>2. ASSUME NEW u \in Users, Elsewhere(u) PROVE Fresh'
  <2>1. CASE u = email
    BY <1>2, <2>1, Overtaking DEF Elsewhere, Types
  <2>2. CASE u # email
    BY <1>2, <2>2 DEF Elsewhere, Here, Seen, Types
  <2> QED
    BY <2>1, <2>2
<1>3. CASE login \/ Logout
  BY <1>3, LoggingOut DEF login, Logout, disconnect, Types
<1>4. CASE Dial
  BY <1>4, Calling, Different DEF Dial, Here, Seen
<1>5. CASE Greet
  <2>1. todo = Greeting /\ view = "login"
    BY <1>5, Calling DEF Greet
  <2>2. CASE disconnect
    BY <2>2, LoggingOut DEF disconnect, Types
  <2>3. CASE view' = "main" /\ UNCHANGED tx
    BY <1>5, <2>1, <2>3, Different DEF Greet, Here, Seen
  <2> QED
    BY <1>5, <2>2, <2>3 DEF Greet
<1>6. CASE Refresh \/ Operate \/ Dialog
  BY <1>6, Begun, Different DEF Refresh, Operate, Dialog, Handles, Here, Seen
<1>7. CASE cd
  BY <1>7, Overtaking DEF cd, Types
<1>8. CASE selectEntry
  BY <1>8 DEF selectEntry, Here, Seen
<1>9. CASE Cancel \/ OpCall
  BY <1>9, Calling, Begun, Different DEF Cancel, OpCall, Here, Seen
<1>10. CASE CdCall
  BY <1>10, Calling, Begun, Different DEF CdCall, Here, Seen, InStep, Handlers
<1>11. CASE pwd
  <2>1. CASE server[email] # shown
    BY <1>11, <2>1, Overtaking DEF pwd, Types
  <2>2. CASE server[email] = shown
    BY <1>11, <2>2, Calling DEF pwd, Here, Seen, Handlers
  <2> QED
    BY <2>1, <2>2
<1>12. CASE ls
  BY <1>12, Calling, Different DEF ls, Here, Seen, Handlers
<1>13. CASE RefreshFails
  BY <1>13, Calling DEF RefreshFails
<1>14. ASSUME NEW t \in Transfers, Goroutine(t) PROVE Fresh'
  <2>1. CASE Choose(t)
    BY <2>1, Calling, Begun, Different DEF Choose, Off, Here, Seen, Types
  <2>2. CASE NilClient(t)
    BY <2>2, Begun DEF NilClient
  <2>3. CASE rpcCtx(t)
    BY <2>3 DEF rpcCtx, window, Here, Seen, Types, Record
  <2>4. CASE Call(t)
    BY <2>4 DEF Call, window, Here, Seen, Types, Record
  <2>5. CASE Arrive(t)
    BY <2>5 DEF Arrive, window, Here, Seen, Types, Record
  <2>6. CASE Finish(t) \/ AfterUpload(t)
    BY <2>6, Nobody DEF Finish, AfterUpload, Goto, Ends, window, Here, Seen, Types, Record
  <2>7. CASE Answer(t)
    BY <2>7 DEF Answer, At, window, Here, Seen, Types, Record, Sharing, Relisting, Connected, Handlers
  <2>8. CASE TransferFails(t)
    BY <2>8, Nobody DEF TransferFails, Ends, window, Here, Seen, Types
  <2>9. CASE Land(t)
    BY <2>9, Nobody DEF Land, Ends, Here, Seen, Types, Record
  <2> QED
    BY <1>14, <2>1, <2>2, <2>3, <2>4, <2>5, <2>6, <2>7, <2>8, <2>9 DEF Goroutine
<1> QED
  BY <1>1, <1>2, <1>3, <1>4, <1>5, <1>6, <1>7, <1>8, <1>9, <1>10, <1>11, <1>12, <1>13, <1>14 DEF Next, Handler

----------------------------------------------------------------------------
(* Transfers and the directory *)

\* A transfer that has not reached the server and was not overtaken is of the
\* window's user and, if it was started in step, of the directory he is in.
Starting ==
    \A t \in Transfers : tx[t].pc \in {"start", "call", "open"} /\ tx[t].over = "no" =>
       /\ view = "main" /\ todo # Moving
       /\ tx[t].pc # "start" => tx[t].who = email
       /\ tx[t].sure => tx[t].from = Here

\* Every step keeps it so, until the transfer reaches the server there.
LEMMA StartingStep ==
    ASSUME Types, Handlers, InStep, Starting, TransfersStayInDirectory, Next
    PROVE  Starting' /\ TransfersStayInDirectory'
<1> USE DEF Starting, TransfersStayInDirectory
<1> DEFINE Goal == Starting' /\ TransfersStayInDirectory'
<1>1. ASSUME NEW u \in Users, TypeEmail(u) PROVE Goal
  BY <1>1 DEF TypeEmail
<1>2. ASSUME NEW u \in Users, Elsewhere(u) PROVE Goal
  <2>1. CASE u = email
    BY <1>2, <2>1, Overtaking DEF Elsewhere, Types
  <2>2. CASE u # email
    BY <1>2, <2>2 DEF Elsewhere, Here, Types
  <2> QED
    BY <2>1, <2>2
<1>3. CASE login \/ Logout
  BY <1>3, LoggingOut DEF login, Logout, disconnect, Types
<1>4. CASE Dial
  BY <1>4, Calling, Different DEF Dial, Here
<1>5. CASE Greet
  <2>1. todo = Greeting /\ view = "login"
    BY <1>5, Calling DEF Greet
  <2>2. CASE disconnect
    BY <2>2, LoggingOut DEF disconnect, Types
  <2>3. CASE view' = "main" /\ UNCHANGED tx
    BY <1>5, <2>1, <2>3, Different DEF Greet, Here
  <2> QED
    BY <1>5, <2>2, <2>3 DEF Greet
<1>6. CASE Refresh \/ Operate \/ Dialog
  BY <1>6, Begun, Different DEF Refresh, Operate, Dialog, Handles, Here
<1>7. CASE cd
  BY <1>7, Overtaking DEF cd, Types
<1>8. CASE selectEntry
  BY <1>8 DEF selectEntry, Here
<1>9. CASE Cancel \/ OpCall
  BY <1>9, Calling, Begun, Different DEF Cancel, OpCall, Here
<1>10. CASE CdCall
  BY <1>10, Calling DEF CdCall
<1>11. CASE pwd
  <2>1. CASE server[email] # shown
    BY <1>11, <2>1, Overtaking DEF pwd, Types
  <2>2. CASE server[email] = shown
    BY <1>11, <2>2, Calling, Different DEF pwd, Here
  <2> QED
    BY <2>1, <2>2
<1>12. CASE ls \/ RefreshFails
  BY <1>12, Calling, Different DEF ls, RefreshFails, Here
<1>13. ASSUME NEW t \in Transfers, Goroutine(t) PROVE Goal
  <2>1. CASE Choose(t)
    <3>1. view = "main" /\ todo = Asking /\ todo' = Idle /\ UNCHANGED <<server, email, view>>
      BY <2>1, Calling, Begun DEF Choose
    <3>2. /\ tx'[t].pc = "start"
          /\ tx'[t].sure => trust = "ok"
          /\ tx'[t].from = IF fields # None THEN fields ELSE Seen
      <4>1. PICK k \in {"upload", "download"} :
               tx' = [tx EXCEPT ![t] = [Off EXCEPT
                         !.pc = "start", !.kind = k, !.sure = trust = "ok",
                         !.from = IF fields # None THEN fields ELSE Seen]]
        BY <2>1 DEF Choose, Seen
      <4> DEFINE r == [Off EXCEPT !.pc = "start", !.kind = k, !.sure = trust = "ok",
                                  !.from = IF fields # None THEN fields ELSE Seen]
      <4>2. /\ r.pc = "start" /\ r.sure = (trust = "ok")
            /\ r.from = IF fields # None THEN fields ELSE Seen
        BY DEF Off
      <4>3. tx' = [tx EXCEPT ![t] = r]
        BY <4>1
      <4> HIDE DEF r
      <4>4. tx'[t] = r
        BY <4>3 DEF Types
      <4> QED
        BY <4>2, <4>4
    <3>3. trust = "ok" => shown = server[email] /\ fields \in {None, Seen}
      BY <3>1, Different DEF InStep
    <3>4. tx'[t].sure => tx'[t].from = Here
      BY <3>2, <3>3 DEF Seen, Here
    <3>5. \A q \in Transfers : q # t => tx'[q] = tx[q]
      BY <2>1 DEF Choose, Types
    <3> QED
      BY <3>1, <3>2, <3>4, <3>5, Different DEF Here
  <2>2. CASE NilClient(t)
    BY <2>2, Nobody DEF NilClient
  <2>3. CASE rpcCtx(t)
    BY <2>3 DEF rpcCtx, window, Here, Types, Record
  <2>4. CASE Call(t)
    BY <2>4 DEF Call, window, Here, Types, Record
  <2>5. CASE Arrive(t)
    BY <2>5 DEF Arrive, At, window, Here, Types, Record
  <2>6. CASE Finish(t) \/ AfterUpload(t)
    BY <2>6, Nobody DEF Finish, AfterUpload, Goto, Ends, window, Here, Types, Record
  <2>7. CASE Answer(t)
    BY <2>7 DEF Answer, window, Here, Types, Record
  <2>8. CASE TransferFails(t)
    BY <2>8, Nobody DEF TransferFails, Ends, window, Here, Types
  <2>9. CASE Land(t)
    BY <2>9, Nobody DEF Land, Ends, Here, Types, Record
  <2> QED
    BY <1>13, <2>1, <2>2, <2>3, <2>4, <2>5, <2>6, <2>7, <2>8, <2>9 DEF Goroutine
<1> QED
  BY <1>1, <1>2, <1>3, <1>4, <1>5, <1>6, <1>7, <1>8, <1>9, <1>10, <1>11, <1>12, <1>13 DEF Next, Handler

----------------------------------------------------------------------------
(* The theorems *)

\* The inductive invariant.
Inv ==
    /\ Types /\ Handlers /\ Sharing /\ InStep /\ Fresh /\ Starting
    /\ TransfersStayInDirectory

\* It holds at the start.
LEMMA Initially == Init => Inv
<1> SUFFICES ASSUME Init PROVE Inv
  OBVIOUS
<1>1. \A t \in Transfers : tx[t].pc = "off"
  BY Nobody DEF Init
<1>2. Types
  BY <1>1, GuiAssumption, Nobody DEF Init, Types
<1>3. Handlers
  BY Begun, Different DEF Init, Handlers, InLogin
<1>4. Sharing /\ InStep
  BY Begun DEF Init, Sharing, Connected, InStep
<1>5. Fresh /\ Starting /\ TransfersStayInDirectory
  BY <1>1 DEF Fresh, Starting, TransfersStayInDirectory
<1> QED
  BY <1>2, <1>3, <1>4, <1>5 DEF Inv

\* Every step keeps it.
LEMMA Inductive == Inv /\ [Next]_vars => Inv'
<1>1. CASE UNCHANGED vars
  BY <1>1 DEF vars, Inv, Types, Handlers, Sharing, Connected, Relisting, InStep, Fresh, Starting,
              TransfersStayInDirectory, Here, Seen
<1>2. ASSUME Inv, Next PROVE Inv'
  BY <1>2, HandlersStep, TypesStep, SharingStep, InStepStep, FreshStep, StartingStep DEF Inv
<1> QED
  BY <1>1, <1>2

\* So it holds always.
LEMMA Always == Spec => []Inv
BY Initially, Inductive, PTL DEF Spec

\* The variables keep their types, the calls of a handler are known ones, and
\* the window has a client in the main view and while it greets the server.
THEOREM TypeCorrect == Spec => []TypeOK
<1>1. Inv => TypeOK
  <2> SUFFICES ASSUME Inv PROVE TypeOK
    OBVIOUS
  <2> DEFINE Names == {"dial", "greet", "cd", "op", "pwd", "ls", "dialog"}
  <2>1. todo \in InLogin \cup InMain
    BY DEF Inv, Handlers
  <2>2. \A i \in 1 .. Len(todo) : todo[i] \in Names
    BY <2>1 DEF InLogin, InMain, Idle, Login, Greeting, Moving, Operating, refreshAll,
                JustPwd, JustLs, Asking
  <2>3. client <=> view = "main" \/ Calls("greet")
    BY <2>1, Heads, Calling, Begun, Different DEF Inv, Handlers, Calls
  <2> QED
    BY <2>2, <2>3 DEF Inv, Types, Handlers, TypeOK, Record
<1> QED
  BY <1>1, Always, PTL

\* Between two handlers the window shows the directory its requests work in
\* and names that were listed there, however the handlers, the listings of
\* uploads and the other clients of the user take turns.
THEOREM WindowShowsTheDirectory == Spec => []WindowInStep
<1>1. Inv => WindowInStep
  BY Begun, Different DEF Inv, InStep, WindowInStep, Here, Seen
<1> QED
  BY <1>1, Always, PTL

\* What was listed for one user is not in the window of the next one, with any
\* number of uploads running across the logouts.
THEOREM NamesStayWithTheirUser == Spec => []LoginsShareNothing
<1>1. Inv => LoginsShareNothing
  BY DEF Inv, Sharing, Connected, LoginsShareNothing
<1> QED
  BY <1>1, Always, PTL

\* A transfer started in step reaches the server in the directory its name was
\* picked in, unless the user has begun to leave it.
THEOREM TransfersReachTheirDirectory == Spec => []TransfersStayInDirectory
<1>1. Inv => TransfersStayInDirectory
  BY DEF Inv
<1> QED
  BY <1>1, Always, PTL
=============================================================================
