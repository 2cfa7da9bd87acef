------------------------------ MODULE Session ------------------------------
(***************************************************************************)
(* The working-directory session of one NEUDFS user.                       *)
(*                                                                         *)
(* A user's item in the DynamoDB user table carries currentDirectory and   *)
(* directoryTTL.  Every RPC first runs an interceptor that reads the item, *)
(* decides on its own clock whether the session has expired and, if so,    *)
(* REMOVEs both attributes; ChangeDirectory then moves the directory with  *)
(* a conditional update.  Requests of the same user run concurrently, on   *)
(* one server or on several: nothing but DynamoDB orders them.             *)
(*                                                                         *)
(* One action is one call to DynamoDB or the local code between two calls. *)
(* Users are independent of each other, so one is enough.                  *)
(***************************************************************************)
EXTENDS Integers, Sequences

CONSTANTS
    Requests,    \* request slots of the user: this many RPCs can be in flight
    Names,       \* path components
    Dirs,        \* directories the user may enter, as sequences of components
    DownArgs,    \* arguments of cd other than "" and "..", split at "/"
    SessionTTL,  \* lifetime of a session, in ticks of the clock
    MaxTime      \* bound: the clock stops here

Root == <<>>
Parent(d) == SubSeq(d, 1, Len(d) - 1)

\* Access to a folder implies access to the folders above it: a class is
\* listed inside its college, a folder path inside its class.
ASSUME DirsAssumption ==
    /\ Dirs \subseteq Seq(Names) \ {Root}
    /\ DownArgs \subseteq Seq(Names) \ {Root}
    /\ \A d \in Dirs : Parent(d) \in Dirs \cup {Root}
ASSUME TimeAssumption == SessionTTL \in Nat \ {0} /\ MaxTime \in Nat

VARIABLES
    user,     \* the stored item: has (the attribute exists), dir, ttl
    now,      \* time.Now() in seconds
    pc,       \* request -> next step of an RPC in flight, or how the last ended
    rpc,      \* request -> cd, another unary RPC, or a stream
    read,     \* request -> dir and ttl of the User in the request's context
    goal,     \* request -> the values its UpdateItem sets
    failed,   \* requests whose REMOVE failed, the error being discarded
    applied,  \* requests whose own update took effect but lost its reply
    changed   \* requests during which another request changed the directory

vars == <<user, now, pc, rpc, read, goal, failed, applied, changed>>

Session == [dir: Dirs \cup {Root}, ttl: Nat]
NoSession == [dir |-> Root, ttl |-> 0]
Absent == [has |-> FALSE, dir |-> Root, ttl |-> 0]
Resting == {"idle", "ok", "aborted", "error", "invalid"}

Init ==
    /\ user = [has |-> TRUE, dir |-> Root, ttl |-> 0]
    /\ now = 1
    /\ pc = [r \in Requests |-> "idle"]
    /\ rpc = [r \in Requests |-> "unary"]
    /\ read = [r \in Requests |-> NoSession]
    /\ goal = [r \in Requests |-> NoSession]
    /\ failed = {} /\ applied = {} /\ changed = {}

----------------------------------------------------------------------------
(* The table *)

\* The requests, other than r itself, that are in flight.
Others(r) == {q \in Requests \ {r} : pc[q] \notin Resting}

\* A write of the user's item by request r.
Store(r, item) ==
    /\ user' = item
    /\ changed' = IF item.dir = user.dir THEN changed
                                         ELSE changed \cup Others(r)

----------------------------------------------------------------------------
(* The interceptors *)

\* The strongly consistent GetItem that starts every RPC.  A failed read ends
\* the RPC with nothing changed.
Begin(r) ==
    /\ pc[r] \in Resting
    /\ \E k \in {"cd", "unary", "stream"} : rpc' = [rpc EXCEPT ![r] = k]
    /\ pc' = [pc EXCEPT ![r] = "check"]
    /\ read' = [read EXCEPT ![r] = [dir |-> user.dir, ttl |-> user.ttl]]
    /\ goal' = [goal EXCEPT ![r] = NoSession]
    /\ failed' = failed \ {r}
    /\ applied' = applied \ {r}
    /\ changed' = changed \ {r}
    /\ UNCHANGED <<user, now>>

\* Mutant of Expired: a session ends one tick too early.
ExpiredEarly(s) == s.ttl # 0 /\ now >= s.ttl

Expired(s) == s.ttl # 0 /\ now > s.ttl

\* The session is live: the handler runs with what was read.
Live(r) ==
    /\ pc[r] = "check"
    /\ ~Expired(read[r])
    /\ pc' = [pc EXCEPT ![r] = "handle"]
    /\ UNCHANGED <<user, now, rpc, read, goal, failed, applied, changed>>

\* Expired, with the user already at the root: nothing is written.  The unary
\* interceptor forgets the time too, the stream interceptor keeps it.
ExpiredAtRoot(r) ==
    /\ pc[r] = "check"
    /\ Expired(read[r]) /\ read[r].dir = Root
    /\ pc' = [pc EXCEPT ![r] = "handle"]
    /\ read' = [read EXCEPT ![r] = IF rpc[r] = "stream" THEN @ ELSE NoSession]
    /\ UNCHANGED <<user, now, rpc, goal, failed, applied, changed>>

ExpiredInside(r) ==
    /\ pc[r] = "check"
    /\ Expired(read[r]) /\ read[r].dir # Root
    /\ pc' = [pc EXCEPT ![r] = "remove"]
    /\ UNCHANGED <<user, now, rpc, read, goal, failed, applied, changed>>

\* REMOVE currentDirectory, directoryTTL, whatever they are by now.
RemoveSession(r) ==
    /\ pc[r] = "remove"
    /\ Store(r, Absent)
    /\ \/ /\ pc' = [pc EXCEPT ![r] = "handle"]
          /\ read' = [read EXCEPT ![r] = NoSession]
       \/ UNCHANGED <<pc, read>>     \* reply lost: the SDK sends it again
    /\ UNCHANGED <<now, rpc, goal, failed, applied>>

\* The REMOVE fails; its error is discarded and the handler runs as if the
\* session had been cleared.
RemoveFails(r) ==
    /\ pc[r] = "remove"
    /\ pc' = [pc EXCEPT ![r] = "handle"]
    /\ read' = [read EXCEPT ![r] = NoSession]
    /\ failed' = failed \cup {r}
    /\ UNCHANGED <<user, now, rpc, goal, applied, changed>>

----------------------------------------------------------------------------
(* The handlers *)

\* A handler that only reads the directory in its context.
Serve(r) ==
    /\ pc[r] = "handle" /\ rpc[r] # "cd"
    /\ pc' = [pc EXCEPT ![r] = "ok"]
    /\ UNCHANGED <<user, now, rpc, read, goal, failed, applied, changed>>

\* Mutant of Enter: the access check is forgotten.
EnterAnywhere(d, p) == Len(d) < 2 => Len(p) = 1

\* Entering a college and a class takes one component; below a class the
\* argument may be a path.
Enter(d, p) ==
    /\ Len(d) < 2 => Len(p) = 1
    /\ d \o p \in Dirs

\* Where cd may lead from directory d.
Targets(d) == {Root}
              \cup (IF d = Root THEN {} ELSE {Parent(d)})
              \cup {d \o p : p \in {a \in DownArgs : Enter(d, a)}}

\* Mutant of NewTTL: the update does not set directoryTTL.
NoTTL == 0

NewTTL == now + SessionTTL

\* ChangeDirectory up to its UpdateItem: the target and the deadline are fixed
\* from the directory in the context.
ChangeDirectory(r) ==
    /\ pc[r] = "handle" /\ rpc[r] = "cd"
    /\ \E d \in Targets(read[r].dir) :
          goal' = [goal EXCEPT ![r] = [dir |-> d, ttl |-> NewTTL]]
    /\ pc' = [pc EXCEPT ![r] = "commit"]
    /\ UNCHANGED <<user, now, rpc, read, failed, applied, changed>>

\* errInvalidPath: ".." at the root or an argument that names nothing the user
\* may enter; errDB when the class cannot be read.
ChangeDirectoryFails(r) ==
    /\ pc[r] = "handle" /\ rpc[r] = "cd"
    /\ \/ /\ read[r].dir = Root \/ \E p \in DownArgs : ~Enter(read[r].dir, p)
          /\ pc' = [pc EXCEPT ![r] = "invalid"]
       \/ /\ Len(read[r].dir) >= 2
          /\ pc' = [pc EXCEPT ![r] = "error"]
    /\ UNCHANGED <<user, now, rpc, read, goal, failed, applied, changed>>

\* Mutants of Condition: no condition at all; no first disjunct.
AnyDirectory(d) == TRUE
PresentAndEqual(d) == user.has /\ user.dir = d

\* attribute_not_exists(currentDirectory) OR currentDirectory = :prev
Condition(d) == ~user.has \/ user.dir = d

\* The conditional update is applied.  Its reply may be lost: then the SDK
\* sends the same update again, or gives up and the caller sees an error.
SetCurrentDirectory(r) ==
    /\ pc[r] = "commit"
    /\ Condition(read[r].dir)
    /\ Store(r, [has |-> TRUE, dir |-> goal[r].dir, ttl |-> goal[r].ttl])
    /\ \/ pc' = [pc EXCEPT ![r] = "ok"] /\ UNCHANGED applied
       \/ pc' = [pc EXCEPT ![r] = "error"] /\ applied' = applied \cup {r}
       \/ UNCHANGED pc /\ applied' = applied \cup {r}
    /\ UNCHANGED <<now, rpc, read, goal, failed>>

\* ConditionalCheckFailedException becomes Aborted.
SetCurrentDirectoryAborts(r) ==
    /\ pc[r] = "commit"
    /\ ~Condition(read[r].dir)
    /\ pc' = [pc EXCEPT ![r] = "aborted"]
    /\ UNCHANGED <<user, now, rpc, read, goal, failed, applied, changed>>

\* The update never reached the table.
SetCurrentDirectoryFails(r) ==
    /\ pc[r] = "commit"
    /\ pc' = [pc EXCEPT ![r] = "error"]
    /\ UNCHANGED <<user, now, rpc, read, goal, failed, applied, changed>>

----------------------------------------------------------------------------

Tick ==
    /\ now < MaxTime
    /\ now' = now + 1
    /\ UNCHANGED <<user, pc, rpc, read, goal, failed, applied, changed>>

Next ==
    \/ Tick
    \/ \E r \in Requests :
          \/ Begin(r)
          \/ Live(r) \/ ExpiredAtRoot(r) \/ ExpiredInside(r)
          \/ RemoveSession(r) \/ RemoveFails(r)
          \/ Serve(r)
          \/ ChangeDirectory(r) \/ ChangeDirectoryFails(r)
          \/ SetCurrentDirectory(r)
          \/ SetCurrentDirectoryAborts(r) \/ SetCurrentDirectoryFails(r)

Spec == Init /\ [][Next]_vars

----------------------------------------------------------------------------
(* Properties *)

\* The type invariant.  It includes that the stored directory is the root or
\* one the user has access to, although the table is written from contexts
\* that may be stale.
TypeOK ==
    /\ user \in [has: BOOLEAN, dir: Dirs \cup {Root}, ttl: Nat]
    /\ now \in Nat
    /\ pc \in [Requests -> Resting \cup {"check", "remove", "handle", "commit"}]
    /\ rpc \in [Requests -> {"cd", "unary", "stream"}]
    /\ read \in [Requests -> Session]
    /\ goal \in [Requests -> Session]
    /\ failed \subseteq Requests
    /\ applied \subseteq Requests
    /\ changed \subseteq Requests

\* A directory below the root is never stored without a deadline, nor with one
\* later than a full lifetime from now: the interceptor will expire it.
NoImmortalSession ==
    user.dir # Root => user.ttl > 0 /\ user.ttl <= now + SessionTTL

\* Concurrent cds never combine into a jump: whenever one stored directory
\* replaces another, the new one is where a single cd leads from the old one.
StepwiseNavigation ==
    [][user.has /\ user'.has /\ user'.dir # user.dir
          => user'.dir \in Targets(user.dir)]_vars

\* A cd is Aborted only when another request moved the directory after this
\* one read it, or one of this request's own calls went wrong: the REMOVE of
\* the expired session failed, or its update was applied but the reply lost.
AbortsAreJustified ==
    \A r \in Requests : pc[r] = "aborted" => r \in changed \cup failed \cup applied

\* The REMOVE of an expired session has no condition.  A session that has not
\* expired is taken away only by a request that found an expired one and was
\* overtaken by another request's cd.
OnlyRacesEndLiveSessions ==
    [][user.has /\ user.dir # Root /\ now <= user.ttl /\ ~user'.has
          => \E r \in changed : pc[r] = "remove"]_vars
=============================================================================
