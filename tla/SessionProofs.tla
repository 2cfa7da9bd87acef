--------------------------- MODULE SessionProofs ---------------------------
(* Proofs, for every set of requests and directories and every lifetime,   *)
(* of the safety properties of Session.                                    *)
EXTENDS Session, TLAPS

----------------------------------------------------------------------------
(* Type correctness *)

\* Wherever cd leads from a directory the user may be in, the user may be.
LEMMA TargetsAreDirs ==
    ASSUME NEW d \in Dirs \cup {Root}
    PROVE  Targets(d) \subseteq Dirs \cup {Root}
  BY DirsAssumption DEF Targets, Enter

\* The types of all variables are kept by every step of Session.
LEMMA TypeStep == TypeOK /\ [Next]_vars => TypeOK'
<1> SUFFICES ASSUME TypeOK, [Next]_vars PROVE TypeOK'
  OBVIOUS
<1>0. NoSession \in Session /\ \A s \in Session : s.dir \in Dirs \cup {Root} /\ s.ttl \in Nat
  BY DEF NoSession, Session
<1> USE <1>0 DEF TypeOK, Resting
<1>1. CASE Tick
  BY <1>1 DEF Tick
<1>2. CASE UNCHANGED vars
  BY <1>2 DEF vars
<1>3. ASSUME NEW r \in Requests, Begin(r) PROVE TypeOK'
  <2>1. [dir |-> user.dir, ttl |-> user.ttl] \in Session
    BY DEF Session
  <2>2. read' \in [Requests -> Session] /\ goal' \in [Requests -> Session]
    BY <1>3, <2>1 DEF Begin
  <2>3. /\ pc' \in [Requests -> Resting \cup {"check", "remove", "handle", "commit"}]
        /\ rpc' \in [Requests -> {"cd", "unary", "stream"}]
    BY <1>3 DEF Begin
  <2>4. /\ UNCHANGED <<user, now>> /\ failed' \subseteq Requests
        /\ applied' \subseteq Requests /\ changed' \subseteq Requests
    BY <1>3 DEF Begin
  <2> QED
    BY <2>2, <2>3, <2>4
<1>4. ASSUME NEW r \in Requests, Live(r) \/ ExpiredAtRoot(r) \/ ExpiredInside(r)
      PROVE  TypeOK'
  BY <1>4 DEF Live, ExpiredAtRoot, ExpiredInside
<1>5. ASSUME NEW r \in Requests, RemoveSession(r) PROVE TypeOK'
  <2>1. changed' \subseteq Requests
    BY <1>5 DEF RemoveSession, Store, Others
  <2>2. user' \in [has: BOOLEAN, dir: Dirs \cup {Root}, ttl: Nat]
    BY <1>5 DEF RemoveSession, Store, Absent
  <2>3. read' \in [Requests -> Session]
    BY <1>5 DEF RemoveSession
  <2> QED
    BY <1>5, <2>1, <2>2, <2>3 DEF RemoveSession
<1>6. ASSUME NEW r \in Requests, RemoveFails(r) PROVE TypeOK'
  BY <1>6 DEF RemoveFails
<1>7. ASSUME NEW r \in Requests, Serve(r) PROVE TypeOK'
  BY <1>7 DEF Serve
<1>8. ASSUME NEW r \in Requests, ChangeDirectory(r) PROVE TypeOK'
  <2>1. PICK d \in Targets(read[r].dir) :
          goal' = [goal EXCEPT ![r] = [dir |-> d, ttl |-> NewTTL]]
    BY <1>8 DEF ChangeDirectory
  <2>2. d \in Dirs \cup {Root}
    BY TargetsAreDirs
  <2>3. NewTTL \in Nat
    BY TimeAssumption DEF NewTTL
  <2>4. goal' \in [Requests -> Session]
    BY <2>1, <2>2, <2>3 DEF Session
  <2> QED
    BY <1>8, <2>4 DEF ChangeDirectory
<1>9. ASSUME NEW r \in Requests, ChangeDirectoryFails(r) PROVE TypeOK'
  BY <1>9 DEF ChangeDirectoryFails
<1>10. ASSUME NEW r \in Requests, SetCurrentDirectory(r) PROVE TypeOK'
  BY <1>10 DEF SetCurrentDirectory, Store, Others
<1>11. ASSUME NEW r \in Requests,
              SetCurrentDirectoryAborts(r) \/ SetCurrentDirectoryFails(r)
       PROVE  TypeOK'
  BY <1>11 DEF SetCurrentDirectoryAborts, SetCurrentDirectoryFails
<1> QED
  BY <1>1, <1>2, <1>3, <1>4, <1>5, <1>6, <1>7, <1>8, <1>9, <1>10, <1>11 DEF Next

\* Every variable keeps its type; in particular the stored directory is always
\* one the user may be in, whatever stale contexts the cds ran with.
THEOREM TypeCorrect == Spec => []TypeOK
<1>1. Init => TypeOK
  BY DEF Init, TypeOK, Session, NoSession, Resting
<1> QED
  BY <1>1, TypeStep, PTL DEF Spec

----------------------------------------------------------------------------
(* Deadlines *)

\* A request about to write carries a deadline of at most one lifetime, and a
\* target one cd away from the directory in its context.
GoalIsSound ==
    \A r \in Requests : pc[r] = "commit" =>
        /\ goal[r].dir \in Targets(read[r].dir)
        /\ goal[r].ttl > 0
        /\ goal[r].ttl <= now + SessionTTL

\* GoalIsSound is inductive, given the types.
LEMMA GoalStep == TypeOK /\ GoalIsSound /\ [Next]_vars => GoalIsSound'
<1> SUFFICES ASSUME TypeOK, GoalIsSound, [Next]_vars,
                    NEW q \in Requests, pc'[q] = "commit"
             PROVE  /\ goal'[q].dir \in Targets(read'[q].dir)
                    /\ goal'[q].ttl > 0
                    /\ goal'[q].ttl <= now' + SessionTTL
  BY DEF GoalIsSound, Targets, Enter
<1> USE TimeAssumption DEF TypeOK, Session, Resting
<1>0. /\ goal[q].ttl \in Int /\ now \in Nat
      /\ pc[q] = "commit" => /\ goal[q].dir \in Targets(read[q].dir)
                             /\ goal[q].ttl > 0
                             /\ goal[q].ttl <= now + SessionTTL
  BY DEF GoalIsSound
<1>1. CASE Tick
  BY <1>0, <1>1 DEF Tick
<1>2. CASE UNCHANGED vars
  BY <1>0, <1>2 DEF vars
<1>3. ASSUME NEW r \in Requests, Begin(r)
      PROVE  pc[q] = "commit" /\ UNCHANGED <<goal[q], read[q], now>>
  BY <1>3 DEF Begin
<1>4. ASSUME NEW r \in Requests, Live(r) \/ ExpiredAtRoot(r) \/ ExpiredInside(r)
      PROVE  pc[q] = "commit" /\ UNCHANGED <<goal[q], read[q], now>>
  BY <1>4 DEF Live, ExpiredAtRoot, ExpiredInside
<1>5. ASSUME NEW r \in Requests, RemoveSession(r) \/ RemoveFails(r)
      PROVE  pc[q] = "commit" /\ UNCHANGED <<goal[q], read[q], now>>
  BY <1>5 DEF RemoveSession, RemoveFails
<1>6. ASSUME NEW r \in Requests, Serve(r) \/ ChangeDirectoryFails(r)
      PROVE  pc[q] = "commit" /\ UNCHANGED <<goal[q], read[q], now>>
  BY <1>6 DEF Serve, ChangeDirectoryFails
<1>7. ASSUME NEW r \in Requests,
             \/ SetCurrentDirectory(r)
             \/ SetCurrentDirectoryAborts(r)
             \/ SetCurrentDirectoryFails(r)
      PROVE  pc[q] = "commit" /\ UNCHANGED <<goal[q], read[q], now>>
  BY <1>7 DEF SetCurrentDirectory, SetCurrentDirectoryAborts, SetCurrentDirectoryFails
<1>8. ASSUME NEW r \in Requests, ChangeDirectory(r), q # r
      PROVE  pc[q] = "commit" /\ UNCHANGED <<goal[q], read[q], now>>
  BY <1>8 DEF ChangeDirectory
<1>9. ASSUME ChangeDirectory(q)
      PROVE  /\ goal'[q].dir \in Targets(read'[q].dir)
             /\ goal'[q].ttl > 0
             /\ goal'[q].ttl <= now' + SessionTTL
  <2>1. PICK d \in Targets(read[q].dir) :
          goal' = [goal EXCEPT ![q] = [dir |-> d, ttl |-> NewTTL]]
    BY <1>9 DEF ChangeDirectory
  <2> QED
    BY <1>9, <2>1 DEF ChangeDirectory, NewTTL
<1> QED
  BY <1>0, <1>1, <1>2, <1>3, <1>4, <1>5, <1>6, <1>7, <1>8, <1>9 DEF Next

\* The deadline in the table stays within one lifetime of the clock.
LEMMA DeadlineStep ==
    TypeOK /\ GoalIsSound /\ NoImmortalSession /\ [Next]_vars => NoImmortalSession'
<1> SUFFICES ASSUME TypeOK, GoalIsSound, NoImmortalSession, [Next]_vars
             PROVE  NoImmortalSession'
  OBVIOUS
<1> USE TimeAssumption DEF TypeOK, NoImmortalSession
<1>1. CASE UNCHANGED user
  <2>1. Tick \/ UNCHANGED now
    BY DEF Next, vars, Begin, Live, ExpiredAtRoot, ExpiredInside,
           RemoveSession, RemoveFails, Serve, ChangeDirectory,
           ChangeDirectoryFails, SetCurrentDirectory,
           SetCurrentDirectoryAborts, SetCurrentDirectoryFails
  <2>2. now' \in Nat /\ now' >= now
    BY <2>1 DEF Tick
  <2> QED
    BY <1>1, <2>2
<1>2. ASSUME NEW r \in Requests, RemoveSession(r) PROVE NoImmortalSession'
  BY <1>2 DEF RemoveSession, Store, Absent
<1>3. ASSUME NEW r \in Requests, SetCurrentDirectory(r) PROVE NoImmortalSession'
  <2>1. goal[r].ttl > 0 /\ goal[r].ttl <= now + SessionTTL
    BY <1>3 DEF SetCurrentDirectory, GoalIsSound
  <2> QED
    BY <1>3, <2>1 DEF SetCurrentDirectory, Store
<1>4. UNCHANGED user \/ \E r \in Requests : RemoveSession(r) \/ SetCurrentDirectory(r)
  BY DEF Next, vars, Tick, Begin, Live, ExpiredAtRoot, ExpiredInside, RemoveFails,
         Serve, ChangeDirectory, ChangeDirectoryFails,
         SetCurrentDirectoryAborts, SetCurrentDirectoryFails
<1> QED
  BY <1>1, <1>2, <1>3, <1>4

\* A request that is about to write holds a sound goal, in every state.
THEOREM GoalsAreSound == Spec => []GoalIsSound
<1>1. Init => GoalIsSound
  BY DEF Init, GoalIsSound
<1> QED
  BY <1>1, GoalStep, TypeCorrect, PTL DEF Spec

\* No session is ever stored without an end.
THEOREM SessionsEnd == Spec => []NoImmortalSession
<1>1. Init => NoImmortalSession
  BY DEF Init, NoImmortalSession
<1> QED
  BY <1>1, DeadlineStep, TypeCorrect, GoalsAreSound, PTL DEF Spec

----------------------------------------------------------------------------
(* Navigation *)

\* Every change of the stored directory is one cd away from the old directory.
THEOREM NavigationIsStepwise == Spec => StepwiseNavigation
<1> DEFINE Step == user.has /\ user'.has /\ user'.dir # user.dir
                      => user'.dir \in Targets(user.dir)
<1>1. TypeOK /\ GoalIsSound /\ [Next]_vars => [Step]_vars
  <2> SUFFICES ASSUME TypeOK, GoalIsSound, Next,
                      user.has, user'.has, user'.dir # user.dir
               PROVE  user'.dir \in Targets(user.dir)
    OBVIOUS
  <2>1. PICK r \in Requests : RemoveSession(r) \/ SetCurrentDirectory(r)
    BY DEF Next, Tick, Begin, Live, ExpiredAtRoot, ExpiredInside, RemoveFails,
           Serve, ChangeDirectory, ChangeDirectoryFails,
           SetCurrentDirectoryAborts, SetCurrentDirectoryFails
  <2>2. ~RemoveSession(r)
    BY DEF RemoveSession, Store, Absent
  <2>3. SetCurrentDirectory(r)
    BY <2>1, <2>2
  <2>4. user.dir = read[r].dir /\ user'.dir = goal[r].dir
    BY <2>3 DEF SetCurrentDirectory, Condition, Store
  <2> QED
    BY <2>3, <2>4 DEF SetCurrentDirectory, GoalIsSound
<1> QED
  BY <1>1, TypeCorrect, GoalsAreSound, PTL DEF Spec, StepwiseNavigation

----------------------------------------------------------------------------
(* Aborts *)

Excused(r) == r \in changed \cup failed \cup applied

\* Without an excuse, a request past its read holds the stored directory.
ContextIsCurrent ==
    \A r \in Requests :
        pc[r] \in {"check", "handle", "commit"} /\ ~Excused(r) => user.dir = read[r].dir

\* A step of one request that stores another directory excuses the others.
LEMMA StoreExcuses ==
    ASSUME TypeOK, NEW r \in Requests, NEW item, Store(r, item),
           NEW q \in Requests \ {r}, pc[q] \notin Resting
    PROVE  q \in changed' \/ user'.dir = user.dir
  BY DEF Store, Others

\* ContextIsCurrent and AbortsAreJustified are inductive together.
LEMMA AbortStep ==
    TypeOK /\ ContextIsCurrent /\ AbortsAreJustified /\ [Next]_vars
        => ContextIsCurrent' /\ AbortsAreJustified'
<1> SUFFICES ASSUME TypeOK, ContextIsCurrent, AbortsAreJustified, [Next]_vars,
                    NEW q \in Requests
             PROVE  /\ pc'[q] \in {"check", "handle", "commit"} /\ ~Excused(q)'
                          => user'.dir = read'[q].dir
                    /\ pc'[q] = "aborted" => Excused(q)'
  BY DEF ContextIsCurrent, AbortsAreJustified, Excused
<1> DEFINE Goal == /\ pc'[q] \in {"check", "handle", "commit"} /\ ~Excused(q)'
                          => user'.dir = read'[q].dir
                   /\ pc'[q] = "aborted" => Excused(q)'
<1>0. /\ pc[q] \in {"check", "handle", "commit"} /\ ~Excused(q)
             => user.dir = read[q].dir
      /\ pc[q] = "aborted" => Excused(q)
  BY DEF ContextIsCurrent, AbortsAreJustified, Excused
<1> USE DEF TypeOK, Session, Excused, Resting
<1>1. CASE Tick \/ UNCHANGED vars
  BY <1>0, <1>1 DEF Tick, vars
<1>2. ASSUME NEW r \in Requests, Begin(r) PROVE Goal
  BY <1>0, <1>2 DEF Begin
<1>3. ASSUME NEW r \in Requests, Live(r) \/ ExpiredAtRoot(r) \/ ExpiredInside(r)
      PROVE  Goal
  BY <1>0, <1>3 DEF Live, ExpiredAtRoot, ExpiredInside, NoSession
<1>4. ASSUME NEW r \in Requests, RemoveSession(r) PROVE Goal
  <2>1. CASE q = r
    BY <1>4, <2>1 DEF RemoveSession, Store, Absent, NoSession
  <2>2. CASE q # r
    <3>1. pc'[q] = pc[q] /\ read'[q] = read[q] /\ failed' = failed /\ applied' = applied
      BY <1>4, <2>2 DEF RemoveSession
    <3>2. changed \subseteq changed'
      BY <1>4 DEF RemoveSession, Store
    <3>3. pc[q] \notin Resting => q \in changed' \/ user'.dir = user.dir
      BY <1>4, <2>2, StoreExcuses DEF RemoveSession
    <3> QED
      BY <1>0, <3>1, <3>2, <3>3
  <2> QED
    BY <2>1, <2>2
<1>5. ASSUME NEW r \in Requests, RemoveFails(r) PROVE Goal
  BY <1>0, <1>5 DEF RemoveFails
<1>6. ASSUME NEW r \in Requests,
             Serve(r) \/ ChangeDirectory(r) \/ ChangeDirectoryFails(r)
      PROVE  Goal
  BY <1>0, <1>6 DEF Serve, ChangeDirectory, ChangeDirectoryFails
<1>7. ASSUME NEW r \in Requests, SetCurrentDirectory(r) PROVE Goal
  <2>1. CASE q = r
    BY <1>7, <2>1 DEF SetCurrentDirectory
  <2>2. CASE q # r
    <3>1. pc'[q] = pc[q] /\ read'[q] = read[q] /\ failed' = failed /\ applied \subseteq applied'
      BY <1>7, <2>2 DEF SetCurrentDirectory
    <3>2. changed \subseteq changed'
      BY <1>7 DEF SetCurrentDirectory, Store
    <3>3. pc[q] \notin Resting => q \in changed' \/ user'.dir = user.dir
      BY <1>7, <2>2, StoreExcuses DEF SetCurrentDirectory
    <3> QED
      BY <1>0, <3>1, <3>2, <3>3
  <2> QED
    BY <2>1, <2>2
<1>8. ASSUME NEW r \in Requests, SetCurrentDirectoryAborts(r) PROVE Goal
  BY <1>0, <1>8 DEF SetCurrentDirectoryAborts, Condition
<1>9. ASSUME NEW r \in Requests, SetCurrentDirectoryFails(r) PROVE Goal
  BY <1>0, <1>9 DEF SetCurrentDirectoryFails
<1> QED
  BY <1>1, <1>2, <1>3, <1>4, <1>5, <1>6, <1>7, <1>8, <1>9 DEF Next

\* Every Aborted answer has a cause other than the condition itself.
THEOREM AbortsHaveCauses == Spec => []AbortsAreJustified
<1>1. Init => ContextIsCurrent /\ AbortsAreJustified
  BY DEF Init, ContextIsCurrent, AbortsAreJustified
<1> QED
  BY <1>1, AbortStep, TypeCorrect, PTL DEF Spec

----------------------------------------------------------------------------
(* Sessions that are taken away *)

\* A sequence without its last element is another sequence.
LEMMA ProperPrefix ==
    ASSUME NEW S, NEW s \in Seq(S), s # <<>>
    PROVE  s # SubSeq(s, 1, Len(s) - 1)
  OBVIOUS

\* No cd leads from a directory below the root to that directory itself.
LEMMA TargetsMove ==
    ASSUME NEW d \in Dirs
    PROVE  d \notin Targets(d)
<1>1. d \in Seq(Names) /\ Len(d) > 0 /\ Len(d) \in Nat /\ d # Root
  BY DirsAssumption DEF Root
<1>2. d # Parent(d)
  BY <1>1, ProperPrefix DEF Parent, Root
<1>3. ASSUME NEW p \in DownArgs PROVE d # d \o p
  <2>1. p \in Seq(Names) /\ Len(p) > 0
    BY DirsAssumption DEF Root
  <2>2. Len(d \o p) = Len(d) + Len(p)
    BY <1>1, <2>1
  <2> QED
    BY <1>1, <2>1, <2>2
<1> QED
  BY <1>1, <1>2, <1>3 DEF Targets

\* A request that removes the session has found an expired one; and as long as
\* no other request has moved the directory, a session that is stored below the
\* root is the one it has read.
RemovalsAreDue ==
    /\ ~user.has => user.dir = Root
    /\ \A r \in Requests :
          /\ pc[r] = "remove" => Expired(read[r])
          /\ pc[r] \in {"check", "remove"} /\ r \notin changed /\ user.dir # Root
                => user.ttl = read[r].ttl

\* A step that stores the item, seen by a request which is not past its REMOVE.
LEMMA StoreKeepsDue ==
    ASSUME TypeOK, GoalIsSound, RemovalsAreDue, NEW r \in Requests, NEW q \in Requests,
           RemoveSession(r) \/ SetCurrentDirectory(r),
           pc'[q] \in {"check", "remove"}, q \notin changed', user'.dir # Root
    PROVE  user'.ttl = read'[q].ttl
<1> USE DEF TypeOK, Session
<1>1. SetCurrentDirectory(r)
  BY DEF RemoveSession, Store, Absent
<1>2. q # r /\ pc[q] = pc'[q] /\ read'[q] = read[q]
  BY <1>1 DEF SetCurrentDirectory
<1>3. user'.dir = user.dir
  BY <1>1, <1>2, StoreExcuses DEF SetCurrentDirectory, Resting
<1>4. /\ user'.dir = goal[r].dir
      /\ goal[r].dir \in Targets(read[r].dir)
      /\ read[r].dir = user.dir
  <2>1. user.has
    BY <1>3 DEF RemovalsAreDue
  <2> QED
    BY <1>1, <2>1 DEF SetCurrentDirectory, Store, Condition, GoalIsSound
<1>5. user.dir \in Targets(user.dir) /\ user.dir \in Dirs
  BY <1>3, <1>4
<1> QED
  BY <1>5, TargetsMove

\* RemovalsAreDue is inductive, given the types and sound goals.
LEMMA DueStep ==
    TypeOK /\ GoalIsSound /\ RemovalsAreDue /\ [Next]_vars => RemovalsAreDue'
<1> SUFFICES ASSUME TypeOK, GoalIsSound, RemovalsAreDue, [Next]_vars
             PROVE  RemovalsAreDue'
  OBVIOUS
<1>1. ~user'.has => user'.dir = Root
  <2>1. UNCHANGED user \/ \E r \in Requests : RemoveSession(r) \/ SetCurrentDirectory(r)
    BY DEF Next, vars, Tick, Begin, Live, ExpiredAtRoot, ExpiredInside, RemoveFails,
           Serve, ChangeDirectory, ChangeDirectoryFails,
           SetCurrentDirectoryAborts, SetCurrentDirectoryFails
  <2> QED
    BY <2>1 DEF RemovalsAreDue, RemoveSession, SetCurrentDirectory, Store, Absent
<1>2. SUFFICES ASSUME NEW q \in Requests
               PROVE  /\ pc'[q] = "remove" => Expired(read[q])'
                      /\ pc'[q] \in {"check", "remove"} /\ q \notin changed' /\ user'.dir # Root
                            => user'.ttl = read'[q].ttl
  BY <1>1 DEF RemovalsAreDue, Expired
<1> DEFINE Due == /\ pc'[q] = "remove" => Expired(read[q])'
                  /\ pc'[q] \in {"check", "remove"} /\ q \notin changed' /\ user'.dir # Root
                        => user'.ttl = read'[q].ttl
<1>0. /\ pc[q] = "remove" => Expired(read[q])
      /\ pc[q] \in {"check", "remove"} /\ q \notin changed /\ user.dir # Root
            => user.ttl = read[q].ttl
      /\ read[q].ttl \in Nat /\ now \in Nat
  BY DEF RemovalsAreDue, TypeOK, Session
<1>3. CASE Tick \/ UNCHANGED vars
  BY <1>0, <1>3 DEF Tick, vars, Expired
<1> USE DEF TypeOK, Expired
<1>4. ASSUME NEW r \in Requests, Begin(r) PROVE Due
  BY <1>0, <1>4 DEF Begin
<1>5. ASSUME NEW r \in Requests, Live(r) \/ ExpiredAtRoot(r) PROVE Due
  BY <1>0, <1>5 DEF Live, ExpiredAtRoot
<1>6. ASSUME NEW r \in Requests, ExpiredInside(r) PROVE Due
  BY <1>0, <1>6 DEF ExpiredInside
<1>7. ASSUME NEW r \in Requests, RemoveSession(r) \/ SetCurrentDirectory(r) PROVE Due
  <2>1. pc'[q] = "remove" => Expired(read[q])'
    BY <1>0, <1>7 DEF RemoveSession, SetCurrentDirectory
  <2> QED
    BY <1>7, <2>1, StoreKeepsDue
<1>8. ASSUME NEW r \in Requests,
             \/ RemoveFails(r) \/ Serve(r) \/ ChangeDirectory(r) \/ ChangeDirectoryFails(r)
             \/ SetCurrentDirectoryAborts(r) \/ SetCurrentDirectoryFails(r)
      PROVE  Due
  BY <1>0, <1>8 DEF RemoveFails, Serve, ChangeDirectory, ChangeDirectoryFails,
                    SetCurrentDirectoryAborts, SetCurrentDirectoryFails
<1> QED
  BY <1>3, <1>4, <1>5, <1>6, <1>7, <1>8 DEF Next

\* The unconditional REMOVE takes a session that has not expired only when the
\* request read an expired one and another request's cd came in between.
THEOREM OnlyOvertakenRequestsEndLiveSessions == Spec => OnlyRacesEndLiveSessions
<1> DEFINE Step == user.has /\ user.dir # Root /\ now <= user.ttl /\ ~user'.has
                      => \E r \in changed : pc[r] = "remove"
<1>1. TypeOK /\ RemovalsAreDue /\ [Next]_vars => [Step]_vars
  <2> SUFFICES ASSUME TypeOK, RemovalsAreDue, Next,
                      user.has, user.dir # Root, now <= user.ttl, ~user'.has
               PROVE  \E r \in changed : pc[r] = "remove"
    OBVIOUS
  <2>1. PICK r \in Requests : RemoveSession(r) \/ SetCurrentDirectory(r)
    BY DEF Next, Tick, Begin, Live, ExpiredAtRoot, ExpiredInside, RemoveFails,
           Serve, ChangeDirectory, ChangeDirectoryFails,
           SetCurrentDirectoryAborts, SetCurrentDirectoryFails
  <2>2. pc[r] = "remove"
    BY <2>1 DEF RemoveSession, SetCurrentDirectory, Store
  <2>3. r \in changed
    BY <2>2 DEF RemovalsAreDue, Expired, TypeOK, Session
  <2> QED
    BY <2>2, <2>3
<1>2. Init => RemovalsAreDue
  BY DEF Init, RemovalsAreDue
<1> QED
  BY <1>1, <1>2, DueStep, TypeCorrect, GoalsAreSound, PTL DEF Spec, OnlyRacesEndLiveSessions
=============================================================================
