-------------------------- MODULE NamespaceProofs --------------------------
(***************************************************************************)
(* Theorems about the rows of a class's folders, for any folders, entries, *)
(* pages, jobs and number of concurrent requests: renames of folders lose  *)
(* no row but those the model names as exposed, and removals stay inside   *)
(* their folder.                                                           *)
(***************************************************************************)
EXTENDS Namespace, WellFoundedInduction, TLAPS

----------------------------------------------------------------------------
(* The next item of a request *)

\* A non-empty set of numbers has a least member.
LEMMA LeastMember ==
    ASSUME NEW T \in SUBSET Nat, T # {}
    PROVE  \E x \in T : \A y \in T : x <= y
<1> DEFINE Less == {ss \in Nat \X Nat : ss[1] < ss[2]}
<1>1. IsWellFoundedOn(Less, Nat)
  BY NatLessThanWellFounded DEF OpToRel
<1>2. \A x, y \in Nat : y < x => <<y, x>> \in Less
  OBVIOUS
<1> HIDE DEF Less
<1>3. PICK x \in T : \A y \in T : ~ (<<y, x>> \in Less)
  BY <1>1, WFMin
<1>4. ASSUME NEW y \in T PROVE x <= y
  <2>1. x \in Nat /\ y \in Nat /\ ~ (<<y, x>> \in Less)
    BY <1>3
  <2>2. ~ (y < x)
    BY <2>1, <1>2
  <2> QED
    BY <2>1, <2>2
<1> QED
  BY <1>4

Items == [Keys -> Rows \cup {None}]

\* The first key of some items.
FirstOf(items) ==
    LET Left == {i \in 1 .. Len(Order) : items[Order[i]] # None}
    IN  Order[CHOOSE i \in Left : \A n \in Left : i <= n]

\* It is what a request handles next.
LEMMA CurrentIsFirst == \A r : Current(r) = FirstOf(found[r])
BY DEF Current, FirstOf

\* As long as there are items, the first one exists.
LEMMA FirstExists ==
    ASSUME NEW items \in Items, items # Nothing
    PROVE  FirstOf(items) \in Keys /\ items[FirstOf(items)] # None
<1> DEFINE Left == {i \in 1 .. Len(Order) : items[Order[i]] # None}
<1>1. PICK k \in Keys : items[k] # None
  BY DEF Items, Nothing
<1>2. PICK i \in 1 .. Len(Order) : Order[i] = k
  BY NamespaceAssumption
<1>3. Left \in SUBSET Nat /\ Left # {}
  BY <1>1, <1>2
<1>4. \A m \in Left : Order[m] \in Keys /\ items[Order[m]] # None
  BY NamespaceAssumption
<1> HIDE DEF Left
<1>5. \E m \in Left : \A n \in Left : m <= n
  BY <1>3, LeastMember
<1>6. (CHOOSE m \in Left : \A n \in Left : m <= n) \in Left
  BY <1>5
<1>7. FirstOf(items) = Order[CHOOSE m \in Left : \A n \in Left : m <= n]
  BY DEF FirstOf, Left
<1> QED
  BY <1>4, <1>6, <1>7

----------------------------------------------------------------------------
(* The inductive invariant *)

\* Only a request in flight remembers what it has read.
Resting == \A r \in Requests : pc[r] \notin InFlight => found[r] = Nothing

\* A query finds only keys that match.
Inside == \A r \in Requests : \A k \in Keys : found[r][k] # None => Matches(job[r], k)

\* Only renames put rows they have read.
Putting == \A r \in Requests : pc[r] = "put" => Renames(job[r])

\* What a rename has read and not yet handled is still there, or gone, or what
\* is there instead is exposed.
Known ==
    \A r \in Requests : Renames(job[r]) =>
       \A k \in Keys : found[r][k] # None => rows[k] \in {None, found[r][k]} \cup exposed

\* A rename is about to delete the row at this key.
Doomed(k) ==
    \E r \in Requests : Renames(job[r]) /\ pc[r] = "drop" /\ FirstOf(found[r]) = k

\* A row that is to survive is at a key where no rename is about to delete it.
Kept ==
    \A row \in born \ (replaced \cup exposed) : \E k \in Keys : rows[k] = row /\ ~Doomed(k)

Inv == TypeOK /\ Resting /\ Inside /\ Putting /\ Known /\ Kept

----------------------------------------------------------------------------
(* How a step moves its own request, and no other *)

Steps == {"new"} \cup InFlight \cup Finished

\* The request goes to one of the steps and forgets some of its items.
Moves(r, steps) ==
    /\ pc' \in [Requests -> Steps] /\ upto' \in [Requests -> 0 .. Len(Order)]
    /\ found' \in [Requests -> Items]
    /\ \A q \in Requests : q # r => pc'[q] = pc[q] /\ found'[q] = found[q]
    /\ \A k \in Keys : found'[r][k] \in {None, found[r][k]}
    /\ pc'[r] \in steps
    /\ pc'[r] \notin InFlight => found'[r] = Nothing
    /\ pc'[r] \in {"put", "drop"} => found'[r] # Nothing
    /\ pc'[r] = "put" => Renames(job[r])

\* Nothing has no items.
LEMMA NothingHasNone == Nothing \in Items /\ \A k \in Keys : Nothing[k] = None
BY DEF Nothing, Items

\* A request ends.
LEMMA Ending ==
    ASSUME TypeOK, NEW r \in Requests, NEW answer \in Finished, Finish(r, answer)
    PROVE  Moves(r, {answer})
BY NothingHasNone, NamespaceAssumption
DEF TypeOK, Finish, Goto, Moves, Steps, InFlight, Finished, Items

\* It goes on with its items, or has none left.
LEMMA Continuing ==
    ASSUME TypeOK, NEW r \in Requests, NEW first \in {"put", "drop"}, NextItem(r, first),
           found[r] # Nothing, first = "put" => Renames(job[r])
    PROVE  Moves(r, {"ok", first})
<1> DEFINE items == [found[r] EXCEPT ![Current(r)] = None]
<1>1. items \in Items /\ \A k \in Keys : items[k] \in {None, found[r][k]}
  BY DEF TypeOK, Items
<1>2. CASE items = Nothing
  <2>1. Finish(r, "ok")
    BY <1>2 DEF NextItem
  <2>2. Moves(r, {"ok"})
    BY <2>1, Ending DEF Finished
  <2> QED
    BY <2>2 DEF Moves
<1>3. CASE items # Nothing
  <2>1. Goto(r, first) /\ found' = [found EXCEPT ![r] = items] /\ UNCHANGED upto
    BY <1>3 DEF NextItem
  <2> HIDE DEF items
  <2> QED
    BY <1>1, <1>3, <2>1 DEF TypeOK, Goto, Moves, Steps, InFlight, Finished, Items
<1> QED
  BY <1>2, <1>3

\* It stays where it is, and its call will be sent again.
LEMMA Resending ==
    ASSUME TypeOK, Resting, Putting, NEW r \in Requests, UNCHANGED <<pc, upto, found>>
    PROVE  Moves(r, {pc[r]})
BY DEF TypeOK, Resting, Putting, Moves, Steps, Items

\* It goes to another step with the same items.
LEMMA Going ==
    ASSUME TypeOK, NEW r \in Requests, NEW next \in Steps, Goto(r, next),
           UNCHANGED <<upto, found>>,
           next \notin InFlight => found[r] = Nothing,
           next \in {"put", "drop"} => found[r] # Nothing,
           next = "put" => Renames(job[r])
    PROVE  Moves(r, {next})
BY DEF TypeOK, Goto, Moves, Items, Steps

\* What moves like this keeps the requests' own part of the invariant.
LEMMA OwnPart ==
    ASSUME TypeOK, Resting, Inside, Putting, NEW r \in Requests, NEW steps, Moves(r, steps),
           UNCHANGED job
    PROVE  /\ Resting' /\ Inside' /\ Putting'
           /\ \A q \in Requests : pc'[q] \in {"put", "drop"} => found'[q] # Nothing
BY DEF TypeOK, Resting, Inside, Putting, Moves

\* A step that puts nothing leaves the rows of the others known.
LEMMA KnownWithout ==
    ASSUME TypeOK, Known, NEW r \in Requests, NEW steps, Moves(r, steps), UNCHANGED job,
           exposed \subseteq exposed', \A k \in Keys : rows'[k] \in {None, rows[k]}
    PROVE  Known'
BY DEF TypeOK, Known, Moves

\* A row put where a rename has read something is exposed.
LEMMA KnownWithPut ==
    ASSUME TypeOK, Resting, Known, NEW r \in Requests, NEW steps, Moves(r, steps), UNCHANGED job,
           NEW k0 \in Keys, NEW row, Put(k0, row)
    PROVE  Known'
<1>1. ASSUME NEW q \in Requests, Renames(job[q]), NEW k \in Keys, found'[q][k] # None
      PROVE  rows'[k] \in {None, found'[q][k]} \cup exposed'
  <2>1. found[q][k] # None /\ found'[q][k] = found[q][k]
    BY <1>1 DEF Moves
  <2>2. rows[k] \in {None, found[q][k]} \cup exposed /\ exposed \subseteq exposed'
    BY <1>1, <2>1 DEF Known, Put
  <2>3. CASE k = k0
    <3>1. pc[q] \in InFlight
      BY <2>1, NothingHasNone DEF Resting
    <3>2. AboutToDrop(k0)
      BY <1>1, <2>1, <2>3, <3>1 DEF AboutToDrop
    <3>3. row \in exposed' /\ rows'[k] = row
      BY <2>3, <3>2 DEF Put, TypeOK
    <3> QED
      BY <3>3
  <2>4. CASE k # k0
    <3>1. rows'[k] = rows[k]
      BY <2>4 DEF Put, TypeOK
    <3> QED
      BY <2>1, <2>2, <3>1
  <2> QED
    BY <2>3, <2>4
<1> QED
  BY <1>1 DEF Known

\* Nothing is doomed anew by a request that does not come to delete.
LEMMA NotDoomedAnew ==
    ASSUME NEW r \in Requests, NEW steps, Moves(r, steps), UNCHANGED job,
           pc'[r] = "drop" /\ Renames(job[r]) => pc[r] = "drop" /\ found'[r] = found[r]
    PROVE  \A k \in Keys : Doomed(k)' => Doomed(k)
BY DEF Doomed, Moves

\* Rows are lost only where they are doomed.
LEMMA KeptWithout ==
    ASSUME Kept, \A k \in Keys : Doomed(k)' => Doomed(k),
           born' = born, replaced \subseteq replaced', exposed \subseteq exposed',
           \A k \in Keys : rows'[k] = rows[k] \/ rows[k] \in replaced' \/ Doomed(k)
    PROVE  Kept'
BY DEF Kept

\* A row that was put is at its key, and what it replaced is accounted for.
LEMMA KeptWithPut ==
    ASSUME TypeOK, Kept, NEW k0 \in Keys, NEW row \in Rows, Put(k0, row),
           \A k \in Keys : Doomed(k)' =>
              Doomed(k) \/ (AboutToDrop(k) /\ rows[k] \in {None, row} \cup exposed)
    PROVE  Kept'
<1>1. Doomed(k0) => AboutToDrop(k0)
  <2>1. ASSUME NEW q \in Requests, pc[q] = "drop" PROVE found[q][FirstOf(found[q])] # None
    BY <2>1, FirstExists DEF TypeOK, Items
  <2> QED
    BY <2>1 DEF Doomed, AboutToDrop, InFlight
<1>2. rows'[k0] = row /\ \A k \in Keys : k # k0 => rows'[k] = rows[k]
  BY DEF Put, TypeOK
<1>3. row \notin exposed' => ~AboutToDrop(k0)
  BY DEF Put
<1>4. /\ born' = born \cup {row} /\ replaced \subseteq replaced' /\ exposed \subseteq exposed'
      /\ rows[k0] \in replaced' \cup {None, row}
  BY DEF Put
<1>5. None \notin born
  BY NamespaceAssumption DEF TypeOK
<1>6. ASSUME NEW x \in born' \ (replaced' \cup exposed')
      PROVE  \E k \in Keys : rows'[k] = x /\ ~(Doomed(k)')
  <2>1. CASE x = row
    BY <1>1, <1>2, <1>3, <1>6, <2>1
  <2>2. CASE x # row
    <3>1. PICK k \in Keys : rows[k] = x /\ ~Doomed(k)
      BY <1>4, <1>6, <2>2 DEF Kept
    <3>2. k # k0
      BY <1>4, <1>5, <1>6, <2>2, <3>1
    <3>3. ~(Doomed(k)')
      BY <1>4, <1>5, <1>6, <2>2, <3>1
    <3> QED
      BY <1>2, <3>1, <3>2, <3>3
  <2> QED
    BY <2>1, <2>2
<1> QED
  BY <1>6 DEF Kept

----------------------------------------------------------------------------
(* The steps, by what they do to the rows *)

\* The request comes to delete nothing it was not deleting already.
NoNewDrop(r) == pc'[r] = "drop" /\ Renames(job[r]) => pc[r] = "drop" /\ found'[r] = found[r]

\* A step that leaves the rows alone.
LEMMA QuietStep ==
    ASSUME Inv, NEW r \in Requests, NEW steps, Moves(r, steps), NoNewDrop(r),
           UNCHANGED <<rows, replica, job, resent, born, replaced, exposed>>
    PROVE  Inv'
<1>1. /\ Resting' /\ Inside' /\ Putting'
      /\ \A q \in Requests : pc'[q] \in {"put", "drop"} => found'[q] # Nothing
  BY OwnPart DEF Inv
<1>2. TypeOK'
  BY <1>1 DEF Inv, TypeOK, Moves, Steps, Items
<1>3. Known'
  BY KnownWithout DEF Inv
<1>4. Kept'
  BY NotDoomedAnew, KeptWithout DEF Inv, NoNewDrop
<1> QED
  BY <1>1, <1>2, <1>3, <1>4 DEF Inv

\* A step that puts a row.
LEMMA PuttingStep ==
    ASSUME Inv, NEW r \in Requests, NEW steps, Moves(r, steps),
           NEW k0 \in Keys, NEW row \in Rows, Put(k0, row),
           UNCHANGED <<replica, job>>, resent' \subseteq Requests,
           \A k \in Keys : Doomed(k)' =>
              Doomed(k) \/ (AboutToDrop(k) /\ rows[k] \in {None, row} \cup exposed)
    PROVE  Inv'
<1>1. /\ Resting' /\ Inside' /\ Putting'
      /\ \A q \in Requests : pc'[q] \in {"put", "drop"} => found'[q] # Nothing
  BY OwnPart DEF Inv
<1>2. /\ rows' \in [Keys -> Rows \cup {None}] /\ born' \subseteq Rows
      /\ replaced' \subseteq Rows /\ exposed' \subseteq Rows
  BY DEF Inv, TypeOK, Put
<1>3. TypeOK'
  BY <1>1, <1>2 DEF Inv, TypeOK, Moves, Steps, Items
<1>4. Known'
  BY KnownWithPut DEF Inv
<1>5. Kept'
  BY KeptWithPut DEF Inv
<1> QED
  BY <1>1, <1>3, <1>4, <1>5 DEF Inv

\* A step that deletes the row at a key.
LEMMA DroppingStep ==
    ASSUME Inv, NEW r \in Requests, NEW steps, Moves(r, steps), NoNewDrop(r),
           NEW c \in Keys, rows' = [rows EXCEPT ![c] = None],
           UNCHANGED <<replica, job, born, exposed>>, resent' \subseteq Requests,
           replaced' \in {replaced, replaced \cup ({rows[c]} \ {None})},
           Doomed(c) \/ rows[c] \in replaced' \cup {None}
    PROVE  Inv'
<1>1. /\ Resting' /\ Inside' /\ Putting'
      /\ \A q \in Requests : pc'[q] \in {"put", "drop"} => found'[q] # Nothing
  BY OwnPart DEF Inv
<1>2. /\ rows' \in [Keys -> Rows \cup {None}] /\ replaced' \subseteq Rows
      /\ \A k \in Keys : rows'[k] = IF k = c THEN None ELSE rows[k]
  BY DEF Inv, TypeOK
<1>3. TypeOK'
  BY <1>1, <1>2 DEF Inv, TypeOK, Moves, Steps, Items
<1>4. Known'
  <2>1. \A k \in Keys : rows'[k] \in {None, rows[k]}
    BY <1>2
  <2> QED
    BY <2>1, KnownWithout DEF Inv
<1>5. Kept'
  <2>1. \A k \in Keys : Doomed(k)' => Doomed(k)
    BY NotDoomedAnew DEF NoNewDrop
  <2>2. \A k \in Keys : rows'[k] = rows[k] \/ rows[k] \in replaced' \/ Doomed(k)
    BY <1>2
  <2> QED
    BY <2>1, <2>2, KeptWithout DEF Inv
<1> QED
  BY <1>1, <1>3, <1>4, <1>5 DEF Inv

----------------------------------------------------------------------------
(* The actions *)

\* What a request about to put or to delete handles next.
LEMMA AtItem ==
    ASSUME Inv, NEW r \in Requests, pc[r] \in {"put", "drop"}
    PROVE  /\ found[r] \in Items /\ found[r] # Nothing
           /\ Current(r) \in Keys /\ Current(r) = FirstOf(found[r])
           /\ found[r][Current(r)] \in Rows
           /\ Matches(job[r], Current(r))
<1>1. found[r] \in Items /\ found[r] # Nothing
  BY DEF Inv, TypeOK, Items
<1>2. Current(r) = FirstOf(found[r]) /\ Current(r) \in Keys /\ found[r][Current(r)] # None
  BY <1>1, CurrentIsFirst, FirstExists
<1> QED
  BY <1>1, <1>2 DEF Inv, Inside, Items

\* MakeDirectory, and the end of an Upload.
LEMMA PutRowStep == ASSUME Inv, NEW r \in Requests, PutRow(r) PROVE Inv'
<1> DEFINE k0 == [folder |-> job[r].name, rest |-> job[r].rest]
<1>1. k0 \in Keys /\ r \in Rows /\ UNCHANGED <<replica, job>> /\ Put(k0, r) /\ ~Renames(job[r])
  <2>1. job[r] \in Jobs /\ job[r].kind = "put" /\ UNCHANGED <<replica, job>> /\ Put(k0, r)
    BY DEF PutRow, Inv, TypeOK
  <2>2. job[r].name \in Names /\ job[r].rest \in Entries \cup {Self}
    <3>1. job[r] \in
             [kind: {"put"}, name: Names, rest: Entries \cup {Self}, slash: {TRUE}, to: Names]
             \cup [kind: {"rename", "delete"}, name: Names, rest: {Self}, slash: BOOLEAN, to: Names]
      BY <2>1, NamespaceAssumption
    <3> QED
      BY <3>1
  <2> QED
    BY <2>1, <2>2 DEF Keys, Rows, Renames
<1> HIDE DEF k0
<1>2. CASE \E answer \in Finished : Finish(r, answer) /\ UNCHANGED resent
  <2>1. PICK answer \in Finished : Finish(r, answer) /\ UNCHANGED resent
    BY <1>2
  <2>2. Moves(r, {answer})
    BY <2>1, Ending DEF Inv
  <2>3. \A k \in Keys : Doomed(k)' => Doomed(k)
    BY <1>1, <2>2, NotDoomedAnew
  <2>4. resent' \subseteq Requests
    BY <2>1 DEF Inv, TypeOK
  <2> QED
    BY <1>1, <2>2, <2>3, <2>4, PuttingStep
<1>3. CASE Resend(r)
  <2>1. Moves(r, {pc[r]})
    BY <1>3, Resending DEF Inv, Resend
  <2>2. \A k \in Keys : Doomed(k)' => Doomed(k)
    BY <1>1, <2>1, NotDoomedAnew
  <2>3. resent' \subseteq Requests
    BY <1>3 DEF Inv, TypeOK, Resend
  <2> QED
    BY <1>1, <2>1, <2>2, <2>3, PuttingStep
<1> QED
  BY <1>2, <1>3 DEF PutRow, Finished

\* The beginnings, the failures and the end of a request, which leave the rows.
LEMMA QuietSteps ==
    ASSUME Inv, NEW r \in Requests,
           \/ StartRename(r) \/ StartDelete(r) \/ PutFails(r) \/ DropFails(r) \/ EndsInError(r)
    PROVE  Inv'
<1>1. CASE StartRename(r) \/ StartDelete(r)
  <2>1. PICK next \in {"page", "notfound"} :
           /\ Goto(r, next) /\ pc[r] = "new"
           /\ UNCHANGED <<rows, replica, job, upto, found, resent, born, replaced, exposed>>
    BY <1>1 DEF StartRename, StartDelete
  <2>2. found[r] = Nothing
    BY <2>1 DEF Inv, Resting, InFlight
  <2>3. Moves(r, {next})
    BY <2>1, <2>2, Going DEF Inv, Steps, InFlight, Finished
  <2>4. NoNewDrop(r)
    BY <2>3 DEF NoNewDrop, Moves
  <2> QED
    BY <2>1, <2>3, <2>4, QuietStep
<1>2. CASE PutFails(r) \/ DropFails(r)
  <2>1. /\ pc[r] \in {"put", "drop"} /\ NextItem(r, "put")
        /\ UNCHANGED <<rows, replica, job, resent, born, replaced, exposed>>
    BY <1>2 DEF PutFails, DropFails
  <2>2. Moves(r, {"ok", "put"})
    <3>1. Renames(job[r])
      BY <1>2 DEF PutFails, DropFails, Inv, Putting
    <3> QED
      BY <2>1, <3>1, AtItem, Continuing DEF Inv
  <2>3. NoNewDrop(r)
    BY <2>2 DEF NoNewDrop, Moves
  <2> QED
    BY <2>1, <2>2, <2>3, QuietStep
<1>3. CASE EndsInError(r)
  <2>1. Moves(r, {"error"})
    BY <1>3, Ending DEF Inv, EndsInError, Finished
  <2>2. NoNewDrop(r)
    BY <2>1 DEF NoNewDrop, Moves
  <2> QED
    BY <1>3, <2>1, <2>2, QuietStep DEF EndsInError
<1> QED
  BY <1>1, <1>2, <1>3

\* A rename puts a row under the new name; its old key is doomed from then on.
LEMMA PutNewStep == ASSUME Inv, NEW r \in Requests, PutNew(r) PROVE Inv'
<1> DEFINE c == Current(r)
           row == found[r][c]
           k0 == Moved(job[r], c)
<1>1. pc[r] = "put" /\ Put(k0, row) /\ UNCHANGED <<replica, job>>
  BY DEF PutNew
<1>2. c \in Keys /\ c = FirstOf(found[r]) /\ row \in Rows /\ Matches(job[r], c) /\ found[r] # Nothing
  BY <1>1, AtItem
<1>3. Renames(job[r]) /\ k0 \in Keys
  BY <1>1, <1>2, NamespaceAssumption DEF Inv, TypeOK, Putting
<1>4. AboutToDrop(c) /\ rows[c] \in {None, row} \cup exposed
  BY <1>1, <1>2, <1>3, NamespaceAssumption DEF AboutToDrop, InFlight, Inv, Known, Rows
<1>5. row # None
  BY <1>2, NamespaceAssumption
<1> HIDE DEF row, k0
<1>6. CASE Goto(r, "drop") /\ UNCHANGED <<upto, found, resent>>
  <2>1. Moves(r, {"drop"})
    BY <1>2, <1>6, Going DEF Inv, Steps, InFlight
  <2>2. \A k \in Keys : Doomed(k)' => Doomed(k) \/ k = c
    BY <1>1, <1>2, <1>6, <2>1 DEF Doomed, Moves
  <2>3. \A k \in Keys : Doomed(k)' =>
           Doomed(k) \/ (AboutToDrop(k) /\ rows[k] \in {None, row} \cup exposed)
    BY <1>4, <2>2
  <2>4. resent' \subseteq Requests
    BY <1>6 DEF Inv, TypeOK
  <2> HIDE DEF c
  <2> QED
    BY <1>1, <1>2, <1>3, <2>1, <2>3, <2>4, PuttingStep
<1>7. CASE NextItem(r, "put") /\ UNCHANGED resent
  <2>1. Moves(r, {"ok", "put"})
    BY <1>2, <1>3, <1>7, Continuing DEF Inv
  <2>2. \A k \in Keys : Doomed(k)' => Doomed(k)
    BY <1>1, <2>1, NotDoomedAnew DEF Moves
  <2>3. resent' \subseteq Requests
    BY <1>7 DEF Inv, TypeOK
  <2> HIDE DEF c
  <2> QED
    BY <1>1, <1>2, <1>3, <2>1, <2>2, <2>3, PuttingStep
<1>8. CASE Resend(r)
  <2>1. Moves(r, {pc[r]})
    BY <1>8, Resending DEF Inv, Resend
  <2>2. \A k \in Keys : Doomed(k)' => Doomed(k)
    BY <1>1, <1>8, <2>1, NotDoomedAnew DEF Resend
  <2>3. resent' \subseteq Requests
    BY <1>8 DEF Inv, TypeOK, Resend
  <2> HIDE DEF c
  <2> QED
    BY <1>1, <1>2, <1>3, <2>1, <2>2, <2>3, PuttingStep
<1> QED
  BY <1>6, <1>7, <1>8 DEF PutNew

\* What follows the delete of a row: the next item, or the call once more.
LEMMA AfterDrop ==
    ASSUME Inv, NEW r \in Requests, pc[r] = "drop",
           NEW first \in {"put", "drop"}, first = "put" <=> Renames(job[r]),
           \/ NextItem(r, first) /\ UNCHANGED resent
           \/ Finish(r, "error") /\ UNCHANGED resent
           \/ Resend(r)
    PROVE  (\E steps : Moves(r, steps)) /\ NoNewDrop(r) /\ resent' \subseteq Requests
<1>1. CASE NextItem(r, first) /\ UNCHANGED resent
  <2>1. Moves(r, {"ok", first})
    BY <1>1, AtItem, Continuing DEF Inv
  <2> QED
    BY <1>1, <2>1 DEF NoNewDrop, Moves, Inv, TypeOK
<1>2. CASE Finish(r, "error") /\ UNCHANGED resent
  <2>1. Moves(r, {"error"})
    BY <1>2, Ending DEF Inv, Finished
  <2> QED
    BY <1>2, <2>1 DEF NoNewDrop, Moves, Inv, TypeOK
<1>3. CASE Resend(r)
  <2>1. Moves(r, {pc[r]})
    BY <1>3, Resending DEF Inv, Resend
  <2> QED
    BY <1>3, <2>1 DEF NoNewDrop, Resend, Inv, TypeOK
<1> QED
  BY <1>1, <1>2, <1>3

\* A rename deletes at a doomed key.
LEMMA DropOldStep == ASSUME Inv, NEW r \in Requests, DropOld(r) PROVE Inv'
<1> DEFINE c == Current(r)
<1>1. /\ pc[r] = "drop" /\ Renames(job[r]) /\ rows' = [rows EXCEPT ![c] = None]
      /\ UNCHANGED <<replica, job, born, replaced, exposed>>
  BY DEF DropOld
<1>2. c \in Keys /\ c = FirstOf(found[r])
  BY <1>1, AtItem
<1>3. Doomed(c)
  BY <1>1, <1>2 DEF Doomed
<1>4. PICK steps : Moves(r, steps) /\ NoNewDrop(r) /\ resent' \subseteq Requests
  BY <1>1, AfterDrop DEF DropOld
<1> HIDE DEF c
<1> QED
  BY <1>1, <1>2, <1>3, <1>4, DroppingStep

\* A delete accounts for the row it deletes.
LEMMA DropRowStep == ASSUME Inv, NEW r \in Requests, DropRow(r) PROVE Inv'
<1> DEFINE c == Current(r)
<1>1. /\ pc[r] = "drop" /\ ~Renames(job[r]) /\ rows' = [rows EXCEPT ![c] = None]
      /\ replaced' = replaced \cup ({rows[c]} \ {None})
      /\ UNCHANGED <<replica, job, born, exposed>>
  BY DEF DropRow, Renames
<1>2. c \in Keys
  BY <1>1, AtItem
<1>3. PICK steps : Moves(r, steps) /\ NoNewDrop(r) /\ resent' \subseteq Requests
  BY <1>1, AfterDrop DEF DropRow
<1> HIDE DEF c
<1>4. rows[c] \in replaced' \cup {None}
  BY <1>1
<1> QED
  BY <1>1, <1>2, <1>3, <1>4, DroppingStep

\* A page of a query.
LEMMA ReadPageStep == ASSUME Inv, NEW r \in Requests, ReadPage(r) PROVE Inv'
<1>1. PICK n \in {e \in PageEnds : upto[r] < e}, view \in Views :
         LET new == {k \in Page(r, n) : Matches(job[r], k)}
             items == [k \in Keys |-> IF k \in new THEN view[k] ELSE found[r][k]]
         IN  /\ found' = [found EXCEPT ![r] = items]
             /\ upto' = [upto EXCEPT ![r] = IF n = Len(Order) THEN 0 ELSE n]
             /\ Goto(r, IF n = Len(Order) THEN AfterQuery(r, items) ELSE "page")
             /\ exposed' =
                   IF Renames(job[r])
                   THEN exposed \cup ({rows[k] : k \in {k \in new : view[k] \notin {None, rows[k]}}} \ {None})
                   ELSE exposed
  BY DEF ReadPage
<1> DEFINE new == {k \in Page(r, n) : Matches(job[r], k)}
           items == [k \in Keys |-> IF k \in new THEN view[k] ELSE found[r][k]]
           next == IF n = Len(Order) THEN AfterQuery(r, items) ELSE "page"
<1>2. pc[r] = "page" /\ UNCHANGED <<rows, replica, job, resent, born, replaced>>
  BY DEF ReadPage
<1>3. n \in 1 .. Len(Order) /\ Len(Order) \in Nat /\ view \in Items
  <2>1. n \in 1 .. Len(Order) /\ Len(Order) \in Nat
    BY NamespaceAssumption
  <2>2. view \in {rows, replica}
    BY DEF Views
  <2> QED
    BY <2>1, <2>2 DEF Inv, TypeOK, Items
<1>4. new \subseteq Keys /\ \A k \in new : Matches(job[r], k)
  <2>1. upto[r] \in Nat
    BY DEF Inv, TypeOK
  <2>2. \A i \in upto[r] + 1 .. n : i \in 1 .. Len(Order)
    BY <1>3, <2>1
  <2>3. \A i \in 1 .. Len(Order) : Order[i] \in Keys
    BY NamespaceAssumption
  <2> QED
    BY <2>2, <2>3 DEF Page
<1>5. /\ items \in Items
      /\ \A k \in Keys : items[k] = IF k \in new THEN view[k] ELSE found[r][k]
  BY <1>3 DEF Inv, TypeOK, Items
<1> HIDE DEF new, items
<1>6. /\ next \in {"page", "put", "drop", "ok", "notfound"}
      /\ next = "put" => Renames(job[r])
      /\ next = "drop" => ~Renames(job[r])
      /\ next \in {"put", "drop"} => items # Nothing
      /\ next \in {"ok", "notfound"} => items = Nothing
  <2>1. CASE n = Len(Order)
    <3>1. next = AfterQuery(r, items)
      BY <2>1
    <3> HIDE DEF next
    <3> QED
      BY <3>1 DEF AfterQuery
  <2>2. CASE n # Len(Order)
    <3>1. next = "page"
      BY <2>2
    <3> HIDE DEF next
    <3> QED
      BY <3>1
  <2> QED
    BY <2>1, <2>2
<1>7. /\ pc' = [pc EXCEPT ![r] = next] /\ found' = [found EXCEPT ![r] = items]
      /\ upto' = [upto EXCEPT ![r] = IF n = Len(Order) THEN 0 ELSE n]
  BY <1>1 DEF Goto, new, items
<1>8. exposed' =
         IF Renames(job[r])
         THEN exposed \cup ({rows[k] : k \in {k \in new : view[k] \notin {None, rows[k]}}} \ {None})
         ELSE exposed
  BY <1>1 DEF new
<1> HIDE DEF next
<1>9. exposed \subseteq exposed' /\ exposed' \subseteq Rows
  BY <1>4, <1>8 DEF Inv, TypeOK
<1>10. /\ \A q \in Requests : pc'[q] = IF q = r THEN next ELSE pc[q]
       /\ \A q \in Requests : found'[q] = IF q = r THEN items ELSE found[q]
       /\ pc' \in [Requests -> Steps] /\ found' \in [Requests -> Items]
       /\ upto' \in [Requests -> 0 .. Len(Order)]
  BY <1>3, <1>5, <1>6, <1>7 DEF Inv, TypeOK, Steps, InFlight, Finished, Items
<1>11. TypeOK'
  BY <1>2, <1>6, <1>9, <1>10 DEF Inv, TypeOK, Steps, Items
<1>12. Resting' /\ Putting'
  BY <1>2, <1>6, <1>10 DEF Inv, Resting, Putting, InFlight
<1>13. Inside'
  BY <1>2, <1>4, <1>5, <1>10 DEF Inv, Inside
<1>14. Known'
  <2>1. ASSUME NEW k \in Keys, items[k] # None, Renames(job[r])
        PROVE  rows[k] \in {None, items[k]} \cup exposed'
    <3>1. CASE k \in new
      BY <1>5, <1>8, <2>1, <3>1
    <3>2. CASE k \notin new
      BY <1>5, <1>9, <2>1, <3>2 DEF Inv, Known
    <3> QED
      BY <3>1, <3>2
  <2> QED
    BY <1>2, <1>9, <1>10, <2>1 DEF Inv, Known
<1>15. Kept'
  <2>1. \A k \in Keys : Doomed(k)' => Doomed(k)
    BY <1>2, <1>6, <1>10 DEF Doomed
  <2> QED
    BY <1>2, <1>9, <2>1, KeptWithout DEF Inv
<1> QED
  BY <1>11, <1>12, <1>13, <1>14, <1>15 DEF Inv

\* The replica catches up, or nothing happens at all.
LEMMA OtherSteps ==
    ASSUME Inv, (\E k \in Keys : Replicate(k)) \/ UNCHANGED vars
    PROVE  Inv'
<1>1. /\ UNCHANGED <<rows, job, pc, upto, found, resent, born, replaced, exposed>>
      /\ replica' \in [Keys -> Rows \cup {None}]
  BY DEF Replicate, vars, Inv, TypeOK
<1>2. TypeOK' /\ Resting' /\ Inside' /\ Putting' /\ Known'
  BY <1>1 DEF Inv, TypeOK, Resting, Inside, Putting, Known
<1>3. Kept'
  BY <1>1 DEF Inv, Kept, Doomed
<1> QED
  BY <1>2, <1>3 DEF Inv

----------------------------------------------------------------------------
(* The theorems *)

\* The invariant holds at the start.
LEMMA Initially == Init => Inv
<1> SUFFICES ASSUME Init PROVE Inv
  OBVIOUS
<1>1. Start \in [Keys -> Rows \cup {None}] /\ born \subseteq Rows
  BY NamespaceAssumption DEF Init, Rows
<1>2. TypeOK
  BY <1>1, NothingHasNone, NamespaceAssumption DEF Init, TypeOK, InFlight, Finished, Items
<1>3. Resting /\ Inside /\ Putting /\ Known
  BY NothingHasNone DEF Init, Resting, Inside, Putting, Known, InFlight
<1>4. Kept
  BY DEF Init, Kept, Doomed
<1> QED
  BY <1>2, <1>3, <1>4 DEF Inv

\* Every step keeps it.
LEMMA Inductive == Inv /\ [Next]_vars => Inv'
BY PutRowStep, QuietSteps, PutNewStep, DropOldStep, DropRowStep, ReadPageStep, OtherSteps
DEF Next, Done

\* So it holds always.
LEMMA Always == Spec => []Inv
BY Initially, Inductive, PTL DEF Spec

\* The rows, what the requests have read of them and where they are have their
\* types, and a request that is about to put or to delete has an item to handle.
THEOREM TypeCorrect == Spec => []TypeOK
<1>1. Inv => TypeOK
  BY DEF Inv
<1> QED
  BY <1>1, Always, PTL

\* Whatever fails or dies in renames of folders, however their queries, puts and
\* deletes interleave with those of other requests and however old the replica
\* is they read, they lose no row but those that came under the old name after
\* the query had been there, or in place of the version it read.
THEOREM RenamesLoseNothingElse == Spec => []EntriesSurviveRenames
<1>1. Inv => EntriesSurviveRenames
  BY DEF Inv, Kept, EntriesSurviveRenames
<1> QED
  BY <1>1, Always, PTL

\* The rows a delete or a rename from the command line removes are rows of the
\* folder it names, never of one whose name only begins like it.
THEOREM RemovalsAreInside == Spec => RemovalsStayInside
<1> DEFINE A(r, k) == /\ pc[r] = "drop" /\ found'[r] # found[r]
                      /\ job[r].slash
                      /\ rows[k] # None /\ rows'[k] = None
                      => k.folder = job[r].name
<1>1. ASSUME Inv, [Next]_vars, NEW r \in Requests, NEW k \in Keys,
             pc[r] = "drop", found'[r] # found[r], job[r].slash, rows[k] # None, rows'[k] = None
      PROVE  k.folder = job[r].name
  <2>1. \A q \in Requests, answer \in Finished : Finish(q, answer) => q = r
    BY <1>1 DEF Finish, Inv, TypeOK
  <2>2. \A q \in Requests : \A first : NextItem(q, first) => q = r
    BY <1>1, <2>1 DEF NextItem, Finished, Inv, TypeOK
  <2>3. DropOld(r) \/ DropRow(r)
    <3>1. ASSUME NEW q \in Requests, PutRow(q) PROVE FALSE
      BY <1>1, <2>1, <3>1 DEF PutRow, Resend, Finished
    <3>2. ASSUME NEW q \in Requests, StartRename(q) \/ StartDelete(q) PROVE FALSE
      BY <1>1, <3>2 DEF StartRename, StartDelete
    <3>3. ASSUME NEW q \in Requests, ReadPage(q) PROVE FALSE
      <4>1. pc[q] = "page" /\ \E items : found' = [found EXCEPT ![q] = items]
        BY <3>3 DEF ReadPage
      <4> QED
        BY <1>1, <4>1 DEF Inv, TypeOK
    <3>4. ASSUME NEW q \in Requests, PutNew(q) PROVE FALSE
      BY <1>1, <2>2, <3>4 DEF PutNew, Resend
    <3>5. ASSUME NEW q \in Requests, PutFails(q) \/ DropFails(q) \/ EndsInError(q) PROVE FALSE
      BY <1>1, <3>5 DEF PutFails, DropFails, EndsInError
    <3>6. ASSUME NEW q \in Requests, DropOld(q) \/ DropRow(q) PROVE q = r
      BY <1>1, <2>1, <2>2, <3>6 DEF DropOld, DropRow, Resend, Finished
    <3> QED
      BY <1>1, <3>1, <3>2, <3>3, <3>4, <3>5, <3>6 DEF Next, Replicate, Done, vars
  <2>4. rows' = [rows EXCEPT ![Current(r)] = None]
    BY <2>3 DEF DropOld, DropRow
  <2>5. k = Current(r)
    BY <1>1, <2>4 DEF Inv, TypeOK
  <2>6. Matches(job[r], k)
    BY <1>1, <2>5, AtItem
  <2> QED
    BY <1>1, <2>6 DEF Matches
<1>2. Inv /\ [Next]_vars => [\A r \in Requests : \A k \in Keys : A(r, k)]_vars
  BY <1>1
<1> QED
  BY <1>2, Always, PTL DEF Spec, RemovalsStayInside
=============================================================================
