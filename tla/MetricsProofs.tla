--------------------------- MODULE MetricsProofs ---------------------------
(* Proofs, for any calls and any size of a chunk, that the metrics buffer   *)
(* keeps its types, that no recorded datum disappears unaccounted for, and  *)
(* that data are published in the order they were recorded in.              *)
EXTENDS Metrics, SequenceTheorems, TLAPS

----------------------------------------------------------------------------
(* Sequences and their elements *)

\* Elements of a concatenation.
LEMMA ElementsOfConcat ==
    ASSUME NEW S, NEW s \in Seq(S), NEW t \in Seq(S)
    PROVE  Elements(s \o t) = Elements(s) \cup Elements(t)
<1>1. /\ s \o t \in Seq(S)
      /\ Len(s \o t) = Len(s) + Len(t)
      /\ \A i \in 1 .. Len(s) + Len(t) :
            (s \o t)[i] = IF i <= Len(s) THEN s[i] ELSE t[i - Len(s)]
  BY ConcatProperties
<1>2. /\ Len(s) \in Nat /\ Len(t) \in Nat
  BY LenProperties
<1>3. ASSUME NEW x \in Elements(s \o t) PROVE x \in Elements(s) \cup Elements(t)
  <2>1. PICK i \in 1 .. Len(s) + Len(t) : x = (s \o t)[i]
    BY <1>1, <1>3 DEF Elements
  <2>2. CASE i <= Len(s)
    BY <2>1, <2>2, <1>1, <1>2 DEF Elements
  <2>3. CASE i > Len(s)
    <3>1. i - Len(s) \in 1 .. Len(t) /\ x = t[i - Len(s)]
      BY <2>1, <2>3, <1>1, <1>2
    <3> QED
      BY <3>1 DEF Elements
  <2> QED
    BY <2>2, <2>3, <1>2
<1>4. ASSUME NEW x \in Elements(s) PROVE x \in Elements(s \o t)
  <2>1. PICK i \in 1 .. Len(s) : x = s[i]
    BY <1>4 DEF Elements
  <2>2. i \in 1 .. Len(s \o t) /\ (s \o t)[i] = x
    BY <2>1, <1>1, <1>2
  <2> QED
    BY <2>2 DEF Elements
<1>5. ASSUME NEW x \in Elements(t) PROVE x \in Elements(s \o t)
  <2>1. PICK i \in 1 .. Len(t) : x = t[i]
    BY <1>5 DEF Elements
  <2>2. i + Len(s) \in 1 .. Len(s \o t) /\ (s \o t)[i + Len(s)] = x
    BY <2>1, <1>1, <1>2
  <2> QED
    BY <2>2 DEF Elements
<1> QED
  BY <1>3, <1>4, <1>5

\* Elements of a part of a sequence.
LEMMA ElementsOfPart ==
    ASSUME NEW S, NEW s \in Seq(S), NEW m \in Nat, NEW n \in Nat, n <= Len(s)
    PROVE  /\ SubSeq(s, m + 1, n) \in Seq(S)
           /\ Elements(SubSeq(s, m + 1, n)) = {s[i] : i \in m + 1 .. n}
<1>1. CASE m + 1 <= n
  <2>1. /\ SubSeq(s, m + 1, n) \in Seq(S)
        /\ Len(SubSeq(s, m + 1, n)) = n - m
        /\ \A i \in 1 .. n - m : SubSeq(s, m + 1, n)[i] = s[m + i]
    BY <1>1, SubSeqProperties, LenProperties
  <2>2. ASSUME NEW i \in m + 1 .. n
        PROVE  i - m \in 1 .. n - m /\ s[i] = SubSeq(s, m + 1, n)[i - m]
    BY <2>1
  <2>3. ASSUME NEW i \in 1 .. n - m
        PROVE  m + i \in m + 1 .. n /\ SubSeq(s, m + 1, n)[i] = s[m + i]
    BY <2>1
  <2> DEFINE part == SubSeq(s, m + 1, n)
  <2>4. ASSUME NEW x \in Elements(part) PROVE x \in {s[i] : i \in m + 1 .. n}
    <3>1. PICK i \in 1 .. n - m : x = part[i]
      BY <2>1, <2>4 DEF Elements
    <3> QED
      BY <3>1, <2>3
  <2>5. ASSUME NEW x \in {s[i] : i \in m + 1 .. n} PROVE x \in Elements(part)
    <3>1. PICK i \in m + 1 .. n : x = s[i]
      BY <2>5
    <3> HIDE DEF part
    <3>2. i - m \in 1 .. Len(part) /\ x = part[i - m]
      BY <3>1, <2>1, <2>2 DEF part
    <3> QED
      BY <3>2 DEF Elements
  <2> QED
    BY <2>1, <2>4, <2>5
<1>2. CASE ~ (m + 1 <= n)
  <2>1. SubSeq(s, m + 1, n) = << >>
    BY <1>2, SubSeqProperties, LenProperties, EmptySeq
  <2> QED
    BY <2>1, <1>2 DEF Elements
<1> QED
  BY <1>1, <1>2

\* A part of a sequence, cut in two.
LEMMA ElementsOfCut ==
    ASSUME NEW S, NEW s \in Seq(S), NEW m \in Nat, NEW n \in Nat, m <= n, n <= Len(s)
    PROVE  Elements(SubSeq(s, m + 1, Len(s)))
             = Elements(SubSeq(s, m + 1, n)) \cup Elements(SubSeq(s, n + 1, Len(s)))
<1>1. Len(s) \in Nat
  BY LenProperties
<1>2. m + 1 .. Len(s) = (m + 1 .. n) \cup (n + 1 .. Len(s))
  BY <1>1
<1>3. {s[i] : i \in m + 1 .. Len(s)}
        = {s[i] : i \in m + 1 .. n} \cup {s[i] : i \in n + 1 .. Len(s)}
  BY <1>2
<1> QED
  BY <1>1, <1>3, ElementsOfPart

----------------------------------------------------------------------------
(* Type correctness *)

\* What a call records are data.
LEMMA RecordedType ==
    ASSUME NEW c \in Calls, NEW ok \in BOOLEAN
    PROVE  Recorded(c, ok) \in Seq(Data)
<1> DEFINE two == <<Datum(c, "RPCLatency"), Datum(c, "RPCCount")>>
           one == <<Datum(c, "RPCErrors")>>
<1>1. two \in Seq(Data) /\ one \in Seq(Data) /\ <<>> \in Seq(Data)
  BY DEF Datum, Data, Metrics
<1>2. two \o one \in Seq(Data) /\ two \o <<>> \in Seq(Data)
  <2> HIDE DEF two, one
  <2> QED
    BY <1>1, ConcatProperties
<1> QED
  BY <1>2 DEF Recorded

\* Between two batches the goroutine holds no data.
BatchInv == TypeOK /\ (~flushing => batch = <<>>)

\* The chunk to be published has data, and no more than allowed; where it ends
\* is where the next one starts, or the end of the batch.
LEMMA ChunkFacts ==
    ASSUME TypeOK, next < Len(batch)
    PROVE  /\ End \in Nat /\ next < End /\ End <= Len(batch)
           /\ ChunkAtNext \in Seq(Data)
           /\ Len(ChunkAtNext) \in 1 .. Limit
           /\ next + Limit \in Nat
           /\ End = next + Limit \/ (End = Len(batch) /\ next + Limit > Len(batch))
<1>1. /\ Len(batch) \in Nat /\ next \in Nat /\ Limit \in Nat \ {0} /\ batch \in Seq(Data)
  BY LenProperties, MetricsAssumption DEF TypeOK
<1>2. /\ End \in Nat /\ next < End /\ End <= Len(batch) /\ End - next <= Limit
      /\ next + Limit \in Nat
      /\ End = next + Limit \/ (End = Len(batch) /\ next + Limit > Len(batch))
  BY <1>1 DEF End
<1>3. \A i \in next + 1 .. End : batch[i] \in Data
  BY <1>1, <1>2, ElementOfSeq
<1>4. /\ ChunkAtNext \in Seq(Data)
      /\ Len(ChunkAtNext) = End - next
  BY <1>1, <1>2, <1>3, SubSeqProperties DEF ChunkAtNext
<1> QED
  BY <1>1, <1>2, <1>4

\* Init establishes the types.
LEMMA TypeInit == Init => BatchInv
<1>1. <<>> \in Seq(Data) /\ <<>> \in Seq(Seq(Data)) /\ Len(<<>>) = 0
  BY EmptySeq
<1> SUFFICES ASSUME Init PROVE BatchInv
  OBVIOUS
<1>2. stops \in 0 .. MaxStops /\ next \in Nat
  BY MetricsAssumption DEF Init
<1>3. \A i \in 1 .. Len(published) : Len(published[i]) \in 1 .. Limit
  BY <1>1 DEF Init
<1>4. /\ buffer \in Seq(Data) /\ batch \in Seq(Data) /\ recorded \in Seq(Data)
      /\ published \in Seq(Seq(Data))
  BY <1>1 DEF Init
<1>5. ticked \in BOOLEAN /\ flushing \in BOOLEAN /\ resent \in BOOLEAN
  BY DEF Init
<1> QED
  BY <1>2, <1>3, <1>4, <1>5 DEF Init, BatchInv, TypeOK

\* Every step keeps the types.
LEMMA TypeStep == BatchInv /\ [Next]_vars => BatchInv'
<1> SUFFICES ASSUME BatchInv, [Next]_vars PROVE BatchInv'
  OBVIOUS
<1> USE MetricsAssumption
<1>0. <<>> \in Seq(Data)
  BY EmptySeq
<1>1. ASSUME NEW c \in Calls, Record(c) PROVE BatchInv'
  <2>1. PICK ok \in BOOLEAN :
           /\ buffer' = buffer \o Recorded(c, ok)
           /\ recorded' = recorded \o Recorded(c, ok)
    BY <1>1 DEF Record
  <2>2. buffer' \in Seq(Data) /\ recorded' \in Seq(Data)
    BY <2>1, RecordedType, ConcatProperties DEF BatchInv, TypeOK
  <2> QED
    BY <1>1, <2>2 DEF Record, BatchInv, TypeOK
<1>2. CASE Tick
  BY <1>2 DEF Tick, BatchInv, TypeOK
<1>3. CASE TakeBatch
  <2>1. buffer' \in Seq(Data) /\ batch' \in Seq(Data) /\ next' \in Nat
    <3>1. buffer \in Seq(Data) /\ batch \in Seq(Data) /\ next \in Nat
      BY DEF BatchInv, TypeOK
    <3>2. \/ UNCHANGED <<buffer, batch, next>>
          \/ buffer' = <<>> /\ batch' = buffer /\ next' = 0
      BY <1>3 DEF TakeBatch, Rest
    <3>3. CASE UNCHANGED <<buffer, batch, next>>
      BY <3>1, <3>3
    <3>4. CASE buffer' = <<>> /\ batch' = buffer /\ next' = 0
      <4>1. buffer' \in Seq(Data)
        BY <1>0, <3>4, Zenon
      <4>2. batch' \in Seq(Data) /\ next' \in Nat
        BY <3>1, <3>4
      <4> QED
        BY <4>1, <4>2
    <3> QED
      BY <3>2, <3>3, <3>4
  <2>2. ticked' \in BOOLEAN /\ flushing' \in BOOLEAN
    BY <1>3 DEF TakeBatch, BatchInv, TypeOK
  <2>3. ~flushing' => batch' = <<>>
    BY <1>3 DEF TakeBatch, BatchInv
  <2>4. UNCHANGED <<open, stops, recorded, published, resent, lost>>
    BY <1>3 DEF TakeBatch
  <2> QED
    BY <2>1, <2>2, <2>3, <2>4 DEF BatchInv, TypeOK
<1>4. CASE Publish
  <2>1. /\ ChunkAtNext \in Seq(Data) /\ Len(ChunkAtNext) \in 1 .. Limit
        /\ next + Limit \in Nat
    BY <1>4, ChunkFacts DEF Publish, BatchInv
  <2>2. published \in Seq(Seq(Data)) /\ published' = Append(published, ChunkAtNext)
    BY <1>4 DEF Publish, BatchInv, TypeOK
  <2>3. /\ published' \in Seq(Seq(Data))
        /\ Len(published') = Len(published) + 1
        /\ \A i \in 1 .. Len(published) : published'[i] = published[i]
        /\ published'[Len(published) + 1] = ChunkAtNext
    BY <2>1, <2>2, AppendProperties
  <2>4. \A i \in 1 .. Len(published') : Len(published'[i]) \in 1 .. Limit
    <3>1. Len(published) \in Nat
      BY <2>2, LenProperties
    <3>2. \A i \in 1 .. Len(published) : Len(published[i]) \in 1 .. Limit
      BY DEF BatchInv, TypeOK
    <3>3. ASSUME NEW i \in 1 .. Len(published') PROVE Len(published'[i]) \in 1 .. Limit
      <4>1. i \in 1 .. Len(published) \/ i = Len(published) + 1
        BY <2>3, <3>1
      <4>2. CASE i \in 1 .. Len(published)
        <5>1. published'[i] = published[i]
          BY <2>3, <4>2
        <5> QED
          BY <3>2, <4>2, <5>1
      <4>3. CASE i = Len(published) + 1
        <5>1. published'[i] = ChunkAtNext
          BY <2>3, <4>3
        <5> QED
          BY <2>1, <5>1
      <4> QED
        BY <4>1, <4>2, <4>3
    <3> QED
      BY <3>3
  <2>5. next' \in Nat /\ resent' \in BOOLEAN
    BY <1>4, <2>1 DEF Publish, Advance, BatchInv, TypeOK
  <2> QED
    BY <1>4, <2>3, <2>4, <2>5 DEF Publish, BatchInv, TypeOK
<1>5. CASE PublishFails
  <2>1. ChunkAtNext \in Seq(Data) /\ next + Limit \in Nat
    BY <1>5, ChunkFacts DEF PublishFails, BatchInv
  <2>2. Elements(ChunkAtNext) \subseteq Data
    BY <2>1, ElementOfSeq DEF Elements
  <2> QED
    BY <1>5, <2>1, <2>2 DEF PublishFails, Advance, BatchInv, TypeOK
<1>6. CASE FlushDone
  BY <1>0, <1>6 DEF FlushDone, BatchInv, TypeOK
<1>7. CASE Stops
  <2>1. Elements(buffer) \subseteq Data
    BY ElementOfSeq DEF Elements, BatchInv, TypeOK
  <2>2. Len(batch) \in Nat /\ next \in Nat /\ batch \in Seq(Data)
    BY LenProperties DEF BatchInv, TypeOK
  <2>3. Elements(SubSeq(batch, next + 1, Len(batch))) = {batch[i] : i \in next + 1 .. Len(batch)}
    BY <2>2, ElementsOfPart
  <2>4. \A i \in next + 1 .. Len(batch) : batch[i] \in Data
    BY <2>2, ElementOfSeq
  <2>5. InMemory \subseteq Data
    BY <2>1, <2>3, <2>4 DEF InMemory
  <2>6. lost' \subseteq Data /\ UNCHANGED <<open, recorded, published>>
    BY <1>7, <2>5 DEF Stops, BatchInv, TypeOK
  <2>7. stops' \in 0 .. MaxStops
    BY <1>7 DEF Stops, BatchInv, TypeOK
  <2>8. /\ buffer' \in Seq(Data) /\ batch' \in Seq(Data) /\ batch' = <<>> /\ next' \in Nat
        /\ ticked' = FALSE /\ flushing' = FALSE /\ resent' = FALSE
    BY <1>0, <1>7 DEF Stops
  <2> QED
    BY <2>6, <2>7, <2>8 DEF BatchInv, TypeOK
<1>8. CASE UNCHANGED vars
  BY <1>8 DEF vars, BatchInv, TypeOK
<1> QED
  BY <1>1, <1>2, <1>3, <1>4, <1>5, <1>6, <1>7, <1>8 DEF Next, Flush

\* Every variable of the buffer and its publication keeps its type; no chunk is
\* empty or too long, whatever the limit.
THEOREM TypeCorrect == Spec => []TypeOK
<1>1. BatchInv => TypeOK
  BY DEF BatchInv
<1> QED
  BY <1>1, TypeInit, TypeStep, PTL DEF Spec

----------------------------------------------------------------------------
(* Nothing vanishes *)

\* All that CloudWatch has taken.
Taken == UNION {Elements(published[i]) : i \in 1 .. Len(published)}

\* A chunk that is handled leaves the memory, and nothing else does.
LEMMA ChunkLeaves ==
    ASSUME BatchInv, flushing, next < Len(batch), Advance, UNCHANGED <<buffer, batch>>
    PROVE  InMemory \subseteq InMemory' \cup Elements(ChunkAtNext)
<1>1. /\ Len(batch) \in Nat /\ next \in Nat /\ batch \in Seq(Data)
  BY LenProperties DEF BatchInv, TypeOK
<1>2. /\ End \in Nat /\ next < End /\ End <= Len(batch)
      /\ End = next + Limit \/ End = Len(batch)
  BY ChunkFacts DEF BatchInv
<1>3. Elements(SubSeq(batch, next + 1, Len(batch)))
        = Elements(ChunkAtNext) \cup Elements(SubSeq(batch, End + 1, Len(batch)))
  BY <1>1, <1>2, ElementsOfCut DEF ChunkAtNext
<1>4. Elements(SubSeq(batch, End + 1, Len(batch))) \subseteq InMemory'
  <2>1. CASE End = next + Limit
    BY <2>1 DEF InMemory, Advance
  <2>2. CASE End = Len(batch)
    <3>1. Elements(SubSeq(batch, End + 1, Len(batch))) = {batch[i] : i \in End + 1 .. Len(batch)}
      BY <1>1, <1>2, ElementsOfPart
    <3>2. End + 1 .. Len(batch) = {}
      BY <1>1, <2>2
    <3> QED
      BY <3>1, <3>2
  <2> QED
    BY <1>2, <2>1, <2>2
<1>5. Elements(buffer) \subseteq InMemory'
  BY DEF InMemory
<1> QED
  BY <1>3, <1>4, <1>5 DEF InMemory

\* Every step accounts for what it records and for what leaves the memory.
LEMMA VanishStep == BatchInv /\ NothingVanishes /\ [Next]_vars => NothingVanishes'
<1> SUFFICES ASSUME BatchInv, NothingVanishes, [Next]_vars PROVE NothingVanishes'
  OBVIOUS
<1>0. Elements(recorded) \subseteq InMemory \cup lost \cup Taken
  BY DEF NothingVanishes, Taken
<1>a. SUFFICES Elements(recorded)' \subseteq InMemory' \cup lost' \cup Taken'
  BY DEF NothingVanishes, Taken
<1>1. ASSUME NEW c \in Calls, Record(c)
      PROVE  Elements(recorded)' \subseteq InMemory' \cup lost' \cup Taken'
  <2>1. PICK ok \in BOOLEAN :
           /\ buffer' = buffer \o Recorded(c, ok)
           /\ recorded' = recorded \o Recorded(c, ok)
    BY <1>1 DEF Record
  <2>2. /\ Elements(buffer)' = Elements(buffer) \cup Elements(Recorded(c, ok))
        /\ Elements(recorded)' = Elements(recorded) \cup Elements(Recorded(c, ok))
    <3>1. /\ buffer \in Seq(Data) /\ recorded \in Seq(Data)
          /\ Recorded(c, ok) \in Seq(Data)
      BY RecordedType DEF BatchInv, TypeOK
    <3>2. /\ Elements(buffer \o Recorded(c, ok)) = Elements(buffer) \cup Elements(Recorded(c, ok))
          /\ Elements(recorded \o Recorded(c, ok)) = Elements(recorded) \cup Elements(Recorded(c, ok))
      BY <3>1, ElementsOfConcat
    <3> QED
      BY <2>1, <3>2 DEF Elements
  <2>3. UNCHANGED <<batch, next, lost, published>>
    BY <1>1 DEF Record
  <2>4. UNCHANGED <<lost, Taken>>
    BY <2>3 DEF Taken, Elements
  <2>5. InMemory' = InMemory \cup Elements(Recorded(c, ok))
    BY <2>2, <2>3 DEF InMemory, Elements
  <2> QED
    BY <1>0, <2>2, <2>4, <2>5
<1>2. CASE Tick
  <2>1. UNCHANGED <<recorded, buffer, batch, next, lost, published>>
    BY <1>2 DEF Tick
  <2>2. UNCHANGED <<Elements(recorded), InMemory, Taken>>
    BY <2>1 DEF InMemory, Taken, Elements
  <2> QED
    BY <1>0, <2>1, <2>2
<1>3. CASE TakeBatch
  <2>1. UNCHANGED <<recorded, lost, published>>
    BY <1>3 DEF TakeBatch
  <2>2. InMemory \subseteq InMemory'
    <3>1. CASE buffer = <<>>
      BY <3>1, <1>3 DEF TakeBatch, Empty, InMemory, Elements
    <3>2. CASE buffer # <<>>
      <4>1. batch' = buffer /\ next' = 0 /\ batch = <<>> /\ buffer \in Seq(Data)
        BY <3>2, <1>3 DEF TakeBatch, Empty, BatchInv, TypeOK
      <4>2. Elements(SubSeq(buffer, 0 + 1, Len(buffer))) = Elements(buffer)
        <5>1. Len(buffer) \in Nat
          BY <4>1, LenProperties
        <5> QED
          BY <4>1, <5>1, ElementsOfPart DEF Elements
      <4>3. Elements(SubSeq(batch, next + 1, Len(batch))) = {}
        <5>1. next \in Nat /\ Len(batch) \in Nat /\ batch \in Seq(Data)
          BY LenProperties DEF BatchInv, TypeOK
        <5>2. Elements(SubSeq(batch, next + 1, Len(batch))) = {batch[i] : i \in next + 1 .. Len(batch)}
          BY <5>1, ElementsOfPart
        <5>3. next + 1 .. Len(batch) = {}
          BY <4>1, <5>1, EmptySeq
        <5> QED
          BY <5>2, <5>3
      <4>4. Elements(buffer) \subseteq InMemory'
        BY <4>1, <4>2 DEF InMemory
      <4> QED
        BY <4>3, <4>4 DEF InMemory
    <3> QED
      BY <3>1, <3>2
  <2> QED
    BY <1>0, <2>1, <2>2 DEF Taken, Elements
<1>4. CASE Publish
  <2>1. ChunkAtNext \in Seq(Data) /\ published \in Seq(Seq(Data))
    BY <1>4, ChunkFacts DEF Publish, BatchInv, TypeOK
  <2>2. Taken \cup Elements(ChunkAtNext) \subseteq Taken'
    <3>1. /\ Len(published') = Len(published) + 1 /\ Len(published) \in Nat
          /\ \A i \in 1 .. Len(published) : published'[i] = published[i]
          /\ published'[Len(published) + 1] = ChunkAtNext
      BY <1>4, <2>1, AppendProperties, LenProperties DEF Publish
    <3>2. ASSUME NEW i \in 1 .. Len(published)
          PROVE  i \in 1 .. Len(published') /\ Elements(published'[i]) = Elements(published[i])
      BY <3>1
    <3>3. Elements(published'[Len(published) + 1]) = Elements(ChunkAtNext)
      BY <3>1
    <3>4. Len(published) + 1 \in 1 .. Len(published')
      BY <3>1
    <3>5. Taken' = UNION {Elements(published'[i]) : i \in 1 .. Len(published')}
      BY DEF Taken, Elements
    <3> QED
      BY <3>2, <3>3, <3>4, <3>5 DEF Taken
  <2>3. InMemory \subseteq InMemory' \cup Elements(ChunkAtNext)
    <3>1. CASE Advance
      BY <3>1, <1>4, ChunkLeaves DEF Publish
    <3>2. CASE UNCHANGED next
      BY <3>2, <1>4 DEF Publish, InMemory, Elements
    <3> QED
      BY <1>4, <3>1, <3>2 DEF Publish
  <2>4. UNCHANGED <<recorded, lost>>
    BY <1>4 DEF Publish
  <2> QED
    BY <1>0, <2>2, <2>3, <2>4 DEF Elements
<1>5. CASE PublishFails
  <2>1. InMemory \subseteq InMemory' \cup Elements(ChunkAtNext)
    BY <1>5, ChunkLeaves DEF PublishFails
  <2>2. lost' = lost \cup Elements(ChunkAtNext) /\ UNCHANGED <<recorded, published>>
    BY <1>5 DEF PublishFails
  <2> QED
    BY <1>0, <2>1, <2>2 DEF Taken, Elements
<1>6. CASE FlushDone
  <2>1. Elements(SubSeq(batch, next + 1, Len(batch))) = {}
    <3>1. /\ Len(batch) \in Nat /\ next \in Nat /\ batch \in Seq(Data) /\ next >= Len(batch)
      BY <1>6, LenProperties DEF FlushDone, BatchInv, TypeOK
    <3>2. Elements(SubSeq(batch, next + 1, Len(batch))) = {batch[i] : i \in next + 1 .. Len(batch)}
      BY <3>1, ElementsOfPart
    <3>3. next + 1 .. Len(batch) = {}
      BY <3>1
    <3> QED
      BY <3>2, <3>3
  <2>2. UNCHANGED <<buffer, recorded, published, lost>>
    BY <1>6 DEF FlushDone
  <2>3. InMemory \subseteq InMemory'
    BY <2>1, <2>2 DEF InMemory, Elements
  <2> QED
    BY <1>0, <2>2, <2>3 DEF Taken, Elements
<1>7. CASE Stops
  <2>1. lost' = lost \cup InMemory /\ UNCHANGED <<recorded, published>>
    BY <1>7 DEF Stops
  <2> QED
    BY <1>0, <2>1 DEF Taken, Elements
<1>8. CASE UNCHANGED vars
  <2>1. UNCHANGED <<recorded, buffer, batch, next, lost, published>>
    BY <1>8 DEF vars
  <2>2. UNCHANGED <<Elements(recorded), InMemory, Taken>>
    BY <2>1 DEF InMemory, Taken, Elements
  <2> QED
    BY <1>0, <2>1, <2>2
<1> QED
  BY <1>1, <1>2, <1>3, <1>4, <1>5, <1>6, <1>7, <1>8 DEF Next, Flush

\* Whatever is recorded while batches are taken, cut, published and given up, no
\* datum disappears unaccounted for.
THEOREM DataAreAccountedFor == Spec => []NothingVanishes
<1>1. Init => NothingVanishes
  BY DEF Init, NothingVanishes, Elements
<1> QED
  BY <1>1, TypeInit, TypeStep, VanishStep, PTL DEF Spec

----------------------------------------------------------------------------
(* The order of publication *)

\* In r, some d comes before some e.
Before(r, d, e) == \E i, k \in 1 .. Len(r) : i < k /\ r[i] = d /\ r[k] = e

\* The data of s are in the order of r.
InOrder(r, s) == \A i, k \in 1 .. Len(s) : i < k => Before(r, s[i], s[k])

\* All data of s come before those of t.
Past(r, s, t) == \A d \in Elements(s), e \in Elements(t) : Before(r, d, e)

\* No datum is recorded twice, as a call that has recorded is not open any more.
Once ==
    /\ \A i \in 1 .. Len(recorded) : recorded[i].call \notin open
    /\ \A i, k \in 1 .. Len(recorded) : recorded[i] = recorded[k] => i = k

\* What is in memory is in the order of recording, the batch before the buffer.
Queued ==
    /\ Elements(batch) \subseteq Elements(recorded)
    /\ Elements(buffer) \subseteq Elements(recorded)
    /\ InOrder(recorded, batch) /\ InOrder(recorded, buffer)
    /\ Past(recorded, batch, buffer)

\* The datum was recorded before all that the batch has from m on.
Behind(m, d) == \A i \in m + 1 .. Len(batch) : Before(recorded, d, batch[i])

\* A chunk that was sent and is to be sent again is the last one published.
Again(j) == resent /\ j = Len(published) /\ published[j] = ChunkAtNext

\* What was published was recorded before all that is in memory, but for such a
\* chunk.
Sent ==
    /\ resent => flushing /\ next < Len(batch) /\ Faults
    /\ \A j \in 1 .. Len(published) :
          /\ Elements(published[j]) \subseteq Elements(recorded)
          /\ Past(recorded, published[j], buffer)
          /\ Again(j) \/ \A d \in Elements(published[j]) : Behind(next, d)

\* The chunks are in order.
Ordered ==
    \A j \in 1 .. Len(published) : \A i \in 1 .. j - 1 :
       \/ Past(recorded, published[i], published[j])
       \/ published[i] = published[j] /\ i = j - 1 /\ Faults

OrderInv == BatchInv /\ Once /\ Queued /\ Sent /\ Ordered

\* What one call records is of this call and has no datum twice.
LEMMA RecordedOnce ==
    ASSUME NEW c \in Calls, NEW ok \in BOOLEAN
    PROVE  /\ \A i \in 1 .. Len(Recorded(c, ok)) : Recorded(c, ok)[i].call = c
           /\ \A i, k \in 1 .. Len(Recorded(c, ok)) : Recorded(c, ok)[i] = Recorded(c, ok)[k] => i = k
<1> DEFINE two == <<Datum(c, "RPCLatency"), Datum(c, "RPCCount")>>
           one == IF ok THEN <<>> ELSE <<Datum(c, "RPCErrors")>>
           s == two \o one
<1>1. two \in Seq(Data) /\ Len(two) = 2 /\ two[1] = Datum(c, "RPCLatency") /\ two[2] = Datum(c, "RPCCount")
  BY DEF Datum, Data, Metrics
<1>2. /\ one \in Seq(Data) /\ Len(one) \in {0, 1}
      /\ Len(one) = 1 => one[1] = Datum(c, "RPCErrors")
  <2>1. <<>> \in Seq(Data) /\ Len(<<>>) = 0
    BY EmptySeq
  <2>2. /\ <<Datum(c, "RPCErrors")>> \in Seq(Data) /\ Len(<<Datum(c, "RPCErrors")>>) = 1
        /\ <<Datum(c, "RPCErrors")>>[1] = Datum(c, "RPCErrors")
    BY DEF Datum, Data, Metrics
  <2>3. CASE ok
    <3>1. one = <<>>
      BY <2>3
    <3> HIDE DEF one
    <3> QED
      BY <2>1, <3>1
  <2>4. CASE ~ok
    <3>1. one = <<Datum(c, "RPCErrors")>>
      BY <2>4
    <3> HIDE DEF one
    <3> QED
      BY <2>2, <3>1
  <2> QED
    BY <2>3, <2>4
<1> HIDE DEF two, one
<1>3. /\ Len(s) = Len(two) + Len(one)
      /\ \A i \in 1 .. Len(two) + Len(one) : s[i] = IF i <= Len(two) THEN two[i] ELSE one[i - Len(two)]
  BY <1>1, <1>2, ConcatProperties
<1> HIDE DEF s
<1>4. /\ Len(s) \in {2, 3}
      /\ s[1] = Datum(c, "RPCLatency") /\ s[2] = Datum(c, "RPCCount")
      /\ Len(s) = 3 => s[3] = Datum(c, "RPCErrors")
  <2>1. s[1] = two[1] /\ s[2] = two[2] /\ Len(s) \in {2, 3}
    BY <1>1, <1>2, <1>3
  <2>2. Len(s) = 3 => s[3] = one[1] /\ Len(one) = 1
    <3>1. CASE Len(one) = 1
      <4>1. 3 \in 1 .. Len(two) + Len(one) /\ ~(3 <= Len(two)) /\ 3 - Len(two) = 1
        BY <1>1, <3>1
      <4> QED
        BY <1>3, <3>1, <4>1
    <3>2. CASE Len(one) = 0
      <4>1. Len(s) = 2
        BY <1>1, <1>3, <3>2
      <4>2. Len(s) # 3
        BY <4>1
      <4> QED
        BY <4>2
    <3> QED
      BY <1>2, <3>1, <3>2
  <2> QED
    BY <1>1, <1>2, <2>1, <2>2
<1>5. \A i \in 1 .. Len(s) : s[i].call = c
  <2>1. \A i \in 1 .. Len(s) : i = 1 \/ i = 2 \/ (i = 3 /\ Len(s) = 3)
    <3> DEFINE n == Len(s)
    <3>1. n \in {2, 3}
      BY <1>4
    <3> HIDE DEF n
    <3>2. \A i \in 1 .. n : i = 1 \/ i = 2 \/ (i = 3 /\ n = 3)
      BY <3>1
    <3> QED
      BY <3>2 DEF n
  <2> QED
    BY <1>4, <2>1 DEF Datum
<1>6. \A i, k \in 1 .. Len(s) : s[i] = s[k] => i = k
  <2>1. \A i \in 1 .. Len(s) : i = 1 \/ i = 2 \/ (i = 3 /\ Len(s) = 3)
    <3> DEFINE n == Len(s)
    <3>1. n \in {2, 3}
      BY <1>4
    <3> HIDE DEF n
    <3>2. \A i \in 1 .. n : i = 1 \/ i = 2 \/ (i = 3 /\ n = 3)
      BY <3>1
    <3> QED
      BY <3>2 DEF n
  <2> QED
    BY <1>4, <2>1 DEF Datum
<1>7. Recorded(c, ok) = s
  BY DEF Recorded, s, two, one
<1> QED
  BY <1>5, <1>6, <1>7

\* The elements of a concatenation, by their places.
LEMMA Places ==
    ASSUME NEW S, NEW r \in Seq(S), NEW n \in Seq(S)
    PROVE  /\ \A i \in 1 .. Len(r) : i \in 1 .. Len(r \o n) /\ (r \o n)[i] = r[i]
           /\ \A i \in 1 .. Len(n) : /\ Len(r) + i \in 1 .. Len(r \o n)
                                     /\ (r \o n)[Len(r) + i] = n[i]
           /\ \A i \in 1 .. Len(r \o n) :
                 \/ i \in 1 .. Len(r)
                 \/ i \in Len(r) + 1 .. Len(r) + Len(n) /\ i - Len(r) \in 1 .. Len(n)
                    /\ (r \o n)[i] = n[i - Len(r)]
<1> DEFINE rn == r \o n
<1>1. /\ Len(rn) = Len(r) + Len(n)
      /\ \A i \in 1 .. Len(r) + Len(n) : rn[i] = IF i <= Len(r) THEN r[i] ELSE n[i - Len(r)]
  BY ConcatProperties
<1>2. Len(r) \in Nat /\ Len(n) \in Nat
  BY LenProperties
<1> HIDE DEF rn
<1>3. ASSUME NEW i \in 1 .. Len(r) PROVE i \in 1 .. Len(rn) /\ rn[i] = r[i]
  BY <1>1, <1>2
<1>4. ASSUME NEW i \in 1 .. Len(n)
      PROVE  Len(r) + i \in 1 .. Len(rn) /\ rn[Len(r) + i] = n[i]
  <2>1. /\ Len(r) + i \in 1 .. Len(r) + Len(n)
        /\ ~(Len(r) + i <= Len(r)) /\ (Len(r) + i) - Len(r) = i
    BY <1>2
  <2> QED
    BY <1>1, <2>1
<1>5. ASSUME NEW i \in 1 .. Len(rn), i \notin 1 .. Len(r)
      PROVE  /\ i \in Len(r) + 1 .. Len(r) + Len(n) /\ i - Len(r) \in 1 .. Len(n)
             /\ rn[i] = n[i - Len(r)]
  <2>1. i \in 1 .. Len(r) + Len(n) /\ ~(i <= Len(r)) /\ i - Len(r) \in 1 .. Len(n)
    BY <1>1, <1>2, <1>5
  <2>2. i \in Len(r) + 1 .. Len(r) + Len(n)
    BY <1>2, <2>1
  <2> QED
    BY <1>1, <2>1, <2>2
<1> QED
  BY <1>3, <1>4, <1>5 DEF rn

\* What is appended comes after what was there, in its own order.
LEMMA AppendedAfter ==
    ASSUME NEW S, NEW r \in Seq(S), NEW n \in Seq(S)
    PROVE  /\ \A d, e : Before(r, d, e) => Before(r \o n, d, e)
           /\ \A d \in Elements(r), e \in Elements(n) : Before(r \o n, d, e)
           /\ InOrder(r \o n, n)
<1> DEFINE rn == r \o n
<1>0. Len(r) \in Nat /\ Len(n) \in Nat
  BY LenProperties
<1>p. /\ \A i \in 1 .. Len(r) : i \in 1 .. Len(rn) /\ rn[i] = r[i]
      /\ \A i \in 1 .. Len(n) : Len(r) + i \in 1 .. Len(rn) /\ rn[Len(r) + i] = n[i]
  BY Places
<1> HIDE DEF rn
<1>1. ASSUME NEW d, NEW e, Before(r, d, e) PROVE Before(rn, d, e)
  BY <1>p, <1>1 DEF Before
<1>2. ASSUME NEW i \in 1 .. Len(r), NEW k \in 1 .. Len(n) PROVE Before(rn, r[i], n[k])
  <2>1. i < Len(r) + k
    BY <1>0
  <2> QED
    BY <1>p, <2>1 DEF Before
<1>3. ASSUME NEW i \in 1 .. Len(n), NEW k \in 1 .. Len(n), i < k PROVE Before(rn, n[i], n[k])
  <2>1. Len(r) + i < Len(r) + k
    BY <1>0, <1>3
  <2> QED
    BY <1>p, <2>1 DEF Before
<1>4. \A d \in Elements(r), e \in Elements(n) : Before(rn, d, e)
  BY <1>2 DEF Elements
<1> QED
  BY <1>1, <1>3, <1>4 DEF InOrder, rn

\* Appending the same to both keeps a sequence in the order of another.
LEMMA AppendedInOrder ==
    ASSUME NEW S, NEW r \in Seq(S), NEW s \in Seq(S), NEW n \in Seq(S),
           Elements(s) \subseteq Elements(r), InOrder(r, s)
    PROVE  InOrder(r \o n, s \o n)
<1> DEFINE rn == r \o n
           sn == s \o n
<1>0. Len(s) \in Nat /\ Len(n) \in Nat
  BY LenProperties
<1>1. /\ \A i \in 1 .. Len(s) : sn[i] = s[i]
      /\ \A i \in 1 .. Len(sn) :
                 \/ i \in 1 .. Len(s)
                 \/ i \in Len(s) + 1 .. Len(s) + Len(n) /\ i - Len(s) \in 1 .. Len(n)
                    /\ sn[i] = n[i - Len(s)]
  BY Places
<1>2. /\ \A d, e : Before(r, d, e) => Before(rn, d, e)
      /\ \A d \in Elements(r), e \in Elements(n) : Before(rn, d, e)
      /\ InOrder(rn, n)
  BY AppendedAfter
<1> HIDE DEF rn, sn
<1>3. ASSUME NEW i \in 1 .. Len(sn), NEW k \in 1 .. Len(sn), i < k
      PROVE  Before(rn, sn[i], sn[k])
  <2>1. CASE i \in 1 .. Len(s) /\ k \in 1 .. Len(s)
    BY <1>1, <1>2, <1>3, <2>1 DEF InOrder
  <2>2. CASE i \in 1 .. Len(s) /\ k \notin 1 .. Len(s)
    <3>1. sn[i] \in Elements(r)
      BY <1>1, <2>2 DEF Elements
    <3>2. sn[k] \in Elements(n)
      BY <1>1, <2>2 DEF Elements
    <3> QED
      BY <1>2, <3>1, <3>2
  <2>3. CASE i \notin 1 .. Len(s)
    <3>1. k \notin 1 .. Len(s)
      BY <1>0, <1>1, <1>3, <2>3
    <3>2. /\ sn[i] = n[i - Len(s)] /\ i - Len(s) \in 1 .. Len(n)
          /\ sn[k] = n[k - Len(s)] /\ k - Len(s) \in 1 .. Len(n)
      BY <1>1, <2>3, <3>1
    <3>3. i - Len(s) < k - Len(s)
      BY <1>0, <1>3
    <3> QED
      BY <1>2, <3>2, <3>3 DEF InOrder
  <2> QED
    BY <2>1, <2>2, <2>3
<1> QED
  BY <1>3 DEF InOrder, rn, sn

\* A call records: what was before stays before, and the new data come last.
LEMMA OrderRecord ==
    ASSUME OrderInv, NEW c \in Calls, Record(c)
    PROVE  Once' /\ Queued' /\ Sent' /\ Ordered'
<1>1. PICK ok \in BOOLEAN :
         buffer' = buffer \o Recorded(c, ok) /\ recorded' = recorded \o Recorded(c, ok)
  BY DEF Record
<1> DEFINE new == Recorded(c, ok)
<1>2. /\ new \in Seq(Data)
      /\ \A i \in 1 .. Len(new) : new[i].call = c
      /\ \A i, k \in 1 .. Len(new) : new[i] = new[k] => i = k
  BY RecordedType, RecordedOnce
<1>3. /\ c \in open /\ open' = open \ {c}
      /\ UNCHANGED <<flushing, batch, next, published, resent>>
  BY DEF Record
<1>4. buffer \in Seq(Data) /\ recorded \in Seq(Data)
  BY DEF OrderInv, BatchInv, TypeOK
<1>5. buffer' = buffer \o new /\ recorded' = recorded \o new
  BY <1>1
<1> HIDE DEF new
<1>6. /\ \A d, e : Before(recorded, d, e) => Before(recorded', d, e)
      /\ \A d \in Elements(recorded), e \in Elements(new) : Before(recorded', d, e)
  BY <1>2, <1>4, <1>5, AppendedAfter
<1>7. /\ Elements(buffer') = Elements(buffer) \cup Elements(new)
      /\ Elements(recorded') = Elements(recorded) \cup Elements(new)
  BY <1>2, <1>4, <1>5, ElementsOfConcat
<1>8. ASSUME NEW s, Elements(s) \subseteq Elements(recorded), Past(recorded, s, buffer)
      PROVE  Past(recorded', s, buffer')
  BY <1>6, <1>7, <1>8 DEF Past
<1>9. ASSUME NEW s, NEW t, Past(recorded, s, t) PROVE Past(recorded', s, t)
  BY <1>6, <1>9 DEF Past
<1>10. Once'
  <2>1. /\ \A i \in 1 .. Len(recorded) : recorded'[i] = recorded[i]
        /\ \A i \in 1 .. Len(recorded') :
              \/ i \in 1 .. Len(recorded)
              \/ i \in Len(recorded) + 1 .. Len(recorded) + Len(new)
                 /\ i - Len(recorded) \in 1 .. Len(new) /\ recorded'[i] = new[i - Len(recorded)]
    BY <1>2, <1>4, <1>5, Places
  <2>2. ASSUME NEW i \in 1 .. Len(recorded), NEW k \in 1 .. Len(new)
        PROVE  recorded[i].call \notin open' /\ new[k].call \notin open' /\ recorded[i] # new[k]
    <3>1. recorded[i].call \notin open
      BY DEF OrderInv, Once
    <3> QED
      BY <1>2, <1>3, <3>1
  <2>3. ASSUME NEW i \in 1 .. Len(recorded') PROVE recorded'[i].call \notin open'
    BY <1>2, <1>3, <2>1 DEF OrderInv, Once
  <2>4. ASSUME NEW i \in 1 .. Len(recorded'), NEW k \in 1 .. Len(recorded'),
               recorded'[i] = recorded'[k]
        PROVE  i = k
    <3>1. CASE i \in 1 .. Len(recorded) /\ k \in 1 .. Len(recorded)
      BY <2>1, <2>4, <3>1 DEF OrderInv, Once
    <3>2. CASE i \notin 1 .. Len(recorded) /\ k \notin 1 .. Len(recorded)
      <4>1. i - Len(recorded) = k - Len(recorded)
        BY <1>2, <2>1, <2>4, <3>2
      <4>2. Len(recorded) \in Nat
        BY <1>4
      <4> QED
        BY <2>1, <3>2, <4>1, <4>2
    <3>3. CASE i \in 1 .. Len(recorded) /\ k \notin 1 .. Len(recorded)
      BY <2>1, <2>2, <2>4, <3>3
    <3>4. CASE i \notin 1 .. Len(recorded) /\ k \in 1 .. Len(recorded)
      BY <2>1, <2>2, <2>4, <3>4
    <3> QED
      BY <3>1, <3>2, <3>3, <3>4
  <2> QED
    BY <2>3, <2>4 DEF Once
<1>11. Queued'
  <2>1. InOrder(recorded', batch')
    BY <1>3, <1>6 DEF OrderInv, Queued, InOrder
  <2>2. InOrder(recorded', buffer')
    BY <1>2, <1>4, <1>5, AppendedInOrder DEF OrderInv, Queued
  <2>3. Past(recorded', batch', buffer')
    BY <1>3, <1>8 DEF OrderInv, Queued
  <2>4. Elements(batch') \subseteq Elements(recorded') /\ Elements(buffer') \subseteq Elements(recorded')
    BY <1>3, <1>7 DEF OrderInv, Queued
  <2> QED
    BY <2>1, <2>2, <2>3, <2>4 DEF Queued
<1>12. Sent'
  <2>1. ASSUME NEW j \in 1 .. Len(published)
        PROVE  /\ Elements(published[j]) \subseteq Elements(recorded')
               /\ Past(recorded', published[j], buffer')
    BY <1>7, <1>8 DEF OrderInv, Sent
  <2>2. \A d : Behind(next, d) => Behind(next, d)'
    BY <1>3, <1>6 DEF Behind
  <2>3. \A j : Again(j) => Again(j)'
    BY <1>3 DEF Again, ChunkAtNext, End
  <2>4. ASSUME NEW j \in 1 .. Len(published)
        PROVE  Again(j)' \/ \A d \in Elements(published[j]) : Behind(next, d)'
    BY <2>2, <2>3 DEF OrderInv, Sent
  <2> QED
    BY <1>3, <2>1, <2>4 DEF OrderInv, Sent
<1>13. Ordered'
  BY <1>3, <1>9 DEF OrderInv, Ordered
<1> QED
  BY <1>10, <1>11, <1>12, <1>13

\* The goroutine takes the buffer: what was before the buffer is behind the batch.
LEMMA OrderTake ==
    ASSUME OrderInv, TakeBatch
    PROVE  Once' /\ Queued' /\ Sent' /\ Ordered'
<1>1. UNCHANGED <<open, recorded, published, resent>> /\ ~flushing
  BY DEF TakeBatch
<1>2. Once' /\ Ordered' /\ ~resent
  BY <1>1 DEF OrderInv, Once, Ordered, Sent
<1>3. CASE UNCHANGED <<buffer, flushing, batch, next>>
  BY <1>1, <1>2, <1>3 DEF OrderInv, Queued, Sent, Again, Behind, ChunkAtNext, End
<1>4. CASE batch' = buffer /\ next' = 0 /\ buffer' = <<>>
  <2>1. Elements(buffer') = {} /\ Len(buffer') = 0
    BY <1>4 DEF Elements
  <2>2. Queued'
    BY <1>1, <1>4, <2>1 DEF OrderInv, Queued, InOrder, Past
  <2>3. ASSUME NEW j \in 1 .. Len(published), NEW d \in Elements(published[j])
        PROVE  Behind(next, d)'
    <3>1. \A i \in 1 .. Len(buffer) : buffer[i] \in Elements(buffer)
      BY DEF Elements
    <3>2. \A i \in 1 .. Len(buffer) : Before(recorded, d, buffer[i])
      BY <3>1 DEF OrderInv, Sent, Past
    <3>3. \A i \in next' + 1 .. Len(batch') : i \in 1 .. Len(buffer) /\ batch'[i] = buffer[i]
      BY <1>4
    <3> QED
      BY <1>1, <3>2, <3>3 DEF Behind
  <2>4. ASSUME NEW j \in 1 .. Len(published)
        PROVE  /\ Elements(published[j]) \subseteq Elements(recorded')
               /\ Past(recorded', published[j], buffer')
    BY <1>1, <2>1 DEF OrderInv, Sent, Past
  <2>5. Sent'
    BY <1>1, <1>2, <2>3, <2>4 DEF Sent
  <2> QED
    BY <1>2, <2>2, <2>5
<1> QED
  BY <1>3, <1>4 DEF TakeBatch, Rest

\* What was recorded before the rest of the batch was so before any less of it.
LEMMA BehindLess ==
    ASSUME NEW m \in Nat, NEW n \in Nat, m <= n, NEW d, Behind(m, d), Len(batch) \in Nat
    PROVE  Behind(n, d)
<1>1. \A i \in n + 1 .. Len(batch) : i \in m + 1 .. Len(batch)
  OBVIOUS
<1> QED
  BY <1>1 DEF Behind

\* The data of the chunk come before what the batch has after it, and after
\* what is behind the batch.
LEMMA ChunkOrder ==
    ASSUME OrderInv, next < Len(batch)
    PROVE  /\ Elements(ChunkAtNext) \subseteq Elements(batch)
           /\ \A d \in Elements(ChunkAtNext) : Behind(next + Limit, d)
           /\ \A d : Behind(next, d) => \A e \in Elements(ChunkAtNext) : Before(recorded, d, e)
<1>1. /\ TypeOK /\ batch \in Seq(Data) /\ next \in Nat /\ Len(batch) \in Nat
      /\ InOrder(recorded, batch)
  BY DEF OrderInv, BatchInv, TypeOK, Queued
<1>2. /\ End \in Nat /\ End <= Len(batch) /\ next + Limit \in Nat
      /\ End = next + Limit \/ (End = Len(batch) /\ next + Limit > Len(batch))
  BY <1>1, ChunkFacts
<1>3. Elements(ChunkAtNext) = {batch[i] : i \in next + 1 .. End}
  BY <1>1, <1>2, ElementsOfPart DEF ChunkAtNext
<1>4. \A i \in next + 1 .. End : i \in 1 .. Len(batch) /\ i \in next + 1 .. Len(batch)
  BY <1>1, <1>2
<1>5. ASSUME NEW i \in next + 1 .. End PROVE Behind(next + Limit, batch[i])
  <2>1. ASSUME NEW k \in (next + Limit) + 1 .. Len(batch)
        PROVE  i < k /\ i \in 1 .. Len(batch) /\ k \in 1 .. Len(batch)
    BY <1>1, <1>2
  <2> QED
    BY <1>1, <2>1 DEF Behind, InOrder
<1>6. Elements(ChunkAtNext) \subseteq Elements(batch)
  BY <1>3, <1>4 DEF Elements
<1>7. \A d \in Elements(ChunkAtNext) : Behind(next + Limit, d)
  BY <1>3, <1>5
<1>8. ASSUME NEW d, Behind(next, d), NEW e \in Elements(ChunkAtNext)
      PROVE  Before(recorded, d, e)
  BY <1>3, <1>4, <1>8 DEF Behind
<1> QED
  BY <1>6, <1>7, <1>8

\* The loop goes on: all that was published is behind the rest of the batch.
LEMMA GoesOn ==
    ASSUME OrderInv, next < Len(batch), NEW j \in 1 .. Len(published),
           NEW d \in Elements(published[j])
    PROVE  Behind(next + Limit, d)
<1>1. next \in Nat /\ Limit \in Nat /\ Len(batch) \in Nat /\ next + Limit \in Nat /\ next <= next + Limit
  BY MetricsAssumption DEF OrderInv, BatchInv, TypeOK
<1>2. CASE Again(j)
  BY <1>2, ChunkOrder DEF Again
<1>3. CASE ~Again(j)
  <2>1. Behind(next, d)
    BY <1>3 DEF OrderInv, Sent
  <2> QED
    BY <1>1, <2>1, BehindLess
<1> QED
  BY <1>2, <1>3

\* A chunk is published: all other chunks come before it, but for itself when it
\* is sent again.
LEMMA OrderPublish ==
    ASSUME OrderInv, Publish
    PROVE  Once' /\ Queued' /\ Sent' /\ Ordered'
<1> DEFINE chunk == ChunkAtNext
<1>1. /\ UNCHANGED <<open, buffer, flushing, batch, recorded>>
      /\ flushing /\ next < Len(batch) /\ published' = Append(published, chunk)
  BY DEF Publish
<1>2. /\ TypeOK /\ published \in Seq(Seq(Data)) /\ chunk \in Seq(Data) /\ Len(published) \in Nat
  BY <1>1, ChunkFacts DEF OrderInv, BatchInv, TypeOK
<1>3. /\ Elements(chunk) \subseteq Elements(batch)
      /\ \A d \in Elements(chunk) : Behind(next + Limit, d)
      /\ \A d : Behind(next, d) => \A e \in Elements(chunk) : Before(recorded, d, e)
  BY <1>1, ChunkOrder
<1>4. \/ next' = next + Limit /\ resent' = FALSE
      \/ next' = next /\ Faults /\ ~resent /\ resent' = TRUE
  BY DEF Publish, Advance
<1>5. chunk = ChunkAtNext
  OBVIOUS
<1> HIDE DEF chunk
<1>6. /\ Len(published') = Len(published) + 1
      /\ published'[Len(published) + 1] = chunk
      /\ \A j \in 1 .. Len(published) : published'[j] = published[j]
      /\ \A j \in 1 .. Len(published') : j \in 1 .. Len(published) \/ j = Len(published) + 1
  BY <1>1, <1>2, AppendProperties
<1>7. Once' /\ Queued'
  BY <1>1 DEF OrderInv, Once, Queued
<1>8. Elements(chunk) \subseteq Elements(recorded) /\ Past(recorded, chunk, buffer)
  BY <1>3 DEF OrderInv, Queued, Past
<1>9. Ordered'
  <2>1. ASSUME NEW j \in 1 .. Len(published), NEW i \in 1 .. j - 1
        PROVE  \/ Past(recorded', published'[i], published'[j])
               \/ published'[i] = published'[j] /\ i = j - 1 /\ Faults
    <3>1. i \in 1 .. Len(published)
      BY <1>2
    <3> QED
      BY <1>1, <1>6, <3>1 DEF OrderInv, Ordered
  <2>2. ASSUME NEW i \in 1 .. Len(published)
        PROVE  \/ Past(recorded', published'[i], chunk)
               \/ published'[i] = chunk /\ i = Len(published) /\ Faults
    <3>1. CASE Again(i)
      BY <1>5, <1>6, <3>1 DEF Again, OrderInv, Sent
    <3>2. CASE ~Again(i)
      <4>1. \A d \in Elements(published[i]) : Behind(next, d)
        BY <3>2 DEF OrderInv, Sent
      <4> QED
        BY <1>1, <1>3, <1>6, <4>1 DEF Past
    <3> QED
      BY <3>1, <3>2
  <2>3. ASSUME NEW j \in 1 .. Len(published'), NEW i \in 1 .. j - 1
        PROVE  \/ Past(recorded', published'[i], published'[j])
               \/ published'[i] = published'[j] /\ i = j - 1 /\ Faults
    <3>1. CASE j \in 1 .. Len(published)
      BY <2>1, <3>1
    <3>2. CASE j = Len(published) + 1
      <4>1. j - 1 = Len(published) /\ i \in 1 .. Len(published)
        BY <1>2, <3>2
      <4> QED
        BY <1>6, <2>2, <3>2, <4>1
    <3> QED
      BY <1>6, <3>1, <3>2
  <2> QED
    BY <2>3 DEF Ordered
<1>10. Sent'
  <2>1. ASSUME NEW j \in 1 .. Len(published')
        PROVE  /\ Elements(published'[j]) \subseteq Elements(recorded')
               /\ Past(recorded', published'[j], buffer')
    BY <1>1, <1>6, <1>8 DEF OrderInv, Sent
  <2>2. CASE next' = next + Limit /\ resent' = FALSE
    <3>1. \A j \in 1 .. Len(published) : \A d \in Elements(published[j]) : Behind(next + Limit, d)
      BY <1>1, GoesOn
    <3>2. ASSUME NEW j \in 1 .. Len(published')
          PROVE  \A d \in Elements(published'[j]) : Behind(next + Limit, d)
      BY <1>3, <1>6, <3>1
    <3>3. \A d : Behind(next + Limit, d) => Behind(next, d)'
      BY <1>1, <2>2 DEF Behind
    <3> QED
      BY <2>1, <2>2, <3>2, <3>3 DEF Sent
  <2>3. CASE next' = next /\ Faults /\ ~resent /\ resent' = TRUE
    <3>1. \A d : Behind(next, d) => Behind(next, d)'
      BY <1>1, <2>3 DEF Behind
    <3>2. ASSUME NEW j, j = Len(published) + 1 PROVE Again(j)'
      BY <3>2, <1>1, <1>5, <1>6, <2>3 DEF Again, ChunkAtNext, End
    <3>3. ASSUME NEW j \in 1 .. Len(published)
          PROVE  \A d \in Elements(published'[j]) : Behind(next, d)'
      BY <1>6, <2>3, <3>1 DEF OrderInv, Sent, Again
    <3>4. ASSUME NEW j \in 1 .. Len(published')
          PROVE  Again(j)' \/ \A d \in Elements(published'[j]) : Behind(next, d)'
      BY <1>6, <3>2, <3>3
    <3> QED
      BY <1>1, <2>1, <2>3, <3>4 DEF Sent
  <2> QED
    BY <1>4, <2>2, <2>3
<1> QED
  BY <1>7, <1>9, <1>10

\* A chunk is given up.
LEMMA OrderFails ==
    ASSUME OrderInv, PublishFails
    PROVE  Once' /\ Queued' /\ Sent' /\ Ordered'
<1>1. /\ UNCHANGED <<open, buffer, batch, recorded, published>>
      /\ next < Len(batch) /\ next' = next + Limit /\ resent' = FALSE
  BY DEF PublishFails, Advance
<1>2. Once' /\ Queued' /\ Ordered'
  BY <1>1 DEF OrderInv, Once, Queued, Ordered
<1>3. \A j \in 1 .. Len(published) : \A d \in Elements(published[j]) : Behind(next + Limit, d)
  BY <1>1, GoesOn
<1>4. \A d : Behind(next + Limit, d) => Behind(next, d)'
  BY <1>1 DEF Behind
<1>5. Sent'
  BY <1>1, <1>3, <1>4 DEF OrderInv, Sent
<1> QED
  BY <1>2, <1>5

\* The batch is done with, or lost with the buffer: nothing is in memory of
\* what came before.
LEMMA OrderDone ==
    ASSUME OrderInv, FlushDone \/ Stops
    PROVE  Once' /\ Queued' /\ Sent' /\ Ordered'
<1>1. /\ UNCHANGED <<open, recorded, published>> /\ batch' = <<>> /\ next' = 0
      /\ buffer' = buffer \/ buffer' = <<>>
  BY DEF FlushDone, Stops
<1>2. ~resent'
  <2>1. CASE Stops
    BY <2>1 DEF Stops
  <2>2. CASE FlushDone
    <3>1. ~(next < Len(batch))
      BY <2>2 DEF FlushDone, OrderInv, BatchInv, TypeOK
    <3> QED
      BY <2>2, <3>1 DEF FlushDone, OrderInv, Sent
  <2> QED
    BY <2>1, <2>2
<1>3. /\ Elements(batch') = {} /\ Len(batch') = 0
      /\ Elements(buffer') \subseteq Elements(buffer)
  BY <1>1 DEF Elements
<1>4. Once' /\ Ordered'
  BY <1>1 DEF OrderInv, Once, Ordered
<1>5. Queued'
  <2>1. InOrder(recorded', buffer')
    BY <1>1 DEF OrderInv, Queued, InOrder
  <2> QED
    BY <1>1, <1>3, <2>1 DEF OrderInv, Queued, InOrder, Past
<1>6. Sent'
  <2>1. ASSUME NEW j \in 1 .. Len(published)
        PROVE  /\ Elements(published[j]) \subseteq Elements(recorded)
               /\ Past(recorded, published[j], buffer')
    BY <1>3 DEF OrderInv, Sent, Past
  <2>2. \A d : Behind(next, d)'
    BY <1>1, <1>3 DEF Behind
  <2> QED
    BY <1>1, <1>2, <2>1, <2>2 DEF Sent
<1> QED
  BY <1>4, <1>5, <1>6

\* The order is kept by every step.
LEMMA OrderStep ==
    ASSUME OrderInv, BatchInv', [Next]_vars
    PROVE  OrderInv'
<1>1. ASSUME NEW c \in Calls, Record(c) PROVE Once' /\ Queued' /\ Sent' /\ Ordered'
  BY <1>1, OrderRecord
<1>2. CASE Tick \/ UNCHANGED vars
  <2>1. UNCHANGED <<open, buffer, flushing, batch, next, recorded, published, resent>>
    BY <1>2 DEF Tick, vars
  <2> QED
    BY <2>1 DEF OrderInv, Once, Queued, Sent, Ordered, Behind, Again, ChunkAtNext, End
<1> QED
  BY <1>1, <1>2, OrderTake, OrderPublish, OrderFails, OrderDone DEF OrderInv, Next, Flush

\* When nothing is recorded twice, the order is that of the positions.
LEMMA PositionsInOrder ==
    ASSUME Once, recorded \in Seq(Data), NEW d, NEW e, Before(recorded, d, e)
    PROVE  (CHOOSE i \in 1 .. Len(recorded) : recorded[i] = d)
             < (CHOOSE i \in 1 .. Len(recorded) : recorded[i] = e)
<1>1. PICK i \in 1 .. Len(recorded), k \in 1 .. Len(recorded) :
         i < k /\ recorded[i] = d /\ recorded[k] = e
  BY DEF Before
<1>2. (CHOOSE x \in 1 .. Len(recorded) : recorded[x] = d) = i
  BY <1>1 DEF Once
<1>3. (CHOOSE x \in 1 .. Len(recorded) : recorded[x] = e) = k
  BY <1>1 DEF Once
<1> QED
  BY <1>1, <1>2, <1>3

\* However recording and flushing overlap, whatever is sent again, given up or
\* lost at a stop, what is published is in the order of its recording.
THEOREM PublicationIsInOrder == Spec => []PublishedInOrder
<1>1. Init => OrderInv
  <2>1. ASSUME Init PROVE Once /\ Queued /\ Sent /\ Ordered
    BY <2>1 DEF Init, Once, Queued, Sent, Ordered, InOrder, Past, Elements
  <2> QED
    BY <2>1, TypeInit DEF OrderInv
<1>2. OrderInv /\ [Next]_vars => OrderInv'
  BY TypeStep, OrderStep DEF OrderInv
<1>3. OrderInv => PublishedInOrder
  <2> SUFFICES ASSUME OrderInv PROVE PublishedInOrder
    OBVIOUS
  <2> DEFINE Position(d) == CHOOSE i \in 1 .. Len(recorded) : recorded[i] = d
             Precedes(s, t) == \A d \in Elements(s), e \in Elements(t) : Position(d) < Position(e)
  <2>1. \A d, e : Before(recorded, d, e) => Position(d) < Position(e)
    BY PositionsInOrder DEF OrderInv, BatchInv, TypeOK
  <2> HIDE DEF Position
  <2>2. \A s, t : Past(recorded, s, t) => Precedes(s, t)
    BY <2>1 DEF Past
  <2> HIDE DEF Precedes
  <2>3. \A j \in 1 .. Len(published) : \A i \in 1 .. j - 1 :
           \/ Precedes(published[i], published[j])
           \/ published[i] = published[j] /\ i = j - 1 /\ Faults
    BY <2>2 DEF OrderInv, Ordered
  <2> QED
    BY <2>3 DEF PublishedInOrder, Precedes, Position
<1> QED
  BY <1>1, <1>2, <1>3, PTL DEF Spec

=============================================================================
