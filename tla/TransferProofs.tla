--------------------------- MODULE TransferProofs ---------------------------
(* Proofs, for files, chunks and parts of every size, and for every fault   *)
(* and every point at which the stream breaks, of the safety properties of  *)
(* Transfer: what arrives is the file, byte for byte.                       *)
EXTENDS Transfer, SequenceTheorems, TLAPS

----------------------------------------------------------------------------
(* Pieces of the file *)

\* The bytes of the file after the first a, up to the first b.
Span(a, b) == SubSeq(Source, a + 1, b)

\* Lengths of spans, and that adjacent spans make up a span.
LEMMA SpanFacts ==
    ASSUME job \in Jobs, NEW a \in 0 .. job.size, NEW b \in a .. job.size
    PROVE  /\ Span(a, b) \in Seq(1 .. job.size)
           /\ Len(Span(a, b)) = b - a
           /\ \A c \in b .. job.size : Span(a, b) \o Span(b, c) = Span(a, c)
<1>1. job.size \in Nat
  BY TransferAssumption DEF Jobs
<1>2. Source \in Seq(1 .. job.size) /\ Len(Source) = job.size
  BY <1>1 DEF Source
<1>3. \A i \in a + 1 .. b : Source[i] \in 1 .. job.size
  BY <1>1 DEF Source
<1>4. SubSeq(Source, a + 1, b) \in Seq(1 .. job.size)
  BY <1>1, <1>3, SubSeqProperties
<1>5. Len(SubSeq(Source, a + 1, b)) = b - a
  BY <1>1, <1>3, SubSeqProperties
<1>6. ASSUME NEW c \in b .. job.size PROVE Span(a, b) \o Span(b, c) = Span(a, c)
  <2>1. /\ a + 1 \in 1 .. Len(Source) + 1
        /\ b \in (a + 1) - 1 .. Len(Source)
        /\ c \in b .. Len(Source)
    BY <1>1, <1>2
  <2>2. SubSeq(Source, a + 1, b) \o SubSeq(Source, b + 1, c) = SubSeq(Source, a + 1, c)
    BY <1>2, <2>1, ConcatAdjacentSubSeq
  <2> QED
    BY <2>2 DEF Span
<1> QED
  BY <1>4, <1>5, <1>6 DEF Span

\* The empty span, and the whole file.
LEMMA SpanEnds ==
    ASSUME job \in Jobs
    PROVE  /\ \A a \in 0 .. job.size : Span(a, a) = <<>>
           /\ Span(0, job.size) = Source
           /\ job.size \in Nat
           /\ Source = <<>> <=> job.size = 0
<1>1. job.size \in Nat
  BY TransferAssumption DEF Jobs
<1>2. Source \in Seq(1 .. job.size) /\ Len(Source) = job.size
  BY <1>1 DEF Source
<1>3. \A a \in 0 .. job.size : Span(a, a) = <<>>
  <2> TAKE a \in 0 .. job.size
  <2> QED
    BY <1>1, SubSeqEmpty DEF Span
<1>4. SubSeq(Source, 1, job.size) = Source
  BY <1>2, SubSeqFull
<1> QED
  BY <1>1, <1>2, <1>3, <1>4 DEF Span

----------------------------------------------------------------------------
(* The parts *)

\* g is the recursive function in Contents: what the first i of the parts make up.
Assembling(g, n, parts) ==
    g = [i \in 0 .. n |-> IF i = 0 THEN <<>> ELSE g[i - 1] \o parts[i]]

IsFunction(g, n) == g = [i \in 0 .. n |-> g[i]]

\* The function, point by point.
LEMMA AssemblingPoints ==
    ASSUME NEW n \in Nat, NEW parts, NEW g
    PROVE  Assembling(g, n, parts) <=>
              /\ IsFunction(g, n)
              /\ g[0] = <<>>
              /\ \A i \in 1 .. n : g[i] = g[i - 1] \o parts[i]
<1> DEFINE F == [i \in 0 .. n |-> IF i = 0 THEN <<>> ELSE g[i - 1] \o parts[i]]
           G == [i \in 0 .. n |-> g[i]]
<1>1. /\ DOMAIN F = 0 .. n /\ DOMAIN G = 0 .. n
      /\ \A i \in 0 .. n : F[i] = IF i = 0 THEN <<>> ELSE g[i - 1] \o parts[i]
      /\ \A i \in 0 .. n : G[i] = g[i]
      /\ F = [i \in 0 .. n |-> F[i]] /\ G = [i \in 0 .. n |-> G[i]]
  OBVIOUS
<1>2. (\A i \in 0 .. n : F[i] = G[i]) => F = G
  OBVIOUS
<1> HIDE DEF F, G
<1>3. F[0] = <<>> /\ \A i \in 1 .. n : F[i] = g[i - 1] \o parts[i]
  BY <1>1
<1>4. ASSUME g = F
      PROVE  g = G /\ g[0] = <<>> /\ \A i \in 1 .. n : g[i] = g[i - 1] \o parts[i]
  BY <1>1, <1>2, <1>3, <1>4
<1>5. ASSUME g = G, g[0] = <<>>, \A i \in 1 .. n : g[i] = g[i - 1] \o parts[i]
      PROVE  g = F
  <2>1. \A i \in 0 .. n : i = 0 \/ i \in 1 .. n
    OBVIOUS
  <2>2. \A i \in 0 .. n : F[i] = G[i]
    BY <1>1, <1>3, <1>5, <2>1
  <2> QED
    BY <1>2, <1>5, <2>2
<1> QED
  BY <1>4, <1>5 DEF Assembling, IsFunction, F, G

\* The parts up to number n are the same.
SameUpTo(n, parts, new) == \A i \in 1 .. n : new[i] = parts[i]

\* Only the parts listed count.
LEMMA AssemblingSame ==
    ASSUME NEW n \in Nat, NEW parts, NEW new, SameUpTo(n, parts, new), NEW g
    PROVE  Assembling(g, n, parts) <=> Assembling(g, n, new)
<1>1. Assembling(g, n, parts) <=> /\ IsFunction(g, n) /\ g[0] = <<>>
                                  /\ \A i \in 1 .. n : g[i] = g[i - 1] \o parts[i]
  BY AssemblingPoints
<1>2. Assembling(g, n, new) <=> /\ IsFunction(g, n) /\ g[0] = <<>>
                                /\ \A i \in 1 .. n : g[i] = g[i - 1] \o new[i]
  BY AssemblingPoints
<1> QED
  BY <1>1, <1>2 DEF SameUpTo

\* The function with another value, and without its last one.
Extended(g, n, e) == [i \in 0 .. n + 1 |-> IF i = n + 1 THEN e ELSE g[i]]
Shortened(g, n) == [i \in 0 .. n |-> g[i]]

LEMMA ExtendedFacts ==
    ASSUME NEW n \in Nat, NEW g, NEW e
    PROVE  /\ IsFunction(Extended(g, n, e), n + 1)
           /\ Extended(g, n, e)[n + 1] = e
           /\ \A i \in 0 .. n : Extended(g, n, e)[i] = g[i]
  BY DEF Extended, IsFunction

LEMMA ShortenedFacts ==
    ASSUME NEW n \in Nat, NEW g
    PROVE  /\ IsFunction(Shortened(g, n), n)
           /\ \A i \in 0 .. n : Shortened(g, n)[i] = g[i]
  BY DEF Shortened, IsFunction

\* One part more.
LEMMA AssemblingMore ==
    ASSUME NEW n \in Nat, NEW parts, NEW new, SameUpTo(n, parts, new),
           NEW g, Assembling(g, n, parts)
    PROVE  Assembling(Extended(g, n, g[n] \o new[n + 1]), n + 1, new)
<1> DEFINE e == g[n] \o new[n + 1]
           h == Extended(g, n, e)
<1>1. g[0] = <<>> /\ \A i \in 1 .. n : g[i] = g[i - 1] \o parts[i]
  BY AssemblingPoints
<1> HIDE DEF e
<1>2. IsFunction(h, n + 1) /\ h[n + 1] = e /\ \A i \in 0 .. n : h[i] = g[i]
  BY ExtendedFacts
<1> HIDE DEF h
<1>3. ASSUME NEW i \in 1 .. n + 1 PROVE h[i] = h[i - 1] \o new[i]
  <2>1. i = n + 1 \/ i \in 1 .. n
    OBVIOUS
  <2>2. CASE i = n + 1
    <3>1. i - 1 = n /\ n \in 0 .. n
      BY <2>2
    <3> QED
      BY <1>2, <2>2, <3>1 DEF e
  <2>3. CASE i \in 1 .. n
    <3>1. i \in 0 .. n /\ i - 1 \in 0 .. n
      BY <2>3
    <3> QED
      BY <1>1, <1>2, <2>3, <3>1 DEF SameUpTo
  <2> QED
    BY <2>1, <2>2, <2>3
<1>4. h[0] = <<>> /\ n + 1 \in Nat
  BY <1>1, <1>2
<1>5. Assembling(h, n + 1, new)
  BY <1>2, <1>3, <1>4, AssemblingPoints
<1> QED
  BY <1>5 DEF h, e

\* One part less.
LEMMA AssemblingLess ==
    ASSUME NEW n \in Nat, NEW parts, NEW new, SameUpTo(n, parts, new),
           NEW g, Assembling(g, n + 1, new)
    PROVE  /\ Assembling(Shortened(g, n), n, parts)
           /\ g[n + 1] = Shortened(g, n)[n] \o new[n + 1]
<1> DEFINE h == Shortened(g, n)
<1>0. n + 1 \in Nat
  OBVIOUS
<1>1. g[0] = <<>> /\ \A i \in 1 .. n + 1 : g[i] = g[i - 1] \o new[i]
  BY <1>0, AssemblingPoints
<1>2. IsFunction(h, n) /\ \A i \in 0 .. n : h[i] = g[i]
  BY ShortenedFacts
<1> HIDE DEF h
<1>3. ASSUME NEW i \in 1 .. n PROVE h[i] = h[i - 1] \o parts[i]
  <2>1. i \in 0 .. n /\ i - 1 \in 0 .. n /\ i \in 1 .. n + 1
    OBVIOUS
  <2> QED
    BY <1>1, <1>2, <2>1 DEF SameUpTo
<1>4. h[0] = <<>>
  BY <1>1, <1>2
<1>5. Assembling(h, n, parts)
  BY <1>2, <1>3, <1>4, AssemblingPoints
<1>6. g[n + 1] = h[n] \o new[n + 1]
  <2>1. n + 1 \in 1 .. n + 1 /\ (n + 1) - 1 = n /\ n \in 0 .. n
    OBVIOUS
  <2>2. g[n + 1] = g[(n + 1) - 1] \o new[n + 1]
    BY <1>1, <2>1
  <2> QED
    BY <1>2, <2>1, <2>2
<1> QED
  BY <1>5, <1>6 DEF h

\* The listed parts make up the first m bytes of the file, and none is empty.
Flat(m) ==
    /\ m \in 0 .. job.size /\ number - 1 <= m
    /\ \E g : Assembling(g, number - 1, stored)
    /\ \A g : Assembling(g, number - 1, stored) => g[number - 1] = Span(0, m)

\* What the operator Contents computes is what the parts make up.
LEMMA FlatContents ==
    ASSUME NEW m, Flat(m)
    PROVE  Contents = Span(0, m)
<1> DEFINE upto == CHOOSE g : Assembling(g, number - 1, stored)
<1>1. Assembling(upto, number - 1, stored)
  BY DEF Flat
<1>2. Contents = upto[number - 1]
  BY DEF Contents, Assembling
<1> QED
  BY <1>1, <1>2 DEF Flat

\* A part stored under the current number, whether it gets listed or not.
LEMMA StoredPart ==
    ASSUME NEW S, NEW parts \in Seq(Seq(S)), NEW part \in Seq(S),
           NEW n \in Nat \ {0}, n - 1 <= Len(parts)
    PROVE  LET new == SubSeq(parts, 1, n - 1) \o <<part>>
           IN  /\ new \in Seq(Seq(S)) /\ Len(new) = n /\ new[n] = part
               /\ \A i \in 1 .. n - 1 : new[i] = parts[i]
<1>1. \A i \in 1 .. n - 1 : parts[i] \in Seq(S)
  OBVIOUS
<1> DEFINE kept == SubSeq(parts, 1, n - 1)
<1>2. /\ kept \in Seq(Seq(S)) /\ Len(kept) = n - 1
      /\ \A i \in 1 .. n - 1 : kept[i] = parts[i]
  BY <1>1, SubSeqProperties
<1>3. <<part>> \in Seq(Seq(S)) /\ Len(<<part>>) = 1 /\ <<part>>[1] = part
  OBVIOUS
<1> HIDE DEF kept
<1>4. /\ kept \o <<part>> \in Seq(Seq(S))
      /\ Len(kept \o <<part>>) = n
      /\ \A i \in 1 .. n : (kept \o <<part>>)[i] =
              IF i <= n - 1 THEN kept[i] ELSE <<part>>[i - (n - 1)]
  BY <1>2, <1>3, ConcatProperties
<1> QED
  BY <1>2, <1>3, <1>4 DEF kept

\* Storing again under the current number changes nothing that is listed.
LEMMA FlatStays ==
    ASSUME NEW m, Flat(m), number \in Nat \ {0}, UNCHANGED <<job, number>>,
           SameUpTo(number - 1, stored, stored')
    PROVE  Flat(m)'
<1> DEFINE k == number - 1
<1>1. k \in Nat /\ SameUpTo(k, stored, stored')
  OBVIOUS
<1>2. \A g : Assembling(g, k, stored) <=> Assembling(g, k, stored')
  <2> HIDE DEF k
  <2> QED
    BY <1>1, AssemblingSame
<1>3. Span(0, m)' = Span(0, m)
  BY DEF Span, Source
<1> QED
  BY <1>2, <1>3 DEF Flat

\* Listing the part that follows.
LEMMA FlatGrows ==
    ASSUME job \in Jobs, NEW m, Flat(m), NEW n \in 0 .. job.size, m < n,
           number \in Nat \ {0}, number' = number + 1, UNCHANGED job,
           SameUpTo(number - 1, stored, stored'), stored'[number] = Span(m, n)
    PROVE  Flat(n)'
<1> DEFINE k == number - 1
<1>1. job.size \in Nat /\ m \in 0 .. job.size /\ number - 1 <= m
  BY SpanEnds DEF Flat
<1>2. Span(0, m) \o Span(m, n) = Span(0, n)
  <2>1. 0 \in 0 .. job.size /\ m \in 0 .. job.size /\ n \in m .. job.size
    BY <1>1
  <2> QED
    BY <2>1, SpanFacts
<1>3. k \in Nat /\ k + 1 = number /\ number' - 1 = k + 1 /\ SameUpTo(k, stored, stored')
  OBVIOUS
<1>4. /\ \E g : Assembling(g, k, stored)
      /\ \A g : Assembling(g, k, stored) => g[k] = Span(0, m)
  BY DEF Flat
<1> HIDE DEF k
<1>5. \E g : Assembling(g, k + 1, stored')
  <2>1. PICK g : Assembling(g, k, stored)
    BY <1>4
  <2>2. Assembling(Extended(g, k, g[k] \o stored'[k + 1]), k + 1, stored')
    BY <1>3, <2>1, AssemblingMore
  <2> QED
    BY <2>2
<1>6. ASSUME NEW g, Assembling(g, k + 1, stored') PROVE g[k + 1] = Span(0, n)
  <2> DEFINE h == Shortened(g, k)
  <2>1. Assembling(h, k, stored) /\ g[k + 1] = h[k] \o stored'[k + 1]
    BY <1>3, <1>6, AssemblingLess
  <2> HIDE DEF h
  <2>2. h[k] = Span(0, m)
    BY <1>4, <2>1
  <2> QED
    BY <1>2, <1>3, <2>1, <2>2
<1>7. Span(0, n)' = Span(0, n)
  BY DEF Span, Source
<1>8. n \in 0 .. job'.size /\ number' - 1 <= n
  BY <1>1
<1> QED
  BY <1>3, <1>5, <1>6, <1>7, <1>8 DEF Flat

----------------------------------------------------------------------------
(* The stream *)

Messages == [data: Seq(1 .. job.size), last: BOOLEAN]

\* off[i] bytes come before the i-th message on the stream, and the messages
\* carry the bytes between.  What has been sent is on the stream or taken off it,
\* unless an upload's stream has broken.  The half-close is the last message.
Offsets(off) ==
    /\ off \in [1 .. Len(pipe) + 1 -> 0 .. sent]
    /\ \A i \in 1 .. Len(pipe) :
          /\ off[i] <= off[i + 1] /\ pipe[i].data = Span(off[i], off[i + 1])
          /\ pipe[i].last => /\ Uploading /\ i = Len(pipe) /\ off[i] = job.size
                             /\ client \notin {"start", "read"}
    /\ (Uploading /\ broken) \/ off[Len(pipe) + 1] = sent

\* Nothing happens on the stream.
LEMMA OffsetsStay ==
    ASSUME TypeOK, NEW off, Offsets(off), UNCHANGED <<job, pipe>>,
           sent' \in sent .. job.size, broken \in {FALSE, broken'},
           client \in {"start", "read"} \/ client' \notin {"start", "read"},
           sent' = sent \/ (Uploading /\ broken')
    PROVE  Offsets(off)'
<1>1. job.size \in Nat /\ sent \in 0 .. job.size /\ pipe \in Seq(Messages)
  BY SpanEnds DEF TypeOK, Messages
<1>2. \A a, b : Span(a, b)' = Span(a, b)
  BY DEF Span, Source
<1>3. off \in [1 .. Len(pipe) + 1 -> 0 .. sent']
  BY <1>1 DEF Offsets
<1>4. (Uploading /\ broken') \/ off[Len(pipe) + 1] = sent'
  BY DEF Offsets, TypeOK
<1>5. Uploading' = Uploading
  BY DEF Uploading
<1> QED
  BY <1>2, <1>3, <1>4, <1>5 DEF Offsets

\* The sender puts a message on the stream.
LEMMA OffsetsGrow ==
    ASSUME TypeOK, NEW off, Offsets(off), UNCHANGED <<job, broken>>,
           off[Len(pipe) + 1] = sent, sent' \in sent .. job.size,
           NEW msg \in Messages, pipe' = Append(pipe, msg), msg.data = Span(sent, sent'),
           \A i \in 1 .. Len(pipe) : ~pipe[i].last,
           msg.last => Uploading /\ sent = job.size /\ client' \notin {"start", "read"}
    PROVE  \E new : Offsets(new)' /\ new[1] = off[1]
<1>1. job.size \in Nat /\ sent \in 0 .. job.size /\ pipe \in Seq(Messages)
  BY SpanEnds DEF TypeOK, Messages
<1>2. /\ pipe' \in Seq(Messages) /\ Len(pipe') = Len(pipe) + 1 /\ Len(pipe) \in Nat
      /\ \A i \in 1 .. Len(pipe) : pipe'[i] = pipe[i]
      /\ pipe'[Len(pipe) + 1] = msg
  BY <1>1
<1>3. PICK k \in Nat : k = Len(pipe)
  BY <1>2
<1>4. PICK n \in Nat : n = sent'
  BY <1>1
<1>5. PICK new : new = [i \in 1 .. k + 2 |-> IF i = k + 2 THEN n ELSE off[i]]
  OBVIOUS
<1>6. /\ off \in [1 .. k + 1 -> 0 .. sent]
      /\ \A i \in 1 .. k : /\ off[i] <= off[i + 1] /\ pipe[i].data = Span(off[i], off[i + 1])
                           /\ ~pipe[i].last
      /\ off[k + 1] = sent
  BY <1>3 DEF Offsets
<1>7. /\ new \in [1 .. k + 2 -> 0 .. n] /\ new[k + 2] = n
      /\ \A i \in 1 .. k + 1 : new[i] = off[i]
  BY <1>1, <1>4, <1>5, <1>6
<1>8. \A a, b : Span(a, b)' = Span(a, b)
  BY DEF Span, Source
<1>9. ASSUME NEW i \in 1 .. k + 1
      PROVE  /\ new[i] <= new[i + 1] /\ pipe'[i].data = Span(new[i], new[i + 1])'
             /\ pipe'[i].last => /\ Uploading' /\ i = k + 1 /\ new[i] = job.size
                                 /\ client' \notin {"start", "read"}
  <2>1. CASE i = k + 1
    BY <1>1, <1>2, <1>3, <1>4, <1>6, <1>7, <1>8, <2>1 DEF Uploading
  <2>2. CASE i \in 1 .. k
    <3>1. new[i] = off[i] /\ new[i + 1] = off[i + 1]
      BY <1>7, <2>2
    <3> QED
      BY <1>2, <1>3, <1>6, <1>8, <2>2, <3>1
  <2>3. i = k + 1 \/ i \in 1 .. k
    OBVIOUS
  <2> QED
    BY <2>1, <2>2, <2>3
<1>10. Len(pipe') = k + 1
  BY <1>2, <1>3
<1>11. Offsets(new)'
  BY <1>4, <1>7, <1>9, <1>10 DEF Offsets
<1> QED
  BY <1>7, <1>11

\* The receiver takes a message off the stream.
LEMMA OffsetsShrink ==
    ASSUME TypeOK, NEW off, Offsets(off), UNCHANGED <<job, sent>>,
           pipe # <<>>, pipe' = Tail(pipe), broken \in {FALSE, broken'},
           client \in {"start", "read"} \/ client' \notin {"start", "read"}
    PROVE  /\ \E new : Offsets(new)' /\ new[1] = off[2]
           /\ Head(pipe) = pipe[1] /\ 1 \in 1 .. Len(pipe)
           /\ off[1] \in 0 .. job.size /\ off[2] \in off[1] .. job.size
           /\ Head(pipe).data = Span(off[1], off[2])
<1>1. job.size \in Nat /\ sent \in 0 .. job.size /\ pipe \in Seq(Messages)
  BY SpanEnds DEF TypeOK, Messages
<1>2. /\ pipe' \in Seq(Messages) /\ Len(pipe) \in Nat \ {0} /\ Len(pipe') = Len(pipe) - 1
      /\ \A i \in 1 .. Len(pipe) - 1 : pipe'[i] = pipe[i + 1]
      /\ Head(pipe) = pipe[1]
  BY <1>1
<1>3. PICK k \in Nat : Len(pipe) = k + 1
  <2>1. Len(pipe) - 1 \in Nat /\ Len(pipe) = (Len(pipe) - 1) + 1
    BY <1>2
  <2> QED
    BY <2>1
<1>4. PICK new : new = [i \in 1 .. k + 1 |-> off[i + 1]]
  OBVIOUS
<1>5. /\ off \in [1 .. k + 2 -> 0 .. sent]
      /\ \A i \in 1 .. k + 1 :
            /\ off[i] <= off[i + 1] /\ pipe[i].data = Span(off[i], off[i + 1])
            /\ pipe[i].last => /\ Uploading /\ i = k + 1 /\ off[i] = job.size
                               /\ client \notin {"start", "read"}
      /\ (Uploading /\ broken) \/ off[k + 2] = sent
  BY <1>3 DEF Offsets
<1>6. /\ new \in [1 .. k + 1 -> 0 .. sent]
      /\ \A i \in 1 .. k + 1 : new[i] = off[i + 1]
  BY <1>4, <1>5
<1>7. \A a, b : Span(a, b)' = Span(a, b)
  BY DEF Span, Source
<1>8. ASSUME NEW i \in 1 .. k
      PROVE  /\ new[i] <= new[i + 1] /\ pipe'[i].data = Span(new[i], new[i + 1])'
             /\ pipe'[i].last => /\ Uploading' /\ i = k /\ new[i] = job.size
                                 /\ client' \notin {"start", "read"}
  <2>1. /\ i + 1 \in 1 .. k + 1 /\ pipe'[i] = pipe[i + 1]
        /\ new[i] = off[i + 1] /\ new[i + 1] = off[(i + 1) + 1]
    BY <1>2, <1>3, <1>6
  <2>2. /\ new[i] <= new[i + 1] /\ pipe'[i].data = Span(new[i], new[i + 1])
        /\ pipe'[i].last => /\ Uploading /\ i + 1 = k + 1 /\ new[i] = job.size
                            /\ client \notin {"start", "read"}
    BY <1>5, <2>1
  <2>3. job' = job /\ Uploading' = Uploading
    BY DEF Uploading
  <2>4. Span(new[i], new[i + 1])' = Span(new[i], new[i + 1])
    BY <1>7
  <2>5. i + 1 = k + 1 => i = k
    OBVIOUS
  <2> QED
    BY <2>2, <2>3, <2>4, <2>5
<1>9. Len(pipe') = k /\ ((Uploading' /\ broken') \/ new[k + 1] = sent')
  <2>1. Len(pipe') = k /\ k + 1 \in 1 .. k + 1 /\ (k + 1) + 1 = k + 2
    BY <1>2, <1>3
  <2>2. new[k + 1] = off[k + 2]
    BY <1>6, <2>1
  <2>3. Uploading' = Uploading /\ sent' = sent
    BY DEF Uploading
  <2>4. broken => broken'
    BY DEF TypeOK
  <2> QED
    BY <1>5, <2>1, <2>2, <2>3, <2>4
<1>10. Offsets(new)'
  BY <1>6, <1>8, <1>9 DEF Offsets
<1>11. /\ 1 \in 1 .. Len(pipe) /\ new[1] = off[2]
       /\ off[1] \in 0 .. job.size /\ off[2] \in off[1] .. job.size
       /\ Head(pipe).data = Span(off[1], off[2])
  BY <1>1, <1>2, <1>3, <1>5, <1>6
<1> QED
  BY <1>2, <1>10, <1>11

\* What a read returns is the span that follows what has been sent.
LEMMA ReadFacts ==
    ASSUME TypeOK, NEW bytes \in Reads
    PROVE  /\ bytes \in Seq(1 .. job.size) /\ Len(bytes) \in Nat \ {0}
           /\ sent + Len(bytes) \in sent .. job.size
           /\ bytes = Span(sent, sent + Len(bytes))
<1>1. job \in Jobs /\ job.size \in Nat /\ sent \in 0 .. job.size /\ ChunkSize \in Nat
  BY SpanEnds, TransferAssumption DEF TypeOK
<1>2. PICK n \in 1 .. ChunkSize : sent + n <= job.size /\ bytes = Span(sent, sent + n)
  BY DEF Reads, Span
<1>3. sent + n \in sent .. job.size
  BY <1>1, <1>2
<1>4. bytes \in Seq(1 .. job.size) /\ Len(bytes) = (sent + n) - sent
  BY <1>1, <1>2, <1>3, SpanFacts
<1>5. Len(bytes) = n
  BY <1>1, <1>4
<1> QED
  BY <1>1, <1>2, <1>3, <1>4, <1>5

----------------------------------------------------------------------------
(* The invariant *)

\* Which side of the code each end is in.
Positions ==
    /\ client \in {"read", "wait"} => Uploading
    /\ client = "recv" => ~Uploading
    /\ server \in {"recv", "flush", "lastpart", "complete", "row", "abort"} => Uploading
    /\ server = "send" => ~Uploading

\* Listed parts, buffer and stream make up what the client has sent.
Flow == \E off : /\ Offsets(off)
                 /\ \E m : Flat(m) /\ m <= off[1] /\ buf = Span(m, off[1])

\* How far an upload has come.
Progress ==
    /\ Uploading /\ server \in {"start", "recv", "flush"} => Flow
    /\ server = "lastpart" => buf # <<>> /\ \E m : Flat(m) /\ buf = Span(m, job.size)
    /\ server = "complete" => Flat(job.size)

\* Every listed part but the one made at the end of the stream is full, and the
\* buffer is what a flush or a start needs.
Parts ==
    /\ number - 1 <= Len(stored)
    /\ \A i \in 1 .. number - 1 :
          \/ Len(stored[i]) >= MinPart
          \/ i = number - 1 /\ server \notin {"start", "recv", "flush", "lastpart"}
    /\ server = "flush" => Len(buf) >= MinPart
    /\ server = "start" => buf = <<>>

\* What an upload past its completion has achieved.
Outcome ==
    /\ server = "row" => object = Source
    /\ Uploading /\ server = "ok" => object = Source /\ row
    /\ UploadsAreWhole /\ SuccessIsStored /\ RefusalsAreEmpty

\* Nothing that was received has failed to be written.
Saving == disk = "fine" \/ (Gui /\ client \in {"start", "recv"})

\* The local file and the stream make up what a download's handler has sent, as
\* long as everything received has been written.
Received ==
    /\ ~Uploading => \E off : Offsets(off) /\ (Saving => saved = Span(0, off[1]))
    /\ ~Uploading /\ server = "ok" => sent = job.size
    /\ DownloadsAreWhole

Inv == TypeOK /\ Positions /\ Progress /\ Parts /\ Outcome /\ Received

\* Inv holds at the start.
LEMMA InvInit == Init => Inv
<1> SUFFICES ASSUME Init PROVE Inv
  OBVIOUS
<1>1. job \in Jobs /\ job.size \in Nat /\ Span(0, 0) = <<>> /\ 0 \in 0 .. job.size
  BY SpanEnds DEF Init
<1>2. TypeOK
  <2>1. /\ <<>> \in Seq(Messages) /\ <<>> \in Seq(1 .. job.size)
        /\ <<>> \in Seq(Seq(1 .. job.size))
    OBVIOUS
  <2>2. 0 \in 0 .. job.size /\ 1 \in 1 .. job.size + 1
    BY <1>1
  <2> QED
    BY <2>1, <2>2 DEF Init, TypeOK, Ended, Messages
<1>3. Positions /\ Parts
  BY DEF Init, Positions, Parts
<1>4. PICK off : off = [i \in 1 .. 1 |-> 0]
  OBVIOUS
<1>5. Offsets(off) /\ off[1] = 0
  BY <1>4 DEF Init, Offsets
<1>6. Flat(0)
  <2>1. number - 1 = 0 /\ 0 \in Nat
    BY DEF Init
  <2> DEFINE g == [i \in 0 .. 0 |-> <<>>]
  <2>2. IsFunction(g, 0) /\ g[0] = <<>>
    BY DEF IsFunction
  <2> HIDE DEF g
  <2>3. \A i \in 1 .. 0 : FALSE
    OBVIOUS
  <2>4. Assembling(g, 0, stored)
    BY <2>1, <2>2, <2>3, AssemblingPoints
  <2>5. \A h : Assembling(h, 0, stored) => h[0] = <<>>
    BY <2>1, AssemblingPoints
  <2> QED
    BY <1>1, <2>1, <2>4, <2>5 DEF Flat
<1>7. Progress
  BY <1>1, <1>5, <1>6 DEF Init, Progress, Flow
<1>8. Outcome
  BY DEF Init, Outcome, UploadsAreWhole, SuccessIsStored, RefusalsAreEmpty, Ended
<1>9. Received
  BY <1>1, <1>5 DEF Init, Received, DownloadsAreWhole
<1> QED
  BY <1>2, <1>3, <1>7, <1>8, <1>9 DEF Inv

\* Neither end changes sides, and nothing mends a stream.
LEMMA PositionsStep ==
    ASSUME TypeOK, Positions, [Next]_vars
    PROVE  /\ Positions' /\ UNCHANGED job /\ broken \in {FALSE, broken'}
           /\ client \in {"start", "read"} \/ client' \notin {"start", "read"}
<1> DEFINE Goal == /\ Positions' /\ UNCHANGED job /\ broken \in {FALSE, broken'}
                   /\ client \in {"start", "read"} \/ client' \notin {"start", "read"}
<1> USE DEF TypeOK, Positions, Uploading
<1>1. ASSUME SendMetadata \/ SendChunk \/ SendFails \/ ReadFails \/ CloseSend \/ RecvAnswer
      PROVE  Goal
  BY <1>1 DEF SendMetadata, SendChunk, SendFails, ReadFails, CloseSend, RecvAnswer
<1>2. ASSUME OpenDownload \/ RecvData \/ DownloadEOF \/ DownloadBreaks
      PROVE  Goal
  BY <1>2 DEF OpenDownload, RecvData, DownloadEOF, DownloadBreaks
<1>3. ASSUME StartUpload \/ RecvChunk \/ RecvEOF \/ RecvFails PROVE Goal
  BY <1>3 DEF StartUpload, RecvChunk, RecvEOF, RecvFails
<1>4. ASSUME FlushPart \/ CompleteUpload PROVE Goal
  BY <1>4 DEF FlushPart, CompleteUpload, Reply
<1>5. ASSUME AbortUpload \/ PutRow \/ CallFails PROVE Goal
  BY <1>5 DEF AbortUpload, PutRow, CallFails, AfterFailure, Reply
<1>6. ASSUME StartDownload \/ SendData \/ BodyEOF \/ DownloadFails PROVE Goal
  BY <1>6 DEF StartDownload, SendData, BodyEOF, DownloadFails
<1>7. ASSUME Breaks \/ DiskFails \/ ServerDies \/ Over \/ UNCHANGED vars PROVE Goal
  BY <1>7 DEF Breaks, DiskFails, ServerDies, Over, vars
<1> QED
  BY <1>1, <1>2, <1>3, <1>4, <1>5, <1>6, <1>7 DEF Next, ClientStep, ServerStep

\* An UploadPart stores the buffer under the current number, and the part is
\* listed unless the call failed, lost its reply, or is sent again.
LEMMA FlushFacts ==
    ASSUME Inv, FlushPart
    PROVE  /\ stored' \in Seq(Seq(1 .. job.size)) /\ Len(stored') = number
           /\ stored'[number] = buf /\ SameUpTo(number - 1, stored, stored')
           /\ \/ /\ server' = IF server = "flush" THEN "recv" ELSE "complete"
                 /\ buf' = <<>> /\ number' = number + 1
              \/ server' \in {"abort", server} /\ UNCHANGED <<buf, number>>
<1> DEFINE S == 1 .. job.size
<1>1. /\ stored \in Seq(Seq(S)) /\ buf \in Seq(S) /\ number \in Nat \ {0}
      /\ number - 1 <= Len(stored)
  BY DEF Inv, TypeOK, Parts
<1>2. stored' = SubSeq(stored, 1, number - 1) \o <<buf>>
  BY DEF FlushPart
<1> HIDE DEF S
<1>3. /\ stored' \in Seq(Seq(S)) /\ Len(stored') = number /\ stored'[number] = buf
      /\ \A i \in 1 .. number - 1 : stored'[i] = stored[i]
  BY <1>1, <1>2, StoredPart
<1>4. \/ /\ server' = IF server = "flush" THEN "recv" ELSE "complete"
         /\ buf' = <<>> /\ number' = number + 1
      \/ server' \in {"abort", server} /\ UNCHANGED <<buf, number>>
  BY DEF FlushPart, Reply
<1> QED
  BY <1>3, <1>4 DEF S, SameUpTo

\* What is being flushed is not empty and follows the parts.
LEMMA FlushSpan ==
    ASSUME Inv, server \in {"flush", "lastpart"}
    PROVE  \E m, n : /\ Flat(m) /\ n \in 0 .. job.size /\ m < n /\ buf = Span(m, n)
                     /\ number + 1 <= n + 1
                     /\ server = "lastpart" => n = job.size
<1>1. job \in Jobs /\ job.size \in Nat /\ number \in Nat \ {0} /\ sent \in 0 .. job.size
  BY SpanEnds DEF Inv, TypeOK
<1>2. ASSUME NEW m, NEW n \in 0 .. job.size, Flat(m), m <= n, buf = Span(m, n), buf # <<>>
      PROVE  m < n /\ number + 1 <= n + 1
  <2>1. m \in 0 .. job.size /\ number - 1 <= m
    BY <1>2 DEF Flat
  <2>2. m # n
    BY <1>1, <1>2, <2>1, SpanEnds
  <2> QED
    BY <1>1, <2>1, <2>2, <1>2
<1>3. CASE server = "flush"
  <2>1. Flow
    BY <1>3 DEF Inv, Positions, Progress
  <2>2. PICK off : Offsets(off) /\ \E m : Flat(m) /\ m <= off[1] /\ buf = Span(m, off[1])
    BY <2>1 DEF Flow
  <2>3. PICK m : Flat(m) /\ m <= off[1] /\ buf = Span(m, off[1])
    BY <2>2
  <2>4. off[1] \in 0 .. sent
    <3>1. Len(pipe) \in Nat
      BY DEF Inv, TypeOK
    <3> QED
      BY <2>2, <3>1 DEF Offsets
  <2>5. off[1] \in 0 .. job.size
    BY <1>1, <2>4
  <2>6. buf # <<>>
    BY <1>3, TransferAssumption DEF Inv, Parts, TypeOK
  <2> QED
    BY <1>2, <1>3, <2>3, <2>5, <2>6
<1>4. CASE server = "lastpart"
  <2>1. PICK m : Flat(m) /\ buf = Span(m, job.size)
    BY <1>4 DEF Inv, Progress
  <2>2. buf # <<>>
    BY <1>4 DEF Inv, Progress
  <2>3. m <= job.size /\ job.size \in 0 .. job.size
    BY <1>1, <2>1 DEF Flat
  <2> QED
    BY <1>2, <2>1, <2>2, <2>3
<1> QED
  BY <1>3, <1>4

\* A completion makes the whole file the object, or is refused for an empty one.
LEMMA CompleteFacts ==
    ASSUME Inv, CompleteUpload
    PROVE  \/ object' = Source /\ server' \in {"row", "abort"} /\ refused' = refused
           \/ object' = object /\ server' = "abort" /\ refused' /\ job.size = 0
<1>1. /\ job \in Jobs /\ job.size \in Nat /\ number \in Nat \ {0}
      /\ Flat(job.size) /\ server = "complete"
  BY SpanEnds DEF CompleteUpload, Inv, TypeOK, Progress
<1>2. CASE Completable
  <2>1. object' = Contents /\ server' \in {"row", "abort"} /\ refused' = refused
    BY <1>2 DEF CompleteUpload, Reply
  <2> QED
    BY <1>1, <2>1, FlatContents, SpanEnds
<1>3. CASE ~Completable
  <2>1. number = 1
    <3>1. \A i \in 1 .. number - 2 : Len(stored[i]) >= MinPart
      BY <1>1 DEF Inv, Parts
    <3> QED
      BY <1>1, <1>3, <3>1 DEF Completable
  <2>2. PICK g : Assembling(g, 0, stored)
    BY <1>1, <2>1 DEF Flat
  <2>3. g[0] = <<>>
    BY <2>2, AssemblingPoints
  <2>4. g[0] = Span(0, job.size)
    BY <1>1, <2>1, <2>2 DEF Flat
  <2>5. job.size = 0
    BY <1>1, <2>3, <2>4, SpanEnds
  <2> QED
    BY <1>3, <2>5 DEF CompleteUpload
<1> QED
  BY <1>2, <1>3

\* As long as the handler may still receive, only a receive takes anything off
\* the stream, and whatever is put on it follows what has been sent.
LEMMA StreamStep ==
    ASSUME TypeOK, Positions, [Next]_vars, NEW off, Offsets(off),
           ~Uploading \/ server \notin Ended,
           ~(RecvChunk \/ RecvEOF \/ RecvData)
    PROVE  \E new : Offsets(new)' /\ new[1] = off[1]
<1>0. /\ job \in Jobs /\ job.size \in Nat /\ sent \in 0 .. job.size
      /\ Span(sent, sent) = <<>> /\ UNCHANGED job
      /\ broken \in {FALSE, broken'} /\ broken \in BOOLEAN
      /\ client \in {"start", "read"} \/ client' \notin {"start", "read"}
  BY SpanEnds, PositionsStep DEF TypeOK
<1>1. ASSUME UNCHANGED <<pipe, sent>> PROVE Offsets(off)'
  <2>1. sent' \in sent .. job.size
    BY <1>0, <1>1
  <2> QED
    BY <1>0, <1>1, <2>1, OffsetsStay
<1>2. \A i \in 1 .. Len(pipe) : pipe[i].last => Uploading /\ client \notin {"start", "read"}
  BY DEF Offsets
<1>3. ~broken => off[Len(pipe) + 1] = sent
  BY DEF Offsets
<1>4. ASSUME SendChunk \/ SendData PROVE \E new : Offsets(new)' /\ new[1] = off[1]
  <2>1. PICK bytes \in Reads : pipe' = Append(pipe, Chunk(bytes)) /\ sent' = sent + Len(bytes)
    BY <1>4 DEF SendChunk, SendData
  <2>2. /\ bytes \in Seq(1 .. job.size) /\ sent' \in sent .. job.size
        /\ bytes = Span(sent, sent')
    BY <2>1, ReadFacts
  <2>3. /\ Chunk(bytes) \in Messages /\ Chunk(bytes).data = Span(sent, sent')
        /\ ~Chunk(bytes).last
    BY <2>2 DEF Chunk, Messages
  <2>4. ~broken /\ UNCHANGED broken /\ \A i \in 1 .. Len(pipe) : ~pipe[i].last
    BY <1>2, <1>4 DEF SendChunk, SendData, CanSend, Positions
  <2>5. off[Len(pipe) + 1] = sent
    BY <1>3, <2>4
  <2> HIDE DEF Chunk
  <2> QED
    BY <1>0, <2>1, <2>2, <2>3, <2>4, <2>5, OffsetsGrow
<1>5. ASSUME SendFails PROVE Offsets(off)'
  <2>1. PICK bytes \in Reads : sent' = sent + Len(bytes)
    BY <1>5 DEF SendFails
  <2>2. sent' \in sent .. job.size
    BY <2>1, ReadFacts
  <2>3. Uploading /\ broken' /\ UNCHANGED pipe
    BY <1>0, <1>5 DEF SendFails, SendRefused, Positions
  <2> QED
    BY <1>0, <2>2, <2>3, OffsetsStay
<1>6. ASSUME ReadFails PROVE \E new : Offsets(new)' /\ new[1] = off[1]
  <2>1. CASE UNCHANGED pipe
    <3>1. UNCHANGED sent
      BY <1>6 DEF ReadFails
    <3> QED
      BY <1>1, <2>1, <3>1
  <2>2. CASE ~Gui /\ CanSend /\ pipe' = Append(pipe, Chunk(<<>>)) /\ UNCHANGED broken
    <3>1. Chunk(<<>>) \in Messages /\ Chunk(<<>>).data = Span(sent, sent) /\ ~Chunk(<<>>).last
      BY <1>0 DEF Chunk, Messages
    <3>2. ~broken /\ UNCHANGED sent /\ \A i \in 1 .. Len(pipe) : ~pipe[i].last
      BY <1>2, <1>6, <2>2 DEF ReadFails, CanSend
    <3>3. off[Len(pipe) + 1] = sent /\ sent' \in sent .. job.size
      BY <1>0, <1>3, <3>2
    <3>4. PICK msg : msg = Chunk(<<>>)
      OBVIOUS
    <3>5. /\ msg \in Messages /\ msg.data = Span(sent, sent') /\ ~msg.last
          /\ pipe' = Append(pipe, msg)
      BY <2>2, <3>1, <3>2, <3>4
    <3> QED
      BY <1>0, <2>2, <3>2, <3>3, <3>5, OffsetsGrow
  <2> QED
    BY <1>6, <2>1, <2>2 DEF ReadFails
<1>7. ASSUME CloseSend PROVE \E new : Offsets(new)' /\ new[1] = off[1]
  <2>1. UNCHANGED sent /\ UNCHANGED broken
    BY <1>7 DEF CloseSend
  <2>2. CASE SendRefused
    <3>1. UNCHANGED pipe
      BY <1>7, <2>2 DEF CloseSend, Close
    <3> QED
      BY <1>1, <2>1, <3>1
  <2>3. CASE ~SendRefused
    <3>1. PICK msg : msg = HalfClose
      OBVIOUS
    <3>2. /\ pipe' = Append(pipe, msg) /\ ~broken /\ Uploading
          /\ sent = job.size /\ client' = "wait" /\ client = "read"
      BY <1>7, <2>3, <3>1 DEF CloseSend, Close, SendRefused, AtEOF, Positions
    <3>3. msg \in Messages /\ msg.data = Span(sent, sent')
      BY <1>0, <2>1, <3>1 DEF HalfClose, Messages
    <3>4. off[Len(pipe) + 1] = sent /\ sent' \in sent .. job.size
      BY <1>0, <1>3, <2>1, <3>2
    <3>5. \A i \in 1 .. Len(pipe) : ~pipe[i].last
      BY <1>2, <3>2
    <3> QED
      BY <1>0, <2>1, <3>2, <3>3, <3>4, <3>5, OffsetsGrow
  <2> QED
    BY <2>2, <2>3
<1>8. ASSUME SendMetadata \/ RecvAnswer \/ OpenDownload \/ DownloadEOF \/ DownloadBreaks
      PROVE  UNCHANGED <<pipe, sent>>
  BY <1>8 DEF SendMetadata, RecvAnswer, OpenDownload, DownloadEOF, DownloadBreaks
<1>9. ASSUME \/ StartUpload \/ RecvFails \/ FlushPart \/ CompleteUpload \/ AbortUpload
             \/ PutRow \/ CallFails \/ StartDownload \/ BodyEOF \/ DownloadFails
      PROVE  UNCHANGED <<pipe, sent>>
  BY <1>9 DEF StartUpload, RecvFails, FlushPart, CompleteUpload, AbortUpload, PutRow,
     CallFails, StartDownload, BodyEOF, DownloadFails
<1>10. ASSUME Breaks \/ DiskFails \/ ServerDies \/ Over \/ UNCHANGED vars
       PROVE  UNCHANGED <<pipe, sent>>
  BY <1>10 DEF Breaks, DiskFails, ServerDies, Over, vars
<1> QED
  BY <1>1, <1>4, <1>5, <1>6, <1>7, <1>8, <1>9, <1>10 DEF Next, ClientStep, ServerStep

\* What the handler's state does in a step that neither receives nor flushes.
LEMMA OtherSteps ==
    ASSUME [Next]_vars, ~(RecvChunk \/ RecvEOF \/ FlushPart)
    PROVE  /\ UNCHANGED <<buf, number, stored>>
           /\ \/ server' = server
              \/ server = "start" /\ server' = "recv"
              \/ server' \in {"abort", "row", "send"} \cup Ended
<1> DEFINE Goal == /\ UNCHANGED <<buf, number, stored>>
                   /\ \/ server' = server
                      \/ server = "start" /\ server' = "recv"
                      \/ server' \in {"abort", "row", "send"} \cup Ended
<1>1. ASSUME ClientStep PROVE Goal
  BY <1>1 DEF ClientStep, SendMetadata, SendChunk, SendFails, ReadFails, CloseSend, RecvAnswer,
     OpenDownload, RecvData, DownloadEOF, DownloadBreaks, up
<1>2. ASSUME StartUpload \/ RecvFails \/ CompleteUpload PROVE Goal
  BY <1>2 DEF StartUpload, RecvFails, CompleteUpload, Reply, up, Ended
<1>3. ASSUME AbortUpload \/ PutRow \/ CallFails PROVE Goal
  BY <1>3 DEF AbortUpload, PutRow, CallFails, AfterFailure, Reply, up, Ended
<1>4. ASSUME StartDownload \/ SendData \/ BodyEOF \/ DownloadFails PROVE Goal
  BY <1>4 DEF StartDownload, SendData, BodyEOF, DownloadFails, up, Ended
<1>5. ASSUME Breaks \/ DiskFails \/ ServerDies \/ Over \/ UNCHANGED vars PROVE Goal
  BY <1>5 DEF Breaks, DiskFails, ServerDies, Over, vars, up, Ended
<1> QED
  BY <1>1, <1>2, <1>3, <1>4, <1>5 DEF Next, ServerStep

\* A receive: what the buffer gets is the span that follows it.
LEMMA RecvFacts ==
    ASSUME Inv, RecvChunk \/ RecvEOF
    PROVE  \E off, new, m :
              /\ Offsets(off) /\ Offsets(new)' /\ new[1] = off[2]
              /\ Flat(m) /\ m <= off[1] /\ m \in 0 .. job.size
              /\ off[1] \in 0 .. job.size /\ off[2] \in off[1] .. job.size
              /\ buf = Span(m, off[1]) /\ buf \o Head(pipe).data = Span(m, off[2])
              /\ RecvEOF => off[1] = job.size
<1>1. /\ job \in Jobs /\ job.size \in Nat /\ TypeOK /\ Positions /\ server = "recv" /\ Flow
      /\ UNCHANGED <<job, sent, client, broken>> /\ pipe # <<>> /\ pipe' = Tail(pipe)
  BY SpanEnds DEF Inv, TypeOK, Positions, Progress, RecvChunk, RecvEOF, up
<1>2. PICK off : Offsets(off) /\ \E m : Flat(m) /\ m <= off[1] /\ buf = Span(m, off[1])
  BY <1>1 DEF Flow
<1>3. PICK m : Flat(m) /\ m <= off[1] /\ buf = Span(m, off[1])
  BY <1>2
<1>4. broken \in {FALSE, broken'} /\ (client \in {"start", "read"} \/ client' \notin {"start", "read"})
  <2>1. RecvEOF \/ RecvChunk => [Next]_vars
    BY DEF Next, ServerStep
  <2> QED
    BY <1>1, <2>1, PositionsStep
<1>5. /\ \E new : Offsets(new)' /\ new[1] = off[2]
      /\ Head(pipe) = pipe[1] /\ 1 \in 1 .. Len(pipe)
      /\ off[1] \in 0 .. job.size /\ off[2] \in off[1] .. job.size
      /\ Head(pipe).data = Span(off[1], off[2])
  BY <1>1, <1>2, <1>4, OffsetsShrink
<1>6. PICK new : Offsets(new)' /\ new[1] = off[2]
  BY <1>5
<1>7. m \in 0 .. job.size /\ off[1] \in m .. job.size
  BY <1>1, <1>3, <1>5 DEF Flat
<1>8. Span(m, off[1]) \o Span(off[1], off[2]) = Span(m, off[2])
  BY <1>1, <1>5, <1>7, SpanFacts
<1>9. RecvEOF => off[1] = job.size
  BY <1>2, <1>5 DEF RecvEOF, Offsets
<1> QED
  BY <1>2, <1>3, <1>5, <1>6, <1>7, <1>8, <1>9

\* Progress is kept by every step.
LEMMA ProgressStep ==
    ASSUME Inv, [Next]_vars
    PROVE  Progress'
<1>1. /\ job \in Jobs /\ job.size \in Nat /\ TypeOK /\ Positions /\ UNCHANGED job
      /\ number \in Nat \ {0}
  <2>1. TypeOK /\ Positions
    BY DEF Inv
  <2>2. UNCHANGED job
    BY <2>1, PositionsStep
  <2> QED
    BY <2>1, <2>2, SpanEnds DEF TypeOK
<1>2. \A a, b : Span(a, b)' = Span(a, b)
  BY <1>1 DEF Span, Source
<1>3. ASSUME UNCHANGED <<number, stored>> PROVE \A m : Flat(m) => Flat(m)'
  BY <1>1, <1>2, <1>3 DEF Flat
<1>4. ASSUME RecvChunk PROVE Progress'
  <2>1. PICK off, new, m :
           /\ Offsets(off) /\ Offsets(new)' /\ new[1] = off[2]
           /\ Flat(m) /\ m <= off[1] /\ m \in 0 .. job.size
           /\ off[1] \in 0 .. job.size /\ off[2] \in off[1] .. job.size
           /\ buf = Span(m, off[1]) /\ buf \o Head(pipe).data = Span(m, off[2])
    BY <1>4, RecvFacts
  <2>2. /\ buf' = Span(m, off[2]) /\ UNCHANGED <<number, stored>>
        /\ server' \in {"recv", "flush"}
    BY <1>4, <2>1 DEF RecvChunk
  <2>3. m <= new[1] /\ buf' = Span(m, new[1])' /\ Flat(m)'
    BY <1>1, <1>2, <1>3, <2>1, <2>2
  <2>4. Flow'
    BY <2>1, <2>3 DEF Flow
  <2> QED
    BY <2>2, <2>4 DEF Progress
<1>5. ASSUME RecvEOF PROVE Progress'
  <2>1. PICK off, m : /\ Flat(m) /\ m \in 0 .. job.size /\ m <= off[1]
                      /\ buf = Span(m, off[1]) /\ off[1] = job.size
    BY <1>5, RecvFacts
  <2>2. /\ server' = IF buf = <<>> THEN "complete" ELSE "lastpart"
        /\ UNCHANGED <<number, stored, buf>>
    BY <1>5 DEF RecvEOF, up
  <2>3. Flat(m)'
    BY <1>3, <2>1, <2>2
  <2>4. buf = <<>> => m = job.size
    <3>1. m \in 0 .. job.size /\ job.size \in m .. job.size /\ buf = Span(m, job.size)
      BY <1>1, <2>1
    <3>2. Len(buf) = job.size - m
      BY <1>1, <3>1, SpanFacts
    <3> QED
      BY <1>1, <3>1, <3>2
  <2>5. server' = "complete" => Flat(job.size)'
    BY <1>1, <2>2, <2>3, <2>4
  <2>6. server' = "lastpart" => buf' # <<>> /\ buf' = Span(m, job.size)'
    BY <1>1, <1>2, <2>1, <2>2
  <2> QED
    BY <1>1, <2>2, <2>3, <2>5, <2>6 DEF Progress
<1>6. ASSUME FlushPart PROVE Progress'
  <2>1. /\ server \in {"flush", "lastpart"} /\ UNCHANGED <<pipe, sent, client, broken>>
        /\ SameUpTo(number - 1, stored, stored') /\ stored'[number] = buf
        /\ \/ /\ server' = IF server = "flush" THEN "recv" ELSE "complete"
              /\ buf' = <<>> /\ number' = number + 1
           \/ server' \in {"abort", server} /\ UNCHANGED <<buf, number>>
    BY <1>6, FlushFacts DEF FlushPart
  <2>3. CASE server' = "abort"
    BY <2>3 DEF Progress
  <2>4. CASE server' = server /\ UNCHANGED <<buf, number>>
    <3>1. \A m : Flat(m) => Flat(m)'
      BY <1>1, <2>1, <2>4, FlatStays
    <3>2. \A off : Offsets(off) => Offsets(off)'
      BY <1>1, <1>2, <2>1 DEF Offsets, Uploading
    <3>3. Flow => Flow'
      BY <1>2, <2>4, <3>1, <3>2 DEF Flow
    <3> QED
      BY <1>1, <1>2, <2>1, <2>4, <3>1, <3>3 DEF Inv, Progress, Uploading
  <2>5. CASE /\ server = "flush" /\ server' = "recv"
             /\ buf' = <<>> /\ number' = number + 1
    <3>1. Flow
      BY <2>5 DEF Inv, Positions, Progress
    <3>2. PICK off : Offsets(off) /\ \E m : Flat(m) /\ m <= off[1] /\ buf = Span(m, off[1])
      BY <3>1 DEF Flow
    <3>3. PICK m : Flat(m) /\ m <= off[1] /\ buf = Span(m, off[1])
      BY <3>2
    <3>4. off[1] \in 0 .. job.size /\ m \in 0 .. job.size
      <4>0. Len(pipe) \in Nat
        BY <1>1 DEF TypeOK
      <4>1. off[1] \in 0 .. sent
        BY <3>2, <4>0 DEF Offsets
      <4> QED
        BY <1>1, <3>3, <4>1 DEF Flat, TypeOK
    <3>5. m < off[1]
      <4>1. buf # <<>>
        BY <2>5, TransferAssumption DEF Inv, Parts, TypeOK
      <4>2. m # off[1]
        BY <1>1, <3>3, <3>4, <4>1, SpanEnds
      <4> QED
        BY <3>3, <3>4, <4>2
    <3>6. stored'[number] = Span(m, off[1])
      BY <2>1, <3>3
    <3>7. PICK n \in 0 .. job.size : n = off[1]
      BY <3>4
    <3>8. Flat(n)'
      BY <1>1, <2>1, <2>5, <3>3, <3>5, <3>6, <3>7, FlatGrows
    <3>9. Offsets(off)'
      BY <1>1, <1>2, <2>1, <3>2 DEF Offsets, Uploading
    <3>10. buf' = Span(n, n)' /\ n <= off[1]
      BY <1>1, <1>2, <2>5, <3>4, <3>7, SpanEnds
    <3>11. Flow'
      BY <3>7, <3>8, <3>9, <3>10 DEF Flow
    <3> QED
      BY <2>5, <3>11 DEF Progress
  <2>6. CASE /\ server = "lastpart" /\ server' = "complete"
             /\ buf' = <<>> /\ number' = number + 1
    <3>1. PICK m, n : /\ Flat(m) /\ n \in 0 .. job.size /\ m < n /\ buf = Span(m, n)
                      /\ n = job.size
      BY <2>6, FlushSpan
    <3>2. Flat(n)'
      BY <1>1, <2>1, <2>6, <3>1, FlatGrows
    <3> QED
      BY <1>1, <2>6, <3>1, <3>2 DEF Progress
  <2> QED
    BY <2>1, <2>3, <2>4, <2>5, <2>6
<1>7. ASSUME ~(RecvChunk \/ RecvEOF \/ FlushPart) PROVE Progress'
  <2>1. /\ UNCHANGED <<buf, number, stored>>
        /\ \/ server' = server
           \/ server = "start" /\ server' = "recv"
           \/ server' \in {"abort", "row", "send"} \cup Ended
    BY <1>7, OtherSteps
  <2>2. \A m : Flat(m) => Flat(m)'
    BY <1>3, <2>1
  <2>3. ASSUME Uploading, server \in {"start", "recv", "flush"} PROVE Flow'
    <3>1. Flow
      BY <2>3 DEF Inv, Progress
    <3>2. PICK off : Offsets(off) /\ \E m : Flat(m) /\ m <= off[1] /\ buf = Span(m, off[1])
      BY <3>1 DEF Flow
    <3>3. ~RecvData
      BY <1>1, <2>3 DEF RecvData, Positions
    <3>4. server \notin Ended
      BY <2>3 DEF Ended
    <3>5. PICK new : Offsets(new)' /\ new[1] = off[1]
      BY <1>1, <1>7, <3>2, <3>3, <3>4, StreamStep
    <3> QED
      BY <1>2, <2>1, <2>2, <3>2, <3>5 DEF Flow
  <2>4. server' = "lastpart" => buf' # <<>> /\ (\E m : Flat(m) /\ buf = Span(m, job.size))'
    BY <1>1, <1>2, <2>1, <2>2 DEF Inv, Progress, Ended
  <2>5. server' = "complete" => Flat(job.size)'
    BY <1>1, <2>1, <2>2 DEF Inv, Progress, Ended
  <2>6. Uploading' /\ server' \in {"start", "recv", "flush"} => Flow'
    BY <1>1, <2>1, <2>3 DEF Uploading, Ended
  <2> QED
    BY <2>4, <2>5, <2>6 DEF Progress
<1> QED
  BY <1>4, <1>5, <1>6, <1>7

\* Parts is kept by every step.
LEMMA PartsStep ==
    ASSUME Inv, [Next]_vars
    PROVE  Parts'
<1>1. /\ number \in Nat \ {0} /\ Parts /\ TypeOK
  BY SpanEnds DEF Inv, TypeOK
<1>2. ASSUME RecvChunk \/ RecvEOF PROVE Parts'
  <2>1. /\ UNCHANGED <<number, stored>> /\ server = "recv"
        /\ server' # "start" /\ (server' = "flush" => Len(buf') >= MinPart)
    BY <1>2 DEF RecvChunk, RecvEOF, Full, up
  <2> QED
    BY <1>1, <2>1 DEF Parts
<1>3. ASSUME FlushPart PROVE Parts'
  <2>1. /\ server \in {"flush", "lastpart"}
        /\ Len(stored') = number /\ stored'[number] = buf
        /\ \A i \in 1 .. number - 1 : stored'[i] = stored[i]
        /\ \/ /\ server' = IF server = "flush" THEN "recv" ELSE "complete"
              /\ number' = number + 1
           \/ server' \in {"abort", server} /\ UNCHANGED <<buf, number>>
    BY <1>3, FlushFacts DEF FlushPart, SameUpTo
  <2>2. \A i \in 1 .. number - 1 : Len(stored'[i]) >= MinPart
    BY <1>1, <2>1 DEF Parts
  <2>3. server = "flush" => Len(stored'[number]) >= MinPart
    BY <1>1, <2>1 DEF Parts
  <2>4. CASE number' = number + 1 /\ server' = IF server = "flush" THEN "recv" ELSE "complete"
    <3>1. \A i \in 1 .. number' - 1 : i = number \/ i \in 1 .. number - 1
      BY <1>1, <2>4
    <3>2. number' - 1 = number
      BY <1>1, <2>4
    <3> QED
      BY <1>1, <2>1, <2>2, <2>3, <2>4, <3>1, <3>2 DEF Parts
  <2>5. CASE server' \in {"abort", server} /\ UNCHANGED <<buf, number>>
    BY <1>1, <2>1, <2>2, <2>5 DEF Parts
  <2> QED
    BY <2>1, <2>4, <2>5
<1>4. ASSUME ~(RecvChunk \/ RecvEOF \/ FlushPart) PROVE Parts'
  <2>1. /\ UNCHANGED <<buf, number, stored>>
        /\ \/ server' = server
           \/ server = "start" /\ server' = "recv"
           \/ server' \in {"abort", "row", "send", "ok", "error"}
    BY <1>4, OtherSteps DEF Ended
  <2> QED
    BY <1>1, <2>1 DEF Parts
<1> QED
  BY <1>2, <1>3, <1>4

\* Outcome is kept by every step.
LEMMA OutcomeStep ==
    ASSUME Inv, [Next]_vars
    PROVE  Outcome'
<1>1. /\ UNCHANGED job /\ Outcome /\ Positions
  <2>1. TypeOK /\ Positions /\ Outcome
    BY DEF Inv
  <2> QED
    BY <2>1, PositionsStep
<1>2. Source' = Source /\ Uploading' = Uploading
  BY <1>1 DEF Source, Uploading
<1> USE DEF Outcome, UploadsAreWhole, SuccessIsStored, RefusalsAreEmpty
<1>3. ASSUME CompleteUpload PROVE Outcome'
  <2>1. /\ UNCHANGED <<client, row>> /\ server = "complete"
        /\ \/ object' = Source /\ server' \in {"row", "abort"} /\ refused' = refused
           \/ object' = object /\ server' = "abort" /\ refused' /\ job.size = 0
    BY <1>3, CompleteFacts DEF CompleteUpload
  <2> QED
    BY <1>1, <1>2, <2>1
<1>4. ASSUME PutRow PROVE Outcome'
  <2>1. /\ UNCHANGED <<client, object, refused>> /\ server = "row" /\ row'
        /\ server' \in {"ok", "error"}
    BY <1>4 DEF PutRow, Reply
  <2> QED
    BY <1>1, <1>2, <2>1
<1>5. ASSUME RecvAnswer \/ DownloadEOF \/ BodyEOF PROVE Outcome'
  <2>1. /\ UNCHANGED <<object, refused, row>>
        /\ client' = "ok" => client = "ok" \/ server = "ok" \/ ~Uploading
        /\ server' \in {server, "ok"} /\ (server' # server => ~Uploading)
    BY <1>1, <1>5 DEF RecvAnswer, DownloadEOF, BodyEOF, Positions, up
  <2> QED
    BY <1>1, <1>2, <2>1
<1>6. ASSUME UNCHANGED <<object, refused, row>>, client' = "ok" => client = "ok",
             server' = server \/ server' \notin {"row", "ok"}
      PROVE  Outcome'
  BY <1>1, <1>2, <1>6
<1>7. ASSUME \/ SendMetadata \/ SendChunk \/ SendFails \/ ReadFails \/ CloseSend
             \/ OpenDownload \/ RecvData \/ DownloadBreaks
      PROVE  Outcome'
  BY <1>6, <1>7 DEF SendMetadata, SendChunk, SendFails, ReadFails, CloseSend, OpenDownload,
     RecvData, DownloadBreaks, up
<1>8. ASSUME \/ StartUpload \/ RecvChunk \/ RecvEOF \/ RecvFails \/ AbortUpload \/ CallFails
             \/ StartDownload \/ SendData \/ DownloadFails
      PROVE  Outcome'
  BY <1>6, <1>8 DEF StartUpload, RecvChunk, RecvEOF, RecvFails, AbortUpload, CallFails,
     AfterFailure, StartDownload, SendData, DownloadFails, up
<1>9. ASSUME FlushPart PROVE Outcome'
  BY <1>6, <1>9 DEF FlushPart, Reply
<1>10. ASSUME Breaks \/ DiskFails \/ ServerDies \/ Over \/ UNCHANGED vars PROVE Outcome'
  BY <1>6, <1>10 DEF Breaks, DiskFails, ServerDies, Over, vars, up
<1> QED
  BY <1>3, <1>4, <1>5, <1>7, <1>8, <1>9, <1>10 DEF Next, ClientStep, ServerStep

\* Received is kept by every step.
LEMMA ReceivedStep ==
    ASSUME Inv, [Next]_vars
    PROVE  Received'
<1>1. /\ job \in Jobs /\ job.size \in Nat /\ UNCHANGED job
      /\ TypeOK /\ Positions /\ Received /\ disk \in {"fine", "bad"}
      /\ broken \in {FALSE, broken'}
      /\ client \in {"start", "read"} \/ client' \notin {"start", "read"}
  <2>1. TypeOK /\ Positions /\ Received
    BY DEF Inv
  <2> QED
    BY <2>1, PositionsStep, SpanEnds DEF TypeOK
<1>2. /\ Source' = Source /\ Uploading' = Uploading /\ Gui' = Gui
      /\ \A a, b : Span(a, b)' = Span(a, b)
  BY <1>1 DEF Source, Uploading, Gui, Span
<1>3. CASE Uploading
  BY <1>2, <1>3 DEF Received, DownloadsAreWhole
<1>4. ASSUME ~Uploading, RecvData PROVE Received'
  <2>1. PICK off : Offsets(off) /\ (Saving => saved = Span(0, off[1]))
    BY <1>1, <1>4 DEF Received
  <2>2. /\ UNCHANGED <<server, disk, sent>> /\ pipe # <<>> /\ pipe' = Tail(pipe)
        /\ client' = client \/ (client' = "error")
        /\ disk = "bad" /\ Gui => client' = "error"
        /\ client = "recv"
        /\ saved' = IF disk = "fine" THEN saved \o Head(pipe).data ELSE saved
    BY <1>4 DEF RecvData
  <2>3. /\ \E new : Offsets(new)' /\ new[1] = off[2]
        /\ Head(pipe) = pipe[1] /\ 1 \in 1 .. Len(pipe)
        /\ off[1] \in 0 .. job.size /\ off[2] \in off[1] .. job.size
        /\ Head(pipe).data = Span(off[1], off[2])
    BY <1>1, <2>1, <2>2, OffsetsShrink
  <2>4. PICK new : Offsets(new)' /\ new[1] = off[2]
    BY <2>3
  <2>5. Span(0, off[1]) \o Span(off[1], off[2]) = Span(0, off[2])
    <3>1. 0 \in 0 .. job.size /\ off[1] \in 0 .. job.size
      BY <1>1, <2>3
    <3> QED
      BY <1>1, <2>3, <3>1, SpanFacts
  <2>6. disk = "fine" => saved' = Span(0, new[1])'
    BY <1>2, <2>1, <2>2, <2>3, <2>4, <2>5 DEF Saving
  <2>7. Saving' => disk = "fine"
    BY <1>1, <1>2, <2>2 DEF Saving
  <2>8. DownloadsAreWhole'
    BY <2>2 DEF DownloadsAreWhole
  <2>9. ~Uploading' /\ server' = "ok" => sent' = job'.size
    BY <1>1, <1>2, <2>2 DEF Received
  <2> QED
    BY <2>4, <2>6, <2>7, <2>8, <2>9 DEF Received
<1>5. ASSUME ~Uploading, ~RecvData PROVE Received'
  <2>1. PICK off : Offsets(off) /\ (Saving => saved = Span(0, off[1]))
    BY <1>1, <1>5 DEF Received
  <2>2. ~(RecvChunk \/ RecvEOF)
    BY <1>1, <1>5 DEF RecvChunk, RecvEOF, Positions
  <2>3. PICK new : Offsets(new)' /\ new[1] = off[1]
    BY <1>1, <1>5, <2>1, <2>2, StreamStep
  <2>4. ASSUME ClientStep
        PROVE  /\ UNCHANGED <<saved, disk, server>>
               /\ client' \in {"start", "recv"} => client \in {"start", "recv"}
               /\ server = "ok" => UNCHANGED sent
               /\ client' = "ok" => client = "ok" \/ DownloadEOF
    BY <1>1, <1>5, <2>4 DEF ClientStep, SendMetadata, SendChunk, SendFails, ReadFails, CloseSend,
       RecvAnswer, OpenDownload, DownloadEOF, DownloadBreaks, Positions
  <2>5. ASSUME ServerStep
        PROVE  /\ UNCHANGED <<saved, disk, client>>
               /\ server = "ok" => UNCHANGED sent
               /\ server' = "ok" => server = "ok" \/ (sent = job.size /\ UNCHANGED sent)
    <3>1. ~(StartUpload \/ RecvFails \/ FlushPart \/ CompleteUpload \/ AbortUpload \/ PutRow \/ CallFails)
      BY <1>1, <1>5 DEF StartUpload, RecvFails, FlushPart, CompleteUpload, AbortUpload, PutRow,
         CallFails, Positions
    <3> QED
      BY <2>2, <2>5, <3>1 DEF ServerStep, StartDownload, SendData, BodyEOF, DownloadFails, AtEOF
  <2>6. ASSUME Breaks \/ DiskFails \/ ServerDies \/ Over \/ UNCHANGED vars
        PROVE  /\ UNCHANGED <<saved, client, sent>>
               /\ disk' = "fine" => disk = "fine"
               /\ server' = "ok" => server = "ok"
               /\ disk' # disk => disk = "fine" /\ disk' = "bad"
    BY <2>6 DEF Breaks, DiskFails, ServerDies, Over, vars
  <2>7. /\ UNCHANGED saved
        /\ disk' = disk \/ (disk = "fine" /\ disk' = "bad")
        /\ client' \in {"start", "recv"} => client \in {"start", "recv"}
        /\ server' = "ok" => sent' = job.size
        /\ client' = "ok" => client = "ok" \/ DownloadEOF
    BY <1>1, <1>5, <2>4, <2>5, <2>6 DEF Next, Received
  <2>8. Saving' => saved' = Span(0, new[1])'
    BY <1>2, <2>1, <2>3, <2>7 DEF Saving
  <2>9. DownloadsAreWhole'
    <3>1. ASSUME DownloadEOF PROVE DownloadsAreWhole'
      <4>1. /\ pipe = <<>> /\ server = "ok" /\ client = "recv" /\ UNCHANGED <<saved, disk>>
        BY <3>1 DEF DownloadEOF
      <4>2. off[1] = job.size
        <5>1. Len(pipe) = 0 /\ off[Len(pipe) + 1] = sent
          BY <1>5, <2>1, <4>1 DEF Offsets
        <5> QED
          BY <1>1, <1>5, <4>1, <5>1 DEF Received
      <4>3. disk = "fine" \/ Gui => saved = Source
        BY <1>1, <2>1, <4>1, <4>2, SpanEnds DEF Saving
      <4> QED
        BY <1>1, <1>2, <4>1, <4>3 DEF DownloadsAreWhole
    <3>2. ASSUME ~DownloadEOF PROVE DownloadsAreWhole'
      BY <1>1, <1>2, <2>7, <3>2 DEF Received, DownloadsAreWhole
    <3> QED
      BY <3>1, <3>2
  <2> QED
    BY <1>1, <1>2, <2>3, <2>7, <2>8, <2>9 DEF Received
<1> QED
  BY <1>3, <1>4, <1>5

\* The types are kept by every step.
LEMMA TypeStep ==
    ASSUME Inv, [Next]_vars
    PROVE  TypeOK'
<1>1. /\ job \in Jobs /\ job.size \in Nat /\ UNCHANGED job /\ TypeOK /\ Positions
      /\ pipe \in Seq(Messages)
  <2>1. TypeOK /\ Positions
    BY DEF Inv
  <2> QED
    BY <2>1, PositionsStep, SpanEnds DEF TypeOK, Messages
<1> USE DEF Ended
<1>2. ASSUME SendMetadata \/ RecvAnswer \/ OpenDownload \/ DownloadEOF \/ DownloadBreaks
      PROVE  TypeOK'
  BY <1>1, <1>2 DEF TypeOK, SendMetadata, RecvAnswer, OpenDownload, DownloadEOF, DownloadBreaks, up
<1>3. ASSUME SendChunk \/ SendData PROVE TypeOK'
  <2>1. PICK bytes \in Reads : pipe' = Append(pipe, Chunk(bytes)) /\ sent' = sent + Len(bytes)
    BY <1>3 DEF SendChunk, SendData
  <2>2. Chunk(bytes) \in Messages /\ sent' \in 0 .. job.size
    BY <1>1, <2>1, ReadFacts DEF Chunk, Messages, TypeOK
  <2>3. pipe' \in Seq(Messages)
    BY <1>1, <2>1, <2>2
  <2> QED
    BY <1>1, <1>3, <2>2, <2>3 DEF TypeOK, SendChunk, SendData, up, Messages
<1>4. ASSUME SendFails PROVE TypeOK'
  <2>1. PICK bytes \in Reads : sent' = sent + Len(bytes)
    BY <1>4 DEF SendFails
  <2>2. sent' \in 0 .. job.size
    BY <1>1, <2>1, ReadFacts DEF TypeOK
  <2> QED
    BY <1>1, <1>4, <2>2 DEF TypeOK, SendFails, up
<1>5. ASSUME ReadFails \/ CloseSend PROVE TypeOK'
  <2>1. Chunk(<<>>) \in Messages /\ HalfClose \in Messages
    BY DEF Chunk, HalfClose, Messages
  <2>2. pipe' \in Seq(Messages)
    <3>1. pipe' \in {pipe, Append(pipe, Chunk(<<>>)), Append(pipe, HalfClose)}
      BY <1>5 DEF ReadFails, CloseSend, Close
    <3> HIDE DEF Chunk, HalfClose
    <3> QED
      BY <1>1, <2>1, <3>1
  <2> QED
    BY <1>1, <1>5, <2>2 DEF TypeOK, ReadFails, CloseSend, up, Messages
<1>6. ASSUME RecvData PROVE TypeOK'
  <2>1. pipe # <<>> /\ pipe' = Tail(pipe)
    BY <1>6 DEF RecvData
  <2>2. pipe' \in Seq(Messages) /\ Head(pipe) \in Messages
    BY <1>1, <2>1
  <2>3. Head(pipe).data \in Seq(1 .. job.size) /\ saved \in Seq(1 .. job.size)
    BY <1>1, <2>2 DEF Messages, TypeOK
  <2>4. saved' \in Seq(1 .. job.size)
    <3>1. saved \o Head(pipe).data \in Seq(1 .. job.size)
      BY <2>3
    <3> QED
      BY <1>6, <2>3, <3>1 DEF RecvData
  <2> QED
    BY <1>1, <1>6, <2>2, <2>4 DEF TypeOK, RecvData, up, Messages
<1>7. ASSUME StartUpload \/ RecvFails \/ AbortUpload \/ CallFails PROVE TypeOK'
  <2>1. server = "start" => Len(buf) < MinPart
    BY TransferAssumption DEF Inv, Parts
  <2> QED
    BY <1>1, <1>7, <2>1
       DEF TypeOK, StartUpload, RecvFails, AbortUpload, CallFails, AfterFailure, up
<1>8. ASSUME StartDownload \/ BodyEOF \/ DownloadFails PROVE TypeOK'
  BY <1>1, <1>8 DEF TypeOK, StartDownload, BodyEOF, DownloadFails, up
<1>9. ASSUME RecvChunk \/ RecvEOF PROVE TypeOK'
  <2>1. pipe # <<>> /\ pipe' = Tail(pipe)
    BY <1>9 DEF RecvChunk, RecvEOF
  <2>2. pipe' \in Seq(Messages) /\ Head(pipe) \in Messages
    BY <1>1, <2>1
  <2>3. Head(pipe).data \in Seq(1 .. job.size) /\ buf \in Seq(1 .. job.size)
    BY <1>1, <2>2 DEF Messages, TypeOK
  <2>4. buf \o Head(pipe).data \in Seq(1 .. job.size)
    BY <2>3
  <2>5. CASE RecvChunk
    <3>1. server' = "recv" => Len(buf') < MinPart
      <4>1. CASE Head(pipe).data = <<>>
        <5>1. buf' = buf
          BY <2>3, <2>5, <4>1 DEF RecvChunk
        <5> QED
          BY <2>5, <5>1 DEF RecvChunk, Inv, TypeOK
      <4>2. CASE Head(pipe).data # <<>>
        <5>1. Len(buf') \in Nat
          BY <2>4, <2>5 DEF RecvChunk
        <5> QED
          BY <2>5, <4>2, <5>1, TransferAssumption DEF RecvChunk, Full
      <4> QED
        BY <4>1, <4>2
    <3>2. server' \in {"recv", "flush"} /\ buf' \in Seq(1 .. job.size)
      BY <2>4, <2>5 DEF RecvChunk
    <3> QED
      BY <1>1, <2>2, <2>5, <3>1, <3>2 DEF TypeOK, RecvChunk, Messages
  <2>6. CASE RecvEOF
    BY <1>1, <2>2, <2>6 DEF TypeOK, RecvEOF, up, Messages
  <2> QED
    BY <1>9, <2>5, <2>6
<1>10. ASSUME FlushPart PROVE TypeOK'
  <2>1. /\ server \in {"flush", "lastpart"}
        /\ stored' \in Seq(Seq(1 .. job.size))
        /\ \/ /\ server' = IF server = "flush" THEN "recv" ELSE "complete"
              /\ buf' = <<>> /\ number' = number + 1
           \/ server' \in {"abort", server} /\ UNCHANGED <<buf, number>>
    BY <1>10, FlushFacts DEF FlushPart
  <2>2. number + 1 \in 1 .. job.size + 1
    <3>1. PICK m, n : n \in 0 .. job.size /\ number + 1 <= n + 1
      BY <2>1, FlushSpan
    <3> QED
      BY <1>1, <3>1 DEF TypeOK
  <2>3. <<>> \in Seq(1 .. job.size) /\ Len(<<>>) < MinPart
    BY TransferAssumption
  <2>4. number' \in 1 .. job.size + 1 /\ buf' \in Seq(1 .. job.size)
    BY <1>1, <2>1, <2>2, <2>3 DEF TypeOK
  <2>5. server' = "recv" => Len(buf') < MinPart
    BY <2>1, <2>3
  <2> QED
    BY <1>1, <1>10, <2>1, <2>4, <2>5 DEF TypeOK, FlushPart
<1>11. ASSUME CompleteUpload PROVE TypeOK'
  <2>1. /\ server' \in {"row", "abort"}
        /\ object' \in {Source, object} /\ (refused' = refused \/ refused')
    BY <1>11, CompleteFacts
  <2>2. Source \in Seq(1 .. job.size)
    BY <1>1 DEF Source
  <2>3. object' \in Seq(1 .. job.size)
    BY <1>1, <2>1, <2>2 DEF TypeOK
  <2>4. refused' \in BOOLEAN
    BY <1>1, <1>11 DEF TypeOK, CompleteUpload
  <2> QED
    BY <1>1, <1>11, <2>1, <2>3, <2>4 DEF TypeOK, CompleteUpload
<1>12. ASSUME PutRow PROVE TypeOK'
  BY <1>1, <1>12 DEF TypeOK, PutRow, Reply
<1>13. ASSUME Breaks \/ DiskFails \/ ServerDies \/ Over \/ UNCHANGED vars PROVE TypeOK'
  BY <1>1, <1>13 DEF TypeOK, Breaks, DiskFails, ServerDies, Over, vars, up
<1> QED
  BY <1>2, <1>3, <1>4, <1>5, <1>6, <1>7, <1>8, <1>9, <1>10, <1>11, <1>12, <1>13
     DEF Next, ClientStep, ServerStep

\* Inv is an invariant.
LEMMA InvCorrect == Spec => []Inv
<1>1. Inv /\ [Next]_vars => Inv'
  <2> SUFFICES ASSUME Inv, [Next]_vars PROVE Inv'
    OBVIOUS
  <2>1. Positions'
    BY PositionsStep DEF Inv
  <2> QED
    BY <2>1, TypeStep, ProgressStep, PartsStep, OutcomeStep, ReceivedStep DEF Inv
<1> QED
  BY <1>1, InvInit, PTL DEF Spec

----------------------------------------------------------------------------
(* The theorems *)

\* Between two messages the buffer holds less than a part, and every variable
\* keeps its type, for every size of file, chunk and part.
THEOREM TypeCorrect == Spec => []TypeOK
<1>1. Inv => TypeOK
  BY DEF Inv
<1> QED
  BY <1>1, InvCorrect, PTL

\* Whatever chunks the file is read in, and whatever fails, breaks or is sent
\* again: the object that CompleteMultipartUpload makes is the whole file.
THEOREM UploadedFilesAreWhole == Spec => []UploadsAreWhole
<1>1. Inv => UploadsAreWhole
  BY DEF Inv, Outcome
<1> QED
  BY <1>1, InvCorrect, PTL

\* An upload that its client reports as successful is in the bucket and in the
\* table.
THEOREM SuccessfulUploadsAreStored == Spec => []SuccessIsStored
<1>1. Inv => SuccessIsStored
  BY DEF Inv, Outcome
<1> QED
  BY <1>1, InvCorrect, PTL

\* The buffer never hands S3 a part too small, or none, unless the file is empty.
THEOREM OnlyEmptyFilesAreRefused == Spec => []RefusalsAreEmpty
<1>1. Inv => RefusalsAreEmpty
  BY DEF Inv, Outcome
<1> QED
  BY <1>1, InvCorrect, PTL

\* A download that its client reports as successful has saved the whole object,
\* but for the command-line client's unnoticed failures of its disk.
THEOREM DownloadedFilesAreWhole == Spec => []DownloadsAreWhole
<1>1. Inv => DownloadsAreWhole
  BY DEF Inv, Received
<1> QED
  BY <1>1, InvCorrect, PTL
=============================================================================
