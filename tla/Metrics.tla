------------------------------ MODULE Metrics ------------------------------
(***************************************************************************)
(* The CloudWatch metrics of one NEUDFS server.  The goroutine of every    *)
(* RPC records two or three data in a buffer when its handler has ended;   *)
(* one goroutine, on a ticker, takes the whole buffer and publishes it in  *)
(* chunks.  A mutex is held for each access to the buffer and never during *)
(* a call, so each of these accesses is one step.                          *)
(*                                                                         *)
(* Nothing calls Close: what is in memory when the server stops is gone.   *)
(***************************************************************************)
EXTENDS Integers, Sequences, FiniteSets

CONSTANTS
    Calls,     \* RPCs, each made once
    Limit,     \* the most data of one PutMetricData (1000)
    MaxStops,  \* bound: how often the server stops
    Faults     \* PutMetricData may fail or lose its reply

ASSUME MetricsAssumption ==
    /\ IsFiniteSet(Calls)
    /\ Limit \in Nat \ {0} /\ MaxStops \in Nat
    /\ Faults \in BOOLEAN

VARIABLES
    open,       \* calls whose handler is running or yet to be called
    buffer,     \* CloudWatchMetrics.buffer
    ticked,     \* a tick waits in the channel of the ticker
    flushing,   \* the goroutine of the ticker is inside flush
    batch,      \* what flush has taken from the buffer
    next,       \* how much of the batch it has handled
    stops,      \* how often the server has stopped
    recorded,   \* history: all data in the order of their recording
    published,  \* history: the chunks CloudWatch has taken, in their order
    resent,     \* the current chunk has been sent again
    lost        \* history: data of chunks given up, or in memory at a stop

vars == <<open, buffer, ticked, flushing, batch, next, stops, recorded, published, resent, lost>>

Metrics == {"RPCLatency", "RPCCount", "RPCErrors"}
Data == [call: Calls, metric: Metrics]

Elements(s) == {s[i] : i \in 1 .. Len(s)}

Init ==
    /\ open = Calls
    /\ buffer = <<>> /\ ticked = FALSE
    /\ flushing = FALSE /\ batch = <<>> /\ next = 0
    /\ stops = 0
    /\ recorded = <<>> /\ published = <<>> /\ resent = FALSE /\ lost = {}

----------------------------------------------------------------------------
(* The interceptors *)

\* What a call that has ended, well or with an error, adds to the buffer.
Datum(c, m) == [call |-> c, metric |-> m]
Recorded(c, ok) ==
    <<Datum(c, "RPCLatency"), Datum(c, "RPCCount")>>
      \o IF ok THEN <<>> ELSE <<Datum(c, "RPCErrors")>>

\* The handler returns, and the interceptor records before it answers.
Record(c) ==
    /\ c \in open
    /\ \E ok \in BOOLEAN :
          /\ buffer' = buffer \o Recorded(c, ok)
          /\ recorded' = recorded \o Recorded(c, ok)
    /\ open' = open \ {c}
    /\ UNCHANGED <<ticked, flushing, batch, next, stops, published, resent, lost>>

----------------------------------------------------------------------------
(* flushLoop and flush *)

\* The channel of a ticker holds one tick; further ones are dropped.
Tick ==
    /\ ~ticked
    /\ ticked' = TRUE
    /\ UNCHANGED <<open, buffer, flushing, batch, next, stops, recorded, published, resent, lost>>

\* Mutant of Rest: the buffer is not emptied.
SameBuffer == buffer

\* What remains in the buffer when a batch has been taken.
Rest == <<>>

\* Mutant of Empty: a few data are left for a later flush.
Few == Len(buffer) <= Limit

\* What makes flush return at once.
Empty == buffer = <<>>

\* flush, up to the unlock.
TakeBatch ==
    /\ ticked /\ ~flushing
    /\ ticked' = FALSE
    /\ \/ /\ Empty
          /\ UNCHANGED <<buffer, flushing, batch, next>>
       \/ /\ ~Empty
          /\ batch' = buffer /\ next' = 0
          /\ buffer' = Rest
          /\ flushing' = TRUE
    /\ UNCHANGED <<open, stops, recorded, published, resent, lost>>

\* Mutant of End: the batch is not cut.
WholeBatch == Len(batch)

\* Mutant of End: a last chunk that is not full is left out.
FullChunksOnly == IF next + Limit > Len(batch) THEN next ELSE next + Limit

\* Where the chunk that starts at next ends.
End == IF next + Limit > Len(batch) THEN Len(batch) ELSE next + Limit

ChunkAtNext == SubSeq(batch, next + 1, End)

\* The loop goes on to the next chunk, whether the last was published or not.
Advance ==
    /\ next' = next + Limit
    /\ resent' = FALSE

\* PutMetricData with the next chunk.  When the reply is lost the SDK sends it
\* again, once in the model; giving up then differs in a line of the log only.
Publish ==
    /\ flushing /\ next < Len(batch)
    /\ published' = Append(published, ChunkAtNext)
    /\ \/ Advance
       \/ /\ Faults /\ ~resent
          /\ resent' = TRUE
          /\ UNCHANGED next
    /\ UNCHANGED <<open, buffer, ticked, flushing, batch, stops, recorded, lost>>

\* PutMetricData fails: the error is printed and the chunk is gone.
PublishFails ==
    /\ Faults
    /\ flushing /\ next < Len(batch)
    /\ lost' = lost \cup Elements(ChunkAtNext)
    /\ Advance
    /\ UNCHANGED <<open, buffer, ticked, flushing, batch, stops, recorded, published>>

FlushDone ==
    /\ flushing /\ next >= Len(batch)
    /\ flushing' = FALSE
    /\ batch' = <<>> /\ next' = 0
    /\ UNCHANGED <<open, buffer, ticked, stops, recorded, published, resent, lost>>

----------------------------------------------------------------------------
(* The server *)

InMemory == Elements(buffer) \cup Elements(SubSeq(batch, next + 1, Len(batch)))

\* The server stops and is started again; a call cut off never records.
Stops ==
    /\ stops < MaxStops
    /\ stops' = stops + 1
    /\ lost' = lost \cup InMemory
    /\ buffer' = <<>> /\ ticked' = FALSE
    /\ flushing' = FALSE /\ batch' = <<>> /\ next' = 0 /\ resent' = FALSE
    /\ UNCHANGED <<open, recorded, published>>

Flush == TakeBatch \/ Publish \/ PublishFails \/ FlushDone

Next ==
    \/ \E c \in Calls : Record(c)
    \/ Tick \/ Flush \/ Stops

Spec == Init /\ [][Next]_vars

\* The ticker ticks, and its goroutine keeps running.
FairSpec == Spec /\ WF_vars(Tick) /\ WF_vars(Flush)

----------------------------------------------------------------------------
(* Properties *)

\* The type invariant.  No chunk is empty or beyond what CloudWatch accepts.
TypeOK ==
    /\ open \subseteq Calls
    /\ buffer \in Seq(Data) /\ batch \in Seq(Data) /\ recorded \in Seq(Data)
    /\ ticked \in BOOLEAN /\ flushing \in BOOLEAN /\ resent \in BOOLEAN
    /\ next \in Nat /\ stops \in 0 .. MaxStops
    /\ published \in Seq(Seq(Data))
    /\ \A i \in 1 .. Len(published) : Len(published[i]) \in 1 .. Limit
    /\ lost \subseteq Data

\* Recording, taking the batch and cutting it into chunks lose nothing: what was
\* recorded is in memory, or was published, or was lost in a chunk that could not
\* be published or when the server stopped.
NothingVanishes ==
    Elements(recorded) \subseteq
        InMemory \cup lost \cup UNION {Elements(published[i]) : i \in 1 .. Len(published)}

\* However recording and flushing overlap, data are published in the order they
\* were recorded in, and none twice but with the whole of a chunk that the SDK
\* has sent again.
PublishedInOrder ==
    LET Position(d) == CHOOSE i \in 1 .. Len(recorded) : recorded[i] = d
        Precedes(s, t) == \A d \in Elements(s), e \in Elements(t) : Position(d) < Position(e)
    IN  \A j \in 1 .. Len(published) : \A i \in 1 .. j - 1 :
            \/ Precedes(published[i], published[j])
            \/ published[i] = published[j] /\ i = j - 1 /\ Faults

\* Some datum of the call is in memory.
InMemoryOf(c) == \E d \in InMemory : d.call = c

\* What a call has recorded does not stay in memory, whatever fails.
MemoryDrains == \A c \in Calls : InMemoryOf(c) ~> ~InMemoryOf(c)
=============================================================================
