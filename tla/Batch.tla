-------------------------------- MODULE Batch --------------------------------
(***************************************************************************)
(* The batch of docs/howto/batch: items are processed in chunks, and       *)
(* between two chunks the routine looks whether it has been cancelled.     *)
(* ProcessItem never fails, so that the count of errors is left out.       *)
(***************************************************************************)
EXTENDS Continuation

CONSTANTS
  ChunkSize,
  Sizes      \* the lengths of Items

BatchKeys == {"StartBatch", "ProcessChunk", "CancelBatch"}

BatchInput      == [len : Sizes]
ProcessingInput ==
  {x \in UNION {[len : {n}, offset : 0..n, processed : 0..n] : n \in Sizes} :
     x.processed <= x.offset}
BatchInputs     == BatchInput \cup ProcessingInput
BatchResult     == UNION {[processed : 0..n, cancelled : BOOLEAN] : n \in Sizes}

Lesser(a, b) == IF a < b THEN a ELSE b

\* Faulty variants: the last, shorter chunk is left out; the routine is deaf
\* between chunks.
processChunkWhole(x) ==
  LET end == x.offset + ChunkSize
      y   == IF end > x.len THEN x
             ELSE [x EXCEPT !.offset = end, !.processed = @ + ChunkSize]
  IN  Return(NewContext,
             IF end >= x.len THEN Done([processed |-> y.processed, cancelled |-> FALSE])
             ELSE Select(ReceiveSend("CancelBatch", y), Default("ProcessChunk", y)), Nil)

processChunkDeaf(x) ==
  LET end == Lesser(x.offset + ChunkSize, x.len)
      y   == [x EXCEPT !.offset = end, !.processed = @ + (end - x.offset)]
  IN  Return(NewContext,
             IF end >= x.len THEN Done([processed |-> y.processed, cancelled |-> FALSE])
             ELSE Continue("ProcessChunk", y), Nil)

processChunk(x) ==
  LET end == Lesser(x.offset + ChunkSize, x.len)
      y   == [x EXCEPT !.offset = end, !.processed = @ + (end - x.offset)]
  IN  Return(NewContext,
             IF end >= x.len THEN Done([processed |-> y.processed, cancelled |-> FALSE])
             ELSE Select(ReceiveSend("CancelBatch", y), Default("ProcessChunk", y)), Nil)

StartBatch(x)  == processChunk([len |-> x.len, offset |-> 0, processed |-> 0])
CancelBatch(x) == Return(NewContext, Done([processed |-> x.processed, cancelled |-> TRUE]), Nil)

BatchRunner(k, x, m) ==
  CASE k = "StartBatch" /\ x \in BatchInput -> {StartBatch(x)}
    [] k = "ProcessChunk" /\ x \in ProcessingInput -> {processChunk(x)}
    [] k = "CancelBatch" /\ x \in ProcessingInput /\ m # Nil -> {CancelBatch(x)}
    [] OTHER -> {Fail(NewContext)}

=============================================================================
