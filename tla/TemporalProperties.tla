------------------------- MODULE TemporalProperties -------------------------
(***************************************************************************)
(* What the Temporal backend guarantees to every program.                  *)
(***************************************************************************)
EXTENDS TemporalWorkflow

Tags(s) == {s[p].n : p \in DOMAIN s}
InOrder(s) == \A p, q \in DOMAIN s : p < q /\ s[p].key = s[q].key => s[p].n < s[q].n

\* Handlers get the signals of one name in the order the server recorded
\* them, although some wait in a channel and others meet a blocked Selector;
\* also across runs, where signals may be lost but never overtake each other.
SignalsInOrder ==
  \A i \in Ids :
    /\ InOrder(consumed[i])
    /\ \A k \in Keys :
         /\ InOrder(signals[i][k])
         /\ \A p \in DOMAIN consumed[i], q \in DOMAIN signals[i][k] :
              consumed[i][p].key = k => consumed[i][p].n < signals[i][k][q].n

\* Within a run no signal is lost or duplicated: what was recorded is in its
\* channel or was received by the loop.  TEMPORAL_IMPL.md claims the same
\* across runs.
NoSignalLost ==
  \A i \in Ids :
    Tags(consumed[i]) \cup UNION {Tags(signals[i][k]) : k \in Keys} = 1..accepted[i]

\* No lost wake-up for signals: a blocked Selector wants none that is there.
NoSignalWaitsInSelect == \A i \in Ids : pc[i] = "select" => Ready(i) = {}

\* Where a routine has the call of client c: waiting at a position of its
\* queue, or, at position 0, being served in the callback of its Selector.
Line(served, queue, c) ==
  {p \in 0..Len(queue) : LET call == IF p = 0 THEN served ELSE queue[p]
                         IN  call # Nil /\ call.client = c}

Places(c) == UNION {{<<i, p>> : p \in Line(serving[i], pending[i], c)} : i \in Ids}

\* Every caller whose update was accepted has exactly one answer coming: its
\* call is queued or being served in one routine, or its update is complete.
\* Nobody else has one.  That holds through failures, completion and
\* continue-as-new.
CallOwnership ==
  \A c \in Clients :
    IF cpc[c] = "awaiting"
    THEN \/ resp[c] = <<>> /\ \E i \in Ids : \E p \in 0..Len(pending[i]) : Places(c) = {<<i, p>>}
         \/ Len(resp[c]) = 1 /\ Places(c) = {}
    ELSE resp[c] = <<>> /\ Places(c) = {}

\* A call is queued or served only in a routine that runs: a run that closes
\* leaves no caller behind.
ClosedRunOwesNothing ==
  \A i \in Ids : ~Running(i) => pending[i] = <<>> /\ serving[i] = Nil

\* A query that has had an answer keeps having one while the routine runs,
\* also after continue-as-new: only a new start forgets the results.
QueryResultsSurvive ==
  [][\A i \in Ids, n \in Names :
       queries[i][n] # Nil /\ queries'[i][n] = Nil => Closed(i)]_vars

-----------------------------------------------------------------------------
(* The contract, implemented also across continue-as-new and restarts.     *)

RunStatus == [i \in Ids |-> IF pc[i] = "absent" THEN "new"
                            ELSE IF Running(i) THEN "running" ELSE "done"]

Serves(i, c) == serving[i] # Nil /\ serving[i].client = c

Server == [c \in Clients |-> IF \E i \in Ids : Serves(i, c)
                             THEN CHOOSE i \in Ids : Serves(i, c) ELSE Nil]

Answers == [c \in Clients |-> Len(resp[c])]

Contract == INSTANCE RoutineContract WITH
  Messages  <- Envelope,
  NoId      <- Nil,
  Renewable <- TRUE,
  status    <- RunStatus,
  queue     <- signals,
  taken     <- consumed,
  server    <- Server,
  answers   <- Answers

\* The Temporal backend implements the contract.
ImplementsContract == Contract!Spec

=============================================================================
