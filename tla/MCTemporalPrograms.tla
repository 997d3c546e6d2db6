-------------------------- MODULE MCTemporalPrograms --------------------------
(***************************************************************************)
(* Programs of docs/howto on the Temporal backend.  The operations of the  *)
(* clients all concern one of Programs, which the first of them chooses:   *)
(*   - the pipeline, and the fan-out, whose children the server starts in  *)
(*     any order;                                                          *)
(*   - an auction, with bids that fail for good or arrive while another    *)
(*     one is decided, and the closing timer;                              *)
(*   - a batch, cancelled between any two steps;                           *)
(*   - a trip, whose bookings fail and whose worker may stop at any time.  *)
(***************************************************************************)
EXTENDS TemporalProperties, Pipeline, Fanout, Auction, Batch, Saga

CONSTANTS
  producer, i1, i2, auction, batch, trip, c1, c2, message,
  Programs   \* sets of routines that one program uses

VARIABLES
  booked,  \* history: the services booked for the trip
  asked    \* history: the items processed when the server recorded the first cancellation

AllPrograms == {{Consumer, producer}, {Parent, i1, i2}, {auction}, {batch}, {trip}}
OneAuction  == {{auction}}
OneTrip     == {{trip}}

MCWork      == <<i1, i2>>
MCIds       == UNION AllPrograms
MCClients   == {c1, c2}
MCAmounts   == 0..2
MCDeadlines == 0..(MaxNow + 2)
MCSizes     == {0, 4, 5}
MCKeys      == PipelineKeys \cup FanoutKeys \cup AuctionKeys \cup BatchKeys \cup SagaKeys
MCNames     == {"place-bid", "auction-status"}
MCInputs    == ProducerInput \cup ConsumerInput \cup FanoutInput \cup ItemInput \cup Collecting
               \cup [startingBid : {0}, duration : {2}] \cup BiddingInput
               \cup BatchInputs \cup SagaInputs
MCMessages  == Item \cup {DoneMsg, message} \cup FanoutItems \cup PlaceBidReq
MCResults   == ConsumerInput \cup FanoutResult \cup {Unit, TripResult}
               \cup AuctionStatus \cup AuctionResult \cup PlaceBidResp \cup BatchResult
MCGivesUp   == {"PlaceBid"} \cup SagaKeys
MCRecovery  == [k \in MCKeys |-> CASE k \in AuctionKeys -> AuctionRecovery[k]
                                   [] k \in SagaKeys -> SagaRecovery[k]
                                   [] OTHER -> Nil]

MCRunner(i, k, x, m, t) ==
  CASE k \in PipelineKeys -> PipelineRunner(k, x, m)
    [] k \in FanoutKeys   -> FanoutRunner(k, x, m)
    [] k \in AuctionKeys  -> AuctionRunner(k, x, m, t)
    [] k \in BatchKeys    -> BatchRunner(k, x, m)
    [] k \in SagaKeys     -> SagaRunner(k, x, m)

Request(op, i, k, a) == [op |-> op, id |-> i, key |-> k, name |-> Nil, arg |-> a]
Bid(c, a)  == Request("call", auction, "PlaceBid", [bidder |-> c, amount |-> a])
Stop       == Request("send", batch, "CancelBatch", message)
Fanouts    == {Request("go", Parent, "StartItems", x) : x \in FanoutInput}
Batches    == {Request("go", batch, "StartBatch", x) : x \in BatchInput}

MCScript(c, n) ==
  IF c = c1
  THEN CASE n = 1 -> {Request("go", Consumer, "StartConsumer", [received |-> <<>>]),
                      Request("go", auction, "OpenAuction", [startingBid |-> 0, duration |-> 2]),
                      Request("go", trip, "BookFlight", TripInput)} \cup Batches
         [] n = 2 -> {Request("go", producer, "Produce", [items |-> AllItems]), Bid(c, 2), Stop}
         [] n = 3 -> {Request("get", Consumer, "StartConsumer", Nil)}
         [] OTHER -> {}
  ELSE CASE n = 1 -> {Bid(c, 1), Stop,
                      [Request("query", auction, "PlaceBid", Nil) EXCEPT !.name = "auction-status"]} \cup Fanouts
         [] n = 2 -> {Stop}
         [] OTHER -> {}

OneProgram ==
  \E P \in Programs : \A c \in Clients :
    /\ cop[c] # Nil => cop[c].id \in P
    /\ cop'[c] # Nil => cop'[c].id \in P

-----------------------------------------------------------------------------
(* What the world outside sees.                                            *)

Processed ==
  IF out[batch] = Nil THEN 0
  ELSE IF out[batch].done THEN out[batch].result.processed
  ELSE out[batch].cases[1].input.processed

\* The activity of a handler of the trip has ended.  When it has failed, any
\* number of attempts did their work without their worker getting to say so,
\* and the worker of the recovery activity, which has one attempt, may have
\* stopped after any of its cancellations.
MayBeBooked ==
  IF pc[trip] # "activity" \/ pc'[trip] = "activity" THEN {booked}
  ELSE LET k == cur[trip].key
       IN  IF pc'[trip] = "effects" THEN {AfterAttempt(k, TRUE, booked)}
           ELSE {AfterRecovery(k, n, AfterAttempt(k, ok, booked)) :
                   n \in 0..Len(Cancels(SagaRecovery[k])), ok \in BOOLEAN}

MCInit == Init /\ booked = {} /\ asked = Nil

MCNext ==
  /\ Next
  /\ OneProgram
  /\ booked' \in MayBeBooked
  /\ asked' = IF asked = Nil /\ accepted'[batch] > accepted[batch] THEN Processed ELSE asked

MCSpec == MCInit /\ [][MCNext]_<<vars, booked, asked>> /\ Fairness

-----------------------------------------------------------------------------
\* The client gets every item, in the order of the producer: the done signal
\* has a channel of its own, and the Selector looks at that of the items first.
AllItemsInOrder ==
  (cpc[c1] = "getting" /\ cop[c1].id = Consumer) ~>
    (cpc[c1] = "idle" /\ got[c1] = [ok |-> TRUE, value |-> [received |-> AllItems]])

\* The parent completes with the result of every item exactly once, in
\* whatever order the children are started and send.
EveryItemOnce ==
  pc[Parent] = "done" =>
    /\ final[Parent].ok
    /\ Len(final[Parent].value.results) = Len(Work)
    /\ \A j \in FanoutItems : \E p \in DOMAIN final[Parent].value.results : final[Parent].value.results[p] = j

\* A batch reports what it has processed: every item, also those of a last,
\* shorter chunk, or, cancelled, at most one chunk more than when the server
\* recorded the cancellation, which may wait in its channel meanwhile.
BatchHeedsCancel ==
  pc[batch] = "done" =>
    LET v == final[batch].value
    IN  /\ ~v.cancelled => v.processed = cur[batch].input.len
        /\ asked # Nil => v.processed <= asked + ChunkSize

\* auction.go: the auction runs until a timer expires, then completes.  Bids,
\* also failing ones, re-arm the timer with what is left.
AuctionCloses == pc[auction] = "activity" ~> pc[auction] = "done"

\* Every program ends: the auction closes; all children of a fan-out that has
\* any are started and all results arrive, although the parent does not wait
\* for its children to start; a batch and a trip end, the trip also in failure.
RoutinesEnd ==
  /\ AuctionCloses
  /\ (pc[Parent] = "activity" /\ cur[Parent].input # [items |-> <<>>]) ~> pc[Parent] = "done"
  /\ \A i \in {batch, trip} : pc[i] = "activity" ~> Closed(i)

\* A bid that was accepted for processing returns: whether it is decided, or
\* overlooked until the auction closes.
ReceivedBidReturns ==
  \A c \in Clients : cpc[c] = "awaiting" ~> cpc[c] = "idle"

\* saga.go: when all retries of a later booking are exhausted, the flight that
\* was booked before it is cancelled.
FailedTripCancelsFlight ==
  pc[trip] = "failed" /\ cur[trip].key \in {"BookHotel", "BookCar"} => "flight" \notin booked

=============================================================================
