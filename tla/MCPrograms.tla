------------------------------ MODULE MCPrograms ------------------------------
(***************************************************************************)
(* Programs of docs/howto on the in-memory backend.  The operations of the *)
(* clients all concern one program, which the first of them chooses:       *)
(*   - a booking, which one client pays and ships and the other cancels;   *)
(*   - a pipeline, whose channel is smaller than what the producer sends,  *)
(*     and whose consumer is started by the client, or by a producer that  *)
(*     starts it and sends to it in one step;                              *)
(*   - an order, placed by one client and cancelled by either;             *)
(*   - a batch, cancelled between any two steps;                           *)
(*   - a trip, whose bookings may fail; and a sequence of reminders.       *)
(***************************************************************************)
EXTENDS InMemoryProperties, Booking, Pipeline, Order, Batch, Saga, Reminder

CONSTANTS booking, producer, order, batch, trip, reminder, c1, c2, message

VARIABLES
  booked,  \* history: the services booked for the trip
  asked    \* history: the items processed when the channel took the first cancellation

MCIds      == {booking, Consumer, producer, order, batch, trip, reminder}
MCClients  == {c1, c2}
MCNames    == {"cancel", "status", "get-order-status"}
MCMessages == {message, DoneMsg} \cup Item
MCKeys     == BookingKeys \cup PipelineKeys \cup {"Launch"} \cup OrderKeys \cup BatchKeys
              \cup SagaKeys \cup ReminderKeys
MCInputs   == BookingInputs \cup ProducerInput \cup ConsumerInput \cup OrderInputs \cup BatchInputs
              \cup SagaInputs \cup ReminderInputs
MCResults  == Statuses \cup {Confirmed, Unit, TripResult} \cup ConsumerInput \cup OrderStatus
              \cup OrderResults \cup BatchResult
MCSizes    == {0, 4, 5}
MCRecovery == [k \in MCKeys |-> CASE k \in BookingKeys -> BookingRecovery[k]
                                  [] k \in SagaKeys -> SagaRecovery[k]
                                  [] OTHER -> Nil]

\* The producer as the parent of its consumer: the start is buffered in the
\* Context of the sends.
Launch(x) == BufferStart(Produce(x), Consumer, "StartConsumer", [received |-> <<>>])

MCRunner(i, k, x, m, t) ==
  CASE k \in BookingKeys  -> BookingRunner(k, x, m)
    [] k \in OrderKeys    -> OrderRunner(k, x, m)
    [] k \in BatchKeys    -> BatchRunner(k, x, m)
    [] k \in SagaKeys     -> SagaRunner(k, x, m)
    [] k \in ReminderKeys -> ReminderRunner(k, x, m)
    [] k \in PipelineKeys -> PipelineRunner(k, x, m)
    [] OTHER              -> IF x \in ProducerInput THEN {Launch(x)} ELSE {Fail(NewContext)}

Request(op, i, k, a) == [op |-> op, id |-> i, key |-> k, name |-> Nil, arg |-> a]

Begin == {Request("go", booking, "ReserveItem", BookingInput),
          Request("go", Consumer, "StartConsumer", [received |-> <<>>]),
          Request("go", producer, "Launch", [items |-> AllItems]),
          Request("go", order, "CreateOrder", OrderInput),
          Request("go", trip, "BookFlight", TripInput),
          Request("go", reminder, "SendInitial", InitialInput)}
         \cup {Request("go", batch, "StartBatch", x) : x \in BatchInput}

Pay    == Request("send", booking, "ProcessPayment", message)
Ship   == Request("send", booking, "ProcessShipping", message)
Cancel == [Request("call", booking, "CancelBooking", message) EXCEPT !.name = "cancel"]
Place  == Request("send", order, "PlaceOrder", message)
Undo   == Request("send", order, "CancelOrder", message)
Stop   == Request("send", batch, "CancelBatch", message)

MCScript(c, n) ==
  IF c = c1
  THEN CASE n = 1 -> Begin
         [] n = 2 -> {Pay, Ship, Place, Undo, Stop, Request("go", producer, "Produce", [items |-> AllItems])}
         [] n = 3 -> {Pay, Ship, Place, Undo, Request("get", Consumer, "StartConsumer", Nil)}
         [] OTHER -> {}
  ELSE CASE n = 1 -> {Cancel, Undo, Stop,
                      [Request("query", booking, "ReserveItem", Nil) EXCEPT !.name = "status"]}
         [] n = 2 -> {Cancel, Request("get", booking, "ReserveItem", Nil)}
         [] OTHER -> {}

\* The routines that one program uses.
Programs == {{booking}, {Consumer, producer}, {order}, {batch}, {trip}, {reminder}}

OneProgram ==
  \E P \in Programs : \A c \in Clients :
    /\ cop[c] # Nil => cop[c].id \in P
    /\ cop'[c] # Nil => cop'[c].id \in P

-----------------------------------------------------------------------------
(* What the world outside sees.                                            *)

\* A handler of the trip has returned, and its recovery handler if it failed.
TripStep == pc[trip] = "run" /\ pc'[trip] = "effects"

BookedNext ==
  IF ~TripStep THEN booked
  ELSE LET k  == cur[trip].key
           ok == out'[trip].ok
           b  == AfterAttempt(k, ok, booked)
       IN  IF ok THEN b ELSE AfterRecovery(k, Len(Cancels(SagaRecovery[k])), b)

Processed ==
  IF out[batch] = Nil THEN 0
  ELSE IF out[batch].done THEN out[batch].result.processed
  ELSE out[batch].cases[1].input.processed

MCInit == Init /\ booked = {} /\ asked = Nil

MCNext ==
  /\ Next
  /\ OneProgram
  /\ booked' = BookedNext
  /\ asked' = IF asked = Nil /\ accepted'[batch] > accepted[batch] THEN Processed ELSE asked

MCSpec == MCInit /\ [][MCNext]_<<vars, booked, asked>> /\ Fairness

-----------------------------------------------------------------------------
\* Once a client has been told that its cancellation is confirmed, the booking
\* ends as cancelled: no payment that races it is taken.
CancelledForGood ==
  \A c \in Clients : got[c].value = Confirmed =>
    /\ out[booking].done /\ out[booking].result = BookingStatus("cancelled")
    /\ queryResults[booking]["status"] = BookingStatus("reserved")

\* The result of a booking agrees with the last status that was published: a
\* paid one is shipped or refunded, an unpaid one is released.
OutcomeFitsStatus ==
  pc[booking] = "done" =>
    /\ final[booking].ok
    /\ <<queryResults[booking]["status"].status, final[booking].value.status>> \in
         {<<"reserved", "cancelled">>, <<"reserved", "expired">>, <<"paid", "shipped">>,
          <<"paid", "refunded">>, <<"payment_failed", "payment_failed">>}

\* The consumer completes with every item, in the order of the producer, and
\* not before it has them, although the done message comes under another key
\* and the items wait for room in the channel.
AllItemsInOrder ==
  pc[Consumer] = "done" => final[Consumer] = [ok |-> TRUE, value |-> [received |-> AllItems]]

\* The order was sent a cancellation before it was placed: nothing else comes
\* before the placement in its channel.
CancelledBeforePlaced(h) == \E p \in DOMAIN h : h[p].key = "PlaceOrder" /\ h[p].n > 1

\* A cancellation that was sent before the order was placed is not lost while
\* the order does not listen to it, and does not come after a timer that is
\* still running: such an order ships only if its timer has expired before it
\* looks at its cases for the first time, with the cancellation still set
\* aside.  (Which of the two wins then is the order of waitForCase; the
\* documentation has the other one, and this holds of both.)
EarlyCancelWins ==
  [][(pc[order] # "absent" /\ CancelledBeforePlaced(handled[order])
        /\ cur[order].key = "PlaceOrder" /\ cur'[order].key = "ShipOrder") =>
       pc[order] = "poll" /\ Expired(order) # {} /\ Buffered(order) # {}]_vars

\* A batch reports what it has processed: every item, also those of a last,
\* shorter chunk, or, cancelled, at most one chunk more than when the channel
\* took the cancellation.
BatchHeedsCancel ==
  pc[batch] = "done" =>
    LET v == final[batch].value
    IN  /\ ~v.cancelled => v.processed = cur[batch].input.len
        /\ asked # Nil => v.processed <= asked + ChunkSize

\* A trip is booked as a whole or not at all, whichever of its bookings fails.
TripAllOrNothing ==
  pc[trip] = "done" => booked = (IF final[trip].ok THEN Services ELSE {})

\* Whatever the clients do or leave undone, every program ends: no booking or
\* order is held for ever, the full channel of the pipeline delays the producer
\* but stops neither routine.
RoutinesEnd ==
  /\ \A i \in Ids \ {Consumer} : pc[i] = "run" ~> pc[i] = "done"
  /\ pc[producer] = "run" ~> pc[Consumer] = "done"

\* A client that waits for the result gets what the consumer completed with,
\* never the zero value: the result is set before doneChan is closed.
ResultArrives ==
  (cpc[c1] = "getting" /\ cop[c1].id = Consumer) ~>
    (cpc[c1] = "idle" /\ got[c1] = [ok |-> TRUE, value |-> [received |-> AllItems]])

=============================================================================
