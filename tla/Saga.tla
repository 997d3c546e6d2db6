-------------------------------- MODULE Saga --------------------------------
(***************************************************************************)
(* The trip of docs/howto/saga: flight, hotel and car are booked one after *)
(* the other, and a step that fails for good cancels what was booked before *)
(* it.  Ids, confirmations and the errors' texts are left out.             *)
(***************************************************************************)
EXTENDS Continuation

SagaKeys == {"BookFlight", "BookHotel", "BookCar", "CompensateHotel", "CompensateCar"}
SagaRecovery ==
  [k \in SagaKeys |-> CASE k = "BookHotel" -> "CompensateHotel"
                        [] k = "BookCar"   -> "CompensateCar"
                        [] OTHER           -> Nil]

\* The input types tell the states of a trip apart.
TripInput    == [trip |-> "trip-booking"]
FlightBooked == [trip |-> "trip.flight-booked"]
HotelBooked  == [trip |-> "trip.hotel-booked"]
SagaInputs   == {TripInput, FlightBooked, HotelBooked}
TripResult   == [trip |-> "trip-result"]

-----------------------------------------------------------------------------
(* What the handlers do to the services outside.  A service that returns   *)
(* an error has booked nothing; a cancellation succeeds.                   *)

Services == {"flight", "hotel", "car"}

Books(k) == CASE k = "BookFlight" -> {"flight"}
              [] k = "BookHotel"  -> {"hotel"}
              [] k = "BookCar"    -> {"car"}
              [] OTHER            -> {}

\* A faulty variant: the flight is forgotten.
CancelsLastOnly(k) == CASE k = "CompensateHotel" -> <<"flight">>
                        [] k = "CompensateCar"   -> <<"hotel">>
                        [] OTHER                 -> <<>>

\* In this order.
Cancels(k) == CASE k = "CompensateHotel" -> <<"flight">>
                [] k = "CompensateCar"   -> <<"hotel", "flight">>
                [] OTHER                 -> <<>>

\* The services that are booked after one attempt of the handler of k.
AfterAttempt(k, ok, booked) == IF ok THEN booked \cup Books(k) ELSE booked

\* The services that are booked after the recovery handler of k has got as far
\* as its n-th cancellation.
AfterRecovery(k, n, booked) ==
  booked \ {Cancels(SagaRecovery[k])[p] : p \in 1..n}

-----------------------------------------------------------------------------
(* The handlers.  Each booking may fail.                                   *)

BookFlight == {Return(NewContext, Continue("BookHotel", FlightBooked), Nil), Fail(NewContext)}
BookHotel  == {Return(NewContext, Continue("BookCar", HotelBooked), Nil), Fail(NewContext)}
BookCar    == {Return(NewContext, Done(TripResult), Nil), Fail(NewContext)}

\* Compensation does not save the routine: it returns an error itself.
Compensate == {Fail(NewContext)}

SagaRunner(k, x, m) ==
  CASE k = "BookFlight" /\ x = TripInput -> BookFlight
    [] k = "BookHotel" /\ x = FlightBooked -> BookHotel
    [] k = "BookCar" /\ x = HotelBooked -> BookCar
    [] OTHER -> Compensate

=============================================================================
