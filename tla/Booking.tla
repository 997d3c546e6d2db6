------------------------------- MODULE Booking -------------------------------
(***************************************************************************)
(* The booking of docs/howto/booking: a reserved item is paid for, then    *)
(* shipped, unless the client cancels, the payment fails or a timer        *)
(* expires.  Items, users, addresses and card numbers are left out.        *)
(***************************************************************************)
EXTENDS Continuation

CONSTANTS ReservationTimeout, ShippingTimeout

BookingKeys == {"ReserveItem", "ProcessPayment", "PaymentFailed", "ProcessShipping",
                "CancelBooking", "ExpireReservation", "ExpireShipping"}
BookingRecovery == [k \in BookingKeys |-> IF k = "ProcessPayment" THEN "PaymentFailed" ELSE Nil]

\* The input types tell the states of a booking apart.
BookingInput  == [booking |-> "booking"]
ReservedInput == [booking |-> "booking.reserved"]
PaidInput     == [booking |-> "booking.paid"]
BookingInputs == {BookingInput, ReservedInput, PaidInput}

Confirmed == [confirmed |-> TRUE]
BookingStatus(s) == [status |-> s]
Statuses == {BookingStatus(s) : s \in {"reserved", "paid", "payment_failed", "shipped", "cancelled",
                                 "expired", "refunded"}}

ReserveItem ==
  Return(SetQueryResult(NewContext, "status", BookingStatus("reserved")),
         Select(ReceiveSend("ProcessPayment", ReservedInput),
                Select(ReceiveCall("CancelBooking", "cancel", ReservedInput),
                       After(ReservationTimeout, "ExpireReservation", ReservedInput))), Nil)

Paid == SetQueryResult(NewContext, "status", BookingStatus("paid"))

\* Faulty variants: a paid booking still listens to cancellations, or is not
\* refunded when no shipping address comes.
ProcessPaymentCancellable ==
  {Return(Paid, Select(ReceiveSend("ProcessShipping", PaidInput),
                       Select(ReceiveCall("CancelBooking", "cancel", ReservedInput),
                              After(ShippingTimeout, "ExpireShipping", PaidInput))), Nil),
   Fail(NewContext)}

ProcessPaymentUntimed ==
  {Return(Paid, ReceiveSend("ProcessShipping", PaidInput), Nil), Fail(NewContext)}

\* The card may be refused.
ProcessPayment ==
  {Return(Paid, Select(ReceiveSend("ProcessShipping", PaidInput),
                       After(ShippingTimeout, "ExpireShipping", PaidInput)), Nil),
   Fail(NewContext)}

PaymentFailed == Return(SetQueryResult(NewContext, "status", BookingStatus("payment_failed")),
                        Done(BookingStatus("payment_failed")), Nil)

ProcessShipping   == Return(NewContext, Done(BookingStatus("shipped")), Nil)

\* A faulty variant: the caller is told so, but the reservation stays.
CancelBookingLater ==
  Return(NewContext, Select(ReceiveSend("ProcessPayment", ReservedInput),
                            After(ReservationTimeout, "ExpireReservation", ReservedInput)), Confirmed)

CancelBooking     == Return(NewContext, Done(BookingStatus("cancelled")), Confirmed)
ExpireReservation == Return(NewContext, Done(BookingStatus("expired")), Nil)
ExpireShipping    == Return(NewContext, Done(BookingStatus("refunded")), Nil)

\* A handler that takes a message fails without one, or on another input type.
BookingRunner(k, x, m) ==
  CASE k = "ReserveItem" /\ x = BookingInput -> {ReserveItem}
    [] k = "ProcessPayment" /\ x = ReservedInput /\ m # Nil -> ProcessPayment
    [] k = "PaymentFailed" /\ x = ReservedInput /\ m # Nil -> {PaymentFailed}
    [] k = "ProcessShipping" /\ x = PaidInput /\ m # Nil -> {ProcessShipping}
    [] k = "CancelBooking" /\ x = ReservedInput /\ m # Nil -> {CancelBooking}
    [] k = "ExpireReservation" /\ x = ReservedInput -> {ExpireReservation}
    [] k = "ExpireShipping" /\ x = PaidInput -> {ExpireShipping}
    [] OTHER -> {Fail(NewContext)}

=============================================================================
