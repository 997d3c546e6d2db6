------------------------------ MODULE Provider ------------------------------
(***************************************************************************)
(* The provider of docs/howto/provider, an event loop that answers calls   *)
(* to reserve, confirm and go offline, and starts a child routine for each *)
(* reservation that sends it back an expiry when the time to confirm is    *)
(* over.  Payment ids and the list of slots, which no handler reads, are   *)
(* left out.                                                               *)
(***************************************************************************)
EXTENDS Continuation

CONSTANTS Users, Slots, Routines,
          ReservationTimeout, \* ProviderService.ReservationTimeout
          TimerId             \* [Routines -> [Slots -> Routines]]: "reservation-{provider}-{slot}"

ProviderKeys ==
  {"Init", "HandleReserve", "HandleConfirmAndPay", "HandleGoOffline", "HandleExpire",
   "ReservationTimer", "SendExpire"}
ProviderRecovery == [k \in ProviderKeys |-> Nil]

ProviderInput == [online : {TRUE}]
ProviderState == [reserved : [Slots -> Users \cup {Nil}], booked : [Slots -> Users \cup {Nil}]]
TimerInput    == [provider : Routines, user : Users, slot : Slots]

SlotRequest == [user : Users, slot : Slots]      \* ReserveSlot, ConfirmAndPay, ExpireReservation
GoOffline   == [user |-> Nil, slot |-> Nil]

\* A faulty variant: the event loop does not wait for expiries.
SelectWithoutExpire(s) ==
  Select(ReceiveCall("HandleReserve", "reserve-slot", s),
    Select(ReceiveCall("HandleConfirmAndPay", "confirm-and-pay", s),
           ReceiveCall("HandleGoOffline", "go-offline", s)))

SteadyStateSelect(s) ==
  Select(ReceiveCall("HandleReserve", "reserve-slot", s),
    Select(ReceiveCall("HandleConfirmAndPay", "confirm-and-pay", s),
      Select(ReceiveCall("HandleGoOffline", "go-offline", s),
             ReceiveSend("HandleExpire", s))))

GoOnline(x) ==
  LET none == [l \in Slots |-> Nil]
  IN  Return(NewContext, SteadyStateSelect([reserved |-> none, booked |-> none]), Nil)

\* A faulty variant: only bookings, not reservations, are checked.
ReserveReserved(id, s, m) ==
  IF s.booked[m.slot] # Nil
  THEN Return(NewContext, SteadyStateSelect(s), "rejected")
  ELSE Return(BufferStart(NewContext, TimerId[id][m.slot], "ReservationTimer",
                          [provider |-> id, user |-> m.user, slot |-> m.slot]),
              SteadyStateSelect([s EXCEPT !.reserved[m.slot] = m.user]), "reserved")

HandleReserve(id, s, m) ==
  IF s.reserved[m.slot] # Nil \/ s.booked[m.slot] # Nil
  THEN Return(NewContext, SteadyStateSelect(s), "rejected")
  ELSE Return(BufferStart(NewContext, TimerId[id][m.slot], "ReservationTimer",
                          [provider |-> id, user |-> m.user, slot |-> m.slot]),
              SteadyStateSelect([s EXCEPT !.reserved[m.slot] = m.user]), "reserved")

\* A faulty variant: the reservation is not deleted.
ConfirmAndKeep(s, m) ==
  IF s.reserved[m.slot] # m.user
  THEN Return(NewContext, SteadyStateSelect(s), "rejected")
  ELSE Return(NewContext, SteadyStateSelect([s EXCEPT !.booked[m.slot] = m.user]), "confirmed")

HandleConfirmAndPay(s, m) ==
  IF s.reserved[m.slot] # m.user
  THEN Return(NewContext, SteadyStateSelect(s), "rejected")
  ELSE Return(NewContext,
              SteadyStateSelect([s EXCEPT !.reserved[m.slot] = Nil, !.booked[m.slot] = m.user]),
              "confirmed")

\* A faulty variant: an expiry frees the slot whatever has become of it.
ExpireUnchecked(s, m) ==
  Return(NewContext,
         SteadyStateSelect([s EXCEPT !.reserved[m.slot] = Nil, !.booked[m.slot] = Nil]), Nil)

\* An expiry of a reservation that is gone is ignored.
HandleExpire(s, m) ==
  Return(NewContext,
         SteadyStateSelect(IF s.reserved[m.slot] # m.user THEN s
                           ELSE [s EXCEPT !.reserved[m.slot] = Nil]), Nil)

HandleGoOffline(s) == Return(NewContext, Done("offline"), "offline")

ReservationTimer(x) == Return(NewContext, After(ReservationTimeout, "SendExpire", x), Nil)

SendExpire(x) ==
  Return(BufferSend(NewContext, x.provider, "HandleExpire", [user |-> x.user, slot |-> x.slot]),
         Done("expired"), Nil)

\* An input or request of another type does not deserialize.
ProviderRunner(id, k, x, m) ==
  CASE k = "Init" /\ x \in ProviderInput -> {GoOnline(x)}
    [] k = "HandleReserve" /\ x \in ProviderState /\ m \in SlotRequest -> {HandleReserve(id, x, m)}
    [] k = "HandleConfirmAndPay" /\ x \in ProviderState /\ m \in SlotRequest ->
         {HandleConfirmAndPay(x, m)}
    [] k = "HandleExpire" /\ x \in ProviderState /\ m \in SlotRequest -> {HandleExpire(x, m)}
    [] k = "HandleGoOffline" /\ x \in ProviderState -> {HandleGoOffline(x)}
    [] k = "ReservationTimer" /\ x \in TimerInput -> {ReservationTimer(x)}
    [] k = "SendExpire" /\ x \in TimerInput -> {SendExpire(x)}
    [] OTHER -> {Fail(NewContext)}

=============================================================================
