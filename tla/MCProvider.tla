----------------------------- MODULE MCProvider -----------------------------
(***************************************************************************)
(* The provider on the in-memory backend: two users compete for one slot   *)
(* against the timer of the first reservation.                             *)
(***************************************************************************)
EXTENDS ProviderProperties

CONSTANTS timer, alice, bob, slot

MCRoutines == {provider, timer}
MCUsers    == {alice, bob}
MCSlots    == {slot}
MCTimerId  == [i \in MCRoutines |-> [l \in MCSlots |-> timer]]
MCNames    == {"reserve-slot", "confirm-and-pay", "go-offline"}
MCInputs   == ProviderInput \cup ProviderState \cup TimerInput
MCMessages == SlotRequest \cup {GoOffline}
MCResults  == {"rejected", "reserved", "confirmed", "offline", "expired"}
MCRunner(i, k, x, m, t) == ProviderRunner(i, k, x, m)

Request(op, k, n, a) == [op |-> op, id |-> provider, key |-> k, name |-> n, arg |-> a]
Reserve(c) == Request("call", "HandleReserve", "reserve-slot", [user |-> c, slot |-> slot])
Confirm(c) == Request("call", "HandleConfirmAndPay", "confirm-and-pay", [user |-> c, slot |-> slot])
Offline    == Request("call", "HandleGoOffline", "go-offline", GoOffline)

MCScript(c, n) ==
  IF c = alice
  THEN CASE n = 1 -> {Request("go", "Init", Nil, [online |-> TRUE])}
         [] n = 2 -> {Reserve(c)} [] n = 3 -> {Confirm(c)} [] OTHER -> {}
  ELSE CASE n = 1 -> {Reserve(c)} [] n = 2 -> {Reserve(c), Confirm(c)}
         [] n = 3 -> {Confirm(c), Offline} [] OTHER -> {}

=============================================================================
