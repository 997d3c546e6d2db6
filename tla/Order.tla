-------------------------------- MODULE Order --------------------------------
(***************************************************************************)
(* The order of docs/howto/order: a pending order is placed or times out,  *)
(* a placed one is cancelled or shipped.  Items and ids are left out.      *)
(***************************************************************************)
EXTENDS Continuation

CONSTANTS ExpireTimeout, ShipTimeout

OrderKeys == {"CreateOrder", "PlaceOrder", "CancelOrder", "ShipOrder", "ExpireOrder"}

\* The input types tell the states of an order apart.
OrderInput  == [order |-> "order"]
Pending     == [order |-> "order.pending"]
Placed      == [order |-> "order.placed"]
OrderInputs == {OrderInput, Pending, Placed}

OrderStatus  == {[orderStatus |-> s] : s \in {"pending", "placed"}}
OrderResults == {[orderStatus |-> s] : s \in {"cancelled", "shipped", "timed_out"}}

Publish(s) == SetQueryResult(NewContext, "get-order-status", [orderStatus |-> s])
Ended(s)   == Return(NewContext, Done([orderStatus |-> s]), Nil)

CreateOrder ==
  Return(Publish("pending"),
         Select(ReceiveSend("PlaceOrder", Pending), After(ExpireTimeout, "ExpireOrder", Pending)), Nil)

PlaceOrder ==
  Return(Publish("placed"),
         Select(ReceiveSend("CancelOrder", Placed), After(ShipTimeout, "ShipOrder", Placed)), Nil)

CancelOrder == Ended("cancelled")
ShipOrder   == Ended("shipped")
ExpireOrder == Ended("timed_out")

OrderRunner(k, x, m) ==
  CASE k = "CreateOrder" /\ x = OrderInput -> {CreateOrder}
    [] k = "PlaceOrder" /\ x = Pending /\ m # Nil -> {PlaceOrder}
    [] k = "CancelOrder" /\ x = Placed /\ m # Nil -> {CancelOrder}
    [] k = "ShipOrder" /\ x = Placed -> {ShipOrder}
    [] k = "ExpireOrder" /\ x = Pending -> {ExpireOrder}
    [] OTHER -> {Fail(NewContext)}

=============================================================================
