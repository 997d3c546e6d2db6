------------------------------ MODULE Pipeline ------------------------------
(***************************************************************************)
(* The pipeline of docs/howto/pipeline: a producer sends its items and a   *)
(* done message, under two keys, to a consumer that collects the items     *)
(* until it is told that there are no more.                                *)
(***************************************************************************)
EXTENDS Continuation

CONSTANTS Consumer, Items, DoneMsg

PipelineKeys == {"Produce", "StartConsumer", "ReceiveItem", "ReceiveDone"}

Item     == [seq : 1..Items]
AllItems == [p \in 1..Items |-> [seq |-> p]]

ProducerInput == [items : {AllItems}]
\* Also what the consumer completes with.
ConsumerInput == [received : UNION {[1..n -> Item] : n \in 0..Items}]

\* A faulty variant: the done message is sent before the last item.
ProduceDoneEarly(x) ==
  LET item(p) == [id |-> Consumer, key |-> "ReceiveItem", msg |-> x.items[p]]
      ctx == BufferSend([NewContext EXCEPT !.sends = [p \in 1..(Items - 1) |-> item(p)]],
                        Consumer, "ReceiveDone", DoneMsg)
  IN  Return(BufferSend(ctx, Consumer, "ReceiveItem", x.items[Items]), Done(Unit), Nil)

Produce(x) ==
  LET sends == [p \in DOMAIN x.items |-> [id |-> Consumer, key |-> "ReceiveItem", msg |-> x.items[p]]]
  IN  Return(BufferSend([NewContext EXCEPT !.sends = sends], Consumer, "ReceiveDone", DoneMsg),
             Done(Unit), Nil)

\* The consumer waits for both; the case of the items comes first.
Collect(x) ==
  Return(NewContext, Select(ReceiveSend("ReceiveItem", x), ReceiveSend("ReceiveDone", x)), Nil)

StartConsumer(x)  == Collect(x)
ReceiveItem(x, m) == Collect([x EXCEPT !.received = Append(@, m)])
ReceiveDone(x)    == Return(NewContext, Done([received |-> x.received]), Nil)

PipelineRunner(k, x, m) ==
  CASE k = "Produce" /\ x \in ProducerInput -> {Produce(x)}
    [] k = "StartConsumer" /\ x \in ConsumerInput -> {StartConsumer(x)}
    [] k = "ReceiveItem" /\ x \in ConsumerInput /\ m \in Item /\ Len(x.received) < Items ->
         {ReceiveItem(x, m)}
    [] k = "ReceiveDone" /\ x \in ConsumerInput /\ m = DoneMsg -> {ReceiveDone(x)}
    [] OTHER -> {Fail(NewContext)}

=============================================================================
