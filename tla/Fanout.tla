------------------------------- MODULE Fanout -------------------------------
(***************************************************************************)
(* The fan-out of docs/howto/fanout: a parent starts one child per item,   *)
(* every child sends its result back, and the parent completes with all    *)
(* of them.  The parent of no items waits for a result all the same.       *)
(***************************************************************************)
EXTENDS Continuation, FiniteSets

CONSTANTS
  Parent,
  Work      \* the items, as a sequence; an item is also the id of its child

FanoutKeys == {"StartItems", "CollectResult", "ProcessItem"}

FanoutItems == {Work[p] : p \in DOMAIN Work}
FanoutInput == [items : {Work, <<>>}]
ItemInput   == [item : FanoutItems, parent : {Parent}]
\* What a parent waits with: every result collected is one it waits for no more.
Collecting  == UNION {[left : {Len(Work) - n}, results : [1..n -> FanoutItems]] : n \in 0..(Len(Work) - 1)}
               \cup {[left |-> 0, results |-> <<>>]}
FanoutResult == [results : UNION {[1..n -> FanoutItems] : n \in 0..Len(Work)}]

StartItems(x) ==
  LET start(p) == [id |-> x.items[p], key |-> "ProcessItem",
                   input |-> [item |-> x.items[p], parent |-> Parent]]
  IN  Return([NewContext EXCEPT !.starts = [p \in DOMAIN x.items |-> start(p)]],
             ReceiveSend("CollectResult", [left |-> Len(x.items), results |-> <<>>]), Nil)

\* A faulty variant: the parent completes and forgets what it is given last.
CollectAllButLast(x, m) ==
  LET y == [left |-> x.left - 1, results |-> Append(x.results, m)]
  IN  Return(NewContext, IF y.left > 0 THEN ReceiveSend("CollectResult", y) ELSE Done([results |-> x.results]), Nil)

CollectResult(x, m) ==
  LET y == [left |-> x.left - 1, results |-> Append(x.results, m)]
  IN  Return(NewContext, IF y.left > 0 THEN ReceiveSend("CollectResult", y) ELSE Done([results |-> y.results]), Nil)

ProcessItem(x) ==
  Return(BufferSend(NewContext, x.parent, "CollectResult", x.item), Done(Unit), Nil)

FanoutRunner(k, x, m) ==
  CASE k = "StartItems" /\ x \in FanoutInput -> {StartItems(x)}
    [] k = "CollectResult" /\ x \in Collecting /\ m \in FanoutItems -> {CollectResult(x, m)}
    [] k = "ProcessItem" /\ x \in ItemInput -> {ProcessItem(x)}
    [] OTHER -> {Fail(NewContext)}

=============================================================================
