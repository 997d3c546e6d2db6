------------------------------- MODULE Auction -------------------------------
(***************************************************************************)
(* The auction of docs/howto/auction: bids are calls, answered at once as  *)
(* accepted or too low; a timer closes the auction at its deadline.  Item  *)
(* names and message texts are left out.                                   *)
(***************************************************************************)
EXTENDS Continuation

CONSTANTS Bidders, Amounts, Deadlines

AuctionKeys == {"OpenAuction", "PlaceBid", "BidFailed", "CloseAuction"}
AuctionRecovery == [k \in AuctionKeys |-> IF k = "PlaceBid" THEN "BidFailed" ELSE Nil]

AuctionInput == [startingBid : Amounts, duration : Deadlines]
PlaceBidReq  == [bidder : Bidders, amount : Amounts]

\* Every accepted bid is higher than the one before, hence count <= highest.
BiddingInput == {b \in [deadline : Deadlines, highest : Amounts,
                        leader : Bidders \cup {Nil}, count : Nat \cap Amounts] :
                   b.count <= b.highest}

AuctionStatus == [highest : Amounts, leader : Bidders \cup {Nil}, count : Amounts]
AuctionResult == [winner : Bidders \cup {Nil}, amount : Amounts, count : Amounts]
PlaceBidResp  == [accepted : BOOLEAN, highest : Amounts]

Until(d, t) == IF d > t THEN d - t ELSE 0

Status(b) == [highest |-> b.highest, leader |-> b.leader, count |-> b.count]

Bidding(b, t) ==
  Select(ReceiveCall("PlaceBid", "place-bid", b),
         After(Until(b.deadline, t), "CloseAuction", b))

OpenAuction(x, t) ==
  LET b == [deadline |-> t + x.duration, highest |-> x.startingBid, leader |-> Nil, count |-> 0]
  IN  Return(SetQueryResult(NewContext, "auction-status", Status(b)), Bidding(b, t), Nil)

\* Faulty variants: a bid as high as the highest is accepted; the auction goes
\* on from the state before the bid.
PlaceEqualBid(b, m, t) ==
  IF m.amount < b.highest
  THEN Return(NewContext, Bidding(b, t), [accepted |-> FALSE, highest |-> b.highest])
  ELSE LET c == [b EXCEPT !.highest = m.amount, !.leader = m.bidder]
       IN  Return(SetQueryResult(NewContext, "auction-status", Status(c)), Bidding(c, t),
                  [accepted |-> TRUE, highest |-> c.highest])

PlaceBidForgotten(b, m, t) ==
  IF m.amount <= b.highest
  THEN Return(NewContext, Bidding(b, t), [accepted |-> FALSE, highest |-> b.highest])
  ELSE LET c == [b EXCEPT !.highest = m.amount, !.leader = m.bidder, !.count = @ + 1]
       IN  Return(SetQueryResult(NewContext, "auction-status", Status(c)), Bidding(b, t),
                  [accepted |-> TRUE, highest |-> c.highest])

PlaceBid(b, m, t) ==
  IF m.amount <= b.highest
  THEN Return(NewContext, Bidding(b, t), [accepted |-> FALSE, highest |-> b.highest])
  ELSE LET c == [b EXCEPT !.highest = m.amount, !.leader = m.bidder, !.count = @ + 1]
       IN  Return(SetQueryResult(NewContext, "auction-status", Status(c)), Bidding(c, t),
                  [accepted |-> TRUE, highest |-> c.highest])

\* A faulty variant: recovery forgets to re-arm the closing timer.
BidFailedUntimed(b, m, t) ==
  Return(NewContext, ReceiveCall("PlaceBid", "place-bid", b), [accepted |-> FALSE, highest |-> 0])

BidFailed(b, m, t) == Return(NewContext, Bidding(b, t), [accepted |-> FALSE, highest |-> 0])

CloseAuction(b) ==
  Return(NewContext,
         Done([winner |-> b.leader, amount |-> b.highest, count |-> b.count]), Nil)

\* A bid may also fail: its registration names a recovery handler for that.
\* An input or request of another type does not deserialize.
AuctionRunner(k, x, m, t) ==
  CASE k = "OpenAuction" /\ x \in AuctionInput -> {OpenAuction(x, t)}
    [] k = "PlaceBid" /\ x \in BiddingInput /\ m \in PlaceBidReq ->
         {PlaceBid(x, m, t), Fail(NewContext)}
    [] k = "BidFailed" /\ x \in BiddingInput /\ m \in PlaceBidReq -> {BidFailed(x, m, t)}
    [] k = "CloseAuction" /\ x \in BiddingInput -> {CloseAuction(x)}
    [] OTHER -> {Fail(NewContext)}

=============================================================================
