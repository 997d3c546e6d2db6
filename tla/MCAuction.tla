------------------------------ MODULE MCAuction ------------------------------
(***************************************************************************)
(* The auction on the in-memory backend: two bidders race each other and   *)
(* the closing timer.                                                      *)
(***************************************************************************)
EXTENDS AuctionProperties

CONSTANTS alice, bob

MCIds       == {auction}
MCBidders   == {alice, bob}
MCAmounts   == 0..3
MCDeadlines == 0..(MaxNow + 2)
MCNames     == {"place-bid", "auction-status"}
MCInputs    == [startingBid : {0}, duration : {2}] \cup
               {b \in BiddingInput : b.deadline <= MaxNow + 2}
MCResults   == AuctionStatus \cup AuctionResult \cup PlaceBidResp
MCRunner(i, k, x, m, t) == AuctionRunner(k, x, m, t)

Open   == [op |-> "go", id |-> auction, key |-> "OpenAuction", name |-> Nil,
           arg |-> [startingBid |-> 0, duration |-> 2]]
Bid(c, a) == [op |-> "call", id |-> auction, key |-> "PlaceBid", name |-> "place-bid",
              arg |-> [bidder |-> c, amount |-> a]]
Watch  == [op |-> "query", id |-> auction, key |-> "PlaceBid", name |-> "auction-status", arg |-> Nil]
Await  == [op |-> "get", id |-> auction, key |-> "PlaceBid", name |-> Nil, arg |-> Nil]

MCScript(c, n) ==
  IF c = alice
  THEN CASE n = 1 -> {Open} [] n = 2 -> {Bid(c, 1), Bid(c, 2)} [] n = 3 -> {Watch}
         [] OTHER -> {}
  ELSE CASE n = 1 -> {Bid(c, 2)} [] n = 2 -> {Bid(c, 3), Watch, Await} [] OTHER -> {}

=============================================================================
