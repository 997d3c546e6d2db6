-------------------------- MODULE AuctionProperties --------------------------
(***************************************************************************)
(* What the auction guarantees on the in-memory backend: one of any number *)
(* of auctions, with any number of bidders.                                *)
(***************************************************************************)
EXTENDS InMemoryProperties, Auction

CONSTANT auction   \* the one we look at

\* All routines are auctions.  The interface for clients (auction.go:79-84)
\* lets them open one and place bids, each under its own name; of the types of
\* the handlers' inputs there are two.
ASSUME AuctionAssumption ==
  /\ auction \in Ids
  /\ {"place-bid", "auction-status"} \subseteq Names
  /\ Amounts \subseteq Nat
  /\ Keys = AuctionKeys /\ Registered = AuctionKeys /\ Recovery = AuctionRecovery
  /\ Inputs \subseteq AuctionInput \cup BiddingInput
  /\ Messages \subseteq PlaceBidReq
  /\ \A i \in Ids, k \in Keys, x \in Inputs, m \in Msg, t \in Time :
       Runner(i, k, x, m, t) = AuctionRunner(k, x, m, t)
  /\ \A c \in Clients, n \in 1..MaxOps : \A o \in Script(c, n) :
       /\ o.op = "go" => o.key = "OpenAuction" /\ o.arg \in AuctionInput
       /\ o.op = "call" => o.arg.bidder = c

Published == queryResults[auction]["auction-status"]

\* The client holds the answer to a bid of its own that was accepted.
HasAccepted(c) ==
  /\ ops[c] > 0 /\ cop[c].op = "call" /\ cop[c].id = auction
  /\ cpc[c] = "idle" /\ got[c].ok /\ got[c].value.accepted

\* Read your own bid: once a bidder knows that a bid was accepted, the status
\* anybody can query is at least that bid, and names another leader only if
\* that leader has bid more.
AcceptedBidIsPublished ==
  \A c \in Clients : HasAccepted(c) =>
    /\ Published # Nil
    /\ Published.highest >= cop[c].arg.amount
    /\ Published.leader # c => Published.highest > cop[c].arg.amount

\* A closed auction was won by the highest bid anybody was told is accepted,
\* and its result is the status last published.
HighestAcceptedBidWins ==
  pc[auction] = "done" =>
    /\ final[auction].ok
    /\ final[auction].value.amount = Published.highest
    /\ final[auction].value.winner = Published.leader
    /\ \A c \in Clients : HasAccepted(c) => final[auction].value.amount >= cop[c].arg.amount

\* Bids are decided one at a time, each against the one before: the status
\* changes only by a higher bid of a client whose call the routine is serving,
\* and by that bid alone.
StatusFollowsBids ==
  [][Published' # Published /\ Published # Nil =>
       \E c \in Clients :
         /\ replyTo[auction] = c /\ cop[c].arg.amount > Published.highest
         /\ Published' = [highest |-> cop[c].arg.amount, leader |-> c, count |-> Published.count + 1]]_vars

\* The timer closes the auction although bids, also failing ones, re-arm it
\* with what is left until the deadline.
AuctionCloses == pc[auction] = "run" ~> pc[auction] = "done"

\* A bid that was received before the auction closed is answered.
ReceivedBidIsAnswered ==
  \A c \in Clients : cpc[c] = "awaiting" ~> cpc[c] = "idle"

\* client.go: a Call waits for its response.
EveryCallReturns ==
  \A c \in Clients : cpc[c] = "calling" ~> cpc[c] = "idle"

=============================================================================
