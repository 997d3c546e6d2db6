---------------------------- MODULE AuctionProofs ----------------------------
(***************************************************************************)
(* Proofs about the auction on the in-memory backend: what bidders are     *)
(* told, what anybody can query and how it ends agree, for any number of   *)
(* auctions and bidders, any bids and any deadlines.                       *)
(***************************************************************************)
EXTENDS AuctionProperties, InMemoryProofs

-----------------------------------------------------------------------------
(* The invariant.                                                          *)

\* Auctions start no children and send nothing.
Silent == \A i \in Ids : pc[i] = "effects" => out[i].starts = <<>> /\ out[i].sends = <<>>

\* Bids are bids, in the name of those who make them.
BidsAreOwn ==
  \A i \in Ids, c \in Clients : Called(i, c) =>
    cop[c].arg \in PlaceBidReq /\ cop[c].arg.bidder = c

\* The state b that the auction carries on is the one it has published.
Book(b) == b \in BiddingInput /\ Published # Nil /\ Published = Status(b)

\* What the next invocation is for: to open the auction, to decide the bid of
\* the client it owes an answer, or to close.
Opens   == /\ cur[auction].key = "OpenAuction" /\ cur[auction].input \in AuctionInput
           /\ Published = Nil /\ replyTo[auction] = NoClient
Decides == /\ cur[auction].key = "PlaceBid" /\ Book(cur[auction].input)
           /\ replyTo[auction] # NoClient /\ cur[auction].msg = cop[replyTo[auction]].arg
Closes  == /\ cur[auction].key = "CloseAuction" /\ Book(cur[auction].input)
           /\ replyTo[auction] = NoClient

\* What the last one returned: a wait for bids and the deadline, or the result.
AwaitsBids(o) ==
  /\ o.ok /\ ~o.done
  /\ Len(o.cases) = 2
  /\ o.cases[1].kind = "call" /\ o.cases[1].key = "PlaceBid"
  /\ o.cases[2].kind = "after" /\ o.cases[2].key = "CloseAuction"
  /\ o.cases[2].input = o.cases[1].input
  /\ Book(o.cases[1].input)

\* A result that is the status last published.
Agrees(v) == v.amount = Published.highest /\ v.winner = Published.leader

Progress ==
  /\ pc[auction] = "absent" => Published = Nil
  /\ pc[auction] = "run" => Opens \/ Decides \/ Closes
  /\ pc[auction] \notin {"absent", "run", "done"} =>
       \/ AwaitsBids(out[auction])
       \/ /\ pc[auction] = "effects" /\ replyTo[auction] = NoClient
          /\ out[auction].ok /\ out[auction].done /\ Agrees(out[auction].result)
  /\ pc[auction] = "done" => final[auction].ok /\ Agrees(final[auction].value)

\* The answer to a bid of c says that it was accepted.
Accepted(c, r) == Answered(auction, c, r) /\ r.ok /\ r.value.accepted

\* What is published stands by the bid of c.
Stands(c) ==
  /\ Published # Nil
  /\ Published.highest >= cop[c].arg.amount
  /\ Published.leader # c => Published.highest > cop[c].arg.amount

Truthful == \A c \in Clients, r \in Response : Accepted(c, r) => Stands(c)

AuctionInv == AnswerInv /\ Silent /\ BidsAreOwn /\ Progress /\ Truthful

-----------------------------------------------------------------------------
(* The handlers.                                                           *)

LEMMA RunnerIs ==
  ASSUME now \in Time, NEW i \in Ids, NEW k \in Keys, NEW x \in Inputs, NEW m \in Msg
  PROVE  Runner(i, k, x, m, now) = AuctionRunner(k, x, m, now)
BY AuctionAssumption

\* Whatever they return, it has no effects on other routines.
LEMMA RunnerSilent ==
  ASSUME NEW k, NEW x, NEW m, NEW t, NEW a \in AuctionRunner(k, x, m, t)
  PROVE  a.starts = <<>> /\ a.sends = <<>>
<1> USE DEF Return, Fail, RunOutput, NewContext, SetQueryResult
<1>1. \A b : OpenAuction(b, t).starts = <<>> /\ OpenAuction(b, t).sends = <<>>
  BY DEF OpenAuction
<1>2. PlaceBid(x, m, t).starts = <<>> /\ PlaceBid(x, m, t).sends = <<>>
  BY DEF PlaceBid
<1>3. BidFailed(x, m, t).starts = <<>> /\ BidFailed(x, m, t).sends = <<>>
  BY DEF BidFailed
<1>4. CloseAuction(x).starts = <<>> /\ CloseAuction(x).sends = <<>>
  BY DEF CloseAuction
<1>5. Fail(NewContext).starts = <<>> /\ Fail(NewContext).sends = <<>>
  OBVIOUS
<1>6. a \in {OpenAuction(x, t), PlaceBid(x, m, t), BidFailed(x, m, t), CloseAuction(x),
             Fail(NewContext)}
  BY DEF AuctionRunner
<1> QED
  BY <1>1, <1>2, <1>3, <1>4, <1>5, <1>6

LEMMA OutcomesSilent ==
  ASSUME now \in Time, NEW i \in Ids, NEW k \in Keys, NEW x \in Inputs, NEW m \in Msg,
         NEW a \in Outcomes(i, k, x, m)
  PROVE  a.starts = <<>> /\ a.sends = <<>>
<1>1. \A l \in Keys : \A o \in Runner(i, l, x, m, now) : o.starts = <<>> /\ o.sends = <<>>
  BY RunnerIs, RunnerSilent
<1>2. Failure.starts = <<>> /\ Failure.sends = <<>>
  BY DEF Failure, Fail, RunOutput, NewContext
<1>3. \A o \in Recover(i, k, x, m) : o.starts = <<>> /\ o.sends = <<>>
  BY <1>1, <1>2, DurableAssumption DEF Recover
<1> QED
  BY <1>1, <1>2, <1>3 DEF Outcomes

\* A wait for bids carries on one state in both cases.
LEMMA BiddingCases ==
  ASSUME NEW b, NEW t
  PROVE  /\ ~ Bidding(b, t).done
         /\ Len(Bidding(b, t).cases) = 2
         /\ Bidding(b, t).cases[1].kind = "call"  /\ Bidding(b, t).cases[1].key = "PlaceBid"
         /\ Bidding(b, t).cases[2].kind = "after" /\ Bidding(b, t).cases[2].key = "CloseAuction"
         /\ Bidding(b, t).cases[1].input = b      /\ Bidding(b, t).cases[2].input = b
BY DEF Bidding, Select, ReceiveCall, After, WaitFor

LEMMA OpenOutcome ==
  ASSUME now \in Time, NEW i \in Ids, NEW x \in Inputs, x \in AuctionInput, NEW m \in Msg,
         NEW a \in Outcomes(i, "OpenAuction", x, m)
  PROVE  a = OpenAuction(x, now)
<1>1. "OpenAuction" \in Keys /\ "OpenAuction" \in Registered
  BY AuctionAssumption DEF AuctionKeys
<1>2. Runner(i, "OpenAuction", x, m, now) = {OpenAuction(x, now)}
  BY <1>1, RunnerIs DEF AuctionRunner
<1>3. OpenAuction(x, now).ok
  BY DEF OpenAuction, Return, RunOutput
<1> QED
  BY <1>1, <1>2, <1>3 DEF Outcomes

\* A bid is decided, or its recovery handler answers that it has failed.
LEMMA BidOutcome ==
  ASSUME now \in Time, NEW i \in Ids, NEW b \in Inputs, b \in BiddingInput,
         NEW m \in Msg, m \in PlaceBidReq, NEW a \in Outcomes(i, "PlaceBid", b, m)
  PROVE  a \in {PlaceBid(b, m, now), BidFailed(b, m, now)}
<1>1. /\ "PlaceBid" \in Keys /\ "PlaceBid" \in Registered
      /\ "BidFailed" \in Keys /\ "BidFailed" \in Registered
      /\ Recovery["PlaceBid"] = "BidFailed"
  BY AuctionAssumption DEF AuctionKeys, AuctionRecovery
<1>2. Runner(i, "PlaceBid", b, m, now) = {PlaceBid(b, m, now), Fail(NewContext)}
  BY <1>1, RunnerIs DEF AuctionRunner
<1>3. Runner(i, "BidFailed", b, m, now) = {BidFailed(b, m, now)}
  BY <1>1, RunnerIs DEF AuctionRunner
<1>4. PlaceBid(b, m, now).ok /\ BidFailed(b, m, now).ok /\ ~ Fail(NewContext).ok
  BY DEF PlaceBid, BidFailed, Fail, Return, RunOutput
<1>5. Recover(i, "PlaceBid", b, m) = {BidFailed(b, m, now)}
  BY <1>1, <1>3, <1>4, DurableAssumption DEF Recover
<1> QED
  BY <1>1, <1>2, <1>4, <1>5 DEF Outcomes

LEMMA CloseOutcome ==
  ASSUME now \in Time, NEW i \in Ids, NEW b \in Inputs, b \in BiddingInput, NEW m \in Msg,
         NEW a \in Outcomes(i, "CloseAuction", b, m)
  PROVE  a = CloseAuction(b)
<1>1. "CloseAuction" \in Keys /\ "CloseAuction" \in Registered
  BY AuctionAssumption DEF AuctionKeys
<1>2. Runner(i, "CloseAuction", b, m, now) = {CloseAuction(b)}
  BY <1>1, RunnerIs DEF AuctionRunner
<1>3. CloseAuction(b).ok
  BY DEF CloseAuction, Return, RunOutput
<1> QED
  BY <1>1, <1>2, <1>3 DEF Outcomes

-----------------------------------------------------------------------------
(* A handler of the auction runs.                                          *)

LEMMA PublishedBy ==
  ASSUME TypeInv, NEW a \in Attempt,
         queryResults' = [queryResults EXCEPT ![auction] = Merge(@, a.queries)]
  PROVE  IF "auction-status" \in DOMAIN a.queries
         THEN Published' = a.queries["auction-status"] /\ Published' # Nil
         ELSE Published' = Published
<1>1. PICK Q \in SUBSET Names : a.queries \in [Q -> Results]
  BY DEF Attempt
<1>2. auction \in Ids /\ queryResults[auction] \in [Names -> Value]
  BY AuctionAssumption DEF TypeInv, TypeOK
<1>3. queryResults'[auction] = Merge(queryResults[auction], a.queries)
  BY <1>2 DEF TypeInv, TypeOK
<1>4. "auction-status" \in DOMAIN queryResults[auction]
  BY <1>2, AuctionAssumption
<1>5. Nil \notin Results
  BY DurableAssumption
<1> QED
  BY <1>1, <1>3, <1>4, <1>5 DEF Merge, Published

\* A state that a handler may carry on and that has a highest bid is one of bidding.
LEMMA BiddingState ==
  ASSUME NEW b \in Inputs, "highest" \in DOMAIN b
  PROVE  b \in BiddingInput
<1>1. b \notin AuctionInput
  BY DEF AuctionInput
<1> QED
  BY <1>1, AuctionAssumption

\* An attempt waits for bids with state b, which is published when it is applied.
LEMMA Carried ==
  ASSUME out'[auction] \in Attempt, NEW b, NEW t, NEW ctx, NEW r,
         out'[auction] = Return(ctx, Bidding(b, t), r),
         "highest" \in DOMAIN b, Published' # Nil, Published' = Status(b)
  PROVE  AwaitsBids(out[auction])' /\ b \in BiddingInput
<1> DEFINE a == out'[auction]
<1>1. a.ok /\ a.done = Bidding(b, t).done /\ a.cases = Bidding(b, t).cases
  BY DEF Return, RunOutput
<1>2. a.cases[1] \in Case
  BY <1>1, BiddingCases DEF Attempt
<1>3. b \in BiddingInput
  BY <1>1, <1>2, BiddingCases, BiddingState DEF Case
<1> QED
  BY <1>1, <1>3, BiddingCases DEF AwaitsBids, Book

\* What is published by an attempt that has succeeded, and by whom.
LEMMA PublishedNext ==
  ASSUME AuctionInv, RunHandler(auction)
  PROVE  /\ out'[auction] \in Attempt
         /\ out'[auction] \in Outcomes(auction, cur[auction].key, cur[auction].input, cur[auction].msg)
         /\ IF "auction-status" \in DOMAIN out'[auction].queries
            THEN Published' = out'[auction].queries["auction-status"] /\ Published' # Nil
            ELSE Published' = Published
         /\ pc'[auction] = "effects" /\ UNCHANGED <<replyTo, ops, cop, cpc, resp, got>>
<1>1. TypeInv /\ auction \in Ids
  BY AuctionAssumption DEF AuctionInv, AnswerInv, CallInv
<1>2. PICK a \in Outcomes(auction, cur[auction].key, cur[auction].input, cur[auction].msg) :
        /\ out' = [out EXCEPT ![auction] = a]
        /\ queryResults' = [queryResults EXCEPT ![auction] = Merge(@, a.queries)]
  BY DEF RunHandler
<1>3. cur[auction] \in Invocation
  BY <1>1 DEF RunHandler, TypeInv, WellFormed
<1>4. a \in Attempt
  BY <1>1, <1>2, <1>3, OutcomesType DEF Invocation, TypeInv, TypeOK
<1>5. out'[auction] = a
  BY <1>1, <1>2 DEF TypeInv, TypeOK
<1>6. pc'[auction] = "effects" /\ UNCHANGED <<replyTo, ops, cop, cpc, resp, got>>
  BY <1>1 DEF RunHandler, clientVars, TypeInv, TypeOK
<1> QED
  BY <1>1, <1>2, <1>4, <1>5, <1>6, PublishedBy

LEMMA AuctionOpens ==
  ASSUME AuctionInv, RunHandler(auction), Opens
  PROVE  Progress' /\ Truthful'
<1> DEFINE a == out'[auction]
           x == cur[auction].input
           b == [deadline |-> now + x.duration, highest |-> x.startingBid, leader |-> Nil, count |-> 0]
<1>1. cur[auction] \in Invocation /\ now \in Time /\ auction \in Ids
  BY AuctionAssumption DEF AuctionInv, AnswerInv, CallInv, TypeInv, TypeOK, WellFormed, RunHandler
<1>2. a = OpenAuction(x, now)
  BY <1>1, PublishedNext, OpenOutcome DEF Opens, Invocation
<1>3. a = Return(SetQueryResult(NewContext, "auction-status", Status(b)), Bidding(b, now), Nil)
  BY <1>2 DEF OpenAuction
<1>4. Published' = Status(b) /\ Published' # Nil
  <2>1. a.queries = [q \in {"auction-status"} |-> Status(b)]
    BY <1>3 DEF Return, RunOutput, SetQueryResult, NewContext
  <2> QED
    BY <2>1, PublishedNext
<1>5. AwaitsBids(out[auction])'
  <2>1. a \in Attempt /\ "highest" \in DOMAIN b
    BY PublishedNext
  <2> HIDE DEF b
  <2> QED
    BY <2>1, <1>3, <1>4, Carried
<1>6. Progress'
  BY <1>5, PublishedNext DEF Progress
<1>7. \A c \in Clients : ~ Stands(c)
  BY DEF Opens, Stands
<1>8. \A c \in Clients : replyTo'[auction] # c
  BY PublishedNext, RuntimeAssumption DEF Opens
<1>9. \A c \in Clients, r \in Response : ~ Accepted(c, r)'
  BY <1>1, <1>7, <1>8, PublishedNext, AnswersGiven DEF AuctionInv, Truthful, Accepted, Opens
<1> QED
  BY <1>6, <1>9 DEF Truthful

\* The client whose bid is decided has made that bid.
LEMMA Bidder ==
  ASSUME AuctionInv, NEW c \in Clients, replyTo[auction] = c
  PROVE  Called(auction, c) /\ cop[c].arg \in PlaceBidReq /\ cop[c].arg.bidder = c
BY OwedCaller, AuctionAssumption DEF AuctionInv, BidsAreOwn

\* A higher bid of the client that the auction serves takes the lead ...
Leads(c) ==
  /\ replyTo[auction] = c /\ cop[c].arg.amount > Published.highest
  /\ Published' # Nil
  /\ Published' = [highest |-> cop[c].arg.amount, leader |-> c, count |-> Published.count + 1]

\* ... and one that is not higher, or fails, is turned down.
TurnedDown ==
  /\ Published' = Published /\ ~ out'[auction].resp.accepted

LEMMA BidDecided ==
  ASSUME AuctionInv, RunHandler(auction), Decides
  PROVE  /\ AwaitsBids(out[auction])'
         /\ replyTo[auction] \in Clients
         /\ Leads(replyTo[auction]) \/ TurnedDown
<1> DEFINE a == out'[auction]
           b == cur[auction].input
           c == replyTo[auction]
           m == cop[c].arg
           h == [b EXCEPT !.highest = m.amount, !.leader = m.bidder, !.count = @ + 1]
<1>1. cur[auction] \in Invocation /\ now \in Time /\ auction \in Ids
  BY AuctionAssumption DEF AuctionInv, AnswerInv, CallInv, TypeInv, TypeOK, WellFormed, RunHandler
<1>2. c \in Clients
  BY <1>1 DEF Decides, AuctionInv, AnswerInv, CallInv, TypeInv, TypeOK
<1>3. m \in PlaceBidReq /\ m.bidder = c
  BY <1>2, Bidder
<1>4. b \in BiddingInput /\ b \in Inputs /\ m \in Msg /\ Published = Status(b) /\ Published # Nil
  BY <1>1 DEF Decides, Book, Invocation
<1>5. a \in {PlaceBid(b, m, now), BidFailed(b, m, now)}
  BY <1>1, <1>3, <1>4, PublishedNext, BidOutcome DEF Decides
<1>6. "highest" \in DOMAIN b /\ "highest" \in DOMAIN h
  BY <1>4 DEF BiddingInput
<1>7. CASE a = PlaceBid(b, m, now) /\ m.amount > b.highest
  <2>1. a = Return(SetQueryResult(NewContext, "auction-status", Status(h)), Bidding(h, now),
                   [accepted |-> TRUE, highest |-> h.highest])
    BY <1>3, <1>4, <1>7, AuctionAssumption DEF PlaceBid, PlaceBidReq, BiddingInput
  <2>2. a.queries = [q \in {"auction-status"} |-> Status(h)]
    BY <2>1 DEF Return, RunOutput, SetQueryResult, NewContext
  <2>3. Published' = Status(h) /\ Published' # Nil
    BY <2>2, PublishedNext
  <2>4. AwaitsBids(out[auction])'
    <3> HIDE DEF h
    <3> QED
      BY <1>6, <2>1, <2>3, PublishedNext, Carried
  <2>5. Status(h) = [highest |-> m.amount, leader |-> c, count |-> Published.count + 1]
    BY <1>3, <1>4 DEF Status, BiddingInput
  <2>6. m.amount > Published.highest
    BY <1>4, <1>7 DEF Status
  <2> QED
    BY <1>2, <2>3, <2>4, <2>5, <2>6 DEF Leads
<1>8. CASE a = BidFailed(b, m, now) \/ (a = PlaceBid(b, m, now) /\ ~ m.amount > b.highest)
  <2>1. PICK r : a = Return(NewContext, Bidding(b, now), r) /\ ~ r.accepted
    <3>1. CASE a = BidFailed(b, m, now)
      BY <3>1 DEF BidFailed
    <3>2. CASE a = PlaceBid(b, m, now) /\ ~ m.amount > b.highest
      BY <1>3, <1>4, <3>2, AuctionAssumption DEF PlaceBid, PlaceBidReq, BiddingInput
    <3> QED
      BY <1>8, <3>1, <3>2
  <2>2. a.queries = [n \in {} |-> Nil] /\ ~ a.resp.accepted
    BY <2>1 DEF Return, RunOutput, NewContext
  <2>3. Published' = Published
    BY <2>2, PublishedNext
  <2>4. AwaitsBids(out[auction])'
    <3> HIDE DEF b
    <3> QED
      BY <1>4, <1>6, <2>1, <2>3, PublishedNext, Carried
  <2> QED
    BY <1>2, <2>2, <2>3, <2>4 DEF TurnedDown
<1> QED
  BY <1>5, <1>7, <1>8

\* A higher bid stands, and so does every bid that stood before.
LEMMA StandsOn ==
  ASSUME AuctionInv, Decides, NEW d \in Clients, Leads(d), cop' = cop,
         NEW c \in Clients, Called(auction, c), c = d \/ Stands(c)
  PROVE  Stands(c)'
<1>1. Published.highest \in Nat
  BY AuctionAssumption DEF Decides, Book, BiddingInput, Status
<1>2. cop[c].arg \in PlaceBidReq /\ cop[c].arg.amount \in Nat
  BY AuctionAssumption DEF AuctionInv, BidsAreOwn, PlaceBidReq
<1>3. cop[d].arg.amount \in Nat
  BY Bidder, AuctionAssumption DEF Leads, PlaceBidReq
<1>4. Published' # Nil /\ Published'.highest = cop[d].arg.amount /\ Published'.leader = d
  BY DEF Leads
<1>5. cop[d].arg.amount > Published.highest
  BY DEF Leads
<1>6. CASE c = d
  BY <1>3, <1>4, <1>6 DEF Stands
<1>7. CASE c # d /\ Stands(c)
  <2>1. Published.highest >= cop[c].arg.amount
    BY <1>7 DEF Stands
  <2>2. Published'.highest > cop[c].arg.amount
    BY <1>1, <1>2, <1>3, <1>4, <1>5, <2>1
  <2> QED
    BY <1>1, <1>2, <1>3, <1>4, <2>2 DEF Stands
<1> QED
  BY <1>6, <1>7

LEMMA AuctionDecides ==
  ASSUME AuctionInv, RunHandler(auction), Decides
  PROVE  Progress' /\ Truthful'
<1> DEFINE d == replyTo[auction]
<1>1. Progress'
  BY BidDecided, PublishedNext DEF Progress
<1>2. d \in Clients /\ (Leads(d) \/ TurnedDown)
  BY BidDecided
<1>3. ASSUME NEW c \in Clients, NEW r \in Response, Accepted(c, r)'
      PROVE  Stands(c)'
  <2>1. /\ Called(auction, c) /\ r.ok /\ r.value.accepted
        /\ IF d = c THEN r = Gives(auction)' ELSE Answered(auction, c, r)
    BY <1>3, AnswersGiven, AuctionAssumption DEF Accepted, AuctionInv
  <2>2. c = d \/ Stands(c)
    BY <2>1 DEF AuctionInv, Truthful, Accepted
  <2>3. CASE Leads(d)
    BY <1>2, <2>1, <2>2, <2>3, PublishedNext, StandsOn
  <2>4. CASE TurnedDown
    BY <2>1, <2>2, <2>4, PublishedNext DEF TurnedDown, Gives, Stands
  <2> QED
    BY <1>2, <2>3, <2>4
<1> QED
  BY <1>1, <1>3 DEF Truthful

LEMMA AuctionEnds ==
  ASSUME AuctionInv, RunHandler(auction), Closes
  PROVE  Progress' /\ Truthful' /\ Published' = Published
<1> DEFINE a == out'[auction]
           b == cur[auction].input
<1>1. cur[auction] \in Invocation /\ now \in Time /\ auction \in Ids
  BY AuctionAssumption DEF AuctionInv, AnswerInv, CallInv, TypeInv, TypeOK, WellFormed, RunHandler
<1>2. b \in BiddingInput /\ Published = Status(b)
  BY DEF Closes, Book
<1>3. a = CloseAuction(b)
  BY <1>1, <1>2, PublishedNext, CloseOutcome DEF Closes, Invocation
<1>4. /\ a.queries = [n \in {} |-> Nil] /\ a.ok /\ a.done
      /\ a.result = [winner |-> b.leader, amount |-> b.highest, count |-> b.count]
  BY <1>3 DEF CloseAuction, Return, RunOutput, NewContext, Done
<1>5. Published' = Published
  BY <1>4, PublishedNext
<1>6. a.result.amount = Published.highest /\ a.result.winner = Published.leader
  BY <1>2, <1>4 DEF Status
<1>7. replyTo'[auction] = NoClient
  BY PublishedNext DEF Closes
<1>8. Progress'
  BY <1>4, <1>5, <1>6, <1>7, PublishedNext DEF Progress, Agrees
<1>9. \A c \in Clients : replyTo[auction] # c
  BY RuntimeAssumption DEF Closes
<1>10. Truthful'
  BY <1>1, <1>5, <1>9, AnswersGiven, PublishedNext DEF AuctionInv, Truthful, Accepted, Stands
<1> QED
  BY <1>5, <1>8, <1>10

LEMMA AuctionRuns ==
  ASSUME AuctionInv, RunHandler(auction)
  PROVE  Progress' /\ Truthful'
<1>1. Opens \/ Decides \/ Closes
  BY DEF AuctionInv, Progress, RunHandler
<1> QED
  BY <1>1, AuctionOpens, AuctionDecides, AuctionEnds

-----------------------------------------------------------------------------
(* What a step of any instance leaves alone.                               *)

LEMMA NoEffects ==
  ASSUME AuctionInv, NEW i \in Ids
  PROVE  ~ StartChild(i) /\ ~ DeliverSend(i)
<1>1. pc[i] = "effects" => Len(Starts(i)) = 0 /\ Len(Sends(i)) = 0
  BY DEF AuctionInv, Silent, Starts, Sends
<1>2. eff[i] \in Nat
  BY DEF AuctionInv, AnswerInv, CallInv, TypeInv, TypeOK
<1> QED
  BY <1>1, <1>2 DEF StartChild, DeliverSend, Applied

LEMMA SilentNext ==
  ASSUME AuctionInv, [Next]_vars
  PROVE  Silent'
<1>1. TypeInv
  BY DEF AuctionInv, AnswerInv, CallInv
<1>2. CASE \E i \in Ids : RunHandler(i)
  <2>1. PICK i \in Ids : RunHandler(i)
    BY <1>2
  <2>2. PICK a \in Outcomes(i, cur[i].key, cur[i].input, cur[i].msg) : out' = [out EXCEPT ![i] = a]
    BY <2>1 DEF RunHandler
  <2>3. cur[i] \in Invocation /\ now \in Time
    BY <1>1, <2>1 DEF RunHandler, TypeInv, TypeOK, WellFormed
  <2>4. a.starts = <<>> /\ a.sends = <<>>
    BY <2>2, <2>3, OutcomesSilent DEF Invocation
  <2>5. out'[i] = a /\ \A j \in Ids : j # i => out'[j] = out[j] /\ pc'[j] = pc[j]
    BY <1>1, <2>1, <2>2 DEF RunHandler, TypeInv, TypeOK
  <2> QED
    BY <2>4, <2>5 DEF AuctionInv, Silent
<1>3. CASE ~ \E i \in Ids : RunHandler(i)
  <2>1. out' = out /\ \A j \in Ids : pc'[j] = "effects" => pc[j] = "effects"
    BY <1>1, <1>3, EffectSteps, NoEffects
  <2> QED
    BY <2>1 DEF AuctionInv, Silent
<1> QED
  BY <1>2, <1>3

-----------------------------------------------------------------------------
(* The auction waits.                                                      *)

LEMMA BidsAndTimer ==
  ASSUME TypeInv, pc[auction] \notin {"absent", "run"}, AwaitsBids(out[auction])
  PROVE  /\ CasesOf(auction, "call") = {1} /\ CasesOf(auction, "after") = {2}
         /\ CasesOf(auction, "send") = {} /\ CasesOf(auction, "immediate") = {}
         /\ ~ SoleImmediate(auction)
         /\ Cases(auction)[1].key = "PlaceBid" /\ Cases(auction)[2].key = "CloseAuction"
         /\ Cases(auction)[2].input = Cases(auction)[1].input /\ Book(Cases(auction)[1].input)
<1>1. Cases(auction) \in Seq(Case) /\ Len(Cases(auction)) = 2
  BY AuctionAssumption DEF TypeInv, WellFormed, Attempt, Cases, AwaitsBids
<1>2. DOMAIN Cases(auction) = {1, 2}
  BY <1>1
<1> QED
  BY <1>1, <1>2 DEF CasesOf, SoleImmediate, Cases, AwaitsBids

\* A timer fires: the auction closes with the state it carries on.
LEMMA DeadlineFires ==
  ASSUME AuctionInv, AwaitsBids(out[auction]), Published' = Published,
         pc[auction] \notin {"absent", "run"}, Fire(auction, 2, Nil, NoClient)
  PROVE  pc'[auction] = "run" /\ Closes'
<1>1. TypeInv /\ auction \in Ids
  BY AuctionAssumption DEF AuctionInv, AnswerInv, CallInv
<1>2. Cases(auction)[2].key = "CloseAuction" /\ Book(Cases(auction)[2].input)
  BY <1>1, BidsAndTimer
<1>3. /\ pc'[auction] = "run" /\ replyTo'[auction] = NoClient
      /\ cur'[auction] = [key |-> Cases(auction)[2].key, input |-> Cases(auction)[2].input, msg |-> Nil]
  BY <1>1 DEF Fire, TypeInv, TypeOK
<1>4. Book(cur[auction].input)'
  BY <1>2, <1>3 DEF Book
<1> QED
  BY <1>2, <1>3, <1>4 DEF Closes

LEMMA BidArrives ==
  ASSUME AuctionInv, AwaitsBids(out[auction]), Published' = Published,
         pc[auction] \notin {"absent", "run"},
         NEW c \in Callers(auction), AcceptCall(auction, c)
  PROVE  pc'[auction] = "run" /\ Decides'
<1>1. TypeInv /\ auction \in Ids /\ c \in Clients
  BY AuctionAssumption DEF AuctionInv, AnswerInv, CallInv, Callers
<1>2. First(CallCases(auction, c)) = 1
  <2>1. CallCases(auction, c) # {} /\ CallCases(auction, c) \subseteq {1}
    BY <1>1, BidsAndTimer DEF AcceptCall, CallCases
  <2>2. CallCases(auction, c) = {1}
    BY <2>1
  <2> QED
    BY <2>2, FirstIsLeast
<1>3. Cases(auction)[1].key = "PlaceBid" /\ Book(Cases(auction)[1].input)
  BY <1>1, BidsAndTimer
<1>4. /\ pc'[auction] = "run" /\ replyTo'[auction] = c /\ cop' = cop
      /\ cur'[auction] = [key |-> Cases(auction)[1].key, input |-> Cases(auction)[1].input,
                          msg |-> cop[c].arg]
  BY <1>1, <1>2 DEF AcceptCall, Fire, TypeInv, TypeOK
<1>5. Book(cur[auction].input)'
  BY <1>3, <1>4 DEF Book
<1>6. c # NoClient
  BY <1>1, RuntimeAssumption
<1> QED
  BY <1>3, <1>4, <1>5, <1>6 DEF Decides

\* Of the steps of its wait, only a bid and the deadline end it.
LEMMA WaitsOn ==
  ASSUME AuctionInv, Onward(auction), AwaitsBids(out[auction])
  PROVE  \/ pc'[auction] \notin {"absent", "run", "done"}
         \/ pc'[auction] = "run" /\ (Decides' \/ Closes')
<1>1. TypeInv /\ auction \in Ids /\ Published' = Published
  BY AuctionAssumption, OnwardData DEF AuctionInv, AnswerInv, CallInv, Published
<1>2. pc[auction] \notin {"absent", "run"}
  BY DEF Onward, ReplyToCaller, Finish, ContinueAtOnce, EnterWait, TakeBuffered, TakeExpired,
         PollNothing, PollCall, PollSend, TakeDefault, Block, SelectSend, SelectCall, SelectTimer
<1>3. ~ out[auction].done
  BY DEF AwaitsBids
<1>4. /\ ~ ContinueAtOnce(auction) /\ ~ TakeBuffered(auction) /\ ~ TakeDefault(auction)
      /\ ~ AcceptSend(auction) /\ ~ Finish(auction)
  BY <1>1, <1>2, <1>3, BidsAndTimer
  DEF ContinueAtOnce, TakeBuffered, TakeDefault, AcceptSend, Finish, Buffered, SendCases
<1>5. CASE ReplyToCaller(auction) \/ EnterWait(auction)
  BY <1>1, <1>5 DEF ReplyToCaller, EnterWait, TypeInv, TypeOK
<1>6. CASE \E l \in {"poll", "pollCall", "pollSend", "default", "block"} : Goto(auction, l)
  BY <1>1, <1>6 DEF Goto, TypeInv, TypeOK
<1>7. CASE Fire(auction, 2, Nil, NoClient)
  BY <1>1, <1>2, <1>7, DeadlineFires
<1>8. CASE TakeExpired(auction) \/ Block(auction) \/ SelectTimer(auction)
  <2>1. Expired(auction) # {} => First(Expired(auction)) = 2
    <3>1. Expired(auction) \subseteq {2}
      BY <1>1, <1>2, BidsAndTimer DEF Expired
    <3>2. Expired(auction) # {} => Expired(auction) = {2}
      BY <3>1
    <3> QED
      BY <3>2, FirstIsLeast
  <2>2. Nearest(auction) = 2
    <3>1. Nearest(auction) \in CasesOf(auction, "after")
      BY <1>1, <1>2, BidsAndTimer, NearestCase
    <3> QED
      BY <1>1, <1>2, <3>1, BidsAndTimer
  <2> QED
    BY <1>6, <1>7, <1>8, <2>1, <2>2 DEF TakeExpired, Block, SelectTimer
<1>9. CASE PollNothing(auction) \/ PollSend(auction) \/ SelectSend(auction)
  BY <1>4, <1>6, <1>9 DEF PollNothing, PollSend, SelectSend, SetAside
<1>10. CASE PollCall(auction) \/ SelectCall(auction)
  <2>1. CASE \E c \in Callers(auction) : AcceptCall(auction, c)
    BY <1>1, <1>2, <2>1, BidArrives
  <2>2. CASE \E c \in Callers(auction) :
               RejectCall(auction, c, "pollSend") \/ RejectCall(auction, c, "poll")
    BY <1>6, <2>2 DEF RejectCall
  <2> QED
    BY <1>6, <1>10, <2>1, <2>2 DEF PollCall, SelectCall
<1> QED
  BY <1>4, <1>5, <1>8, <1>9, <1>10 DEF Onward

\* Once a handler has returned, the auction waits, or it ends with what it has published.
LEMMA OnwardProgress ==
  ASSUME AuctionInv, Onward(auction)
  PROVE  Progress'
<1>1. TypeInv /\ auction \in Ids /\ Published' = Published /\ out' = out
  BY AuctionAssumption, OnwardData DEF AuctionInv, AnswerInv, CallInv, Published
<1>2. pc[auction] \notin {"absent", "run", "done"}
  BY DEF Onward, ReplyToCaller, Finish, ContinueAtOnce, EnterWait, TakeBuffered, TakeExpired,
         PollNothing, PollCall, PollSend, TakeDefault, Block, SelectSend, SelectCall, SelectTimer
<1>3. CASE AwaitsBids(out[auction])
  <2>1. AwaitsBids(out[auction])'
    BY <1>1, <1>3 DEF AwaitsBids, Book
  <2> QED
    BY <1>3, <2>1, WaitsOn DEF Progress
<1>4. CASE /\ pc[auction] = "effects" /\ replyTo[auction] = NoClient
           /\ out[auction].ok /\ out[auction].done /\ Agrees(out[auction].result)
  <2>1. Finish(auction)
    BY <1>4 DEF Onward, ReplyToCaller, Finish, ContinueAtOnce, EnterWait, TakeBuffered,
         TakeExpired, PollNothing, PollCall, PollSend, TakeDefault, Block, SelectSend,
         SelectCall, SelectTimer
  <2>2. /\ pc'[auction] = "done"
        /\ final'[auction] = [ok |-> out[auction].ok, value |-> out[auction].result]
    BY <1>1, <2>1 DEF Finish, TypeInv, TypeOK
  <2> QED
    BY <1>1, <1>4, <2>2 DEF Progress, Agrees
<1> QED
  BY <1>2, <1>3, <1>4 DEF AuctionInv, Progress

-----------------------------------------------------------------------------
(* Every step.                                                             *)

LEMMA SameProgress ==
  ASSUME AuctionInv, Same(auction)
  PROVE  Progress'
<1>1. replyTo[auction] \in Clients \cup {NoClient} /\ Published' = Published
  BY AuctionAssumption DEF AuctionInv, AnswerInv, CallInv, TypeInv, TypeOK, Same, Published
<1>2. AwaitsBids(out[auction]) => AwaitsBids(out[auction])'
  BY <1>1 DEF Same, AwaitsBids, Book
<1>3. (Opens => Opens') /\ (Closes => Closes')
  BY <1>1 DEF Same, Opens, Closes, Book
<1>4. Decides => Decides'
  BY <1>1 DEF Same, Decides, Book
<1> QED
  BY <1>1, <1>2, <1>3, <1>4 DEF Same, AuctionInv, Progress, Agrees

\* Nobody but a client begins an auction.
LEMMA BornProgress ==
  ASSUME AuctionInv, Born(auction)
  PROVE  Progress'
<1>1. PICK c \in Clients, n \in 1..MaxOps :
        \E o \in Script(c, n) : o.op = "go" /\ Begins(auction, o.key, o.arg)
  <2>1. \A i \in Ids : pc[i] = "effects" => DOMAIN Starts(i) = {}
    BY DEF AuctionInv, Silent, Starts
  <2> QED
    BY <2>1 DEF Born
<1>2. PICK o \in Script(c, n) : o.op = "go" /\ Begins(auction, o.key, o.arg)
  BY <1>1
<1>3. o.key = "OpenAuction" /\ o.arg \in AuctionInput
  BY <1>2, AuctionAssumption
<1>4. Opens' /\ pc'[auction] = "run"
  BY <1>2, <1>3 DEF Begins, Opens, Published, AuctionInv, Progress
<1> QED
  BY <1>4 DEF Progress

\* A client calls an operation of its script.
LEMMA BidsAreOwnNext ==
  ASSUME AuctionInv, [Next]_vars
  PROVE  BidsAreOwn'
<1>1. TypeInv /\ CallInv
  BY DEF AuctionInv, AnswerInv, CallInv
<1>2. CASE ops' = ops /\ cop' = cop
  BY <1>2 DEF AuctionInv, BidsAreOwn, Called
<1>3. CASE \E c \in Clients : Invoke(c)
  <2>1. PICK c \in Clients, n \in 1..MaxOps : \E o \in Script(c, n) :
          ClientGo(c, o) \/ ClientNotFound(c, o) \/ ClientBlock(c, o) \/ ClientQuery(c, o)
    BY <1>3 DEF Invoke
  <2>2. PICK o \in Script(c, n) :
          ClientGo(c, o) \/ ClientNotFound(c, o) \/ ClientBlock(c, o) \/ ClientQuery(c, o)
    BY <2>1
  <2>3. o \in Op /\ (o.op = "call" => o.arg \in Messages /\ o.arg.bidder = c)
    BY <2>2, ClientAssumption, AuctionAssumption
  <2>4. cop'[c] = o /\ \A d \in Clients : d # c => cop'[d] = cop[d] /\ ops'[d] = ops[d]
    BY <1>1, <2>2, <2>3, InvokeEffect
  <2> QED
    BY <2>3, <2>4, AuctionAssumption DEF AuctionInv, BidsAreOwn, Called
<1>4. CASE Tick \/ UNCHANGED vars
  BY <1>2, <1>4 DEF Tick, vars, clientVars
<1>5. CASE \E i \in Ids : Instance(i)
  BY <1>1, <1>2, <1>5, InstanceAttends DEF Attends
<1>6. CASE \E c \in Clients : Resume(c)
  BY <1>1, <1>2, <1>6, ResumeEffect
<1> QED
  BY <1>3, <1>4, <1>5, <1>6 DEF Next

\* Without its handler, nothing is published and no bid becomes accepted.
LEMMA StaysTruthful ==
  ASSUME AuctionInv, [Next]_vars, ~ RunHandler(auction), Published' = Published
  PROVE  Truthful'
BY AnswersKept, AuctionAssumption DEF AuctionInv, Truthful, Accepted, Stands

LEMMA AuctionInvNext == AuctionInv /\ [Next]_vars => AuctionInv'
<1> SUFFICES ASSUME AuctionInv, [Next]_vars PROVE AuctionInv'
  OBVIOUS
<1>1. AnswerInv /\ auction \in Ids
  BY AuctionAssumption DEF AuctionInv
<1>2. AnswerInv' /\ Silent' /\ BidsAreOwn'
  BY <1>1, AnswerInvNext, SilentNext, BidsAreOwnNext
<1>3. CASE RunHandler(auction)
  BY <1>2, <1>3, AuctionRuns DEF AuctionInv
<1>4. CASE ~ RunHandler(auction)
  <2>1. Onward(auction) \/ Same(auction) \/ Born(auction)
    BY <1>1, <1>4, StepsOf
  <2>2. Published' = Published
    BY <1>1, <2>1, OnwardData DEF Same, Born, Begins, Published
  <2>3. Progress'
    BY <2>1, OnwardProgress, SameProgress, BornProgress
  <2> QED
    BY <1>2, <1>4, <2>2, <2>3, StaysTruthful DEF AuctionInv
<1> QED
  BY <1>3, <1>4

LEMMA AuctionInvInit == Init => AuctionInv
<1> SUFFICES ASSUME Init PROVE AuctionInv
  OBVIOUS
<1>1. AnswerInv
  BY AnswerInvInit
<1>2. Silent /\ BidsAreOwn /\ Truthful
  BY AuctionAssumption DEF Init, Silent, BidsAreOwn, Truthful, Accepted, Answered, Called
<1>3. Progress
  BY AuctionAssumption DEF Init, Progress, Published
<1> QED
  BY <1>1, <1>2, <1>3 DEF AuctionInv

\* Whoever has been told that a bid was accepted.
LEMMA AcceptedStands ==
  ASSUME AuctionInv, NEW c \in Clients, HasAccepted(c)
  PROVE  Stands(c)
<1>1. got[c] \in Response
  BY DEF AuctionInv, AnswerInv, CallInv, TypeInv, TypeOK
<1>2. Accepted(c, got[c])
  BY DEF HasAccepted, Accepted, Answered, Called, Has
<1> QED
  BY <1>1, <1>2 DEF AuctionInv, Truthful

LEMMA AuctionInvAlways == Spec => []AuctionInv
BY AuctionInvInit, AuctionInvNext, PTL DEF Spec

-----------------------------------------------------------------------------
(* The theorems.                                                           *)

\* A bidder who has been told that a bid was accepted finds it, or a higher
\* one, in the published status.
THEOREM AcceptedBidsArePublished == Spec => []AcceptedBidIsPublished
<1>1. AuctionInv => AcceptedBidIsPublished
  BY AcceptedStands DEF Stands, AcceptedBidIsPublished
<1> QED
  BY <1>1, AuctionInvAlways, PTL

\* An auction that is over has succeeded, as last published, and nobody was
\* told of a higher bid that it was accepted.
THEOREM HighestBidsWin == Spec => []HighestAcceptedBidWins
<1>1. AuctionInv => HighestAcceptedBidWins
  <2> SUFFICES ASSUME AuctionInv, pc[auction] = "done" PROVE HighestAcceptedBidWins
    BY DEF HighestAcceptedBidWins
  <2>1. final[auction].ok /\ Agrees(final[auction].value)
    BY DEF AuctionInv, Progress
  <2>2. \A c \in Clients : HasAccepted(c) => Stands(c)
    BY AcceptedStands
  <2> QED
    BY <2>1, <2>2 DEF HighestAcceptedBidWins, Agrees, Stands
<1> QED
  BY <1>1, AuctionInvAlways, PTL

\* The published status changes only by a higher bid of a client whose call
\* the auction serves.
LEMMA StatusStep ==
  ASSUME AuctionInv, [Next]_vars, Published' # Published, Published # Nil
  PROVE  \E c \in Clients : Leads(c)
<1>1. AnswerInv /\ auction \in Ids
  BY AuctionAssumption DEF AuctionInv
<1>2. RunHandler(auction)
  BY <1>1, StepsOf, OnwardData DEF Same, Born, Begins, Published
<1>3. Opens \/ Decides \/ Closes
  BY <1>2 DEF AuctionInv, Progress, RunHandler
<1>4. Decides
  BY <1>2, <1>3, AuctionEnds DEF Opens
<1> QED
  BY <1>2, <1>4, BidDecided DEF TurnedDown

THEOREM StatusFollowsOneBid == Spec => StatusFollowsBids
<1>1. AuctionInv /\ [Next]_vars =>
        [Published' # Published /\ Published # Nil =>
           \E c \in Clients :
             /\ replyTo[auction] = c /\ cop[c].arg.amount > Published.highest
             /\ Published' = [highest |-> cop[c].arg.amount, leader |-> c,
                              count |-> Published.count + 1]]_vars
  BY StatusStep DEF Leads
<1> QED
  BY <1>1, AuctionInvAlways, PTL DEF Spec, StatusFollowsBids

=============================================================================
