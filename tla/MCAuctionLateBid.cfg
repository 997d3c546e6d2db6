SPECIFICATION FairSpec
CONSTANTS
  Nil = Nil
  NoClient = NoClient
  auction = auction
  alice = alice
  bob = bob
  SendCap = 1
  MaxNow = 3
  MaxOps = 3
  Bidders <- MCBidders
  Amounts <- MCAmounts
  Deadlines <- MCDeadlines
  Ids <- MCIds
  Clients <- MCBidders
  Keys <- AuctionKeys
  Names <- MCNames
  Inputs <- MCInputs
  Messages <- PlaceBidReq
  Results <- MCResults
  Registered <- AuctionKeys
  Recovery <- AuctionRecovery
  Runner <- MCRunner
  Script <- MCScript
PROPERTY EveryCallReturns
CHECK_DEADLOCK FALSE
