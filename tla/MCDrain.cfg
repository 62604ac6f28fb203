SPECIFICATION FairSpec
CONSTANTS
  BookA = BookA
  BookB = BookB
  Main = Main
  Other = Other
  BookList <- TwoBooks
  Events = {1, 2}
  EventBook <- DrainBook
  EventOp <- DrainOp
  Workers = {w1}
  Consumers = {Main}
  Accepts <- AcceptA
  Tokens = {1, 2, 3}
  LeaseTicks = 2
  TimeoutTicks = 1
  Burst = 1
  MaxCrashes = 1
  NoEvent = 0
  NoToken = 0
  NoConsumer = NoConsumer
INVARIANTS
  TypeOK
PROPERTIES
  ImplementsMirror
  EveryFactDelivered
