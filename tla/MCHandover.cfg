SPECIFICATION Spec
CONSTANTS
  BookA = BookA
  BookB = BookB
  Main = Main
  Other = Other
  BookList <- TwoBooks
  Events = {1, 2}
  EventBook <- HandoverBook
  EventOp <- HandoverOp
  Workers = {w1, w2}
  Consumers = {Main, Other}
  Accepts <- AcceptAll
  Tokens = {1, 2, 3}
  LeaseTicks = 2
  TimeoutTicks = 1
  Burst = 2
  MaxCrashes = 1
  NoEvent = 0
  NoToken = 0
  NoConsumer = NoConsumer
INVARIANTS
  OneConsumerPerBook
  ProjectionMatchesFacts
  DeliveredIsProjected
