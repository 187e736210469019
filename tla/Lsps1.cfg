CONSTANTS
  Orders = {o1}
  MaxAsks = 5
SPECIFICATION FairSpec
INVARIANTS
  TypeOK
  StatusIsTrue
  BuyerSeesChannel
PROPERTIES
  SaleSpec
  NeverToldLess
  OrderEnds
CHECK_DEADLOCK FALSE
