CONSTANTS
  p1 = p1
  p2 = p2
  s = s
  l = l
  n = n
  h = h
  k = k
  f = f
  g = g
  u = u
  v = v
  x = x
  w = w
  j = j
  Requests = {p1, p2, s}
  Ask <- MCAsk
  FirstBlock = 2
  LastBlock = 3
  MinAge = 1
  MinCapacity = 2
  Policies <- MCPolicies
  Lnds = {l, n}
  Indexes = {1, 2}
  Home <- MCHome
  PageSize = 1
  NewChannels = {u, v}
  OpenedAt <- MCOpenedAt
  LowHeight = 2
  HighHeight = 3
  Pings = {p1, p2}
  Hashes = {h, k}
  MinPrice = 2
  MaxPrice = 3
  PongTokens = 1
  PongFees = {0, 3}
  Starts = 2
  Deliveries <- MCDeliveries
  Nodes = {l}
  Forwards = {f, g}
  Through <- MCThrough
  Small = {g}
  Updates = {u, v}
  UpdateKind <- MCUpdateKind
  Trades = {f, g}
  Txs = {x, w}
  NoLocktimeId <- MCNoLocktimeId
  Bots <- MCBots
  Runs = 2
  LastTime = 3
SPECIFICATION Spec
INVARIANTS
  TypeOK
  AcceptedInTurn
  ToldOnce
  PongsPaidFor
PROPERTIES
  CanceledForgotten
CHECK_DEADLOCK FALSE
