SPECIFICATION Spec
CONSTANTS
  Million = 1000000
  MsatPerSat = 1000
  a = a  b = b  c = c  d = d  x = x  y = y  z = z  g = g  h = h  k = k
  s = s  t = t  alice = alice  bob = bob  mint = mint
  cx = cx  cy = cy  cz = cz  K = K  L = L
  None = None
  Output = {a, d, s, t, x, y, z}
  Hash = {g, h, k}
  Username = {alice, bob, mint}
  Cx1 = {cx, cy, cz}
  XOnly = {K, L}
  Reserved = {mint}
  ShareDepth = 1
  MaxAmount = 12
  ConfiguredMin = 2
  MaxSendable = 6
  AddressFee = 1
  MergeCap = 0
  Gross = {4}
  Payable = {"mint", "address", "addressFee"}
  Options = {"commentFallsBack"}
  SplitAmounts = {}
  MergeLimit = 1
  Fees <- Proportionate
  Funded <- FundOne
  WithdrawRequest <- Transfers
  BearerOf <- BearerOfHash
  KeyOf <- KeyOfCx1
  ShareNote <- ShareNotes
INVARIANTS CreditsDistinct Backed
PROPERTIES SharesExclusive
SYMMETRY Interchangeable
