SPECIFICATION FairSpec
CONSTANTS
  Million = 1000000
  MsatPerSat = 1000
  a = a  b = b  c = c  d = d  x = x  y = y  z = z  g = g  h = h  k = k
  s = s  t = t  alice = alice  bob = bob  mint = mint
  cx = cx  cy = cy  cz = cz  K = K  L = L
  None = None
  Output = {a, b, c, x, y}
  Hash = {g, h}
  Username = {}
  Cx1 = {}
  XOnly = {}
  Reserved = {}
  ShareDepth = 0
  MaxAmount = 12
  ConfiguredMin = 2
  MaxSendable = 6
  AddressFee = 0
  MergeCap = 0
  Gross = {1, 4}
  Payable = {"mint"}
  Options = {"verify", "mintToHash"}
  SplitAmounts = {0, 1}
  MergeLimit = 2
  Fees <- Flat
  Funded <- FundTwo
  WithdrawRequest <- EveryRequest
  BearerOf <- BearerOfHash
  KeyOf <- KeyOfCx1
  ShareNote <- ShareNotes
INVARIANTS TypeOK NoDoubleSpend CertificatesTrue TimersOwnPending MeltsAccounted QuoteReserved PreimageOpensNothing
PROPERTIES ImplementsLedger BurnedStaysBurned MeltsResolve
