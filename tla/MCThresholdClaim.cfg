SPECIFICATION Spec
CONSTANTS
  mint1 = mint1
  mint2 = mint2
  alice = alice
  bob = bob
  dino = dino
  treasury = treasury
  authority = authority
  nobody = nobody
  pool = pool
  DefaultKey = nobody
  NoConfig = NoConfig
  NoLaunch = NoLaunch
  Mints = {mint1}
  Wallets = {alice, bob, dino, treasury, authority}
  Deployers = {authority}
  Traders = {alice, bob}
  LbPairs = {pool}
  U64Max = 1000
  U128Max = 1001000
  CurveAllocation = 40
  GraduationReserve = 10
  DefaultVirtualSol = 90
  DefaultVirtualTokens = 62
  MaxRealSolReserves = 150
  RentMinimum = 0
  InitialLamports <- TradeLamports
  InitParams <- HighFeeParams
  ConfigUpdates = {}
  CreateParams <- MCCreateParams
  TradeSizes = {33}
  SolLimits = {0, 1000}
  StrayAmounts = {}
INVARIANTS GraduableAtThreshold
