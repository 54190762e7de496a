SPECIFICATION Spec
CONSTANTS
  mint1 = mint1
  mint2 = mint2
  alice = alice
  bob = bob
  dino = dino
  treasury = treasury
  authority = authority
  nobody = nobody
  pool = pool
  DefaultKey = nobody
  NoConfig = NoConfig
  NoLaunch = NoLaunch
  Mints = {mint1}
  Wallets = {alice, bob, dino, treasury, authority}
  Deployers = {authority, bob}
  Traders = {alice}
  LbPairs = {pool, nobody}
  U64Max = 1000
  U128Max = 1001000
  CurveAllocation = 40
  GraduationReserve = 10
  DefaultVirtualSol = 90
  DefaultVirtualTokens = 62
  MaxRealSolReserves = 150
  RentMinimum = 0
  InitialLamports <- AdminLamports
  InitParams <- MCInitParams
  ConfigUpdates <- MCUpdates
  CreateParams <- MCCreateParams
  TradeSizes = {33}
  SolLimits = {0, 1000}
  StrayAmounts = {}
CHECK_DEADLOCK FALSE
INVARIANTS ConfigStaysValid
PROPERTIES PauseStopsCustody GraduationIsFinal LostAdminFreezes
