SPECIFICATION DriverSpec
CONSTANTS
  deployer = deployer
  creator = creator
  authority = authority
  mint1 = mint1
  mint2 = mint2
  dino = dino
  treasury = treasury
  buyer1 = buyer1
  buyer2 = buyer2
  alice = alice
  nobody = nobody
  pool1 = pool1
  pool2 = pool2
  DefaultKey = nobody
  NoConfig = NoConfig
  NoLaunch = NoLaunch
  NoMint = NoMint
  NoFile = NoFile
  Mints = {mint1, mint2}
  Wallets = {deployer, creator, buyer1, buyer2, alice, dino, treasury, authority}
  Deployers = {deployer}
  Traders = {alice}
  LbPairs = {pool1, pool2}
  U64Max = 20000
  U128Max = 400020000
  CurveAllocation = 8000
  GraduationReserve = 2000
  DefaultVirtualSol = 3000
  DefaultVirtualTokens = 12360
  MaxRealSolReserves = 500
  RentMinimum = 0
  InitialLamports <- DriverLamports
  InitParams <- MCInitParams
  ConfigUpdates <- MCRotations
  CreateParams <- MCCreateParams
  TradeSizes = {}
  SolLimits = {}
  StrayAmounts = {}
  ScriptParams <- MCScriptParams
  Hardcoded <- MCHardcoded
  Buyers <- MCBuyers
  Threshold = 500
  Chunk = 900
  Probe = 6
  NearlyEmpty = 1
  TooSmall = 3
  Slack = 3
  MaxIterations = 2
  OtherTraders = {alice}
  OtherSizes = {860}
  MaxLate = 1
  MaxCrashes = 1
  MaxDisturbances = 1
INVARIANTS DriverTypeOK SavedMintIsLaunched UndisturbedPurchaseFits ScriptsLeaveNoGap
PROPERTIES CarriedThrough 
