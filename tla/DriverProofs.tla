---------------------------- MODULE DriverProofs ----------------------------
(***************************************************************************)
(* What holds of the scripts of Driver and of the program under them, for  *)
(* every number of mints, buyers, iterations, crashes and late             *)
(* transactions: state.json says what is true, the program keeps its       *)
(* promises, the search of 03-buy.mjs finds the largest chunk that fits,   *)
(* the program accepts it, and no quote throws.                            *)
(***************************************************************************)
EXTENDS DriverProperties, RedeemProofs, CustodyProofs, WellFoundedInduction,
        NaturalsInduction

USE DEF Initialized, Launched

-----------------------------------------------------------------------------
(* What a transaction does to the launches: none disappears, none changes  *)
(* its creator, those created under Driver are of its creator, and nothing *)
(* is sold by a curve that has graduated.                                  *)

LaunchesKept ==
    \A m \in Mints :
        /\ Launched(m) => Launched(m)' /\ launch'[m].creator = launch[m].creator
        /\ ~Launched(m) /\ Launched(m)' => launch'[m].creator = creator
        /\ Launched(m)' /\ launch'[m].graduated
              => Launched(m) /\ launch'[m].virtual_token_reserves = launch[m].virtual_token_reserves

\* A handler that updates the account of a launch keeps its creator, and its
\* virtual tokens once it has graduated.
LEMMA UpdateKeepsLaunches ==
    ASSUME CustodyInvariant, NEW m \in Mints, NEW l, Launched(m), Launched(m)',
           launch' = [launch EXCEPT ![m] = l], l.creator = launch[m].creator,
           l.graduated => l.virtual_token_reserves = launch[m].virtual_token_reserves
    PROVE  LaunchesKept
BY DEF LaunchesKept, CustodyInvariant, TypeOK

LEMMA BuyKeepsLaunches ==
    ASSUME CustodyInvariant, NEW b \in Wallets, NEW m \in Mints, NEW n \in U64,
           NEW lim \in U64, Buy(b, m, n, lim)
    PROVE  CustodyInvariant' /\ LaunchesKept
<1>1. Launched(m) /\ launch[m] \in LaunchType /\ ~launch[m].graduated
  BY LaunchState DEF Buy, CanBuy, TradingOpen, Trading
<1>2. /\ AfterBuy(launch[m], n, BuyCost(launch[m], n)).creator = launch[m].creator
      /\ ~AfterBuy(launch[m], n, BuyCost(launch[m], n)).graduated
  BY <1>1 DEF AfterBuy, LaunchType
<1>3. launch' = [launch EXCEPT ![m] = AfterBuy(launch[m], n, BuyCost(launch[m], n))]
  BY DEF Buy
<1> QED
  BY <1>1, <1>2, <1>3, BuyKeepsInvariant, UpdateKeepsLaunches

LEMMA SellKeepsLaunches ==
    ASSUME CustodyInvariant, NEW s \in Wallets, NEW m \in Mints, NEW n \in U64,
           NEW lim \in U64, Sell(s, m, n, lim)
    PROVE  CustodyInvariant' /\ LaunchesKept
<1>1. Launched(m) /\ launch[m] \in LaunchType /\ ~launch[m].graduated
  BY LaunchState DEF Sell, CanSell, TradingOpen, Trading
<1>2. /\ AfterSell(launch[m], n, SellGross(launch[m], n)).creator = launch[m].creator
      /\ ~AfterSell(launch[m], n, SellGross(launch[m], n)).graduated
  BY <1>1 DEF AfterSell, LaunchType
<1>3. launch' = [launch EXCEPT ![m] = AfterSell(launch[m], n, SellGross(launch[m], n))]
  BY DEF Sell
<1> QED
  BY <1>1, <1>2, <1>3, SellKeepsInvariant, UpdateKeepsLaunches

LEMMA GraduateKeepsLaunches ==
    ASSUME CustodyInvariant, NEW m \in Mints, Graduate(m)
    PROVE  CustodyInvariant' /\ LaunchesKept
<1> DEFINE after == AfterGraduation(launch[m], config.graduation_fee_lamports)
<1>1. Launched(m) /\ launch[m] \in LaunchType
  BY LaunchState DEF Graduate, CanGraduate, TradingOpen, Trading
<1>2. /\ after.creator = launch[m].creator
      /\ after.virtual_token_reserves = launch[m].virtual_token_reserves
  BY <1>1 DEF AfterGraduation, LaunchType
<1>3. launch' = [launch EXCEPT ![m] = after]
  BY DEF Graduate
<1> QED
  BY <1>1, <1>2, <1>3, GraduateKeepsInvariant, UpdateKeepsLaunches

LEMMA SealKeepsLaunches ==
    ASSUME CustodyInvariant, NEW s \in Wallets, NEW m \in Mints,
           NEW lb \in LbPairs \cup {DefaultKey}, SealGraduation(s, m, lb)
    PROVE  CustodyInvariant' /\ LaunchesKept
<1> DEFINE after == [launch[m] EXCEPT !.pool_seeded = TRUE, !.meteora_lb_pair = lb]
<1>1. Launched(m) /\ launch[m] \in LaunchType
  BY LaunchState DEF SealGraduation
<1>2. /\ after.creator = launch[m].creator
      /\ after.virtual_token_reserves = launch[m].virtual_token_reserves
  BY <1>1 DEF LaunchType
<1>3. launch' = [launch EXCEPT ![m] = after]
  BY DEF SealGraduation, CustodyInvariant, TypeOK
<1> QED
  BY <1>1, <1>2, <1>3, SealKeepsInvariant, UpdateKeepsLaunches

LEMMA CreateKeepsLaunches ==
    ASSUME CustodyInvariant, NEW m \in Mints, CreateToken(creator, m, ScriptNames)
    PROVE  CustodyInvariant' /\ LaunchesKept /\ Launched(m)'
<1>1. creator \in Wallets /\ ScriptNames \in CreateParams
  BY ScriptAssumption
<1>2. launch' = [launch EXCEPT ![m] = NewLaunch(creator)] /\ ~Launched(m)
  BY DEF CreateToken
<1>3. NewLaunch(creator).creator = creator /\ ~NewLaunch(creator).graduated
  BY DEF NewLaunch
<1>4. CustodyInvariant'
  BY <1>1, CreateTokenKeepsInvariant
<1>5. NewLaunch(creator) \in LaunchType
  BY <1>1, WidthsAssumption, AllocationAssumption DEF NewLaunch, LaunchType, U64
<1> QED
  BY <1>2, <1>3, <1>4, <1>5, AccountsAssumption DEF LaunchesKept, CustodyInvariant, TypeOK

LEMMA AdminKeepsLaunches ==
    ASSUME CustodyInvariant, AdminStep
    PROVE  CustodyInvariant' /\ LaunchesKept
<1>1. CustodyInvariant'
  BY AccountsAssumption, InitializeConfigKeepsInvariant, UpdateConfigKeepsInvariant,
     SetPausedKeepsInvariant DEF AdminStep
<1>2. launch' = launch
  BY DEF AdminStep, InitializeConfig, UpdateConfig, SetPaused
<1> QED
  BY <1>1, <1>2 DEF LaunchesKept

-----------------------------------------------------------------------------
(* The invariant. *)

\* The mint of a state.json is none or that of a launch.
Known(m) == m = NoMint \/ (m \in Mints /\ Launched(m))

\* A transaction that may be sent names a mint and a signer where it needs one.
Sendable(t) ==
    /\ t.op \in {"create_token", "buy", "graduate", "seal_graduation"} => t.mint \in Mints
    /\ t.op = "buy" => t.signer \in Wallets
    /\ t.lb_pair \in LbPairs \cup {DefaultKey}

ScriptShape ==
    /\ DOMAIN script = {"pc", "tx", "state", "iter", "seen"}
    /\ DOMAIN script.tx = {"op", "mint", "signer", "amount", "limit", "lb_pair"}
    /\ DOMAIN script.state = {"mint", "lb_pair"}
    /\ script.iter \in Nat

\* Where a script is says what it knows.  Between its read-back and its save
\* the launch of a new mint cannot go away, so what is saved is still true.
ScriptInv ==
    /\ ScriptShape
    /\ Known(script.state.mint)
    /\ script.pc \in {"send", "sent"} => Sendable(script.tx)
    /\ script.pc \in {"iterate", "quote"} =>
          /\ script.tx.op = "buy" /\ script.tx.mint \in Mints
          /\ script.tx.lb_pair \in LbPairs \cup {DefaultKey}
    /\ script.pc = "quote" => script.tx.signer \in Wallets /\ Launched(script.tx.mint)
    /\ script.pc \in {"check", "save", "fill"} /\ script.tx.op = "create_token" =>
          /\ script.tx.mint \in Mints
          /\ script.pc # "check" => Launched(script.tx.mint)

FileInv == file # NoFile => DOMAIN file = {"mint", "lb_pair"} /\ Known(file.mint)

OneCreator == \A m \in Mints : Launched(m) => launch[m].creator = creator

\* A curve never sells more than its allocation, so that no quote of 03-buy.mjs
\* asks for all the virtual tokens, not even of a launch that has graduated since
\* the chunk was sized.
NeverOversold ==
    \A m \in Mints : Launched(m) =>
        launch[m].virtual_token_reserves >= DefaultVirtualTokens - CurveAllocation

DriverInvariant ==
    CustodyInvariant /\ OneCreator /\ NeverOversold
        /\ FileInv /\ ScriptInv /\ \A t \in late : Sendable(t)

LEMMA StaysUnderAllocation ==
    ASSUME CustodyInvariant, CustodyInvariant', LaunchesKept, NeverOversold
    PROVE  NeverOversold'
<1> SUFFICES ASSUME NEW m \in Mints, launch'[m] # NoLaunch
             PROVE  launch'[m].virtual_token_reserves >= DefaultVirtualTokens - CurveAllocation
  BY DEF NeverOversold
<1>1. /\ launch'[m] \in LaunchType
      /\ launch'[m].virtual_token_reserves + launch'[m].tokens_sold = DefaultVirtualTokens
      /\ launch'[m].real_token_reserves =
            IF launch'[m].graduated THEN 0 ELSE CurveAllocation - launch'[m].tokens_sold
  BY DEF CustodyInvariant, TypeOK, TokenLedger
<1>2. /\ launch'[m].virtual_token_reserves \in Nat /\ launch'[m].real_token_reserves \in Nat
      /\ launch'[m].tokens_sold \in Nat
      /\ DefaultVirtualTokens \in Nat /\ CurveAllocation \in Nat
  BY <1>1, LaunchAmounts, AllocationAssumption
<1>3. CASE ~launch'[m].graduated
  BY <1>1, <1>2, <1>3
<1>4. CASE launch'[m].graduated /\ Launched(m)
  BY <1>4 DEF LaunchesKept, NeverOversold
<1>5. CASE launch'[m].graduated /\ ~Launched(m)
  BY <1>5 DEF LaunchesKept
<1> QED
  BY <1>3, <1>4, <1>5

\* What a transaction of a script does, whenever it lands.
LEMMA ExecutesKeepsLaunches ==
    ASSUME CustodyInvariant, NEW t, Sendable(t), Executes(t)
    PROVE  CustodyInvariant' /\ LaunchesKept
<1>1. CASE t.op = "initialize_config" /\ InitializeConfig(deployer, ScriptParams)
  <2>1. CustodyInvariant'
    BY <1>1, ScriptAssumption, InitializeConfigKeepsInvariant
  <2> QED
    BY <1>1, <2>1 DEF LaunchesKept, InitializeConfig
<1>2. CASE t.op = "set_paused" /\ SetPaused(deployer, FALSE)
  <2>1. CustodyInvariant'
    BY <1>2, ScriptAssumption, SetPausedKeepsInvariant
  <2> QED
    BY <1>2, <2>1 DEF LaunchesKept, SetPaused
<1>3. CASE t.op = "create_token" /\ CreateToken(creator, t.mint, ScriptNames)
  BY <1>3, CreateKeepsLaunches DEF Sendable
<1>4. CASE t.op = "buy" /\ {t.amount, t.limit} \subseteq U64
           /\ Buy(t.signer, t.mint, t.amount, t.limit)
  BY <1>4, BuyKeepsLaunches DEF Sendable
<1>5. CASE t.op = "graduate" /\ Graduate(t.mint)
  BY <1>5, GraduateKeepsLaunches DEF Sendable
<1>6. CASE t.op = "seal_graduation" /\ SealGraduation(authority, t.mint, t.lb_pair)
  BY <1>6, SealKeepsLaunches, ScriptAssumption DEF Sendable
<1> QED
  BY <1>1, <1>2, <1>3, <1>4, <1>5, <1>6 DEF Executes

LEMMA OthersKeepLaunches ==
    ASSUME CustodyInvariant, Others
    PROVE  CustodyInvariant' /\ LaunchesKept
<1>1. CASE AdminStep
  BY <1>1, AdminKeepsLaunches
<1>2. ASSUME NEW w \in OtherTraders, NEW m \in Mints, NEW n \in OtherSizes,
             Buy(w, m, n, U64Max) \/ Sell(w, m, n, 0)
      PROVE  CustodyInvariant' /\ LaunchesKept
  <2>1. w \in Wallets /\ n \in U64 /\ U64Max \in U64 /\ 0 \in U64
    BY ScriptAssumption, WidthsAssumption DEF U64
  <2> QED
    BY <1>2, <2>1, BuyKeepsLaunches, SellKeepsLaunches
<1>3. ASSUME NEW m \in Mints, Graduate(m) PROVE CustodyInvariant' /\ LaunchesKept
  BY <1>3, GraduateKeepsLaunches
<1> QED
  BY <1>1, <1>2, <1>3 DEF Others

\* Steps of the program leave what the scripts and state.json say true.
LEMMA LaunchesKeptKeepsInvariant ==
    ASSUME DriverInvariant, CustodyInvariant', LaunchesKept, UNCHANGED <<script, file>>,
           late' \subseteq late
    PROVE  DriverInvariant'
<1>1. \A m : Known(m) => Known(m)'
  BY DEF Known, LaunchesKept
<1>2. OneCreator' /\ NeverOversold'
  BY StaysUnderAllocation DEF OneCreator, LaunchesKept, DriverInvariant
<1>3. FileInv'
  BY <1>1 DEF FileInv, DriverInvariant
<1>4. ScriptInv'
  BY <1>1 DEF ScriptInv, ScriptShape, Sendable, DriverInvariant, LaunchesKept
<1>5. \A t \in late' : Sendable(t)
  BY DEF DriverInvariant
<1> QED
  BY <1>2, <1>3, <1>4, <1>5 DEF DriverInvariant, Sendable

\* Steps of a script leave the program alone, and keep the invariant as long as
\* what they write is true.
LEMMA ScriptStepKeepsInvariant ==
    ASSUME DriverInvariant, UNCHANGED vars, ScriptInv', FileInv',
           \A t \in late' : Sendable(t)
    PROVE  DriverInvariant'
<1>1. CustodyInvariant'
  BY DEF vars, DriverInvariant, CustodyInvariant, TypeOK, ConfigStaysValid,
     NothingBeforeLaunch, VaultSolvent, TokenLedger, Circulating
<1>2. OneCreator' /\ NeverOversold'
  BY DEF vars, OneCreator, NeverOversold, DriverInvariant
<1> QED
  BY <1>1, <1>2 DEF DriverInvariant, Sendable

\* A script at rest knows nothing that could be wrong.
LEMMA IdleIsTrue ==
    ASSUME script' = Idle, UNCHANGED vars
    PROVE  ScriptInv'
BY DEF ScriptInv, ScriptShape, Sendable, Known, Idle, Tx, Empty

LEMMA StartKeepsInvariant ==
    ASSUME DriverInvariant, StartAny
    PROVE  DriverInvariant'
<1>1. ASSUME NEW pc \in {"send", "iterate"}, NEW tx, NEW state, Start(pc, tx, state),
             DOMAIN tx = {"op", "mint", "signer", "amount", "limit", "lb_pair"},
             DOMAIN state = {"mint", "lb_pair"}, Known(state.mint),
             pc = "send" => Sendable(tx),
             pc = "iterate" => tx.op = "buy" /\ tx.mint \in Mints /\ tx.lb_pair = DefaultKey
      PROVE  DriverInvariant'
  <2>1. script' = [Idle EXCEPT !.pc = pc, !.tx = tx, !.state = state]
    BY <1>1 DEF Start
  <2>2. /\ DOMAIN script' = {"pc", "tx", "state", "iter", "seen"}
        /\ script'.pc = pc /\ script'.tx = tx /\ script'.state = state /\ script'.iter = 0
    BY <2>1 DEF Idle
  <2>3. UNCHANGED vars /\ UNCHANGED <<file, late>>
    BY <1>1 DEF Start
  <2>4. ScriptInv'
    BY <1>1, <2>2, <2>3 DEF ScriptInv, ScriptShape, Sendable, Known, vars
  <2>5. FileInv' /\ \A t \in late' : Sendable(t)
    BY <2>3 DEF DriverInvariant, FileInv, Known, vars
  <2> QED
    BY <2>3, <2>4, <2>5, ScriptStepKeepsInvariant
<1>2. /\ DOMAIN Empty = {"mint", "lb_pair"} /\ Known(Empty.mint)
      /\ file # NoFile => DOMAIN file = {"mint", "lb_pair"} /\ Known(file.mint)
      /\ HasMint => file # NoFile /\ file.mint \in Mints
  BY DEF Empty, Known, DriverInvariant, FileInv, HasMint
<1>3. ASSUME NEW op, NEW m
      PROVE  /\ DOMAIN Tx(op, m) = {"op", "mint", "signer", "amount", "limit", "lb_pair"}
             /\ Tx(op, m).op = op /\ Tx(op, m).mint = m /\ Tx(op, m).lb_pair = DefaultKey
  BY DEF Tx
<1>4. CASE StartInitConfig
  BY <1>1, <1>2, <1>3, <1>4 DEF StartInitConfig, Sendable
<1>5. CASE StartUnpause
  BY <1>1, <1>2, <1>3, <1>5 DEF StartUnpause, Sendable
<1>6. CASE StartCreateToken
  <2>1. (CHOOSE m \in NewMints : TRUE) \in Mints
    BY <1>6 DEF StartCreateToken, NewMints
  <2> QED
    BY <1>1, <1>2, <1>3, <1>6, <2>1 DEF StartCreateToken, Sendable
<1>7. CASE StartBuy
  BY <1>1, <1>2, <1>3, <1>7 DEF StartBuy
<1>8. CASE StartGraduate
  BY <1>1, <1>2, <1>3, <1>8 DEF StartGraduate, Sendable
<1>9. CASE StartSeal
  <2> DEFINE lb == CHOOSE lb \in NewPools : TRUE
             tx == [Tx("seal_graduation", file.mint) EXCEPT !.lb_pair = lb]
  <2>1. lb \in LbPairs
    BY <1>9 DEF StartSeal, NewPools
  <2> HIDE DEF lb
  <2>2. /\ DOMAIN tx = {"op", "mint", "signer", "amount", "limit", "lb_pair"}
        /\ tx.op = "seal_graduation" /\ tx.mint = file.mint /\ tx.lb_pair = lb
    BY DEF Tx
  <2>3. Start("send", tx, file) /\ HasMint
    BY <1>9 DEF StartSeal, lb
  <2> HIDE DEF tx
  <2> QED
    BY <1>1, <1>2, <2>1, <2>2, <2>3 DEF Sendable
<1> QED
  BY <1>4, <1>5, <1>6, <1>7, <1>8, <1>9 DEF StartAny, StartInitConfig, StartUnpause,
     StartCreateToken, StartBuy, StartGraduate, StartSeal

\* What follows a confirmation is true whether the transaction succeeded or not:
\* create_token leads to the read-back, not to the save.
LEMMA ConfirmedIsTrue ==
    ASSUME DriverInvariant, Running("sent"), script' = Confirmed,
           \A m \in Mints : Launched(m) => Launched(m)'
    PROVE  ScriptInv'
<1>1. /\ ScriptShape /\ Known(script.state.mint) /\ Sendable(script.tx)
      /\ script.pc = "sent"
  BY DEF DriverInvariant, ScriptInv, Running
<1>2. CASE script' = Idle
  BY <1>2 DEF ScriptInv, ScriptShape, Sendable, Known, Idle, Tx, Empty
<1>3. ASSUME NEW pc, script' = [script EXCEPT !.pc = pc]
      PROVE  /\ ScriptShape' /\ Known(script.state.mint)' /\ Sendable(script.tx)'
             /\ script'.pc = pc /\ script'.tx = script.tx
  BY <1>1, <1>3 DEF ScriptShape, Known, Sendable
<1>4. CASE script.tx.op \in {"initialize_config", "create_token"}
           /\ script' = [script EXCEPT !.pc = "check"]
  BY <1>1, <1>3, <1>4 DEF ScriptInv, Sendable
<1>5. CASE script.tx.op = "buy" /\ script' = [script EXCEPT !.pc = "iterate"]
  BY <1>1, <1>3, <1>5 DEF ScriptInv, Sendable
<1>6. CASE script.tx.op # "create_token" /\ script' = [script EXCEPT !.pc = "save"]
  BY <1>1, <1>3, <1>6 DEF ScriptInv
<1> QED
  BY <1>2, <1>4, <1>5, <1>6, Zenon DEF Confirmed

LEMMA ProceedKeepsInvariant ==
    ASSUME DriverInvariant, Proceed
    PROVE  DriverInvariant'
<1> USE DEF Running
<1>1. /\ ScriptShape /\ ScriptInv /\ Known(script.state.mint) /\ FileInv
      /\ \A t \in late : Sendable(t)
  BY DEF DriverInvariant, ScriptInv
<1>2. ASSUME Continue(script'), ScriptInv' PROVE DriverInvariant'
  <2>1. UNCHANGED vars /\ UNCHANGED <<file, late>>
    BY <1>2 DEF Continue
  <2>2. FileInv' /\ \A t \in late' : Sendable(t)
    BY <1>1, <2>1 DEF FileInv, Known, vars
  <2> QED
    BY <1>2, <2>1, <2>2, ScriptStepKeepsInvariant
<1>3. ASSUME NEW pc, script' = [script EXCEPT !.pc = pc], UNCHANGED vars
      PROVE  /\ ScriptShape' /\ Known(script.state.mint)' /\ script'.pc = pc
             /\ script'.tx = script.tx /\ (Sendable(script.tx) => Sendable(script.tx)')
  BY <1>1, <1>3 DEF ScriptShape, Known, Sendable, vars
<1>4. CASE StopBuying
  <2>1. script' = [script EXCEPT !.pc = "save"] /\ script.tx.op = "buy"
    BY <1>1, <1>4 DEF StopBuying, Continue, ScriptInv
  <2>2. UNCHANGED vars /\ Continue(script')
    BY <1>4 DEF StopBuying, Continue
  <2>3. ScriptInv'
    BY <1>3, <2>1, <2>2 DEF ScriptInv
  <2> QED
    BY <1>2, <2>2, <2>3
<1>5. CASE SizePurchase
  <2> DEFINE signer == Buyers[(script.iter % Len(Buyers)) + 1]
             amount == SizedChunk(launch[script.tx.mint])
  <2>1. /\ script' = [script EXCEPT !.pc = "quote", !.iter = @ + 1,
                                    !.seen = launch[script.tx.mint],
                                    !.tx.signer = signer, !.tx.amount = amount]
        /\ UNCHANGED vars /\ Continue(script') /\ script.pc = "iterate"
        /\ Launched(script.tx.mint)
    BY <1>5 DEF SizePurchase, Continue
  <2>2. signer \in Wallets
    <3>1. Len(Buyers) \in Nat /\ Len(Buyers) > 0 /\ script.iter \in Nat
      BY <1>1, ScriptAssumption DEF ScriptShape
    <3>2. (script.iter % Len(Buyers)) + 1 \in 1 .. Len(Buyers)
      BY <3>1
    <3> QED
      BY <3>2, ScriptAssumption
  <2> HIDE DEF signer, amount
  <2>3. /\ ScriptShape' /\ script'.pc = "quote" /\ script'.state = script.state
        /\ script'.tx.op = script.tx.op /\ script'.tx.mint = script.tx.mint
        /\ script'.tx.lb_pair = script.tx.lb_pair /\ script'.tx.signer = signer
    <3>1. /\ DOMAIN script' = DOMAIN script /\ script'.pc = "quote"
          /\ script'.state = script.state /\ script'.iter = script.iter + 1
          /\ script'.tx = [script.tx EXCEPT !.signer = signer, !.amount = amount]
      BY <1>1, <2>1 DEF ScriptShape
    <3> QED
      BY <1>1, <3>1 DEF ScriptShape
  <2>4. ScriptInv'
    BY <1>1, <2>1, <2>2, <2>3 DEF ScriptInv, Known, vars
  <2> QED
    BY <1>2, <2>1, <2>4
<1>6. CASE QuotePurchase
  <2> DEFINE limit == MaxSolIn(launch[script.tx.mint], script.tx.amount)
  <2>1. /\ script' = [script EXCEPT !.pc = "send", !.tx.limit = limit]
        /\ UNCHANGED vars /\ Continue(script') /\ script.pc = "quote"
    BY <1>6 DEF QuotePurchase, Continue
  <2> HIDE DEF limit
  <2>2. /\ ScriptShape' /\ script'.pc = "send" /\ script'.state = script.state
        /\ script'.tx.op = script.tx.op /\ script'.tx.mint = script.tx.mint
        /\ script'.tx.lb_pair = script.tx.lb_pair /\ script'.tx.signer = script.tx.signer
    BY <1>1, <2>1 DEF ScriptShape
  <2>3. ScriptInv'
    BY <1>1, <2>1, <2>2 DEF ScriptInv, Sendable, Known, vars
  <2> QED
    BY <1>2, <2>1, <2>3
<1>7. CASE Send
  <2>1. /\ script' = [script EXCEPT !.pc = "sent"] /\ script.pc = "send"
        /\ UNCHANGED vars /\ Continue(script')
    BY <1>7 DEF Send, Continue
  <2>2. ScriptInv'
    BY <1>1, <1>3, <2>1 DEF ScriptInv
  <2> QED
    BY <1>2, <2>1, <2>2
<1>8. CASE Refused
  <2>1. Continue(script') /\ ScriptInv'
    BY <1>8, IdleIsTrue DEF Refused, Continue
  <2> QED
    BY <1>2, <2>1
<1>9. CASE Land
  <2>1. Sendable(script.tx) /\ Executes(script.tx) /\ script.pc = "sent"
    BY <1>1, <1>9 DEF Land, ScriptInv
  <2>2. CustodyInvariant' /\ LaunchesKept
    BY <2>1, ExecutesKeepsLaunches DEF DriverInvariant
  <2>3. script' = Confirmed /\ UNCHANGED <<file, late>>
    BY <1>9 DEF Land
  <2>4. ScriptInv'
    BY <2>1, <2>2, <2>3, ConfirmedIsTrue DEF LaunchesKept
  <2>5. /\ OneCreator' /\ NeverOversold'
        /\ FileInv' /\ \A t \in late' : Sendable(t)
    BY <1>1, <2>2, <2>3, StaysUnderAllocation DEF OneCreator, FileInv, Known, LaunchesKept, DriverInvariant
  <2> QED
    BY <2>2, <2>4, <2>5 DEF DriverInvariant, Sendable
<1>10. CASE FailOnChain
  <2>1. script' = Confirmed /\ Continue(script') /\ UNCHANGED vars
    BY <1>10 DEF FailOnChain, Continue
  <2>2. ScriptInv'
    BY <1>10, <2>1, ConfirmedIsTrue DEF FailOnChain, vars
  <2> QED
    BY <1>2, <2>1, <2>2
<1>11. CASE TimeOut
  <2>1. /\ script' = Idle /\ UNCHANGED <<vars, file>> /\ late' \subseteq late \cup {script.tx}
        /\ Sendable(script.tx)
    BY <1>1, <1>11 DEF TimeOut, ScriptInv
  <2>2. ScriptInv' /\ FileInv' /\ \A t \in late' : Sendable(t)
    BY <1>1, <2>1, IdleIsTrue DEF FileInv, Known, vars
  <2> QED
    BY <2>1, <2>2, ScriptStepKeepsInvariant
<1>12. CASE Check
  <2>1. CASE ReadBack(script.tx)
    <3>1. /\ script' = [script EXCEPT !.pc = "save"] /\ script.pc = "check"
          /\ UNCHANGED vars /\ Continue(script')
      BY <1>12, <2>1 DEF Check, Continue
    <3>2. script.tx.op = "create_token" => Launched(script.tx.mint)
      BY <2>1 DEF ReadBack
    <3>3. ScriptInv'
      BY <1>1, <1>3, <3>1, <3>2 DEF ScriptInv, vars
    <3> QED
      BY <1>2, <3>1, <3>3
  <2>2. CASE ~ReadBack(script.tx)
    <3>1. Continue(script') /\ ScriptInv'
      BY <1>12, <2>2, IdleIsTrue DEF Check, Continue
    <3> QED
      BY <1>2, <3>1
  <2> QED
    BY <2>1, <2>2
<1>13. CASE Truncate
  <2>1. /\ script' = [script EXCEPT !.pc = "fill"] /\ script.pc = "save"
        /\ UNCHANGED <<vars, late>> /\ file' = NoFile
    BY <1>13 DEF Truncate
  <2>2. ScriptInv' /\ FileInv' /\ \A t \in late' : Sendable(t)
    BY <1>1, <1>3, <2>1 DEF ScriptInv, FileInv, vars
  <2> QED
    BY <2>1, <2>2, ScriptStepKeepsInvariant
<1>14. CASE Fill
  <2>1. /\ script' = Idle /\ script.pc = "fill" /\ UNCHANGED <<vars, late>> /\ file' = Saved
    BY <1>14 DEF Fill
  <2>2. \/ /\ script.tx.op = "create_token"
           /\ Saved = [script.state EXCEPT !.mint = script.tx.mint]
        \/ Saved = [script.state EXCEPT !.lb_pair = script.tx.lb_pair]
        \/ Saved = script.state
    BY Zenon DEF Saved
  <2>3. DOMAIN Saved = {"mint", "lb_pair"} /\ Known(Saved.mint)
    BY <1>1, <2>1, <2>2 DEF ScriptInv, ScriptShape, Known
  <2>4. ScriptInv' /\ FileInv' /\ \A t \in late' : Sendable(t)
    BY <1>1, <2>1, <2>3, IdleIsTrue DEF FileInv, Known, vars
  <2> QED
    BY <2>1, <2>4, ScriptStepKeepsInvariant
<1> QED
  BY <1>4, <1>5, <1>6, <1>7, <1>8, <1>9, <1>10, <1>11, <1>12, <1>13, <1>14 DEF Proceed

LEMMA DriverNextKeepsInvariant ==
    DriverInvariant /\ [DriverNext]_driverVars => DriverInvariant'
<1> SUFFICES ASSUME DriverInvariant, [DriverNext]_driverVars PROVE DriverInvariant'
  OBVIOUS
<1>1. /\ CustodyInvariant /\ FileInv /\ ScriptInv
      /\ \A t \in late : Sendable(t)
  BY DEF DriverInvariant
<1>2. CASE LateLands
  <2>1. PICK t \in late : Executes(t) /\ late' = late \ {t} /\ UNCHANGED <<script, file>>
    BY <1>2 DEF LateLands
  <2>2. CustodyInvariant' /\ LaunchesKept
    BY <1>1, <2>1, ExecutesKeepsLaunches
  <2> QED
    BY <2>1, <2>2, LaunchesKeptKeepsInvariant
<1>3. CASE LateLost \/ UNCHANGED driverVars
  <2>1. late' \subseteq late /\ UNCHANGED <<vars, script, file>>
    BY <1>3 DEF LateLost, driverVars
  <2>2. ScriptInv' /\ FileInv' /\ \A t \in late' : Sendable(t)
    BY <1>1, <2>1 DEF ScriptInv, ScriptShape, FileInv, Known, Sendable, vars
  <2> QED
    BY <2>1, <2>2, ScriptStepKeepsInvariant
<1>4. CASE Crash
  <2>1. script' = Idle /\ UNCHANGED <<vars, file, late>>
    BY <1>4 DEF Crash
  <2>2. ScriptInv' /\ FileInv' /\ \A t \in late' : Sendable(t)
    BY <1>1, <2>1, IdleIsTrue DEF FileInv, Known, vars
  <2> QED
    BY <2>1, <2>2, ScriptStepKeepsInvariant
<1>5. CASE Others
  <2>1. CustodyInvariant' /\ LaunchesKept
    BY <1>1, <1>5, OthersKeepLaunches
  <2> QED
    BY <1>5, <2>1, LaunchesKeptKeepsInvariant DEF Others
<1> QED
  BY <1>2, <1>3, <1>4, <1>5, StartKeepsInvariant, ProceedKeepsInvariant DEF DriverNext

LEMMA DriverInvariantAtStart == DriverInit => DriverInvariant
<1> SUFFICES ASSUME DriverInit PROVE DriverInvariant
  OBVIOUS
<1>1. CustodyInvariant
  BY InvariantAtStart DEF DriverInit
<1>2. OneCreator /\ NeverOversold
  BY DEF DriverInit, Init, OneCreator, NeverOversold
<1> QED
  BY <1>1, <1>2 DEF DriverInit, DriverInvariant, FileInv, ScriptInv, ScriptShape, Known,
     Idle, Tx, Empty

THEOREM DriverHolds == DriverSpec => []DriverInvariant
BY DriverInvariantAtStart, DriverNextKeepsInvariant, PTL DEF DriverSpec

\* The mint in state.json is that of a launch of the script's creator, whatever
\* failed, timed out, landed late or was killed.
THEOREM SavedMintHolds == DriverSpec => []SavedMintIsLaunched
<1>1. DriverInvariant => SavedMintIsLaunched
  BY DEF DriverInvariant, SavedMintIsLaunched, FileInv, Known, HasMint, OneCreator
<1> QED
  BY <1>1, DriverHolds, PTL

\* The scripts and whatever else runs beside them keep every invariant of the
\* program that MemecoinProofs proves of its own specification.
THEOREM DriverKeepsCustody == DriverSpec => []CustodyInvariant
<1>1. DriverInvariant => CustodyInvariant
  BY DEF DriverInvariant
<1> QED
  BY <1>1, DriverHolds, PTL

-----------------------------------------------------------------------------
(* The scripts run the program: what MemecoinProofs, TradeProofs and         *)
(* CustodyProofs show of every instruction holds of theirs and of those that *)
(* land between and after them.                                              *)

\* A transaction is one instruction, whenever it lands.
LEMMA ExecutesInstruction ==
    ASSUME NEW t, Sendable(t), Executes(t)
    PROVE  Instruction
<1>1. /\ deployer \in Wallets /\ creator \in Wallets /\ authority \in Wallets
      /\ ScriptParams \in InitParams /\ ScriptNames \in CreateParams
  BY ScriptAssumption
<1>2. CASE t.op = "initialize_config" /\ InitializeConfig(deployer, ScriptParams)
  BY <1>1, <1>2 DEF Instruction, AdminInstruction
<1>3. CASE t.op = "set_paused" /\ SetPaused(deployer, FALSE)
  BY <1>1, <1>3 DEF Instruction, AdminInstruction
<1>4. CASE t.op = "create_token" /\ CreateToken(creator, t.mint, ScriptNames)
  BY <1>1, <1>4 DEF Instruction, TradeInstruction, Sendable
<1>5. CASE t.op = "buy" /\ {t.amount, t.limit} \subseteq U64
           /\ Buy(t.signer, t.mint, t.amount, t.limit)
  <2>1. t.signer \in Wallets /\ t.mint \in Mints /\ t.amount \in U64 /\ t.limit \in U64
    BY <1>5 DEF Sendable
  <2> QED
    BY <1>5, <2>1 DEF Instruction, TradeInstruction
<1>6. CASE t.op = "graduate" /\ Graduate(t.mint)
  BY <1>6 DEF Instruction, GraduationStep, Sendable
<1>7. CASE t.op = "seal_graduation" /\ SealGraduation(authority, t.mint, t.lb_pair)
  BY <1>1, <1>7 DEF Instruction, GraduationStep, Sendable
<1> QED
  BY <1>2, <1>3, <1>4, <1>5, <1>6, <1>7 DEF Executes

\* Every step of the scripts, of their late transactions and of others is an
\* instruction or leaves the program's accounts alone.
LEMMA DriverStepIsInstruction ==
    DriverInvariant /\ [DriverNext]_driverVars => [Instruction]_vars
<1> SUFFICES ASSUME DriverInvariant, [DriverNext]_driverVars, ~UNCHANGED vars
             PROVE  Instruction
  OBVIOUS
<1>1. CASE Land
  <2>1. Sendable(script.tx) /\ Executes(script.tx)
    BY <1>1 DEF Land, Running, DriverInvariant, ScriptInv
  <2> QED
    BY <2>1, ExecutesInstruction
<1>2. CASE LateLands
  <2>1. PICK t \in late : Executes(t)
    BY <1>2 DEF LateLands
  <2>2. Sendable(t)
    BY DEF DriverInvariant
  <2> QED
    BY <2>1, <2>2, ExecutesInstruction
<1>3. CASE Others
  <2>1. CASE AdminStep
    BY <2>1, AccountsAssumption DEF AdminStep, AdminInstruction, Instruction
  <2>2. ASSUME NEW w \in OtherTraders, NEW m \in Mints, NEW n \in OtherSizes,
               Buy(w, m, n, U64Max) \/ Sell(w, m, n, 0)
        PROVE  Instruction
    <3>1. w \in Wallets /\ n \in U64 /\ U64Max \in U64 /\ 0 \in U64
      BY ScriptAssumption, WidthsAssumption DEF U64
    <3> QED
      BY <2>2, <3>1 DEF Instruction, TradeInstruction
  <2>3. ASSUME NEW m \in Mints, Graduate(m) PROVE Instruction
    BY <2>3 DEF Instruction, GraduationStep
  <2> QED
    BY <1>3, <2>1, <2>2, <2>3 DEF Others
<1>4. ~StartAny
  BY DEF StartAny, StartInitConfig, StartUnpause, StartCreateToken, StartBuy, StartGraduate,
     StartSeal, Start
<1>5. ~(LateLost \/ Crash \/ UNCHANGED driverVars)
  BY DEF LateLost, Crash, driverVars
<1>6. ~(StopBuying \/ SizePurchase \/ QuotePurchase \/ Send \/ Refused \/ FailOnChain
           \/ TimeOut \/ Check \/ Truncate \/ Fill)
  BY DEF StopBuying, SizePurchase, QuotePurchase, Send, Refused, FailOnChain, TimeOut, Check,
     Truncate, Fill, Continue
<1> QED
  BY <1>1, <1>2, <1>3, <1>4, <1>5, <1>6 DEF DriverNext, Proceed

\* Seen from the program, the scripts are one of its possible uses.
THEOREM DriverRunsProgram == DriverSpec => ProgramSpec
<1>1. DriverInit => Init
  BY DEF DriverInit
<1> QED
  BY <1>1, DriverStepIsInstruction, DriverHolds, PTL DEF DriverSpec, ProgramSpec

\* Whatever the scripts, their late transactions and the others do: nothing
\* leaves a vault unbooked, trades do not cheat those who hold on, a pause stops
\* the launches, graduation is final, and every launch is an escrow that its
\* holders can redeem from and that graduates once its curve covers threshold
\* and fee.
THEOREM DriverKeepsPromises ==
    DriverSpec => /\ VaultDebitsBooked /\ BuysNeverDilute /\ SalesOverpayUnderOneLamport
                  /\ PauseStopsCustody /\ GraduationIsFinal /\ ImplementsCustody
                  /\ []Redeemable /\ []GraduableIfCovered
BY DriverRunsProgram, ProgramBooksDebits, ProgramBuysFairly, ProgramSellsFairly,
   ProgramStopsWhenPaused, ProgramKeepsGraduation, ProgramIsEscrow, ProgramKeepsCustody,
   RedeemableByBooks, GraduableByBooks, PTL

-----------------------------------------------------------------------------
(* The binary search of 03-buy.mjs.  Its recursion is solved by hand: the    *)
(* function that gives every range the largest chunk that fits in it         *)
(* satisfies the recursive equation, and whatever satisfies the equation     *)
(* gives every range that chunk, by a counterexample with the shortest range.*)

\* A set of natural numbers that has a member has a least one.
LEMMA LeastNatural ==
    ASSUME NEW S \in SUBSET Nat, S # {}
    PROVE  \E n \in S : \A k \in S : n <= k
<1>1. PICK n \in S : \A k \in S : ~(<<k, n>> \in OpToRel(<, Nat))
  BY NatLessThanWellFounded, WFMin, Zenon
<1>2. \A k \in S : ~(k < n)
  BY <1>1 DEF OpToRel
<1> QED
  BY <1>2

\* What fits a purchase fits every smaller one.
LEMMA FitsShrinks ==
    ASSUME NEW l \in LaunchType, NEW n \in Nat, NEW k \in Nat, n <= k,
           k < l.virtual_token_reserves, Fits(l, k)
    PROVE  Fits(l, n) /\ QuoteSolIn(l, n) \in Nat
<1> DEFINE vs == l.virtual_sol_reserves
           vt == l.virtual_token_reserves
           rs == l.real_sol_reserves
<1>1. vs \in Nat /\ vt \in Nat /\ rs \in Nat /\ Threshold \in Nat
  BY LaunchAmounts, ScriptAssumption
<1>2. /\ QuoteSolIn(l, n) = SolIn(vs, vt, rs, n)
      /\ QuoteSolIn(l, k) = SolIn(vs, vt, rs, k)
  BY DEF QuoteSolIn, SolIn
<1>5. n < vt /\ k < vt
  BY <1>1
<1> HIDE DEF vs, vt, rs
<1>3. SolIn(vs, vt, rs, n) \in Nat /\ SolIn(vs, vt, rs, k) \in Nat
  BY <1>1, <1>5, BuyPriceIsLeast
<1>4. SolIn(vs, vt, rs, n) <= SolIn(vs, vt, rs, k)
  BY <1>1, <1>5, BuyQuoteGrows
<1> QED
  BY <1>1, <1>2, <1>3, <1>4 DEF Fits, rs

\* n is the largest chunk from lo to hi that fits, or lo if none above it does.
Largest(l, lo, hi, n) ==
    /\ n \in lo .. hi
    /\ n = lo \/ Fits(l, n)
    /\ \A k \in n + 1 .. hi : ~Fits(l, k)

Chunks == Probe .. Chunk

LEMMA LargestExists ==
    ASSUME NEW l, NEW lo \in Nat, NEW hi \in Nat, lo <= hi
    PROVE  \E n \in lo .. hi : Largest(l, lo, hi, n)
<1> DEFINE Short(d) == hi - d = lo \/ Fits(l, hi - d)
           S == {d \in 0 .. hi - lo : Short(d)}
<1>1. hi - lo \in S /\ S \in SUBSET Nat
  OBVIOUS
<1>2. PICK d \in S : \A k \in S : d <= k
  BY <1>1, LeastNatural
<1>3. hi - d \in lo .. hi /\ Short(d)
  BY <1>2
<1>4. ASSUME NEW k \in (hi - d) + 1 .. hi, Fits(l, k) PROVE FALSE
  <2>1. hi - k \in 0 .. hi - lo /\ hi - (hi - k) = k /\ hi - k < d
    BY <1>2
  <2>2. hi - k \in S
    BY <1>4, <2>1
  <2> QED
    BY <1>2, <2>1, <2>2
<1> QED
  BY <1>3, <1>4 DEF Largest

LEMMA LargestIsUnique ==
    ASSUME NEW l, NEW lo \in Nat, NEW hi \in Nat, NEW n, NEW k,
           Largest(l, lo, hi, n), Largest(l, lo, hi, k)
    PROVE  n = k
BY DEF Largest

\* One step of the search keeps what it is looking for.
LEMMA HalvingKeepsLargest ==
    ASSUME NEW l \in LaunchType, Chunk < l.virtual_token_reserves,
           NEW lo \in Chunks, NEW hi \in Chunks, lo < hi, NEW n
    PROVE  LET mid == (lo + hi + 1) \div 2
           IN  /\ mid \in lo + 1 .. hi
               /\ Fits(l, mid) /\ Largest(l, mid, hi, n) => Largest(l, lo, hi, n)
               /\ ~Fits(l, mid) /\ Largest(l, lo, mid - 1, n) => Largest(l, lo, hi, n)
<1> DEFINE mid == (lo + hi + 1) \div 2
<1>1. lo \in Nat /\ hi \in Nat /\ hi <= Chunk /\ Chunk \in Int
  BY ScriptAssumption DEF Chunks
<1>2. mid \in lo + 1 .. hi
  BY <1>1
<1> HIDE DEF mid
<1>3. ASSUME Fits(l, mid), Largest(l, mid, hi, n) PROVE Largest(l, lo, hi, n)
  BY <1>1, <1>2, <1>3 DEF Largest
<1>4. ASSUME ~Fits(l, mid), Largest(l, lo, mid - 1, n) PROVE Largest(l, lo, hi, n)
  <2>1. ASSUME NEW k \in mid .. hi PROVE ~Fits(l, k)
    <3>1. l.virtual_token_reserves \in Nat /\ k \in Nat /\ mid \in Nat /\ mid <= k
          /\ k < l.virtual_token_reserves
      BY <1>1, <1>2, <2>1, LaunchAmounts
    <3> QED
      BY <1>4, <3>1, FitsShrinks
  <2>2. n \in lo .. hi /\ (n = lo \/ Fits(l, n))
    BY <1>1, <1>2, <1>4 DEF Largest
  <2>3. ASSUME NEW k \in n + 1 .. hi PROVE ~Fits(l, k)
    BY <1>1, <1>2, <1>4, <2>1, <2>2, <2>3 DEF Largest
  <2> QED
    BY <2>2, <2>3 DEF Largest
<1> QED
  BY <1>2, <1>3, <1>4 DEF mid

\* The right-hand side of the recursive definition.
Halved(l, f) ==
    [range \in Chunks \X Chunks |->
        LET lo  == range[1]
            hi  == range[2]
            mid == (lo + hi + 1) \div 2
        IN  IF lo >= hi THEN lo
            ELSE IF Fits(l, mid) THEN f[<<mid, hi>>] ELSE f[<<lo, mid - 1>>]]

LEMMA HalvedAt ==
    ASSUME NEW l, NEW f, f = Halved(l, f), NEW lo \in Chunks, NEW hi \in Chunks
    PROVE  LET mid == (lo + hi + 1) \div 2
           IN  f[<<lo, hi>>] = IF lo >= hi THEN lo
                               ELSE IF Fits(l, mid) THEN f[<<mid, hi>>] ELSE f[<<lo, mid - 1>>]
<1>1. <<lo, hi>> \in Chunks \X Chunks /\ <<lo, hi>>[1] = lo /\ <<lo, hi>>[2] = hi
  OBVIOUS
<1> QED
  BY <1>1, Zenon DEF Halved

LEMMA SearchIsHalving ==
    ASSUME NEW l, NEW g, g = Halved(l, g)
    PROVE  \E f : f = Halved(l, f) /\ Search(l) = f[<<Probe, Chunk>>]
<1> DEFINE f == CHOOSE h : h = Halved(l, h)
<1>1. f = Halved(l, f)
  BY Zenon
<1>2. Search(l) = f[<<Probe, Chunk>>]
  BY DEF Search, Halved, Chunks
<1> HIDE DEF f
<1> QED
  BY <1>1, <1>2

\* The equation has a solution.
LEMMA HalvingHasSolution ==
    ASSUME NEW l \in LaunchType, Chunk < l.virtual_token_reserves
    PROVE  \E g : g = Halved(l, g)
<1> DEFINE Best(lo, hi) == CHOOSE n \in lo .. hi : Largest(l, lo, hi, n)
           g == [range \in Chunks \X Chunks |->
                    IF range[1] >= range[2] THEN range[1] ELSE Best(range[1], range[2])]
<1>1. Chunks \subseteq Nat
  BY ScriptAssumption DEF Chunks
<1>3. ASSUME NEW lo \in Nat, NEW hi \in Nat, lo <= hi PROVE Largest(l, lo, hi, Best(lo, hi))
  <2>1. \E n \in lo .. hi : Largest(l, lo, hi, n)
    BY <1>3, LargestExists
  <2> QED
    BY <2>1, Zenon
<1> HIDE DEF Best
<1>2. ASSUME NEW lo \in Chunks, NEW hi \in Chunks
      PROVE  g[<<lo, hi>>] = IF lo >= hi THEN lo ELSE Best(lo, hi)
  <2>1. <<lo, hi>> \in Chunks \X Chunks /\ <<lo, hi>>[1] = lo /\ <<lo, hi>>[2] = hi
    OBVIOUS
  <2> QED
    BY <2>1, Zenon
<1>4. ASSUME NEW lo \in Chunks, NEW hi \in Chunks, lo <= hi
      PROVE  Largest(l, lo, hi, g[<<lo, hi>>])
  <2>1. CASE lo < hi
    BY <1>1, <1>2, <1>3, <2>1
  <2>2. CASE lo = hi
    <3>1. g[<<lo, hi>>] = lo
      BY <1>1, <1>2, <2>2
    <3> QED
      BY <1>1, <2>2, <3>1 DEF Largest
  <2> QED
    BY <1>1, <1>4, <2>1, <2>2
<1>5. DOMAIN g = Chunks \X Chunks /\ g = [range \in Chunks \X Chunks |-> g[range]]
  OBVIOUS
<1> HIDE DEF g
<1>6. ASSUME NEW lo \in Chunks, NEW hi \in Chunks
      PROVE  LET mid == (lo + hi + 1) \div 2
             IN  g[<<lo, hi>>] = IF lo >= hi THEN lo
                                 ELSE IF Fits(l, mid) THEN g[<<mid, hi>>] ELSE g[<<lo, mid - 1>>]
  <2> DEFINE mid == (lo + hi + 1) \div 2
  <2>1. CASE lo >= hi
    BY <1>2, <2>1
  <2>2. CASE lo < hi
    <3>1. /\ mid \in lo + 1 .. hi
          /\ \A n : Fits(l, mid) /\ Largest(l, mid, hi, n) => Largest(l, lo, hi, n)
          /\ \A n : ~Fits(l, mid) /\ Largest(l, lo, mid - 1, n) => Largest(l, lo, hi, n)
      BY <2>2, HalvingKeepsLargest
    <3> HIDE DEF mid
    <3>2. mid \in Chunks /\ mid <= hi /\ mid - 1 \in Chunks /\ lo <= mid - 1
      BY <1>1, <3>1, ScriptAssumption DEF Chunks
    <3>3. Largest(l, lo, hi, g[<<lo, hi>>])
      BY <1>1, <1>4, <2>2
    <3>4. CASE Fits(l, mid)
      <4>1. Largest(l, lo, hi, g[<<mid, hi>>])
        BY <1>4, <3>1, <3>2, <3>4
      <4>2. g[<<lo, hi>>] = g[<<mid, hi>>]
        BY <1>1, <3>3, <4>1, LargestIsUnique
      <4> QED
        BY <1>1, <2>2, <3>4, <4>2 DEF mid
    <3>5. CASE ~Fits(l, mid)
      <4>1. Largest(l, lo, hi, g[<<lo, mid - 1>>])
        BY <1>4, <3>1, <3>2, <3>5
      <4>2. g[<<lo, hi>>] = g[<<lo, mid - 1>>]
        BY <1>1, <3>3, <4>1, LargestIsUnique
      <4> QED
        BY <1>1, <2>2, <3>5, <4>2 DEF mid
    <3> QED
      BY <3>4, <3>5
  <2> QED
    BY <1>1, <2>1, <2>2
<1>7. ASSUME NEW range \in Chunks \X Chunks
      PROVE  g[range] = LET lo  == range[1]
                            hi  == range[2]
                            mid == (lo + hi + 1) \div 2
                        IN  IF lo >= hi THEN lo
                            ELSE IF Fits(l, mid) THEN g[<<mid, hi>>] ELSE g[<<lo, mid - 1>>]
  <2>1. PICK lo \in Chunks, hi \in Chunks : range = <<lo, hi>>
    OBVIOUS
  <2>2. range[1] = lo /\ range[2] = hi
    BY <2>1
  <2> QED
    BY <1>6, <2>1, <2>2, Zenon
<1>8. g = Halved(l, g)
  BY <1>5, <1>7, Zenon DEF Halved
<1> QED
  BY <1>8

\* Every solution finds the largest chunk that fits.
LEMMA HalvingFindsLargest ==
    ASSUME NEW l \in LaunchType, Chunk < l.virtual_token_reserves,
           NEW f, f = Halved(l, f), NEW lo \in Chunks, NEW hi \in Chunks, lo <= hi
    PROVE  Largest(l, lo, hi, f[<<lo, hi>>])
<1> DEFINE Wrong(d) == \E a \in Chunks, b \in Chunks :
                          a <= b /\ b - a = d /\ ~Largest(l, a, b, f[<<a, b>>])
           S == {d \in Nat : Wrong(d)}
<1>1. Chunks \subseteq Nat
  BY ScriptAssumption DEF Chunks
<1>2. SUFFICES ASSUME S # {} PROVE FALSE
  <2>1. hi - lo \in Nat
    BY <1>1
  <2>2. hi - lo \notin S
    BY <1>2, Zenon
  <2>3. ~Wrong(hi - lo)
    BY <2>1, <2>2
  <2> QED
    BY <2>3
<1>3. PICK d \in S : \A k \in S : d <= k
  BY <1>2, LeastNatural
<1>4. PICK a \in Chunks, b \in Chunks :
         a <= b /\ b - a = d /\ ~Largest(l, a, b, f[<<a, b>>])
  BY <1>3
<1>5. ASSUME NEW p \in Chunks, NEW q \in Chunks, p <= q, q - p < d
      PROVE  Largest(l, p, q, f[<<p, q>>])
  <2>1. q - p \in Nat /\ ~(d <= q - p)
    BY <1>1, <1>3, <1>5
  <2>2. q - p \notin S
    BY <1>3, <2>1
  <2> QED
    BY <1>5, <2>1, <2>2
<1> HIDE DEF S
<1>6. CASE a = b
  <2>1. f[<<a, b>>] = a
    <3> DEFINE mid == (a + b + 1) \div 2
    <3>1. f[<<a, b>>] = IF a >= b THEN a
                        ELSE IF Fits(l, mid) THEN f[<<mid, b>>] ELSE f[<<a, mid - 1>>]
      BY HalvedAt
    <3>2. a >= b
      BY <1>1, <1>6
    <3> QED
      BY <3>1, <3>2, Zenon
  <2> QED
    BY <1>1, <1>4, <1>6, <2>1 DEF Largest
<1>7. CASE a < b
  <2> DEFINE mid == (a + b + 1) \div 2
  <2>1. f[<<a, b>>] = IF a >= b THEN a
                      ELSE IF Fits(l, mid) THEN f[<<mid, b>>] ELSE f[<<a, mid - 1>>]
    BY HalvedAt
  <2>2. /\ mid \in a + 1 .. b
        /\ \A n : Fits(l, mid) /\ Largest(l, mid, b, n) => Largest(l, a, b, n)
        /\ \A n : ~Fits(l, mid) /\ Largest(l, a, mid - 1, n) => Largest(l, a, b, n)
    BY <1>7, HalvingKeepsLargest
  <2> HIDE DEF mid
  <2>3. /\ mid \in Chunks /\ mid <= b /\ b - mid < d
        /\ mid - 1 \in Chunks /\ a <= mid - 1 /\ (mid - 1) - a < d
    <3>1. a \in Nat /\ b \in Nat /\ b - a = d
      BY <1>1, <1>4
    <3>2. mid \in a + 1 .. b
      BY <2>2
    <3>3. mid \in Nat /\ a <= mid - 1 /\ mid <= b
      BY <3>1, <3>2
    <3>4. \A c \in Nat : a <= c /\ c <= b => c \in Chunks
      <4>1. a \in Probe .. Chunk /\ b \in Probe .. Chunk
        BY <1>4 DEF Chunks
      <4> QED
        BY <3>1, <4>1, ScriptAssumption DEF Chunks
    <3> QED
      BY <3>1, <3>3, <3>4
  <2>4. ~(a >= b)
    BY <1>1, <1>7
  <2>5. CASE Fits(l, mid)
    BY <1>4, <1>5, <2>1, <2>2, <2>3, <2>4, <2>5
  <2>6. CASE ~Fits(l, mid)
    BY <1>4, <1>5, <2>1, <2>2, <2>3, <2>4, <2>6
  <2> QED
    BY <2>5, <2>6
<1> QED
  BY <1>1, <1>4, <1>6, <1>7

\* What the search of 03-buy.mjs returns is the largest chunk up to Chunk that
\* stays within the threshold, or Probe if none above it does: no off-by-one in
\* the halving loses a token or oversteps.
THEOREM SearchFindsLargest ==
    ASSUME NEW l \in LaunchType, Chunk < l.virtual_token_reserves
    PROVE  Largest(l, Probe, Chunk, Search(l))
<1>1. Probe \in Chunks /\ Chunk \in Chunks /\ Probe <= Chunk
  BY ScriptAssumption, AllocationAssumption DEF Chunks
<1>2. PICK g : g = Halved(l, g)
  BY HalvingHasSolution
<1>3. PICK f : f = Halved(l, f) /\ Search(l) = f[<<Probe, Chunk>>]
  BY <1>2, SearchIsHalving
<1> QED
  BY <1>1, <1>3, HalvingFindsLargest

-----------------------------------------------------------------------------
(* What 03-buy.mjs sends is accepted. *)

\* Whatever the launch, the loop sizes no more than a chunk and than there is.
LEMMA SizedChunkBounds ==
    ASSUME NEW l \in LaunchType, Chunk < l.virtual_token_reserves
    PROVE  SizedChunk(l) \in U64 /\ SizedChunk(l) <= Chunk
<1> DEFINE found == IF Fits(l, Chunk) THEN Chunk ELSE Search(l)
           rt == l.real_token_reserves
           n == IF found <= rt THEN found ELSE rt
<1>1. Chunk \in Nat /\ Probe \in Nat /\ Probe <= Chunk /\ rt \in U64 /\ U64Max \in Nat
  BY ScriptAssumption, WidthsAssumption DEF LaunchType
<1>2. found \in Probe .. Chunk
  BY <1>1, SearchFindsLargest DEF Largest
<1> HIDE DEF found, rt
<1>3. n \in U64 /\ n <= Chunk
  BY <1>1, <1>2 DEF U64
<1> HIDE DEF n
<1>4. SizedChunk(l) = n
  BY DEF SizedChunk, n, found, rt
<1> QED
  BY <1>3, <1>4

\* The limit on a purchase of fewer tokens than there are virtually is a number.
LEMMA LimitIsTyped ==
    ASSUME NEW l \in LaunchType, NEW n \in Nat, n < l.virtual_token_reserves
    PROVE  MaxSolIn(l, n) \in Nat
<1> DEFINE cost == QuoteSolIn(l, n)
           vs == l.virtual_sol_reserves
           vt == l.virtual_token_reserves
           rs == l.real_sol_reserves
<1>1. cost = SolIn(vs, vt, rs, n) /\ vs \in Nat /\ vt \in Nat /\ rs \in Nat /\ n < vt
  BY LaunchAmounts DEF QuoteSolIn, SolIn
<1> HIDE DEF vs, vt, rs
<1>2. cost \in Nat
  BY <1>1, BuyPriceIsLeast
<1> HIDE DEF cost
<1>3. cost + cost \div 100 + Slack \in Nat
  BY <1>2, ScriptAssumption
<1> QED
  BY <1>3 DEF MaxSolIn, cost

\* What the loop sizes on a launch that is not full is a purchase of something,
\* of no more than there is, that stays within the threshold.
LEMMA SizedChunkFits ==
    ASSUME NEW l \in LaunchType, Chunk < l.virtual_token_reserves,
           ~EnoughBought(l), ProbeFits(l)
    PROVE  LET n == SizedChunk(l)
           IN  /\ n \in Nat /\ n > 0 /\ n <= l.real_token_reserves /\ n <= Chunk
               /\ Fits(l, n) /\ QuoteSolIn(l, n) \in Nat
<1> DEFINE found == IF Fits(l, Chunk) THEN Chunk ELSE Search(l)
           rt == l.real_token_reserves
           n == IF found <= rt THEN found ELSE rt
<1>1. /\ Chunk \in Nat /\ Probe \in 1 .. Chunk - 1 /\ Probe \in Nat /\ NearlyEmpty \in Nat
      /\ rt \in Nat /\ l.virtual_token_reserves \in Nat
  BY ScriptAssumption, LaunchAmounts
<1>2. rt > 0
  BY <1>1 DEF EnoughBought
<1>3. found \in Probe .. Chunk /\ Fits(l, found)
  <2>1. CASE Fits(l, Chunk)
    BY <1>1, <2>1
  <2>2. CASE ~Fits(l, Chunk)
    BY <1>1, <2>2, SearchFindsLargest DEF Largest, ProbeFits
  <2> QED
    BY <2>1, <2>2
<1> HIDE DEF found, rt
<1>4. n \in Nat /\ n > 0 /\ n <= rt /\ n <= found /\ found \in Nat /\ found <= Chunk
  BY <1>1, <1>2, <1>3
<1> HIDE DEF n
<1>5. Fits(l, n) /\ QuoteSolIn(l, n) \in Nat
  <2>1. found < l.virtual_token_reserves
    BY <1>1, <1>4
  <2> QED
    BY <1>3, <1>4, <2>1, FitsShrinks
<1>6. SizedChunk(l) = n
  BY DEF SizedChunk, n, found, rt
<1>7. n <= Chunk
  BY <1>1, <1>4
<1> QED
  BY <1>4, <1>5, <1>6, <1>7 DEF rt

\* A limit of the price and 1% covers a fee of 1%, both rounded down.
LEMMA LimitCoversFee ==
    ASSUME NEW cost \in Nat, NEW bps \in Nat, bps <= 100
    PROVE  TradeFee(cost, bps) \in Nat /\ TradeFee(cost, bps) <= cost \div 100
<1> DEFINE p == cost * bps
           f == p \div 10000
<1>1. p \in Nat /\ p <= cost * 100
  <2>1. bps * cost <= 100 * cost
    BY ProductMonotone
  <2> QED
    BY <2>1
<1> HIDE DEF p
<1>2. f \in Nat /\ f * 10000 <= p
  BY <1>1, FloorDivision
<1> HIDE DEF f
<1>3. f * 100 <= cost
  BY <1>1, <1>2
<1>4. f <= cost \div 100
  BY <1>2, <1>3, QuotientsAreExtremal
<1> QED
  BY <1>2, <1>4 DEF TradeFee, BpsOf, BpsDenominator, f, p

\* Every check of buy passes for the chunk and the limit that 03 computes on the
\* launch as it is.
LEMMA SizedPurchasePasses ==
    ASSUME CustodyInvariant, Initialized, ~config.paused, config.trade_fee_bps <= 100,
           NEW m \in Mints, Launched(m), ~EnoughBought(launch[m]), ProbeFits(launch[m]),
           NEW b \in Wallets,
           MaxSolIn(launch[m], SizedChunk(launch[m])) <= lamports[b]
    PROVE  LET n == SizedChunk(launch[m])
               limit == MaxSolIn(launch[m], n)
           IN  {n, limit} \subseteq U64 /\ CanBuy(b, m, n, limit)
<1> DEFINE l    == launch[m]
           vs   == l.virtual_sol_reserves
           vt   == l.virtual_token_reserves
           rs   == l.real_sol_reserves
           rt   == l.real_token_reserves
           sold == l.tokens_sold
           n    == SizedChunk(l)
           cost == BuyCost(l, n)
           fee  == TradeFee(cost, config.trade_fee_bps)
           limit == MaxSolIn(l, n)
           shares == TradeShares(config, fee)
           vault == VaultOf(m)
           paid  == Moved(lamports, b, vault, cost)
<1>1. /\ l \in LaunchType /\ curveTokens[m] \in Nat /\ lamports \in Balances
      /\ Books(l, lamports[vault], curveTokens[m], supply[m])
  BY LaunchState
<1>2. config \in ConfigType /\ Validate(config)
  BY DEF CustodyInvariant, TypeOK, ConfigStaysValid
<1>3. /\ vs \in Nat /\ vt \in Nat /\ rs \in Nat /\ rt \in Nat /\ sold \in Nat
  BY <1>1, LaunchAmounts
<1>4. ~l.graduated /\ rs < Threshold
  <2>1. NearlyEmpty \in Nat /\ Threshold \in Nat /\ ~EnoughBought(l)
    BY ScriptAssumption
  <2>2. ~(rs >= Threshold) /\ ~(rt <= NearlyEmpty)
    BY <2>1 DEF EnoughBought
  <2>3. l.graduated => rt = 0
    BY <1>1 DEF Books
  <2> QED
    BY <1>3, <2>1, <2>2, <2>3
<1>5. /\ vs = DefaultVirtualSol /\ vt + sold = DefaultVirtualTokens
      /\ rt = CurveAllocation - sold /\ rt <= curveTokens[m]
  BY <1>1, <1>3, <1>4 DEF Books
<1> HIDE DEF l, vs, vt, rs, rt, sold
<1>6. /\ Threshold \in Nat /\ Threshold <= MaxRealSolReserves /\ Slack \in Nat
      /\ Threshold + Threshold \div 100 + Slack <= U64Max
      /\ U64Max \in Nat /\ CurveAllocation \in Nat /\ DefaultVirtualTokens \in Nat
      /\ MaxRealSolReserves \in Nat /\ DefaultVirtualTokens <= U64Max
      /\ vs + MaxRealSolReserves <= U64Max
      /\ Chunk \in Nat /\ Chunk < DefaultVirtualTokens - CurveAllocation
      /\ CurveAllocation <= U64Max
  BY <1>5, ScriptAssumption, AllocationAssumption, WidthsAssumption
<1>7. Chunk < vt
  BY <1>3, <1>5, <1>6
<1>8. /\ n \in Nat /\ n > 0 /\ n <= rt /\ n <= Chunk
      /\ Fits(l, n) /\ QuoteSolIn(l, n) \in Nat
  BY <1>1, <1>7, SizedChunkFits DEF vt, rt, l
<1> HIDE DEF n
<1>9. cost = QuoteSolIn(l, n) /\ cost = SolIn(vs, vt, rs, n)
  BY DEF BuyCost, QuoteSolIn, SolIn, vs, vt, rs
<1>10. cost \in Nat /\ rs + cost <= Threshold /\ cost <= Threshold
  <2>1. cost \in Nat /\ rs + cost <= Threshold
    BY <1>8, <1>9 DEF Fits, rs
  <2> HIDE DEF cost
  <2> QED
    BY <1>3, <1>6, <2>1
<1>11. limit = cost + cost \div 100 + Slack
  BY <1>9, Zenon DEF MaxSolIn
<1> HIDE DEF cost, limit
<1>12. /\ cost \div 100 \in Nat /\ cost \div 100 <= Threshold \div 100
       /\ limit \in Nat /\ limit <= U64Max
  BY <1>6, <1>10, <1>11
<1>13. fee \in Nat /\ fee <= cost \div 100
  BY <1>2, <1>10, ConfigAmounts, LimitCoversFee
<1> HIDE DEF fee
<1>14. cost + fee \in Nat /\ cost + fee <= limit
  BY <1>6, <1>10, <1>11, <1>12, <1>13
<1>15. {n, limit} \subseteq U64 /\ cost + fee \in U64 /\ cost \in U64
  BY <1>3, <1>5, <1>6, <1>8, <1>10, <1>12, <1>13, <1>14 DEF U64
<1>16. BuyQuoteOk(l, n)
  <2>1. vs + rs \in Nat /\ vs + rs < U64Max /\ vt <= U64Max /\ vt - n \in Nat
        /\ vt - n >= 1 /\ vt - n <= vt
    BY <1>3, <1>4, <1>5, <1>6, <1>7, <1>8
  <2>2. (vs + rs) * vt + (vt - n - 1) <= U128Max
    <3> DEFINE x == vs + rs
               y == vt - n
    <3>1. x \in Nat /\ y \in Nat /\ x < U64Max /\ vt <= U64Max /\ y <= vt
      BY <2>1
    <3> HIDE DEF x, y
    <3>2. x * vt + (y - 1) <= U128Max
      BY <1>3, <3>1, QuoteFitsWideType
    <3> QED
      BY <3>2 DEF x, y
  <2>3. SolInOk(vs, vt, rs, rt, n)
    BY <1>8, <1>9, <1>15, <2>1, <2>2 DEF SolInOk
  <2> QED
    BY <2>3 DEF BuyQuoteOk, vs, vt, rs, rt
<1>17. TradeSharesOk(config, fee)
  <2>1. /\ config.trade_split_creator_bps \in Nat /\ config.trade_split_dino_bps \in Nat
        /\ config.trade_split_treasury_bps \in Nat
    BY <1>2, ConfigAmounts
  <2>2. config.trade_split_creator_bps + config.trade_split_dino_bps
           + config.trade_split_treasury_bps = BpsDenominator
    BY <1>2 DEF Validate
  <2>3. config.trade_split_creator_bps + config.trade_split_dino_bps <= BpsDenominator
    BY <2>1, <2>2 DEF BpsDenominator
  <2> QED
    BY <1>13, <2>1, <2>3, SharesFit DEF TradeSharesOk
<1>18. /\ shares.creator \in Nat /\ shares.dino \in Nat /\ shares.treasury \in Nat
       /\ shares.creator + shares.dino + shares.treasury = fee
  BY <1>2, <1>13, <1>17, TradeSharesAddUp
<1> HIDE DEF shares
<1>19. b \in Accounts /\ lamports[b] \in Nat /\ limit <= lamports[b]
  BY <1>1 DEF Accounts, Balances, limit, n, l
<1>20. cost <= lamports[b] /\ cost + fee <= lamports[b]
  BY <1>10, <1>12, <1>13, <1>14, <1>19
<1>21. paid \in Balances /\ paid[b] >= lamports[b] - cost
  BY <1>1, <1>10, <1>19, <1>20, MovedIsSafe
<1> HIDE DEF paid
<1>22. shares.creator + shares.dino + shares.treasury <= paid[b]
  <2>1. paid[b] \in Nat
    BY <1>19, <1>21 DEF Balances
  <2> QED
    BY <1>10, <1>13, <1>18, <1>19, <1>20, <1>21, <2>1
<1>23. CanPayShares(paid, b, config, l.creator, shares)
  BY <1>18, <1>19, <1>21, <1>22, SharesCanBePaid
<1>24. /\ n <= curveTokens[m] /\ rs + cost <= MaxRealSolReserves /\ sold + n \in U64
  BY <1>1, <1>3, <1>5, <1>6, <1>8, <1>10 DEF U64
<1>25. CanBuy(b, m, n, limit)
  BY <1>4, <1>14, <1>15, <1>16, <1>17, <1>20, <1>23, <1>24
     DEF CanBuy, TradingOpen, Trading, BuyTotal, l, rs, sold, cost, fee, shares, paid, vault
<1> QED
  BY <1>15, <1>25 DEF limit, n, l

\* From the first read of an iteration to the sending, the amount is what the
\* loop sizes on the launch it has seen.
Sized ==
    script.pc \in {"quote", "send"} /\ script.tx.op = "buy" =>
        /\ script.seen \in LaunchType /\ Chunk < script.seen.virtual_token_reserves
        /\ ~EnoughBought(script.seen)
        /\ script.tx.amount = SizedChunk(script.seen)

LEMMA SizePurchaseSizes ==
    ASSUME DriverInvariant, SizePurchase
    PROVE  Sized'
<1> DEFINE l == launch[script.tx.mint]
           signer == Buyers[(script.iter % Len(Buyers)) + 1]
           amount == SizedChunk(l)
<1>1. ScriptShape /\ script.pc = "iterate" /\ script.tx.mint \in Mints /\ CustodyInvariant
  BY DEF DriverInvariant, ScriptInv, SizePurchase, Running
<1>2. /\ script' = [script EXCEPT !.pc = "quote", !.iter = @ + 1, !.seen = l,
                                  !.tx.signer = signer, !.tx.amount = amount]
      /\ ~EnoughBought(l) /\ Launched(script.tx.mint)
  BY DEF SizePurchase, Continue
<1>3. l \in LaunchType /\ Chunk < l.virtual_token_reserves
  <2>1. l \in LaunchType /\ l.virtual_token_reserves >= DefaultVirtualTokens - CurveAllocation
    BY <1>1, <1>2, LaunchState DEF DriverInvariant, NeverOversold
  <2>2. /\ l.virtual_token_reserves \in Nat /\ Chunk \in Nat
        /\ DefaultVirtualTokens \in Nat /\ CurveAllocation \in Nat
        /\ Chunk < DefaultVirtualTokens - CurveAllocation
    BY <2>1, ScriptAssumption, AllocationAssumption, LaunchAmounts
  <2> HIDE DEF l
  <2> QED
    BY <2>1, <2>2
<1> HIDE DEF l, signer
<1>4. amount = SizedChunk(l)
  OBVIOUS
<1> HIDE DEF amount
<1>5. script'.seen = l /\ script'.tx = [script.tx EXCEPT !.signer = signer, !.amount = amount]
  BY <1>1, <1>2 DEF ScriptShape
<1>6. script'.tx.amount = amount
  BY <1>1, <1>5 DEF ScriptShape
<1> QED
  BY <1>2, <1>3, <1>4, <1>5, <1>6 DEF Sized

LEMMA QuotePurchaseKeepsSized ==
    ASSUME DriverInvariant, Sized, QuotePurchase
    PROVE  Sized'
<1> DEFINE limit == MaxSolIn(launch[script.tx.mint], script.tx.amount)
<1>1. ScriptShape /\ script.pc = "quote"
  BY DEF DriverInvariant, ScriptInv, QuotePurchase, Running
<1>2. script' = [script EXCEPT !.pc = "send", !.tx.limit = limit]
  BY DEF QuotePurchase, Continue
<1> HIDE DEF limit
<1>3. script'.seen = script.seen /\ script'.tx = [script.tx EXCEPT !.limit = limit]
  BY <1>1, <1>2 DEF ScriptShape
<1>4. script'.tx.amount = script.tx.amount /\ script'.tx.op = script.tx.op
  BY <1>1, <1>3 DEF ScriptShape
<1> QED
  BY <1>1, <1>3, <1>4 DEF Sized

\* A script that starts has a purchase neither sized nor to be sent.
LEMMA StartKeepsSized ==
    ASSUME StartAny
    PROVE  Sized'
<1>1. ASSUME NEW pc, NEW tx, NEW state, Start(pc, tx, state)
      PROVE  script'.pc = pc /\ script'.tx = tx
  BY <1>1 DEF Start, Idle
<1>2. ASSUME NEW op, NEW m PROVE Tx(op, m).op = op
  BY DEF Tx
<1>3. CASE StartInitConfig
  BY <1>1, <1>2, <1>3 DEF StartInitConfig, Sized
<1>4. CASE StartUnpause
  BY <1>1, <1>2, <1>4 DEF StartUnpause, Sized
<1>5. CASE StartCreateToken
  BY <1>1, <1>2, <1>5 DEF StartCreateToken, Sized
<1>6. CASE StartBuy
  BY <1>1, <1>6 DEF StartBuy, Sized
<1>7. CASE StartGraduate
  BY <1>1, <1>2, <1>7 DEF StartGraduate, Sized
<1>8. CASE StartSeal
  <2> DEFINE lb == CHOOSE lb \in NewPools : TRUE
             tx == [Tx("seal_graduation", file.mint) EXCEPT !.lb_pair = lb]
  <2>1. Start("send", tx, file)
    BY <1>8 DEF StartSeal
  <2> HIDE DEF lb
  <2>2. tx.op = "seal_graduation"
    BY DEF Tx
  <2> HIDE DEF tx
  <2> QED
    BY <1>1, <2>1, <2>2 DEF Sized
<1> QED
  BY <1>3, <1>4, <1>5, <1>6, <1>7, <1>8 DEF StartAny, StartInitConfig, StartUnpause,
     StartCreateToken, StartBuy, StartGraduate, StartSeal

LEMMA NextKeepsSized ==
    DriverInvariant /\ Sized /\ [DriverNext]_driverVars => Sized'
<1> SUFFICES ASSUME DriverInvariant, Sized, [DriverNext]_driverVars PROVE Sized'
  OBVIOUS
<1>1. ScriptShape
  BY DEF DriverInvariant, ScriptInv
<1>2. ASSUME UNCHANGED script PROVE Sized'
  BY <1>2 DEF Sized
<1>3. ASSUME script'.pc \notin {"quote", "send"} PROVE Sized'
  BY <1>3 DEF Sized
<1>4. ASSUME NEW pc, script' = [script EXCEPT !.pc = pc] PROVE script'.pc = pc
  BY <1>1, <1>4 DEF ScriptShape
<1>5. Idle.pc = "idle"
  BY DEF Idle
<1>6. CASE StopBuying
  BY <1>3, <1>4, <1>6 DEF StopBuying, Continue
<1>7. CASE Send
  BY <1>3, <1>4, <1>7 DEF Send, Continue
<1>8. CASE Refused \/ TimeOut \/ Fill \/ Crash
  BY <1>3, <1>5, <1>8 DEF Refused, TimeOut, Fill, Crash, Continue
<1>9. CASE Land \/ FailOnChain
  <2>1. script' = Confirmed
    BY <1>9 DEF Land, FailOnChain, Continue
  <2>2. Confirmed \in {Idle, [script EXCEPT !.pc = "check"], [script EXCEPT !.pc = "iterate"],
                       [script EXCEPT !.pc = "save"]}
    BY Zenon DEF Confirmed
  <2> QED
    BY <1>3, <1>4, <1>5, <2>1, <2>2
<1>10. CASE Check
  BY <1>3, <1>4, <1>5, <1>10, Zenon DEF Check, Continue
<1>11. CASE Truncate
  BY <1>3, <1>4, <1>11 DEF Truncate
<1>12. CASE LateLands \/ LateLost \/ Others \/ UNCHANGED driverVars
  BY <1>2, <1>12 DEF LateLands, LateLost, Others, driverVars
<1> QED
  BY <1>6, <1>7, <1>8, <1>9, <1>10, <1>11, <1>12, SizePurchaseSizes,
     QuotePurchaseKeepsSized, StartKeepsSized DEF DriverNext, Proceed

\* Sized is an invariant of the scripts.
LEMMA SizedHolds == DriverSpec => []Sized
<1>1. DriverInit => Sized
  BY DEF DriverInit, Idle, Sized
<1> QED
  BY <1>1, NextKeepsSized, DriverHolds, PTL DEF DriverSpec

\* The purchase that 03 sends passes every check of buy, as long as nobody traded
\* since it read: neither its search nor its limit is ever the reason it fails.
THEOREM UndisturbedPurchasesFit == DriverSpec => []UndisturbedPurchaseFits
<1>2. DriverInvariant /\ Sized => UndisturbedPurchaseFits
  <2> SUFFICES ASSUME DriverInvariant, Sized, script.pc = "send", script.tx.op = "buy",
                      Initialized, ~config.paused, config.trade_fee_bps <= 100,
                      launch[script.tx.mint] = script.seen,
                      script.tx.limit = MaxSolIn(script.seen, script.tx.amount),
                      ProbeFits(script.seen),
                      script.tx.limit <= lamports[script.tx.signer]
               PROVE  /\ {script.tx.amount, script.tx.limit} \subseteq U64
                      /\ CanBuy(script.tx.signer, script.tx.mint, script.tx.amount,
                                script.tx.limit)
    BY DEF UndisturbedPurchaseFits
  <2> DEFINE m == script.tx.mint
             b == script.tx.signer
  <2>1. m \in Mints /\ b \in Wallets /\ CustodyInvariant
    BY DEF DriverInvariant, ScriptInv, Sendable
  <2>2. /\ launch[m] \in LaunchType /\ ~EnoughBought(launch[m]) /\ ProbeFits(launch[m])
        /\ script.tx.amount = SizedChunk(launch[m])
        /\ script.tx.limit = MaxSolIn(launch[m], SizedChunk(launch[m]))
    BY DEF Sized
  <2>3. Launched(m)
    BY <2>2, AccountsAssumption
  <2> QED
    BY <2>1, <2>2, <2>3, SizedPurchasePasses
<1> QED
  BY <1>2, SizedHolds, DriverHolds, PTL

-----------------------------------------------------------------------------
(* Types. *)

ScriptTyped ==
    /\ script.pc \in {"idle", "iterate", "quote", "send", "sent", "check", "save", "fill"}
    /\ IF script.pc = "idle" THEN script = Idle ELSE script.tx.op # "none"
    /\ script.state \in StateFile
    /\ script.iter \in 0 .. MaxIterations
    /\ script.tx.amount \in U64 /\ script.tx.limit \in Nat
    /\ script.tx.lb_pair \in LbPairs \cup {DefaultKey}

RestTyped ==
    /\ file \in StateFile \cup {NoFile}
    /\ \A t \in late : t.op # "none"
    /\ crashed \in 0 .. MaxCrashes /\ disturbed \in 0 .. MaxDisturbances

LEMMA IdleTyped ==
    /\ Idle.pc = "idle" /\ Idle.iter = 0 /\ Idle.state \in StateFile
    /\ Idle.tx.amount \in U64 /\ Idle.tx.limit \in Nat /\ Idle.tx.lb_pair = DefaultKey
BY WidthsAssumption DEF Idle, Tx, Empty, StateFile, U64

LEMMA AtRestTyped ==
    ASSUME script' = Idle
    PROVE  ScriptTyped'
BY IdleTyped, ScriptAssumption DEF ScriptTyped

LEMMA StartTyped ==
    ASSUME ScriptTyped, RestTyped, DriverInvariant, StartAny
    PROVE  ScriptTyped'
<1>1. ASSUME NEW pc \in {"send", "iterate"}, NEW tx, NEW state, Start(pc, tx, state),
             tx.op # "none", tx.amount = 0, tx.limit = 0,
             tx.lb_pair \in LbPairs \cup {DefaultKey}, state \in StateFile
      PROVE  ScriptTyped'
  <2>1. script'.pc = pc /\ script'.tx = tx /\ script'.state = state /\ script'.iter = 0
    BY <1>1 DEF Start, Idle
  <2>2. 0 \in U64 /\ 0 \in 0 .. MaxIterations
    BY WidthsAssumption, ScriptAssumption DEF U64
  <2> QED
    BY <1>1, <2>1, <2>2 DEF ScriptTyped
<1>2. Empty \in StateFile /\ (file # NoFile => file \in StateFile) /\ (HasMint => file # NoFile)
  BY DEF Empty, StateFile, RestTyped, HasMint
<1>3. ASSUME NEW op, NEW m
      PROVE  /\ Tx(op, m).op = op /\ Tx(op, m).amount = 0 /\ Tx(op, m).limit = 0
             /\ Tx(op, m).lb_pair = DefaultKey
  BY DEF Tx
<1>4. CASE StartInitConfig
  BY <1>1, <1>2, <1>3, <1>4 DEF StartInitConfig
<1>5. CASE StartUnpause
  BY <1>1, <1>2, <1>3, <1>5 DEF StartUnpause
<1>6. CASE StartCreateToken
  BY <1>1, <1>2, <1>3, <1>6 DEF StartCreateToken
<1>7. CASE StartBuy
  BY <1>1, <1>2, <1>3, <1>7 DEF StartBuy
<1>8. CASE StartGraduate
  BY <1>1, <1>2, <1>3, <1>8 DEF StartGraduate
<1>9. CASE StartSeal
  <2> DEFINE lb == CHOOSE lb \in NewPools : TRUE
             tx == [Tx("seal_graduation", file.mint) EXCEPT !.lb_pair = lb]
  <2>1. lb \in LbPairs
    BY <1>9 DEF StartSeal, NewPools
  <2>2. Start("send", tx, file) /\ HasMint
    BY <1>9 DEF StartSeal
  <2> HIDE DEF lb
  <2>3. tx.op = "seal_graduation" /\ tx.lb_pair = lb /\ tx.amount = 0 /\ tx.limit = 0
    BY DEF Tx
  <2> HIDE DEF tx
  <2> QED
    BY <1>1, <1>2, <2>1, <2>2, <2>3
<1> QED
  BY <1>4, <1>5, <1>6, <1>7, <1>8, <1>9 DEF StartAny, StartInitConfig, StartUnpause,
     StartCreateToken, StartBuy, StartGraduate, StartSeal

LEMMA SizePurchaseTyped ==
    ASSUME ScriptTyped, DriverInvariant, SizePurchase
    PROVE  ScriptTyped'
<1> DEFINE l == launch[script.tx.mint]
           signer == Buyers[(script.iter % Len(Buyers)) + 1]
           amount == SizedChunk(l)
<1>1. /\ ScriptShape /\ script.pc = "iterate" /\ script.tx.op # "none"
      /\ script.iter < MaxIterations
  BY DEF DriverInvariant, ScriptInv, ScriptTyped, SizePurchase, Running
<1>2. script' = [script EXCEPT !.pc = "quote", !.iter = @ + 1, !.seen = l,
                               !.tx.signer = signer, !.tx.amount = amount]
  BY DEF SizePurchase, Continue
<1>3. script'.seen \in LaunchType /\ Chunk < script'.seen.virtual_token_reserves
      /\ script'.tx.amount = SizedChunk(script'.seen)
  <2>1. script'.pc = "quote" /\ script'.tx.op = script.tx.op /\ script.tx.op = "buy"
    <3> HIDE DEF signer, amount, l
    <3>1. script'.tx = [script.tx EXCEPT !.signer = signer, !.amount = amount]
          /\ script'.pc = "quote"
      BY <1>1, <1>2 DEF ScriptShape
    <3> QED
      BY <1>1, <3>1 DEF ScriptShape, DriverInvariant, ScriptInv
  <2> QED
    BY <2>1, SizePurchaseSizes DEF Sized
<1>4. script'.tx.amount \in U64
  BY <1>3, SizedChunkBounds
<1> HIDE DEF l, signer, amount
<1>5. /\ script'.pc = "quote" /\ script'.state = script.state /\ script'.iter = script.iter + 1
      /\ script'.tx = [script.tx EXCEPT !.signer = signer, !.amount = amount]
  BY <1>1, <1>2 DEF ScriptShape
<1>6. /\ script'.tx.op = script.tx.op /\ script'.tx.limit = script.tx.limit
      /\ script'.tx.lb_pair = script.tx.lb_pair
  BY <1>1, <1>5 DEF ScriptShape
<1>7. script'.iter \in 0 .. MaxIterations
  <2>1. MaxIterations \in Nat /\ script.iter \in 0 .. MaxIterations
    BY ScriptAssumption DEF ScriptTyped
  <2>2. script.iter + 1 \in 0 .. MaxIterations
    BY <1>1, <2>1
  <2> QED
    BY <1>5, <2>2
<1> QED
  BY <1>1, <1>4, <1>5, <1>6, <1>7 DEF ScriptTyped

LEMMA QuotePurchaseTyped ==
    ASSUME ScriptTyped, DriverInvariant, Sized, QuotePurchase
    PROVE  ScriptTyped'
<1> DEFINE l == launch[script.tx.mint]
           limit == MaxSolIn(l, script.tx.amount)
<1>1. /\ ScriptShape /\ script.pc = "quote" /\ script.tx.op = "buy"
      /\ script.tx.mint \in Mints /\ Launched(script.tx.mint)
  BY DEF DriverInvariant, ScriptInv, QuotePurchase, Running
<1>2. script' = [script EXCEPT !.pc = "send", !.tx.limit = limit]
  BY DEF QuotePurchase, Continue
<1>3. script.tx.amount \in U64 /\ script.tx.amount <= Chunk
  BY <1>1, SizedChunkBounds DEF Sized
<1>4. l \in LaunchType /\ l.virtual_token_reserves >= DefaultVirtualTokens - CurveAllocation
  BY <1>1, LaunchState DEF DriverInvariant, NeverOversold
<1> HIDE DEF l
<1>5. script.tx.amount \in Nat /\ script.tx.amount < l.virtual_token_reserves
  <2>1. l.virtual_token_reserves \in Nat
    BY <1>4, LaunchAmounts
  <2>2. /\ Chunk \in Nat /\ DefaultVirtualTokens \in Nat /\ CurveAllocation \in Nat
        /\ Chunk < DefaultVirtualTokens - CurveAllocation
    BY ScriptAssumption, AllocationAssumption
  <2>3. script.tx.amount \in Nat
    BY <1>3, WidthsAssumption DEF U64
  <2> QED
    BY <1>3, <1>4, <2>1, <2>2, <2>3
<1>6. limit \in Nat
  BY <1>4, <1>5, LimitIsTyped
<1> HIDE DEF limit
<1>7. /\ script'.pc = "send" /\ script'.state = script.state /\ script'.iter = script.iter
      /\ script'.tx = [script.tx EXCEPT !.limit = limit]
  BY <1>1, <1>2 DEF ScriptShape
<1>8. /\ script'.tx.op = script.tx.op /\ script'.tx.limit = limit
      /\ script'.tx.amount = script.tx.amount /\ script'.tx.lb_pair = script.tx.lb_pair
  BY <1>1, <1>7 DEF ScriptShape
<1> QED
  BY <1>1, <1>6, <1>7, <1>8 DEF ScriptTyped

\* What is saved is a state.json.
LEMMA SavedTyped ==
    ASSUME ScriptTyped, DriverInvariant, Running("fill")
    PROVE  Saved \in StateFile
<1>1. script.state \in StateFile /\ script.tx.lb_pair \in LbPairs \cup {DefaultKey}
  BY DEF ScriptTyped
<1>2. script.tx.op = "create_token" => script.tx.mint \in Mints
  BY DEF Running, DriverInvariant, ScriptInv
<1>3. \/ /\ script.tx.op = "create_token"
         /\ Saved = [script.state EXCEPT !.mint = script.tx.mint]
      \/ Saved = [script.state EXCEPT !.lb_pair = script.tx.lb_pair]
      \/ Saved = script.state
  BY Zenon DEF Saved
<1> QED
  BY <1>1, <1>2, <1>3 DEF StateFile

LEMMA NextTyped ==
    DriverInvariant /\ Sized /\ ScriptTyped /\ RestTyped /\ [DriverNext]_driverVars
        => ScriptTyped' /\ RestTyped'
<1> SUFFICES ASSUME DriverInvariant, Sized, ScriptTyped, RestTyped, [DriverNext]_driverVars
             PROVE  ScriptTyped' /\ RestTyped'
  OBVIOUS
<1>1. ScriptShape
  BY DEF DriverInvariant, ScriptInv
<1>2. ASSUME UNCHANGED script PROVE ScriptTyped'
  BY <1>2 DEF ScriptTyped
<1>3. ASSUME UNCHANGED <<file, late, crashed, disturbed>> PROVE RestTyped'
  BY <1>3 DEF RestTyped
<1>4. ASSUME NEW pc \in {"iterate", "sent", "check", "save", "fill"}, script.pc # "idle",
             script' = [script EXCEPT !.pc = pc]
      PROVE  ScriptTyped'
  <2>1. script'.pc = pc /\ script'.tx = script.tx /\ script'.state = script.state
        /\ script'.iter = script.iter
    BY <1>1, <1>4 DEF ScriptShape
  <2> QED
    BY <1>4, <2>1 DEF ScriptTyped
<1>5. CASE StartAny
  BY <1>3, <1>5, StartTyped DEF StartAny, Start, StartInitConfig, StartUnpause,
     StartCreateToken, StartBuy, StartGraduate, StartSeal
<1>6. CASE StopBuying \/ Send
  BY <1>3, <1>4, <1>6 DEF StopBuying, Send, Continue, Running
<1>7. CASE SizePurchase
  BY <1>3, <1>7, SizePurchaseTyped DEF SizePurchase, Continue
<1>8. CASE QuotePurchase
  BY <1>3, <1>8, QuotePurchaseTyped DEF QuotePurchase, Continue
<1>9. CASE Refused
  BY <1>3, <1>9, AtRestTyped DEF Refused, Continue
<1>10. CASE Land \/ FailOnChain
  <2>1. script' = Confirmed /\ script.pc = "sent" /\ UNCHANGED <<file, late, crashed, disturbed>>
    BY <1>10 DEF Land, FailOnChain, Continue, Running
  <2>2. Confirmed \in {Idle, [script EXCEPT !.pc = "check"], [script EXCEPT !.pc = "iterate"],
                       [script EXCEPT !.pc = "save"]}
    BY Zenon DEF Confirmed
  <2> QED
    BY <1>3, <1>4, <2>1, <2>2, AtRestTyped
<1>11. CASE TimeOut
  <2>1. /\ script' = Idle /\ UNCHANGED <<file, crashed, disturbed>> /\ script.pc = "sent"
        /\ late' \subseteq late \cup {script.tx}
    BY <1>11 DEF TimeOut, Running
  <2>2. RestTyped'
    BY <2>1 DEF RestTyped, ScriptTyped
  <2> QED
    BY <2>1, <2>2, AtRestTyped
<1>12. CASE Check
  <2>1. script.pc = "check" /\ UNCHANGED <<file, late, crashed, disturbed>>
        /\ (script' = [script EXCEPT !.pc = "save"] \/ script' = Idle)
    BY <1>12, Zenon DEF Check, Continue, Running
  <2> QED
    BY <1>3, <1>4, <2>1, AtRestTyped
<1>13. CASE Truncate
  <2>1. script.pc = "save" /\ script' = [script EXCEPT !.pc = "fill"] /\ file' = NoFile
        /\ UNCHANGED <<late, crashed, disturbed>>
    BY <1>13 DEF Truncate, Running
  <2>2. RestTyped'
    BY <2>1 DEF RestTyped
  <2> QED
    BY <1>4, <2>1, <2>2
<1>14. CASE Fill
  <2>1. script' = Idle /\ file' \in StateFile /\ UNCHANGED <<late, crashed, disturbed>>
    BY <1>14, SavedTyped DEF Fill
  <2>2. RestTyped'
    BY <2>1 DEF RestTyped
  <2> QED
    BY <2>1, <2>2, AtRestTyped
<1>15. CASE LateLands \/ LateLost
  <2>1. late' \subseteq late /\ UNCHANGED <<script, file, crashed, disturbed>>
    BY <1>15 DEF LateLands, LateLost
  <2>2. RestTyped'
    BY <2>1 DEF RestTyped
  <2> QED
    BY <1>2, <2>1, <2>2
<1>16. CASE Crash
  <2>1. /\ script' = Idle /\ UNCHANGED <<file, late, disturbed>>
        /\ crashed < MaxCrashes /\ crashed' = crashed + 1
    BY <1>16 DEF Crash
  <2>2. RestTyped'
    BY <2>1, ScriptAssumption DEF RestTyped
  <2> QED
    BY <2>1, <2>2, AtRestTyped
<1>17. CASE Others
  <2>1. /\ UNCHANGED <<script, file, late, crashed>>
        /\ disturbed < MaxDisturbances /\ disturbed' = disturbed + 1
    BY <1>17 DEF Others
  <2>2. RestTyped'
    BY <2>1, ScriptAssumption DEF RestTyped
  <2> QED
    BY <1>2, <2>1, <2>2
<1>18. CASE UNCHANGED driverVars
  BY <1>2, <1>3, <1>18 DEF driverVars
<1> QED
  BY <1>5, <1>6, <1>7, <1>8, <1>9, <1>10, <1>11, <1>12, <1>13, <1>14, <1>15, <1>16, <1>17,
     <1>18 DEF DriverNext, Proceed

\* The scripts' state is well formed: no quote throws, whatever has been traded
\* and graduated between two reads, and what is saved can be read again.
THEOREM DriverIsTyped == DriverSpec => []DriverTypeOK
<1>1. DriverInit => ScriptTyped /\ RestTyped
  BY AtRestTyped, IdleTyped, ScriptAssumption DEF DriverInit, ScriptTyped, RestTyped
<1>2. ScriptTyped /\ RestTyped => DriverTypeOK
  BY DEF ScriptTyped, RestTyped, DriverTypeOK
<1> QED
  BY <1>1, <1>2, NextTyped, SizedHolds, DriverHolds, PTL DEF DriverSpec
=============================================================================
