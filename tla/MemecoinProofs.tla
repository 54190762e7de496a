--------------------------- MODULE MemecoinProofs ---------------------------
(***************************************************************************)
(* Invariants of Memecoin for every set of wallets and mints, every        *)
(* allocation and every sequence of instructions and stray transfers.      *)
(***************************************************************************)
EXTENDS MemecoinProperties, CurveProofs

USE DEF Initialized, Launched

Balances == [Accounts -> Nat]

-----------------------------------------------------------------------------
(* Transfers. *)

\* A transfer the payer can afford leaves every balance a natural number, takes
\* at most n from the payer and nothing from anyone else, and arrives.
LEMMA MovedIsSafe ==
    ASSUME NEW bal \in Balances, NEW from \in Accounts, NEW to, NEW n \in Nat, n <= bal[from]
    PROVE  /\ Moved(bal, from, to, n) \in Balances
           /\ Moved(bal, from, to, n)[from] >= bal[from] - n
           /\ \A a \in Accounts \ {from} : Moved(bal, from, to, n)[a] >= bal[a]
           /\ to \in Accounts \ {from} => Moved(bal, from, to, n)[to] = bal[to] + n
<1>1. DOMAIN bal = Accounts /\ \A a \in Accounts : bal[a] \in Nat
  BY DEF Balances
<1>2. \A a \in Accounts :
         Moved(bal, from, to, n)[a] = bal[a] - (IF a = from THEN n ELSE 0)
                                             + (IF a = to THEN n ELSE 0)
  BY <1>1 DEF Moved
<1>3. \A a \in Accounts : Moved(bal, from, to, n)[a] \in Nat
  BY <1>1, <1>2
<1>4. Moved(bal, from, to, n) = [a \in Accounts |-> Moved(bal, from, to, n)[a]]
  BY <1>1 DEF Moved
<1> QED
  BY <1>1, <1>2, <1>3, <1>4 DEF Balances

\* The same for the two shares of the platform, paid in turn.
LEMMA PlatformPaymentIsSafe ==
    ASSUME NEW bal \in Balances, NEW from \in Accounts, NEW c,
           NEW s, s.dino \in Nat, s.treasury \in Nat, CanPayPlatform(bal, from, c, s)
    PROVE  LET paid == PaidToPlatform(bal, from, c, s)
           IN  /\ paid \in Balances
               /\ paid[from] >= bal[from] - s.dino - s.treasury
               /\ \A a \in Accounts \ {from} : paid[a] >= bal[a]
<1> DEFINE one == Moved(bal, from, c.dino_buyback_wallet, s.dino)
           two == Moved(one, from, c.treasury_wallet, s.treasury)
<1>1. s.dino <= bal[from] /\ s.treasury <= one[from]
  BY DEF CanPayPlatform
<1>2. /\ one \in Balances /\ one[from] >= bal[from] - s.dino
      /\ \A a \in Accounts \ {from} : one[a] >= bal[a]
  BY <1>1, MovedIsSafe
<1>3. PaidToPlatform(bal, from, c, s) = two
  BY DEF PaidToPlatform
<1> HIDE DEF one
<1>4. /\ two \in Balances /\ two[from] >= one[from] - s.treasury
      /\ \A a \in Accounts \ {from} : two[a] >= one[a]
  BY <1>1, <1>2, MovedIsSafe
<1> HIDE DEF two
<1>5. \A a \in Accounts : bal[a] \in Nat /\ one[a] \in Nat /\ two[a] \in Nat
  BY <1>2, <1>4 DEF Balances
<1> QED
  BY <1>2, <1>3, <1>4, <1>5

\* And for the three shares of a trade fee.
LEMMA SharesPaymentIsSafe ==
    ASSUME NEW bal \in Balances, NEW from \in Accounts, NEW c, NEW creator,
           NEW s, s.creator \in Nat, s.dino \in Nat, s.treasury \in Nat,
           CanPayShares(bal, from, c, creator, s)
    PROVE  LET paid == PaidShares(bal, from, c, creator, s)
           IN  /\ paid \in Balances
               /\ paid[from] >= bal[from] - s.creator - s.dino - s.treasury
               /\ \A a \in Accounts \ {from} : paid[a] >= bal[a]
<1> DEFINE one == Moved(bal, from, creator, s.creator)
           two == PaidToPlatform(one, from, c, s)
<1>1. s.creator <= bal[from] /\ CanPayPlatform(one, from, c, s)
  BY DEF CanPayShares
<1>2. /\ one \in Balances /\ one[from] >= bal[from] - s.creator
      /\ \A a \in Accounts \ {from} : one[a] >= bal[a]
  BY <1>1, MovedIsSafe
<1>3. PaidShares(bal, from, c, creator, s) = two
  BY DEF PaidShares
<1> HIDE DEF one
<1>4. /\ two \in Balances /\ two[from] >= one[from] - s.dino - s.treasury
      /\ \A a \in Accounts \ {from} : two[a] >= one[a]
  BY <1>1, <1>2, PlatformPaymentIsSafe
<1> HIDE DEF two
<1>5. \A a \in Accounts : bal[a] \in Nat /\ one[a] \in Nat /\ two[a] \in Nat
  BY <1>2, <1>4 DEF Balances
<1> QED
  BY <1>2, <1>3, <1>4, <1>5

-----------------------------------------------------------------------------
(* Fees. *)

\* A rate of an amount is a natural number, and at most a tenth of the amount
\* when the rate is at most 1000 basis points.
LEMMA FeeBounds ==
    ASSUME NEW amount \in Nat, NEW bps \in Nat
    PROVE  /\ BpsOf(amount, bps) \in Nat
           /\ bps <= BpsDenominator => BpsOf(amount, bps) <= amount
<1> DEFINE p == amount * bps
<1>1. p \in Nat
  OBVIOUS
<1>2. bps <= 10000 => p <= amount * 10000
  BY SMT
<1> HIDE DEF p
<1>3. p \div 10000 \in Nat /\ (p \div 10000) * 10000 <= p
  BY <1>1, FloorDivision
<1> QED
  BY <1>1, <1>2, <1>3 DEF p, BpsOf, BpsDenominator

\* What the declared widths make of a value.
LEMMA WidthsAreNat ==
    /\ \A x \in U16 : x \in Nat
    /\ \A x \in U64 : x \in Nat /\ x <= U64Max
    /\ \A x \in Nat : x <= U64Max => x \in U64
BY WidthsAssumption DEF U16, U64

\* The amounts and rates of an account are natural numbers.
LEMMA ConfigAmounts ==
    ASSUME NEW c \in ConfigType
    PROVE  /\ c.trade_fee_bps \in Nat /\ c.trade_split_creator_bps \in Nat
           /\ c.trade_split_dino_bps \in Nat /\ c.trade_split_treasury_bps \in Nat
           /\ c.creation_split_dino_bps \in Nat /\ c.graduation_split_dino_bps \in Nat
           /\ c.creation_fee_lamports \in Nat /\ c.graduation_fee_lamports \in Nat
           /\ c.graduation_threshold_lamports \in Nat
BY WidthsAreNat DEF ConfigType

\* The amounts of a launch are naturals.
LEMMA LaunchAmounts ==
    ASSUME NEW l \in LaunchType
    PROVE  /\ l.real_sol_reserves \in Nat /\ l.real_token_reserves \in Nat
           /\ l.virtual_sol_reserves \in Nat /\ l.virtual_token_reserves \in Nat
           /\ l.tokens_sold \in Nat /\ l.graduated \in BOOLEAN
           /\ l.graduation_sol_lamports \in Nat /\ l.graduation_token_amount \in Nat
BY WidthsAreNat DEF LaunchType

\* Both splits are exact: nothing of the fee is lost or invented.
LEMMA TradeSharesAddUp ==
    ASSUME NEW c \in ConfigType, NEW fee \in Nat, TradeSharesOk(c, fee)
    PROVE  LET s == TradeShares(c, fee)
           IN  /\ s.creator \in Nat /\ s.dino \in Nat /\ s.treasury \in Nat
               /\ s.creator + s.dino + s.treasury = fee
<1>1. /\ BpsOf(fee, c.trade_split_creator_bps) \in Nat
      /\ BpsOf(fee, c.trade_split_dino_bps) \in Nat
  BY ConfigAmounts, FeeBounds
<1> QED
  BY <1>1 DEF TradeShares, TradeSharesOk, SplitThreeWay, SplitThreeWayOk

\* Two shares add up to the fee.
LEMMA TwoSharesAddUp ==
    ASSUME NEW fee \in Nat, NEW bps \in Nat, SplitTwoWayOk(fee, bps)
    PROVE  LET s == SplitTwoWay(fee, bps)
           IN  /\ s.dino \in Nat /\ s.treasury \in Nat
               /\ s.dino + s.treasury = fee
<1>1. BpsOf(fee, bps) \in Nat /\ BpsOf(fee, bps) <= fee
  BY FeeBounds DEF SplitTwoWayOk
<1> QED
  BY <1>1 DEF SplitTwoWay

-----------------------------------------------------------------------------
(* The invariant, one launch at a time. *)

\* What CustodyInvariant says of one launch l, given the lamports of its vault,
\* the tokens the curve holds and the supply of the mint.
Books(l, vault, held, minted) ==
    /\ l.real_sol_reserves <= vault
    /\ l.real_sol_reserves <= MaxRealSolReserves
    /\ l.virtual_sol_reserves = DefaultVirtualSol
    /\ l.virtual_token_reserves + l.tokens_sold = DefaultVirtualTokens
    /\ l.real_token_reserves = IF l.graduated THEN 0 ELSE CurveAllocation - l.tokens_sold
    /\ l.real_token_reserves <= held
    /\ minted - held \in 0 .. l.tokens_sold + l.graduation_token_amount
    /\ minted <= CurveAllocation + l.graduation_token_amount
    /\ l.graduation_token_amount = IF l.graduated THEN GraduationReserve ELSE 0

AllBooks == \A m \in Mints : Launched(m) =>
    Books(launch[m], lamports[VaultOf(m)], curveTokens[m], supply[m])

\* The invariant, launch by launch.
LEMMA InvariantByLaunch ==
    CustodyInvariant <=> TypeOK /\ ConfigStaysValid /\ NothingBeforeLaunch /\ AllBooks
BY DEF CustodyInvariant, VaultSolvent, TokenLedger, AllBooks, Books, Circulating

\* The same of the next state.
LEMMA InvariantByLaunchNext ==
    CustodyInvariant' <=> TypeOK' /\ ConfigStaysValid' /\ NothingBeforeLaunch' /\ AllBooks'
BY DEF CustodyInvariant, VaultSolvent, TokenLedger, AllBooks, Books, Circulating

\* The vaults of two mints are two accounts.
LEMMA VaultsDiffer ==
    ASSUME NEW m \in Mints
    PROVE  /\ VaultOf(m) \in Accounts
           /\ \A o \in Mints \ {m} : VaultOf(o) \in Accounts \ {VaultOf(m)}
           /\ \A w \in Wallets : w \in Accounts /\ w # VaultOf(m)
BY AccountsAssumption DEF VaultOf, Vaults, Accounts

\* A step that only touches the launch of m keeps the books of all others, as
\* long as it takes no lamports out of their vaults.
LEMMA OtherBooksKept ==
    ASSUME CustodyInvariant, NEW m \in Mints, TypeOK',
           \A o \in Mints \ {m} :
              /\ launch'[o] = launch[o]
              /\ curveTokens'[o] = curveTokens[o] /\ supply'[o] = supply[o]
              /\ lamports'[VaultOf(o)] >= lamports[VaultOf(o)],
           launch'[m] # NoLaunch,
           Books(launch'[m], lamports'[VaultOf(m)], curveTokens'[m], supply'[m])
    PROVE  NothingBeforeLaunch' /\ AllBooks'
<1>1. NothingBeforeLaunch'
  BY DEF CustodyInvariant, NothingBeforeLaunch
<1>2. AllBooks'
  <2>1. SUFFICES ASSUME NEW o \in Mints, launch'[o] # NoLaunch
                 PROVE  Books(launch'[o], lamports'[VaultOf(o)], curveTokens'[o], supply'[o])
    BY DEF AllBooks
  <2>2. CASE o = m
    BY <2>2
  <2>3. CASE o # m
    <3>1. /\ launch'[o] = launch[o] /\ launch[o] \in LaunchType
          /\ curveTokens'[o] = curveTokens[o] /\ supply'[o] = supply[o]
          /\ lamports'[VaultOf(o)] >= lamports[VaultOf(o)]
      BY <2>1, <2>3 DEF CustodyInvariant, TypeOK
    <3>2. Books(launch[o], lamports[VaultOf(o)], curveTokens[o], supply[o])
      BY <2>1, <3>1, InvariantByLaunch DEF AllBooks
    <3>3. /\ lamports[VaultOf(o)] \in Nat /\ lamports'[VaultOf(o)] \in Nat
          /\ launch[o].real_sol_reserves \in Nat
      BY <3>1, VaultsDiffer DEF CustodyInvariant, TypeOK, LaunchType, U64
    <3> QED
      BY <3>1, <3>2, <3>3 DEF Books
  <2> QED
    BY <2>2, <2>3
<1> QED
  BY <1>1, <1>2

-----------------------------------------------------------------------------
(* The start, and the admin's instructions. *)

\* Nothing is deployed at the start: no configuration, no launch, no token.
LEMMA InvariantAtStart == Init => CustodyInvariant
<1> SUFFICES ASSUME Init PROVE CustodyInvariant
  OBVIOUS
<1>1. lamports \in [Accounts -> Nat]
  BY InputsAssumption DEF Init
<1>2. TypeOK
  BY <1>1, WidthsAssumption DEF Init, TypeOK, U64
<1>3. ConfigStaysValid /\ NothingBeforeLaunch /\ AllBooks
  BY DEF Init, ConfigStaysValid, NothingBeforeLaunch, AllBooks
<1> QED
  BY <1>2, <1>3, InvariantByLaunch

\* A step that stores a valid configuration and touches nothing else.
LEMMA ValidConfigKeepsInvariant ==
    ASSUME CustodyInvariant, UNCHANGED <<launch, lamports, curveTokens, supply>>,
           config' \in ConfigType, Validate(config'),
           \A f \in WalletFields : config'[f] # DefaultKey
    PROVE  CustodyInvariant'
<1>1. TypeOK'
  BY DEF CustodyInvariant, TypeOK
<1>2. ConfigStaysValid'
  BY DEF ConfigStaysValid
<1>3. NothingBeforeLaunch' /\ AllBooks'
  BY InvariantByLaunch DEF NothingBeforeLaunch, AllBooks
<1> QED
  BY <1>1, <1>2, <1>3, InvariantByLaunchNext

\* The record initialize_config stores is a configuration.
LEMMA NewConfigTyped ==
    ASSUME NEW s \in Wallets, NEW p \in InitParams
    PROVE  /\ NewConfig(s, p) \in ConfigType
           /\ \A f \in WalletFields : NewConfig(s, p)[f] = p[f]
<1>1. DOMAIN p = ParamFields /\ TypedParams(p)
  BY InputsAssumption
<1>2. /\ \A f \in WalletFields : p[f] \in Pubkeys
      /\ \A f \in BpsFields : p[f] \in U16
      /\ \A f \in LamportFields : p[f] \in U64
  BY <1>1 DEF TypedParams, ParamFields
<1>3. s \in Pubkeys
  BY DEF Pubkeys, Accounts
<1> QED
  BY <1>2, <1>3 DEF NewConfig, ConfigType, ConfigFields, ParamFields,
     WalletFields, BpsFields, LamportFields

\* initialize_config keeps the invariant.
LEMMA InitializeConfigKeepsInvariant ==
    ASSUME CustodyInvariant, NEW s \in Wallets, NEW p \in InitParams, InitializeConfig(s, p)
    PROVE  CustodyInvariant'
BY ValidConfigKeepsInvariant, NewConfigTyped DEF InitializeConfig

\* So is a stored configuration with some of its fields replaced.
LEMMA UpdatedTyped ==
    ASSUME NEW c \in ConfigType, NEW p \in ConfigUpdates
    PROVE  /\ Updated(c, p) \in ConfigType
           /\ \A f \in WalletFields :
                 Updated(c, p)[f] = IF f \in DOMAIN p THEN p[f] ELSE c[f]
<1>1. DOMAIN p \subseteq ParamFields \cup {"admin"} /\ TypedParams(p)
  BY InputsAssumption
<1>2. /\ \A f \in DOMAIN p \cap (WalletFields \cup {"admin"}) : p[f] \in Pubkeys
      /\ \A f \in DOMAIN p \cap BpsFields : p[f] \in U16
      /\ \A f \in DOMAIN p \cap LamportFields : p[f] \in U64
  BY <1>1 DEF TypedParams
<1> QED
  BY <1>1, <1>2 DEF Updated, ConfigType, ConfigFields, ParamFields,
     WalletFields, BpsFields, LamportFields

\* update_config keeps the invariant.
LEMMA UpdateConfigKeepsInvariant ==
    ASSUME CustodyInvariant, NEW s \in Wallets, NEW p \in ConfigUpdates, UpdateConfig(s, p)
    PROVE  CustodyInvariant'
<1>1. config \in ConfigType
  BY DEF UpdateConfig, CustodyInvariant, TypeOK
<1>2. \A f \in WalletFields : config[f] # DefaultKey
  BY DEF UpdateConfig, CustodyInvariant, ConfigStaysValid
<1>3. /\ config' = Updated(config, p) /\ Validate(config')
      /\ \A f \in DOMAIN p \cap WalletFields : p[f] # DefaultKey
      /\ UNCHANGED <<launch, lamports, curveTokens, supply>>
  BY DEF UpdateConfig
<1>4. config' \in ConfigType /\ \A f \in WalletFields : config'[f] # DefaultKey
  BY <1>1, <1>2, <1>3, UpdatedTyped
<1> QED
  BY <1>3, <1>4, ValidConfigKeepsInvariant

\* set_paused keeps the invariant.
LEMMA SetPausedKeepsInvariant ==
    ASSUME CustodyInvariant, NEW s \in Wallets, NEW b \in BOOLEAN, SetPaused(s, b)
    PROVE  CustodyInvariant'
<1>1. /\ config \in ConfigType /\ Validate(config)
      /\ \A f \in WalletFields : config[f] # DefaultKey
  BY DEF SetPaused, CustodyInvariant, TypeOK, ConfigStaysValid
<1>2. /\ config' = [config EXCEPT !.paused = b]
      /\ UNCHANGED <<launch, lamports, curveTokens, supply>>
  BY DEF SetPaused
<1>3. config' \in ConfigType
  BY <1>1, <1>2 DEF ConfigType
<1>4. Validate(config')
  BY <1>1, <1>2 DEF Validate, ConfigType
<1>5. \A f \in WalletFields : config'[f] # DefaultKey
  BY <1>1, <1>2 DEF WalletFields, ConfigType
<1> QED
  BY <1>2, <1>3, <1>4, <1>5, ValidConfigKeepsInvariant

-----------------------------------------------------------------------------
(* The instructions on one launch. *)

\* A step that replaces the launch of m, the tokens its curve holds and its
\* supply by values whose books agree, and debits no other vault.
LEMMA LaunchStepKeepsInvariant ==
    ASSUME CustodyInvariant, NEW m \in Mints,
           NEW l \in LaunchType, NEW held \in Nat, NEW minted \in U64,
           config' = config, lamports' \in Balances,
           launch' = [launch EXCEPT ![m] = l],
           curveTokens' = [curveTokens EXCEPT ![m] = held],
           supply' = [supply EXCEPT ![m] = minted],
           \A o \in Mints \ {m} : lamports'[VaultOf(o)] >= lamports[VaultOf(o)],
           Books(l, lamports'[VaultOf(m)], held, minted)
    PROVE  CustodyInvariant' /\ Launched(m)'
<1>1. TypeOK
  BY DEF CustodyInvariant
<1>2. TypeOK'
  BY <1>1 DEF TypeOK, Balances
<1>3. /\ launch'[m] = l /\ curveTokens'[m] = held /\ supply'[m] = minted
      /\ \A o \in Mints \ {m} :
            launch'[o] = launch[o] /\ curveTokens'[o] = curveTokens[o] /\ supply'[o] = supply[o]
  BY <1>1 DEF TypeOK
<1>4. l # NoLaunch
  BY AccountsAssumption
<1>5. NothingBeforeLaunch' /\ AllBooks'
  BY <1>2, <1>3, <1>4, OtherBooksKept
<1>6. ConfigStaysValid'
  BY DEF CustodyInvariant, ConfigStaysValid
<1> QED
  BY <1>2, <1>3, <1>4, <1>5, <1>6, InvariantByLaunchNext

\* A step in which no vault loses anything has no debit to book.
LEMMA NoDebitIsBooked ==
    ASSUME lamports \in Balances, lamports' \in Balances,
           \A o \in Mints : lamports'[VaultOf(o)] >= lamports[VaultOf(o)]
    PROVE  \A o \in Mints : DebitIsBooked(o)
BY VaultsDiffer DEF DebitIsBooked, Balances

\* The state a handler works on once it knows that its launch exists.
LEMMA LaunchState ==
    ASSUME CustodyInvariant, NEW m \in Mints, Launched(m)
    PROVE  /\ launch[m] \in LaunchType
           /\ curveTokens[m] \in Nat /\ supply[m] \in U64 /\ supply[m] \in Nat
           /\ lamports \in Balances /\ lamports[VaultOf(m)] \in Nat
           /\ Books(launch[m], lamports[VaultOf(m)], curveTokens[m], supply[m])
<1>1. /\ launch[m] \in LaunchType /\ curveTokens[m] \in Nat /\ supply[m] \in U64
      /\ lamports \in Balances
  BY DEF CustodyInvariant, TypeOK, Balances
<1>2. supply[m] \in Nat /\ lamports[VaultOf(m)] \in Nat
  BY <1>1, WidthsAreNat, VaultsDiffer DEF Balances
<1>3. Books(launch[m], lamports[VaultOf(m)], curveTokens[m], supply[m])
  BY InvariantByLaunch DEF AllBooks
<1> QED
  BY <1>1, <1>2, <1>3

\* A launch starts with the whole allocation for sale and nothing sold.
LEMMA CreateTokenKeepsInvariant ==
    ASSUME CustodyInvariant, NEW c \in Wallets, NEW m \in Mints, NEW p \in CreateParams,
           CreateToken(c, m, p)
    PROVE  CustodyInvariant' /\ \A o \in Mints : DebitIsBooked(o)
<1> DEFINE shares == SplitTwoWay(config.creation_fee_lamports, config.creation_split_dino_bps)
<1>1. /\ config \in ConfigType /\ ~Launched(m) /\ lamports \in Balances
      /\ supply[m] = 0 /\ curveTokens[m] = 0
      /\ lamports[VaultOf(m)] \in Nat
  BY VaultsDiffer DEF CreateToken, CustodyInvariant, TypeOK, NothingBeforeLaunch, Balances
<1>2. shares.dino \in Nat /\ shares.treasury \in Nat
  BY <1>1, ConfigAmounts, TwoSharesAddUp DEF CreateToken
<1>3. /\ lamports' \in Balances
      /\ \A a \in Accounts \ {c} : lamports'[a] >= lamports[a]
  <2>1. /\ lamports' = PaidToPlatform(lamports, c, config, shares)
        /\ CanPayPlatform(lamports, c, config, shares)
    BY DEF CreateToken
  <2> HIDE DEF shares
  <2>2. c \in Accounts
    BY DEF Accounts
  <2> QED
    BY <1>1, <1>2, <2>1, <2>2, PlatformPaymentIsSafe
<1>4. NewLaunch(c) \in LaunchType /\ CurveAllocation \in Nat /\ CurveAllocation \in U64
  BY AllocationAssumption, WidthsAssumption DEF NewLaunch, LaunchType, U64
<1>5. lamports'[VaultOf(m)] \in Nat
  BY <1>3, VaultsDiffer DEF Balances
<1>6. Books(NewLaunch(c), lamports'[VaultOf(m)], CurveAllocation, CurveAllocation)
  BY <1>4, <1>5, AllocationAssumption DEF Books, NewLaunch
<1>7. /\ launch' = [launch EXCEPT ![m] = NewLaunch(c)] /\ config' = config
      /\ curveTokens' = [curveTokens EXCEPT ![m] = CurveAllocation]
      /\ supply' = [supply EXCEPT ![m] = CurveAllocation]
  BY <1>1, <1>4 DEF CreateToken
<1>8. \A o \in Mints : VaultOf(o) \in Accounts \ {c}
  BY VaultsDiffer
<1>9. \A o \in Mints : DebitIsBooked(o)
  BY <1>1, <1>3, <1>8, NoDebitIsBooked
<1> QED
  BY <1>3, <1>4, <1>6, <1>7, <1>8, <1>9, LaunchStepKeepsInvariant

\* The price of a purchase that is quoted at all, and the curve it leads to.
LEMMA BuyQuoteTyped ==
    ASSUME NEW l \in LaunchType, NEW n \in U64, BuyQuoteOk(l, n),
           l.real_sol_reserves + BuyCost(l, n) <= MaxRealSolReserves,
           l.tokens_sold + n \in U64
    PROVE  /\ BuyCost(l, n) \in Nat
           /\ n \in Nat /\ n <= l.real_token_reserves
           /\ AfterBuy(l, n, BuyCost(l, n)) \in LaunchType
<1> DEFINE cost == BuyCost(l, n)
<1>1. /\ n \in Nat /\ n <= l.real_token_reserves /\ l.virtual_token_reserves - n >= 1
      /\ cost \in Nat
  BY WidthsAreNat DEF BuyQuoteOk, SolInOk, BuyCost
<1> HIDE DEF cost
<1>2. /\ l.real_sol_reserves + cost \in U64
      /\ l.real_token_reserves - n \in U64
      /\ l.virtual_token_reserves - n \in U64
  <2>1. /\ l.real_token_reserves <= U64Max /\ l.virtual_token_reserves <= U64Max
        /\ l.real_sol_reserves + cost <= U64Max
    <3>1. l.real_token_reserves \in U64 /\ l.virtual_token_reserves \in U64
      BY DEF LaunchType
    <3> QED
      BY <1>1, <3>1, WidthsAreNat, WidthsAssumption, AllocationAssumption, LaunchAmounts DEF cost
  <2> QED
    BY <1>1, <2>1, LaunchAmounts, WidthsAssumption DEF U64
<1>3. AfterBuy(l, n, cost) \in LaunchType
  BY <1>2 DEF AfterBuy, LaunchType
<1> QED
  BY <1>1, <1>3 DEF cost

\* The buyer's lamports arrive in the vault before the shares leave the buyer,
\* where they stay, and the tokens delivered leave both the books and the
\* curve's account.
LEMMA BuyKeepsInvariant ==
    ASSUME CustodyInvariant, NEW b \in Wallets, NEW m \in Mints, NEW n \in U64,
           NEW maxIn \in U64, Buy(b, m, n, maxIn)
    PROVE  /\ CustodyInvariant' /\ Launched(m)' /\ \A o \in Mints : DebitIsBooked(o)
           /\ lamports[b] - lamports'[b] <= maxIn
           /\ lamports'[VaultOf(m)] >= lamports[VaultOf(m)] + BuyCost(launch[m], n)
<1> DEFINE l      == launch[m]
           cost   == BuyCost(l, n)
           fee    == TradeFee(cost, config.trade_fee_bps)
           shares == TradeShares(config, fee)
           toVault == Moved(lamports, b, VaultOf(m), cost)
<1>1. /\ Launched(m) /\ ~l.graduated /\ config \in ConfigType
      /\ BuyQuoteOk(l, n) /\ cost <= lamports[b] /\ TradeSharesOk(config, fee)
      /\ cost + fee <= maxIn
      /\ CanPayShares(toVault, b, config, l.creator, shares)
      /\ n <= curveTokens[m]
      /\ l.real_sol_reserves + cost <= MaxRealSolReserves
      /\ l.tokens_sold + n \in U64
  BY DEF Buy, CanBuy, BuyTotal, TradingOpen, Trading, CustodyInvariant, TypeOK
<1>2. /\ launch' = [launch EXCEPT ![m] = AfterBuy(l, n, cost)]
      /\ lamports' = PaidShares(toVault, b, config, l.creator, shares)
      /\ curveTokens' = [curveTokens EXCEPT ![m] = @ - n]
      /\ config' = config /\ supply' = supply
  BY DEF Buy
<1>3. /\ l \in LaunchType /\ curveTokens[m] \in Nat
      /\ supply[m] \in U64 /\ supply[m] \in Nat
      /\ lamports \in Balances /\ lamports[VaultOf(m)] \in Nat
      /\ Books(l, lamports[VaultOf(m)], curveTokens[m], supply[m])
  BY <1>1, LaunchState
<1>4. /\ cost \in Nat /\ n \in Nat /\ n <= l.real_token_reserves
      /\ AfterBuy(l, n, cost) \in LaunchType
  BY <1>1, <1>3, BuyQuoteTyped
<1>5. fee \in Nat
  <2> HIDE DEF cost
  <2> QED
    BY <1>1, <1>4, ConfigAmounts, FeeBounds DEF TradeFee
<1>6. /\ shares.creator \in Nat /\ shares.dino \in Nat /\ shares.treasury \in Nat
      /\ shares.creator + shares.dino + shares.treasury = fee
  <2> HIDE DEF fee
  <2> QED
    BY <1>1, <1>5, TradeSharesAddUp
<1>7. b \in Accounts /\ \A o \in Mints : VaultOf(o) \in Accounts \ {b}
  BY VaultsDiffer DEF Accounts
<1> HIDE DEF l, cost, shares, fee
<1>8. /\ toVault \in Balances /\ toVault[VaultOf(m)] = lamports[VaultOf(m)] + cost
      /\ toVault[b] >= lamports[b] - cost
      /\ \A a \in Accounts \ {b} : toVault[a] >= lamports[a]
  BY <1>1, <1>3, <1>4, <1>7, MovedIsSafe
<1> HIDE DEF toVault
<1>9. /\ lamports' \in Balances
      /\ lamports'[b] >= toVault[b] - shares.creator - shares.dino - shares.treasury
      /\ \A a \in Accounts \ {b} : lamports'[a] >= toVault[a]
  BY <1>1, <1>2, <1>6, <1>7, <1>8, SharesPaymentIsSafe
<1>10. \A a \in Accounts : lamports[a] \in Nat /\ toVault[a] \in Nat /\ lamports'[a] \in Nat
  BY <1>3, <1>8, <1>9 DEF Balances
<1>11. \A o \in Mints : lamports'[VaultOf(o)] >= lamports[VaultOf(o)]
  BY <1>7, <1>8, <1>9, <1>10
<1>12. lamports'[VaultOf(m)] >= lamports[VaultOf(m)] + cost
  BY <1>7, <1>8, <1>9, <1>10
<1>13. Books(AfterBuy(l, n, cost), lamports'[VaultOf(m)], curveTokens[m] - n, supply[m])
  <2>1. lamports'[VaultOf(m)] \in Nat
    BY <1>7, <1>10
  <2> QED
    BY <1>1, <1>3, <1>4, <1>12, <2>1, LaunchAmounts, AllocationAssumption
       DEF Books, AfterBuy, LaunchType, l
<1>14. /\ curveTokens' = [curveTokens EXCEPT ![m] = curveTokens[m] - n]
       /\ supply' = [supply EXCEPT ![m] = supply[m]]
       /\ curveTokens[m] - n \in Nat
  BY <1>1, <1>2, <1>3, <1>4 DEF CustodyInvariant, TypeOK
<1>15. \A o \in Mints : DebitIsBooked(o)
  BY <1>3, <1>9, <1>11, NoDebitIsBooked
<1>16. lamports[b] - lamports'[b] <= maxIn
  <2>1. maxIn \in Nat
    BY WidthsAreNat
  <2> QED
    BY <1>1, <1>4, <1>5, <1>6, <1>7, <1>8, <1>9, <1>10, <2>1
<1>17. CustodyInvariant' /\ Launched(m)'
  BY <1>2, <1>3, <1>4, <1>9, <1>11, <1>13, <1>14, LaunchStepKeepsInvariant
<1> QED
  BY <1>12, <1>15, <1>16, <1>17 DEF cost, l

\* What a sale that is quoted at all returns, and the curve it leads to.
LEMMA SellQuoteTyped ==
    ASSUME NEW l \in LaunchType, NEW n \in U64, SellQuoteOk(l, n),
           l.real_token_reserves + n \in U64, l.virtual_token_reserves + n \in U64
    PROVE  /\ n \in Nat /\ SellGross(l, n) \in Nat /\ SellGross(l, n) <= l.real_sol_reserves
           /\ AfterSell(l, n, SellGross(l, n)) \in LaunchType
<1> DEFINE gross == SellGross(l, n)
           uncapped == SolOutUncapped(l.virtual_sol_reserves, l.virtual_token_reserves,
                                      l.real_sol_reserves, n)
<1>1. n \in Nat /\ uncapped \in Nat
  BY WidthsAreNat DEF SellQuoteOk, SolOutOk
<1>2. gross = IF uncapped <= l.real_sol_reserves THEN uncapped ELSE l.real_sol_reserves
  BY DEF SellGross, SolOut
<1> HIDE DEF gross, uncapped
<1>3. gross \in Nat /\ gross <= l.real_sol_reserves
  BY <1>1, <1>2, LaunchAmounts
<1>4. /\ l.real_sol_reserves - gross \in U64
      /\ (IF n <= l.tokens_sold THEN l.tokens_sold - n ELSE 0) \in U64
  <2>1. l.real_sol_reserves \in U64 /\ l.tokens_sold \in U64
    BY DEF LaunchType
  <2> QED
    BY <1>1, <1>3, <2>1, WidthsAssumption DEF U64
<1>5. AfterSell(l, n, gross) \in LaunchType
  BY <1>4 DEF AfterSell, LaunchType
<1> QED
  BY <1>1, <1>3, <1>5 DEF gross

\* Seller and fee wallets together receive the gross price, which is what the
\* sale takes off the books; the tokens return to where they were sold from,
\* and since no more circulate than were sold, the saturating subtraction of
\* tokens_sold is exact.
LEMMA SellKeepsInvariant ==
    ASSUME CustodyInvariant, NEW s \in Wallets, NEW m \in Mints, NEW n \in U64,
           NEW minOut \in U64, Sell(s, m, n, minOut)
    PROVE  /\ CustodyInvariant' /\ Launched(m)' /\ \A o \in Mints : DebitIsBooked(o)
           /\ lamports'[s] - lamports[s] >= minOut
<1> DEFINE l      == launch[m]
           vault  == VaultOf(m)
           gross  == SellGross(l, n)
           fee    == TradeFee(gross, config.trade_fee_bps)
           shares == TradeShares(config, fee)
           paid   == Moved(lamports, vault, s, gross - fee)
           after  == AfterSell(l, n, gross)
<1>1. /\ Launched(m) /\ ~l.graduated /\ config \in ConfigType
      /\ SellQuoteOk(l, n) /\ fee <= gross /\ gross - fee >= minOut
      /\ TradeSharesOk(config, fee)
      /\ gross - fee <= lamports[vault]
      /\ CanPayShares(paid, vault, config, l.creator, shares)
      /\ l.real_token_reserves + n \in U64 /\ l.virtual_token_reserves + n \in U64
      /\ n <= supply[m] - curveTokens[m]
  BY DEF Sell, CanSell, TradingOpen, Trading, Circulating, CustodyInvariant, TypeOK
<1>2. /\ launch' = [launch EXCEPT ![m] = after]
      /\ lamports' = PaidShares(paid, vault, config, l.creator, shares)
      /\ curveTokens' = [curveTokens EXCEPT ![m] = @ + n]
      /\ config' = config /\ supply' = supply
  BY DEF Sell, AfterPayout
<1>3. /\ l \in LaunchType /\ curveTokens[m] \in Nat
      /\ supply[m] \in U64 /\ supply[m] \in Nat
      /\ lamports \in Balances /\ lamports[vault] \in Nat
      /\ Books(l, lamports[vault], curveTokens[m], supply[m])
  BY <1>1, LaunchState
<1>4. /\ n \in Nat /\ gross \in Nat /\ gross <= l.real_sol_reserves
      /\ after \in LaunchType
  BY <1>1, <1>3, SellQuoteTyped
<1>5. fee \in Nat /\ gross - fee \in Nat
  <2> HIDE DEF gross
  <2>1. fee \in Nat
    BY <1>1, <1>4, ConfigAmounts, FeeBounds DEF TradeFee
  <2> HIDE DEF fee
  <2> QED
    BY <1>1, <1>4, <2>1
<1>6. /\ shares.creator \in Nat /\ shares.dino \in Nat /\ shares.treasury \in Nat
      /\ shares.creator + shares.dino + shares.treasury = fee
  <2> HIDE DEF fee
  <2> QED
    BY <1>1, <1>5, TradeSharesAddUp
<1>7. /\ vault \in Accounts /\ s \in Accounts \ {vault}
      /\ \A o \in Mints \ {m} : VaultOf(o) \in Accounts \ {vault}
  BY VaultsDiffer
<1>8. after.real_sol_reserves = l.real_sol_reserves - gross
  BY <1>3 DEF AfterSell, LaunchType
<1> HIDE DEF l, vault, gross, fee, shares
<1>9. /\ paid \in Balances /\ paid[vault] >= lamports[vault] - (gross - fee)
      /\ paid[s] = lamports[s] + (gross - fee)
      /\ \A a \in Accounts \ {vault} : paid[a] >= lamports[a]
  BY <1>1, <1>3, <1>5, <1>7, MovedIsSafe
<1> HIDE DEF paid
<1>10. /\ lamports' \in Balances
       /\ lamports'[vault] >= paid[vault] - shares.creator - shares.dino - shares.treasury
       /\ \A a \in Accounts \ {vault} : lamports'[a] >= paid[a]
  BY <1>1, <1>2, <1>6, <1>7, <1>9, SharesPaymentIsSafe
<1>11. \A a \in Accounts : lamports[a] \in Nat /\ paid[a] \in Nat /\ lamports'[a] \in Nat
  BY <1>3, <1>9, <1>10 DEF Balances
<1>12. lamports'[vault] >= lamports[vault] - gross
  BY <1>4, <1>5, <1>6, <1>7, <1>9, <1>10, <1>11
<1>13. \A o \in Mints \ {m} : lamports'[VaultOf(o)] >= lamports[VaultOf(o)]
  BY <1>7, <1>9, <1>10, <1>11
<1>14. Books(after, lamports'[vault], curveTokens[m] + n, supply[m])
  <2>1. lamports'[vault] \in Nat /\ lamports[vault] \in Nat
    BY <1>7, <1>11
  <2> QED
    BY <1>1, <1>3, <1>4, <1>12, <2>1, LaunchAmounts, AllocationAssumption
       DEF Books, AfterSell, LaunchType
<1> HIDE DEF after
<1>15. /\ curveTokens' = [curveTokens EXCEPT ![m] = curveTokens[m] + n]
       /\ supply' = [supply EXCEPT ![m] = supply[m]]
       /\ curveTokens[m] + n \in Nat
  BY <1>2, <1>3, <1>4 DEF CustodyInvariant, TypeOK
<1>16. CustodyInvariant' /\ Launched(m)'
  BY <1>2, <1>3, <1>4, <1>10, <1>13, <1>14, <1>15, LaunchStepKeepsInvariant DEF vault
<1>17. \A o \in Mints : DebitIsBooked(o)
  <2>1. launch'[m] = after
    BY <1>2 DEF CustodyInvariant, TypeOK
  <2>2. DebitIsBooked(m)
    BY <1>1, <1>3, <1>4, <1>7, <1>8, <1>11, <1>12, <2>1, LaunchAmounts
       DEF DebitIsBooked, Trading, vault, l
  <2>3. ASSUME NEW o \in Mints \ {m} PROVE DebitIsBooked(o)
    BY <1>7, <1>11, <1>13 DEF DebitIsBooked
  <2> QED
    BY <2>2, <2>3
<1>18. lamports'[s] - lamports[s] >= minOut
  <2>1. minOut \in Nat
    BY WidthsAreNat
  <2> QED
    BY <1>1, <1>4, <1>5, <1>7, <1>9, <1>10, <1>11, <2>1
<1> QED
  BY <1>16, <1>17, <1>18

-----------------------------------------------------------------------------
(* Graduation. *)

\* The fee and the remainder handed to the graduation authority add up to the
\* SOL on the books, so a vault never pays out of anything else.
LEMMA GraduateKeepsInvariant ==
    ASSUME CustodyInvariant, NEW m \in Mints, Graduate(m)
    PROVE  CustodyInvariant' /\ Launched(m)' /\ \A o \in Mints : DebitIsBooked(o)
<1> DEFINE l      == launch[m]
           vault  == VaultOf(m)
           fee    == config.graduation_fee_lamports
           shares == SplitTwoWay(fee, config.graduation_split_dino_bps)
           paid   == PaidToPlatform(lamports, vault, config, shares)
           after  == AfterGraduation(l, fee)
           rest   == l.real_sol_reserves - fee
<1>1. /\ Launched(m) /\ ~l.graduated /\ config \in ConfigType
      /\ l.real_sol_reserves >= fee
      /\ SplitTwoWayOk(fee, config.graduation_split_dino_bps)
      /\ CanPayPlatform(lamports, vault, config, shares)
      /\ rest <= paid[vault]
      /\ supply[m] + GraduationReserve \in U64
  BY DEF Graduate, CanGraduate, TradingOpen, Trading, CustodyInvariant, TypeOK
<1>2. /\ launch' = [launch EXCEPT ![m] = after]
      /\ lamports' = Moved(paid, vault, config.graduation_authority, rest)
      /\ supply' = [supply EXCEPT ![m] = @ + GraduationReserve]
      /\ config' = config /\ curveTokens' = curveTokens
  BY DEF Graduate
<1>3. /\ l \in LaunchType /\ curveTokens[m] \in Nat
      /\ supply[m] \in U64 /\ supply[m] \in Nat
      /\ lamports \in Balances /\ lamports[vault] \in Nat
      /\ Books(l, lamports[vault], curveTokens[m], supply[m])
  BY <1>1, LaunchState
<1>4. fee \in Nat /\ l.real_sol_reserves \in Nat /\ rest \in Nat
  <2>1. fee \in Nat /\ l.real_sol_reserves \in Nat
    BY <1>1, <1>3, ConfigAmounts, LaunchAmounts
  <2> HIDE DEF l, fee
  <2> QED
    BY <1>1, <2>1
<1>5. /\ shares.dino \in Nat /\ shares.treasury \in Nat
      /\ shares.dino + shares.treasury = fee
  <2>1. config.graduation_split_dino_bps \in Nat
    BY <1>1, ConfigAmounts
  <2> HIDE DEF fee
  <2> QED
    BY <1>1, <1>4, <2>1, TwoSharesAddUp
<1>6. vault \in Accounts /\ \A o \in Mints \ {m} : VaultOf(o) \in Accounts \ {vault}
  BY VaultsDiffer
<1>7. after \in LaunchType /\ after.real_sol_reserves = 0
  <2>1. l.real_sol_reserves \in U64
    BY <1>3 DEF LaunchType
  <2> HIDE DEF l, fee
  <2>2. rest \in U64 /\ 0 \in U64 /\ GraduationReserve \in U64
    BY <1>1, <1>4, <2>1, WidthsAssumption, AllocationAssumption DEF U64
  <2> HIDE DEF rest
  <2>3. after = [l EXCEPT !.graduated               = TRUE,
                          !.pool_seeded             = FALSE,
                          !.meteora_lb_pair         = DefaultKey,
                          !.graduation_sol_lamports = rest,
                          !.graduation_token_amount = GraduationReserve,
                          !.real_sol_reserves       = 0,
                          !.real_token_reserves     = 0]
    BY DEF AfterGraduation, rest
  <2> HIDE DEF after
  <2> QED
    BY <1>3, <2>2, <2>3 DEF LaunchType
<1>8. Books(after, lamports'[vault], curveTokens[m], supply[m] + GraduationReserve)
      \/ lamports'[vault] \notin Nat
  BY <1>1, <1>3, LaunchAmounts, AllocationAssumption DEF Books, AfterGraduation, LaunchType
<1> HIDE DEF l, vault, fee, shares, after
<1>9. /\ paid \in Balances
      /\ paid[vault] >= lamports[vault] - shares.dino - shares.treasury
      /\ \A a \in Accounts \ {vault} : paid[a] >= lamports[a]
  BY <1>1, <1>3, <1>5, <1>6, PlatformPaymentIsSafe
<1> HIDE DEF paid, rest
<1>10. /\ lamports' \in Balances /\ lamports'[vault] >= paid[vault] - rest
       /\ \A a \in Accounts \ {vault} : lamports'[a] >= paid[a]
  BY <1>1, <1>2, <1>4, <1>6, <1>9, MovedIsSafe
<1>11. \A a \in Accounts : lamports[a] \in Nat /\ paid[a] \in Nat /\ lamports'[a] \in Nat
  BY <1>3, <1>9, <1>10 DEF Balances
<1>12. lamports'[vault] >= lamports[vault] - l.real_sol_reserves
  BY <1>4, <1>5, <1>6, <1>9, <1>10, <1>11 DEF rest
<1>13. \A o \in Mints \ {m} : lamports'[VaultOf(o)] >= lamports[VaultOf(o)]
  BY <1>6, <1>9, <1>10, <1>11
<1>14. /\ curveTokens' = [curveTokens EXCEPT ![m] = curveTokens[m]]
       /\ supply' = [supply EXCEPT ![m] = supply[m] + GraduationReserve]
  BY <1>2, <1>3 DEF CustodyInvariant, TypeOK
<1>15. CustodyInvariant' /\ Launched(m)'
  BY <1>1, <1>2, <1>3, <1>6, <1>7, <1>8, <1>10, <1>11, <1>13, <1>14,
     LaunchStepKeepsInvariant DEF vault
<1>16. \A o \in Mints : DebitIsBooked(o)
  <2>1. launch'[m] = after
    BY <1>2 DEF CustodyInvariant, TypeOK
  <2>2. DebitIsBooked(m)
    BY <1>1, <1>4, <1>6, <1>7, <1>11, <1>12, <2>1 DEF DebitIsBooked, Trading, vault, l
  <2>3. ASSUME NEW o \in Mints \ {m} PROVE DebitIsBooked(o)
    BY <1>6, <1>11, <1>13 DEF DebitIsBooked
  <2> QED
    BY <2>2, <2>3
<1> QED
  BY <1>15, <1>16

\* A step that moves no lamports has no debit to book.
LEMMA NoPaymentIsBooked ==
    ASSUME CustodyInvariant, lamports' = lamports
    PROVE  \A o \in Mints : DebitIsBooked(o)
<1>1. lamports \in Balances
  BY DEF CustodyInvariant, TypeOK, Balances
<1>2. \A o \in Mints : lamports[VaultOf(o)] \in Nat
  BY <1>1, VaultsDiffer DEF Balances
<1> QED
  BY <1>2 DEF DebitIsBooked

\* seal_graduation keeps the invariant and debits no vault.
LEMMA SealKeepsInvariant ==
    ASSUME CustodyInvariant, NEW s \in Wallets, NEW m \in Mints,
           NEW lb \in LbPairs \cup {DefaultKey}, SealGraduation(s, m, lb)
    PROVE  CustodyInvariant' /\ Launched(m)' /\ \A o \in Mints : DebitIsBooked(o)
<1> DEFINE after == [launch[m] EXCEPT !.pool_seeded = TRUE, !.meteora_lb_pair = lb]
<1>1. Launched(m)
  BY DEF SealGraduation
<1>2. /\ launch[m] \in LaunchType /\ curveTokens[m] \in Nat /\ supply[m] \in U64
      /\ lamports \in Balances
      /\ Books(launch[m], lamports[VaultOf(m)], curveTokens[m], supply[m])
  BY <1>1, LaunchState
<1>3. /\ launch' = [launch EXCEPT ![m] = after] /\ config' = config /\ lamports' = lamports
      /\ curveTokens' = [curveTokens EXCEPT ![m] = curveTokens[m]]
      /\ supply' = [supply EXCEPT ![m] = supply[m]]
  BY DEF SealGraduation, CustodyInvariant, TypeOK
<1>4. after \in LaunchType
  BY <1>2 DEF LaunchType
<1>5. Books(after, lamports'[VaultOf(m)], curveTokens[m], supply[m])
  BY <1>2, <1>3 DEF Books, LaunchType
<1>6. \A o \in Mints : lamports'[VaultOf(o)] >= lamports[VaultOf(o)]
  BY <1>2, <1>3, VaultsDiffer DEF Balances
<1> HIDE DEF after
<1> QED
  BY <1>2, <1>3, <1>4, <1>5, <1>6, NoPaymentIsBooked, LaunchStepKeepsInvariant

-----------------------------------------------------------------------------
(* Transfers and burns that do not go through the program. *)

\* A deposit keeps the invariant and debits no vault, for vaults do not sign.
LEMMA StrayDepositKeepsInvariant ==
    ASSUME CustodyInvariant, NEW w \in Wallets, NEW m \in Mints, NEW n \in Nat,
           StrayDeposit(w, m, n)
    PROVE  CustodyInvariant' /\ \A o \in Mints : DebitIsBooked(o)
<1>1. /\ lamports' = Moved(lamports, w, VaultOf(m), n) /\ n <= lamports[w]
      /\ UNCHANGED <<config, launch, curveTokens, supply>>
  BY DEF StrayDeposit
<1>2. lamports \in Balances /\ w \in Accounts
  BY DEF CustodyInvariant, TypeOK, Balances, Accounts
<1>3. lamports' \in Balances /\ \A a \in Accounts \ {w} : lamports'[a] >= lamports[a]
  BY <1>1, <1>2, MovedIsSafe
<1>4. \A o \in Mints : lamports'[VaultOf(o)] >= lamports[VaultOf(o)]
  BY <1>3, VaultsDiffer
<1>5. TypeOK' /\ ConfigStaysValid' /\ NothingBeforeLaunch'
  BY <1>1, <1>3 DEF CustodyInvariant, TypeOK, ConfigStaysValid, NothingBeforeLaunch, Balances
<1>6. AllBooks'
  <2>1. SUFFICES ASSUME NEW o \in Mints, launch[o] # NoLaunch
                 PROVE  Books(launch[o], lamports'[VaultOf(o)], curveTokens[o], supply[o])
    BY <1>1 DEF AllBooks
  <2>2. /\ Books(launch[o], lamports[VaultOf(o)], curveTokens[o], supply[o])
        /\ launch[o].real_sol_reserves \in Nat /\ lamports[VaultOf(o)] \in Nat
    BY <2>1, LaunchState, LaunchAmounts
  <2>3. lamports'[VaultOf(o)] \in Nat
    BY <1>3, VaultsDiffer DEF Balances
  <2> QED
    BY <1>4, <2>2, <2>3 DEF Books
<1>7. \A o \in Mints : DebitIsBooked(o)
  BY <1>2, <1>3, <1>4, NoDebitIsBooked
<1> QED
  BY <1>5, <1>6, <1>7, InvariantByLaunchNext

\* A step that only takes tokens of m out of circulation.
LEMMA LessCirculatingKeepsInvariant ==
    ASSUME CustodyInvariant, NEW m \in Mints, Launched(m), NEW held \in Nat, NEW minted \in U64,
           UNCHANGED <<config, launch, lamports>>,
           curveTokens' = [curveTokens EXCEPT ![m] = held],
           supply' = [supply EXCEPT ![m] = minted],
           minted <= supply[m], held >= curveTokens[m], minted >= held
    PROVE  CustodyInvariant' /\ \A o \in Mints : DebitIsBooked(o)
<1>1. /\ launch[m] \in LaunchType /\ curveTokens[m] \in Nat /\ supply[m] \in Nat
      /\ lamports \in Balances /\ lamports[VaultOf(m)] \in Nat /\ minted \in Nat
      /\ Books(launch[m], lamports[VaultOf(m)], curveTokens[m], supply[m])
  BY LaunchState, WidthsAreNat
<1>2. minted - held \in 0 .. supply[m] - curveTokens[m]
  BY <1>1
<1>3. Books(launch[m], lamports'[VaultOf(m)], held, minted)
  BY <1>1, <1>2, LaunchAmounts, AllocationAssumption DEF Books
<1>4. launch' = [launch EXCEPT ![m] = launch[m]] /\ lamports' \in Balances
  BY <1>1 DEF CustodyInvariant, TypeOK
<1>5. \A o \in Mints : lamports'[VaultOf(o)] >= lamports[VaultOf(o)]
  BY <1>1, VaultsDiffer DEF Balances
<1>6. CustodyInvariant'
  BY <1>1, <1>3, <1>4, <1>5, LaunchStepKeepsInvariant
<1> QED
  BY <1>6, NoPaymentIsBooked

\* Tokens sent to the curve's account, and tokens burned, leave circulation.
LEMMA StrayTokensKeepInvariant ==
    ASSUME CustodyInvariant, NEW m \in Mints, NEW n \in Nat \ {0},
           StrayTokens(m, n) \/ BurnTokens(m, n)
    PROVE  CustodyInvariant' /\ \A o \in Mints : DebitIsBooked(o)
<1>1. UNCHANGED <<config, launch, lamports>> /\ n <= supply[m] - curveTokens[m]
  BY DEF StrayTokens, BurnTokens, Circulating
<1>2. Launched(m)
  BY <1>1 DEF CustodyInvariant, NothingBeforeLaunch
<1>3. curveTokens[m] \in Nat /\ supply[m] \in U64 /\ supply[m] \in Nat
  BY <1>2, LaunchState
<1>4. CASE StrayTokens(m, n)
  <2>1. /\ curveTokens' = [curveTokens EXCEPT ![m] = curveTokens[m] + n]
        /\ supply' = [supply EXCEPT ![m] = supply[m]]
    BY <1>4 DEF StrayTokens, CustodyInvariant, TypeOK
  <2>2. curveTokens[m] + n \in Nat /\ supply[m] >= curveTokens[m] + n
        /\ curveTokens[m] + n >= curveTokens[m] /\ supply[m] <= supply[m]
    BY <1>1, <1>3
  <2> QED
    BY <1>1, <1>2, <1>3, <2>1, <2>2, LessCirculatingKeepsInvariant
<1>5. CASE BurnTokens(m, n)
  <2>1. /\ curveTokens' = [curveTokens EXCEPT ![m] = curveTokens[m]]
        /\ supply' = [supply EXCEPT ![m] = supply[m] - n]
    BY <1>5 DEF BurnTokens, CustodyInvariant, TypeOK
  <2>2. /\ supply[m] - n \in U64 /\ supply[m] - n <= supply[m]
        /\ supply[m] - n >= curveTokens[m] /\ curveTokens[m] >= curveTokens[m]
    BY <1>1, <1>3, WidthsAssumption DEF U64
  <2> QED
    BY <1>1, <1>2, <1>3, <2>1, <2>2, LessCirculatingKeepsInvariant
<1> QED
  BY <1>4, <1>5

-----------------------------------------------------------------------------
(* Every step, and the theorems.  They hold of the program with each        *)
(* instruction open to every wallet and to all arguments of its types; Spec *)
(* and the scripts of Driver use it in their own ways.                      *)

AdminInstruction ==
    \E s \in Wallets :
        \/ \E p \in InitParams : InitializeConfig(s, p)
        \/ \E p \in ConfigUpdates : UpdateConfig(s, p)
        \/ \E b \in BOOLEAN : SetPaused(s, b)

TradeInstruction ==
    \E w \in Wallets, m \in Mints :
        \/ \E p \in CreateParams : CreateToken(w, m, p)
        \/ \E n \in U64, lim \in U64 : Buy(w, m, n, lim) \/ Sell(w, m, n, lim)

Instruction == AdminInstruction \/ TradeInstruction \/ GraduationStep \/ StrayStep

ProgramSpec == Init /\ [][Instruction]_vars

\* What Spec does, the program does.
LEMMA NextIsInstruction == [Next]_vars => [Instruction]_vars
<1>1. Deployers \subseteq Wallets /\ Traders \subseteq Wallets
  BY AccountsAssumption
<1>2. TradeSizes \subseteq U64 /\ SolLimits \subseteq U64
  BY InputsAssumption
<1>3. AdminStep => AdminInstruction
  BY <1>1 DEF AdminStep, AdminInstruction
<1>4. TradeStep => TradeInstruction
  BY <1>1, <1>2 DEF TradeStep, TradeInstruction
<1> QED
  BY <1>3, <1>4 DEF Next, Instruction

LEMMA SpecRunsProgram == Spec => ProgramSpec
BY NextIsInstruction, PTL DEF Spec, ProgramSpec

\* Whichever instruction or stray transfer comes next, the books of every
\* launch stay right and nothing leaves a vault unbooked.
LEMMA InstructionKeepsInvariant ==
    CustodyInvariant /\ [Instruction]_vars => CustodyInvariant' /\ \A o \in Mints : DebitIsBooked(o)
<1> SUFFICES ASSUME CustodyInvariant, [Instruction]_vars
             PROVE  CustodyInvariant' /\ \A o \in Mints : DebitIsBooked(o)
  OBVIOUS
<1>1. CASE AdminInstruction
  <2>1. ASSUME NEW s \in Wallets, NEW p \in InitParams, InitializeConfig(s, p)
        PROVE  CustodyInvariant' /\ lamports' = lamports
    BY <2>1, AccountsAssumption, InitializeConfigKeepsInvariant DEF InitializeConfig
  <2>2. ASSUME NEW s \in Wallets, NEW p \in ConfigUpdates, UpdateConfig(s, p)
        PROVE  CustodyInvariant' /\ lamports' = lamports
    BY <2>2, AccountsAssumption, UpdateConfigKeepsInvariant DEF UpdateConfig
  <2>3. ASSUME NEW s \in Wallets, NEW b \in BOOLEAN, SetPaused(s, b)
        PROVE  CustodyInvariant' /\ lamports' = lamports
    BY <2>3, AccountsAssumption, SetPausedKeepsInvariant DEF SetPaused
  <2>4. CustodyInvariant' /\ lamports' = lamports
    BY <1>1, <2>1, <2>2, <2>3 DEF AdminInstruction
  <2> QED
    BY <2>4, NoPaymentIsBooked
<1>2. CASE TradeInstruction
  <2>1. PICK w \in Wallets, m \in Mints :
            \/ \E p \in CreateParams : CreateToken(w, m, p)
            \/ \E n \in U64, lim \in U64 : Buy(w, m, n, lim) \/ Sell(w, m, n, lim)
    BY <1>2 DEF TradeInstruction
  <2>3. CASE \E p \in CreateParams : CreateToken(w, m, p)
    BY <2>3, CreateTokenKeepsInvariant
  <2>4. CASE \E n \in U64, lim \in U64 : Buy(w, m, n, lim) \/ Sell(w, m, n, lim)
    <3>1. PICK n \in U64, lim \in U64 : Buy(w, m, n, lim) \/ Sell(w, m, n, lim)
      BY <2>4
    <3> QED
      BY <3>1, BuyKeepsInvariant, SellKeepsInvariant
  <2> QED
    BY <2>1, <2>3, <2>4
<1>3. CASE GraduationStep
  BY <1>3, GraduateKeepsInvariant, SealKeepsInvariant DEF GraduationStep
<1>4. CASE StrayStep
  <2>1. PICK m \in Mints, n \in StrayAmounts :
            \/ \E w \in Wallets : StrayDeposit(w, m, n)
            \/ StrayTokens(m, n)
            \/ BurnTokens(m, n)
    BY <1>4 DEF StrayStep
  <2>2. n \in Nat \ {0} /\ n \in Nat
    BY InputsAssumption
  <2> QED
    BY <2>1, <2>2, StrayDepositKeepsInvariant, StrayTokensKeepInvariant
<1>5. CASE UNCHANGED vars
  <2>1. UNCHANGED <<config, launch, lamports, curveTokens, supply>>
    BY <1>5 DEF vars
  <2>2. CustodyInvariant'
    BY <2>1 DEF CustodyInvariant, TypeOK, ConfigStaysValid, NothingBeforeLaunch,
       VaultSolvent, TokenLedger, Circulating, Validate
  <2> QED
    BY <2>1, <2>2, NoPaymentIsBooked
<1> QED
  BY <1>1, <1>2, <1>3, <1>4, <1>5 DEF Instruction

\* The invariant the others follow from: no sequence of instructions, whoever
\* signs them with whatever arguments, takes an account out of its type, stores
\* a configuration validate would refuse, or lets the books of a launch and the
\* balances of its vault, its token account and its mint drift apart.
THEOREM ProgramKeepsCustody == ProgramSpec => []CustodyInvariant
<1>1. Init => CustodyInvariant
  BY InvariantAtStart
<1>2. CustodyInvariant /\ [Instruction]_vars => CustodyInvariant'
  BY InstructionKeepsInvariant
<1> QED
  BY <1>1, <1>2, PTL DEF ProgramSpec

\* No instruction takes lamports out of a vault that it does not take off the
\* books of a trading launch.
LEMMA ProgramBooksDebits == ProgramSpec => VaultDebitsBooked
<1>1. CustodyInvariant /\ [Instruction]_vars => [\A m \in Mints : DebitIsBooked(m)]_vars
  BY InstructionKeepsInvariant
<1> QED
  BY <1>1, ProgramKeepsCustody, PTL DEF ProgramSpec, VaultDebitsBooked

\* So the books and the balances agree however the signers of Spec interleave.
THEOREM CustodyHolds == Spec => []CustodyInvariant
BY SpecRunsProgram, ProgramKeepsCustody, PTL

\* Every account keeps its type, whatever is signed in whatever order.
THEOREM TypesHold == Spec => []TypeOK
<1>1. CustodyInvariant => TypeOK
  BY DEF CustodyInvariant
<1> QED
  BY <1>1, CustodyHolds, PTL

\* The stored configuration always passes validate.
THEOREM ConfigHolds == Spec => []ConfigStaysValid
<1>1. CustodyInvariant => ConfigStaysValid
  BY DEF CustodyInvariant
<1> QED
  BY <1>1, CustodyHolds, PTL

\* Every vault covers its launch's books.
THEOREM VaultsHold == Spec => []VaultSolvent
<1>1. CustodyInvariant => VaultSolvent
  BY DEF CustodyInvariant
<1> QED
  BY <1>1, CustodyHolds, PTL

\* Every launch's token books agree with its token account and its mint.
THEOREM TokensHold == Spec => []TokenLedger
<1>1. CustodyInvariant => TokenLedger
  BY DEF CustodyInvariant
<1> QED
  BY <1>1, CustodyHolds, PTL

\* No step takes lamports out of a vault that it does not take off the books of
\* a trading launch.
THEOREM DebitsHold == Spec => VaultDebitsBooked
BY SpecRunsProgram, ProgramBooksDebits, PTL
=============================================================================
