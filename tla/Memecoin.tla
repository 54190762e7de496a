------------------------------ MODULE Memecoin ------------------------------
(***************************************************************************)
(* The memecoin.io program: every instruction of lib.rs as an action.      *)
(*                                                                         *)
(* The runtime executes instructions one at a time and rolls a failing     *)
(* one back completely, so a handler is one atomic action: the guards are  *)
(* all of its error paths, wherever in the handler they sit, and the       *)
(* primed variables are what it has done when it returns Ok.  What is      *)
(* concurrent is the order of instructions signed by different wallets,    *)
(* each decided on a state that others may have changed in the meantime:   *)
(* an action is enabled for any signer and any argument, in any order.     *)
(*                                                                         *)
(* A transaction carries one instruction.  Left out: transaction fees and  *)
(* the rent deposits of new accounts, which only make some instructions    *)
(* fail that succeed here; the clock; the events, which nothing reads back.*)
(***************************************************************************)
EXTENDS CurveMath, FeeMath

CONSTANTS
    Mints,              \* the mint accounts launches may be created for
    Wallets,            \* the system accounts a person or a bot holds the key of
    Deployers,          \* those that sign the admin's instructions
    Traders,            \* those that sign create_token, buy and sell
    DefaultKey,         \* Pubkey::default(), nobody's key
    LbPairs,            \* the pool addresses a seal may pass
    NoConfig, NoLaunch, \* an account that is not initialized yet
    CurveAllocation, GraduationReserve, DefaultVirtualSol,
    DefaultVirtualTokens, MaxRealSolReserves,     \* TokenLaunch's constants
    RentMinimum,        \* what the runtime lets an account in use hold at least
    InitialLamports,    \* the wallets' balances at the start
    InitParams, ConfigUpdates, CreateParams,      \* arguments of the admin
    TradeSizes, SolLimits,                        \* arguments of the traders
    StrayAmounts        \* amounts moved without the program being called

\* Mutant of VaultOf: the seeds of the vault leave the mint out.
SharedVault(m) == <<"vault">>

\* The vault of a launch is an address derived from its mint, with no key.
VaultOf(m) == <<"vault", m>>
Vaults == {VaultOf(m) : m \in Mints}
Accounts == Wallets \cup Vaults
Pubkeys == Accounts \cup {DefaultKey}

-----------------------------------------------------------------------------
(* The two kinds of account the program owns. *)

ConfigType ==
    [admin                         : Pubkeys,
     dino_buyback_wallet           : Pubkeys,
     treasury_wallet               : Pubkeys,
     graduation_authority          : Pubkeys,
     trade_fee_bps                 : U16,
     trade_split_creator_bps       : U16,
     trade_split_dino_bps          : U16,
     trade_split_treasury_bps      : U16,
     creation_fee_lamports         : U64,
     creation_split_dino_bps       : U16,
     graduation_fee_lamports       : U64,
     graduation_split_dino_bps     : U16,
     graduation_threshold_lamports : U64,
     paused                        : BOOLEAN]

WalletFields == {"dino_buyback_wallet", "treasury_wallet", "graduation_authority"}
BpsFields == {"trade_fee_bps", "trade_split_creator_bps", "trade_split_dino_bps",
              "trade_split_treasury_bps", "creation_split_dino_bps",
              "graduation_split_dino_bps"}
LamportFields == {"creation_fee_lamports", "graduation_fee_lamports",
                  "graduation_threshold_lamports"}
ParamFields == WalletFields \cup BpsFields \cup LamportFields
ConfigFields == ParamFields \cup {"admin", "paused"}

LaunchType ==
    [creator                 : Wallets,
     real_sol_reserves       : U64,
     real_token_reserves     : U64,
     virtual_sol_reserves    : U64,
     virtual_token_reserves  : U64,
     tokens_sold             : U64,
     graduated               : BOOLEAN,
     pool_seeded             : BOOLEAN,
     meteora_lb_pair         : LbPairs \cup {DefaultKey},
     graduation_sol_lamports : U64,
     graduation_token_amount : U64]

\* Arguments are of the types the instructions declare.  An update is the
\* function of its Some(_) fields, so new_admin is its field "admin".
TypedParams(p) == /\ \A f \in DOMAIN p \cap (WalletFields \cup {"admin"}) : p[f] \in Pubkeys
                  /\ \A f \in DOMAIN p \cap BpsFields : p[f] \in U16
                  /\ \A f \in DOMAIN p \cap LamportFields : p[f] \in U64

ASSUME AccountsAssumption ==
    /\ Deployers \subseteq Wallets /\ Traders \subseteq Wallets
    /\ Wallets \cap (Vaults \cup {DefaultKey}) = {}
    /\ DefaultKey \notin Vaults
    /\ NoConfig \notin ConfigType
    /\ NoLaunch \notin LaunchType

ASSUME AllocationAssumption ==
    /\ CurveAllocation \in Nat \ {0}
    /\ GraduationReserve \in Nat \ {0}
    /\ DefaultVirtualSol \in Nat \ {0}
    /\ DefaultVirtualTokens \in Nat
    /\ MaxRealSolReserves \in Nat \ {0}
    /\ CurveAllocation < DefaultVirtualTokens
    /\ CurveAllocation + GraduationReserve <= U64Max
    /\ DefaultVirtualTokens <= U64Max
    /\ DefaultVirtualSol + MaxRealSolReserves <= U64Max

ASSUME RentAssumption == RentMinimum \in Nat

ASSUME InputsAssumption ==
    /\ InitialLamports \in [Wallets -> Nat]
    /\ \A p \in InitParams : DOMAIN p = ParamFields /\ TypedParams(p)
    /\ \A p \in ConfigUpdates : DOMAIN p \subseteq ParamFields \cup {"admin"} /\ TypedParams(p)
    /\ CreateParams \subseteq [name : Nat, symbol : Nat, uri : Nat]
    /\ TradeSizes \subseteq U64
    /\ SolLimits \subseteq U64
    /\ StrayAmounts \subseteq Nat \ {0}

-----------------------------------------------------------------------------
VARIABLES
    config,       \* the Config account
    launch,       \* the TokenLaunch account of each mint
    lamports,     \* the balance of each system account
    curveTokens,  \* of each mint, the tokens in accounts the launch PDA owns
    supply        \* the supply recorded in each mint

vars == <<config, launch, lamports, curveTokens, supply>>

\* The tokens of m held outside the curve.  Holders move them between each
\* other at will, so how they are spread over wallets is not tracked: whoever
\* sells n tokens, at least n are in circulation.
Circulating(m) == supply[m] - curveTokens[m]

Initialized == config # NoConfig
Launched(m) == launch[m] # NoLaunch
Trading(m) == Launched(m) /\ ~launch[m].graduated

Init ==
    /\ config = NoConfig
    /\ launch = [m \in Mints |-> NoLaunch]
    /\ lamports = [a \in Accounts |-> IF a \in Wallets THEN InitialLamports[a] ELSE 0]
    /\ curveTokens = [m \in Mints |-> 0]
    /\ supply = [m \in Mints |-> 0]

-----------------------------------------------------------------------------
(* Transfers of the system program. *)

\* The balances after from has sent n lamports to to.
Moved(bal, from, to, n) ==
    [a \in DOMAIN bal |-> bal[a] - (IF a = from THEN n ELSE 0)
                                 + (IF a = to THEN n ELSE 0)]

\* Shares are sent one after the other, each out of what the payer then has.
\* A share of zero is skipped in the code and moves nothing here.
PaidToPlatform(bal, from, c, s) ==
    Moved(Moved(bal, from, c.dino_buyback_wallet, s.dino), from, c.treasury_wallet, s.treasury)

\* Mutant of CanPayPlatform: both shares are held against the first balance.
CanPayEitherShare(bal, from, c, s) ==
    /\ s.dino <= bal[from]
    /\ s.treasury <= bal[from]

CanPayPlatform(bal, from, c, s) ==
    /\ s.dino <= bal[from]
    /\ s.treasury <= Moved(bal, from, c.dino_buyback_wallet, s.dino)[from]

PaidShares(bal, from, c, creator, s) ==
    PaidToPlatform(Moved(bal, from, creator, s.creator), from, c, s)

CanPayShares(bal, from, c, creator, s) ==
    /\ s.creator <= bal[from]
    /\ CanPayPlatform(Moved(bal, from, creator, s.creator), from, c, s)

\* The runtime rolls back a transaction that leaves a system account with fewer
\* lamports than the rent-exemption minimum, unless it is empty or already had
\* too few and got none.
RentOk(before, after) ==
    \A a \in DOMAIN after : after[a] \in 1 .. RentMinimum - 1 =>
        before[a] \in 1 .. RentMinimum - 1 /\ after[a] <= before[a]

-----------------------------------------------------------------------------
(* The admin's instructions. *)

\* Config::validate.  graduation_fee_lamports and creation_fee_lamports are
\* not looked at.
Validate(c) ==
    /\ c.trade_fee_bps <= 1000
    /\ c.trade_split_creator_bps + c.trade_split_dino_bps + c.trade_split_treasury_bps
          = BpsDenominator
    /\ c.creation_split_dino_bps <= BpsDenominator
    /\ c.graduation_split_dino_bps <= BpsDenominator
    /\ c.graduation_threshold_lamports # 0
    /\ c.graduation_threshold_lamports <= MaxRealSolReserves
    /\ c.graduation_authority # DefaultKey

\* Whoever gets there first becomes the admin; the account cannot be
\* initialized twice.
NewConfig(s, p) ==
    [f \in ConfigFields |-> CASE f = "admin"  -> s
                              [] f = "paused" -> FALSE
                              [] OTHER        -> p[f]]

InitializeConfig(s, p) ==
    /\ ~Initialized
    /\ \A f \in WalletFields : p[f] # DefaultKey
    /\ Validate(NewConfig(s, p))
    /\ config' = NewConfig(s, p)
    /\ UNCHANGED <<launch, lamports, curveTokens, supply>>

Updated(c, p) == [f \in ConfigFields |-> IF f \in DOMAIN p THEN p[f] ELSE c[f]]

\* Mutant of UpdateConfig: validates what is stored, then stores the update.
UpdateAfterValidating(s, p) ==
    /\ Initialized
    /\ s = config.admin
    /\ \A f \in DOMAIN p \cap WalletFields : p[f] # DefaultKey
    /\ Validate(config)
    /\ config' = Updated(config, p)
    /\ UNCHANGED <<launch, lamports, curveTokens, supply>>

UpdateConfig(s, p) ==
    /\ Initialized
    /\ s = config.admin
    /\ \A f \in DOMAIN p \cap WalletFields : p[f] # DefaultKey
    /\ Validate(Updated(config, p))
    /\ config' = Updated(config, p)
    /\ UNCHANGED <<launch, lamports, curveTokens, supply>>

\* Mutant of SetPaused: anybody who deploys may pause.
SetPausedByAnyone(s, b) ==
    /\ Initialized
    /\ config' = [config EXCEPT !.paused = b]
    /\ UNCHANGED <<launch, lamports, curveTokens, supply>>

SetPaused(s, b) ==
    /\ Initialized
    /\ s = config.admin
    /\ config' = [config EXCEPT !.paused = b]
    /\ UNCHANGED <<launch, lamports, curveTokens, supply>>

-----------------------------------------------------------------------------
(* create_token: the name, symbol and uri are their lengths. *)

NewLaunch(creator) ==
    [creator                 |-> creator,
     real_sol_reserves       |-> 0,
     real_token_reserves     |-> CurveAllocation,
     virtual_sol_reserves    |-> DefaultVirtualSol,
     virtual_token_reserves  |-> DefaultVirtualTokens,
     tokens_sold             |-> 0,
     graduated               |-> FALSE,
     pool_seeded             |-> FALSE,
     meteora_lb_pair         |-> DefaultKey,
     graduation_sol_lamports |-> 0,
     graduation_token_amount |-> 0]

CreateToken(c, m, p) ==
    LET shares == SplitTwoWay(config.creation_fee_lamports, config.creation_split_dino_bps)
    IN  /\ Initialized /\ ~Launched(m)
        /\ ~config.paused
        /\ p.name <= 32 /\ p.symbol <= 10 /\ p.uri <= 200
        /\ SplitTwoWayOk(config.creation_fee_lamports, config.creation_split_dino_bps)
        /\ CanPayPlatform(lamports, c, config, shares)
        /\ launch' = [launch EXCEPT ![m] = NewLaunch(c)]
        /\ lamports' = PaidToPlatform(lamports, c, config, shares)
        /\ RentOk(lamports, lamports')
        /\ curveTokens' = [curveTokens EXCEPT ![m] = @ + CurveAllocation]
        /\ supply' = [supply EXCEPT ![m] = @ + CurveAllocation]
        /\ UNCHANGED config

-----------------------------------------------------------------------------
(* The conditions that buy, sell and graduate start with. *)

\* Mutants of TradingOpen: one of the two conditions is forgotten.
OpenAfterGraduation(m) == Initialized /\ Launched(m) /\ ~config.paused
OpenWhilePaused(m) == Initialized /\ Trading(m)

TradingOpen(m) == Initialized /\ Trading(m) /\ ~config.paused

-----------------------------------------------------------------------------
(* buy: exactly n tokens, for at most maxIn lamports with the fee. *)

BuyQuoteOk(l, n) ==
    SolInOk(l.virtual_sol_reserves, l.virtual_token_reserves, l.real_sol_reserves,
            l.real_token_reserves, n)
BuyCost(l, n) ==
    SolIn(l.virtual_sol_reserves, l.virtual_token_reserves, l.real_sol_reserves, n)

TradeShares(c, fee) ==
    SplitThreeWay(fee, c.trade_split_creator_bps, c.trade_split_dino_bps)
TradeSharesOk(c, fee) ==
    SplitThreeWayOk(fee, c.trade_split_creator_bps, c.trade_split_dino_bps)

\* Mutant of BuyTotal: the bound is held against the price without the fee.
BuyTotalBeforeFee(cost, fee) == cost

\* What max_sol_in bounds.
BuyTotal(cost, fee) == cost + fee

\* Mutant of AfterBuy: the virtual tokens stay as they were created, which is
\* how the program once was.
AfterBuyFixedCurve(l, n, cost) ==
    [l EXCEPT !.real_sol_reserves   = @ + cost,
              !.real_token_reserves = @ - n,
              !.tokens_sold         = @ + n]

\* The four updates of the curve state, for a purchase of n at cost.
AfterBuy(l, n, cost) ==
    [l EXCEPT !.real_sol_reserves      = @ + cost,
              !.real_token_reserves    = @ - n,
              !.virtual_token_reserves = @ - n,
              !.tokens_sold            = @ + n]

\* n is checked against all the token accounts of the launch together; the code
\* debits the one it is passed.
CanBuy(b, m, n, maxIn) ==
    LET l    == launch[m]
        cost == BuyCost(l, n)
        fee  == TradeFee(cost, config.trade_fee_bps)
    IN  /\ TradingOpen(m)
        /\ BuyQuoteOk(l, n)
        /\ BuyTotal(cost, fee) \in U64 /\ BuyTotal(cost, fee) <= maxIn
        /\ cost <= lamports[b]
        /\ TradeSharesOk(config, fee)
        /\ CanPayShares(Moved(lamports, b, VaultOf(m), cost), b, config, l.creator,
                        TradeShares(config, fee))
        /\ n <= curveTokens[m]
        /\ l.real_sol_reserves + cost <= MaxRealSolReserves
        /\ l.tokens_sold + n \in U64

Buy(b, m, n, maxIn) ==
    LET l    == launch[m]
        cost == BuyCost(l, n)
        fee  == TradeFee(cost, config.trade_fee_bps)
    IN  /\ CanBuy(b, m, n, maxIn)
        /\ launch' = [launch EXCEPT ![m] = AfterBuy(l, n, cost)]
        /\ lamports' = PaidShares(Moved(lamports, b, VaultOf(m), cost), b, config, l.creator,
                                  TradeShares(config, fee))
        /\ RentOk(lamports, lamports')
        /\ curveTokens' = [curveTokens EXCEPT ![m] = @ - n]
        /\ UNCHANGED <<config, supply>>

-----------------------------------------------------------------------------
(* sell: exactly n tokens, for at least minOut lamports net of the fee. *)

SellQuoteOk(l, n) ==
    SolOutOk(l.virtual_sol_reserves, l.virtual_token_reserves, l.real_sol_reserves, n)
SellGross(l, n) ==
    SolOut(l.virtual_sol_reserves, l.virtual_token_reserves, l.real_sol_reserves, n)

\* Mutants of AfterSell: the lamports paid stay on the books; tokens_sold counts
\* purchases only.
AfterSellUnbooked(l, n, gross) ==
    [l EXCEPT !.real_token_reserves    = @ + n,
              !.virtual_token_reserves = @ + n,
              !.tokens_sold            = IF n <= @ THEN @ - n ELSE 0]
AfterSellLifetime(l, n, gross) ==
    [l EXCEPT !.real_sol_reserves      = @ - gross,
              !.real_token_reserves    = @ + n,
              !.virtual_token_reserves = @ + n]

\* tokens_sold is decremented with saturating_sub.
AfterSell(l, n, gross) ==
    [l EXCEPT !.real_sol_reserves      = @ - gross,
              !.real_token_reserves    = @ + n,
              !.virtual_token_reserves = @ + n,
              !.tokens_sold            = IF n <= @ THEN @ - n ELSE 0]

\* Everything the program refuses a sale for, the seller's tokens aside.
CanSell(s, m, n, minOut) ==
    LET l     == launch[m]
        gross == SellGross(l, n)
        fee   == TradeFee(gross, config.trade_fee_bps)
    IN  /\ TradingOpen(m)
        /\ SellQuoteOk(l, n)
        /\ gross <= l.real_sol_reserves
        /\ fee <= gross /\ gross - fee >= minOut
        /\ TradeSharesOk(config, fee)
        /\ gross - fee <= lamports[VaultOf(m)]
        /\ CanPayShares(Moved(lamports, VaultOf(m), s, gross - fee), VaultOf(m), config,
                        l.creator, TradeShares(config, fee))
        /\ l.real_token_reserves + n \in U64
        /\ l.virtual_token_reserves + n \in U64

\* Mutant of AfterPayout: the fee is not taken out of what the seller gets.
PayoutWithoutFee(s, m, gross, fee) ==
    PaidShares(Moved(lamports, VaultOf(m), s, gross), VaultOf(m), config,
               launch[m].creator, TradeShares(config, fee))

\* The seller is paid first, then the shares of the fee, all from the vault.
AfterPayout(s, m, gross, fee) ==
    PaidShares(Moved(lamports, VaultOf(m), s, gross - fee), VaultOf(m), config,
               launch[m].creator, TradeShares(config, fee))

Sell(s, m, n, minOut) ==
    LET l     == launch[m]
        gross == SellGross(l, n)
        fee   == TradeFee(gross, config.trade_fee_bps)
    IN  /\ CanSell(s, m, n, minOut)
        /\ n <= Circulating(m)
        /\ launch' = [launch EXCEPT ![m] = AfterSell(l, n, gross)]
        /\ lamports' = AfterPayout(s, m, gross, fee)
        /\ RentOk(lamports, lamports')
        /\ curveTokens' = [curveTokens EXCEPT ![m] = @ + n]
        /\ UNCHANGED <<config, supply>>

-----------------------------------------------------------------------------
(* graduate, by anyone, and the seal of the graduation authority. *)

\* Mutant of AfterGraduation: the snapshot is taken before the fee.
AfterGraduationGross(l, fee) ==
    [l EXCEPT !.graduated               = TRUE,
              !.graduation_sol_lamports = l.real_sol_reserves,
              !.graduation_token_amount = GraduationReserve,
              !.real_sol_reserves       = 0,
              !.real_token_reserves     = 0]

\* Mutant of AfterGraduation: the curve's SOL stays on the books.
AfterGraduationKeepsBooks(l, fee) ==
    [l EXCEPT !.graduated               = TRUE,
              !.graduation_sol_lamports = l.real_sol_reserves - fee,
              !.graduation_token_amount = GraduationReserve,
              !.real_token_reserves     = 0]

AfterGraduation(l, fee) ==
    [l EXCEPT !.graduated               = TRUE,
              !.pool_seeded             = FALSE,
              !.meteora_lb_pair         = DefaultKey,
              !.graduation_sol_lamports = l.real_sol_reserves - fee,
              !.graduation_token_amount = GraduationReserve,
              !.real_sol_reserves       = 0,
              !.real_token_reserves     = 0]

\* The two shares of the fee come out of the vault first, then the rest.
CanGraduate(m) ==
    LET l      == launch[m]
        fee    == config.graduation_fee_lamports
        shares == SplitTwoWay(fee, config.graduation_split_dino_bps)
    IN  /\ TradingOpen(m)
        /\ l.real_sol_reserves >= config.graduation_threshold_lamports
        /\ l.real_sol_reserves >= fee
        /\ SplitTwoWayOk(fee, config.graduation_split_dino_bps)
        /\ CanPayPlatform(lamports, VaultOf(m), config, shares)
        /\ l.real_sol_reserves - fee
              <= PaidToPlatform(lamports, VaultOf(m), config, shares)[VaultOf(m)]
        /\ supply[m] + GraduationReserve \in U64

Graduate(m) ==
    LET l      == launch[m]
        fee    == config.graduation_fee_lamports
        shares == SplitTwoWay(fee, config.graduation_split_dino_bps)
    IN  /\ CanGraduate(m)
        /\ launch' = [launch EXCEPT ![m] = AfterGraduation(l, fee)]
        /\ lamports' = Moved(PaidToPlatform(lamports, VaultOf(m), config, shares),
                             VaultOf(m), config.graduation_authority,
                             l.real_sol_reserves - fee)
        /\ RentOk(lamports, lamports')
        /\ supply' = [supply EXCEPT ![m] = @ + GraduationReserve]
        /\ UNCHANGED <<config, curveTokens>>

SealGraduation(s, m, lb) ==
    /\ Initialized /\ Launched(m)
    /\ s = config.graduation_authority
    /\ ~config.paused
    /\ launch[m].graduated
    /\ ~launch[m].pool_seeded
    /\ lb # DefaultKey
    /\ launch' = [launch EXCEPT ![m].pool_seeded = TRUE, ![m].meteora_lb_pair = lb]
    /\ UNCHANGED <<config, lamports, curveTokens, supply>>

-----------------------------------------------------------------------------
(* What the system and token programs let anyone do without this program:  *)
(* send lamports to a vault, whose address is public, send tokens to the   *)
(* launch's token account, and burn tokens of one's own.                   *)

StrayDeposit(w, m, n) ==
    /\ n <= lamports[w]
    /\ lamports' = Moved(lamports, w, VaultOf(m), n)
    /\ RentOk(lamports, lamports')
    /\ UNCHANGED <<config, launch, curveTokens, supply>>

StrayTokens(m, n) ==
    /\ Launched(m) /\ n <= Circulating(m)
    /\ curveTokens' = [curveTokens EXCEPT ![m] = @ + n]
    /\ UNCHANGED <<config, launch, lamports, supply>>

BurnTokens(m, n) ==
    /\ n <= Circulating(m)
    /\ supply' = [supply EXCEPT ![m] = @ - n]
    /\ UNCHANGED <<config, launch, lamports, curveTokens>>

-----------------------------------------------------------------------------
AdminStep ==
    \E s \in Deployers :
        \/ \E p \in InitParams : InitializeConfig(s, p)
        \/ \E p \in ConfigUpdates : UpdateConfig(s, p)
        \/ \E b \in BOOLEAN : SetPaused(s, b)

TradeStep ==
    \E w \in Traders, m \in Mints :
        \/ \E p \in CreateParams : CreateToken(w, m, p)
        \/ \E n \in TradeSizes, lim \in SolLimits : Buy(w, m, n, lim) \/ Sell(w, m, n, lim)

GraduationStep ==
    \E m \in Mints :
        \/ Graduate(m)
        \/ \E s \in Wallets, lb \in LbPairs \cup {DefaultKey} : SealGraduation(s, m, lb)

StrayStep ==
    \E m \in Mints, n \in StrayAmounts :
        \/ \E w \in Wallets : StrayDeposit(w, m, n)
        \/ StrayTokens(m, n)
        \/ BurnTokens(m, n)

Next == AdminStep \/ TradeStep \/ GraduationStep \/ StrayStep

Spec == Init /\ [][Next]_vars
=============================================================================
