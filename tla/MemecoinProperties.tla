------------------------- MODULE MemecoinProperties -------------------------
(***************************************************************************)
(* What the program promises its users, as properties of Memecoin's Spec.  *)
(***************************************************************************)
EXTENDS Memecoin

\* The curve's invariant product, the k of utils.rs.
CurveK(l) == (l.virtual_sol_reserves + l.real_sol_reserves) * l.virtual_token_reserves

\* Every field keeps the width and the kind of value the accounts declare; no
\* checked subtraction of the handlers is ever made below zero.
TypeOK ==
    /\ config \in ConfigType \cup {NoConfig}
    /\ launch \in [Mints -> LaunchType \cup {NoLaunch}]
    /\ lamports \in [Accounts -> Nat]
    /\ curveTokens \in [Mints -> Nat]
    /\ supply \in [Mints -> U64]

\* Whatever sequence of partial updates is accepted, the stored configuration
\* passes validate and names three usable wallets: update_config checks the
\* merged record, not the fields it was sent.
ConfigStaysValid ==
    Initialized => /\ Validate(config)
                   /\ \A f \in WalletFields : config[f] # DefaultKey

\* A vault always holds at least what its launch's books say, also when
\* strangers send lamports to it and when a fee wallet is a vault itself, and
\* the books never exceed the beta cap.
VaultSolvent ==
    \A m \in Mints : Launched(m) =>
        /\ launch[m].real_sol_reserves <= lamports[VaultOf(m)]
        /\ launch[m].real_sol_reserves <= MaxRealSolReserves

\* The admin never names the vault of a launch as one of the three wallets.
NoVaultNamed ==
    \A p \in InitParams \cup ConfigUpdates :
        \A f \in DOMAIN p \cap WalletFields : p[f] \notin Vaults

\* When nobody sends lamports around the program and no fee wallet is a vault,
\* a vault holds exactly what the books say, and never more than the beta cap.
VaultMatchesLedger ==
    \A m \in Mints :
        /\ lamports[VaultOf(m)] = IF Launched(m) THEN launch[m].real_sol_reserves ELSE 0
        /\ lamports[VaultOf(m)] <= MaxRealSolReserves

\* The token books of a launch agree with the token program: real and virtual
\* reserves move in step with tokens_sold, the tokens still for sale are there
\* to be delivered, and what circulates was sold by the curve (or minted at
\* graduation), so that sell's saturating_sub never saturates.
TokenLedger ==
    \A m \in Mints : Launched(m) =>
        LET l == launch[m]
        IN  /\ l.virtual_sol_reserves = DefaultVirtualSol
            /\ l.virtual_token_reserves + l.tokens_sold = DefaultVirtualTokens
            /\ l.real_token_reserves =
                  IF l.graduated THEN 0 ELSE CurveAllocation - l.tokens_sold
            /\ l.real_token_reserves <= curveTokens[m]
            /\ Circulating(m) \in 0 .. l.tokens_sold + l.graduation_token_amount
            /\ supply[m] <= CurveAllocation + l.graduation_token_amount
            /\ l.graduation_token_amount = IF l.graduated THEN GraduationReserve ELSE 0

\* Before a launch is created there is nothing of its token.
NothingBeforeLaunch ==
    \A m \in Mints : ~Launched(m) => supply[m] = 0 /\ curveTokens[m] = 0

\* The two books of every launch together with what they rest on: the
\* invariant that every step preserves.
CustodyInvariant ==
    TypeOK /\ ConfigStaysValid /\ NothingBeforeLaunch /\ VaultSolvent /\ TokenLedger

\* Nobody is locked in: while a launch trades and the program is not paused, no
\* check of sell refuses any amount in circulation, whoever sells it: no checked
\* operation fails and the vault can pay every share.  What is left to refuse a
\* sale is the runtime's rent rule, and it does not where the vault keeps the
\* minimum and those who are paid have it already.
Redeemable ==
    \A m \in Mints : Trading(m) /\ Initialized /\ ~config.paused =>
        \A s \in Wallets, n \in 1 .. Circulating(m) :
            LET gross == SellGross(launch[m], n)
                fee   == TradeFee(gross, config.trade_fee_bps)
                paid  == {s, launch[m].creator, config.dino_buyback_wallet, config.treasury_wallet}
            IN  /\ CanSell(s, m, n, 0)
                /\ lamports[VaultOf(m)] - gross >= RentMinimum
                   /\ (\A a \in paid : lamports[a] >= RentMinimum)
                   => RentOk(lamports, AfterPayout(s, m, gross, fee))

\* Buying and at once selling the same tokens never returns more than was
\* paid, even when no fee is charged.
NoInstantProfit ==
    \A m \in Mints, n \in TradeSizes : Trading(m) /\ BuyQuoteOk(launch[m], n) =>
        LET cost == BuyCost(launch[m], n)
        IN  SellGross(AfterBuy(launch[m], n, cost), n) <= cost

\* What CurveCanFill needs of the constants: at the prices the curve reaches, a
\* lamport buys a token at least, and the tokens for sale last until the cap.
\* The program's constants are far on the safe side of both.
FineCurve ==
    LET most == DefaultVirtualSol + MaxRealSolReserves
        k    == DefaultVirtualSol * DefaultVirtualTokens
    IN  /\ most * most <= k
        /\ (DefaultVirtualTokens - CurveAllocation) * most <= k

\* A launch is never stranded between the threshold and the cap, even where the
\* two are equal as in the beta: unless sales have eroded k below its initial
\* value, from wherever trading has led some purchase within the reserves lands
\* at or above the threshold and within the cap.
CurveCanFill ==
    \A m \in Mints : Initialized /\ Trading(m) =>
        LET l == launch[m]
            T == config.graduation_threshold_lamports
        IN  l.real_sol_reserves < T /\ CurveK(l) >= DefaultVirtualSol * DefaultVirtualTokens =>
            \E n \in 1 .. l.real_token_reserves :
                /\ BuyQuoteOk(l, n)
                /\ l.real_sol_reserves + BuyCost(l, n) \in T .. MaxRealSolReserves

\* While the program is not paused, a launch whose curve has reached the threshold
\* and covers the graduation fee can graduate: whatever was traded, deposited or
\* burned before, and whichever accounts the fee goes to, no other check of
\* graduate fails (the runtime's rent rule, which CanGraduate leaves out, aside).
GraduableIfCovered ==
    \A m \in Mints :
        /\ Initialized /\ Trading(m) /\ ~config.paused
        /\ launch[m].real_sol_reserves >= config.graduation_threshold_lamports
        /\ launch[m].real_sol_reserves >= config.graduation_fee_lamports
        => CanGraduate(m)

-----------------------------------------------------------------------------
(* What a step may never do. *)

\* m traded, and its virtual tokens went down (a purchase) or up (a sale).
Bought(m) == /\ Trading(m) /\ Trading(m)'
             /\ launch'[m].virtual_token_reserves < launch[m].virtual_token_reserves
Sold(m)   == /\ Trading(m) /\ Trading(m)'
             /\ launch'[m].virtual_token_reserves > launch[m].virtual_token_reserves

\* A purchase is never free and never lowers k: rounding is in the curve's
\* favour ("round up so the curve never gives away dust").
BuysNeverDilute ==
    [][\A m \in Mints : Bought(m) =>
          /\ launch'[m].real_sol_reserves > launch[m].real_sol_reserves
          /\ CurveK(launch'[m]) >= CurveK(launch[m])]_vars

\* A sale rounds in the seller's favour, by less than one lamport: one lamport
\* more in the vault would have kept k from falling.
SalesOverpayUnderOneLamport ==
    [][\A m \in Mints : Sold(m) =>
          CurveK(launch'[m]) + launch'[m].virtual_token_reserves > CurveK(launch[m])]_vars

\* Lamports leave a vault only as far as the same step takes them off that
\* launch's books; nothing else ever debits a vault.
DebitIsBooked(m) ==
    lamports'[VaultOf(m)] < lamports[VaultOf(m)] =>
       /\ Trading(m)
       /\ launch[m].real_sol_reserves - launch'[m].real_sol_reserves
             >= lamports[VaultOf(m)] - lamports'[VaultOf(m)]
VaultDebitsBooked == [][\A m \in Mints : DebitIsBooked(m)]_vars

\* A buyer's wallet is debited at most max_sol_in and a seller's credited at
\* least min_sol_out, all fees included and whoever else the wallet is.
SlippageHonoured ==
    [][\A w \in Traders, m \in Mints, n \in TradeSizes, lim \in SolLimits :
          /\ Buy(w, m, n, lim) => lamports[w] - lamports'[w] <= lim
          /\ Sell(w, m, n, lim) => lamports'[w] - lamports[w] >= lim]_vars

\* Graduation is irreversible and closes the curve: afterwards the launch only
\* ever gets its pool recorded, once, its vault is not debited and nothing more
\* is minted.
GraduationIsFinal ==
    [][\A m \in Mints : Launched(m) /\ launch[m].graduated =>
          /\ \/ launch'[m] = launch[m]
             \/ /\ ~launch[m].pool_seeded
                /\ \E lb \in LbPairs \ {DefaultKey} :
                      launch'[m] = [launch[m] EXCEPT !.pool_seeded = TRUE,
                                                     !.meteora_lb_pair = lb]
          /\ lamports'[VaultOf(m)] >= lamports[VaultOf(m)]
          /\ supply'[m] <= supply[m]]_vars

\* The amounts graduate leaves on chain for audit are the amounts it moved:
\* the snapshot and the fee add up to the curve's SOL, all of which leaves the
\* vault, and the snapshot of tokens is what was minted.
HandOffAudited ==
    [][\A m \in Mints : Trading(m) /\ ~Trading(m)' =>
          LET l == launch'[m]
          IN  /\ l.graduation_sol_lamports + config.graduation_fee_lamports
                    = launch[m].real_sol_reserves
              /\ lamports[VaultOf(m)] - lamports'[VaultOf(m)] = launch[m].real_sol_reserves
              /\ supply'[m] - supply[m] = l.graduation_token_amount]_vars

\* While the program is paused no launch changes in any way and no vault is
\* debited, whichever instruction is tried.
PauseStopsCustody ==
    [][Initialized /\ config.paused =>
          /\ launch' = launch
          /\ \A m \in Mints : lamports'[VaultOf(m)] >= lamports[VaultOf(m)]]_vars

\* Once the admin's key is lost, nothing in the configuration changes any more: a
\* launch paused by then is paused for good, with its holders' SOL in the vault.
LostAdminFreezes ==
    [][Initialized /\ config.admin \notin Deployers => config' = config]_vars
=============================================================================
