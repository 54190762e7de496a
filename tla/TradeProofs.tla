---------------------------- MODULE TradeProofs ----------------------------
(***************************************************************************)
(* What no single step of Memecoin does to a launch, to a trader or to a   *)
(* graduated curve: the action properties, from the invariant of           *)
(* MemecoinProofs and the bounds on quotes of CurveProofs.                 *)
(***************************************************************************)
EXTENDS MemecoinProofs

USE DEF Initialized, Launched

\* The ways in which a launch account that exists can change.
LEMMA LaunchChanges ==
    ASSUME TypeOK, [Instruction]_vars, NEW m \in Mints, Launched(m), launch'[m] # launch[m]
    PROVE  \/ \E b \in Wallets, n \in U64, lim \in U64 : Buy(b, m, n, lim)
           \/ \E s \in Wallets, n \in U64, lim \in U64 : Sell(s, m, n, lim)
           \/ Graduate(m)
           \/ \E s \in Wallets, lb \in LbPairs \cup {DefaultKey} : SealGraduation(s, m, lb)
<1>1. ~AdminInstruction /\ ~StrayStep /\ ~UNCHANGED vars
  BY DEF AdminInstruction, StrayStep, InitializeConfig, UpdateConfig, SetPaused,
     StrayDeposit, StrayTokens, BurnTokens, vars
<1>2. CASE TradeInstruction
  <2>1. PICK w \in Wallets, o \in Mints :
            \/ \E p \in CreateParams : CreateToken(w, o, p)
            \/ \E n \in U64, lim \in U64 : Buy(w, o, n, lim) \/ Sell(w, o, n, lim)
    BY <1>2 DEF TradeInstruction
  <2>2. o = m
    BY <2>1 DEF CreateToken, Buy, Sell, TypeOK
  <2>3. ~ \E p \in CreateParams : CreateToken(w, o, p)
    BY <2>2 DEF CreateToken
  <2> QED
    BY <2>1, <2>2, <2>3, AccountsAssumption, InputsAssumption
<1>3. CASE GraduationStep
  <2>1. PICK o \in Mints :
            \/ Graduate(o)
            \/ \E s \in Wallets, lb \in LbPairs \cup {DefaultKey} : SealGraduation(s, o, lb)
    BY <1>3 DEF GraduationStep
  <2>2. o = m
    BY <2>1 DEF Graduate, SealGraduation, TypeOK
  <2> QED
    BY <2>1, <2>2
<1> QED
  BY <1>1, <1>2, <1>3 DEF Instruction

\* While a launch trades on, its virtual tokens change by a purchase or a sale.
LEMMA TradingChanges ==
    ASSUME CustodyInvariant, [Instruction]_vars, NEW m \in Mints, Trading(m), Trading(m)',
           launch'[m] # launch[m]
    PROVE  \/ \E b \in Wallets, n \in U64, lim \in U64 : Buy(b, m, n, lim)
           \/ \E s \in Wallets, n \in U64, lim \in U64 : Sell(s, m, n, lim)
<1>1. TypeOK /\ Launched(m) /\ ~launch[m].graduated /\ ~launch'[m].graduated
  BY DEF CustodyInvariant, Trading
<1>2. ~Graduate(m)
  <2>1. SUFFICES ASSUME Graduate(m) PROVE FALSE
    OBVIOUS
  <2>2. launch'[m] = AfterGraduation(launch[m], config.graduation_fee_lamports)
    BY <2>1 DEF Graduate, CustodyInvariant, TypeOK
  <2>3. launch[m] \in LaunchType
    BY <1>1 DEF TypeOK
  <2> QED
    BY <1>1, <2>2, <2>3 DEF AfterGraduation, LaunchType
<1>3. ~ \E s \in Wallets, lb \in LbPairs \cup {DefaultKey} : SealGraduation(s, m, lb)
  BY <1>1 DEF SealGraduation
<1> QED
  BY <1>1, <1>2, <1>3, LaunchChanges

-----------------------------------------------------------------------------
(* The curve. *)

\* A purchase raises real_sol_reserves, and k does not fall.
LEMMA BuyKeepsCurve ==
    ASSUME CustodyInvariant, NEW m \in Mints, NEW b, NEW n \in U64, NEW lim, Buy(b, m, n, lim)
    PROVE  /\ launch'[m].real_sol_reserves > launch[m].real_sol_reserves
           /\ launch'[m].virtual_token_reserves < launch[m].virtual_token_reserves
           /\ CurveK(launch'[m]) >= CurveK(launch[m])
<1> DEFINE l == launch[m]
           vs == l.virtual_sol_reserves
           vt == l.virtual_token_reserves
           rs == l.real_sol_reserves
           cost == SolIn(vs, vt, rs, n)
<1>1. Launched(m) /\ BuyQuoteOk(l, n)
  BY DEF Buy, CanBuy, TradingOpen, Trading
<1>2. l \in LaunchType /\ vs = DefaultVirtualSol
  BY <1>1, LaunchState DEF Books
<1>3. vs \in Nat /\ vs > 0 /\ vt \in Nat /\ rs \in Nat /\ n \in Nat
  BY <1>2, LaunchAmounts, AllocationAssumption, WidthsAreNat
<1>4. n > 0 /\ n < vt
  <2>1. n > 0 /\ vt - n >= 1
    BY <1>1 DEF BuyQuoteOk, SolInOk
  <2> HIDE DEF vt
  <2> QED
    BY <1>3, <2>1
<1>5. launch'[m] = AfterBuy(l, n, cost)
  BY DEF Buy, BuyCost, CustodyInvariant, TypeOK
<1>6. /\ launch'[m].real_sol_reserves = rs + cost
      /\ launch'[m].virtual_token_reserves = vt - n
      /\ launch'[m].virtual_sol_reserves = vs
  BY <1>2, <1>5 DEF AfterBuy, LaunchType
<1> HIDE DEF vs, vt, rs
<1>7. /\ cost \in Nat /\ cost > 0
      /\ (vs + rs) * vt <= (vs + rs + cost) * (vt - n)
  BY <1>3, <1>4, BuyKeepsK
<1> HIDE DEF cost
<1>8. vs + (rs + cost) = vs + rs + cost
  BY <1>3, <1>7
<1>9. CurveK(launch'[m]) >= CurveK(launch[m])
  <2>1. CurveK(launch[m]) = (vs + rs) * vt
    BY DEF CurveK, vs, rs, vt
  <2>2. CurveK(launch'[m]) = (vs + rs + cost) * (vt - n)
    BY <1>6, <1>8 DEF CurveK
  <2>3. (vs + rs) * vt \in Int /\ (vs + rs + cost) * (vt - n) \in Int
    BY <1>3, <1>7
  <2> QED
    BY <1>7, <2>1, <2>2, <2>3
<1>10. rs + cost > rs /\ vt - n < vt
  BY <1>3, <1>4, <1>7
<1> QED
  BY <1>6, <1>9, <1>10 DEF rs, vt

\* A sale raises the virtual tokens, and k falls by less than one lamport is
\* worth.
LEMMA SellOverpaysCurve ==
    ASSUME CustodyInvariant, NEW m \in Mints, NEW s, NEW n \in U64, NEW lim, Sell(s, m, n, lim)
    PROVE  /\ launch'[m].virtual_token_reserves > launch[m].virtual_token_reserves
           /\ CurveK(launch'[m]) + launch'[m].virtual_token_reserves > CurveK(launch[m])
<1> DEFINE l == launch[m]
           vs == l.virtual_sol_reserves
           vt == l.virtual_token_reserves
           rs == l.real_sol_reserves
           gross == SolOut(vs, vt, rs, n)
<1>1. Launched(m) /\ SellQuoteOk(l, n)
  BY DEF Sell, CanSell, TradingOpen, Trading
<1>2. l \in LaunchType
  BY <1>1, LaunchState
<1>3. vs \in Nat /\ vt \in Nat /\ rs \in Nat /\ n \in Nat
  BY <1>2, LaunchAmounts, WidthsAreNat
<1>4. n > 0
  BY <1>1 DEF SellQuoteOk, SolOutOk
<1>5. launch'[m] = AfterSell(l, n, gross)
  BY DEF Sell, SellGross, CustodyInvariant, TypeOK
<1>6. /\ launch'[m].real_sol_reserves = rs - gross
      /\ launch'[m].virtual_token_reserves = vt + n
      /\ launch'[m].virtual_sol_reserves = vs
  BY <1>2, <1>5 DEF AfterSell, LaunchType
<1> HIDE DEF vs, vt, rs
<1>7. /\ gross \in Nat /\ gross <= rs
      /\ (vs + rs) * vt < (vs + rs - gross + 1) * (vt + n)
  BY <1>3, <1>4, SellOverpaysLessThanOne
<1> HIDE DEF gross
<1>8. CurveK(launch'[m]) + launch'[m].virtual_token_reserves > CurveK(launch[m])
  <2> DEFINE x == vs + rs - gross
             y == vt + n
  <2>1. CurveK(launch[m]) = (vs + rs) * vt
    BY DEF CurveK, vs, rs, vt
  <2>2. vs + (rs - gross) = x
    BY <1>3, <1>7
  <2>3. CurveK(launch'[m]) = x * y
    BY <1>6, <2>2 DEF CurveK
  <2>4. x \in Nat /\ y \in Nat /\ (vs + rs) * vt \in Nat
    BY <1>3, <1>7
  <2>5. (vs + rs) * vt < (x + 1) * y
    BY <1>7
  <2> HIDE DEF x
  <2>6. launch'[m].virtual_token_reserves = y
    BY <1>6
  <2> HIDE DEF y
  <2>7. (x + 1) * y = x * y + y /\ x * y \in Nat
    BY <2>4
  <2> QED
    BY <2>1, <2>3, <2>4, <2>5, <2>6, <2>7
<1>9. vt + n > vt
  BY <1>3, <1>4
<1> QED
  BY <1>6, <1>8, <1>9 DEF vt

\* No sequence of trades dilutes a holder by a purchase: every purchase costs
\* at least a lamport and none lowers k.
LEMMA ProgramBuysFairly == ProgramSpec => BuysNeverDilute
<1>1. ASSUME CustodyInvariant, [Instruction]_vars, NEW m \in Mints, Bought(m)
      PROVE  /\ launch'[m].real_sol_reserves > launch[m].real_sol_reserves
             /\ CurveK(launch'[m]) >= CurveK(launch[m])
  <2>1. /\ Trading(m) /\ Trading(m)' /\ launch[m] \in LaunchType /\ launch'[m] \in LaunchType
        /\ launch'[m].virtual_token_reserves < launch[m].virtual_token_reserves
    BY <1>1, InstructionKeepsInvariant DEF Bought, Trading, CustodyInvariant, TypeOK
  <2>2. launch'[m] # launch[m]
    BY <2>1, LaunchAmounts
  <2>3. ASSUME NEW s \in Wallets, NEW n \in U64, NEW lim \in U64, Sell(s, m, n, lim)
        PROVE  FALSE
    BY <1>1, <2>1, <2>3, SellOverpaysCurve, LaunchAmounts
  <2> QED
    BY <1>1, <2>1, <2>2, <2>3, TradingChanges, BuyKeepsCurve
<1>2. CustodyInvariant /\ [Instruction]_vars =>
        [\A m \in Mints : Bought(m) =>
            /\ launch'[m].real_sol_reserves > launch[m].real_sol_reserves
            /\ CurveK(launch'[m]) >= CurveK(launch[m])]_vars
  BY <1>1
<1> QED
  BY <1>2, ProgramKeepsCustody, PTL DEF ProgramSpec, BuysNeverDilute

\* Nor does any purchase under Spec dilute a holder.
THEOREM PurchasesHold == Spec => BuysNeverDilute
BY SpecRunsProgram, ProgramBuysFairly, PTL

\* Whatever is sold, one lamport more in the vault would have kept k.
LEMMA ProgramSellsFairly == ProgramSpec => SalesOverpayUnderOneLamport
<1>1. ASSUME CustodyInvariant, [Instruction]_vars, NEW m \in Mints, Sold(m)
      PROVE  CurveK(launch'[m]) + launch'[m].virtual_token_reserves > CurveK(launch[m])
  <2>1. /\ Trading(m) /\ Trading(m)' /\ launch[m] \in LaunchType /\ launch'[m] \in LaunchType
        /\ launch'[m].virtual_token_reserves > launch[m].virtual_token_reserves
    BY <1>1, InstructionKeepsInvariant DEF Sold, Trading, CustodyInvariant, TypeOK
  <2>2. launch'[m] # launch[m]
    BY <2>1, LaunchAmounts
  <2>3. ASSUME NEW b \in Wallets, NEW n \in U64, NEW lim \in U64, Buy(b, m, n, lim)
        PROVE  FALSE
    BY <1>1, <2>1, <2>3, BuyKeepsCurve, LaunchAmounts
  <2> QED
    BY <1>1, <2>1, <2>2, <2>3, TradingChanges, SellOverpaysCurve
<1>2. CustodyInvariant /\ [Instruction]_vars =>
        [\A m \in Mints : Sold(m) =>
            CurveK(launch'[m]) + launch'[m].virtual_token_reserves > CurveK(launch[m])]_vars
  BY <1>1
<1> QED
  BY <1>2, ProgramKeepsCustody, PTL DEF ProgramSpec, SalesOverpayUnderOneLamport

\* Nor does any sale under Spec take a whole lamport from those who hold on.
THEOREM SalesHold == Spec => SalesOverpayUnderOneLamport
BY SpecRunsProgram, ProgramSellsFairly, PTL

\* In every reachable state, tokens bought and at once sold back return at most
\* what they cost.
THEOREM RoundTripsHold == Spec => []NoInstantProfit
<1>1. ASSUME CustodyInvariant, NEW m \in Mints, NEW n \in TradeSizes,
             Trading(m), BuyQuoteOk(launch[m], n)
      PROVE  SellGross(AfterBuy(launch[m], n, BuyCost(launch[m], n)), n)
                <= BuyCost(launch[m], n)
  <2> DEFINE l == launch[m]
             vs == l.virtual_sol_reserves
             vt == l.virtual_token_reserves
             rs == l.real_sol_reserves
             cost == SolIn(vs, vt, rs, n)
             after == AfterBuy(l, n, cost)
  <2>1. l \in LaunchType /\ vs = DefaultVirtualSol
    BY <1>1, LaunchState DEF Trading, Books
  <2>2. vs \in Nat /\ vs > 0 /\ vt \in Nat /\ rs \in Nat /\ n \in Nat
    BY <1>1, <2>1, LaunchAmounts, AllocationAssumption, InputsAssumption, WidthsAreNat
  <2>3. n > 0 /\ n < vt
    <3>1. n > 0 /\ vt - n >= 1
      BY <1>1 DEF BuyQuoteOk, SolInOk
    <3> HIDE DEF vt
    <3> QED
      BY <2>2, <3>1
  <2>4. /\ after.real_sol_reserves = rs + cost /\ after.virtual_sol_reserves = vs
        /\ after.virtual_token_reserves = vt - n
    BY <2>1 DEF AfterBuy, LaunchType
  <2>5. BuyCost(l, n) = cost
    BY DEF BuyCost
  <2> HIDE DEF after, vs, vt, rs, l
  <2>6. SellGross(after, n) = SolOut(vs, vt - n, rs + cost, n)
    BY <2>4 DEF SellGross
  <2>7. SolOut(vs, vt - n, rs + cost, n) <= cost
    BY <2>2, <2>3, RoundTripNoGain
  <2> QED
    BY <2>5, <2>6, <2>7 DEF after, l
<1>2. CustodyInvariant => NoInstantProfit
  BY <1>1 DEF NoInstantProfit
<1> QED
  BY <1>2, CustodyHolds, PTL

-----------------------------------------------------------------------------
(* Traders, the pause and graduation. *)

\* The bound a trader signs holds for the trader's balance, fees included.
THEOREM SlippageHolds == Spec => SlippageHonoured
<1>1. ASSUME CustodyInvariant, NEW w \in Traders, NEW m \in Mints,
             NEW n \in TradeSizes, NEW lim \in SolLimits
      PROVE  /\ Buy(w, m, n, lim) => lamports[w] - lamports'[w] <= lim
             /\ Sell(w, m, n, lim) => lamports'[w] - lamports[w] >= lim
  <2>1. w \in Wallets /\ n \in U64 /\ lim \in U64
    BY AccountsAssumption, InputsAssumption
  <2> QED
    BY <1>1, <2>1, BuyKeepsInvariant, SellKeepsInvariant
<1>2. CustodyInvariant /\ [Next]_vars =>
        [\A w \in Traders, m \in Mints, n \in TradeSizes, lim \in SolLimits :
            /\ Buy(w, m, n, lim) => lamports[w] - lamports'[w] <= lim
            /\ Sell(w, m, n, lim) => lamports'[w] - lamports[w] >= lim]_vars
  BY <1>1
<1> QED
  BY <1>2, CustodyHolds, PTL DEF Spec, SlippageHonoured

\* While the program is paused the launches and the vaults are frozen: a vault
\* debit would have to be booked on a launch, and none changes.
LEMMA ProgramStopsWhenPaused == ProgramSpec => PauseStopsCustody
<1>1. ASSUME CustodyInvariant, [Instruction]_vars, Initialized, config.paused
      PROVE  /\ launch' = launch
             /\ \A m \in Mints : lamports'[VaultOf(m)] >= lamports[VaultOf(m)]
  <2>1. launch' = launch
    <3>1. CASE AdminInstruction
      BY <3>1 DEF AdminInstruction, InitializeConfig, UpdateConfig, SetPaused
    <3>2. CASE TradeInstruction
      BY <1>1, <3>2 DEF TradeInstruction, CreateToken, Buy, CanBuy, Sell, CanSell, TradingOpen
    <3>3. CASE GraduationStep
      BY <1>1, <3>3 DEF GraduationStep, Graduate, CanGraduate, TradingOpen, SealGraduation
    <3>4. CASE StrayStep
      BY <3>4 DEF StrayStep, StrayDeposit, StrayTokens, BurnTokens
    <3>5. CASE UNCHANGED vars
      BY <3>5 DEF vars
    <3> QED
      BY <1>1, <3>1, <3>2, <3>3, <3>4, <3>5 DEF Instruction
  <2>2. ASSUME NEW m \in Mints PROVE lamports'[VaultOf(m)] >= lamports[VaultOf(m)]
    <3>1. lamports[VaultOf(m)] \in Nat /\ lamports'[VaultOf(m)] \in Nat
      BY <1>1, InstructionKeepsInvariant, VaultsDiffer DEF CustodyInvariant, TypeOK
    <3>2. DebitIsBooked(m)
      BY <1>1, InstructionKeepsInvariant
    <3>3. Trading(m) => launch[m].real_sol_reserves \in Nat
      BY <1>1, LaunchState, LaunchAmounts DEF Trading
    <3> QED
      BY <2>1, <3>1, <3>2, <3>3 DEF DebitIsBooked
  <2> QED
    BY <2>1, <2>2
<1>2. CustodyInvariant /\ [Instruction]_vars =>
        [Initialized /\ config.paused =>
            /\ launch' = launch
            /\ \A m \in Mints : lamports'[VaultOf(m)] >= lamports[VaultOf(m)]]_vars
  BY <1>1
<1> QED
  BY <1>2, ProgramKeepsCustody, PTL DEF ProgramSpec, PauseStopsCustody

\* The pause stops the launches and the vaults of Spec.
THEOREM PauseHolds == Spec => PauseStopsCustody
BY SpecRunsProgram, ProgramStopsWhenPaused, PTL

\* The supply of a mint grows only when its launch is created or graduates.
LEMMA GraduatedSupplyFixed ==
    ASSUME CustodyInvariant, [Instruction]_vars, NEW m \in Mints, Launched(m), launch[m].graduated
    PROVE  supply'[m] <= supply[m]
<1>1. /\ supply \in [Mints -> U64] /\ launch \in [Mints -> LaunchType \cup {NoLaunch}]
      /\ supply[m] \in Nat
  BY LaunchState DEF CustodyInvariant, TypeOK
<1>2. CASE AdminInstruction
  BY <1>1, <1>2 DEF AdminInstruction, InitializeConfig, UpdateConfig, SetPaused
<1>3. CASE TradeInstruction
  <2>1. ASSUME NEW c, NEW o \in Mints, NEW p, CreateToken(c, o, p)
        PROVE  supply'[m] = supply[m]
    BY <1>1, <2>1 DEF CreateToken
  <2>2. ASSUME NEW w, NEW o, NEW n, NEW lim, Buy(w, o, n, lim) \/ Sell(w, o, n, lim)
        PROVE  supply'[m] = supply[m]
    BY <2>2 DEF Buy, Sell
  <2> QED
    BY <1>1, <1>3, <2>1, <2>2 DEF TradeInstruction
<1>4. CASE GraduationStep
  <2>1. ASSUME NEW o \in Mints, Graduate(o)
        PROVE  supply'[m] = supply[m]
    BY <1>1, <2>1 DEF Graduate, CanGraduate, TradingOpen, Trading
  <2>2. ASSUME NEW s, NEW o, NEW lb, SealGraduation(s, o, lb)
        PROVE  supply'[m] = supply[m]
    BY <2>2 DEF SealGraduation
  <2> QED
    BY <1>1, <1>4, <2>1, <2>2 DEF GraduationStep
<1>5. CASE StrayStep
  <2>1. ASSUME NEW o \in Mints, NEW n \in Nat, BurnTokens(o, n)
        PROVE  supply'[m] <= supply[m]
    BY <1>1, <2>1 DEF BurnTokens
  <2>2. ASSUME NEW o \in Mints, NEW n, (\E w \in Wallets : StrayDeposit(w, o, n)) \/ StrayTokens(o, n)
        PROVE  supply'[m] <= supply[m]
    BY <1>1, <2>2 DEF StrayDeposit, StrayTokens
  <2> QED
    BY <1>5, <2>1, <2>2, InputsAssumption DEF StrayStep
<1>6. CASE UNCHANGED vars
  BY <1>1, <1>6 DEF vars
<1> QED
  BY <1>2, <1>3, <1>4, <1>5, <1>6 DEF Instruction

\* A graduated launch has one change left, the seal; its vault and its supply
\* are out of the program's reach.
LEMMA ProgramKeepsGraduation == ProgramSpec => GraduationIsFinal
<1>1. ASSUME CustodyInvariant, [Instruction]_vars, NEW m \in Mints, Launched(m), launch[m].graduated
      PROVE  /\ \/ launch'[m] = launch[m]
                \/ /\ ~launch[m].pool_seeded
                   /\ \E lb \in LbPairs \ {DefaultKey} :
                         launch'[m] = [launch[m] EXCEPT !.pool_seeded = TRUE,
                                                        !.meteora_lb_pair = lb]
             /\ lamports'[VaultOf(m)] >= lamports[VaultOf(m)]
             /\ supply'[m] <= supply[m]
  <2>1. ASSUME launch'[m] # launch[m]
        PROVE  /\ ~launch[m].pool_seeded
               /\ \E lb \in LbPairs \ {DefaultKey} :
                     launch'[m] = [launch[m] EXCEPT !.pool_seeded = TRUE,
                                                    !.meteora_lb_pair = lb]
    <3>1. ~Trading(m) /\ TypeOK
      BY <1>1 DEF Trading, CustodyInvariant
    <3>2. \E s \in Wallets, lb \in LbPairs \cup {DefaultKey} : SealGraduation(s, m, lb)
      BY <1>1, <2>1, <3>1, LaunchChanges
         DEF Buy, CanBuy, Sell, CanSell, Graduate, CanGraduate, TradingOpen
    <3> QED
      BY <3>1, <3>2 DEF SealGraduation, TypeOK
  <2>2. lamports'[VaultOf(m)] >= lamports[VaultOf(m)]
    <3>1. lamports[VaultOf(m)] \in Nat /\ lamports'[VaultOf(m)] \in Nat
      BY <1>1, InstructionKeepsInvariant, VaultsDiffer DEF CustodyInvariant, TypeOK
    <3> QED
      BY <1>1, <3>1, InstructionKeepsInvariant DEF DebitIsBooked, Trading
  <2>3. \/ launch'[m] = launch[m]
        \/ /\ ~launch[m].pool_seeded
           /\ \E lb \in LbPairs \ {DefaultKey} :
                 launch'[m] = [launch[m] EXCEPT !.pool_seeded = TRUE,
                                                !.meteora_lb_pair = lb]
    <3>1. CASE launch'[m] = launch[m]
      BY <3>1
    <3>2. CASE launch'[m] # launch[m]
      BY <2>1, <3>2
    <3> QED
      BY <3>1, <3>2
  <2> QED
    BY <1>1, <2>2, <2>3, GraduatedSupplyFixed
<1>2. CustodyInvariant /\ [Instruction]_vars =>
        [\A m \in Mints : Launched(m) /\ launch[m].graduated =>
            /\ \/ launch'[m] = launch[m]
               \/ /\ ~launch[m].pool_seeded
                  /\ \E lb \in LbPairs \ {DefaultKey} :
                        launch'[m] = [launch[m] EXCEPT !.pool_seeded = TRUE,
                                                       !.meteora_lb_pair = lb]
            /\ lamports'[VaultOf(m)] >= lamports[VaultOf(m)]
            /\ supply'[m] <= supply[m]]_vars
  BY <1>1
<1> QED
  BY <1>2, ProgramKeepsCustody, PTL DEF ProgramSpec, GraduationIsFinal

\* Graduation is final under Spec.
THEOREM GraduationHolds == Spec => GraduationIsFinal
BY SpecRunsProgram, ProgramKeepsGraduation, PTL

\* Without its admin the configuration is out of every instruction's reach.
THEOREM LostAdminHolds == Spec => LostAdminFreezes
<1>1. ASSUME [Next]_vars, Initialized, config.admin \notin Deployers
      PROVE  config' = config
  <2>1. CASE AdminStep
    BY <1>1, <2>1 DEF AdminStep, InitializeConfig, UpdateConfig, SetPaused
  <2>2. CASE TradeStep
    BY <2>2 DEF TradeStep, CreateToken, Buy, Sell
  <2>3. CASE GraduationStep
    BY <2>3 DEF GraduationStep, Graduate, SealGraduation
  <2>4. CASE StrayStep
    BY <2>4 DEF StrayStep, StrayDeposit, StrayTokens, BurnTokens
  <2>5. CASE UNCHANGED vars
    BY <2>5 DEF vars
  <2> QED
    BY <1>1, <2>1, <2>2, <2>3, <2>4, <2>5 DEF Next
<1>2. [Next]_vars => [Initialized /\ config.admin \notin Deployers => config' = config]_vars
  BY <1>1
<1> QED
  BY <1>2, PTL DEF Spec, LostAdminFreezes
=============================================================================
