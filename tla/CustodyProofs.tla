--------------------------- MODULE CustodyProofs ---------------------------
(***************************************************************************)
(* Memecoin implements LaunchCustody, for every set of mints and wallets,  *)
(* every allocation and every sequence of instructions.  Where no stranger *)
(* deposits and no wallet of the configuration is a vault, what the escrow *)
(* bounds is met to the lamport, and a graduation is recorded as it was.   *)
(***************************************************************************)
EXTENDS MemecoinCustody, TradeProofs

USE DEF Initialized, Launched

\* What the mapping shows of a launch, by where the launch stands.
LEMMA MappedLaunch ==
    ASSUME CustodyInvariant, NEW m \in Mints
    PROVE  /\ ~Launched(m) => Phase(m) = "absent" /\ Owed(m) = 0 /\ TokensSold(m) = 0
           /\ Launched(m) => /\ launch[m] \in LaunchType
                             /\ Owed(m) = launch[m].real_sol_reserves /\ Owed(m) \in Nat
                             /\ TokensSold(m) = launch[m].tokens_sold /\ TokensSold(m) \in Nat
           /\ Trading(m) => Phase(m) = "trading"
           /\ Launched(m) /\ ~Trading(m) =>
                 Phase(m) = IF launch[m].pool_seeded THEN "seeded" ELSE "graduated"
<1>1. Launched(m) => launch[m] \in LaunchType
  BY LaunchState
<1> QED
  BY <1>1, LaunchAmounts DEF Phase, Owed, TokensSold, Trading

\* A launch that does not change is mapped to an escrow that does not.
LEMMA UnchangedMapped ==
    ASSUME NEW m \in Mints, launch'[m] = launch[m]
    PROVE  Phase(m)' = Phase(m) /\ Owed(m)' = Owed(m) /\ TokensSold(m)' = TokensSold(m)
BY DEF Phase, Owed, TokensSold, Trading

\* Every handler writes the account of one launch.
LEMMA OneLaunchMoves ==
    ASSUME TypeOK, [Instruction]_vars, NEW m \in Mints, NEW n \in Mints, m # n
    PROVE  launch'[m] = launch[m] \/ launch'[n] = launch[n]
<1>1. CASE AdminInstruction
  BY <1>1 DEF AdminInstruction, InitializeConfig, UpdateConfig, SetPaused
<1>2. CASE TradeInstruction
  <2>1. PICK w \in Wallets, o \in Mints :
            \/ \E p \in CreateParams : CreateToken(w, o, p)
            \/ \E k \in U64, lim \in U64 : Buy(w, o, k, lim) \/ Sell(w, o, k, lim)
    BY <1>2 DEF TradeInstruction
  <2>2. \A q \in Mints \ {o} : launch'[q] = launch[q]
    BY <2>1 DEF CreateToken, Buy, Sell, TypeOK
  <2> QED
    BY <2>2
<1>3. CASE GraduationStep
  <2>1. PICK o \in Mints :
            \/ Graduate(o)
            \/ \E s \in Wallets, lb \in LbPairs \cup {DefaultKey} : SealGraduation(s, o, lb)
    BY <1>3 DEF GraduationStep
  <2>2. \A q \in Mints \ {o} : launch'[q] = launch[q]
    BY <2>1 DEF Graduate, SealGraduation, TypeOK
  <2> QED
    BY <2>2
<1>4. CASE StrayStep
  BY <1>4 DEF StrayStep, StrayDeposit, StrayTokens, BurnTokens
<1>5. CASE UNCHANGED vars
  BY <1>5 DEF vars
<1> QED
  BY <1>1, <1>2, <1>3, <1>4, <1>5 DEF Instruction

\* A launch account comes to be as create_token writes it.
LEMMA OpenedAsCreated ==
    ASSUME TypeOK, [Instruction]_vars, NEW m \in Mints, ~Launched(m), launch'[m] # launch[m]
    PROVE  \E c \in Wallets : launch'[m] = NewLaunch(c)
<1>1. ~AdminInstruction /\ ~StrayStep /\ ~UNCHANGED vars
  BY DEF AdminInstruction, StrayStep, InitializeConfig, UpdateConfig, SetPaused,
     StrayDeposit, StrayTokens, BurnTokens, vars
<1>2. ~GraduationStep
  BY DEF GraduationStep, Graduate, CanGraduate, SealGraduation, TradingOpen, Trading, TypeOK
<1>3. PICK w \in Wallets, o \in Mints :
          \/ \E p \in CreateParams : CreateToken(w, o, p)
          \/ \E k \in U64, lim \in U64 : Buy(w, o, k, lim) \/ Sell(w, o, k, lim)
  BY <1>1, <1>2 DEF Instruction, TradeInstruction
<1>4. o = m
  BY <1>3 DEF CreateToken, Buy, Sell, TypeOK
<1>5. \E p \in CreateParams : CreateToken(w, m, p)
  BY <1>3, <1>4 DEF Buy, CanBuy, Sell, CanSell, TradingOpen, Trading
<1> QED
  BY <1>5 DEF CreateToken, TypeOK

-----------------------------------------------------------------------------
(* Every step is a move of one escrow. *)

LEMMA OpenMapped ==
    ASSUME CustodyInvariant, CustodyInvariant', [Instruction]_vars, NEW m \in Mints,
           ~Launched(m), launch'[m] # launch[m]
    PROVE  /\ Phase(m) = "absent" /\ Phase(m)' = "trading"
           /\ Owed(m)' = 0 /\ TokensSold(m)' = 0
<1>1. PICK c \in Wallets : launch'[m] = NewLaunch(c)
  BY OpenedAsCreated DEF CustodyInvariant
<1>2. Phase(m) = "absent"
  BY DEF Phase
<1>3. launch'[m] # NoLaunch
  BY DEF Launched
<1> QED
  BY <1>1, <1>2, <1>3 DEF Phase, Owed, TokensSold, Trading, NewLaunch

\* The curve's product as the mapping sees it.
LEMMA ProductMapped ==
    ASSUME CustodyInvariant, NEW m \in Mints, Launched(m)
    PROVE  /\ launch[m].virtual_token_reserves = DefaultVirtualTokens - TokensSold(m)
           /\ CurveK(launch[m]) = Custody!K(Owed(m), TokensSold(m))
<1>1. /\ launch[m].virtual_sol_reserves = DefaultVirtualSol
      /\ launch[m].virtual_token_reserves + launch[m].tokens_sold = DefaultVirtualTokens
      /\ launch[m] \in LaunchType
  BY LaunchState DEF Books
<1>2. launch[m].virtual_token_reserves = DefaultVirtualTokens - launch[m].tokens_sold
  BY <1>1, LaunchAmounts, AllocationAssumption
<1> QED
  BY <1>1, <1>2 DEF CurveK, Custody!K, Owed, TokensSold

\* The same of the next state.
LEMMA MappedLaunchNext ==
    ASSUME CustodyInvariant', NEW m \in Mints, Launched(m)'
    PROVE  /\ launch'[m] \in LaunchType
           /\ Owed(m)' = launch'[m].real_sol_reserves /\ Owed(m)' \in Nat
           /\ Owed(m)' <= MaxRealSolReserves
           /\ TokensSold(m)' = launch'[m].tokens_sold /\ TokensSold(m)' \in Nat
           /\ launch'[m].real_token_reserves =
                 IF launch'[m].graduated THEN 0 ELSE CurveAllocation - TokensSold(m)'
           /\ launch'[m].virtual_token_reserves = DefaultVirtualTokens - TokensSold(m)'
           /\ CurveK(launch'[m]) = Custody!K(Owed(m)', TokensSold(m)')
<1>1. launch'[m] \in LaunchType
  BY DEF CustodyInvariant, TypeOK
<1>2. /\ launch'[m].virtual_sol_reserves = DefaultVirtualSol
      /\ launch'[m].virtual_token_reserves + launch'[m].tokens_sold = DefaultVirtualTokens
      /\ launch'[m].real_sol_reserves <= MaxRealSolReserves
      /\ launch'[m].real_token_reserves =
            IF launch'[m].graduated THEN 0 ELSE CurveAllocation - launch'[m].tokens_sold
  BY DEF CustodyInvariant, VaultSolvent, TokenLedger
<1>3. launch'[m].virtual_token_reserves = DefaultVirtualTokens - launch'[m].tokens_sold
  BY <1>1, <1>2, LaunchAmounts, AllocationAssumption
<1>4. Owed(m)' = launch'[m].real_sol_reserves /\ TokensSold(m)' = launch'[m].tokens_sold
  BY DEF Owed, TokensSold
<1>5. CurveK(launch'[m]) = Custody!K(Owed(m)', TokensSold(m)')
  BY <1>2, <1>3, <1>4 DEF CurveK, Custody!K
<1> QED
  BY <1>1, <1>2, <1>3, <1>4, <1>5, LaunchAmounts

\* What is held beyond what is owed is kept by every step that owes no more
\* than before.
LEMMA SurplusMapped ==
    ASSUME CustodyInvariant, CustodyInvariant', NEW m \in Mints, DebitIsBooked(m),
           Launched(m) => Launched(m)', Owed(m)' <= Owed(m)
    PROVE  lamports'[VaultOf(m)] - Owed(m)' >= lamports[VaultOf(m)] - Owed(m)
<1>1. lamports[VaultOf(m)] \in Nat /\ lamports'[VaultOf(m)] \in Nat
  BY VaultsDiffer DEF CustodyInvariant, TypeOK
<1>2. Owed(m) \in Nat /\ (Launched(m) => Owed(m) = launch[m].real_sol_reserves)
  BY MappedLaunch
<1>3. Launched(m)' => Owed(m)' = launch'[m].real_sol_reserves
  BY MappedLaunchNext
<1>4. Owed(m)' \in Nat
  BY MappedLaunchNext DEF Owed
<1>5. Trading(m) => Launched(m)
  BY DEF Trading
<1>6. CASE lamports'[VaultOf(m)] < lamports[VaultOf(m)]
  BY <1>1, <1>2, <1>3, <1>4, <1>5, <1>6 DEF DebitIsBooked
<1>7. CASE lamports'[VaultOf(m)] >= lamports[VaultOf(m)]
  BY <1>1, <1>2, <1>4, <1>7
<1> QED
  BY <1>1, <1>6, <1>7

\* A purchase puts what the curve owes more into the vault.
LEMMA PurchaseMapped ==
    ASSUME CustodyInvariant, CustodyInvariant', NEW m \in Mints,
           NEW b \in Wallets, NEW n \in U64, NEW lim \in U64, Buy(b, m, n, lim)
    PROVE  /\ Phase(m) = "trading" /\ Phase(m)' = "trading"
           /\ TokensSold(m) < TokensSold(m)' /\ TokensSold(m)' <= CurveAllocation
           /\ Owed(m) < Owed(m)' /\ Owed(m)' <= MaxRealSolReserves
           /\ Custody!K(Owed(m)', TokensSold(m)') >= Custody!K(Owed(m), TokensSold(m))
           /\ lamports'[VaultOf(m)] - Owed(m)' >= lamports[VaultOf(m)] - Owed(m)
<1> DEFINE cost == BuyCost(launch[m], n)
<1>1. Trading(m) /\ Launched(m) /\ launch[m] \in LaunchType /\ ~launch[m].graduated
  BY LaunchState DEF Buy, CanBuy, TradingOpen, Trading
<1>2. launch'[m] = AfterBuy(launch[m], n, cost)
  BY DEF Buy, CustodyInvariant, TypeOK
<1>3. /\ launch'[m].real_sol_reserves = launch[m].real_sol_reserves + cost
      /\ launch'[m].graduated = launch[m].graduated
  BY <1>1, <1>2 DEF AfterBuy, LaunchType
<1>4. Launched(m)' /\ lamports'[VaultOf(m)] >= lamports[VaultOf(m)] + cost
  BY BuyKeepsInvariant
<1>5. /\ Owed(m) = launch[m].real_sol_reserves /\ Owed(m) \in Nat
      /\ TokensSold(m) \in Nat /\ CurveK(launch[m]) = Custody!K(Owed(m), TokensSold(m))
      /\ launch[m].virtual_token_reserves = DefaultVirtualTokens - TokensSold(m)
  BY <1>1, MappedLaunch, ProductMapped
<1>6. /\ Owed(m)' = launch'[m].real_sol_reserves /\ Owed(m)' \in Nat
      /\ launch'[m] \in LaunchType /\ Owed(m)' <= MaxRealSolReserves
      /\ TokensSold(m)' \in Nat /\ CurveK(launch'[m]) = Custody!K(Owed(m)', TokensSold(m)')
      /\ launch'[m].virtual_token_reserves = DefaultVirtualTokens - TokensSold(m)'
      /\ launch'[m].real_token_reserves = CurveAllocation - TokensSold(m)'
  BY <1>1, <1>3, <1>4, MappedLaunchNext
<1>7. /\ launch'[m].real_sol_reserves > launch[m].real_sol_reserves
      /\ launch'[m].virtual_token_reserves < launch[m].virtual_token_reserves
      /\ CurveK(launch'[m]) >= CurveK(launch[m])
  BY BuyKeepsCurve
<1>8. Phase(m) = "trading" /\ Phase(m)' = "trading"
  BY <1>1, <1>3, <1>4 DEF Phase, Trading
<1>9. TokensSold(m) < TokensSold(m)' /\ TokensSold(m)' <= CurveAllocation
  <2>1. launch'[m].real_token_reserves \in Nat
    BY <1>6, LaunchAmounts
  <2> QED
    BY <1>5, <1>6, <1>7, <2>1, AllocationAssumption
<1>10. lamports'[VaultOf(m)] - Owed(m)' >= lamports[VaultOf(m)] - Owed(m)
  <2>1. lamports[VaultOf(m)] \in Nat /\ lamports'[VaultOf(m)] \in Nat
    BY VaultsDiffer DEF CustodyInvariant, TypeOK
  <2> HIDE DEF cost
  <2>2. cost \in Int
    BY <1>1, BuyQuoteTyped DEF cost, Buy, CanBuy
  <2> QED
    BY <1>3, <1>4, <1>5, <1>6, <2>1, <2>2
<1> QED
  BY <1>5, <1>6, <1>7, <1>8, <1>9, <1>10

\* A sale takes off the books what it takes out of the vault.
LEMMA RedemptionMapped ==
    ASSUME CustodyInvariant, CustodyInvariant', NEW m \in Mints,
           NEW s \in Wallets, NEW n \in U64, NEW lim \in U64, Sell(s, m, n, lim)
    PROVE  /\ Phase(m) = "trading" /\ Phase(m)' = "trading"
           /\ TokensSold(m)' < TokensSold(m)
           /\ Owed(m)' \in 0 .. Owed(m)
           /\ Custody!K(Owed(m)' + 1, TokensSold(m)') > Custody!K(Owed(m), TokensSold(m))
           /\ lamports'[VaultOf(m)] - Owed(m)' >= lamports[VaultOf(m)] - Owed(m)
<1> DEFINE gross == SellGross(launch[m], n)
<1>1. Trading(m) /\ Launched(m) /\ launch[m] \in LaunchType /\ ~launch[m].graduated
  BY LaunchState DEF Sell, CanSell, TradingOpen, Trading
<1>2. launch'[m] = AfterSell(launch[m], n, gross)
  BY DEF Sell, CustodyInvariant, TypeOK
<1>3. /\ launch'[m].real_sol_reserves = launch[m].real_sol_reserves - gross
      /\ launch'[m].graduated = launch[m].graduated
  BY <1>1, <1>2 DEF AfterSell, LaunchType
<1>4. Launched(m)' /\ DebitIsBooked(m)
  BY SellKeepsInvariant
<1>5. /\ Owed(m) = launch[m].real_sol_reserves /\ Owed(m) \in Nat
      /\ TokensSold(m) \in Nat /\ CurveK(launch[m]) = Custody!K(Owed(m), TokensSold(m))
      /\ launch[m].virtual_token_reserves = DefaultVirtualTokens - TokensSold(m)
  BY <1>1, MappedLaunch, ProductMapped
<1>6. /\ Owed(m)' = launch'[m].real_sol_reserves /\ Owed(m)' \in Nat
      /\ TokensSold(m)' \in Nat /\ CurveK(launch'[m]) = Custody!K(Owed(m)', TokensSold(m)')
      /\ launch'[m].virtual_token_reserves = DefaultVirtualTokens - TokensSold(m)'
  BY <1>4, MappedLaunchNext
<1>7. /\ launch'[m].virtual_token_reserves > launch[m].virtual_token_reserves
      /\ CurveK(launch'[m]) + launch'[m].virtual_token_reserves > CurveK(launch[m])
  BY SellOverpaysCurve
<1>8. Phase(m) = "trading" /\ Phase(m)' = "trading"
  BY <1>1, <1>3, <1>4 DEF Phase, Trading
<1>9. TokensSold(m)' < TokensSold(m)
  BY <1>5, <1>6, <1>7, AllocationAssumption
<1>10. Owed(m)' \in 0 .. Owed(m)
  <2>1. gross \in Nat /\ gross <= launch[m].real_sol_reserves
    BY <1>1, SellQuoteTyped DEF Sell, CanSell
  <2> HIDE DEF gross
  <2> QED
    BY <1>3, <1>5, <1>6, <2>1
<1>11. Custody!K(Owed(m)' + 1, TokensSold(m)')
         = Custody!K(Owed(m)', TokensSold(m)') + (DefaultVirtualTokens - TokensSold(m)')
  <2> DEFINE x == DefaultVirtualSol + Owed(m)'
             y == DefaultVirtualTokens - TokensSold(m)'
  <2>1. x \in Int /\ y \in Int
    BY <1>6, AllocationAssumption
  <2>2. DefaultVirtualSol + (Owed(m)' + 1) = x + 1
    BY <1>6, AllocationAssumption
  <2> HIDE DEF x, y
  <2>3. (x + 1) * y = x * y + y
    BY <2>1
  <2> QED
    BY <2>2, <2>3 DEF x, y, Custody!K
<1>12. lamports'[VaultOf(m)] - Owed(m)' >= lamports[VaultOf(m)] - Owed(m)
  BY <1>4, <1>5, <1>6, <1>10, SurplusMapped
<1> QED
  BY <1>5, <1>6, <1>7, <1>8, <1>9, <1>10, <1>11, <1>12

\* Graduation hands off all of the books at once; an accepted threshold is
\* positive, so there is something to hand off.
LEMMA HandOffMapped ==
    ASSUME CustodyInvariant, CustodyInvariant', NEW m \in Mints, Graduate(m)
    PROVE  /\ Phase(m) = "trading" /\ Phase(m)' = "graduated"
           /\ Owed(m) > 0 /\ Owed(m)' = 0 /\ TokensSold(m)' = TokensSold(m)
           /\ lamports'[VaultOf(m)] - Owed(m)' >= lamports[VaultOf(m)] - Owed(m)
<1>1. /\ Trading(m) /\ Launched(m) /\ launch[m] \in LaunchType /\ config \in ConfigType
      /\ launch[m].real_sol_reserves >= config.graduation_threshold_lamports
  BY LaunchState
     DEF Graduate, CanGraduate, TradingOpen, Trading, CustodyInvariant, TypeOK
<1>2. launch'[m] = AfterGraduation(launch[m], config.graduation_fee_lamports)
  BY DEF Graduate, CustodyInvariant, TypeOK
<1>3. /\ launch'[m].graduated = TRUE /\ launch'[m].pool_seeded = FALSE
      /\ launch'[m].real_sol_reserves = 0
      /\ launch'[m].tokens_sold = launch[m].tokens_sold
  BY <1>1, <1>2 DEF AfterGraduation, LaunchType
<1>4. Launched(m)' /\ DebitIsBooked(m)
  BY GraduateKeepsInvariant
<1>5. config.graduation_threshold_lamports \in Nat \ {0}
  BY <1>1, ConfigAmounts DEF Graduate, CanGraduate, TradingOpen, CustodyInvariant,
     ConfigStaysValid, Validate
<1>6. Phase(m) = "trading" /\ Phase(m)' = "graduated"
  BY <1>1, <1>3, <1>4 DEF Phase, Trading
<1>7. /\ Owed(m) \in Nat /\ Owed(m) > 0
      /\ Owed(m)' = 0 /\ TokensSold(m)' = TokensSold(m)
  BY <1>1, <1>3, <1>4, <1>5, MappedLaunch, MappedLaunchNext
<1>8. lamports'[VaultOf(m)] - Owed(m)' >= lamports[VaultOf(m)] - Owed(m)
  BY <1>4, <1>7, SurplusMapped
<1> QED
  BY <1>6, <1>7, <1>8

\* The seal touches no book.
LEMMA SealMapped ==
    ASSUME CustodyInvariant, CustodyInvariant', NEW m \in Mints,
           NEW s \in Wallets, NEW lb \in LbPairs \cup {DefaultKey}, SealGraduation(s, m, lb)
    PROVE  /\ Phase(m) = "graduated" /\ Phase(m)' = "seeded"
           /\ Owed(m)' = Owed(m) /\ TokensSold(m)' = TokensSold(m)
<1>1. /\ Launched(m) /\ ~Trading(m) /\ launch[m] \in LaunchType
      /\ launch[m].graduated /\ ~launch[m].pool_seeded
  BY LaunchState DEF SealGraduation, Trading
<1>2. launch'[m] = [launch[m] EXCEPT !.pool_seeded = TRUE, !.meteora_lb_pair = lb]
  BY DEF SealGraduation, CustodyInvariant, TypeOK
<1>3. /\ launch'[m].graduated = launch[m].graduated /\ launch'[m].pool_seeded = TRUE
      /\ launch'[m].real_sol_reserves = launch[m].real_sol_reserves
      /\ launch'[m].tokens_sold = launch[m].tokens_sold
  BY <1>1, <1>2 DEF LaunchType
<1>4. Launched(m)'
  BY SealKeepsInvariant
<1> QED
  BY <1>1, <1>3, <1>4 DEF Phase, Owed, TokensSold, Trading

-----------------------------------------------------------------------------
(* The refinement. *)

\* What one step does to one escrow.
LEMMA StepMapped ==
    ASSUME CustodyInvariant, CustodyInvariant', [Instruction]_vars, NEW m \in Mints
    PROVE  (Custody!Move(m) \/ Custody!Same(m)) /\ Custody!SurplusKept(m)
<1> DEFINE surplus == lamports'[VaultOf(m)] - Owed(m)' >= lamports[VaultOf(m)] - Owed(m)
<1>1. DebitIsBooked(m) /\ Owed(m) \in Nat
  BY InstructionKeepsInvariant, MappedLaunch
<1>2. surplus => Custody!SurplusKept(m)
  BY DEF Custody!SurplusKept
<1>3. CASE launch'[m] = launch[m]
  <2>1. Phase(m)' = Phase(m) /\ Owed(m)' = Owed(m) /\ TokensSold(m)' = TokensSold(m)
    BY <1>3, UnchangedMapped
  <2>2. surplus
    BY <1>1, <1>3, <2>1, SurplusMapped
  <2> QED
    BY <1>2, <2>1, <2>2 DEF Custody!Same
<1>4. CASE launch'[m] # launch[m] /\ ~Launched(m)
  <2>1. /\ Phase(m) = "absent" /\ Phase(m)' = "trading"
        /\ Owed(m)' = 0 /\ TokensSold(m)' = 0
    BY <1>4, OpenMapped
  <2>2. surplus
    BY <1>1, <1>4, <2>1, SurplusMapped
  <2> QED
    BY <1>2, <2>1, <2>2 DEF Custody!Move, Custody!Open
<1>5. CASE launch'[m] # launch[m] /\ Launched(m)
  <2>1. ASSUME NEW b \in Wallets, NEW n \in U64, NEW lim \in U64, Buy(b, m, n, lim)
        PROVE  Custody!Purchase(m) /\ surplus
    BY <2>1, PurchaseMapped DEF Custody!Purchase
  <2>2. ASSUME NEW s \in Wallets, NEW n \in U64, NEW lim \in U64, Sell(s, m, n, lim)
        PROVE  Custody!Redemption(m) /\ surplus
    BY <2>2, RedemptionMapped DEF Custody!Redemption
  <2>3. ASSUME Graduate(m) PROVE Custody!HandOff(m) /\ surplus
    BY <2>3, HandOffMapped DEF Custody!HandOff
  <2>4. ASSUME NEW s \in Wallets, NEW lb \in LbPairs \cup {DefaultKey}, SealGraduation(s, m, lb)
        PROVE  Custody!Seal(m) /\ surplus
    <3>1. /\ Phase(m) = "graduated" /\ Phase(m)' = "seeded"
          /\ Owed(m)' = Owed(m) /\ TokensSold(m)' = TokensSold(m)
      BY <2>4, SealMapped
    <3>2. Launched(m)'
      BY <2>4, SealKeepsInvariant
    <3> QED
      BY <1>1, <3>1, <3>2, SurplusMapped DEF Custody!Seal
  <2> HIDE DEF surplus
  <2>5. TypeOK
    BY DEF CustodyInvariant
  <2> QED
    BY <1>2, <1>5, <2>1, <2>2, <2>3, <2>4, <2>5, LaunchChanges DEF Custody!Move
<1> QED
  BY <1>3, <1>4, <1>5

\* The program implements the escrow: it starts with every launch absent, and
\* whatever instruction runs moves at most one launch, the way an escrow moves.
THEOREM ProgramIsEscrow == ProgramSpec => ImplementsCustody
<1>1. Init => Custody!CustodyInit
  BY VaultsDiffer, AccountsAssumption
     DEF Init, Custody!CustodyInit, Phase, Owed, TokensSold, Accounts, Vaults
<1>2. CustodyInvariant /\ CustodyInvariant' /\ [Instruction]_vars
         => [Custody!CustodyNext]_(Custody!custodyVars)
  <2>1. ASSUME CustodyInvariant, CustodyInvariant', [Instruction]_vars
        PROVE  Custody!CustodyNext
    <3>1. \A m \in Mints : (Custody!Move(m) \/ Custody!Same(m)) /\ Custody!SurplusKept(m)
      BY <2>1, StepMapped
    <3>2. ASSUME NEW m \in Mints, NEW n \in Mints, m # n
          PROVE  Custody!Same(m) \/ Custody!Same(n)
      BY <2>1, <3>2, OneLaunchMoves, UnchangedMapped DEF Custody!Same, CustodyInvariant
    <3> QED
      BY <3>1, <3>2 DEF Custody!CustodyNext
  <2> QED
    BY <2>1
<1> QED
  BY <1>1, <1>2, ProgramKeepsCustody, PTL DEF ProgramSpec, ImplementsCustody, Custody!CustodySpec

\* So do the signers of Spec.
THEOREM EscrowHolds == Spec => ImplementsCustody
BY SpecRunsProgram, ProgramIsEscrow, PTL

-----------------------------------------------------------------------------
(* Exact vaults: what SurplusKept bounds from below is met to the lamport   *)
(* when no stranger deposits and no wallet of the configuration is a vault. *)

\* Who is not paid loses, when the payer, what is sent and nothing otherwise.
LEMMA UnpaidExactly ==
    ASSUME NEW bal, NEW from, NEW to, NEW n \in Nat, NEW a \in Accounts,
           DOMAIN bal = Accounts, bal[a] \in Int, a # to
    PROVE  /\ DOMAIN Moved(bal, from, to, n) = Accounts
           /\ Moved(bal, from, to, n)[a] = bal[a] - (IF a = from THEN n ELSE 0)
           /\ Moved(bal, from, to, n)[a] \in Int
BY DEF Moved

\* The same for the two shares of the platform.
LEMMA PlatformPaidExactly ==
    ASSUME NEW bal, NEW from, NEW c, NEW s, s.dino \in Nat, s.treasury \in Nat,
           NEW a \in Accounts, DOMAIN bal = Accounts, bal[a] \in Int,
           a # c.dino_buyback_wallet, a # c.treasury_wallet
    PROVE  LET paid == PaidToPlatform(bal, from, c, s)
           IN  /\ DOMAIN paid = Accounts
               /\ paid[a] = bal[a] - (IF a = from THEN s.dino + s.treasury ELSE 0)
               /\ paid[a] \in Int
<1> DEFINE one == Moved(bal, from, c.dino_buyback_wallet, s.dino)
           two == Moved(one, from, c.treasury_wallet, s.treasury)
<1>1. /\ DOMAIN one = Accounts /\ one[a] = bal[a] - (IF a = from THEN s.dino ELSE 0)
      /\ one[a] \in Int
  BY UnpaidExactly
<1> HIDE DEF one
<1>2. /\ DOMAIN two = Accounts /\ two[a] = one[a] - (IF a = from THEN s.treasury ELSE 0)
      /\ two[a] \in Int
  BY <1>1, UnpaidExactly
<1>3. PaidToPlatform(bal, from, c, s) = two
  BY DEF PaidToPlatform, one
<1> HIDE DEF two
<1> QED
  BY <1>1, <1>2, <1>3

\* And for the three shares of a trade fee.
LEMMA SharesPaidExactly ==
    ASSUME NEW bal, NEW from, NEW c, NEW creator,
           NEW s, s.creator \in Nat, s.dino \in Nat, s.treasury \in Nat,
           NEW a \in Accounts, DOMAIN bal = Accounts, bal[a] \in Int,
           a # creator, a # c.dino_buyback_wallet, a # c.treasury_wallet
    PROVE  PaidShares(bal, from, c, creator, s)[a]
             = bal[a] - (IF a = from THEN s.creator + s.dino + s.treasury ELSE 0)
<1> DEFINE one == Moved(bal, from, creator, s.creator)
           two == PaidToPlatform(one, from, c, s)
<1>1. /\ DOMAIN one = Accounts /\ one[a] = bal[a] - (IF a = from THEN s.creator ELSE 0)
      /\ one[a] \in Int
  BY UnpaidExactly
<1> HIDE DEF one
<1>2. two[a] = one[a] - (IF a = from THEN s.dino + s.treasury ELSE 0)
  BY <1>1, PlatformPaidExactly
<1>3. PaidShares(bal, from, c, creator, s) = two
  BY DEF PaidShares, one
<1> HIDE DEF two
<1> QED
  BY <1>1, <1>2, <1>3

\* The wallets stored in the configuration are not vaults.
WalletsApart == Initialized => \A f \in WalletFields : config[f] \notin Vaults

\* They never become vaults unless the admin names one.
LEMMA WalletsStayApart ==
    ASSUME NoVaultNamed, TypeOK, WalletsApart, [Instruction]_vars
    PROVE  WalletsApart'
<1>1. ASSUME NEW s \in Wallets, NEW p \in InitParams, InitializeConfig(s, p)
      PROVE  WalletsApart'
  <2>1. \A f \in WalletFields : f \in DOMAIN p /\ p[f] \notin Vaults
    BY InputsAssumption DEF NoVaultNamed, ParamFields
  <2> QED
    BY <1>1, <2>1, NewConfigTyped DEF InitializeConfig, WalletsApart
<1>2. ASSUME NEW s, NEW p \in ConfigUpdates, UpdateConfig(s, p)
      PROVE  WalletsApart'
  <2>1. \A f \in DOMAIN p \cap WalletFields : p[f] \notin Vaults
    BY DEF NoVaultNamed
  <2>2. config \in ConfigType /\ \A f \in WalletFields : config[f] \notin Vaults
    BY <1>2 DEF UpdateConfig, TypeOK, WalletsApart
  <2> QED
    BY <1>2, <2>1, <2>2, UpdatedTyped DEF UpdateConfig, WalletsApart
<1>3. ASSUME NEW s, NEW b \in BOOLEAN, SetPaused(s, b)
      PROVE  WalletsApart'
  <2>1. config \in ConfigType /\ \A f \in WalletFields : config[f] \notin Vaults
    BY <1>3 DEF SetPaused, TypeOK, WalletsApart
  <2>2. \A f \in WalletFields : config'[f] = config[f]
    BY <1>3, <2>1 DEF SetPaused, ConfigType, WalletFields
  <2> QED
    BY <2>1, <2>2 DEF WalletsApart
<1>4. ASSUME config' = config PROVE WalletsApart'
  BY <1>4 DEF WalletsApart
<1>5. CASE TradeInstruction
  BY <1>4, <1>5 DEF TradeInstruction, CreateToken, Buy, Sell
<1>6. CASE GraduationStep
  BY <1>4, <1>6 DEF GraduationStep, Graduate, SealGraduation
<1>7. CASE StrayStep
  BY <1>4, <1>7 DEF StrayStep, StrayDeposit, StrayTokens, BurnTokens
<1>8. CASE UNCHANGED vars
  BY <1>4, <1>8 DEF vars
<1>9. CASE AdminInstruction
  BY <1>1, <1>2, <1>3, <1>9 DEF AdminInstruction
<1> QED
  BY <1>5, <1>6, <1>7, <1>8, <1>9 DEF Instruction

\* A vault is none of those a handler pays.
LEMMA VaultIsUnpaid ==
    ASSUME CustodyInvariant, WalletsApart, Initialized, NEW m \in Mints
    PROVE  /\ VaultOf(m) \in Accounts /\ lamports[VaultOf(m)] \in Nat
           /\ DOMAIN lamports = Accounts
           /\ VaultOf(m) # config.dino_buyback_wallet /\ VaultOf(m) # config.treasury_wallet
           /\ VaultOf(m) # config.graduation_authority
           /\ \A w \in Wallets : w # VaultOf(m)
<1>1. VaultOf(m) \in Accounts /\ \A w \in Wallets : w # VaultOf(m)
  BY VaultsDiffer
<1>2. lamports \in [Accounts -> Nat]
  BY DEF CustodyInvariant, TypeOK
<1>3. VaultOf(m) \in Vaults
  BY DEF Vaults
<1> QED
  BY <1>1, <1>2, <1>3 DEF WalletsApart, WalletFields

\* create_token pays the platform from the creator's wallet.
LEMMA CreateTokenExact ==
    ASSUME CustodyInvariant, WalletsApart, NEW c \in Wallets, NEW o \in Mints,
           NEW p \in CreateParams, CreateToken(c, o, p), NEW m \in Mints
    PROVE  lamports'[VaultOf(m)] = lamports[VaultOf(m)] /\ Owed(m)' = Owed(m)
<1> DEFINE shares == SplitTwoWay(config.creation_fee_lamports, config.creation_split_dino_bps)
<1>1. /\ Initialized /\ ~Launched(o) /\ config \in ConfigType
      /\ SplitTwoWayOk(config.creation_fee_lamports, config.creation_split_dino_bps)
      /\ lamports' = PaidToPlatform(lamports, c, config, shares)
  BY DEF CreateToken, CustodyInvariant, TypeOK
<1>2. shares.dino \in Nat /\ shares.treasury \in Nat
  BY <1>1, ConfigAmounts, TwoSharesAddUp
<1> HIDE DEF shares
<1>3. lamports'[VaultOf(m)] = lamports[VaultOf(m)]
  BY <1>1, <1>2, VaultIsUnpaid, PlatformPaidExactly
<1>4. CASE m = o
  <2>1. launch'[m] = NewLaunch(c)
    BY <1>4 DEF CreateToken, CustodyInvariant, TypeOK
  <2> QED
    BY <1>1, <1>3, <1>4, <2>1 DEF Owed, NewLaunch
<1>5. CASE m # o
  <2>1. launch'[m] = launch[m]
    BY <1>5 DEF CreateToken, CustodyInvariant, TypeOK
  <2> QED
    BY <1>3, <2>1, UnchangedMapped
<1> QED
  BY <1>4, <1>5

\* A purchase credits the vault of its launch with what it books, and no other.
LEMMA BuyExact ==
    ASSUME CustodyInvariant, WalletsApart, NEW b \in Wallets, NEW o \in Mints,
           NEW n \in U64, NEW lim \in U64, Buy(b, o, n, lim), NEW m \in Mints
    PROVE  lamports'[VaultOf(m)] - Owed(m)' = lamports[VaultOf(m)] - Owed(m)
<1> DEFINE l       == launch[o]
           cost    == BuyCost(l, n)
           fee     == TradeFee(cost, config.trade_fee_bps)
           shares  == TradeShares(config, fee)
           toVault == Moved(lamports, b, VaultOf(o), cost)
           vault   == VaultOf(m)
<1>1. /\ Initialized /\ Launched(o) /\ config \in ConfigType
      /\ BuyQuoteOk(l, n) /\ TradeSharesOk(config, fee)
      /\ l.real_sol_reserves + cost <= MaxRealSolReserves
      /\ l.tokens_sold + n \in U64
      /\ lamports' = PaidShares(toVault, b, config, l.creator, shares)
      /\ launch' = [launch EXCEPT ![o] = AfterBuy(l, n, cost)]
  BY DEF Buy, CanBuy, TradingOpen, Trading, CustodyInvariant, TypeOK
<1>2. l \in LaunchType /\ launch \in [Mints -> LaunchType \cup {NoLaunch}]
  BY <1>1, LaunchState DEF CustodyInvariant, TypeOK
<1>3. cost \in Nat
  BY <1>1, <1>2, BuyQuoteTyped
<1>4. l.creator \in Wallets /\ l.real_sol_reserves \in Nat /\ AfterBuy(l, n, cost) # NoLaunch
  BY <1>1, <1>2, LaunchAmounts, BuyQuoteTyped, AccountsAssumption DEF LaunchType
<1>5. AfterBuy(l, n, cost).real_sol_reserves = l.real_sol_reserves + cost
  BY <1>2 DEF AfterBuy, LaunchType
<1> HIDE DEF l, cost
<1>6. fee \in Nat
  BY <1>1, <1>3, ConfigAmounts, FeeBounds DEF TradeFee
<1> HIDE DEF fee
<1>7. shares.creator \in Nat /\ shares.dino \in Nat /\ shares.treasury \in Nat
  BY <1>1, <1>6, TradeSharesAddUp
<1> HIDE DEF shares
<1>8. /\ vault \in Accounts /\ lamports[vault] \in Nat /\ DOMAIN lamports = Accounts
      /\ vault # l.creator /\ vault # config.dino_buyback_wallet
      /\ vault # config.treasury_wallet /\ vault # b
      /\ (VaultOf(o) = vault <=> m = o)
  BY <1>1, <1>4, VaultIsUnpaid, VaultsDiffer
<1> HIDE DEF vault
<1>9. /\ DOMAIN toVault = Accounts
      /\ toVault[vault] = lamports[vault] + (IF m = o THEN cost ELSE 0)
      /\ toVault[vault] \in Int
  BY <1>3, <1>8 DEF Moved
<1> HIDE DEF toVault
<1>10. lamports'[vault] = lamports[vault] + (IF m = o THEN cost ELSE 0)
  BY <1>1, <1>7, <1>8, <1>9, SharesPaidExactly
<1>11. CASE m = o
  <2>1. Owed(m) = l.real_sol_reserves /\ Owed(m)' = l.real_sol_reserves + cost
    BY <1>1, <1>2, <1>4, <1>5, <1>11 DEF Owed, l
  <2> QED
    BY <1>3, <1>4, <1>8, <1>10, <1>11, <2>1 DEF vault
<1>12. CASE m # o
  <2>1. launch'[m] = launch[m]
    BY <1>1, <1>12
  <2>2. Owed(m)' = Owed(m)
    BY <2>1, UnchangedMapped
  <2>3. Owed(m) \in Nat
    BY MappedLaunch
  <2> QED
    BY <1>8, <1>10, <1>12, <2>2, <2>3 DEF vault
<1> QED
  BY <1>11, <1>12

\* A sale debits the vault of its launch by what it takes off the books, and no
\* other vault by anything.
LEMMA SellExact ==
    ASSUME CustodyInvariant, WalletsApart, NEW s \in Wallets, NEW o \in Mints,
           NEW n \in U64, NEW lim \in U64, Sell(s, o, n, lim), NEW m \in Mints
    PROVE  lamports'[VaultOf(m)] - Owed(m)' = lamports[VaultOf(m)] - Owed(m)
<1> DEFINE l      == launch[o]
           gross  == SellGross(l, n)
           fee    == TradeFee(gross, config.trade_fee_bps)
           shares == TradeShares(config, fee)
           paid   == Moved(lamports, VaultOf(o), s, gross - fee)
           vault  == VaultOf(m)
<1>1. /\ Initialized /\ Launched(o) /\ config \in ConfigType
      /\ SellQuoteOk(l, n) /\ TradeSharesOk(config, fee) /\ fee <= gross
      /\ l.real_token_reserves + n \in U64 /\ l.virtual_token_reserves + n \in U64
      /\ lamports' = PaidShares(paid, VaultOf(o), config, l.creator, shares)
      /\ launch' = [launch EXCEPT ![o] = AfterSell(l, n, gross)]
  BY DEF Sell, CanSell, AfterPayout, TradingOpen, Trading, CustodyInvariant, TypeOK
<1>2. l \in LaunchType /\ launch \in [Mints -> LaunchType \cup {NoLaunch}]
  BY <1>1, LaunchState DEF CustodyInvariant, TypeOK
<1>3. gross \in Nat
  BY <1>1, <1>2, SellQuoteTyped
<1>4. l.creator \in Wallets /\ l.real_sol_reserves \in Nat /\ AfterSell(l, n, gross) # NoLaunch
  BY <1>1, <1>2, LaunchAmounts, SellQuoteTyped, AccountsAssumption DEF LaunchType
<1>5. AfterSell(l, n, gross).real_sol_reserves = l.real_sol_reserves - gross
  BY <1>2 DEF AfterSell, LaunchType
<1> HIDE DEF l, gross
<1>6. fee \in Nat
  BY <1>1, <1>3, ConfigAmounts, FeeBounds DEF TradeFee
<1> HIDE DEF fee
<1>7. /\ shares.creator \in Nat /\ shares.dino \in Nat /\ shares.treasury \in Nat
      /\ shares.creator + shares.dino + shares.treasury = fee
  BY <1>1, <1>6, TradeSharesAddUp
<1> HIDE DEF shares
<1>8. /\ vault \in Accounts /\ lamports[vault] \in Nat /\ DOMAIN lamports = Accounts
      /\ vault # l.creator /\ vault # config.dino_buyback_wallet
      /\ vault # config.treasury_wallet /\ vault # s
      /\ (vault = VaultOf(o) <=> m = o)
  BY <1>1, <1>4, VaultIsUnpaid, VaultsDiffer
<1> HIDE DEF vault
<1>9. gross - fee \in Nat
  BY <1>1, <1>3, <1>6
<1>10. /\ DOMAIN paid = Accounts /\ paid[vault] \in Int
       /\ paid[vault] = lamports[vault] - (IF m = o THEN gross - fee ELSE 0)
  BY <1>8, <1>9, UnpaidExactly
<1> HIDE DEF paid
<1>11. lamports'[vault]
         = paid[vault] - (IF m = o THEN shares.creator + shares.dino + shares.treasury ELSE 0)
  BY <1>1, <1>7, <1>8, <1>10, SharesPaidExactly
<1>12. lamports'[vault] = lamports[vault] - (IF m = o THEN gross ELSE 0)
  BY <1>3, <1>6, <1>7, <1>8, <1>10, <1>11
<1>13. CASE m = o
  <2>1. Owed(m) = l.real_sol_reserves /\ Owed(m)' = l.real_sol_reserves - gross
    BY <1>1, <1>2, <1>4, <1>5, <1>13 DEF Owed, l
  <2> QED
    BY <1>3, <1>4, <1>8, <1>12, <1>13, <2>1 DEF vault
<1>14. CASE m # o
  <2>1. launch'[m] = launch[m]
    BY <1>1, <1>14
  <2>2. Owed(m)' = Owed(m) /\ Owed(m) \in Nat
    BY <2>1, UnchangedMapped, MappedLaunch
  <2> QED
    BY <1>8, <1>12, <1>14, <2>2 DEF vault
<1> QED
  BY <1>13, <1>14

\* graduate takes the SOL on the books out of the vault of its launch, all of
\* it and no more.
LEMMA GraduateExact ==
    ASSUME CustodyInvariant, WalletsApart, NEW o \in Mints, Graduate(o), NEW m \in Mints
    PROVE  /\ lamports'[VaultOf(m)]
                = lamports[VaultOf(m)] - (IF m = o THEN launch[o].real_sol_reserves ELSE 0)
           /\ lamports'[VaultOf(m)] - Owed(m)' = lamports[VaultOf(m)] - Owed(m)
<1> DEFINE l      == launch[o]
           fee    == config.graduation_fee_lamports
           shares == SplitTwoWay(fee, config.graduation_split_dino_bps)
           paid   == PaidToPlatform(lamports, VaultOf(o), config, shares)
           rest   == l.real_sol_reserves - fee
           vault  == VaultOf(m)
<1>1. /\ Initialized /\ Launched(o) /\ config \in ConfigType
      /\ l.real_sol_reserves >= fee
      /\ SplitTwoWayOk(fee, config.graduation_split_dino_bps)
      /\ lamports' = Moved(paid, VaultOf(o), config.graduation_authority, rest)
      /\ launch' = [launch EXCEPT ![o] = AfterGraduation(l, fee)]
  BY DEF Graduate, CanGraduate, TradingOpen, Trading, CustodyInvariant, TypeOK
<1>2. l \in LaunchType /\ launch \in [Mints -> LaunchType \cup {NoLaunch}]
  BY <1>1, LaunchState DEF CustodyInvariant, TypeOK
<1>3. l.real_sol_reserves \in Nat /\ fee \in Nat /\ config.graduation_split_dino_bps \in Nat
  BY <1>1, <1>2, LaunchAmounts, ConfigAmounts
<1>4. AfterGraduation(l, fee).real_sol_reserves = 0 /\ Launched(o)'
  BY <1>2, GraduateKeepsInvariant DEF AfterGraduation, LaunchType
<1> HIDE DEF l, fee
<1>5. /\ shares.dino \in Nat /\ shares.treasury \in Nat
      /\ shares.dino + shares.treasury = fee
  BY <1>1, <1>3, TwoSharesAddUp
<1> HIDE DEF shares
<1>6. rest \in Nat /\ fee + rest = l.real_sol_reserves
  BY <1>1, <1>3
<1>7. /\ vault \in Accounts /\ lamports[vault] \in Nat /\ DOMAIN lamports = Accounts
      /\ vault # config.dino_buyback_wallet /\ vault # config.treasury_wallet
      /\ vault # config.graduation_authority
      /\ (vault = VaultOf(o) <=> m = o)
  BY <1>1, VaultIsUnpaid, VaultsDiffer
<1> HIDE DEF vault, rest
<1>8. /\ DOMAIN paid = Accounts /\ paid[vault] \in Int
      /\ paid[vault] = lamports[vault] - (IF m = o THEN fee ELSE 0)
  BY <1>5, <1>7, PlatformPaidExactly
<1> HIDE DEF paid
<1>9. lamports'[vault] = paid[vault] - (IF m = o THEN rest ELSE 0)
  BY <1>1, <1>6, <1>7, <1>8, UnpaidExactly
<1>10. lamports'[vault] = lamports[vault] - (IF m = o THEN l.real_sol_reserves ELSE 0)
  BY <1>3, <1>6, <1>7, <1>8, <1>9
<1>11. CASE m = o
  <2>1. Owed(m) = l.real_sol_reserves /\ Owed(m)' = 0
    BY <1>1, <1>2, <1>4, <1>11 DEF Owed, l
  <2> QED
    BY <1>3, <1>7, <1>10, <1>11, <2>1 DEF vault, l
<1>12. CASE m # o
  <2>1. launch'[m] = launch[m]
    BY <1>1, <1>12
  <2>2. Owed(m)' = Owed(m) /\ Owed(m) \in Nat
    BY <2>1, UnchangedMapped, MappedLaunch
  <2> QED
    BY <1>7, <1>10, <1>12, <2>2 DEF vault
<1> QED
  BY <1>11, <1>12

\* Without strangers, no step changes what a vault holds beyond its books.
LEMMA SurplusFixed ==
    ASSUME CustodyInvariant, WalletsApart, [Instruction]_vars, StrayAmounts = {}, NEW m \in Mints
    PROVE  lamports'[VaultOf(m)] - Owed(m)' = lamports[VaultOf(m)] - Owed(m)
<1>1. ASSUME lamports' = lamports, launch'[m] = launch[m]
      PROVE  lamports'[VaultOf(m)] - Owed(m)' = lamports[VaultOf(m)] - Owed(m)
  BY <1>1, UnchangedMapped
<1>2. CASE AdminInstruction
  BY <1>1, <1>2 DEF AdminInstruction, InitializeConfig, UpdateConfig, SetPaused
<1>3. CASE TradeInstruction
  <2>1. PICK w \in Wallets, o \in Mints :
            \/ \E p \in CreateParams : CreateToken(w, o, p)
            \/ \E n \in U64, lim \in U64 : Buy(w, o, n, lim) \/ Sell(w, o, n, lim)
    BY <1>3 DEF TradeInstruction
  <2>3. CASE \E p \in CreateParams : CreateToken(w, o, p)
    BY <2>3, CreateTokenExact
  <2>4. CASE \E n \in U64, lim \in U64 : Buy(w, o, n, lim) \/ Sell(w, o, n, lim)
    BY <2>4, BuyExact, SellExact
  <2> QED
    BY <2>1, <2>3, <2>4
<1>4. CASE GraduationStep
  <2>1. ASSUME NEW s \in Wallets, NEW o \in Mints, NEW lb \in LbPairs \cup {DefaultKey},
               SealGraduation(s, o, lb)
        PROVE  lamports'[VaultOf(m)] - Owed(m)' = lamports[VaultOf(m)] - Owed(m)
    <3>1. /\ launch' = [launch EXCEPT ![o].pool_seeded = TRUE, ![o].meteora_lb_pair = lb]
          /\ launch \in [Mints -> LaunchType \cup {NoLaunch}]
          /\ Launched(o) /\ lamports' = lamports
      BY <2>1 DEF SealGraduation, CustodyInvariant, TypeOK
    <3>2. CASE m # o
      BY <1>1, <3>1, <3>2
    <3>3. CASE m = o
      <4>1. launch[m] \in LaunchType
        BY <3>1, <3>3
      <4>2. launch'[m] = [launch[m] EXCEPT !.pool_seeded = TRUE, !.meteora_lb_pair = lb]
        BY <3>1, <3>3
      <4>3. launch'[m].real_sol_reserves = launch[m].real_sol_reserves
        BY <4>1, <4>2 DEF LaunchType
      <4>4. Launched(m)'
        BY <2>1, <3>3, SealKeepsInvariant
      <4> QED
        BY <3>1, <3>3, <4>3, <4>4 DEF Owed
    <3> QED
      BY <3>2, <3>3
  <2> QED
    BY <1>4, <2>1, GraduateExact DEF GraduationStep
<1>5. CASE StrayStep
  BY <1>5 DEF StrayStep
<1>6. CASE UNCHANGED vars
  BY <1>1, <1>6 DEF vars
<1> QED
  BY <1>2, <1>3, <1>4, <1>5, <1>6 DEF Instruction

\* What every step preserves where no stranger deposits.
LedgerExact ==
    CustodyInvariant /\ WalletsApart /\ \A m \in Mints : lamports[VaultOf(m)] = Owed(m)

\* When nobody sends lamports around the program and the admin names no vault,
\* every vault holds what the books say to the lamport, in every state.
LEMMA ProgramKeepsVaultsExact ==
    ASSUME StrayAmounts = {}, NoVaultNamed PROVE ProgramSpec => []VaultMatchesLedger
<1>1. Init => LedgerExact
  <2> SUFFICES ASSUME Init PROVE LedgerExact
    OBVIOUS
  <2>1. WalletsApart
    BY DEF Init, WalletsApart
  <2>2. ASSUME NEW m \in Mints PROVE lamports[VaultOf(m)] = Owed(m)
    <3>1. VaultOf(m) \in Accounts /\ VaultOf(m) \notin Wallets
      BY VaultsDiffer
    <3> QED
      BY <3>1 DEF Init, Owed
  <2> QED
    BY <2>1, <2>2, InvariantAtStart DEF LedgerExact
<1>2. LedgerExact /\ [Instruction]_vars => LedgerExact'
  <2> SUFFICES ASSUME LedgerExact, [Instruction]_vars PROVE LedgerExact'
    OBVIOUS
  <2>1. CustodyInvariant /\ CustodyInvariant' /\ TypeOK
    BY InstructionKeepsInvariant DEF LedgerExact, CustodyInvariant
  <2>2. WalletsApart'
    BY <2>1, WalletsStayApart DEF LedgerExact
  <2>3. ASSUME NEW m \in Mints PROVE lamports'[VaultOf(m)] = Owed(m)'
    <3>1. lamports[VaultOf(m)] = Owed(m) /\ lamports[VaultOf(m)] \in Nat
      BY VaultsDiffer DEF LedgerExact, CustodyInvariant, TypeOK
    <3>2. lamports'[VaultOf(m)] - Owed(m)' = lamports[VaultOf(m)] - Owed(m)
      BY SurplusFixed DEF LedgerExact
    <3>3. lamports'[VaultOf(m)] \in Nat
      BY <2>1, VaultsDiffer DEF CustodyInvariant, TypeOK
    <3>4. Owed(m)' \in Int
      <4>1. Launched(m)' => launch'[m].real_sol_reserves \in Nat
        BY <2>1, MappedLaunchNext
      <4> QED
        BY <4>1 DEF Owed
    <3> QED
      BY <3>1, <3>2, <3>3, <3>4
  <2> QED
    BY <2>1, <2>2, <2>3 DEF LedgerExact
<1>3. LedgerExact => VaultMatchesLedger
  <2> SUFFICES ASSUME LedgerExact, NEW m \in Mints
               PROVE  /\ lamports[VaultOf(m)]
                           = IF Launched(m) THEN launch[m].real_sol_reserves ELSE 0
                      /\ lamports[VaultOf(m)] <= MaxRealSolReserves
    BY DEF VaultMatchesLedger
  <2>1. Launched(m) => launch[m].real_sol_reserves <= MaxRealSolReserves
    BY DEF LedgerExact, CustodyInvariant, VaultSolvent
  <2> QED
    BY <2>1, AllocationAssumption DEF LedgerExact, Owed
<1> QED
  BY <1>1, <1>2, <1>3, PTL DEF ProgramSpec

\* The vaults are exact under Spec.
THEOREM VaultsExact ==
    ASSUME StrayAmounts = {}, NoVaultNamed PROVE Spec => []VaultMatchesLedger
BY SpecRunsProgram, ProgramKeepsVaultsExact, PTL

\* What graduate leaves on chain for audit is what it moved, also when strangers
\* have deposited in the vault, as long as the admin names no vault.
LEMMA ProgramAuditsHandOffs ==
    ASSUME NoVaultNamed PROVE ProgramSpec => HandOffAudited
<1>1. Init => WalletsApart
  BY DEF Init, WalletsApart
<1>2. CustodyInvariant /\ WalletsApart /\ [Instruction]_vars => WalletsApart'
  BY WalletsStayApart DEF CustodyInvariant
<1> DEFINE Audited(m) ==
      /\ launch'[m].graduation_sol_lamports + config.graduation_fee_lamports
            = launch[m].real_sol_reserves
      /\ lamports[VaultOf(m)] - lamports'[VaultOf(m)] = launch[m].real_sol_reserves
      /\ supply'[m] - supply[m] = launch'[m].graduation_token_amount
<1>3. ASSUME CustodyInvariant, WalletsApart, [Instruction]_vars, NEW m \in Mints,
             Trading(m), ~Trading(m)'
      PROVE  Audited(m)
  <2>1. /\ launch[m] \in LaunchType /\ lamports[VaultOf(m)] \in Nat /\ supply[m] \in Nat
        /\ ~launch[m].graduated /\ Launched(m) /\ TypeOK
    BY <1>3, LaunchState DEF Trading, CustodyInvariant
  <2>2. launch'[m] # launch[m]
    BY <1>3 DEF Trading
  <2>3. ASSUME NEW b \in Wallets, NEW n \in U64, NEW lim \in U64, Buy(b, m, n, lim)
        PROVE  FALSE
    <3>1. launch'[m] = AfterBuy(launch[m], n, BuyCost(launch[m], n)) /\ Launched(m)'
      BY <1>3, <2>1, <2>3, BuyKeepsInvariant DEF Buy, TypeOK
    <3> QED
      BY <1>3, <2>1, <3>1 DEF AfterBuy, LaunchType, Trading
  <2>4. ASSUME NEW s \in Wallets, NEW n \in U64, NEW lim \in U64, Sell(s, m, n, lim)
        PROVE  FALSE
    <3>1. launch'[m] = AfterSell(launch[m], n, SellGross(launch[m], n)) /\ Launched(m)'
      BY <1>3, <2>1, <2>4, SellKeepsInvariant DEF Sell, TypeOK
    <3> QED
      BY <1>3, <2>1, <3>1 DEF AfterSell, LaunchType, Trading
  <2>5. Graduate(m)
    BY <1>3, <2>1, <2>2, <2>3, <2>4, LaunchChanges DEF SealGraduation
  <2>6. /\ Initialized /\ config \in ConfigType
        /\ launch[m].real_sol_reserves >= config.graduation_fee_lamports
        /\ launch'[m] = AfterGraduation(launch[m], config.graduation_fee_lamports)
        /\ supply'[m] = supply[m] + GraduationReserve
    BY <2>1, <2>5 DEF Graduate, CanGraduate, TradingOpen, TypeOK
  <2>7. /\ launch'[m].graduation_sol_lamports
             = launch[m].real_sol_reserves - config.graduation_fee_lamports
        /\ launch'[m].graduation_token_amount = GraduationReserve
    BY <2>1, <2>6 DEF AfterGraduation, LaunchType
  <2>8. /\ launch[m].real_sol_reserves \in Nat /\ config.graduation_fee_lamports \in Nat
        /\ GraduationReserve \in Nat
    BY <2>1, <2>6, LaunchAmounts, ConfigAmounts, AllocationAssumption
  <2>9. lamports'[VaultOf(m)] = lamports[VaultOf(m)] - launch[m].real_sol_reserves
    BY <1>3, <2>5, GraduateExact
  <2> QED
    BY <2>1, <2>6, <2>7, <2>8, <2>9
<1>4. CustodyInvariant /\ WalletsApart /\ [Instruction]_vars =>
        [\A m \in Mints : Trading(m) /\ ~Trading(m)' =>
            LET l == launch'[m]
            IN  /\ l.graduation_sol_lamports + config.graduation_fee_lamports
                      = launch[m].real_sol_reserves
                /\ lamports[VaultOf(m)] - lamports'[VaultOf(m)] = launch[m].real_sol_reserves
                /\ supply'[m] - supply[m] = l.graduation_token_amount]_vars
  BY <1>3
<1> QED
  BY <1>1, <1>2, <1>4, ProgramKeepsCustody, PTL DEF ProgramSpec, HandOffAudited

\* The record of every hand-off under Spec is right.
THEOREM HandOffsAudited ==
    ASSUME NoVaultNamed PROVE Spec => HandOffAudited
BY SpecRunsProgram, ProgramAuditsHandOffs, PTL
=============================================================================
