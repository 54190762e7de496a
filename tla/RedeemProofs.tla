---------------------------- MODULE RedeemProofs ----------------------------
(***************************************************************************)
(* Nobody is locked in: in every reachable state every check of sell       *)
(* passes for any amount in circulation, so a seller's tokens and          *)
(* min_sol_out are all that a sale can fail on.  And no launch is stranded *)
(* below its threshold, which one purchase always reaches exactly, nor at  *)
(* it: no check of graduate fails but for a fee above the curve's SOL.     *)
(***************************************************************************)
EXTENDS MemecoinProofs

USE DEF Initialized, Launched

\* Two shares whose rates add up to the whole at most can both be paid.
LEMMA SharesFit ==
    ASSUME NEW amount \in Nat, NEW a \in Nat, NEW b \in Nat, a + b <= BpsDenominator
    PROVE  SplitThreeWayOk(amount, a, b)
<1> DEFINE p == amount * a
           q == amount * b
<1>1. p \in Nat /\ q \in Nat /\ p + q = amount * (a + b)
  OBVIOUS
<1>2. amount * (a + b) <= amount * 10000
  <2>1. (a + b) \in Nat /\ a + b <= 10000
    BY DEF BpsDenominator
  <2>2. (a + b) * amount <= 10000 * amount
    BY <2>1, ProductMonotone
  <2> QED
    BY <2>1, <2>2
<1> HIDE DEF p, q
<1>3. /\ p \div 10000 \in Nat /\ (p \div 10000) * 10000 <= p
      /\ q \div 10000 \in Nat /\ (q \div 10000) * 10000 <= q
  BY <1>1, FloorDivision
<1>4. p \div 10000 + q \div 10000 <= amount
  BY <1>1, <1>2, <1>3
<1> QED
  BY <1>4 DEF SplitThreeWayOk, BpsOf, BpsDenominator, p, q

\* A payer who holds the sum of the shares can pay them one after the other,
\* whichever wallets they go to.
LEMMA SharesCanBePaid ==
    ASSUME NEW bal \in Balances, NEW from \in Accounts, NEW c, NEW creator,
           NEW s, s.creator \in Nat, s.dino \in Nat, s.treasury \in Nat,
           s.creator + s.dino + s.treasury <= bal[from]
    PROVE  CanPayShares(bal, from, c, creator, s)
<1> DEFINE one == Moved(bal, from, creator, s.creator)
           two == Moved(one, from, c.dino_buyback_wallet, s.dino)
<1>1. bal[from] \in Nat
  BY DEF Balances
<1>2. s.creator <= bal[from]
  BY <1>1
<1>3. one \in Balances /\ one[from] >= bal[from] - s.creator
  BY <1>2, MovedIsSafe
<1> HIDE DEF one
<1>4. one[from] \in Nat /\ s.dino <= one[from] /\ s.dino + s.treasury <= one[from]
  BY <1>1, <1>3 DEF Balances
<1>5. two \in Balances /\ two[from] >= one[from] - s.dino
  BY <1>3, <1>4, MovedIsSafe
<1> HIDE DEF two
<1>6. two[from] \in Nat /\ s.treasury <= two[from]
  BY <1>4, <1>5 DEF Balances
<1> QED
  BY <1>2, <1>4, <1>6 DEF CanPayShares, CanPayPlatform, one, two

\* A quote for a sale never overflows, and never exceeds what the curve holds.
LEMMA SellQuoteSucceeds ==
    ASSUME NEW vs \in Nat, NEW vt \in Nat, NEW rs \in Nat, NEW n \in Nat,
           n > 0, vs + rs <= U64Max, vt <= U64Max
    PROVE  SolOutOk(vs, vt, rs, n) /\ SolOut(vs, vt, rs, n) \in 0 .. rs
<1> DEFINE x == vs + rs
           y == vt + n
           k == x * vt
           q == k \div y
<1>1. x \in Nat /\ x <= U64Max /\ y \in Nat /\ y > 0 /\ vt <= y /\ k \in Nat
  OBVIOUS
<1> HIDE DEF x, y
<1>2. k <= U128Max
  <2>1. U64Max \in Nat /\ U128Max \in Nat /\ U64Max * (U64Max + 1) <= U128Max
    BY WidthsAssumption
  <2>2. x * vt <= U64Max * vt
    BY <1>1, <2>1, ProductMonotone
  <2>3. vt * U64Max <= (U64Max + 1) * U64Max
    BY <2>1, ProductMonotone
  <2>4. vt * U64Max = U64Max * vt /\ (U64Max + 1) * U64Max = U64Max * (U64Max + 1)
    BY <2>1
  <2>5. x * vt \in Nat /\ U64Max * vt \in Nat /\ U64Max * (U64Max + 1) \in Nat
    BY <1>1, <2>1
  <2> QED
    BY <2>1, <2>2, <2>3, <2>4, <2>5
<1>3. q \in Nat /\ q * y <= k
  <2> HIDE DEF k
  <2> QED
    BY <1>1, FloorDivision
<1>4. q <= x
  <2>1. SUFFICES ASSUME x < q PROVE FALSE
    BY <1>1, <1>3
  <2>2. (x + 1) * y <= q * y
    <3>1. x + 1 \in Nat /\ x + 1 <= q
      BY <1>1, <1>3, <2>1
    <3> HIDE DEF q
    <3> QED
      BY <1>1, <1>3, <3>1, ProductMonotone
  <2>3. vt * x <= y * x
    BY <1>1, ProductMonotone
  <2>4. vt * x = k /\ y * x = x * y /\ (x + 1) * y = x * y + y
    BY <1>1
  <2>5. x * y \in Nat /\ q * y \in Nat
    BY <1>1, <1>3
  <2> HIDE DEF k, q
  <2> QED
    BY <1>1, <1>3, <2>2, <2>3, <2>4, <2>5
<1> HIDE DEF k, q
<1>5. SolOutUncapped(vs, vt, rs, n) = x - q
  BY DEF SolOutUncapped, x, y, k, q
<1>6. x - q \in U64 /\ x - q \in Nat
  BY <1>1, <1>3, <1>4, WidthsAssumption DEF U64
<1> QED
  BY <1>2, <1>5, <1>6 DEF SolOutOk, SolOut, x, k

\* Those who are not paid keep what they have.
LEMMA OthersKeepBalance ==
    ASSUME NEW bal \in Balances, NEW from, NEW to, NEW n, NEW c, NEW creator, NEW s,
           NEW a \in Accounts,
           a \notin {from, to, creator, c.dino_buyback_wallet, c.treasury_wallet}
    PROVE  PaidShares(Moved(bal, from, to, n), from, c, creator, s)[a] = bal[a]
<1>1. DOMAIN bal = Accounts /\ bal[a] \in Nat
  BY DEF Balances
<1>2. ASSUME NEW b, DOMAIN b = Accounts, b[a] = bal[a], NEW t, t # a, NEW k
      PROVE  DOMAIN Moved(b, from, t, k) = Accounts /\ Moved(b, from, t, k)[a] = bal[a]
  BY <1>1, <1>2 DEF Moved
<1> DEFINE one == Moved(bal, from, to, n)
           two == Moved(one, from, creator, s.creator)
           three == Moved(two, from, c.dino_buyback_wallet, s.dino)
           four == Moved(three, from, c.treasury_wallet, s.treasury)
<1>3. DOMAIN one = Accounts /\ one[a] = bal[a]
  BY <1>1, <1>2
<1> HIDE DEF one
<1>4. DOMAIN two = Accounts /\ two[a] = bal[a]
  BY <1>2, <1>3
<1> HIDE DEF two
<1>5. DOMAIN three = Accounts /\ three[a] = bal[a]
  BY <1>2, <1>4
<1> HIDE DEF three
<1>6. four[a] = bal[a]
  BY <1>2, <1>5
<1> QED
  BY <1>6 DEF PaidShares, PaidToPlatform, one, two, three

\* No check of sell fails, whoever sells and whatever has been traded, donated
\* or burned before.
LEMMA SellNeverRefused ==
    ASSUME CustodyInvariant, NEW m \in Mints, Trading(m), Initialized, ~config.paused,
           NEW s \in Wallets, NEW n \in 1 .. Circulating(m)
    PROVE  LET gross == SellGross(launch[m], n)
               fee   == TradeFee(gross, config.trade_fee_bps)
               paid  == {s, launch[m].creator, config.dino_buyback_wallet, config.treasury_wallet}
           IN  /\ CanSell(s, m, n, 0)
               /\ lamports[VaultOf(m)] - gross >= RentMinimum
                  /\ (\A a \in paid : lamports[a] >= RentMinimum)
                  => RentOk(lamports, AfterPayout(s, m, gross, fee))
<1> DEFINE l      == launch[m]
           vault  == VaultOf(m)
           gross  == SellGross(l, n)
           fee    == TradeFee(gross, config.trade_fee_bps)
           shares == TradeShares(config, fee)
           paid   == Moved(lamports, vault, s, gross - fee)
<1>1. /\ l \in LaunchType /\ ~l.graduated /\ lamports \in Balances /\ lamports[vault] \in Nat
      /\ curveTokens[m] \in Nat /\ supply[m] \in Nat
      /\ Books(l, lamports[vault], curveTokens[m], supply[m])
  BY LaunchState DEF Trading
<1>2. config \in ConfigType /\ Validate(config)
  BY DEF CustodyInvariant, TypeOK, ConfigStaysValid
<1>3. /\ l.real_sol_reserves \in Nat /\ l.virtual_sol_reserves \in Nat
      /\ l.virtual_token_reserves \in Nat /\ l.real_token_reserves \in Nat
      /\ l.tokens_sold \in Nat
  BY <1>1, LaunchAmounts
<1>4. /\ l.virtual_sol_reserves = DefaultVirtualSol
      /\ l.real_sol_reserves <= MaxRealSolReserves /\ l.real_sol_reserves <= lamports[vault]
      /\ l.virtual_token_reserves + l.tokens_sold = DefaultVirtualTokens
      /\ l.real_token_reserves = CurveAllocation - l.tokens_sold
      /\ supply[m] - curveTokens[m] <= l.tokens_sold
  BY <1>1, <1>3 DEF Books
<1>5. n \in Nat /\ n > 0 /\ n <= l.tokens_sold
  <2>1. n \in 1 .. (supply[m] - curveTokens[m])
    BY DEF Circulating
  <2> HIDE DEF l
  <2> QED
    BY <1>1, <1>3, <1>4, <2>1
<1> HIDE DEF l, vault
<1>6. l.real_token_reserves + n \in U64 /\ l.virtual_token_reserves + n \in U64
  BY <1>3, <1>4, <1>5, AllocationAssumption, WidthsAssumption DEF U64
<1>7. /\ l.virtual_sol_reserves + l.real_sol_reserves <= U64Max
      /\ l.virtual_token_reserves <= U64Max
  BY <1>3, <1>4, <1>5, AllocationAssumption, WidthsAssumption
<1>8. SellQuoteOk(l, n) /\ gross \in Nat /\ gross <= l.real_sol_reserves
  <2>1. SellQuoteOk(l, n) /\ gross \in 0 .. l.real_sol_reserves
    BY <1>3, <1>5, <1>7, SellQuoteSucceeds DEF SellQuoteOk, SellGross
  <2> HIDE DEF gross
  <2> QED
    BY <1>3, <2>1
<1> HIDE DEF gross
<1>9. fee \in Nat /\ fee <= gross
  <2>1. config.trade_fee_bps \in Nat /\ config.trade_fee_bps <= BpsDenominator
    BY <1>2, ConfigAmounts DEF Validate, BpsDenominator
  <2> QED
    BY <1>8, <2>1, FeeBounds DEF TradeFee
<1> HIDE DEF fee
<1>10. TradeSharesOk(config, fee)
  <2>1. /\ config.trade_split_creator_bps \in Nat /\ config.trade_split_dino_bps \in Nat
        /\ config.trade_split_treasury_bps \in Nat
    BY <1>2, ConfigAmounts
  <2>2. config.trade_split_creator_bps + config.trade_split_dino_bps
           + config.trade_split_treasury_bps = BpsDenominator
    BY <1>2 DEF Validate
  <2>3. config.trade_split_creator_bps + config.trade_split_dino_bps <= BpsDenominator
    BY <2>1, <2>2 DEF BpsDenominator
  <2> QED
    BY <1>9, <2>1, <2>3, SharesFit DEF TradeSharesOk
<1>11. /\ shares.creator \in Nat /\ shares.dino \in Nat /\ shares.treasury \in Nat
       /\ shares.creator + shares.dino + shares.treasury = fee
  BY <1>2, <1>9, <1>10, TradeSharesAddUp
<1> HIDE DEF shares
<1>12. gross - fee \in Nat /\ gross - fee <= lamports[vault] /\ gross - fee >= 0
  BY <1>1, <1>3, <1>4, <1>8, <1>9
<1>13. vault \in Accounts
  BY VaultsDiffer DEF vault
<1>14. paid \in Balances /\ paid[vault] >= lamports[vault] - (gross - fee)
  BY <1>1, <1>12, <1>13, MovedIsSafe
<1> HIDE DEF paid
<1>15. shares.creator + shares.dino + shares.treasury <= paid[vault]
  <2>1. paid[vault] \in Nat
    BY <1>13, <1>14 DEF Balances
  <2> QED
    BY <1>1, <1>3, <1>4, <1>8, <1>9, <1>11, <1>14, <2>1
<1>16. CanPayShares(paid, vault, config, l.creator, shares)
  BY <1>11, <1>13, <1>14, <1>15, SharesCanBePaid
<1>17. CanSell(s, m, n, 0)
  BY <1>6, <1>8, <1>9, <1>10, <1>12, <1>16
     DEF CanSell, TradingOpen, Trading, l, vault, gross, fee, shares, paid
<1> DEFINE after == PaidShares(paid, vault, config, l.creator, shares)
<1>18. ASSUME lamports[vault] - gross >= RentMinimum,
              \A a \in {s, l.creator, config.dino_buyback_wallet, config.treasury_wallet} :
                 lamports[a] >= RentMinimum
       PROVE  RentOk(lamports, after)
  <2>1. /\ after \in Balances
        /\ after[vault] >= paid[vault] - shares.creator - shares.dino - shares.treasury
        /\ \A a \in Accounts \ {vault} : after[a] >= paid[a]
    BY <1>11, <1>13, <1>14, <1>16, SharesPaymentIsSafe
  <2>2. \A a \in Accounts \ {vault} : paid[a] >= lamports[a]
    BY <1>1, <1>12, <1>13, MovedIsSafe DEF paid
  <2>3. \A a \in Accounts : lamports[a] \in Nat /\ paid[a] \in Nat /\ after[a] \in Nat
    BY <1>1, <1>14, <2>1 DEF Balances
  <2>4. RentMinimum \in Nat
    BY RentAssumption
  <2>5. \A a \in Accounts :
           a \notin {vault, s, l.creator, config.dino_buyback_wallet, config.treasury_wallet}
              => after[a] = lamports[a]
    BY <1>1, OthersKeepBalance DEF paid
  <2>6. DOMAIN after = Accounts
    BY <2>1 DEF Balances
  <2> HIDE DEF after
  <2>7. after[vault] >= RentMinimum
    BY <1>8, <1>9, <1>11, <1>13, <1>14, <1>18, <2>1, <2>3, <2>4
  <2>8. ASSUME NEW a \in Accounts, after[a] \in 1 .. RentMinimum - 1
        PROVE  lamports[a] \in 1 .. RentMinimum - 1 /\ after[a] <= lamports[a]
    <3>1. CASE a = vault
      BY <2>3, <2>4, <2>7, <2>8, <3>1
    <3>2. CASE a # vault /\ a \in {s, l.creator, config.dino_buyback_wallet, config.treasury_wallet}
      BY <1>18, <2>1, <2>2, <2>3, <2>4, <2>8, <3>2
    <3>3. CASE a \notin {vault, s, l.creator, config.dino_buyback_wallet, config.treasury_wallet}
      BY <2>5, <2>8, <3>3
    <3> QED
      BY <3>1, <3>2, <3>3
  <2> QED
    BY <2>6, <2>8 DEF RentOk
<1>19. after = AfterPayout(s, m, gross, fee)
  BY DEF AfterPayout, l, vault, shares, paid
<1> HIDE DEF after
<1> QED
  BY <1>17, <1>18, <1>19 DEF l, vault, gross, fee

\* Right books are all that a holder needs to be able to sell.
LEMMA RedeemableByBooks == CustodyInvariant => Redeemable
BY SellNeverRefused DEF Redeemable

\* Holders are never locked in.
THEOREM HoldersCanSell == Spec => []Redeemable
BY RedeemableByBooks, CustodyHolds, PTL

-----------------------------------------------------------------------------
(* No launch is stranded. *)

\* The dividend of a purchase's quote never overflows the wide type.
LEMMA QuoteFitsWideType ==
    ASSUME NEW x \in Nat, NEW vt \in Nat, NEW y \in Nat, x < U64Max, vt <= U64Max, y <= vt
    PROVE  x * vt + (y - 1) <= U128Max
<1>1. U64Max \in Nat /\ U128Max \in Nat /\ U64Max * (U64Max + 1) <= U128Max
  BY WidthsAssumption
<1>2. (x + 1) * vt <= U64Max * vt /\ vt * U64Max <= (U64Max + 1) * U64Max
  <2>1. x + 1 \in Nat /\ U64Max + 1 \in Nat /\ x + 1 <= U64Max /\ vt <= U64Max + 1
    BY <1>1
  <2> QED
    BY <1>1, <2>1, ProductMonotone
<1>3. /\ (x + 1) * vt = x * vt + vt /\ U64Max * vt = vt * U64Max
      /\ (U64Max + 1) * U64Max = U64Max * (U64Max + 1)
      /\ x * vt \in Nat /\ vt * U64Max \in Nat /\ U64Max * (U64Max + 1) \in Nat
  BY <1>1
<1> QED
  BY <1>1, <1>2, <1>3

\* While a launch trades below the threshold and k is what it was at the start
\* or more, one purchase takes its reserves to the threshold exactly.
LEMMA ThresholdCanBeMet ==
    ASSUME CustodyInvariant, FineCurve, NEW m \in Mints, Trading(m), Initialized,
           launch[m].real_sol_reserves < config.graduation_threshold_lamports,
           CurveK(launch[m]) >= DefaultVirtualSol * DefaultVirtualTokens
    PROVE  \E n \in 1 .. launch[m].real_token_reserves :
              /\ BuyQuoteOk(launch[m], n)
              /\ launch[m].real_sol_reserves + BuyCost(launch[m], n)
                    = config.graduation_threshold_lamports
<1> DEFINE l  == launch[m]
           T  == config.graduation_threshold_lamports
           S  == DefaultVirtualSol
           vt == l.virtual_token_reserves
           rs == l.real_sol_reserves
           rt == l.real_token_reserves
           x  == S + rs
           goal == S + T
           most == S + MaxRealSolReserves
           y  == CeilDiv(x * vt, goal)
           n  == vt - y
<1>1. /\ l \in LaunchType /\ ~l.graduated /\ lamports[VaultOf(m)] \in Nat
      /\ Books(l, lamports[VaultOf(m)], curveTokens[m], supply[m])
  BY LaunchState DEF Trading
<1>2. T \in Nat /\ T <= MaxRealSolReserves
  BY ConfigAmounts DEF CustodyInvariant, TypeOK, ConfigStaysValid, Validate
<1>3. rs \in Nat /\ rt \in Nat /\ vt \in Nat /\ l.tokens_sold \in Nat
  BY <1>1, LaunchAmounts
<1>4. /\ l.virtual_sol_reserves = S /\ vt + l.tokens_sold = DefaultVirtualTokens
      /\ rt = CurveAllocation - l.tokens_sold
  BY <1>1 DEF Books
<1>5. rs < T /\ S * DefaultVirtualTokens <= x * vt
  <2>1. CurveK(l) = x * vt
    BY <1>4 DEF CurveK
  <2> QED
    BY <2>1
<1> HIDE DEF l, T, vt, rs, rt
<1>6. /\ S \in Nat /\ S > 0 /\ x \in Nat /\ goal \in Nat /\ goal > 0 /\ x < goal
      /\ most \in Nat /\ goal <= most /\ most <= U64Max
      /\ DefaultVirtualTokens \in Nat /\ DefaultVirtualTokens <= U64Max
      /\ U64Max \in Nat /\ U128Max \in Nat /\ vt <= DefaultVirtualTokens
      /\ DefaultVirtualTokens - CurveAllocation \in Nat
  BY <1>2, <1>3, <1>4, <1>5, AllocationAssumption, WidthsAssumption
<1>7. /\ most * most <= S * DefaultVirtualTokens
      /\ (DefaultVirtualTokens - CurveAllocation) * most <= S * DefaultVirtualTokens
  BY DEF FineCurve
<1> DEFINE unsold == DefaultVirtualTokens - CurveAllocation
           k == x * vt
           k0 == S * DefaultVirtualTokens
<1>8. k \in Nat /\ k0 \in Nat /\ k0 <= k
  BY <1>3, <1>5, <1>6
<1> HIDE DEF x, goal, most, unsold
<1>9. goal * goal <= k /\ unsold * goal <= k
  <2>1. unsold \in Nat /\ most * most <= k0 /\ unsold * most <= k0
    BY <1>6, <1>7 DEF unsold
  <2>2. goal * goal <= most * goal /\ goal * most <= most * most /\ goal * unsold <= most * unsold
    BY <1>6, <2>1, ProductMonotone
  <2>3. /\ goal * most = most * goal /\ unsold * goal = goal * unsold
        /\ unsold * most = most * unsold
        /\ goal * goal \in Nat /\ most * goal \in Nat /\ most * most \in Nat
        /\ most * unsold \in Nat /\ goal * unsold \in Nat
    BY <1>6, <2>1
  <2> HIDE DEF k, k0
  <2> QED
    BY <1>8, <2>1, <2>2, <2>3
<1>10. y \in Nat /\ goal <= y /\ y < vt /\ CeilDiv(x * vt, y) = goal
  <2>1. x \in Nat /\ vt \in Nat /\ goal \in Nat /\ x < goal /\ goal * goal <= x * vt
    BY <1>3, <1>6, <1>9
  <2>2. LET z == CeilDiv(x * vt, goal)
        IN  z \in Nat /\ goal <= z /\ z < vt /\ CeilDiv(x * vt, z) = goal
    BY ONLY <2>1, SomePurchaseLands, Zenon
  <2> QED
    BY <2>2
<1>11. unsold <= y
  <2>1. unsold \in Nat
    BY <1>6 DEF unsold
  <2>2. k <= y * goal
    BY <1>6, <1>8, CeilDivision
  <2> HIDE DEF y, k
  <2>3. y * goal \in Nat /\ unsold * goal \in Nat
    BY <1>6, <1>10, <2>1
  <2>4. SUFFICES ASSUME y + 1 <= unsold PROVE FALSE
    BY <1>10, <2>1
  <2>5. (y + 1) * goal <= unsold * goal
    BY <1>6, <1>10, <2>1, <2>4, ProductMonotone
  <2>6. (y + 1) * goal = y * goal + goal
    BY <1>6, <1>10
  <2> QED
    BY <1>6, <1>8, <1>9, <2>2, <2>3, <2>5, <2>6
<1> HIDE DEF y
<1>12. n \in Nat /\ n \in 1 .. rt /\ vt - n = y
  BY <1>3, <1>4, <1>6, <1>10, <1>11, AllocationAssumption DEF unsold
<1>13. SolIn(S, vt, rs, n) = goal - x
  BY <1>10, <1>12 DEF SolIn, x
<1>14. goal - x = T - rs /\ T - rs \in U64 /\ rs + (T - rs) = T
  BY <1>2, <1>3, <1>5, <1>6 DEF goal, x, most, U64
<1>15. x * vt + (y - 1) <= U128Max
  <2>1. x < U64Max /\ vt <= U64Max /\ y <= vt
    BY <1>3, <1>6, <1>10
  <2> QED
    BY <1>3, <1>6, <1>10, <2>1, QuoteFitsWideType
<1> HIDE DEF n
<1>16. SolInOk(S, vt, rs, rt, n)
  <2>1. n > 0 /\ n <= rt /\ vt - n >= 1
    BY <1>3, <1>6, <1>10, <1>12
  <2>2. (S + rs) * vt + (vt - n - 1) <= U128Max
    BY <1>12, <1>15 DEF x
  <2> QED
    BY <1>13, <1>14, <2>1, <2>2 DEF SolInOk
<1>17. BuyQuoteOk(l, n) /\ l.real_sol_reserves + BuyCost(l, n) = T
  BY <1>4, <1>13, <1>14, <1>16 DEF BuyQuoteOk, BuyCost, vt, rs, rt
<1> QED
  BY <1>12, <1>17 DEF l, T, rt

\* Where the curve is as fine as the program's, no launch is stranded between
\* the threshold and the cap, even where the two are equal: there is a purchase
\* that lands on the threshold to the lamport.
THEOREM CurveFills == ASSUME FineCurve PROVE Spec => []CurveCanFill
<1>1. CustodyInvariant => CurveCanFill
  <2> SUFFICES ASSUME CustodyInvariant, NEW m \in Mints, Initialized, Trading(m),
                      launch[m].real_sol_reserves < config.graduation_threshold_lamports,
                      CurveK(launch[m]) >= DefaultVirtualSol * DefaultVirtualTokens
               PROVE  \E n \in 1 .. launch[m].real_token_reserves :
                         /\ BuyQuoteOk(launch[m], n)
                         /\ launch[m].real_sol_reserves + BuyCost(launch[m], n)
                               \in config.graduation_threshold_lamports .. MaxRealSolReserves
    BY DEF CurveCanFill
  <2>1. /\ config.graduation_threshold_lamports \in Nat
        /\ config.graduation_threshold_lamports <= MaxRealSolReserves
    BY ConfigAmounts DEF CustodyInvariant, TypeOK, ConfigStaysValid, Validate
  <2>2. config.graduation_threshold_lamports
           \in config.graduation_threshold_lamports .. MaxRealSolReserves
    BY <2>1, AllocationAssumption
  <2> QED
    BY <2>2, ThresholdCanBeMet
<1> QED
  BY <1>1, CustodyHolds, PTL

\* A payer who holds the sum of the platform's shares can pay them, whichever
\* wallets they go to.
LEMMA PlatformCanBePaid ==
    ASSUME NEW bal \in Balances, NEW from \in Accounts, NEW c,
           NEW s, s.dino \in Nat, s.treasury \in Nat, s.dino + s.treasury <= bal[from]
    PROVE  CanPayPlatform(bal, from, c, s)
<1> DEFINE one == Moved(bal, from, c.dino_buyback_wallet, s.dino)
<1>1. bal[from] \in Nat
  BY DEF Balances
<1>2. s.dino <= bal[from]
  BY <1>1
<1>3. one \in Balances /\ one[from] >= bal[from] - s.dino
  BY <1>2, MovedIsSafe
<1> HIDE DEF one
<1>4. one[from] \in Nat
  BY <1>3 DEF Balances
<1>5. s.treasury <= one[from]
  BY <1>1, <1>3, <1>4
<1> QED
  BY <1>2, <1>5 DEF CanPayPlatform, one

\* Once threshold and fee are covered no check of graduate fails: the shares
\* fit the fee, the vault covers the books, and the mint has room for the
\* reserve.
LEMMA GraduateNeverRefused ==
    ASSUME CustodyInvariant, NEW m \in Mints, Initialized, Trading(m), ~config.paused,
           launch[m].real_sol_reserves >= config.graduation_threshold_lamports,
           launch[m].real_sol_reserves >= config.graduation_fee_lamports
    PROVE  CanGraduate(m)
<1> DEFINE l      == launch[m]
           vault  == VaultOf(m)
           fee    == config.graduation_fee_lamports
           bps    == config.graduation_split_dino_bps
           shares == SplitTwoWay(fee, bps)
           paid   == PaidToPlatform(lamports, vault, config, shares)
<1>1. /\ l \in LaunchType /\ ~l.graduated /\ lamports \in Balances /\ lamports[vault] \in Nat
      /\ supply[m] \in Nat /\ Books(l, lamports[vault], curveTokens[m], supply[m])
  BY LaunchState DEF Trading
<1>2. config \in ConfigType /\ Validate(config)
  BY DEF CustodyInvariant, TypeOK, ConfigStaysValid
<1>3. l.real_sol_reserves \in Nat /\ fee \in Nat /\ bps \in Nat /\ bps <= BpsDenominator
  BY <1>1, <1>2, LaunchAmounts, ConfigAmounts DEF Validate
<1>4. supply[m] <= CurveAllocation /\ l.real_sol_reserves <= lamports[vault]
  BY <1>1, AllocationAssumption DEF Books
<1>5. supply[m] + GraduationReserve \in U64
  BY <1>1, <1>4, AllocationAssumption, WidthsAssumption DEF U64
<1>6. l.real_sol_reserves >= fee /\ vault \in Accounts
  BY VaultsDiffer
<1> HIDE DEF l, vault, fee, bps
<1>7. SplitTwoWayOk(fee, bps)
  BY <1>3, FeeBounds DEF SplitTwoWayOk
<1>8. shares.dino \in Nat /\ shares.treasury \in Nat /\ shares.dino + shares.treasury = fee
  BY <1>3, <1>7, TwoSharesAddUp
<1> HIDE DEF shares
<1>9. CanPayPlatform(lamports, vault, config, shares)
  BY <1>1, <1>3, <1>4, <1>6, <1>8, PlatformCanBePaid
<1>10. /\ paid \in Balances
       /\ paid[vault] >= lamports[vault] - shares.dino - shares.treasury
  BY <1>1, <1>6, <1>8, <1>9, PlatformPaymentIsSafe
<1> HIDE DEF paid
<1>11. paid[vault] \in Nat
  BY <1>6, <1>10 DEF Balances
<1>12. l.real_sol_reserves - fee <= paid[vault]
  BY <1>1, <1>3, <1>4, <1>8, <1>10, <1>11
<1> QED
  BY <1>5, <1>6, <1>7, <1>9, <1>12
     DEF CanGraduate, TradingOpen, l, vault, fee, bps, shares, paid

\* Right books are all that a covered launch needs to be able to graduate.
LEMMA GraduableByBooks == CustodyInvariant => GraduableIfCovered
BY GraduateNeverRefused DEF GraduableIfCovered

\* No launch is stranded at its threshold, unless by its graduation fee.
THEOREM CoveredLaunchesGraduate == Spec => []GraduableIfCovered
BY GraduableByBooks, CustodyHolds, PTL
=============================================================================
