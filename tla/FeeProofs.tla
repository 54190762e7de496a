----------------------------- MODULE FeeProofs -----------------------------
(***************************************************************************)
(* The properties MCFees checks for some rates and amounts, for all rates  *)
(* that Config::validate accepts and all amounts.                          *)
(***************************************************************************)
EXTENDS MCFees, TLAPS

\* Config::validate: the rates are parts of the whole and add up to it.
RatesAddUp ==
    /\ creatorBps \in Nat /\ dinoBps \in Nat /\ treasuryBps \in Nat
    /\ creatorBps + dinoBps + treasuryBps = BpsDenominator
    /\ amount \in Nat

\* The rates are valid in every state.
LEMMA RatesAlwaysAddUp == Spec => []RatesAddUp
<1>1. Init => RatesAddUp
  <2> SUFFICES ASSUME Init PROVE RatesAddUp
    OBVIOUS
  <2>1. creatorBps \in Nat /\ dinoBps \in Nat
    BY RatesAssumption DEF Init
  <2> QED
    BY <2>1 DEF Init, RatesAddUp, BpsDenominator
<1>2. RatesAddUp /\ [OneMore]_vars => RatesAddUp'
  BY DEF RatesAddUp, OneMore, vars
<1> QED
  BY <1>1, <1>2, PTL DEF Spec

\* The share of an amount at a rate is the exact share rounded down, never more
\* than the amount; one lamport more adds one lamport to it at most.
LEMMA ShareIsFloor ==
    ASSUME NEW a \in Nat, NEW bps \in Nat, bps <= BpsDenominator
    PROVE  /\ BpsOf(a, bps) \in Nat /\ BpsOf(a, bps) <= a
           /\ BpsOf(a, bps) * BpsDenominator <= a * bps
           /\ a * bps < (BpsOf(a, bps) + 1) * BpsDenominator
           /\ BpsOf(a, bps) <= BpsOf(a + 1, bps)
           /\ BpsOf(a + 1, bps) <= BpsOf(a, bps) + 1
<1> DEFINE p == a * bps
           q == (a + 1) * bps
<1>1. p \in Nat /\ q \in Nat /\ q = p + bps /\ bps <= 10000
  BY DEF BpsDenominator
<1>2. p <= a * 10000
  BY DEF BpsDenominator
<1>3. BpsOf(a, bps) = p \div 10000 /\ BpsOf(a + 1, bps) = q \div 10000
  BY DEF BpsOf, BpsDenominator
<1> HIDE DEF p, q
<1>4. /\ p \div 10000 \in Nat /\ p \div 10000 <= a
      /\ (p \div 10000) * 10000 <= p
      /\ p < (p \div 10000 + 1) * 10000
      /\ p \div 10000 <= q \div 10000
      /\ q \div 10000 <= p \div 10000 + 1
  BY <1>1, <1>2
<1> QED
  BY <1>3, <1>4 DEF p, BpsDenominator

\* The shares of a trade fee can always be computed and add up to it to the
\* lamport; each is worth its rate, and the treasury's loses nothing to it.
THEOREM TradeFeeIsSplitExactly == Spec => []ThreeWayIsExact
<1>1. RatesAddUp => ThreeWayIsExact
  <2> SUFFICES ASSUME RatesAddUp PROVE ThreeWayIsExact
    OBVIOUS
  <2> DEFINE c == BpsOf(amount, creatorBps)
             d == BpsOf(amount, dinoBps)
             rest == amount - c - d
             D == BpsDenominator
  <2>1. /\ c \in Nat /\ c * D <= amount * creatorBps
        /\ amount * creatorBps < (c + 1) * D
    BY ShareIsFloor DEF RatesAddUp, BpsDenominator
  <2>2. /\ d \in Nat /\ d * D <= amount * dinoBps
        /\ amount * dinoBps < (d + 1) * D
    BY ShareIsFloor DEF RatesAddUp, BpsDenominator
  <2> HIDE DEF c, d
  <2>3. /\ amount * creatorBps \in Nat /\ amount * dinoBps \in Nat
        /\ amount * treasuryBps \in Nat
        /\ amount * creatorBps + amount * dinoBps + amount * treasuryBps = amount * 10000
    <3>1. amount * (creatorBps + dinoBps + treasuryBps) = amount * 10000
      BY DEF RatesAddUp, BpsDenominator
    <3> QED
      BY <3>1 DEF RatesAddUp
  <2>4. /\ c + d <= amount /\ rest \in Nat /\ c + d + rest = amount
        /\ amount * treasuryBps <= rest * D
        /\ rest * D < amount * treasuryBps + 2 * D
    BY <2>1, <2>2, <2>3 DEF RatesAddUp, BpsDenominator
  <2>5. SplitThreeWayOk(amount, creatorBps, dinoBps)
    BY <2>4 DEF SplitThreeWayOk, c, d
  <2>6. SplitThreeWay(amount, creatorBps, dinoBps)
          = [creator |-> c, dino |-> d, treasury |-> rest]
    BY DEF SplitThreeWay, c, d
  <2> HIDE DEF rest
  <2>7. c + d + rest = amount
    BY <2>4
  <2>8. IsFloorShare(c, creatorBps) /\ IsFloorShare(d, dinoBps)
    BY <2>1, <2>2 DEF IsFloorShare
  <2> QED
    BY <2>4, <2>5, <2>6, <2>7, <2>8 DEF ThreeWayIsExact
<1> QED
  BY <1>1, RatesAlwaysAddUp, PTL

\* The same for the two shares of the creation and graduation fees.
THEOREM LaunchFeeIsSplitExactly == Spec => []TwoWayIsExact
<1>1. RatesAddUp => TwoWayIsExact
  <2> SUFFICES ASSUME RatesAddUp PROVE TwoWayIsExact
    OBVIOUS
  <2> DEFINE d == BpsOf(amount, dinoBps)
             rest == amount - d
             D == BpsDenominator
  <2>1. /\ d \in Nat /\ d <= amount /\ d * D <= amount * dinoBps
        /\ amount * dinoBps < (d + 1) * D
    BY ShareIsFloor DEF RatesAddUp, BpsDenominator
  <2> HIDE DEF d
  <2>2. /\ amount * dinoBps \in Nat
        /\ amount * (10000 - dinoBps) = amount * 10000 - amount * dinoBps
    BY DEF RatesAddUp
  <2>3. rest * D < amount * (D - dinoBps) + D /\ d + rest = amount
    BY <2>1, <2>2 DEF RatesAddUp, BpsDenominator
  <2>4. SplitTwoWay(amount, dinoBps) = [dino |-> d, treasury |-> rest]
    BY DEF SplitTwoWay, d
  <2>5. SplitTwoWayOk(amount, dinoBps) /\ IsFloorShare(d, dinoBps)
    BY <2>1 DEF SplitTwoWayOk, IsFloorShare, d
  <2> HIDE DEF rest
  <2> QED
    BY <2>3, <2>4, <2>5 DEF TwoWayIsExact
<1> QED
  BY <1>1, RatesAlwaysAddUp, PTL

\* One more lamport of fee never lowers the creator's or DINO's share, and the
\* treasury's by one lamport at most.
THEOREM NoShareFallsByMoreThanOne == Spec => SharesGrow
<1> DEFINE Grow ==
      LET s == SplitThreeWay(amount, creatorBps, dinoBps)
          t == SplitThreeWay(amount', creatorBps, dinoBps)
      IN  /\ t.creator >= s.creator /\ t.dino >= s.dino
          /\ t.treasury >= s.treasury - 1
<1>1. RatesAddUp /\ [OneMore]_vars => [Grow]_vars
  <2> SUFFICES ASSUME RatesAddUp, OneMore PROVE Grow
    OBVIOUS
  <2> DEFINE more == amount + 1
             c == BpsOf(amount, creatorBps)
             d == BpsOf(amount, dinoBps)
             e == BpsOf(more, creatorBps)
             f == BpsOf(more, dinoBps)
  <2>1. c \in Nat /\ c <= e /\ e <= c + 1 /\ e \in Nat
    <3>1. more \in Nat /\ creatorBps <= BpsDenominator
      BY DEF RatesAddUp, BpsDenominator
    <3> QED
      BY <3>1, ShareIsFloor DEF RatesAddUp
  <2>2. d \in Nat /\ d <= f /\ f <= d + 1 /\ f \in Nat
    <3>1. more \in Nat /\ dinoBps <= BpsDenominator
      BY DEF RatesAddUp, BpsDenominator
    <3> QED
      BY <3>1, ShareIsFloor DEF RatesAddUp
  <2>3. amount' = more
    BY DEF OneMore
  <2> HIDE DEF c, d, e, f
  <2>4. more - e - f >= amount - c - d - 1
    BY <2>1, <2>2 DEF RatesAddUp
  <2>5. /\ SplitThreeWay(amount, creatorBps, dinoBps)
             = [creator |-> c, dino |-> d, treasury |-> amount - c - d]
        /\ SplitThreeWay(amount', creatorBps, dinoBps)
             = [creator |-> e, dino |-> f, treasury |-> more - e - f]
    BY <2>3 DEF SplitThreeWay, c, d, e, f
  <2> QED
    BY <2>1, <2>2, <2>4, <2>5
<1> QED
  BY <1>1, RatesAlwaysAddUp, PTL DEF Spec, SharesGrow
=============================================================================
