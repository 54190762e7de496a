---------------------------- MODULE QuoteProofs ----------------------------
(***************************************************************************)
(* The properties MCCurve checks on a grid of curves, for every curve and  *)
(* every trade: the grid is a constant here, any sets of natural numbers,  *)
(* and the widths of the integers are whatever WidthsAssumption allows.    *)
(***************************************************************************)
EXTENDS MCCurve, CurveProofs

CurveTyped == vs \in Nat /\ vt \in Nat /\ rs \in Nat /\ rt \in Nat /\ n \in Nat

\* The curve and the trade are natural numbers.
LEMMA CurveIsTyped == Spec => []CurveTyped
<1>1. Init => CurveTyped
  BY GridAssumption DEF Init, CurveTyped
<1>2. CurveTyped /\ [Larger]_vars => CurveTyped'
  BY DEF CurveTyped, Larger, vars
<1> QED
  BY <1>1, <1>2, PTL DEF Spec

\* A payment that does not lower k, as CurveProofs words it.
LEMMA PaysIsKept ==
    ASSUME CurveTyped, n < vt
    PROVE  \A s \in Nat : Pays(s) <=> (vs + rs) * vt <= (vs + rs + s) * (vt - n)
<1>1. TAKE s \in Nat
<1>2. (vs + rs) * vt \in Nat /\ (vs + rs + s) * (vt - n) \in Nat
  BY DEF CurveTyped
<1> QED
  BY <1>2 DEF Pays, x

\* sol_in_for_tokens_out asks, on every curve, for the least payment that does
\* not lower k, and refuses no trade that the reserves and the widths of the
\* integers allow.
THEOREM PurchasesPricedLeast == Spec => []BuyQuoteIsLeast
<1>1. CurveTyped => BuyQuoteIsLeast
  <2> SUFFICES ASSUME CurveTyped PROVE BuyQuoteIsLeast
    OBVIOUS
  <2> DEFINE s == SolIn(vs, vt, rs, n)
  <2>1. ASSUME n < vt
        PROVE  /\ s \in Nat /\ Pays(s)
               /\ \A p \in Nat : Pays(p) => s <= p
    <3>1. /\ SolIn(vs, vt, rs, n) \in Nat
          /\ (vs + rs) * vt <= (vs + rs + SolIn(vs, vt, rs, n)) * (vt - n)
          /\ \A p \in Nat : (vs + rs) * vt <= (vs + rs + p) * (vt - n)
                                => SolIn(vs, vt, rs, n) <= p
      BY <2>1, BuyPriceIsLeast DEF CurveTyped
    <3> QED
      BY <2>1, <3>1, PaysIsKept
  <2> HIDE DEF s
  <2>2. ASSUME SolInOk(vs, vt, rs, rt, n)
        PROVE  Pays(s) /\ (s = 0 \/ ~Pays(s - 1))
    <3>1. n < vt
      BY <2>2 DEF SolInOk, CurveTyped
    <3>2. s # 0 => s - 1 \in Nat /\ ~(s <= s - 1)
      BY <2>1, <3>1
    <3> QED
      BY <2>1, <3>1, <3>2
  <2>3. ASSUME n \in 1 .. rt, n < vt, NEW p \in U64, Pays(p), x * vt + vt <= U128Max
        PROVE  SolInOk(vs, vt, rs, rt, n)
    <3>1. p \in Nat /\ p <= U64Max /\ U64Max \in Nat /\ U128Max \in Nat
      BY <2>3, WidthsAssumption DEF U64
    <3>2. s \in U64
      BY <2>1, <2>3, <3>1 DEF U64
    <3>3. (vs + rs) * vt \in Nat
      BY DEF CurveTyped
    <3>4. (vs + rs) * vt + (vt - n - 1) <= U128Max
      BY <2>3, <3>1, <3>3 DEF CurveTyped, x
    <3> QED
      BY <2>3, <3>2, <3>4 DEF SolInOk, CurveTyped, s
  <2> QED
    BY <2>2, <2>3 DEF BuyQuoteIsLeast, s
<1> QED
  BY <1>1, CurveIsTyped, PTL

\* sol_out_for_tokens_in pays, on every curve, the least amount the tokens are
\* worth, rounded in the seller's favour, or all the curve holds.
THEOREM SalesPricedLeast == Spec => []SellQuoteIsLeast
<1>1. CurveTyped => SellQuoteIsLeast
  <2> SUFFICES ASSUME CurveTyped, n > 0 PROVE
        LET s == SolOut(vs, vt, rs, n)
        IN  /\ s <= rs
            /\ s < rs => IsWorth(s)
            /\ s > 0 => ~IsWorth(s - 1)
    BY DEF SellQuoteIsLeast, SolOutOk
  <2> DEFINE s == SolOut(vs, vt, rs, n)
             q == ((vs + rs) * vt) \div (vt + n)
  <2>1. /\ s \in Nat /\ s <= rs /\ q \in Nat /\ q <= vs + rs - s
        /\ s < rs => q = vs + rs - s
    BY SalePriceIsLargest DEF CurveTyped
  <2>2. \A c \in Nat : c * (vt + n) <= (vs + rs) * vt => c <= q
    BY SalePriceIsLargest DEF CurveTyped
  <2>3. q * (vt + n) <= (vs + rs) * vt
    BY SalePriceIsLargest DEF CurveTyped
  <2> HIDE DEF s, q
  <2>4. ASSUME s < rs PROVE IsWorth(s)
    <3>1. (vs + rs - s) * (vt + n) <= (vs + rs) * vt
      BY <2>1, <2>3, <2>4
    <3>2. vs + rs - s = x - s
      BY <2>1 DEF CurveTyped, x
    <3> QED
      BY <3>1, <3>2 DEF IsWorth, x
  <2>5. ASSUME s > 0 PROVE ~IsWorth(s - 1)
    <3>1. x - (s - 1) \in Nat /\ q < x - (s - 1)
      BY <2>1, <2>5 DEF CurveTyped, x
    <3> QED
      BY <2>1, <2>2, <3>1 DEF IsWorth, x
  <2> QED
    BY <2>1, <2>4, <2>5 DEF s
<1> QED
  BY <1>1, CurveIsTyped, PTL

\* Buying in two orders, the second quoted on the curve the first one leaves,
\* never costs less than buying in one, whatever the curve and the cut.
THEOREM SplitPurchasesCostMore == Spec => []SplittingBuysNeverCheaper
<1>1. CurveTyped => SplittingBuysNeverCheaper
  <2> SUFFICES ASSUME CurveTyped, n < vt, NEW a \in 1 .. n - 1 PROVE
        LET first  == SolIn(vs, vt, rs, a)
            second == SolIn(vs, vt - a, rs + first, n - a)
        IN  first + second >= SolIn(vs, vt, rs, n)
    BY DEF SplittingBuysNeverCheaper, SolInOk, CurveTyped
  <2>1. a \in Nat /\ a <= n
    BY DEF CurveTyped
  <2> QED
    BY <2>1, SplittingBuysCostsMore DEF CurveTyped
<1> QED
  BY <1>1, CurveIsTyped, PTL

\* Tokens bought and sold back at once return what was paid at most, on every
\* curve, but for one lamport that selling in two orders may gain.
THEOREM RoundTripsLose == Spec => []RoundTripBounded
<1>1. CurveTyped => RoundTripBounded
  <2> SUFFICES ASSUME CurveTyped, n > 0, n < vt PROVE
        LET paid == SolIn(vs, vt, rs, n)
        IN  /\ SolOut(vs, vt - n, rs + paid, n) <= paid
            /\ \A a \in 1 .. n - 1 :
                  LET first  == SolOut(vs, vt - n, rs + paid, a)
                      second == SolOut(vs, vt - n + a, rs + paid - first, n - a)
                  IN  first + second <= paid + 1
    BY DEF RoundTripBounded, SolInOk, CurveTyped
  <2> DEFINE paid == SolIn(vs, vt, rs, n)
             left == vt - n
             held == rs + paid
  <2>1. paid \in Nat
    BY BuyPriceIsLeast DEF CurveTyped
  <2>2. SolOut(vs, left, held, n) <= paid
    BY RoundTripNoGain DEF CurveTyped
  <2> HIDE DEF paid
  <2>3. left \in Nat /\ held \in Nat
    BY <2>1 DEF CurveTyped
  <2> HIDE DEF left, held
  <2>4. ASSUME NEW a \in 1 .. n - 1
        PROVE  LET first == SolOut(vs, left, held, a)
               IN  first + SolOut(vs, left + a, held - first, n - a) <= paid + 1
    <3> DEFINE b == n - a
    <3>1. a \in Nat /\ b \in Nat /\ a > 0 /\ b > 0 /\ a + b = n
      BY DEF CurveTyped
    <3> HIDE DEF b
    <3>2. LET first == SolOut(vs, left, held, a)
          IN  first + SolOut(vs, left + a, held - first, b) <= SolOut(vs, left, held, a + b) + 1
      BY <2>3, <3>1, SplittingSalesGainsAtMostOne DEF CurveTyped
    <3> DEFINE first == SolOut(vs, left, held, a)
               second == SolOut(vs, left + a, held - first, b)
    <3>3. first \in Nat /\ first <= held /\ SolOut(vs, left, held, n) \in Nat
      BY <2>3, <3>1, SalePriceIsLargest DEF CurveTyped
    <3>4. second \in Nat
      <4> DEFINE mid == left + a
                 rest == held - first
      <4>1. mid \in Nat /\ rest \in Nat
        BY <2>3, <3>1, <3>3
      <4> HIDE DEF mid, rest
      <4>2. SolOut(vs, mid, rest, b) \in Nat
        BY <3>1, <4>1, SellOverpaysLessThanOne DEF CurveTyped
      <4> QED
        BY <4>2 DEF mid, rest
    <3>5. first + second <= SolOut(vs, left, held, n) + 1
      BY <3>1, <3>2
    <3> HIDE DEF first, second
    <3>6. first + second <= paid + 1
      BY <2>1, <2>2, <3>3, <3>4, <3>5
    <3> QED
      BY <3>6 DEF first, second, b
  <2>5. \A a \in 1 .. n - 1 :
           LET first  == SolOut(vs, left, held, a)
               second == SolOut(vs, left + a, rs + paid - first, n - a)
           IN  first + second <= paid + 1
    <3> TAKE a \in 1 .. n - 1
    <3> DEFINE first == SolOut(vs, left, held, a)
    <3>1. first \in Nat
      <4>1. a \in Nat /\ a > 0
        BY DEF CurveTyped
      <4> QED
        BY <2>3, <4>1, SellOverpaysLessThanOne DEF CurveTyped
    <3> HIDE DEF first
    <3>2. rs + paid - first = held - first
      BY <2>1, <3>1 DEF CurveTyped, held
    <3> QED
      BY <2>4, <3>2 DEF first
  <2> QED
    BY <2>2, <2>5 DEF paid, left, held
<1> QED
  BY <1>1, CurveIsTyped, PTL

\* A larger trade is never quoted less than a smaller one, in either direction.
THEOREM LargerTradesCostMore == Spec => QuotesGrow
<1> DEFINE Grows ==
      /\ SolInOk(vs, vt, rs, rt, n) /\ SolInOk(vs, vt, rs, rt, n') =>
            SolIn(vs, vt, rs, n) <= SolIn(vs, vt, rs, n')
      /\ SolOutOk(vs, vt, rs, n) /\ SolOutOk(vs, vt, rs, n') =>
            SolOut(vs, vt, rs, n) <= SolOut(vs, vt, rs, n')
<1>1. CurveTyped /\ [Larger]_vars => [Grows]_vars
  <2> SUFFICES ASSUME CurveTyped, Larger PROVE Grows
    OBVIOUS
  <2> DEFINE m == n'
  <2>1. n \in Nat /\ m \in Nat /\ n <= m
    BY DEF CurveTyped, Larger
  <2> HIDE DEF m
  <2>2. SolInOk(vs, vt, rs, rt, n) /\ SolInOk(vs, vt, rs, rt, m)
           => SolIn(vs, vt, rs, n) <= SolIn(vs, vt, rs, m)
    <3>1. SolInOk(vs, vt, rs, rt, m) => m < vt
      BY <2>1 DEF SolInOk, CurveTyped
    <3> QED
      BY <2>1, <3>1, BuyQuoteGrows DEF CurveTyped
  <2>3. SolOutOk(vs, vt, rs, n) => SolOut(vs, vt, rs, n) <= SolOut(vs, vt, rs, m)
    <3>1. SolOutOk(vs, vt, rs, n) => 0 < n
      BY <2>1 DEF SolOutOk
    <3> QED
      BY <2>1, <3>1, SellQuoteGrows DEF CurveTyped
  <2> QED
    BY <2>2, <2>3 DEF m
<1> QED
  BY <1>1, CurveIsTyped, PTL DEF Spec, QuotesGrow
=============================================================================
