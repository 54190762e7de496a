------------------------------ MODULE MCCurve ------------------------------
(***************************************************************************)
(* The quotes of CurveMath on a grid of curves.  A behaviour is one curve  *)
(* and a trade that grows by one unit per step, past the reserves and the  *)
(* widths of the integers, so that both sides of every "...Ok" are met.    *)
(***************************************************************************)
EXTENDS CurveMath

CONSTANTS VirtualSols, VirtualTokens, RealSols, RealTokens, MaxTrade

\* The reserves of a curve are unsigned integers.
ASSUME GridAssumption == /\ VirtualSols \subseteq Nat /\ VirtualTokens \subseteq Nat
                         /\ RealSols \subseteq Nat /\ RealTokens \subseteq Nat

VARIABLES vs, vt, rs, rt, \* the curve: virtual and real SOL and tokens
          n               \* the size of the trade: tokens or lamports

vars == <<vs, vt, rs, rt, n>>

Init ==
    /\ vs \in VirtualSols /\ vt \in VirtualTokens
    /\ rs \in RealSols /\ rt \in RealTokens
    /\ n = 0

Larger ==
    /\ n < MaxTrade
    /\ n' = n + 1
    /\ UNCHANGED <<vs, vt, rs, rt>>

Spec == Init /\ [][Larger]_vars

x == vs + rs

-----------------------------------------------------------------------------
(* Reference definitions: the price that keeps x * y from falling, without *)
(* a division.                                                             *)

\* s lamports pay for n tokens without lowering k.
Pays(s) == (x + s) * (vt - n) >= x * vt

\* s lamports are at least what n tokens are worth: k does not rise.
IsWorth(s) == (x - s) * (vt + n) <= x * vt

\* sol_in_for_tokens_out asks for the least payment that does not lower k, and
\* refuses no trade that the reserves and the width of a u64 allow, unless k or
\* the rounded numerator overflows.
BuyQuoteIsLeast ==
    /\ SolInOk(vs, vt, rs, rt, n) =>
          LET s == SolIn(vs, vt, rs, n) IN Pays(s) /\ (s = 0 \/ ~Pays(s - 1))
    /\ (n \in 1 .. rt /\ n < vt /\ (\E s \in U64 : Pays(s)) /\ x * vt + vt <= U128Max)
          => SolInOk(vs, vt, rs, rt, n)

\* sol_out_for_tokens_in pays the least amount that the tokens are worth, which
\* rounds in the seller's favour, and all the curve holds if that is less.
SellQuoteIsLeast ==
    SolOutOk(vs, vt, rs, n) =>
        LET s == SolOut(vs, vt, rs, n)
        IN  /\ s <= rs
            /\ s < rs => IsWorth(s)
            /\ s > 0 => ~IsWorth(s - 1)

\* Buying n tokens in two orders, the second quoted on the curve the first one
\* leaves, never costs less than in one order.
SplittingBuysNeverCheaper ==
    SolInOk(vs, vt, rs, rt, n) =>
        \A a \in 1 .. n - 1 :
            LET first  == SolIn(vs, vt, rs, a)
                second == SolIn(vs, vt - a, rs + first, n - a)
            IN  first + second >= SolIn(vs, vt, rs, n)

\* Tokens bought and sold back at once, in one order or in two, return what was
\* paid at most, but for one lamport that selling in two orders may gain.
RoundTripBounded ==
    SolInOk(vs, vt, rs, rt, n) =>
        LET paid == SolIn(vs, vt, rs, n)
        IN  /\ SolOut(vs, vt - n, rs + paid, n) <= paid
            /\ \A a \in 1 .. n - 1 :
                  LET first  == SolOut(vs, vt - n, rs + paid, a)
                      second == SolOut(vs, vt - n + a, rs + paid - first, n - a)
                  IN  first + second <= paid + 1

\* A larger trade is never quoted less than a smaller one.
QuotesGrow ==
    [][/\ SolInOk(vs, vt, rs, rt, n) /\ SolInOk(vs, vt, rs, rt, n') =>
             SolIn(vs, vt, rs, n) <= SolIn(vs, vt, rs, n')
       /\ SolOutOk(vs, vt, rs, n) /\ SolOutOk(vs, vt, rs, n') =>
             SolOut(vs, vt, rs, n) <= SolOut(vs, vt, rs, n')]_vars

\* utils.rs:201-217, a unit test: tokens bought with n lamports and sold back
\* return n, to the lamport.  The test sells on a curve whose virtual tokens
\* the purchase has not lowered.
UnitTestRoundTrip ==
    TokensOutOk(vs, vt, rs, rt, n) =>
        n - SolOut(vs, vt, rs + n, TokensOut(vs, vt, rs, n)) \in -1 .. 1
=============================================================================
