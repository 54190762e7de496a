----------------------------- MODULE CurveMath -----------------------------
(***************************************************************************)
(* The bonding-curve arithmetic of utils.rs.  The curve is x * y = k with  *)
(*   x = virtual_sol + real_sol     y = virtual_tokens.                    *)
(*                                                                         *)
(* A quote of the program is a Result: it either fails, and the failing    *)
(* instruction is rolled back whatever the error is, or yields a u64.  A   *)
(* quote is therefore two operators here: "...Ok", true exactly when the   *)
(* code returns Ok, and the value it then returns.  U64Max and U128Max are *)
(* the widths of the two integer types: small in a TLC model, 2^64 - 1 and *)
(* 2^128 - 1 in the program.  Sums of two u64 always fit in a u128, so     *)
(* only products can overflow the wide type.                               *)
(***************************************************************************)
EXTENDS Integers

CONSTANTS U64Max, U128Max

ASSUME WidthsAssumption == /\ U64Max \in Nat \ {0}
                           /\ U128Max \in Nat
                           /\ U64Max * (U64Max + 1) <= U128Max

\* The values of a u64 field or instruction argument.
U64 == 0 .. U64Max

\* Integer division rounded up, as (a + (b - 1)) / b.
CeilDiv(a, b) == (a + (b - 1)) \div b

-----------------------------------------------------------------------------
\* tokens_out_for_sol_in: the tokens a payment of solIn lamports buys.
TokensOut(vs, vt, rs, solIn) ==
    vt - ((vs + rs) * vt) \div (vs + rs + solIn)

TokensOutOk(vs, vt, rs, rt, solIn) ==
    /\ solIn > 0
    /\ (vs + rs) * vt <= U128Max
    /\ TokensOut(vs, vt, rs, solIn) \in U64
    /\ TokensOut(vs, vt, rs, solIn) <= rt

\* Mutants of SolIn: the price is rounded down; the result is cast to a u64
\* instead of converted.
SolInFloor(vs, vt, rs, tokensOut) ==
    ((vs + rs) * vt) \div (vt - tokensOut) - (vs + rs)
SolInCast(vs, vt, rs, tokensOut) ==
    (CeilDiv((vs + rs) * vt, vt - tokensOut) - (vs + rs)) % (U64Max + 1)

\* sol_in_for_tokens_out: the lamports that buy exactly tokensOut tokens.
SolIn(vs, vt, rs, tokensOut) ==
    CeilDiv((vs + rs) * vt, vt - tokensOut) - (vs + rs)

SolInOk(vs, vt, rs, rt, tokensOut) ==
    /\ tokensOut > 0
    /\ tokensOut <= rt
    /\ vt - tokensOut >= 1
    /\ (vs + rs) * vt + (vt - tokensOut - 1) <= U128Max
    /\ SolIn(vs, vt, rs, tokensOut) \in U64

\* Mutants of SolOutUncapped: every token at the price before the sale; rounded
\* in the curve's favour.
SolOutAtSpot(vs, vt, rs, tokensIn) == ((vs + rs) * tokensIn) \div vt
SolOutFloor(vs, vt, rs, tokensIn) ==
    (vs + rs) - CeilDiv((vs + rs) * vt, vt + tokensIn)

\* sol_out_for_tokens_in: the lamports a sale of tokensIn tokens returns,
\* never more than the curve holds.
SolOutUncapped(vs, vt, rs, tokensIn) ==
    (vs + rs) - ((vs + rs) * vt) \div (vt + tokensIn)

SolOut(vs, vt, rs, tokensIn) ==
    IF SolOutUncapped(vs, vt, rs, tokensIn) <= rs
    THEN SolOutUncapped(vs, vt, rs, tokensIn)
    ELSE rs

SolOutOk(vs, vt, rs, tokensIn) ==
    /\ tokensIn > 0
    /\ (vs + rs) * vt <= U128Max
    /\ SolOutUncapped(vs, vt, rs, tokensIn) \in U64
=============================================================================
