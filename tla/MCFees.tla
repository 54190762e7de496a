------------------------------- MODULE MCFees -------------------------------
(***************************************************************************)
(* The fee splits of FeeMath, with the rates the program accepts, while    *)
(* the amount to split grows one lamport at a time.                        *)
(***************************************************************************)
EXTENDS FeeMath

CONSTANTS Rates, MaxAmount

\* The rates are unsigned integers.
ASSUME RatesAssumption == Rates \subseteq Nat

VARIABLES creatorBps, dinoBps, treasuryBps, amount
vars == <<creatorBps, dinoBps, treasuryBps, amount>>

\* Config::validate: the three rates add up to the whole.
Init ==
    /\ creatorBps \in Rates /\ dinoBps \in Rates
    /\ treasuryBps = BpsDenominator - creatorBps - dinoBps
    /\ treasuryBps >= 0
    /\ amount = 0

OneMore ==
    /\ amount < MaxAmount
    /\ amount' = amount + 1
    /\ UNCHANGED <<creatorBps, dinoBps, treasuryBps>>

Spec == Init /\ [][OneMore]_vars

\* The share a rate is worth, without rounding, lies in [s, s + 1) lamports.
IsFloorShare(s, bps) == /\ s * BpsDenominator <= amount * bps
                        /\ amount * bps < (s + 1) * BpsDenominator

\* Three shares of a trade fee: they can always be computed, they add up to
\* the fee to the lamport, and although the treasury's own rate is ignored it
\* gets what its rate is worth, and the dust: less than two lamports.
ThreeWayIsExact ==
    LET s == SplitThreeWay(amount, creatorBps, dinoBps)
    IN  /\ SplitThreeWayOk(amount, creatorBps, dinoBps)
        /\ s.creator + s.dino + s.treasury = amount
        /\ IsFloorShare(s.creator, creatorBps) /\ IsFloorShare(s.dino, dinoBps)
        /\ amount * treasuryBps <= s.treasury * BpsDenominator
        /\ s.treasury * BpsDenominator < amount * treasuryBps + 2 * BpsDenominator

\* The same for the two shares of the creation and graduation fees.
TwoWayIsExact ==
    LET s == SplitTwoWay(amount, dinoBps)
    IN  /\ SplitTwoWayOk(amount, dinoBps)
        /\ s.dino + s.treasury = amount
        /\ IsFloorShare(s.dino, dinoBps)
        /\ s.treasury * BpsDenominator < amount * (BpsDenominator - dinoBps) + BpsDenominator

\* One more lamport of fee never lowers the creator's or DINO's share, and the
\* treasury's by one at most, when it completes both of the others.
SharesGrow ==
    [][LET s == SplitThreeWay(amount, creatorBps, dinoBps)
           t == SplitThreeWay(amount', creatorBps, dinoBps)
       IN  /\ t.creator >= s.creator /\ t.dino >= s.dino
           /\ t.treasury >= s.treasury - 1]_vars
=============================================================================
