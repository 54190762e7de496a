------------------------------ MODULE FeeMath ------------------------------
(***************************************************************************)
(* The fee arithmetic of utils.rs and of the trade handlers.  Rates are    *)
(* basis points (u16) of an amount in lamports (u64).  A u64 times a u16   *)
(* always fits in the u128 the code computes it in, so the checked         *)
(* multiplications cannot fail; the checked subtractions can, and are the  *)
(* "...Ok" operators.                                                      *)
(***************************************************************************)
EXTENDS Integers

BpsDenominator == 10000
U16 == 0 .. 65535

\* amount * bps / 10_000, rounded down.
BpsOf(amount, bps) == (amount * bps) \div BpsDenominator

\* apply_fee, and the same computation inlined in buy and sell.
TradeFee(amount, feeBps) == BpsOf(amount, feeBps)

\* Mutant of SplitThreeWay: the creator takes the dust.
SplitDustToCreator(amount, creatorBps, dinoBps) ==
    LET rest == BpsOf(amount, BpsDenominator - creatorBps - dinoBps)
    IN  [creator  |-> amount - BpsOf(amount, dinoBps) - rest,
         dino     |-> BpsOf(amount, dinoBps),
         treasury |-> rest]

\* split_three_way: the treasury takes what the two floors leave, whatever
\* its own rate is.
SplitThreeWay(amount, creatorBps, dinoBps) ==
    [creator  |-> BpsOf(amount, creatorBps),
     dino     |-> BpsOf(amount, dinoBps),
     treasury |-> amount - BpsOf(amount, creatorBps) - BpsOf(amount, dinoBps)]

SplitThreeWayOk(amount, creatorBps, dinoBps) ==
    BpsOf(amount, creatorBps) + BpsOf(amount, dinoBps) <= amount

\* Mutant of SplitTwoWay: the shares are swapped.
SplitTwoWaySwapped(amount, dinoBps) ==
    [dino |-> amount - BpsOf(amount, dinoBps), treasury |-> BpsOf(amount, dinoBps)]

\* split_two_way: DINO's share, and the rest for the treasury.
SplitTwoWay(amount, dinoBps) ==
    [dino |-> BpsOf(amount, dinoBps), treasury |-> amount - BpsOf(amount, dinoBps)]

SplitTwoWayOk(amount, dinoBps) == BpsOf(amount, dinoBps) <= amount
=============================================================================
