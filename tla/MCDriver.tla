------------------------------ MODULE MCDriver ------------------------------
(***************************************************************************)
(* A small instance of Driver for TLC, in the proportions of the real one: *)
(* a lamport buys about four tokens, the cap is a sixth of the virtual     *)
(* SOL, the threshold is reached in two chunks, the probe costs more than  *)
(* a lamport.                                                              *)
(***************************************************************************)
EXTENDS DriverProperties, TLC

CONSTANTS mint1, mint2, dino, treasury, buyer1, buyer2, alice, nobody, pool1, pool2

MCScriptParams ==
    [dino_buyback_wallet           |-> dino,
     treasury_wallet               |-> treasury,
     graduation_authority          |-> authority,
     trade_fee_bps                 |-> 100,
     trade_split_creator_bps       |-> 3333,
     trade_split_dino_bps          |-> 3333,
     trade_split_treasury_bps      |-> 3334,
     creation_fee_lamports         |-> 2,
     creation_split_dino_bps       |-> 5000,
     graduation_fee_lamports       |-> 100,
     graduation_split_dino_bps     |-> 5000,
     graduation_threshold_lamports |-> 500]
MCInitParams == {MCScriptParams}
MCCreateParams == {ScriptNames}

\* The addresses in 03 and 04 are those of the key files.
MCHardcoded == [creator |-> creator, dino |-> dino, treasury |-> treasury,
                authority |-> authority]

MCBuyers == <<buyer1, buyer2>>

DriverLamports ==
    [w \in Wallets |-> CASE w = creator              -> 4
                         [] w \in {buyer1, buyer2}   -> 3000
                         [] w = alice                -> 300
                         [] OTHER                    -> 0]

\* The admin may rotate the treasury.
MCRotations == {[treasury_wallet |-> alice]}
=============================================================================
