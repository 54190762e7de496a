----------------------------- MODULE MCMemecoin -----------------------------
(***************************************************************************)
(* Small instances of Memecoin for TLC.  The curve is scaled down in two   *)
(* ways: where a token costs a few lamports, so that the fees and their    *)
(* three shares are distinct numbers, and where a lamport buys several     *)
(* tokens, as on the real curve, so that rounding decides every quote      *)
(* ("dust").                                                               *)
(***************************************************************************)
EXTENDS MemecoinClaims, MemecoinCustody, TLC

CONSTANTS mint1, mint2, alice, bob, dino, treasury, authority, nobody, pool

\* A 10% trade fee, so that 40 lamports already pay all three shares; a
\* graduation fee whose halves differ.
BaseParams ==
    [dino_buyback_wallet           |-> dino,
     treasury_wallet               |-> treasury,
     graduation_authority          |-> authority,
     trade_fee_bps                 |-> 1000,
     trade_split_creator_bps       |-> 3333,
     trade_split_dino_bps          |-> 3333,
     trade_split_treasury_bps      |-> 3334,
     creation_fee_lamports         |-> 3,
     creation_split_dino_bps       |-> 5000,
     graduation_fee_lamports       |-> 21,
     graduation_split_dino_bps     |-> 5000,
     graduation_threshold_lamports |-> 100]

MCInitParams == {BaseParams}

\* DINO's wallet set to the vault of a launch, which nothing prevents.
AliasedParams == {[BaseParams EXCEPT !.dino_buyback_wallet = VaultOf(mint1)]}

\* No fees at all, and a threshold at the cap, as in the beta.
DustParams == {[BaseParams EXCEPT !.trade_fee_bps = 0, !.creation_fee_lamports = 0,
                                  !.graduation_fee_lamports = 1,
                                  !.graduation_threshold_lamports = MaxRealSolReserves]}

\* A graduation fee above the cap, which validate accepts.
HighFeeParams == {[BaseParams EXCEPT !.graduation_fee_lamports = MaxRealSolReserves + 1]}

Funded(a, b, others) ==
    [w \in {alice, bob, dino, treasury, authority} |->
        CASE w = alice -> a [] w = bob -> b [] OTHER -> others]
TradeLamports == Funded(180, 46, 0)
AdminLamports == Funded(130, 0, 0)
StrayLamports == Funded(140, 0, 0)
DustLamports  == Funded(12, 2, 0)

\* Every wallet starts with the rent-exemption minimum at least.
TwoLamports   == Funded(145, 140, RentMinimum)

\* Metadata at the limits, and past them.
MCCreateParams == {[name |-> 32, symbol |-> 10, uri |-> 200],
                   [name |-> 33, symbol |-> 11, uri |-> 201]}

\* Updates that are invalid alone, valid alone, and valid only together; the
\* rotation of each wallet and of the admin.
MCUpdates ==
    {[trade_split_creator_bps |-> 5000],
     [trade_split_creator_bps |-> 5000, trade_split_treasury_bps |-> 1667],
     [trade_split_treasury_bps |-> 3334],
     [admin |-> bob, graduation_authority |-> bob],
     [admin |-> nobody],
     [treasury_wallet |-> nobody],
     [treasury_wallet |-> alice],
     [trade_fee_bps |-> 1001],
     [graduation_threshold_lamports |-> 0],
     [graduation_threshold_lamports |-> 151],
     [graduation_fee_lamports |-> 103]}

\* The bound of the runs that let fees accumulate: states in which the platform
\* has earned more from creating and trading are checked, but not continued.
FeesBound ==
    \/ lamports[dino] + lamports[treasury]
          <= InitialLamports[dino] + InitialLamports[treasury] + 16
    \/ \E m \in Mints : Launched(m) /\ launch[m].graduated
=============================================================================
