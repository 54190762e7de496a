-------------------------- MODULE MemecoinCustody --------------------------
(***************************************************************************)
(* The program implements LaunchCustody: the mapping from its accounts to  *)
(* the escrow of each launch.                                              *)
(***************************************************************************)
EXTENDS MemecoinProperties

Phase(m) == IF ~Launched(m) THEN "absent"
            ELSE IF Trading(m) THEN "trading"
            ELSE IF launch[m].pool_seeded THEN "seeded" ELSE "graduated"

Owed(m) == IF Launched(m) THEN launch[m].real_sol_reserves ELSE 0
TokensSold(m) == IF Launched(m) THEN launch[m].tokens_sold ELSE 0

Custody == INSTANCE LaunchCustody WITH
    Mints      <- Mints,
    Cap        <- MaxRealSolReserves,
    Allocation <- CurveAllocation,
    X0         <- DefaultVirtualSol,
    Y0         <- DefaultVirtualTokens,
    phase      <- [m \in Mints |-> Phase(m)],
    owed       <- [m \in Mints |-> Owed(m)],
    held       <- [m \in Mints |-> lamports[VaultOf(m)]],
    sold       <- [m \in Mints |-> TokensSold(m)]

\* Whatever instructions run in whatever order, with whatever fees, wallets and
\* stray transfers, every launch goes through the life of an escrow: opened
\* once, priced by the curve to the lamport, handed off whole, sealed after
\* that, and no step of one launch reaches the books or the vault of another.
ImplementsCustody == Custody!CustodySpec
=============================================================================
