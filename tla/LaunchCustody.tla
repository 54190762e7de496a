--------------------------- MODULE LaunchCustody ---------------------------
(***************************************************************************)
(* What the program promises about a launch, without prices, fees, wallets *)
(* or accounts: an escrow per mint on a curve x * y = k.                   *)
(*                                                                         *)
(* owed is what the launch owes its token's holders in lamports, held what *)
(* its vault has, sold how many tokens it has sold.  A launch is opened    *)
(* once, trades, is handed off as a whole, and is sealed.  What is held    *)
(* beyond what is owed is never taken out.                                 *)
(***************************************************************************)
EXTENDS Integers

CONSTANTS Mints,
          Cap,          \* the most a launch may owe
          Allocation,   \* the most it may sell
          X0, Y0        \* the virtual SOL and tokens of a new curve

VARIABLES phase, owed, held, sold

custodyVars == <<phase, owed, held, sold>>

CustodyInit ==
    /\ phase = [m \in Mints |-> "absent"]
    /\ owed = [m \in Mints |-> 0]
    /\ held = [m \in Mints |-> 0]
    /\ sold = [m \in Mints |-> 0]

K(o, s) == (X0 + o) * (Y0 - s)

Same(m) == phase'[m] = phase[m] /\ owed'[m] = owed[m] /\ sold'[m] = sold[m]

\* Lamports may arrive in any vault in any step.
SurplusKept(m) == held'[m] - owed'[m] >= held[m] - owed[m]

Open(m) ==
    /\ phase[m] = "absent" /\ phase'[m] = "trading"
    /\ owed'[m] = 0 /\ sold'[m] = 0

\* Paid in full, rounded in the curve's favour, up to the cap.
Purchase(m) ==
    /\ phase[m] = "trading" /\ phase'[m] = "trading"
    /\ sold[m] < sold'[m] /\ sold'[m] <= Allocation
    /\ owed[m] < owed'[m] /\ owed'[m] <= Cap
    /\ K(owed'[m], sold'[m]) >= K(owed[m], sold[m])

\* Paid out of what is owed; rounded in the seller's favour, by less than one
\* lamport.
Redemption(m) ==
    /\ phase[m] = "trading" /\ phase'[m] = "trading"
    /\ sold'[m] < sold[m]
    /\ owed'[m] \in 0 .. owed[m]
    /\ K(owed'[m] + 1, sold'[m]) > K(owed[m], sold[m])

HandOff(m) ==
    /\ phase[m] = "trading" /\ phase'[m] = "graduated"
    /\ owed[m] > 0 /\ owed'[m] = 0 /\ sold'[m] = sold[m]

Seal(m) ==
    /\ phase[m] = "graduated" /\ phase'[m] = "seeded"
    /\ owed'[m] = owed[m] /\ sold'[m] = sold[m]

Move(m) == Open(m) \/ Purchase(m) \/ Redemption(m) \/ HandOff(m) \/ Seal(m)

\* At most one launch moves at a time, and no step takes from the surplus of any.
CustodyNext ==
    /\ \A m \in Mints : Move(m) \/ Same(m)
    /\ \A m, n \in Mints : m # n => Same(m) \/ Same(n)
    /\ \A m \in Mints : SurplusKept(m)

CustodySpec == CustodyInit /\ [][CustodyNext]_custodyVars
=============================================================================
