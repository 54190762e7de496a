--------------------------- MODULE MemecoinClaims ---------------------------
(***************************************************************************)
(* What comments, documents and tests of the repository say about the      *)
(* program and the program does not do.  Each is refuted by a run of its   *)
(* own; README.md quotes the texts.                                        *)
(***************************************************************************)
EXTENDS MemecoinProperties

\* BONDING_CURVE_DIFF.md:36 and :38, README.md:63: sales round in the protocol's
\* favour and rounding never lowers k.
RoundingNeverLowersK ==
    [][\A m \in Mints : Trading(m) /\ Trading(m)' =>
          CurveK(launch'[m]) >= CurveK(launch[m])]_vars

\* graduate.rs:45: anyone can trigger graduation once the threshold is met.
GraduableAtThreshold ==
    \A m \in Mints :
        /\ Initialized /\ Trading(m) /\ ~config.paused
        /\ launch[m].real_sol_reserves >= config.graduation_threshold_lamports
        => CanGraduate(m)
=============================================================================
