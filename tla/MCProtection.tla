----------------------------- MODULE MCProtection -----------------------------
(***************************************************************************)
(* Instances of Protection for TLC.                                        *)
(***************************************************************************)
EXTENDS Protection

CONSTANTS x, y   \* instances

\* The settings are ones under which SteadyIsNotProtected is to hold.
ASSUME SettingsFit == SteadyIsEnough /\ SteadyInTime
=============================================================================
