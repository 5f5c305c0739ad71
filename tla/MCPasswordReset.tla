--------------------------- MODULE MCPasswordReset ---------------------------
(***************************************************************************)
(* Small instances of PasswordReset for TLC.                               *)
(***************************************************************************)
EXTENDS PasswordReset, TLC

\* Leases hold: what GuessesBounded and CodeSingleUse suppose.
InTime == ~overran

Symmetry == Permutations(Confirms) \cup Permutations(Codes)
==============================================================================
