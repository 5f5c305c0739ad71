------------------------------ MODULE MCAccounts ------------------------------
(***************************************************************************)
(* Small instances of Accounts for TLC.                                    *)
(***************************************************************************)
EXTENDS Accounts, TLC

CONSTANTS ann, bob

\* Two users, one of them deleted between them; and two messages.
OldUsers == 1 :> ann @@ 3 :> bob

Symmetry == Permutations(Registrations)
==============================================================================
