----------------------------- MODULE MCPageCache -----------------------------
(***************************************************************************)
(* Small instances of PageCache for TLC.                                   *)
(***************************************************************************)
EXTENDS PageCache, TLC

Symmetry == Permutations(Readers)

\* before_id absent and as the pages of a short history use it
UsualBefores == {None, 2}
\* ... and before_id=0, which the endpoint accepts too
AllBefores == {None, 0}
==============================================================================
