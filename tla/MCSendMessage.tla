--------------------------- MODULE MCSendMessage ---------------------------
(***************************************************************************)
(* Small instances of SendMessage for TLC.                                 *)
(***************************************************************************)
EXTENDS SendMessage, TLC

\* Calls and message texts are interchangeable; users are too.
Symmetry == Permutations(Requests) \cup Permutations(Bodies)
              \cup Permutations(Users)
==============================================================================
