------------------------------ MODULE MCImages ------------------------------
(***************************************************************************)
(* One user and one group: rows of different owners never meet.            *)
(***************************************************************************)
EXTENDS ImageReferences, TLC

CONSTANTS h1, h2

Interchangeable == Permutations({h1, h2})

=============================================================================
