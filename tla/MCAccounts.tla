----------------------------- MODULE MCAccounts -----------------------------
(***************************************************************************)
(* What belongs to accounts: the images of one user and one group;         *)
(* registrations and sign-ins by code; the push token of one device that   *)
(* two people share. The three share no variable, so a behaviour of one is *)
(* explored while the others stand still.                                  *)
(***************************************************************************)
EXTENDS ImageReferences, OneTimeCodes, DeviceTokens, TLC

CONSTANTS h1, h2, e1, e2, m1, m2, v1, v2

VARIABLE part

Interchangeable ==
  Permutations({h1, h2}) \cup Permutations({e1, e2}) \cup Permutations({m1, m2})
    \cup Permutations({v1, v2})

PartsInit ==
  Init /\ CodesInit /\ TokensInit /\ part \in {"images", "codes", "devices"}

PartsNext ==
  /\ \/ part = "images" /\ Next /\ UNCHANGED <<codeVars, tokenVars>>
     \/ part = "codes" /\ CodesNext /\ UNCHANGED <<vars, tokenVars>>
     \/ part = "devices" /\ TokensNext /\ UNCHANGED <<vars, codeVars>>
  /\ UNCHANGED part

\* Bound: where a second account was made, the behaviour is not followed further.
OneAccount == \A u, w \in registered : u = w

PartsSpec == PartsInit /\ [][PartsNext]_<<vars, codeVars, tokenVars, part>>

=============================================================================
