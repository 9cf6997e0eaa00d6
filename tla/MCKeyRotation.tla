--------------------------- MODULE MCKeyRotation ---------------------------
(* Instances of KeyRotation for TLC: rows s1 and s2 are secrets, k1 is an   *)
(* API key.                                                                 *)
EXTENDS KeyRotation, TLC

TwoTables  == <<"secret", "apiKey">>

TwoSecrets == [s1 |-> "secret", s2 |-> "secret", k1 |-> "apiKey"]
TwoRows    == [s1 |-> "secret", k1 |-> "apiKey"]

\* nothing tells one plaintext from another
Plaintexts == Permutations(Values)
=============================================================================
