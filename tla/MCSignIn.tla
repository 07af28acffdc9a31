------------------------------ MODULE MCSignIn ------------------------------
(* SignIn with two sessions, two tokens and four requests.                  *)
EXTENDS SignIn, TLC

CONSTANTS s1, s2, k1, k2, v1, v2

MCSession == {s1, s2}
MCToken == {k1, k2}
MCValue == {v1, v2}

Symmetry == Permutations(Session) \cup Permutations(Token) \cup Permutations(Value)
=============================================================================
