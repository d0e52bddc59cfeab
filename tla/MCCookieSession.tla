---------------------------- MODULE MCCookieSession ----------------------------
(* Instance of CookieSession for TLC.                                      *)
EXTENDS CookieSession, TLC

Symmetry == Permutations(Tabs) \cup Permutations(Users) \cup Permutations(Tokens)

=============================================================================
