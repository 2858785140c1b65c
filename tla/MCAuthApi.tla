----------------------------- MODULE MCAuthApi ------------------------------
(***************************************************************************)
(* AuthApi for TLC: requests, accounts and the random token values are     *)
(* alike.                                                                  *)
(***************************************************************************)
EXTENDS AuthApi, TLC

AuthSymmetry == Permutations(Request) \cup Permutations(User) \cup Permutations(Token)
=============================================================================
