----------------------------- MODULE MCBanList -----------------------------
(* Instances of BanList for TLC.                                           *)
EXTENDS BanList, TLC

\* No step tells one caller from another.
CallerSymmetry == Permutations(Callers)
=============================================================================
