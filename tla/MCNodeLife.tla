----------------------------- MODULE MCNodeLife -----------------------------
(* An instance of NodeLife for TLC.                                        *)
EXTENDS NodeLife
=============================================================================
