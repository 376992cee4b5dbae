------------------------------- MODULE Ledger -------------------------------
(***************************************************************************)
(* What the coins of a node promise (CCoinsView in src/coins.h, as         *)
(* src/validation.cpp uses it): they are the state after one block of the  *)
(* tree, move along the tree one block at a time, are saved as a whole,    *)
(* and a crash takes them back to what was saved, never to a mixture.      *)
(***************************************************************************)
CONSTANTS Blocks, Genesis, Parent

VARIABLES
  best,    \* the block the coins are the state after
  saved    \* the block of the coins on disk

Init == best = Genesis /\ saved = Genesis

Connect == \E b \in Blocks \ {Genesis} : Parent[b] = best /\ best' = b /\ UNCHANGED saved

Disconnect == best # Genesis /\ best' = Parent[best] /\ UNCHANGED saved

Save == saved' = best /\ UNCHANGED best

Crash == best' = saved /\ UNCHANGED saved

Next == Connect \/ Disconnect \/ Save \/ Crash

Spec == Init /\ [][Next]_<<best, saved>>
=============================================================================
