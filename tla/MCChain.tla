------------------------------ MODULE MCChain ------------------------------
(* Instances of ChainState for TLC: over the genesis block g the block a1  *)
(* and the branch of b1, which b2 and c2 extend, or two plain branches.    *)
EXTENDS ChainState

TreeBlocks == {"g", "a1", "b1", "b2", "c2"}
TreeParent == [a1 |-> "g", b1 |-> "g", b2 |-> "b1", c2 |-> "b1"]
TreeAncestors ==
  [g |-> {"g"}, a1 |-> {"g", "a1"}, b1 |-> {"g", "b1"},
   b2 |-> {"g", "b1", "b2"}, c2 |-> {"g", "b1", "c2"}]
TreeWork == [g |-> 1, a1 |-> 2, b1 |-> 2, b2 |-> 3, c2 |-> 3]
PointerOrder == [g |-> 0, a1 |-> 2, b1 |-> 1, b2 |-> 4, c2 |-> 5]

LongBlocks == {"g", "a1", "a2", "b1", "b2", "b3"}
LongParent == [a1 |-> "g", a2 |-> "a1", b1 |-> "g", b2 |-> "b1", b3 |-> "b2"]
LongAncestors ==
  [g |-> {"g"}, a1 |-> {"g", "a1"}, a2 |-> {"g", "a1", "a2"},
   b1 |-> {"g", "b1"}, b2 |-> {"g", "b1", "b2"}, b3 |-> {"g", "b1", "b2", "b3"}]
LongWork == [g |-> 1, a1 |-> 2, a2 |-> 3, b1 |-> 2, b2 |-> 3, b3 |-> 4]
LongOrder == [g |-> 0, a1 |-> 2, a2 |-> 3, b1 |-> 1, b2 |-> 4, b3 |-> 5]

Budget(commands, crashes, flushes, corruptions) ==
  [commands |-> commands, crashes |-> crashes, flushes |-> flushes, corruptions |-> corruptions]

Nothing == {Budget(0, 0, 2, 0)}
CommandAndCrash == {Budget(1, 1, 2, 0)}
CommandAndCrashOrCorruption == {Budget(1, 1, 2, 0), Budget(0, 0, 1, 1)}
=============================================================================
