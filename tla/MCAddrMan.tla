------------------------------ MODULE MCAddrMan ------------------------------
(* Three addresses and two sources in tables of two buckets: a key of         *)
(* collisions, where everything wants the same places, and one that spreads.  *)
EXTENDS AddrMan

CONSTANTS a, b, c, s, t

Crowded ==
  [newBucket |-> [x \in Addresses |-> [y \in Sources |-> IF y = s THEN 0 ELSE 1]],
   triedBucket |-> [x \in Addresses |-> 0],
   newPlace |-> [x \in Addresses |-> [n \in NewTable |-> 0]],
   triedPlace |-> [x \in Addresses |-> 0]]

Spread ==
  [newBucket |-> [x \in Addresses |-> [y \in Sources |-> IF x = a THEN 0 ELSE IF y = s THEN 0 ELSE 1]],
   triedBucket |-> [x \in Addresses |-> IF x = c THEN 1 ELSE 0],
   newPlace |-> [x \in Addresses |-> [n \in NewTable |-> IF x = a THEN 0 ELSE IF x = b THEN n ELSE 1 - n]],
   triedPlace |-> [x \in Addresses |-> IF x = b THEN 1 ELSE 0]]

TwoKeys == {Crowded, Spread}
==============================================================================
