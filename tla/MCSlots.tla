------------------------------ MODULE MCSlots ------------------------------
(* An instance of Slots for TLC.                                           *)
EXTENDS Slots
=============================================================================
