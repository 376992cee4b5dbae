------------------------------- MODULE MCPeer -------------------------------
(* An instance of Peer for TLC.                                            *)
EXTENDS Peer
=============================================================================
