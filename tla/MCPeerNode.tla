------------------------------ MODULE MCPeerNode ------------------------------
(* Small instances of PeerNode.                                            *)
EXTENDS PeerNode
=============================================================================
