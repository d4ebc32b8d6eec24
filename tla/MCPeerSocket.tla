---------------------------- MODULE MCPeerSocket ----------------------------
(* Instances of PeerSocket for TLC. *)
EXTENDS PeerSocket
=============================================================================
