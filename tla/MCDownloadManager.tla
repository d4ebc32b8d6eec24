------------------------- MODULE MCDownloadManager -------------------------
(* Instances of DownloadManager for TLC. *)
EXTENDS DownloadManager

CONSTANTS a1, a2, b1

\* No peer, as in the program today, one of each family, two of one, and three.
Lists == {<<>>, <<a1>>, <<b1>>, <<a1, a2>>, <<b1, a1, a2>>}

\* A download as the program starts it: nothing but the tracker fills the list.
NoPeers == {<<>>}
=============================================================================
