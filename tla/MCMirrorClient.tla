---------------------------- MODULE MCMirrorClient -----------------------------
(***************************************************************************)
(* Small instances of MirrorClient.                                        *)
(***************************************************************************)
EXTENDS MirrorClient

OnePeer  == {1}
TwoPeers == {1, 2}
================================================================================
