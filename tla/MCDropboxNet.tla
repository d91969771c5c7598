----------------------------- MODULE MCDropboxNet ------------------------------
(***************************************************************************)
(* Small instances of DropboxNet.                                          *)
(***************************************************************************)
EXTENDS DropboxNet

CONSTANTS c1, c2, c3
================================================================================
