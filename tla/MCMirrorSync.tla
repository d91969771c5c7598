----------------------------- MODULE MCMirrorSync ------------------------------
(***************************************************************************)
(* Small instances of MirrorSync.                                          *)
(***************************************************************************)
EXTENDS MirrorSync

CONSTANTS a, b, ra, rb, d, e, f, g

\* Client a has a directory d with a file f and an empty directory e; client b
\* has one empty file g.
TwoClients == {a, b}
AllNodes == {ra, rb, d, e, f, g}
AllDirs  == {ra, rb, d, e}
MCKids   == ra :> <<d>> @@ d :> <<f, e>> @@ e :> <<>> @@ rb :> <<g>>
MCSize   == f :> 3 @@ g :> 0
MCRoot   == a :> ra @@ b :> rb
================================================================================
