---------------------------- MODULE MCFileTransfer -----------------------------
(* Instances of FileTransfer. *)
EXTENDS FileTransfer

CONSTANTS x, y

\* root: the directory d with the file f, the empty directory e, the file g.
MCDirs == {"root", "d", "e"}
MCFiles == {"f", "g"}
MCEntries == [dir \in MCDirs |-> CASE dir = "root" -> <<"d", "e", "g">>
                                   [] dir = "d"    -> <<"f">>
                                   [] OTHER        -> <<>>]

\* Every length around one chunk of two bytes.
MCContents == {<<>>, <<x>>, <<y, x>>, <<x, x, y>>}
MCInitFiles == [MCFiles -> {<<>>, <<y, x>>, <<x, x, y>>}]
MCInitCopies == {[f |-> c, g |-> Absent] :
                    c \in {Absent, <<x>>, <<y, x>>, <<x, x, y>>}}

\* A digest whose first byte tells all files apart, and one whose first byte
\* does not.
Digest(s) == <<s, 0>>
WeakDigest(s) == <<IF s = <<>> THEN 0 ELSE s[1], s>>
================================================================================
