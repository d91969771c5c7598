----------------------------- MODULE MCWorkerPool ------------------------------
(***************************************************************************)
(* Small instances of WorkerPool.                                          *)
(***************************************************************************)
EXTENDS WorkerPool

CONSTANTS c1, c2, f1

MCElem == [client : Clients, file : Files \cup {NoFile}]

\* The client is alone, or one or two others are already logged on.
Alone     == {<<Self>>}
OneOther  == {<<c1, Self>>}
TwoOthers == {<<c1, c2, Self>>, <<Self>>}

\* Answers to GET_FILE_LIST.
NoFiles     == {<<>>}
UpToOneFile == {<<>>, <<f1>>}
TwoEntries  == {<<f1, f1>>}
================================================================================
