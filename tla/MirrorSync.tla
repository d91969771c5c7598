------------------------------ MODULE MirrorSync -------------------------------
(***************************************************************************)
(* One attempt of two mirror clients to exchange their input directories   *)
(* (SysPro_Project2/src/mirror_client: sync.c, sync_send.c,                *)
(* sync_receive.c).  Each client has a sync process, which forks a sender  *)
(* and a receiver; the sender of one client writes to a FIFO that the      *)
(* receiver of the other one reads.                                        *)
(*                                                                         *)
(* A cell of a FIFO is the head of a file (two bytes of path length, the   *)
(* path and four bytes of size, written one after the other), one byte of  *)
(* contents, or the two zero bytes at the end.  A write of max_buffsize    *)
(* bytes is atomic, as it is up to PIPE_BUF.  The handlers are installed   *)
(* with SA_RESTART: a signal ends neither open, read nor waitpid.          *)
(***************************************************************************)
EXTENDS Integers, Sequences, FiniteSets, SequencesExt

CONSTANTS Clients,     \* the two clients
          Nodes, Dirs, \* all files and directories; the directories among them
          Kids,        \* the entries of a directory, in the order of readdir
          Size,        \* the size of a file
          Root,        \* the input directory of each client
          MaxBuff,     \* max_buffsize, -b
          PipeCap,     \* cells a FIFO holds before a write blocks
          MaxFaults    \* bound on system calls that fail, deaths, time-outs and signals

ASSUME SyncAssumption ==
    /\ IsFiniteSet(Clients) /\ Cardinality(Clients) = 2
    /\ Dirs \subseteq Nodes /\ Kids \in [Dirs -> Seq(Nodes)]
    /\ Size \in [Nodes \ Dirs -> Nat] /\ Root \in [Clients -> Dirs]
    /\ MaxBuff \in Nat \ {0} /\ PipeCap \in Nat /\ PipeCap >= MaxBuff
    /\ MaxFaults \in Nat

VARIABLES sync,    \* where the sync process is
          flag,    \* its flag: 1 by SIGINT or SIGQUIT, 2 by SIGUSR1 of the client
          result,  \* what it told the client when it ended
          snd,     \* where the sender is, or how it ended
          stold,   \* its flag
          pos,     \* how many items it has sent
          off,     \* how many bytes of the current file it has sent
          pipe,    \* the FIFO it writes to
          rcv,     \* where the receiver is, or how it ended
          rtold,   \* its flag
          cur,     \* the path it read last
          left,    \* bytes of that file still to come
          made,    \* the mirror of the other client exists
          mirror,  \* what is in it
          data,    \* the contents of the files in it
          raced,   \* history: the receiver was running when the mirror was emptied
          faults   \* how much has failed, or was told to stop from outside

syncVars == <<sync, flag, result, raced>>
sndVars  == <<snd, pos, off>>
rcvVars  == <<rcv, cur, left>>
dirVars  == <<made, mirror, data>>
told     == <<stold, rtold>>
vars     == <<syncVars, sndVars, rcvVars, dirVars, told, pipe, faults>>

Other(c) == CHOOSE d \in Clients : d # c

Ended == {"ok", "err", "killed"}

--------------------------------------------------------------------------------
(* The directories. *)

\* What sync_send_dir or sync_send_file sends for a node: the files below it,
\* and the directories that are empty.
sync_send_dir[n \in Nodes] ==
    IF n \in Dirs /\ Kids[n] # <<>>
    THEN FlattenSeq([i \in 1 .. Len(Kids[n]) |-> sync_send_dir[Kids[n][i]]])
    ELSE <<n>>

\* The items of one entry of the input directory; the flag is looked at after
\* the last.
EntryItems(n) == LET items == sync_send_dir[n]
                 IN  [j \in 1 .. Len(items) |-> [node |-> items[j], last |-> j = Len(items)]]

Outgoing == [c \in Clients |->
               FlattenSeq([k \in 1 .. Len(Kids[Root[c]]) |-> EntryItems(Kids[Root[c]][k])])]

\* The nodes below a node, and itself.
Below[n \in Nodes] ==
    {n} \cup (IF n \in Dirs THEN UNION {Below[Kids[n][i]] : i \in 1 .. Len(Kids[n])} ELSE {})

\* What read_file_path makes: the directories on the path, and the node.
Path(n) == {m \in Nodes : n \in Below[m] /\ \A c \in Clients : m # Root[c]}

\* The input directories are trees: what a client sends is, each file and each
\* empty directory once, all that is below its root, and the way there.
ASSUME TreeAssumption ==
    \A c \in Clients :
        LET Item(k) == Outgoing[c][k].node
            items == DOMAIN Outgoing[c]
            theirs == Below[Root[c]] \ {Root[c]}
        IN  /\ Outgoing[c] \in Seq([node : Nodes, last : BOOLEAN])
            /\ \A j, k \in items : Item(j) = Item(k) => j = k
            /\ \A k \in items : Item(k) \in Path(Item(k))
            /\ theirs = UNION {Path(Item(k)) : k \in items}
            /\ theirs \ Dirs \subseteq {Item(k) : k \in items}

SizeOf(n) == IF n \in Dirs THEN 0 ELSE Size[n]

HeadCell(n) == [kind |-> "head", node |-> n, at |-> SizeOf(n)]
ByteCell(n, i) == [kind |-> "byte", node |-> n, at |-> i]
EndCell(n) == [kind |-> "end", node |-> n, at |-> 0]

\* What a buffer holds that read did not fill.
Junk(n) == [kind |-> "junk", node |-> n, at |-> 0]

Content(n) == [i \in 1 .. SizeOf(n) |-> ByteCell(n, i)]

--------------------------------------------------------------------------------

Init ==
    /\ sync = [c \in Clients |-> "start"] /\ flag = [c \in Clients |-> 0]
    /\ result = [c \in Clients |-> "none"] /\ raced = [c \in Clients |-> FALSE]
    /\ snd = [c \in Clients |-> "none"] /\ rcv = [c \in Clients |-> "none"]
    /\ stold = [c \in Clients |-> FALSE] /\ rtold = [c \in Clients |-> FALSE]
    /\ pos = [c \in Clients |-> 0] /\ off = [c \in Clients |-> 0]
    /\ pipe = [c \in Clients |-> <<>>]
    /\ cur = [c \in Clients |-> Root[Other(c)]] /\ left = [c \in Clients |-> 0]
    /\ made = [c \in Clients |-> FALSE] /\ mirror = [c \in Clients |-> {}]
    /\ data = [c \in Clients |-> [n \in Nodes |-> <<>>]]
    /\ faults = 0

Set(f, c, v) == [f EXCEPT ![c] = v]

\* Something fails.
Fault == faults < MaxFaults /\ faults' = faults + 1

--------------------------------------------------------------------------------
(* The sync process. *)

\* It ends: with the ID of the other client, after writing its pid and SIGUSR1
\* to the client (failed), or with 0.
Return(c, how) == sync' = Set(sync, c, "done") /\ result' = Set(result, c, how)

\* SIGUSR1 to the children: the flag of one that has started.
Tell(c) == /\ stold' = Set(stold, c, snd[c] # "none")
           /\ rtold' = Set(rtold, c, rcv[c] # "none")

\* fork, exec and mkfifo: the child comes to its open, or fails.
Starts(st, c) == \/ st' = Set(st, c, "open") /\ UNCHANGED faults
                 \/ st' = Set(st, c, "err") /\ Fault

Start(c) ==
    /\ sync[c] = "start"
    /\ \/ /\ flag[c] # 0
          /\ Return(c, IF flag[c] = 1 THEN "failed" ELSE "quit")
          /\ UNCHANGED <<snd, faults>>
       \/ /\ flag[c] = 0
          /\ Return(c, "failed") /\ Fault /\ UNCHANGED snd
       \/ /\ flag[c] = 0 /\ sync' = Set(sync, c, "fork")
          /\ Starts(snd, c) /\ UNCHANGED result
    /\ UNCHANGED <<flag, raced, pos, off, rcvVars, dirVars, told, pipe>>

\* Mutant: the sender is not told when there will be no receiver.
ForkForgets(c) ==
    /\ sync[c] = "fork"
    /\ \/ Return(c, "failed") /\ Fault /\ UNCHANGED rcv
       \/ /\ sync' = Set(sync, c, "poll")
          /\ Starts(rcv, c) /\ UNCHANGED result
    /\ UNCHANGED <<flag, raced, sndVars, cur, left, dirVars, told, pipe>>

Fork(c) ==
    /\ sync[c] = "fork"
    /\ \/ Return(c, "failed") /\ Tell(c) /\ Fault /\ UNCHANGED rcv
       \/ /\ sync' = Set(sync, c, "poll")
          /\ Starts(rcv, c) /\ UNCHANGED <<result, told>>
    /\ UNCHANGED <<flag, raced, sndVars, cur, left, dirVars, pipe>>

\* The flag is looked at before and in the loop of waitpid, and after it.
Flagged(c) ==
    /\ sync[c] = "poll" /\ flag[c] # 0
    /\ Tell(c)
    /\ IF flag[c] = 1 THEN sync' = Set(sync, c, "empty") /\ UNCHANGED result
                      ELSE Return(c, "quit")
    /\ UNCHANGED <<flag, raced, sndVars, rcvVars, dirVars, pipe, faults>>

\* Mutant: the status is not looked at.
FailedNever(st) == FALSE

\* WEXITSTATUS of a child that a signal killed is 0.
Failed(st) == st = "err"

\* One child ended with an error: the other one is told (the sender after the
\* mirror is removed, which it cannot see) and the mirror removed.
ChildFailed(c) ==
    /\ sync[c] = "poll" /\ flag[c] = 0
    /\ Failed(rcv[c]) \/ (rcv[c] \notin Ended /\ Failed(snd[c]))
    /\ IF Failed(rcv[c]) THEN stold' = Set(stold, c, TRUE) /\ UNCHANGED rtold
                         ELSE rtold' = Set(rtold, c, TRUE) /\ UNCHANGED stold
    /\ sync' = Set(sync, c, "empty")
    /\ UNCHANGED <<flag, result, raced, sndVars, rcvVars, dirVars, pipe, faults>>

\* One child ended without: block in waitpid for the other one.
ChildSucceeded(c) ==
    /\ sync[c] = "poll" /\ flag[c] = 0
    /\ \/ rcv[c] \in Ended /\ ~Failed(rcv[c]) /\ sync' = Set(sync, c, "wait_send")
       \/ /\ rcv[c] \notin Ended /\ snd[c] \in Ended /\ ~Failed(snd[c])
          /\ sync' = Set(sync, c, "wait_receive")
    /\ UNCHANGED <<flag, result, raced, sndVars, rcvVars, dirVars, told, pipe, faults>>

\* Mutant: the mirror is kept when the second child fails.
WaitedKeeping(c) ==
    LET st == IF sync[c] = "wait_send" THEN snd[c] ELSE rcv[c]
    IN  /\ sync[c] \in {"wait_send", "wait_receive"} /\ st \in Ended
        /\ Return(c, IF Failed(st) THEN "failed" ELSE "ok")
        /\ UNCHANGED <<flag, raced, sndVars, rcvVars, dirVars, told, pipe, faults>>

Waited(c) ==
    LET st == IF sync[c] = "wait_send" THEN snd[c] ELSE rcv[c]
    IN  /\ sync[c] \in {"wait_send", "wait_receive"} /\ st \in Ended
        /\ IF Failed(st) THEN sync' = Set(sync, c, "empty") /\ UNCHANGED result
                         ELSE Return(c, "ok")
        /\ UNCHANGED <<flag, raced, sndVars, rcvVars, dirVars, told, pipe, faults>>

\* remove_dir: what is there is deleted, then the directory if nothing came
\* meanwhile; the client is informed.
RemoveContents(c) ==
    /\ sync[c] = "empty"
    /\ sync' = Set(sync, c, "rmdir")
    /\ mirror' = Set(mirror, c, {}) /\ data' = Set(data, c, [n \in Nodes |-> <<>>])
    /\ raced' = Set(raced, c, rcv[c] \notin Ended)
    /\ UNCHANGED <<flag, result, sndVars, rcvVars, made, told, pipe, faults>>

RemoveTop(c) ==
    /\ sync[c] = "rmdir"
    /\ made' = Set(made, c, made[c] /\ mirror[c] # {})
    /\ Return(c, "failed")
    /\ UNCHANGED <<flag, raced, sndVars, rcvVars, mirror, data, told, pipe, faults>>

SyncStep(c) == \/ Start(c) \/ Fork(c) \/ Flagged(c) \/ ChildFailed(c)
               \/ ChildSucceeded(c) \/ Waited(c) \/ RemoveContents(c) \/ RemoveTop(c)

--------------------------------------------------------------------------------
(* The FIFO from c to the other client. *)

Reader(c) == rcv[Other(c)]

\* open blocks until the other end is opened as well.
OpenFifo(c) ==
    /\ snd[c] = "open" /\ Reader(c) = "open"
    /\ snd' = Set(snd, c, "opened") /\ rcv' = Set(rcv, Other(c), "opened")
    /\ UNCHANGED <<syncVars, pos, off, cur, left, dirVars, told, pipe, faults>>

Broken(c) == Reader(c) \in Ended
Room(c, n) == Len(pipe[c]) + n <= PipeCap

\* read() of the receiver of c returns 0: nothing there and nobody writes.
AtEOF(c) == pipe[Other(c)] = <<>> /\ snd[Other(c)] \in Ended

Readable(c) == pipe[Other(c)] # <<>>

--------------------------------------------------------------------------------
(* The sender. *)

SendEnds(c, how) == snd' = Set(snd, c, how) /\ UNCHANGED <<pos, off>>

\* The first looks at the flag; select finds the FIFO writable; opendir.
SendBegin(c) ==
    /\ snd[c] = "opened"
    /\ \/ stold[c] /\ SendEnds(c, "err") /\ UNCHANGED faults
       \/ ~stold[c] /\ SendEnds(c, "next") /\ UNCHANGED faults
       \/ SendEnds(c, "err") /\ Fault
    /\ UNCHANGED <<syncVars, rcvVars, dirVars, told, pipe>>

\* sync_send_file: path and size of the next item.
SendHead(c) ==
    /\ snd[c] = "next" /\ pos[c] < Len(Outgoing[c])
    /\ \/ Broken(c) /\ SendEnds(c, "err") /\ UNCHANGED pipe
       \/ /\ ~Broken(c) /\ Room(c, 1)
          /\ pipe' = Set(pipe, c, Append(pipe[c], HeadCell(Outgoing[c][pos[c] + 1].node)))
          /\ pos' = Set(pos, c, pos[c] + 1) /\ off' = Set(off, c, 0)
          /\ snd' = Set(snd, c, "data")
    /\ UNCHANGED <<syncVars, rcvVars, dirVars, told, faults>>

Sending(c) == Outgoing[c][pos[c]].node

\* The next write: max_buffsize bytes, or what remains.
Piece(remaining) == IF remaining >= MaxBuff THEN MaxBuff ELSE remaining

\* One turn of the loop over the contents.  A file that cannot be read ends the
\* sender, the head of the file already sent.
SendData(c) ==
    LET n == Sending(c)
        k == Piece(SizeOf(n) - off[c])
    IN  /\ snd[c] = "data" /\ off[c] < SizeOf(n)
        /\ \/ Broken(c) /\ SendEnds(c, "err") /\ UNCHANGED <<pipe, faults>>
           \/ SendEnds(c, "err") /\ Fault /\ UNCHANGED pipe
           \/ /\ ~Broken(c) /\ Room(c, k)
              /\ pipe' = Set(pipe, c, pipe[c] \o [i \in 1 .. k |-> ByteCell(n, off[c] + i)])
              /\ off' = Set(off, c, off[c] + k)
              /\ UNCHANGED <<snd, pos, faults>>
        /\ UNCHANGED <<syncVars, rcvVars, dirVars, told>>

\* The file is sent.  After the last of an entry signals are let in.
SendNext(c) ==
    /\ snd[c] = "data" /\ off[c] = SizeOf(Sending(c))
    /\ SendEnds(c, IF Outgoing[c][pos[c]].last /\ stold[c] THEN "err" ELSE "next")
    /\ UNCHANGED <<syncVars, rcvVars, dirVars, told, pipe, faults>>

\* Mutant: no end is written.
SendNoEnd(c) ==
    /\ snd[c] = "next" /\ pos[c] = Len(Outgoing[c])
    /\ SendEnds(c, IF Broken(c) THEN "killed" ELSE "ok") /\ UNCHANGED pipe
    /\ UNCHANGED <<syncVars, rcvVars, dirVars, told, faults>>

\* The two zero bytes.  SIGPIPE is not blocked here and not handled.
SendEnd(c) ==
    /\ snd[c] = "next" /\ pos[c] = Len(Outgoing[c])
    /\ \/ Broken(c) /\ SendEnds(c, "killed") /\ UNCHANGED pipe
       \/ /\ ~Broken(c) /\ Room(c, 1)
          /\ pipe' = Set(pipe, c, Append(pipe[c], EndCell(Root[c])))
          /\ SendEnds(c, "ok")
    /\ UNCHANGED <<syncVars, rcvVars, dirVars, told, faults>>

SendStep(c) == \/ SendBegin(c) \/ SendHead(c) \/ SendData(c) \/ SendNext(c) \/ SendEnd(c)

--------------------------------------------------------------------------------
(* The receiver. *)

From(c) == pipe[Other(c)]

ReceiveEnds(c, how) == rcv' = Set(rcv, c, how) /\ UNCHANGED <<cur, left>>

Consume(c, n) == pipe' = Set(pipe, Other(c), SubSeq(From(c), n + 1, Len(From(c))))

\* opendir of the mirror directory, mkdir of the client's own, the flag.
ReceiveBegin(c) ==
    /\ rcv[c] = "opened"
    /\ \/ /\ made' = Set(made, c, TRUE)
          /\ ReceiveEnds(c, IF rtold[c] THEN "err" ELSE "select") /\ UNCHANGED faults
       \/ /\ Fault
          /\ ReceiveEnds(c, "err") /\ UNCHANGED made
    /\ UNCHANGED <<syncVars, sndVars, mirror, data, told, pipe>>

\* select: a signal, thirty seconds, or something to read, the end of file too.
Select(c) ==
    /\ rcv[c] = "select"
    /\ \/ rtold[c] /\ ReceiveEnds(c, "err") /\ UNCHANGED faults
       \/ /\ ~Readable(c) /\ ~AtEOF(c)
          /\ ReceiveEnds(c, "err") /\ Fault
       \/ /\ ~rtold[c] /\ (Readable(c) \/ AtEOF(c))
          /\ ReceiveEnds(c, "first") /\ UNCHANGED faults
    /\ UNCHANGED <<syncVars, sndVars, dirVars, told, pipe>>

\* Takes the head of the next file, and with it path and size.
TakeHead(c, place) ==
    /\ Readable(c) /\ Head(From(c)).kind = "head"
    /\ Consume(c, 1)
    /\ rcv' = Set(rcv, c, place)
    /\ cur' = Set(cur, c, Head(From(c)).node)
    /\ left' = Set(left, c, Head(From(c)).at)

\* Takes the two zero bytes.
TakeEnd(c) == /\ Readable(c) /\ Head(From(c)).kind = "end"
              /\ Consume(c, 1) /\ ReceiveEnds(c, "ok")

\* The first path length.  At the end of file path_length stays 0: no files.
ReadFirst(c) ==
    /\ rcv[c] = "first"
    /\ \/ TakeHead(c, "got")
       \/ TakeEnd(c)
       \/ AtEOF(c) /\ ReceiveEnds(c, "ok") /\ UNCHANGED pipe
    /\ UNCHANGED <<syncVars, sndVars, dirVars, told, faults>>

Got(c) ==
    /\ rcv[c] = "got"
    /\ ReceiveEnds(c, IF rtold[c] THEN "err" ELSE "file")
    /\ UNCHANGED <<syncVars, sndVars, dirVars, told, pipe, faults>>

\* Mutant: the directories on the way are not made.
MakeNode(c) ==
    /\ rcv[c] = "file" /\ made[c]
    /\ mirror' = Set(mirror, c, mirror[c] \cup {cur[c]})
    /\ ReceiveEnds(c, "data")
    /\ UNCHANGED <<syncVars, sndVars, made, data, told, pipe, faults>>

\* read_file_path makes the path.  In a working directory that was removed
\* mkdir fails unnoticed and open does not.
MakePath(c) ==
    /\ rcv[c] = "file"
    /\ IF made[c]
       THEN /\ mirror' = Set(mirror, c, mirror[c] \cup Path(cur[c]))
            /\ ReceiveEnds(c, "data")
       ELSE /\ ReceiveEnds(c, IF cur[c] \in Dirs THEN "data" ELSE "err")
            /\ UNCHANGED mirror
    /\ UNCHANGED <<syncVars, sndVars, made, data, told, pipe, faults>>

\* Mutant: a whole buffer is read where less remains.
WholeBuffer(remaining) == MaxBuff

\* How much read_file asks for.
Asked(remaining) == IF remaining >= MaxBuff THEN MaxBuff ELSE remaining

\* A turn of the loop of read_file: what read does not fill stays as it was,
\* and all of the buffer is written.  A file that was removed is gone.
ReadData(c) ==
    LET want == Asked(left[c])
        n    == IF want <= Len(From(c)) THEN want ELSE Len(From(c))
        buf  == SubSeq(From(c), 1, n) \o [i \in 1 .. want - n |-> Junk(cur[c])]
    IN  /\ rcv[c] = "data" /\ left[c] > 0
        /\ Readable(c) \/ AtEOF(c)
        /\ Consume(c, n)
        /\ data' = IF cur[c] \in mirror[c]
                   THEN [data EXCEPT ![c][cur[c]] = @ \o buf] ELSE data
        /\ left' = Set(left, c, IF want <= left[c] THEN left[c] - want ELSE 0)
        /\ UNCHANGED <<syncVars, sndVars, rcv, cur, made, mirror, told, faults>>

\* The file is complete: the flag.
ReadDone(c) ==
    /\ rcv[c] = "data" /\ left[c] = 0
    /\ ReceiveEnds(c, IF rtold[c] THEN "err" ELSE "again")
    /\ UNCHANGED <<syncVars, sndVars, dirVars, told, pipe, faults>>

\* The next path length.  At the end of file the old one stays.
ReadAgain(c) ==
    /\ rcv[c] = "again"
    /\ \/ TakeHead(c, "file")
       \/ TakeEnd(c)
       \/ AtEOF(c) /\ ReceiveEnds(c, "stale") /\ UNCHANGED pipe
    /\ UNCHANGED <<syncVars, sndVars, dirVars, told, faults>>

\* Into the file once more goes what the buffer holds.
WriteJunk(c) ==
    IF made[c] THEN /\ mirror' = Set(mirror, c, mirror[c] \cup Path(cur[c]))
                    /\ data' = [data EXCEPT ![c][cur[c]] =
                                  [i \in 1 .. SizeOf(cur[c]) |-> Junk(cur[c])]]
               ELSE UNCHANGED <<mirror, data>>

\* Mutant: the flag is not looked at.
StaleDeaf(c) ==
    /\ rcv[c] = "stale"
    /\ WriteJunk(c) /\ UNCHANGED rcvVars
    /\ UNCHANGED <<syncVars, sndVars, made, told, pipe, faults>>

\* A turn of the loop without input: the path is what malloc returns, such as
\* the last one; then the flag, and the same again.
Stale(c) ==
    /\ rcv[c] = "stale"
    /\ WriteJunk(c) /\ ReceiveEnds(c, IF rtold[c] THEN "err" ELSE "stale")
    /\ UNCHANGED <<syncVars, sndVars, made, told, pipe, faults>>

\* With another path open fails, or strtok finds no token and strcmp crashes.
StaleFails(c) ==
    /\ rcv[c] = "stale"
    /\ ReceiveEnds(c, "err") \/ ReceiveEnds(c, "killed")
    /\ UNCHANGED <<syncVars, sndVars, dirVars, told, pipe, faults>>

ReceiveStep(c) == \/ ReceiveBegin(c) \/ Select(c) \/ ReadFirst(c) \/ Got(c) \/ MakePath(c)
                  \/ ReadData(c) \/ ReadDone(c) \/ ReadAgain(c) \/ Stale(c)

--------------------------------------------------------------------------------
(* Signals and deaths. *)

\* SIGINT or SIGQUIT to the sync process, or to one of its children.
SigInt(c) ==
    /\ Fault
    /\ \/ sync[c] # "done" /\ flag' = Set(flag, c, 1) /\ UNCHANGED told
       \/ /\ snd[c] \notin Ended \cup {"none"}
          /\ stold' = Set(stold, c, TRUE) /\ UNCHANGED <<flag, rtold>>
       \/ /\ rcv[c] \notin Ended \cup {"none"}
          /\ rtold' = Set(rtold, c, TRUE) /\ UNCHANGED <<flag, stold>>
    /\ UNCHANGED <<sync, result, raced, sndVars, rcvVars, dirVars, pipe>>

\* The client ends and sends SIGUSR1 to the sync process.
ClientQuits(c) ==
    /\ sync[c] # "done" /\ flag[c] # 2
    /\ flag' = Set(flag, c, 2) /\ Fault
    /\ UNCHANGED <<sync, result, raced, sndVars, rcvVars, dirVars, told, pipe>>

\* A child dies.
Dies(c) ==
    /\ Fault
    /\ \/ snd[c] \notin Ended \cup {"none"} /\ SendEnds(c, "killed") /\ UNCHANGED rcvVars
       \/ rcv[c] \notin Ended \cup {"none"} /\ ReceiveEnds(c, "killed") /\ UNCHANGED sndVars
    /\ UNCHANGED <<syncVars, dirVars, told, pipe>>

Next == \E c \in Clients : \/ SyncStep(c) \/ OpenFifo(c) \/ SendStep(c) \/ ReceiveStep(c)
                           \/ StaleFails(c) \/ SigInt(c) \/ ClientQuits(c) \/ Dies(c)

Spec == Init /\ [][Next]_vars

\* All processes are scheduled; nothing has to fail.
FairSpec == /\ Spec
            /\ \A c \in Clients : /\ WF_vars(SyncStep(c)) /\ WF_vars(OpenFifo(c))
                                  /\ WF_vars(SendStep(c)) /\ WF_vars(ReceiveStep(c))

--------------------------------------------------------------------------------
(* Properties. *)

\* The mirror of c is a copy of the other client's input directory.
Complete(c) ==
    LET theirs == Below[Root[Other(c)]] \ {Root[Other(c)]}
    IN  /\ made[c] /\ mirror[c] = theirs
        /\ \A n \in theirs : data[c][n] = Content(n)

\* When a sender and the receiver of its files both end without error, the
\* copy is complete, empty directories, empty files and all, whatever happened
\* to the other processes; unless the sync process removes it since its own
\* sender failed or it was interrupted.
SuccessIsComplete ==
    \A c \in Clients : rcv[c] = "ok" /\ snd[Other(c)] = "ok" =>
       Complete(c) \/ sync[c] = "rmdir" \/ result[c] = "failed"

\* A receiver loops without input, or stores bytes it did not read, only if
\* the sender failed.
GarbageOnlyAfterFailure ==
    \A c \in Clients :
       \/ snd[Other(c)] \in {"err", "killed"}
       \/ /\ rcv[c] # "stale"
          /\ \A n \in Nodes : IsPrefix(data[c][n], Content(n))

\* A failure that is reported leaves no mirror behind, unless the receiver was
\* still running when the mirror was emptied.
FailureLeavesNothing ==
    \A c \in Clients : result[c] = "failed" /\ ~raced[c] => ~made[c]

\* A sync process that ends without success leaves no child that was not told
\* to end.
ChildrenToldToEnd ==
    \A c \in Clients : result[c] \in {"failed", "quit"} =>
       /\ snd[c] \in Ended \cup {"none"} \/ stold[c]
       /\ rcv[c] \in Ended \cup {"none"} \/ rtold[c]

\* An error of either child ends the sync process, and not as a success, even
\* if it is blocked in waitpid for the other one.
FailureReported ==
    \A c \in Clients : (Failed(snd[c]) \/ Failed(rcv[c])) ~> result[c] \in {"failed", "quit"}

\* A child that was told to end ends, once its FIFO is open.
ToldEnds ==
    \A c \in Clients : /\ stold[c] /\ snd[c] # "open" ~> snd[c] \in Ended
                       /\ rtold[c] /\ rcv[c] # "open" ~> rcv[c] \in Ended

\* When nothing fails and nobody is told to stop, both clients end with
\* success and complete mirrors.
BothComplete == <>(faults > 0 \/ \A c \in Clients : result[c] = "ok" /\ Complete(c))
================================================================================
