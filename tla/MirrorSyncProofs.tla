--------------------------- MODULE MirrorSyncProofs ----------------------------
(***************************************************************************)
(* What the sync processes leave behind, with and without success, for any *)
(* directories, any sizes of buffers and FIFOs, and any number of          *)
(* failures, deaths and signals. The first part follows the processes and  *)
(* the results; the second one follows the bytes through a FIFO into the   *)
(* mirror directory.                                                       *)
(***************************************************************************)
EXTENDS MirrorSync, FiniteSetTheorems, SequenceTheorems, TLAPS

SyncPlaces == {"start", "fork", "poll", "wait_send", "wait_receive", "empty", "rmdir", "done"}

SendPlaces == {"none", "open", "opened", "next", "data"} \cup Ended

ReceivePlaces == {"none", "open", "opened", "select", "first", "got", "file", "data", "again",
                  "stale"} \cup Ended

Results == {"none", "failed", "quit", "ok"}

\* The part of the state that the results depend on.
SyncTypes ==
    /\ sync \in [Clients -> SyncPlaces] /\ flag \in [Clients -> 0 .. 2]
    /\ result \in [Clients -> Results] /\ raced \in [Clients -> BOOLEAN]
    /\ snd \in [Clients -> SendPlaces] /\ rcv \in [Clients -> ReceivePlaces]
    /\ stold \in [Clients -> BOOLEAN] /\ rtold \in [Clients -> BOOLEAN]
    /\ made \in [Clients -> BOOLEAN] /\ mirror \in [Clients -> SUBSET Nodes]

\* A child that is not there, or is through, or was told to end.
SenderSettled(c)   == snd[c] \in Ended \cup {"none"} \/ stold[c]
ReceiverSettled(c) == rcv[c] \in Ended \cup {"none"} \/ rtold[c]

\* What holds of one client and its processes:
\*  - the children come one after the other, and before them there is no mirror;
\*  - while the second child is waited for, the first one has ended;
\*  - on the way to an end without success both children are settled;
\*  - a result is there only at the end;
\*  - once the mirror is emptied nobody fills it again, unless the receiver
\*    was running; and without a receiver there is none.
ClientInv(c) ==
    /\ sync[c] = "start" => snd[c] = "none"
    /\ sync[c] \in {"start", "fork"} => rcv[c] = "none" /\ ~made[c]
    /\ sync[c] = "wait_send" => rcv[c] \in Ended
    /\ sync[c] = "wait_receive" => snd[c] \in Ended
    /\ sync[c] \in {"empty", "rmdir"} \/ result[c] \in {"failed", "quit"} =>
          SenderSettled(c) /\ ReceiverSettled(c)
    /\ result[c] # "none" => sync[c] = "done"
    /\ sync[c] = "rmdir" /\ ~raced[c] => rcv[c] \in Ended /\ mirror[c] = {}
    /\ result[c] = "failed" /\ ~raced[c] => rcv[c] \in Ended \cup {"none"} /\ ~made[c]

\* The inductive invariant.
SyncInv == SyncTypes /\ \A c \in Clients : ClientInv(c)

--------------------------------------------------------------------------------

\* Before anything is forked the invariant holds.
LEMMA SyncInvInit == Init => SyncInv
  <1> SUFFICES ASSUME Init PROVE SyncInv
    OBVIOUS
  <1>1. SyncTypes
    BY DEF Init, SyncTypes, SyncPlaces, Results, SendPlaces, ReceivePlaces, Ended
  <1>2. ASSUME NEW c \in Clients PROVE ClientInv(c)
    BY DEF Init, ClientInv, SenderSettled, ReceiverSettled, Ended
  <1> QED
    BY <1>1, <1>2 DEF SyncInv

\* After Tell both children of the client are settled; another client's are
\* what they were.
LEMMA TellSettles ==
  ASSUME SyncTypes, NEW c \in Clients, Tell(c), snd' = snd,
         rcv' = rcv, NEW d \in Clients
  PROVE  /\ d = c => SenderSettled(d)' /\ ReceiverSettled(d)'
         /\ d # c => stold'[d] = stold[d] /\ rtold'[d] = rtold[d]
  <1>1. CASE d = c
    <2>1. stold'[c] = (snd[c] # "none") /\ rtold'[c] = (rcv[c] # "none")
      BY Zenon DEF Tell, Set, SyncTypes
    <2> QED
      BY <1>1, <2>1, Zenon DEF SenderSettled, ReceiverSettled
  <1>2. CASE d # c
    BY <1>2 DEF Tell, Set, SyncTypes
  <1> QED
    BY <1>1, <1>2

\* Steps of the sync process.
LEMMA SyncStepKeeps ==
  ASSUME SyncInv, NEW c \in Clients, SyncStep(c)
  PROVE  SyncInv'
  <1> USE DEF SyncInv, Set, sndVars, rcvVars, dirVars, told
  <1>1. CASE Start(c)
    <2> USE <1>1 DEF Start, Return, Starts
    <2>1. SyncTypes'
      BY DEF SyncTypes, SyncPlaces, Results, SendPlaces, ReceivePlaces, Ended
    <2>2. ASSUME NEW d \in Clients PROVE ClientInv(d)'
      BY DEF SyncTypes, SyncPlaces, Results, ClientInv, SenderSettled, ReceiverSettled, Ended
    <2> QED
      BY <2>1, <2>2
  <1>2. CASE Fork(c)
    <2> USE <1>2 DEF Fork, Return, Starts
    <2>1. SyncTypes'
      BY DEF Tell, SyncTypes, SyncPlaces, Results, SendPlaces, ReceivePlaces, Ended
    <2>2. ASSUME NEW d \in Clients PROVE ClientInv(d)'
      <3>1. CASE Return(c, "failed") /\ Tell(c) /\ UNCHANGED rcv
        <4>1. /\ d = c => SenderSettled(d)' /\ ReceiverSettled(d)'
              /\ d # c => stold'[d] = stold[d] /\ rtold'[d] = rtold[d]
          BY <3>1, TellSettles
        <4>2. CASE d = c
          BY <3>1, <4>1, <4>2 DEF SyncTypes, ClientInv, Ended
        <4>3. CASE d # c
          BY <3>1, <4>1, <4>3 DEF SyncTypes, ClientInv, SenderSettled, ReceiverSettled
        <4> QED
          BY <4>2, <4>3
      <3>2. CASE /\ sync' = Set(sync, c, "poll")
                 /\ Starts(rcv, c) /\ UNCHANGED <<result, told>>
        BY <3>2 DEF SyncTypes, SyncPlaces, Results, ClientInv, SenderSettled,
                    ReceiverSettled, Ended
      <3> QED
        BY <3>1, <3>2
    <2> QED
      BY <2>1, <2>2
  <1>3. CASE Flagged(c)
    <2> USE <1>3 DEF Flagged, Return
    <2>1. SyncTypes'
      BY DEF Tell, SyncTypes, SyncPlaces, Results, SendPlaces, ReceivePlaces, Ended
    <2>2. ASSUME NEW d \in Clients PROVE ClientInv(d)'
      BY TellSettles
         DEF SyncTypes, SyncPlaces, Results, ClientInv, SenderSettled, ReceiverSettled, Ended
    <2> QED
      BY <2>1, <2>2
  <1>4. CASE ChildFailed(c)
    <2> USE <1>4 DEF ChildFailed, Failed
    <2>1. SyncTypes'
      BY DEF SyncTypes, SyncPlaces, Results, SendPlaces, ReceivePlaces, Ended
    <2>2. ASSUME NEW d \in Clients PROVE ClientInv(d)'
      BY DEF SyncTypes, SyncPlaces, Results, ClientInv, SenderSettled, ReceiverSettled, Ended
    <2> QED
      BY <2>1, <2>2
  <1>5. CASE ChildSucceeded(c)
    <2> USE <1>5 DEF ChildSucceeded, Failed
    <2>1. SyncTypes'
      BY DEF SyncTypes, SyncPlaces, Results, SendPlaces, ReceivePlaces, Ended
    <2>2. ASSUME NEW d \in Clients PROVE ClientInv(d)'
      BY DEF SyncTypes, SyncPlaces, Results, ClientInv, SenderSettled, ReceiverSettled, Ended
    <2> QED
      BY <2>1, <2>2
  <1>6. CASE Waited(c)
    <2> USE <1>6 DEF Waited, Return, Failed
    <2>1. SyncTypes'
      BY DEF SyncTypes, SyncPlaces, Results, SendPlaces, ReceivePlaces, Ended
    <2>2. ASSUME NEW d \in Clients PROVE ClientInv(d)'
      BY DEF SyncTypes, SyncPlaces, Results, ClientInv, SenderSettled, ReceiverSettled, Ended
    <2> QED
      BY <2>1, <2>2
  <1>7. CASE RemoveContents(c)
    <2> USE <1>7 DEF RemoveContents
    <2>1. SyncTypes'
      BY DEF SyncTypes, SyncPlaces, Results, SendPlaces, ReceivePlaces, Ended
    <2>2. ASSUME NEW d \in Clients PROVE ClientInv(d)'
      BY DEF SyncTypes, SyncPlaces, Results, ClientInv, SenderSettled, ReceiverSettled, Ended
    <2> QED
      BY <2>1, <2>2
  <1>8. CASE RemoveTop(c)
    <2> USE <1>8 DEF RemoveTop, Return
    <2>1. SyncTypes'
      BY DEF SyncTypes, SyncPlaces, Results, SendPlaces, ReceivePlaces, Ended
    <2>2. ASSUME NEW d \in Clients PROVE ClientInv(d)'
      BY DEF SyncTypes, SyncPlaces, Results, ClientInv, SenderSettled, ReceiverSettled, Ended
    <2> QED
      BY <2>1, <2>2
  <1> QED
    BY <1>1, <1>2, <1>3, <1>4, <1>5, <1>6, <1>7, <1>8 DEF SyncStep

\* The children, the FIFOs, the signals and the deaths.  A child moves only
\* between places it has reached, so that none that has ended, or was never
\* forked, comes back.
LEMMA SendStepKeeps ==
  ASSUME SyncInv, NEW c \in Clients, OpenFifo(c) \/ SendStep(c)
  PROVE  SyncInv'
  <1> USE DEF SyncInv, Set, syncVars, rcvVars, dirVars, told
  <1>1. CASE OpenFifo(c)
    <2>1. SyncTypes'
      BY <1>1 DEF OpenFifo, Reader, SyncTypes, SendPlaces, ReceivePlaces, Ended
    <2>2. ASSUME NEW d \in Clients PROVE ClientInv(d)'
      BY <1>1 DEF OpenFifo, Reader, SyncTypes, ClientInv, SenderSettled, ReceiverSettled, Ended
    <2> QED
      BY <2>1, <2>2
  <1>2. CASE SendStep(c)
    <2>1. /\ UNCHANGED <<syncVars, rcvVars, dirVars, told>>
          /\ snd[c] \in {"opened", "next", "data"}
          /\ snd' = snd \/ \E how \in {"next", "data"} \cup Ended : snd' = Set(snd, c, how)
      BY <1>2 DEF SendStep, SendBegin, SendHead, SendData, SendNext, SendEnd, SendEnds, Ended
    <2>2. SyncTypes'
      BY <2>1 DEF SyncTypes, SendPlaces, Ended
    <2>3. ASSUME NEW d \in Clients PROVE ClientInv(d)'
      BY <2>1 DEF SyncTypes, ClientInv, SenderSettled, ReceiverSettled, Ended
    <2> QED
      BY <2>2, <2>3
  <1> QED
    BY <1>1, <1>2

\* A receiver that moves is one that was forked and has not ended; only such
\* a one makes or fills the mirror.
ReceiverMoves(c) ==
    /\ rcv[c] \in ReceivePlaces \ (Ended \cup {"none", "open"})
    /\ UNCHANGED <<syncVars, snd, told>>
    /\ rcv' = rcv \/ \E place \in ReceivePlaces \ {"none"} : rcv' = [rcv EXCEPT ![c] = place]
    /\ made' = made \/ made' = [made EXCEPT ![c] = TRUE]
    /\ mirror' = mirror \/ \E m \in SUBSET Nodes : mirror' = [mirror EXCEPT ![c] = m]

\* Every step of the receiver (Receive, clientSync.c) is such a move.
LEMMA ReceiveStepMoves ==
  ASSUME SyncTypes, NEW c \in Clients, ReceiveStep(c) \/ StaleFails(c)
  PROVE  ReceiverMoves(c)
  <1> USE DEF ReceiverMoves, ReceiveEnds, Set, sndVars, rcvVars, dirVars, ReceivePlaces, Ended
  <1>1. mirror[c] \cup Path(cur[c]) \in SUBSET Nodes
    BY DEF Path, SyncTypes
  <1>2. CASE ReceiveBegin(c)
    BY <1>2 DEF ReceiveBegin
  <1>3. CASE Select(c)
    BY <1>3 DEF Select
  <1>4. CASE ReadFirst(c)
    BY <1>4 DEF ReadFirst, TakeHead, TakeEnd
  <1>5. CASE Got(c)
    BY <1>5 DEF Got
  <1>6. CASE MakePath(c)
    BY <1>1, <1>6 DEF MakePath
  <1>7. CASE ReadData(c)
    BY <1>7 DEF ReadData
  <1>8. CASE ReadDone(c)
    BY <1>8 DEF ReadDone
  <1>9. CASE ReadAgain(c)
    BY <1>9 DEF ReadAgain, TakeHead, TakeEnd
  <1>10. CASE Stale(c)
    BY <1>1, <1>10 DEF Stale, WriteJunk
  <1>11. CASE StaleFails(c)
    BY <1>11 DEF StaleFails
  <1> QED
    BY <1>2, <1>3, <1>4, <1>5, <1>6, <1>7, <1>8, <1>9, <1>10, <1>11 DEF ReceiveStep

\* Such a move keeps the invariant: it is the parent that waits and tells.
LEMMA ReceiverMovesKeeps ==
  ASSUME SyncInv, NEW c \in Clients, ReceiverMoves(c)
  PROVE  SyncInv'
  <1> USE DEF SyncInv, ReceiverMoves, syncVars, told
  <1>1. SyncTypes'
    <2>1. rcv' \in [Clients -> ReceivePlaces]
      BY DEF SyncTypes
    <2>2. made' \in [Clients -> BOOLEAN]
      BY DEF SyncTypes
    <2>3. mirror' \in [Clients -> SUBSET Nodes]
      BY DEF SyncTypes
    <2> QED
      BY <2>1, <2>2, <2>3 DEF SyncTypes
  <1>2. ASSUME NEW d \in Clients PROVE ClientInv(d)'
    <2>1. CASE d = c
      BY <2>1 DEF SyncTypes, ClientInv, SenderSettled, ReceiverSettled, Ended
    <2>2. CASE d # c
      BY <2>2 DEF SyncTypes, ClientInv, SenderSettled, ReceiverSettled
    <2> QED
      BY <2>1, <2>2
  <1> QED
    BY <1>1, <1>2

\* A signal changes flags only, and sets them; a death ends a child.
LEMMA OutsideKeeps ==
  ASSUME SyncInv, NEW c \in Clients, SigInt(c) \/ ClientQuits(c) \/ Dies(c)
  PROVE  SyncInv'
  <1> USE DEF SyncInv, Set, syncVars, sndVars, rcvVars, dirVars, told
  <1>1. CASE SigInt(c)
    <2>1. SyncTypes'
      <3>1. flag' \in [Clients -> 0 .. 2]
        BY <1>1 DEF SigInt, SyncTypes
      <3>2. stold' \in [Clients -> BOOLEAN]
        BY <1>1 DEF SigInt, SyncTypes
      <3>3. rtold' \in [Clients -> BOOLEAN]
        BY <1>1 DEF SigInt, SyncTypes
      <3> QED
        BY <1>1, <3>1, <3>2, <3>3 DEF SigInt, SyncTypes
    <2>2. ASSUME NEW d \in Clients PROVE ClientInv(d)'
      BY <1>1 DEF SigInt, SyncTypes, ClientInv, SenderSettled, ReceiverSettled
    <2> QED
      BY <2>1, <2>2
  <1>2. CASE ClientQuits(c)
    <2>1. SyncTypes'
      BY <1>2 DEF ClientQuits, SyncTypes
    <2>2. ASSUME NEW d \in Clients PROVE ClientInv(d)'
      BY <1>2 DEF ClientQuits, SyncTypes, ClientInv, SenderSettled, ReceiverSettled
    <2> QED
      BY <2>1, <2>2
  <1>3. CASE Dies(c)
    <2> USE <1>3 DEF Dies, SendEnds, ReceiveEnds, SyncTypes, Ended
    <2>1. SyncTypes'
      BY DEF SendPlaces, ReceivePlaces
    <2>2. ASSUME NEW d \in Clients PROVE ClientInv(d)'
      BY DEF ClientInv, SenderSettled, ReceiverSettled
    <2> QED
      BY <2>1, <2>2
  <1> QED
    BY <1>1, <1>2, <1>3

--------------------------------------------------------------------------------

\* SyncInv is an invariant of two exchanging clients, whatever fails or dies
\* and whoever is told to stop (sync.c, sync_send.c, sync_receive.c).
THEOREM SyncInvariance == Spec => []SyncInv
  <1>1. Init => SyncInv
    BY SyncInvInit
  <1>2. SyncInv /\ [Next]_vars => SyncInv'
    <2> SUFFICES ASSUME SyncInv, [Next]_vars PROVE SyncInv'
      OBVIOUS
    <2>1. CASE Next
      BY <2>1, SyncStepKeeps, SendStepKeeps, ReceiveStepMoves, ReceiverMovesKeeps,
         OutsideKeeps DEF Next, SyncInv
    <2>2. CASE UNCHANGED vars
      BY <2>2 DEF vars, syncVars, sndVars, rcvVars, dirVars, told, SyncInv, SyncTypes,
                  ClientInv, SenderSettled, ReceiverSettled
    <2> QED
      BY <2>1, <2>2
  <1> QED
    BY <1>1, <1>2, PTL DEF Spec

\* A sync process that ends without success has told every child of its own
\* that still runs to end (the calls of kill before each return of sync.c).
THEOREM ChildrenCorrect == Spec => []ChildrenToldToEnd
  <1>1. SyncInv => ChildrenToldToEnd
    BY DEF SyncInv, ClientInv, SenderSettled, ReceiverSettled, ChildrenToldToEnd
  <1> QED
    BY <1>1, SyncInvariance, PTL

\* A failure that is reported leaves no mirror behind, unless the receiver was
\* running while remove_dir emptied it.
THEOREM NothingLeft == Spec => []FailureLeavesNothing
  <1>1. SyncInv => FailureLeavesNothing
    BY DEF SyncInv, ClientInv, FailureLeavesNothing
  <1> QED
    BY <1>1, SyncInvariance, PTL

--------------------------------------------------------------------------------
(* The stream of files.  A place in what client s sends is a pair: an item,    *)
(* and how many of its bytes, the head counting as none; item 0 is before the  *)
(* first head, and the item after the last is the end.                         *)

Items(s) == Len(Outgoing[s])

Item(s, k) == Outgoing[s][k].node

SizeAt(s, k) == IF k \in 1 .. Items(s) THEN SizeOf(Item(s, k)) ELSE 0

Places(s) == {p \in (0 .. Items(s) + 1) \X Nat : p[2] <= SizeAt(s, p[1])}

\* The cell that is written to come to a place.
CellAt(s, p) == IF p[1] > Items(s) THEN EndCell(Root[s])
                ELSE IF p[2] = 0 THEN HeadCell(Item(s, p[1]))
                ELSE ByteCell(Item(s, p[1]), p[2])

\* What is known of two places with d cells from one to the other.
Apart(s, p, q, d) ==
    /\ p[1] <= q[1]
    /\ p[1] = q[1] => q[2] = p[2] + d
    /\ p[1] < q[1] => d >= SizeAt(s, p[1]) - p[2] + q[1] - p[1] + q[2]

\* The places that the cells come to, one after the other.
Course(s, w, cells) ==
    /\ \A i \in 1 .. Len(cells) : w[i][1] > 0 /\ cells[i] = CellAt(s, w[i])
    /\ \A i, j \in 0 .. Len(cells) : i < j => Apart(s, w[i], w[j], j - i)

\* The cells lead from one place to another.
Leads(s, p, q, cells) ==
    \E w \in [0 .. Len(cells) -> Places(s)] :
        w[0] = p /\ w[Len(cells)] = q /\ Course(s, w, cells)

\* A place in a file where a read or write of a buffer begins or ends.
Cut(x, size) == x = size \/ \E q \in Nat : x = q * MaxBuff

SenderAt(s, p) ==
    /\ snd[s] \in {"none", "open", "opened"} => p = <<0, 0>> /\ pos[s] = 0
    /\ snd[s] = "next" => p = <<pos[s], SizeAt(s, pos[s])>>
    /\ snd[s] = "data" => p = <<pos[s], off[s]>> /\ Cut(p[2], SizeAt(s, p[1]))
    /\ snd[s] = "ok" => p = <<Items(s) + 1, 0>>

ReceiverAt(c, s, p) ==
    /\ rcv[c] \in {"none", "open", "opened", "select", "first"} => p = <<0, 0>>
    /\ rcv[c] \in {"got", "file", "data"} =>
          /\ p[1] \in 1 .. Items(s) /\ cur[c] = Item(s, p[1])
          /\ left[c] = SizeAt(s, p[1]) - p[2] /\ Cut(p[2], SizeAt(s, p[1]))
    /\ rcv[c] \in {"got", "file"} => p[2] = 0
    /\ rcv[c] = "again" => p[1] \in 1 .. Items(s) /\ p[2] = SizeAt(s, p[1])
    /\ rcv[c] = "ok" => p = <<Items(s) + 1, 0>>

--------------------------------------------------------------------------------
(* The mirror. *)

\* The first k bytes of a file.
Begun(m, k) == [i \in 1 .. k |-> ByteCell(m, i)]

\* The sync process has removed the mirror.
Removed(c) == sync[c] = "rmdir" \/ result[c] = "failed"

\* Nothing but what was read is stored: a beginning of each file.
Honest(c) == \A m \in Nodes : \E k \in 0 .. SizeOf(m) : data[c][m] = Begun(m, k)

\* All that is made for the items before k.
PathsBefore(s, k) == UNION {Path(Item(s, j)) : j \in {i \in 1 .. Items(s) : i < k}}

\* A receiver that has read the head of an item and not made its path.
Begins(c) == rcv[c] \in {"got", "file"}

\* Nothing is stored of the items to come.
Unread(c, s, k) ==
    \A j \in 1 .. Items(s) :
        j > k \/ (j = k /\ Begins(c)) => data[c][Item(s, j)] = Begun(Item(s, j), 0)

\* All the items before are there, with their paths.
Kept(c, s, k) ==
    /\ made[c] \/ rcv[c] \in {"none", "open", "opened"}
    /\ mirror[c] = PathsBefore(s, IF Begins(c) THEN k ELSE k + 1)
    /\ \A j \in 1 .. Items(s) : j < k \/ (j = k /\ rcv[c] = "again") =>
          data[c][Item(s, j)] = Content(Item(s, j))

\* What is stored when the receiver is at a place; of the current item, if it
\* was not removed, what was read.
Stored(c, s, p) ==
    /\ Unread(c, s, p[1])
    /\ rcv[c] = "data" /\ cur[c] \in mirror[c] => data[c][cur[c]] = Begun(cur[c], p[2])
    /\ Removed(c) \/ Kept(c, s, p[1])

\* As long as the sender s has not failed, the receiver c stores what s sends.
Flow(c, s) ==
    \/ snd[s] \in {"err", "killed"}
    \/ /\ rcv[c] # "stale" /\ Honest(c)
       /\ \/ rcv[c] \in {"err", "killed"}
          \/ \E p, q \in Places(s) : /\ Leads(s, p, q, pipe[s]) /\ ReceiverAt(c, s, p)
                                     /\ SenderAt(s, q) /\ Stored(c, s, p)

Cells == [kind : {"head", "byte", "end", "junk"}, node : Nodes, at : Nat]

\* The sender's place and its FIFO.
SendTypes ==
    /\ pos \in [Clients -> Nat] /\ off \in [Clients -> Nat] /\ pipe \in [Clients -> Seq(Cells)]
    /\ \A s \in Clients : /\ pos[s] <= Items(s)
                          /\ snd[s] = "data" => pos[s] > 0 /\ off[s] <= SizeAt(s, pos[s])

\* What the receiver reads and stores.
ReceiveTypes ==
    /\ left \in [Clients -> Nat] /\ cur \in [Clients -> Nodes]
    /\ data \in [Clients -> [Nodes -> Seq(Cells)]]

\* The inductive invariant.
FlowInv == SyncInv /\ SendTypes /\ ReceiveTypes /\ \A c \in Clients : Flow(c, Other(c))

--------------------------------------------------------------------------------
(* Facts about clients, items and places. *)

\* There are two clients.
LEMMA TwoClients ==
  ASSUME NEW c \in Clients
  PROVE  /\ Other(c) \in Clients /\ Other(c) # c /\ Other(Other(c)) = c
         /\ \A d \in Clients : d = c \/ d = Other(c)
  <1>1. IsFiniteSet(Clients) /\ Cardinality(Clients) = 2
    BY SyncAssumption
  <1>2. PICK rest : rest = Clients \ {c}
    OBVIOUS
  <1>3. IsFiniteSet(rest) /\ Cardinality(rest) = 1
    BY <1>1, <1>2, FS_RemoveElement
  <1>4. PICK d : rest = {d}
    BY <1>3, FS_Singleton
  <1>5. Clients = {c, d} /\ c # d
    BY <1>2, <1>4
  <1>6. Other(c) = d /\ Other(d) = c
    BY <1>5 DEF Other
  <1> QED
    BY <1>5, <1>6

\* The items are nodes, each there once.
LEMMA ItemsTyped ==
  ASSUME NEW s \in Clients
  PROVE  /\ Items(s) \in Nat
         /\ \A k \in 1 .. Items(s) : Item(s, k) \in Nodes /\ Item(s, k) \in Path(Item(s, k))
         /\ \A j, k \in 1 .. Items(s) : Item(s, j) = Item(s, k) => j = k
  <1>1. /\ Outgoing[s] \in Seq([node : Nodes, last : BOOLEAN])
        /\ \A j, k \in DOMAIN Outgoing[s] : Item(s, j) = Item(s, k) => j = k
        /\ \A k \in DOMAIN Outgoing[s] : Item(s, k) \in Path(Item(s, k))
    BY TreeAssumption, Zenon DEF Item
  <1>2. Items(s) \in Nat /\ DOMAIN Outgoing[s] = 1 .. Items(s)
    BY <1>1 DEF Items
  <1>3. ASSUME NEW k \in 1 .. Items(s) PROVE Item(s, k) \in Nodes
    <2>1. Outgoing[s][k] \in [node : Nodes, last : BOOLEAN]
      BY <1>1, <1>3, ElementOfSeq DEF Items
    <2> QED
      BY <2>1 DEF Item
  <1> QED
    BY <1>1, <1>2, <1>3

\* What is made for all the items is the other client's tree.
LEMMA AllItems ==
  ASSUME NEW s \in Clients
  PROVE  LET theirs == Below[Root[s]] \ {Root[s]}
         IN  /\ theirs = UNION {Path(Item(s, k)) : k \in 1 .. Items(s)}
             /\ theirs \ Dirs \subseteq {Item(s, k) : k \in 1 .. Items(s)}
  <1>1. /\ Outgoing[s] \in Seq([node : Nodes, last : BOOLEAN])
        /\ Below[Root[s]] \ {Root[s]} = UNION {Path(Item(s, k)) : k \in DOMAIN Outgoing[s]}
        /\ (Below[Root[s]] \ {Root[s]}) \ Dirs \subseteq {Item(s, k) : k \in DOMAIN Outgoing[s]}
    BY TreeAssumption, Zenon DEF Item
  <1>2. DOMAIN Outgoing[s] = 1 .. Items(s)
    BY <1>1 DEF Items
  <1> QED
    BY <1>1, <1>2, Zenon

\* Sizes are numbers.
LEMMA SizeTyped ==
  /\ \A n \in Nodes : SizeOf(n) \in Nat
  /\ \A n \in Dirs : SizeOf(n) = 0
  /\ MaxBuff \in Nat \ {0} /\ \A c \in Clients : Root[c] \in Nodes
  BY SyncAssumption DEF SizeOf

\* The same for the size of an item.
LEMMA SizeAtTyped ==
  ASSUME NEW s \in Clients
  PROVE  /\ \A k : SizeAt(s, k) \in Nat
         /\ \A k \in 1 .. Items(s) : SizeAt(s, k) = SizeOf(Item(s, k))
         /\ SizeAt(s, 0) = 0 /\ SizeAt(s, Items(s) + 1) = 0
  BY ItemsTyped, SizeTyped DEF SizeAt

\* Places are pairs of numbers.
LEMMA PlaceTyped ==
  ASSUME NEW s \in Clients, NEW p \in Places(s)
  PROVE  /\ p[1] \in 0 .. Items(s) + 1 /\ p[2] \in Nat /\ p[2] <= SizeAt(s, p[1])
         /\ p = <<p[1], p[2]>> /\ p[1] \in Nat
  BY ItemsTyped DEF Places

\* And such pairs are places.
LEMMA PlaceIntro ==
  ASSUME NEW s \in Clients, NEW k \in 0 .. Items(s) + 1, NEW x \in Nat, x <= SizeAt(s, k)
  PROVE  <<k, x>> \in Places(s)
  BY DEF Places

\* Cells are cells.
LEMMA CellTyped ==
  ASSUME NEW n \in Nodes, NEW i \in Nat
  PROVE  /\ HeadCell(n) \in Cells /\ HeadCell(n).kind = "head" /\ HeadCell(n).node = n
         /\ HeadCell(n).at = SizeOf(n)
         /\ ByteCell(n, i) \in Cells /\ ByteCell(n, i).kind = "byte"
         /\ EndCell(n) \in Cells /\ EndCell(n).kind = "end" /\ Junk(n) \in Cells
  BY SizeTyped DEF HeadCell, ByteCell, EndCell, Junk, Cells

--------------------------------------------------------------------------------
(* Cells that lead from place to place. *)

\* One place and no cells.
LEMMA LeadsNowhere ==
  ASSUME NEW s \in Clients, NEW p \in Places(s)
  PROVE  Leads(s, p, p, <<>>)
  <1> DEFINE w == [i \in 0 .. 0 |-> p]
  <1>1. w \in [0 .. Len(<<>>) -> Places(s)] /\ w[0] = p /\ w[Len(<<>>)] = p
    OBVIOUS
  <1>2. Course(s, w, <<>>)
    BY DEF Course
  <1> QED
    BY <1>1, <1>2 DEF Leads

\* Without cells one does not move.
LEMMA LeadsEmpty ==
  ASSUME NEW s \in Clients, NEW p, NEW q, Leads(s, p, q, <<>>)
  PROVE  p = q
  BY DEF Leads

\* More bytes of the same item.
LEMMA ApartBytes ==
  ASSUME NEW s \in Clients, NEW p \in Places(s), NEW q \in Places(s), NEW d \in Nat,
         Apart(s, p, q, d), NEW e \in Nat
  PROVE  Apart(s, p, <<q[1], q[2] + e>>, d + e)
  <1>1. /\ p[1] \in Nat /\ p[2] \in Nat /\ q[1] \in Nat /\ q[2] \in Nat /\ SizeAt(s, p[1]) \in Nat
    BY PlaceTyped, SizeAtTyped
  <1> QED
    BY <1>1 DEF Apart

\* The head of the next item.
LEMMA ApartHead ==
  ASSUME NEW s \in Clients, NEW p \in Places(s), NEW q \in Places(s), NEW d \in Nat,
         Apart(s, p, q, d), q[2] = SizeAt(s, q[1])
  PROVE  Apart(s, p, <<q[1] + 1, 0>>, d + 1)
  <1>1. /\ p[1] \in Nat /\ p[2] \in Nat /\ q[1] \in Nat /\ q[2] \in Nat /\ SizeAt(s, p[1]) \in Nat
    BY PlaceTyped, SizeAtTyped
  <1> QED
    BY <1>1 DEF Apart

\* From a place to itself.
LEMMA ApartSelf ==
  ASSUME NEW s \in Clients, NEW p \in Places(s)
  PROVE  Apart(s, p, p, 0)
  BY PlaceTyped DEF Apart

\* Cells more, each with its place: it must be known how far it is from where
\* the others lead to.
LEMMA LeadsFurther ==
  ASSUME NEW s \in Clients, NEW p \in Places(s), NEW q \in Places(s), NEW cells \in Seq(Cells),
         Leads(s, p, q, cells), NEW new \in Seq(Cells), Len(new) > 0,
         NEW u \in [1 .. Len(new) -> Places(s)],
         \A j \in 1 .. Len(new) : u[j][1] > 0 /\ new[j] = CellAt(s, u[j]),
         \A j \in 1 .. Len(new) : \A r \in Places(s) : \A d \in Nat :
            Apart(s, r, q, d) => Apart(s, r, u[j], d + j),
         \A i, j \in 1 .. Len(new) : i < j => Apart(s, u[i], u[j], j - i)
  PROVE  Leads(s, p, u[Len(new)], cells \o new)
  <1>1. PICK w \in [0 .. Len(cells) -> Places(s)] :
           w[0] = p /\ w[Len(cells)] = q /\ Course(s, w, cells)
    BY DEF Leads
  <1>2. PICK n \in Nat : n = Len(cells)
    OBVIOUS
  <1>3. PICK m \in Nat : m = Len(new) /\ m > 0
    OBVIOUS
  <1>x. PICK x : x = [i \in 0 .. n + m |-> IF i <= n THEN w[i] ELSE u[i - n]]
    OBVIOUS
  <1>4. /\ \A i \in 0 .. n : i \in 0 .. n + m /\ x[i] = w[i] /\ w[i] \in Places(s)
        /\ \A j \in 1 .. m : n + j \in 0 .. n + m /\ x[n + j] = u[j] /\ u[j] \in Places(s)
    <2>1. /\ \A i \in 0 .. n : i \in 0 .. n + m /\ i <= n
          /\ \A j \in 1 .. m : n + j \in 0 .. n + m /\ ~(n + j <= n) /\ (n + j) - n = j
      OBVIOUS
    <2>2. \A i \in 0 .. n : x[i] = w[i] /\ w[i] \in Places(s)
      BY <1>x, <1>1, <1>2, <2>1
    <2>3. ASSUME NEW j \in 1 .. m PROVE x[n + j] = u[j] /\ u[j] \in Places(s)
      <3>1. x[n + j] = u[(n + j) - n]
        BY <1>x, <2>1
      <3> QED
        BY <1>3, <2>1, <3>1
    <2> QED
      BY <2>1, <2>2, <2>3
  <1>5. \A i \in 0 .. n + m : i \in 0 .. n \/ \E j \in 1 .. m : i = n + j
    <2> TAKE i \in 0 .. n + m
    <2>1. CASE i <= n
      BY <2>1
    <2>2. CASE i > n
      <3>1. i - n \in 1 .. m /\ i = n + (i - n)
        BY <2>2
      <3> QED
        BY <3>1
    <2> QED
      BY <2>1, <2>2
  <1>6. /\ cells \o new \in Seq(Cells) /\ Len(cells \o new) = n + m
        /\ \A i \in 1 .. n : (cells \o new)[i] = cells[i]
        /\ \A j \in 1 .. m : (cells \o new)[n + j] = new[j]
    <2>1. /\ cells \o new \in Seq(Cells) /\ Len(cells \o new) = Len(cells) + Len(new)
          /\ \A i \in 1 .. Len(cells) + Len(new) :
                (cells \o new)[i] = IF i <= Len(cells) THEN cells[i] ELSE new[i - Len(cells)]
      BY ConcatProperties
    <2>2. \A i \in 1 .. n : i \in 1 .. n + m /\ i <= n
      OBVIOUS
    <2>3. \A j \in 1 .. m : n + j \in 1 .. n + m /\ ~(n + j <= n) /\ (n + j) - n = j
      OBVIOUS
    <2> QED
      BY <1>2, <1>3, <2>1, <2>2, <2>3
  <1>7. x \in [0 .. n + m -> Places(s)] /\ x[0] = p /\ x[n + m] = u[m]
    <2>1. x \in [0 .. n + m -> Places(s)]
      <3>1. ASSUME NEW i \in 0 .. n + m PROVE x[i] \in Places(s)
        BY <1>4, <1>5
      <3>2. x = [i \in 0 .. n + m |-> x[i]]
        BY <1>x
      <3> QED
        BY <3>1, <3>2, Zenon
    <2>2. x[0] = p
      BY <1>1, <1>4
    <2>3. x[n + m] = u[m]
      BY <1>3, <1>4
    <2> QED
      BY <2>1, <2>2, <2>3
  <1>a. /\ \A i \in 1 .. n : w[i][1] > 0 /\ cells[i] = CellAt(s, w[i])
        /\ \A i, j \in 0 .. n : i < j => Apart(s, w[i], w[j], j - i)
    BY <1>1, <1>2 DEF Course
  <1>b. \A i \in 0 .. n : Apart(s, w[i], q, n - i)
    <2> TAKE i \in 0 .. n
    <2>1. CASE i < n
      BY <1>a, <1>1, <1>2, <2>1
    <2>2. CASE i = n
      BY <1>1, <1>2, <2>2, ApartSelf
    <2> QED
      BY <2>1, <2>2
  <1>8. \A i \in 1 .. n + m : x[i][1] > 0 /\ (cells \o new)[i] = CellAt(s, x[i])
    <2> TAKE i \in 1 .. n + m
    <2>1. CASE i <= n
      BY <1>a, <1>4, <1>6, <2>1
    <2>2. CASE ~(i <= n)
      <3>1. PICK j \in 1 .. m : i = n + j
        BY <1>5, <2>2
      <3> QED
        BY <1>3, <1>4, <1>6, <3>1
    <2> QED
      BY <2>1, <2>2
  <1>9. \A i, j \in 0 .. n + m : i < j => Apart(s, x[i], x[j], j - i)
    <2> SUFFICES ASSUME NEW i \in 0 .. n + m, NEW j \in 0 .. n + m, i < j
                 PROVE  Apart(s, x[i], x[j], j - i)
      OBVIOUS
    <2>1. CASE j <= n
      BY <1>a, <1>4, <2>1
    <2>2. CASE ~(j <= n) /\ i <= n
      <3>1. PICK b \in 1 .. m : j = n + b
        BY <1>5, <2>2
      <3>2. n - i \in Nat /\ (n - i) + b = j - i /\ i \in 0 .. n
        BY <2>2, <3>1
      <3>3. Apart(s, w[i], q, n - i) /\ w[i] \in Places(s)
        BY <1>b, <1>4, <3>2
      <3>4. Apart(s, w[i], u[b], (n - i) + b)
        BY <1>3, <3>2, <3>3
      <3>5. x[i] = w[i] /\ x[j] = u[b]
        BY <1>4, <3>1, <3>2
      <3> QED
        BY <3>2, <3>4, <3>5
    <2>3. CASE ~(i <= n)
      <3>1. PICK a \in 1 .. m : i = n + a
        BY <1>5, <2>3
      <3>2. PICK b \in 1 .. m : j = n + b
        BY <1>5, <2>3
      <3>3. a < b /\ b - a = j - i
        BY <3>1, <3>2
      <3>4. Apart(s, u[a], u[b], b - a)
        BY <1>3, <3>3
      <3> QED
        BY <1>4, <3>1, <3>2, <3>3, <3>4
    <2> QED
      BY <2>1, <2>2, <2>3
  <1>10. Course(s, x, cells \o new)
    BY <1>6, <1>8, <1>9 DEF Course
  <1> QED
    BY <1>3, <1>6, <1>7, <1>10 DEF Leads

\* The head of the next item, or the end, is written.
LEMMA LeadsHead ==
  ASSUME NEW s \in Clients, NEW p \in Places(s), NEW q \in Places(s), NEW cells \in Seq(Cells),
         Leads(s, p, q, cells), q[2] = SizeAt(s, q[1]), q[1] <= Items(s),
         NEW cell \in Cells, cell = CellAt(s, <<q[1] + 1, 0>>)
  PROVE  /\ <<q[1] + 1, 0>> \in Places(s)
         /\ Leads(s, p, <<q[1] + 1, 0>>, Append(cells, cell))
  <1>1. PICK r : r = <<q[1] + 1, 0>>
    OBVIOUS
  <1>2. q[1] \in Nat /\ Items(s) \in Nat /\ q[1] + 1 \in 0 .. Items(s) + 1
    BY PlaceTyped, ItemsTyped
  <1>3. r \in Places(s) /\ r[1] > 0
    BY <1>1, <1>2, PlaceIntro, SizeAtTyped
  <1>4. PICK new : new = <<cell>>
    OBVIOUS
  <1>5. new \in Seq(Cells) /\ Len(new) = 1 /\ new[1] = cell
    BY <1>4
  <1>6. PICK u : u = [j \in 1 .. 1 |-> r]
    OBVIOUS
  <1>7. u \in [1 .. Len(new) -> Places(s)] /\ u[1] = r /\ u[Len(new)] = r
    BY <1>3, <1>5, <1>6
  <1>8. ASSUME NEW j \in 1 .. Len(new), NEW t \in Places(s), NEW d \in Nat, Apart(s, t, q, d)
        PROVE  Apart(s, t, u[j], d + j)
    <2>1. j = 1
      BY <1>5
    <2>2. Apart(s, t, <<q[1] + 1, 0>>, d + 1)
      BY <1>8, ApartHead
    <2> QED
      BY <1>1, <1>7, <2>1, <2>2
  <1>9. Leads(s, p, u[Len(new)], cells \o new)
    <2>1. \A j \in 1 .. Len(new) : u[j][1] > 0 /\ new[j] = CellAt(s, u[j])
      BY <1>1, <1>3, <1>5, <1>7, SMTT(30)
    <2>2. \A i, j \in 1 .. Len(new) : i < j => Apart(s, u[i], u[j], j - i)
      BY <1>5
    <2>3. Len(new) > 0
      BY <1>5
    <2> QED
      BY <1>5, <1>7, <1>8, <2>1, <2>2, <2>3, LeadsFurther, Zenon
  <1>10. cells \o new = Append(cells, cell)
    BY <1>4
  <1> QED
    BY <1>1, <1>3, <1>7, <1>9, <1>10

\* A piece of a file is written.
LEMMA LeadsBytes ==
  ASSUME NEW s \in Clients, NEW p \in Places(s), NEW q \in Places(s), NEW cells \in Seq(Cells),
         Leads(s, p, q, cells), q[1] \in 1 .. Items(s),
         NEW m \in Nat \ {0}, q[2] + m <= SizeAt(s, q[1])
  PROVE  /\ <<q[1], q[2] + m>> \in Places(s)
         /\ Leads(s, p, <<q[1], q[2] + m>>,
                  cells \o [i \in 1 .. m |-> ByteCell(Item(s, q[1]), q[2] + i)])
  <1>0. PICK new : new = [i \in 1 .. m |-> ByteCell(Item(s, q[1]), q[2] + i)]
    OBVIOUS
  <1>1. /\ q[1] \in 0 .. Items(s) + 1 /\ q[2] \in Nat /\ Items(s) \in Nat /\ q[1] \in Nat
        /\ Item(s, q[1]) \in Nodes /\ SizeAt(s, q[1]) \in Nat
    BY PlaceTyped, ItemsTyped, SizeAtTyped
  <1>2. ASSUME NEW i \in 1 .. m PROVE <<q[1], q[2] + i>> \in Places(s)
    <2>1. PICK k \in 0 .. Items(s) + 1, x \in Nat : k = q[1] /\ x = q[2] + i
      BY <1>1
    <2>2. x <= SizeAt(s, k)
      BY <1>1, <2>1
    <2> QED
      BY <2>1, <2>2, PlaceIntro
  <1>3. new \in Seq(Cells) /\ Len(new) = m
        /\ \A i \in 1 .. m : new[i] = ByteCell(Item(s, q[1]), q[2] + i)
    <2>1. \A i \in 1 .. m : ByteCell(Item(s, q[1]), q[2] + i) \in Cells
      BY <1>1, CellTyped
    <2>2. new \in [1 .. m -> Cells]
      BY <1>0, <2>1
    <2> QED
      BY <1>0, <2>2
  <1>4. PICK u : u = [j \in 1 .. m |-> <<q[1], q[2] + j>>]
    OBVIOUS
  <1>5. /\ u \in [1 .. Len(new) -> Places(s)]
        /\ \A j \in 1 .. m : u[j] = <<q[1], q[2] + j>>
    BY <1>2, <1>3, <1>4
  <1>6. ASSUME NEW j \in 1 .. Len(new), NEW t \in Places(s), NEW d \in Nat, Apart(s, t, q, d)
        PROVE  Apart(s, t, u[j], d + j)
    <2>1. Apart(s, t, <<q[1], q[2] + j>>, d + j)
      BY <1>6, <1>3, ApartBytes
    <2> QED
      BY <1>3, <1>5, <2>1
  <1>7. \A j \in 1 .. Len(new) : u[j][1] > 0 /\ new[j] = CellAt(s, u[j])
    BY <1>1, <1>3, <1>5 DEF CellAt
  <1>8. \A i, j \in 1 .. Len(new) : i < j => Apart(s, u[i], u[j], j - i)
    <2> SUFFICES ASSUME NEW i \in 1 .. m, NEW j \in 1 .. m, i < j
                 PROVE  Apart(s, u[i], u[j], j - i)
      BY <1>3
    <2>1. u[i] = <<q[1], q[2] + i>> /\ u[j] = <<q[1], q[2] + j>>
      BY <1>5
    <2>2. q[2] + j = (q[2] + i) + (j - i)
      BY <1>1
    <2> QED
      BY <1>1, <2>1, <2>2 DEF Apart
  <1>9. Leads(s, p, u[Len(new)], cells \o new)
    <2>1. Len(new) > 0
      BY <1>3
    <2> QED
      BY <1>3, <1>5, <1>6, <1>7, <1>8, <2>1, LeadsFurther, Zenon
  <1>10. u[Len(new)] = <<q[1], q[2] + m>> /\ m \in 1 .. m
    BY <1>3, <1>5
  <1> QED
    BY <1>0, <1>2, <1>9, <1>10, Zenon

\* The first cells are taken away.
LEMMA LeadsFrom ==
  ASSUME NEW s \in Clients, NEW cells \in Seq(Cells),
         NEW w \in [0 .. Len(cells) -> Places(s)], Course(s, w, cells),
         NEW k \in 0 .. Len(cells)
  PROVE  /\ w[k] \in Places(s)
         /\ Leads(s, w[k], w[Len(cells)], SubSeq(cells, k + 1, Len(cells)))
  <1>1. PICK n \in Nat : n = Len(cells)
    OBVIOUS
  <1>2. PICK rest : rest = SubSeq(cells, k + 1, Len(cells))
    OBVIOUS
  <1>3. k \in Nat /\ k <= n /\ n - k \in Nat
    BY <1>1
  <1>4. PICK m \in Nat : m = n - k /\ n = m + k
    BY <1>3
  <1>5. Len(rest) = m /\ \A i \in 1 .. m : rest[i] = cells[i + k]
    <2>1. CASE k = n
      BY <1>1, <1>2, <1>4, <2>1
    <2>2. CASE k < n
      <3>1. /\ Len(rest) = Len(cells) - (k + 1) + 1
            /\ \A i \in 1 .. Len(cells) - (k + 1) + 1 : rest[i] = cells[(k + 1) + i - 1]
        BY <1>1, <1>2, <1>3, <2>2, SubSeqProperties
      <3>2. Len(cells) - (k + 1) + 1 = m /\ \A i \in 1 .. m : (k + 1) + i - 1 = i + k
        BY <1>1, <1>3, <1>4
      <3> QED
        BY <3>1, <3>2
    <2> QED
      BY <1>3, <2>1, <2>2
  <1>6. PICK x : x = [i \in 0 .. m |-> w[i + k]]
    OBVIOUS
  <1>7. /\ \A i \in 0 .. m : i + k \in 0 .. n /\ x[i] = w[i + k] /\ w[i + k] \in Places(s)
        /\ x \in [0 .. Len(rest) -> Places(s)] /\ x[0] = w[k] /\ x[m] = w[n]
    <2>1. \A i \in 0 .. m : i + k \in 0 .. n
      BY <1>3, <1>4
    <2>2. \A i \in 0 .. m : w[i + k] \in Places(s)
      BY <1>1, <2>1
    <2>3. x \in [0 .. m -> Places(s)] /\ \A i \in 0 .. m : x[i] = w[i + k]
      BY <1>6, <2>2
    <2>4. 0 \in 0 .. m /\ m \in 0 .. m /\ 0 + k = k /\ m + k = n
      BY <1>3, <1>4
    <2> QED
      BY <1>5, <2>1, <2>2, <2>3, <2>4
  <1>8. \A i \in 1 .. m : x[i][1] > 0 /\ rest[i] = CellAt(s, x[i])
    <2> TAKE i \in 1 .. m
    <2>1. i \in 0 .. m /\ i + k \in 1 .. n
      BY <1>3, <1>4
    <2> QED
      BY <1>1, <1>5, <1>7, <2>1 DEF Course
  <1>9. \A i, j \in 0 .. m : i < j => Apart(s, x[i], x[j], j - i)
    <2> SUFFICES ASSUME NEW i \in 0 .. m, NEW j \in 0 .. m, i < j
                 PROVE  Apart(s, x[i], x[j], j - i)
      OBVIOUS
    <2>1. i + k \in 0 .. n /\ j + k \in 0 .. n /\ i + k < j + k /\ (j + k) - (i + k) = j - i
      BY <1>3, <1>7
    <2>2. Apart(s, w[i + k], w[j + k], (j + k) - (i + k))
      BY <1>1, <2>1 DEF Course
    <2> QED
      BY <1>7, <2>1, <2>2
  <1>10. Course(s, x, rest)
    BY <1>5, <1>8, <1>9 DEF Course
  <1> QED
    BY <1>1, <1>2, <1>5, <1>7, <1>10 DEF Leads

\* The first cell, at the end of an item, is the head of the next one or the end.
LEMMA LeadsTake ==
  ASSUME NEW s \in Clients, NEW p \in Places(s), NEW q \in Places(s), NEW cells \in Seq(Cells),
         Leads(s, p, q, cells), cells # <<>>, p[2] = SizeAt(s, p[1])
  PROVE  /\ <<p[1] + 1, 0>> \in Places(s) /\ cells[1] = CellAt(s, <<p[1] + 1, 0>>)
         /\ Leads(s, <<p[1] + 1, 0>>, q, SubSeq(cells, 2, Len(cells)))
  <1>1. PICK w \in [0 .. Len(cells) -> Places(s)] :
           w[0] = p /\ w[Len(cells)] = q /\ Course(s, w, cells)
    BY DEF Leads
  <1>2. /\ Len(cells) \in Nat
        /\ 1 \in 1 .. Len(cells) /\ 1 \in 0 .. Len(cells) /\ 0 \in 0 .. Len(cells)
    OBVIOUS
  <1>3. PICK r \in Places(s) : r = w[1]
    BY <1>1, <1>2
  <1>4. Apart(s, p, r, 1) /\ cells[1] = CellAt(s, r)
    <2>1. Apart(s, w[0], w[1], 1 - 0)
      BY <1>1, <1>2 DEF Course
    <2> QED
      BY <1>1, <1>2, <1>3, <2>1 DEF Course
  <1>5. /\ p[1] \in Nat /\ p[2] \in Nat /\ r[1] \in Nat /\ r[2] \in Nat
        /\ SizeAt(s, p[1]) \in Nat /\ r = <<r[1], r[2]>> /\ r[2] <= SizeAt(s, r[1])
    BY PlaceTyped, SizeAtTyped
  <1>6. r[1] = p[1] + 1 /\ r[2] = 0
    BY <1>4, <1>5 DEF Apart
  <1>7. Leads(s, w[1], w[Len(cells)], SubSeq(cells, 1 + 1, Len(cells)))
    BY <1>1, <1>2, LeadsFrom
  <1> QED
    BY <1>1, <1>3, <1>4, <1>5, <1>6, <1>7

\* What a buffer takes of what remains.
LEMMA AskedTyped ==
  ASSUME NEW size \in Nat, size > 0
  PROVE  Asked(size) \in Nat \ {0} /\ Asked(size) <= size /\ Piece(size) = Asked(size)
  BY SizeTyped DEF Asked, Piece

\* From one cut the next one is a buffer, or what remains, away.
LEMMA NextCut ==
  ASSUME NEW size \in Nat, NEW x \in Nat, x < size, Cut(x, size)
  PROVE  /\ Cut(x + Asked(size - x), size)
         /\ \A y \in Nat : x < y /\ y <= size /\ Cut(y, size) => x + Asked(size - x) <= y
  <1>1. PICK a \in Nat : x = a * MaxBuff
    BY DEF Cut
  <1>2. PICK m \in Nat : m = MaxBuff /\ m > 0
    BY SizeTyped
  <1>3. CASE size - x >= m
    <2>1. x + Asked(size - x) = x + m
      BY <1>2, <1>3 DEF Asked
    <2>2. x + m = (a + 1) * m /\ a + 1 \in Nat
      BY <1>1, <1>2
    <2>3. Cut(x + m, size)
      BY <1>2, <2>2 DEF Cut
    <2>4. ASSUME NEW y \in Nat, x < y, y <= size, Cut(y, size) PROVE x + m <= y
      <3>1. CASE y = size
        BY <1>2, <1>3, <3>1
      <3>2. CASE \E b \in Nat : y = b * MaxBuff
        <4>1. PICK b \in Nat : y = b * m
          BY <1>2, <3>2
        <4>2. b > a
          <5>1. SUFFICES ASSUME b <= a PROVE FALSE
            OBVIOUS
          <5>2. PICK e \in Nat : a = b + e
            <6>1. a - b \in Nat /\ a = b + (a - b)
              BY <5>1
            <6> QED
              BY <6>1
          <5>3. a * m = b * m + e * m /\ e * m >= 0
            BY <5>2
          <5> QED
            BY <1>1, <1>2, <2>4, <4>1, <5>3
        <4>3. PICK e \in Nat : b = (a + 1) + e
          <5>1. b - (a + 1) \in Nat /\ b = (a + 1) + (b - (a + 1))
            BY <4>2
          <5> QED
            BY <5>1
        <4>4. b * m = (a + 1) * m + e * m /\ e * m >= 0
          BY <4>3
        <4>5. (a + 1) * m \in Nat /\ e * m \in Nat
          OBVIOUS
        <4> QED
          BY <2>2, <4>1, <4>4, <4>5
      <3> QED
        BY <2>4, <3>1, <3>2 DEF Cut
    <2> QED
      BY <2>1, <2>3, <2>4
  <1>4. CASE ~(size - x >= m)
    <2>1. x + Asked(size - x) = size
      BY <1>2, <1>4 DEF Asked
    <2>2. ASSUME NEW y \in Nat, x < y, y <= size, Cut(y, size) PROVE size <= y
      <3>1. CASE y = size
        BY <3>1
      <3>2. CASE \E b \in Nat : y = b * MaxBuff
        <4>1. PICK b \in Nat : y = b * m
          BY <1>2, <3>2
        <4>2. b > a
          <5>1. SUFFICES ASSUME b <= a PROVE FALSE
            OBVIOUS
          <5>2. PICK e \in Nat : a = b + e
            <6>1. a - b \in Nat /\ a = b + (a - b)
              BY <5>1
            <6> QED
              BY <6>1
          <5>3. a * m = b * m + e * m /\ e * m >= 0
            BY <5>2
          <5> QED
            BY <1>1, <1>2, <2>2, <4>1, <5>3
        <4>3. PICK e \in Nat : b = (a + 1) + e
          <5>1. b - (a + 1) \in Nat /\ b = (a + 1) + (b - (a + 1))
            BY <4>2
          <5> QED
            BY <5>1
        <4>4. b * m = a * m + m + e * m /\ e * m \in Nat
          BY <4>3
        <4> QED
          BY <1>1, <1>2, <1>4, <2>2, <4>1, <4>4
      <3> QED
        BY <2>2, <3>1, <3>2 DEF Cut
    <2> QED
      BY <2>1, <2>2 DEF Cut
  <1> QED
    BY <1>3, <1>4

\* Inside a file the FIFO holds all that a read asks for, and these bytes.
LEMMA LeadsRead ==
  ASSUME NEW s \in Clients, NEW p \in Places(s), NEW q \in Places(s), NEW cells \in Seq(Cells),
         Leads(s, p, q, cells), cells # <<>>,
         p[1] \in 1 .. Items(s), p[2] < SizeAt(s, p[1]), Cut(p[2], SizeAt(s, p[1])),
         q[1] \in 1 .. Items(s) => Cut(q[2], SizeAt(s, q[1])),
         NEW m \in Nat, m = Asked(SizeAt(s, p[1]) - p[2])
  PROVE  /\ m <= Len(cells) /\ \A i \in 1 .. m : cells[i] = ByteCell(Item(s, p[1]), p[2] + i)
         /\ <<p[1], p[2] + m>> \in Places(s)
         /\ Leads(s, <<p[1], p[2] + m>>, q, SubSeq(cells, m + 1, Len(cells)))
  <1>1. PICK w \in [0 .. Len(cells) -> Places(s)] :
           w[0] = p /\ w[Len(cells)] = q /\ Course(s, w, cells)
    BY DEF Leads
  <1>2. PICK n \in Nat : n = Len(cells) /\ n > 0
    OBVIOUS
  <1>3. /\ p[1] \in Nat /\ p[2] \in Nat /\ p[1] \in 0 .. Items(s) + 1 /\ SizeAt(s, p[1]) \in Nat
        /\ q[1] \in Nat /\ q[2] \in Nat /\ q[2] <= SizeAt(s, q[1]) /\ Items(s) \in Nat
    BY PlaceTyped, SizeAtTyped, ItemsTyped
  <1>4. PICK size \in Nat : size = SizeAt(s, p[1])
    BY <1>3
  <1>5. m > 0 /\ m <= size - p[2]
    <2>1. PICK j : j = size - p[2]
      OBVIOUS
    <2>2. j \in Nat \ {0} /\ m = Asked(j)
      BY <1>3, <1>4, <2>1
    <2> QED
      BY <2>1, <2>2, AskedTyped
  <1>6. Apart(s, p, q, n)
    <2>1. Apart(s, w[0], w[n], n - 0)
      BY <1>1, <1>2 DEF Course
    <2> QED
      BY <1>1, <1>2, <2>1
  <1>7. m <= n
    <2>1. CASE p[1] = q[1]
      <3>1. q[2] = p[2] + n
        BY <1>6, <2>1 DEF Apart
      <3>2. p[2] + m <= q[2]
        <4>1. p[2] < q[2] /\ q[2] <= size /\ Cut(q[2], size)
          BY <1>2, <1>3, <1>4, <2>1, <3>1
        <4>2. p[2] < size /\ Cut(p[2], size) /\ m = Asked(size - p[2])
          BY <1>4
        <4> QED
          BY <1>3, <4>1, <4>2, NextCut
      <3> QED
        BY <1>3, <3>1, <3>2
    <2>2. CASE p[1] < q[1]
      <3>1. n >= size - p[2] + q[1] - p[1] + q[2]
        BY <1>4, <1>6, <2>2 DEF Apart
      <3>2. PICK a \in Nat, b \in Nat, x \in Nat, y \in Nat :
               a = p[1] /\ b = q[1] /\ x = p[2] /\ y = q[2]
        BY <1>3
      <3>3. a < b /\ n >= size - x + b - a + y /\ m <= size - x
        BY <1>5, <2>2, <3>1, <3>2
      <3> QED
        BY <3>3
    <2> QED
      BY <1>3, <1>6, <2>1, <2>2 DEF Apart
  <1>8. ASSUME NEW i \in 1 .. m PROVE w[i] = <<p[1], p[2] + i>>
    <2>1. i \in 0 .. n /\ 0 \in 0 .. n /\ 0 < i /\ i - 0 = i
      BY <1>7
    <2>2. Apart(s, w[0], w[i], i - 0)
      BY <1>1, <1>2, <2>1 DEF Course
    <2>3. PICK r \in Places(s) : r = w[i]
      BY <1>1, <1>2, <2>1
    <2>4. Apart(s, p, r, i)
      BY <1>1, <2>1, <2>2, <2>3
    <2>5. r[1] \in Nat /\ r[2] \in Nat /\ r = <<r[1], r[2]>>
      BY PlaceTyped
    <2>6. ~(p[1] < r[1])
      <3>1. SUFFICES ASSUME p[1] < r[1] PROVE FALSE
        OBVIOUS
      <3>2. i >= size - p[2] + r[1] - p[1] + r[2]
        BY <1>4, <2>4, <3>1 DEF Apart
      <3>3. PICK a \in Nat, b \in Nat, x \in Nat, y \in Nat :
               a = p[1] /\ b = r[1] /\ x = p[2] /\ y = r[2]
        BY <1>3, <2>5
      <3>4. a < b /\ i >= size - x + b - a + y /\ m <= size - x /\ i <= m
        BY <1>5, <3>1, <3>2, <3>3
      <3> QED
        BY <3>4
    <2>7. r[1] = p[1] /\ r[2] = p[2] + i
      BY <1>3, <2>4, <2>5, <2>6 DEF Apart
    <2> QED
      BY <2>3, <2>5, <2>7
  <1>9. ASSUME NEW i \in 1 .. m PROVE cells[i] = ByteCell(Item(s, p[1]), p[2] + i)
    <2>1. i \in 1 .. Len(cells)
      BY <1>2, <1>7
    <2>2. cells[i] = CellAt(s, <<p[1], p[2] + i>>)
      BY <1>1, <1>8, <2>1 DEF Course
    <2> QED
      BY <1>3, <2>2 DEF CellAt
  <1>10. m \in 1 .. m /\ m \in 0 .. Len(cells)
    BY <1>2, <1>5, <1>7
  <1>11. /\ w[m] \in Places(s)
         /\ Leads(s, w[m], w[Len(cells)], SubSeq(cells, m + 1, Len(cells)))
    BY <1>1, <1>10, LeadsFrom
  <1> QED
    BY <1>1, <1>2, <1>7, <1>8, <1>9, <1>10, <1>11

--------------------------------------------------------------------------------
(* What is stored. *)

\* The beginning of a file: nothing, all of it, and a piece more.
LEMMA BegunFacts ==
  ASSUME NEW m \in Nodes
  PROVE  /\ Begun(m, 0) = <<>> /\ Content(m) = Begun(m, SizeOf(m))
         /\ \A k \in Nat : Begun(m, k) \in Seq(Cells) /\ Len(Begun(m, k)) = k
  <1>1. ASSUME NEW k \in Nat PROVE Begun(m, k) \in Seq(Cells) /\ Len(Begun(m, k)) = k
    <2>1. Begun(m, k) \in [1 .. k -> Cells]
      BY CellTyped DEF Begun
    <2> QED
      BY <2>1 DEF Begun
  <1>2. Begun(m, 0) = <<>>
    BY <1>1
  <1> QED
    BY <1>1, <1>2 DEF Content, Begun

\* Appending the next j bytes of a file to its first k gives its first k + j.
LEMMA BegunMore ==
  ASSUME NEW m \in Nodes, NEW k \in Nat, NEW j \in Nat, NEW more \in Seq(Cells), Len(more) = j,
         \A i \in 1 .. j : more[i] = ByteCell(m, k + i)
  PROVE  Begun(m, k) \o more = Begun(m, k + j)
  <1>1. PICK b : b = Begun(m, k)
    OBVIOUS
  <1>2. b \in Seq(Cells) /\ Len(b) = k /\ \A i \in 1 .. k : b[i] = ByteCell(m, i)
    BY <1>1, BegunFacts DEF Begun
  <1>3. PICK x : x = Begun(m, k + j)
    OBVIOUS
  <1>4. x \in Seq(Cells) /\ Len(x) = k + j /\ \A i \in 1 .. k + j : x[i] = ByteCell(m, i)
    BY <1>3, BegunFacts DEF Begun
  <1>5. /\ b \o more \in Seq(Cells) /\ Len(b \o more) = k + j
        /\ \A i \in 1 .. k + j : (b \o more)[i] = IF i <= k THEN b[i] ELSE more[i - k]
    BY <1>2, ConcatProperties
  <1>6. ASSUME NEW i \in 1 .. k + j PROVE (b \o more)[i] = x[i]
    <2>1. CASE i <= k
      BY <1>2, <1>4, <1>5, <2>1
    <2>2. CASE ~(i <= k)
      <3>1. i - k \in 1 .. j /\ k + (i - k) = i
        BY <2>2
      <3>2. more[i - k] = ByteCell(m, k + (i - k))
        BY <3>1
      <3> QED
        BY <1>4, <1>5, <2>2, <3>1, <3>2
    <2> QED
      BY <2>1, <2>2
  <1>7. b \o more = x
    BY <1>4, <1>5, <1>6, SeqEqual
  <1> QED
    BY <1>1, <1>3, <1>7

\* A beginning is a prefix of the file.
LEMMA BegunPrefix ==
  ASSUME NEW m \in Nodes, NEW k \in 0 .. SizeOf(m)
  PROVE  IsPrefix(Begun(m, k), Content(m))
  <1>1. SizeOf(m) \in Nat
    BY SizeTyped
  <1> QED
    BY <1>1, BegunFacts DEF IsPrefix, Begun, Content

\* What is made before an item, and with it.
LEMMA PathsFacts ==
  ASSUME NEW s \in Clients
  PROVE  /\ PathsBefore(s, 0) = {} /\ PathsBefore(s, 1) = {}
         /\ \A k \in 1 .. Items(s) : /\ PathsBefore(s, k + 1) = PathsBefore(s, k) \cup Path(Item(s, k))
                                     /\ Item(s, k) \in PathsBefore(s, k + 1)
         /\ PathsBefore(s, Items(s) + 2) = Below[Root[s]] \ {Root[s]}
         /\ PathsBefore(s, Items(s) + 1) = PathsBefore(s, Items(s) + 2)
  <1>0. Items(s) \in Nat
    BY ItemsTyped
  <1>1. PathsBefore(s, 0) = {} /\ PathsBefore(s, 1) = {}
    BY <1>0 DEF PathsBefore
  <1>2. ASSUME NEW k \in 1 .. Items(s)
        PROVE  /\ PathsBefore(s, k + 1) = PathsBefore(s, k) \cup Path(Item(s, k))
               /\ Item(s, k) \in PathsBefore(s, k + 1)
    <2>1. {i \in 1 .. Items(s) : i < k + 1} = {i \in 1 .. Items(s) : i < k} \cup {k}
      BY <1>0
    <2>2. PathsBefore(s, k + 1) = PathsBefore(s, k) \cup Path(Item(s, k))
      BY <2>1, Zenon DEF PathsBefore
    <2> QED
      BY <2>2, ItemsTyped
  <1>3. /\ {i \in 1 .. Items(s) : i < Items(s) + 2} = 1 .. Items(s)
        /\ {i \in 1 .. Items(s) : i < Items(s) + 1} = 1 .. Items(s)
    BY <1>0
  <1> QED
    BY <1>1, <1>2, <1>3, AllItems, Zenon DEF PathsBefore

--------------------------------------------------------------------------------
(* Types of what flows. *)

\* At the start nothing has been sent or stored.
LEMMA FlowTypesInit ==
  ASSUME Init
  PROVE  SendTypes /\ ReceiveTypes
  <1>1. cur \in [Clients -> Nodes]
    BY TwoClients, SizeTyped DEF Init
  <1>2. data \in [Clients -> [Nodes -> Seq(Cells)]] /\ pipe \in [Clients -> Seq(Cells)]
    BY DEF Init
  <1>3. \A s \in Clients : Items(s) \in Nat
    BY ItemsTyped
  <1> QED
    BY <1>1, <1>2, <1>3 DEF Init, SendTypes, ReceiveTypes

\* The piece that is written.
LEMMA PieceTyped ==
  ASSUME SendTypes, NEW a \in Clients, snd[a] = "data", off[a] < SizeOf(Sending(a)),
         NEW k, k = Piece(SizeOf(Sending(a)) - off[a])
  PROVE  /\ Sending(a) = Item(a, pos[a]) /\ Sending(a) \in Nodes
         /\ SizeOf(Sending(a)) = SizeAt(a, pos[a]) /\ SizeOf(Sending(a)) \in Nat
         /\ k \in Nat \ {0} /\ off[a] + k <= SizeOf(Sending(a))
         /\ k = Asked(SizeOf(Sending(a)) - off[a])
         /\ [i \in 1 .. k |-> ByteCell(Sending(a), off[a] + i)] \in Seq(Cells)
  <1>1. Sending(a) = Item(a, pos[a]) /\ pos[a] \in 1 .. Items(a)
    BY ItemsTyped DEF Sending, Item, SendTypes
  <1>2. /\ Sending(a) \in Nodes /\ SizeOf(Sending(a)) = SizeAt(a, pos[a])
        /\ SizeOf(Sending(a)) \in Nat
    BY <1>1, ItemsTyped, SizeAtTyped, SizeTyped
  <1>3. off[a] \in Nat
    BY DEF SendTypes
  <1>4. PICK rest \in Nat : rest = SizeOf(Sending(a)) - off[a] /\ rest > 0
    BY <1>2, <1>3
  <1>5. k \in Nat \ {0} /\ k <= rest /\ k = Asked(rest)
    BY <1>4, AskedTyped
  <1>6. [i \in 1 .. k |-> ByteCell(Sending(a), off[a] + i)] \in [1 .. k -> Cells]
    BY <1>2, <1>3, CellTyped
  <1>7. [i \in 1 .. k |-> ByteCell(Sending(a), off[a] + i)] \in Seq(Cells)
    BY <1>5, <1>6
  <1> QED
    BY <1>1, <1>2, <1>3, <1>4, <1>5, <1>7

\* Steps of the sender.
LEMMA SendStepTypes ==
  ASSUME SyncTypes, SendTypes, NEW a \in Clients, SendStep(a)
  PROVE  SendTypes'
  <1> USE DEF Set, SendEnds
  <1>0. /\ pos[a] \in Nat /\ off[a] \in Nat /\ pipe[a] \in Seq(Cells) /\ Items(a) \in Nat
        /\ snd \in [Clients -> SendPlaces]
    BY ItemsTyped DEF SendTypes, SyncTypes
  <1>a. ASSUME pos' = pos, off' = off, pipe' \in [Clients -> Seq(Cells)],
               NEW how, how # "data", snd' = [snd EXCEPT ![a] = how]
        PROVE  SendTypes'
    BY <1>0, <1>a DEF SendTypes
  <1>1. CASE SendBegin(a)
    BY <1>1, <1>a DEF SendBegin, SendTypes
  <1>2. CASE SendHead(a)
    <2>1. CASE Broken(a) /\ SendEnds(a, "err") /\ pipe' = pipe
      BY <1>a, <2>1 DEF SendTypes
    <2>2. CASE /\ pipe' = Set(pipe, a, Append(pipe[a], HeadCell(Outgoing[a][pos[a] + 1].node)))
               /\ pos' = Set(pos, a, pos[a] + 1) /\ off' = Set(off, a, 0)
               /\ snd' = Set(snd, a, "data")
      <3>1. pos[a] + 1 \in 1 .. Items(a)
        BY <1>0, <1>2 DEF SendHead, Items
      <3>2. HeadCell(Outgoing[a][pos[a] + 1].node) \in Cells
        BY <3>1, ItemsTyped, CellTyped DEF Item
      <3>3. pipe' \in [Clients -> Seq(Cells)]
        BY <1>0, <2>2, <3>2 DEF SendTypes
      <3>4. pos' \in [Clients -> Nat] /\ off' \in [Clients -> Nat]
        BY <1>0, <2>2 DEF SendTypes
      <3>5. ASSUME NEW s \in Clients
            PROVE  /\ pos'[s] <= Items(s)
                   /\ snd'[s] = "data" => pos'[s] > 0 /\ off'[s] <= SizeAt(s, pos'[s])
        <4>1. CASE s = a
          <5>1. pos'[a] = pos[a] + 1 /\ off'[a] = 0 /\ SizeAt(a, pos'[a]) \in Nat
            BY <2>2, SizeAtTyped DEF SendTypes
          <5> QED
            BY <1>0, <3>1, <4>1, <5>1
        <4>2. CASE s # a
          <5>1. pos'[s] = pos[s] /\ off'[s] = off[s] /\ snd'[s] = snd[s]
            BY <1>0, <2>2, <4>2 DEF SendTypes
          <5> QED
            BY <5>1 DEF SendTypes
        <4> QED
          BY <4>1, <4>2
      <3> QED
        BY <3>3, <3>4, <3>5 DEF SendTypes
    <2> QED
      BY <1>2, <2>1, <2>2 DEF SendHead
  <1>3. CASE SendData(a)
    <2>0. PICK k : k = Piece(SizeOf(Sending(a)) - off[a])
      OBVIOUS
    <2>1. CASE SendEnds(a, "err") /\ pipe' = pipe
      BY <1>a, <2>1 DEF SendTypes
    <2>2. CASE /\ pipe' = Set(pipe, a, pipe[a] \o
                              [i \in 1 .. k |-> ByteCell(Sending(a), off[a] + i)])
               /\ off' = Set(off, a, off[a] + k) /\ snd' = snd /\ pos' = pos
      <3>1. /\ SizeOf(Sending(a)) = SizeAt(a, pos[a])
            /\ k \in Nat \ {0} /\ off[a] + k <= SizeOf(Sending(a))
            /\ [i \in 1 .. k |-> ByteCell(Sending(a), off[a] + i)] \in Seq(Cells)
        BY <1>3, <2>0, PieceTyped DEF SendData
      <3>2. pipe[a] \o [i \in 1 .. k |-> ByteCell(Sending(a), off[a] + i)] \in Seq(Cells)
        BY <1>0, <3>1
      <3>3. pipe' \in [Clients -> Seq(Cells)] /\ off' \in [Clients -> Nat]
        BY <1>0, <2>2, <3>1, <3>2 DEF SendTypes
      <3>4. ASSUME NEW s \in Clients, snd[s] = "data" PROVE off'[s] <= SizeAt(s, pos[s])
        BY <1>0, <2>2, <3>1, <3>4 DEF SendTypes
      <3> QED
        BY <2>2, <3>3, <3>4 DEF SendTypes
    <2> QED
      BY <1>3, <2>0, <2>1, <2>2 DEF SendData
  <1>4. CASE SendNext(a)
    BY <1>4, <1>a DEF SendNext, SendTypes
  <1>5. CASE SendEnd(a)
    <2>1. Root[a] \in Nodes /\ EndCell(Root[a]) \in Cells
      BY SizeTyped, CellTyped
    <2>2. pipe' \in [Clients -> Seq(Cells)]
      <3>1. Append(pipe[a], EndCell(Root[a])) \in Seq(Cells)
        BY <1>0, <2>1
      <3>2. pipe' = pipe \/ pipe' = [pipe EXCEPT ![a] = Append(pipe[a], EndCell(Root[a]))]
        BY <1>5 DEF SendEnd
      <3> QED
        BY <3>1, <3>2 DEF SendTypes
    <2> QED
      BY <1>5, <1>a, <2>2 DEF SendEnd
  <1> QED
    BY <1>1, <1>2, <1>3, <1>4, <1>5 DEF SendStep

\* Other steps leave the sender where it is, or end it.
LEMMA SendTypesElse ==
  ASSUME SyncTypes, SendTypes, pos' = pos, off' = off, pipe' \in [Clients -> Seq(Cells)],
         \A s \in Clients : snd'[s] = snd[s] \/ snd'[s] # "data"
  PROVE  SendTypes'
  BY DEF SendTypes

\* The first cells of a FIFO are taken.
LEMMA ConsumeTyped ==
  ASSUME SendTypes, NEW c \in Clients, NEW n \in 0 .. Len(From(c)), Consume(c, n)
  PROVE  /\ pipe' \in [Clients -> Seq(Cells)]
         /\ pipe'[Other(c)] = SubSeq(pipe[Other(c)], n + 1, Len(pipe[Other(c)]))
         /\ \A s \in Clients \ {Other(c)} : pipe'[s] = pipe[s]
  <1>1. Other(c) \in Clients /\ pipe[Other(c)] \in Seq(Cells)
    BY TwoClients DEF SendTypes
  <1>2. SubSeq(pipe[Other(c)], n + 1, Len(pipe[Other(c)])) \in Seq(Cells)
    BY <1>1 DEF From
  <1> QED
    BY <1>1, <1>2 DEF Consume, Set, From, SendTypes

\* One file of a mirror is written.
LEMMA DataPut ==
  ASSUME ReceiveTypes, NEW c \in Clients, NEW m \in Nodes, NEW x \in Seq(Cells),
         data' = [data EXCEPT ![c][m] = x]
  PROVE  /\ data' \in [Clients -> [Nodes -> Seq(Cells)]] /\ data'[c][m] = x
         /\ \A n \in Nodes \ {m} : data'[c][n] = data[c][n]
         /\ \A d \in Clients \ {c} : data'[d] = data[d]
  <1>1. data \in [Clients -> [Nodes -> Seq(Cells)]] /\ data[c] \in [Nodes -> Seq(Cells)]
    BY DEF ReceiveTypes
  <1>2. PICK y : y = [data[c] EXCEPT ![m] = x]
    OBVIOUS
  <1>3. /\ y \in [Nodes -> Seq(Cells)] /\ y[m] = x
        /\ \A n \in Nodes \ {m} : y[n] = data[c][n]
    BY <1>1, <1>2
  <1>4. data' = [data EXCEPT ![c] = y]
    BY <1>1, <1>2
  <1>5. data' \in [Clients -> [Nodes -> Seq(Cells)]]
    BY <1>1, <1>3, <1>4
  <1>6. data'[c] = y /\ \A d \in Clients \ {c} : data'[d] = data[d]
    BY <1>1, <1>4
  <1> QED
    BY <1>3, <1>5, <1>6

\* What ReadData takes, and what it stores.
Taken(c) == IF Asked(left[c]) <= Len(From(c)) THEN Asked(left[c]) ELSE Len(From(c))

Buffer(c) == SubSeq(From(c), 1, Taken(c)) \o [i \in 1 .. Asked(left[c]) - Taken(c) |-> Junk(cur[c])]

\* What one read leaves in the buffer: the bytes asked for when that many are
\* in the FIFO, and otherwise a tail that no byte was read into.
LEMMA BufferTyped ==
  ASSUME SendTypes, ReceiveTypes, NEW c \in Clients, left[c] > 0
  PROVE  /\ Taken(c) \in 0 .. Len(From(c)) /\ Buffer(c) \in Seq(Cells)
         /\ Asked(left[c]) \in Nat \ {0} /\ Asked(left[c]) <= left[c]
         /\ Asked(left[c]) <= Len(From(c)) =>
               /\ Taken(c) = Asked(left[c]) /\ Len(Buffer(c)) = Asked(left[c])
               /\ \A i \in 1 .. Asked(left[c]) : Buffer(c)[i] = From(c)[i]
  <1>1. From(c) \in Seq(Cells) /\ left[c] \in Nat /\ cur[c] \in Nodes
    BY TwoClients DEF From, SendTypes, ReceiveTypes
  <1>2. PICK want \in Nat : want = Asked(left[c]) /\ want > 0 /\ want <= left[c]
    BY <1>1, AskedTyped
  <1>3. PICK f \in Seq(Cells) : f = From(c)
    BY <1>1
  <1>4. PICK n \in Nat : n = Taken(c)
    BY <1>2, <1>3 DEF Taken
  <1>5. n <= Len(f) /\ n <= want /\ (want <= Len(f) => n = want)
    BY <1>2, <1>3, <1>4 DEF Taken
  <1>6. PICK g : g = SubSeq(f, 1, n)
    OBVIOUS
  <1>7. g \in Seq(Cells) /\ Len(g) = n /\ \A i \in 1 .. n : g[i] = f[i]
    BY <1>5, <1>6
  <1>8. PICK j : j = [i \in 1 .. want - n |-> Junk(cur[c])]
    OBVIOUS
  <1>9. j \in Seq(Cells) /\ Len(j) = want - n
    <2>1. want - n \in Nat /\ j \in [1 .. want - n -> Cells]
      BY <1>1, <1>5, <1>8, CellTyped
    <2> QED
      BY <1>8, <2>1
  <1>10. Buffer(c) = g \o j
    BY <1>2, <1>3, <1>4, <1>6, <1>8 DEF Buffer
  <1>11. ASSUME want <= Len(f)
         PROVE  Len(g \o j) = want /\ \A i \in 1 .. want : (g \o j)[i] = f[i]
    <2>1. n = want /\ Len(j) = 0
      BY <1>5, <1>9, <1>11
    <2> QED
      BY <1>7, <1>9, <2>1
  <1>12. g \o j \in Seq(Cells)
    BY <1>7, <1>9
  <1> QED
    BY <1>2, <1>3, <1>4, <1>5, <1>10, <1>11, <1>12

\* ReadData in these terms.
LEMMA ReadDataTakes ==
  ASSUME NEW c \in Clients, ReadData(c)
  PROVE  /\ rcv[c] = "data" /\ left[c] > 0 /\ (Readable(c) \/ AtEOF(c))
         /\ Consume(c, Taken(c))
         /\ data' = IF cur[c] \in mirror[c]
                    THEN [data EXCEPT ![c][cur[c]] = @ \o Buffer(c)] ELSE data
         /\ left' = Set(left, c, IF Asked(left[c]) <= left[c] THEN left[c] - Asked(left[c]) ELSE 0)
         /\ UNCHANGED <<syncVars, sndVars, rcv, cur, made, mirror, told, faults>>
  BY DEF ReadData, Taken, Buffer

\* Steps of the receiver.
LEMMA ReceiveStepTypes ==
  ASSUME SyncTypes, SendTypes, ReceiveTypes, NEW c \in Clients, ReceiveStep(c) \/ StaleFails(c)
  PROVE  SendTypes' /\ ReceiveTypes'
  <1> USE DEF Set, ReceiveEnds
  <1>0. left[c] \in Nat /\ cur[c] \in Nodes /\ Other(c) \in Clients /\ From(c) \in Seq(Cells)
    BY TwoClients DEF ReceiveTypes, SendTypes, From
  <1>a. ASSUME pos' = pos, off' = off, snd' = snd, pipe' = pipe, left' = left, cur' = cur,
               data' = data
        PROVE  SendTypes' /\ ReceiveTypes'
    BY <1>a DEF SendTypes, ReceiveTypes
  <1>b. ASSUME TakeHead(c, "got") \/ TakeHead(c, "file") \/ TakeEnd(c),
               pos' = pos, off' = off, snd' = snd, data' = data
        PROVE  SendTypes' /\ ReceiveTypes'
    <2>1. 1 \in 0 .. Len(From(c)) /\ Head(From(c)) \in Cells /\ Consume(c, 1)
      BY <1>0, <1>b DEF TakeHead, TakeEnd, Readable, From
    <2>2. pipe' \in [Clients -> Seq(Cells)]
      BY <2>1, ConsumeTyped
    <2>3. Head(From(c)).node \in Nodes /\ Head(From(c)).at \in Nat
      BY <2>1 DEF Cells
    <2>4. left' \in [Clients -> Nat] /\ cur' \in [Clients -> Nodes]
      BY <1>b, <2>3 DEF TakeHead, TakeEnd, ReceiveTypes
    <2> QED
      BY <1>b, <2>2, <2>4 DEF SendTypes, ReceiveTypes
  <1>1. CASE ReceiveBegin(c) \/ Select(c) \/ Got(c) \/ MakePath(c) \/ ReadDone(c) \/ StaleFails(c)
    BY <1>1, <1>a DEF ReceiveBegin, Select, Got, MakePath, ReadDone, StaleFails, sndVars, dirVars
  <1>2. CASE ReadFirst(c) \/ ReadAgain(c)
    BY <1>2, <1>a, <1>b DEF ReadFirst, ReadAgain, sndVars, dirVars
  <1>3. CASE ReadData(c)
    <2>1. /\ Taken(c) \in 0 .. Len(From(c)) /\ Buffer(c) \in Seq(Cells)
          /\ Asked(left[c]) \in Nat \ {0} /\ Asked(left[c]) <= left[c]
      BY <1>3, ReadDataTakes, BufferTyped
    <2>2. pipe' \in [Clients -> Seq(Cells)]
      BY <1>3, <2>1, ReadDataTakes, ConsumeTyped
    <2>3. left' \in [Clients -> Nat]
      <3>1. left[c] - Asked(left[c]) \in Nat
        BY <1>0, <2>1
      <3>2. left' = [left EXCEPT ![c] = left[c] - Asked(left[c])]
        BY <1>3, <2>1, ReadDataTakes
      <3> QED
        BY <3>1, <3>2 DEF ReceiveTypes
    <2>4. data' \in [Clients -> [Nodes -> Seq(Cells)]]
      <3>1. data[c][cur[c]] \o Buffer(c) \in Seq(Cells)
        BY <1>0, <2>1 DEF ReceiveTypes
      <3>2. data' = data \/ data' = [data EXCEPT ![c][cur[c]] = data[c][cur[c]] \o Buffer(c)]
        BY <1>3, ReadDataTakes
      <3> QED
        BY <1>0, <3>1, <3>2, DataPut DEF ReceiveTypes
    <2>5. pos' = pos /\ off' = off /\ snd' = snd /\ cur' = cur
      BY <1>3, ReadDataTakes DEF sndVars
    <2> QED
      BY <2>2, <2>3, <2>4, <2>5 DEF SendTypes, ReceiveTypes
  <1>4. CASE Stale(c)
    <2>1. pos' = pos /\ off' = off /\ snd' = snd /\ cur' = cur /\ left' = left /\ pipe' = pipe
      BY <1>4 DEF Stale, sndVars
    <2>2. PICK j : j = [i \in 1 .. SizeOf(cur[c]) |-> Junk(cur[c])]
      OBVIOUS
    <2>3. j \in Seq(Cells)
      <3>1. SizeOf(cur[c]) \in Nat /\ j \in [1 .. SizeOf(cur[c]) -> Cells]
        BY <1>0, <2>2, SizeTyped, CellTyped
      <3> QED
        BY <3>1
    <2>4. data' = data \/ data' = [data EXCEPT ![c][cur[c]] = j]
      BY <1>4, <2>2 DEF Stale, WriteJunk
    <2>5. data' \in [Clients -> [Nodes -> Seq(Cells)]]
      BY <1>0, <2>3, <2>4, DataPut DEF ReceiveTypes
    <2> QED
      BY <2>1, <2>5 DEF SendTypes, ReceiveTypes
  <1> QED
    BY <1>1, <1>2, <1>3, <1>4 DEF ReceiveStep

\* All other steps.
LEMMA ElseTypes ==
  ASSUME SyncTypes, SendTypes, ReceiveTypes, NEW c \in Clients,
         SyncStep(c) \/ OpenFifo(c) \/ SigInt(c) \/ ClientQuits(c) \/ Dies(c)
  PROVE  SendTypes' /\ ReceiveTypes'
  <1> USE DEF Set, sndVars, rcvVars, dirVars
  <1>1. /\ pos' = pos /\ off' = off /\ pipe' = pipe /\ cur' = cur /\ left' = left
        /\ data' = data \/ data' = [data EXCEPT ![c] = [n \in Nodes |-> <<>>]]
        /\ \/ snd' = snd
           \/ \E how \in {"open", "opened", "err", "killed"} : snd' = [snd EXCEPT ![c] = how]
    <2>1. CASE SyncStep(c)
      BY <2>1 DEF SyncStep, Start, Fork, Flagged, ChildFailed, ChildSucceeded, Waited,
                  RemoveContents, RemoveTop, Starts
    <2>2. CASE OpenFifo(c) \/ SigInt(c) \/ ClientQuits(c) \/ Dies(c)
      BY <2>2 DEF OpenFifo, SigInt, ClientQuits, Dies, SendEnds, ReceiveEnds
    <2> QED
      BY <2>1, <2>2
  <1>2. data' \in [Clients -> [Nodes -> Seq(Cells)]]
    <2>1. [n \in Nodes |-> <<>>] \in [Nodes -> Seq(Cells)]
      OBVIOUS
    <2> QED
      BY <1>1, <2>1 DEF ReceiveTypes
  <1>3. \A s \in Clients : snd'[s] = snd[s] \/ snd'[s] # "data"
    BY <1>1 DEF SyncTypes
  <1> QED
    BY <1>1, <1>2, <1>3, SendTypesElse DEF SendTypes, ReceiveTypes

--------------------------------------------------------------------------------
(* The flow of files. *)

\* How Flow is shown of the next state.
LEMMA FlowMoves ==
  ASSUME NEW c \in Clients, NEW s \in Clients, NEW p \in Places(s), NEW q \in Places(s),
         rcv'[c] # "stale", Honest(c)', Leads(s, p, q, pipe'[s]),
         ReceiverAt(c, s, p)', SenderAt(s, q)', Stored(c, s, p)'
  PROVE  Flow(c, s)'
  <1>1. Leads(s, p, q, pipe[s])'
    BY DEF Leads, Course
  <1> QED
    BY <1>1 DEF Flow

\* What the receiver's side consists of does not change.
SameReceiver(c) ==
    /\ rcv'[c] = rcv[c] /\ cur'[c] = cur[c] /\ left'[c] = left[c] /\ made'[c] = made[c]
    /\ mirror'[c] = mirror[c] /\ data'[c] = data[c]
    /\ Removed(c) => Removed(c)'

\* What is said of the receiver's side depends on nothing else.
LEMMA ReceiverStays ==
  ASSUME NEW c \in Clients, NEW s \in Clients, NEW p \in Places(s), SameReceiver(c)
  PROVE  /\ Honest(c) => Honest(c)'
         /\ ReceiverAt(c, s, p) => ReceiverAt(c, s, p)'
         /\ Stored(c, s, p) => Stored(c, s, p)'
  <1>1. Honest(c) => Honest(c)'
    BY DEF Honest, SameReceiver
  <1>2. ReceiverAt(c, s, p) => ReceiverAt(c, s, p)'
    BY DEF ReceiverAt, SameReceiver
  <1>3. Unread(c, s, p[1]) => Unread(c, s, p[1])'
    BY DEF Unread, Begins, SameReceiver
  <1>4. Kept(c, s, p[1]) => Kept(c, s, p[1])'
    BY DEF Kept, Begins, SameReceiver
  <1> QED
    BY <1>1, <1>2, <1>3, <1>4 DEF Stored, SameReceiver

\* The same for the sender's side.
SameSender(s) == snd'[s] = snd[s] /\ pos'[s] = pos[s] /\ off'[s] = off[s]

\* And the sender's place depends on nothing but the sender's side.
LEMMA SenderStays ==
  ASSUME NEW s \in Clients, NEW q \in Places(s), SameSender(s), SenderAt(s, q)
  PROVE  SenderAt(s, q)'
  BY DEF SameSender, SenderAt

\* Nothing on the way from s to c changes.
LEMMA FlowSame ==
  ASSUME NEW c \in Clients, NEW s \in Clients, SameReceiver(c), SameSender(s),
         pipe'[s] = pipe[s], Flow(c, s)
  PROVE  Flow(c, s)'
  <1>1. CASE snd[s] \in {"err", "killed"}
    BY <1>1 DEF Flow, SameSender
  <1>2. CASE rcv[c] # "stale" /\ Honest(c) /\ rcv[c] \in {"err", "killed"}
    <2>1. Honest(c)'
      BY <1>2 DEF Honest, SameReceiver
    <2> QED
      BY <1>2, <2>1 DEF Flow, SameReceiver
  <1>3. CASE /\ rcv[c] # "stale" /\ Honest(c)
             /\ \E p, q \in Places(s) : /\ Leads(s, p, q, pipe[s]) /\ ReceiverAt(c, s, p)
                                        /\ SenderAt(s, q) /\ Stored(c, s, p)
    <2>1. PICK p \in Places(s), q \in Places(s) :
             /\ Leads(s, p, q, pipe[s]) /\ ReceiverAt(c, s, p)
             /\ SenderAt(s, q) /\ Stored(c, s, p)
      BY <1>3
    <2>2. Honest(c)' /\ ReceiverAt(c, s, p)' /\ Stored(c, s, p)' /\ SenderAt(s, q)'
      BY <1>3, <2>1, ReceiverStays, SenderStays
    <2>3. Leads(s, p, q, pipe'[s]) /\ rcv'[c] # "stale"
      BY <1>3, <2>1 DEF SameReceiver
    <2> QED
      BY <2>2, <2>3, FlowMoves
  <1> QED
    BY <1>1, <1>2, <1>3 DEF Flow

\* At the start the two are at the same place and nothing is stored.
LEMMA FlowStart ==
  ASSUME Init, NEW c \in Clients, NEW s \in Clients
  PROVE  Flow(c, s)
  <1>0. PICK p : p = <<0, 0>>
    OBVIOUS
  <1>1. p \in Places(s) /\ p[1] = 0 /\ p[2] = 0
    BY <1>0, PlaceIntro, ItemsTyped, SizeAtTyped
  <1>2. Leads(s, p, p, pipe[s])
    BY <1>1, LeadsNowhere DEF Init
  <1>3. ReceiverAt(c, s, p) /\ SenderAt(s, p)
    BY <1>0 DEF Init, ReceiverAt, SenderAt
  <1>4. \A m \in Nodes : data[c][m] = Begun(m, 0)
    BY BegunFacts DEF Init
  <1>5. Honest(c)
    BY <1>4, SizeTyped DEF Honest
  <1>6. Unread(c, s, p[1])
    BY <1>4, ItemsTyped DEF Unread
  <1>7. mirror[c] = PathsBefore(s, 1)
    BY PathsFacts DEF Init
  <1>8. Kept(c, s, p[1])
    <2>1. rcv[c] = "none" /\ ~Begins(c) /\ p[1] + 1 = 1
      BY <1>1 DEF Init, Begins
    <2>2. \A j \in 1 .. Items(s) : ~(j < p[1]) /\ j # p[1]
      BY <1>1, ItemsTyped
    <2> QED
      BY <1>7, <2>1, <2>2 DEF Kept
  <1>9. Stored(c, s, p)
    BY <1>6, <1>8 DEF Stored, Init
  <1> QED
    BY <1>1, <1>2, <1>3, <1>5, <1>9 DEF Flow, Init

\* Steps of the sender: what it writes leads from where it was to where it is.
LEMMA SendStepFlows ==
  ASSUME SyncTypes, SendTypes, NEW a \in Clients, NEW c \in Clients, SendStep(a),
         Flow(c, a)
  PROVE  Flow(c, a)'
  <1> USE DEF Set, SendEnds
  <1>0. /\ pos[a] \in Nat /\ off[a] \in Nat /\ pipe[a] \in Seq(Cells) /\ Items(a) \in Nat
        /\ snd \in [Clients -> SendPlaces] /\ pos[a] <= Items(a)
        /\ pos \in [Clients -> Nat] /\ off \in [Clients -> Nat] /\ pipe \in [Clients -> Seq(Cells)]
    BY ItemsTyped DEF SendTypes, SyncTypes
  <1>1. SameReceiver(c)
    BY DEF SendStep, SendBegin, SendHead, SendData, SendNext, SendEnd, SameReceiver, Removed,
           syncVars, rcvVars, dirVars
  <1>2. snd[a] \in {"opened", "next", "data"}
    BY DEF SendStep, SendBegin, SendHead, SendData, SendNext, SendEnd
  <1>3. CASE snd'[a] \in {"err", "killed"}
    BY <1>3 DEF Flow
  <1>4. CASE rcv[c] # "stale" /\ Honest(c) /\ rcv[c] \in {"err", "killed"}
    <2>1. Honest(c)'
      BY <1>1, <1>4 DEF Honest, SameReceiver
    <2> QED
      BY <1>1, <1>4, <2>1 DEF Flow, SameReceiver
  <1>5. CASE /\ snd'[a] \notin {"err", "killed"} /\ rcv[c] # "stale" /\ Honest(c)
             /\ \E p, q \in Places(a) : /\ Leads(a, p, q, pipe[a]) /\ ReceiverAt(c, a, p)
                                        /\ SenderAt(a, q) /\ Stored(c, a, p)
    <2>1. PICK p \in Places(a), q \in Places(a) :
             /\ Leads(a, p, q, pipe[a]) /\ ReceiverAt(c, a, p)
             /\ SenderAt(a, q) /\ Stored(c, a, p)
      BY <1>5
    <2>2. Honest(c)' /\ ReceiverAt(c, a, p)' /\ Stored(c, a, p)' /\ rcv'[c] # "stale"
      <3>1. rcv'[c] # "stale"
        BY <1>1, <1>5 DEF SameReceiver
      <3> QED
        BY <1>1, <1>5, <2>1, <3>1, ReceiverStays
    <2>3. ASSUME NEW r \in Places(a), Leads(a, p, r, pipe'[a]), SenderAt(a, r)'
          PROVE  Flow(c, a)'
      BY <2>2, <2>3, FlowMoves
    <2>4. CASE SendBegin(a)
      <3>1. snd'[a] = "next" /\ pos'[a] = pos[a] /\ snd[a] = "opened" /\ pipe'[a] = pipe[a]
        BY <1>0, <1>5, <2>4 DEF SendBegin
      <3>2. pos[a] = 0 /\ q = <<0, 0>>
        BY <2>1, <3>1 DEF SenderAt
      <3>3. SenderAt(a, q)'
        BY <3>1, <3>2, SizeAtTyped DEF SenderAt
      <3> QED
        BY <2>1, <2>3, <3>1, <3>3
    <2>5. CASE SendHead(a)
      <3>1. /\ snd[a] = "next" /\ pos[a] < Items(a)
            /\ pipe'[a] = Append(pipe[a], HeadCell(Item(a, pos[a] + 1)))
            /\ pos'[a] = pos[a] + 1 /\ off'[a] = 0 /\ snd'[a] = "data"
        BY <1>0, <1>5, <2>5 DEF SendHead, Items, Item
      <3>2. q = <<pos[a], SizeAt(a, pos[a])>> /\ q[1] = pos[a] /\ q[2] = SizeAt(a, q[1])
        BY <2>1, <3>1 DEF SenderAt
      <3>3. PICK r : r = <<q[1] + 1, 0>>
        OBVIOUS
      <3>4. r[1] = pos[a] + 1 /\ r[2] = 0 /\ r[1] \in 1 .. Items(a)
        BY <1>0, <3>1, <3>2, <3>3
      <3>5. PICK cell : cell = HeadCell(Item(a, pos[a] + 1))
        OBVIOUS
      <3>6. cell \in Cells /\ cell = CellAt(a, <<q[1] + 1, 0>>)
        <4>1. Item(a, pos[a] + 1) \in Nodes
          BY <3>4, ItemsTyped
        <4>2. cell = CellAt(a, r)
          BY <1>0, <3>4, <3>5 DEF CellAt
        <4> QED
          BY <3>3, <3>5, <4>1, <4>2, CellTyped
      <3>7. r \in Places(a) /\ Leads(a, p, r, Append(pipe[a], cell))
        <4>1. q[1] <= Items(a)
          BY <1>0, <3>2
        <4> QED
          BY <1>0, <2>1, <3>2, <3>3, <3>6, <4>1, LeadsHead
      <3>8. SenderAt(a, r)'
        <4>1. r = <<pos'[a], off'[a]>>
          BY <3>1, <3>2, <3>3
        <4>2. Cut(r[2], SizeAt(a, r[1]))
          <5>1. 0 = 0 * MaxBuff
            BY SizeTyped
          <5> QED
            BY <3>4, <5>1 DEF Cut
        <4> QED
          BY <3>1, <4>1, <4>2 DEF SenderAt
      <3> QED
        BY <2>3, <3>1, <3>5, <3>7, <3>8
    <2>6. CASE SendData(a)
      <3>0. PICK k : k = Piece(SizeOf(Sending(a)) - off[a])
        OBVIOUS
      <3>1. /\ snd[a] = "data" /\ off[a] < SizeOf(Sending(a))
            /\ pipe'[a] = pipe[a] \o [i \in 1 .. k |-> ByteCell(Sending(a), off[a] + i)]
            /\ pos'[a] = pos[a] /\ off'[a] = off[a] + k /\ snd'[a] = "data"
        BY <1>0, <1>5, <2>6, <3>0 DEF SendData
      <3>2. /\ Sending(a) = Item(a, pos[a]) /\ SizeOf(Sending(a)) = SizeAt(a, pos[a])
            /\ SizeOf(Sending(a)) \in Nat
            /\ k \in Nat \ {0} /\ off[a] + k <= SizeOf(Sending(a))
            /\ k = Asked(SizeOf(Sending(a)) - off[a])
        BY <3>0, <3>1, PieceTyped
      <3>3. /\ q = <<pos[a], off[a]>> /\ q[1] = pos[a] /\ q[2] = off[a]
            /\ Cut(q[2], SizeAt(a, q[1])) /\ q[1] \in 1 .. Items(a)
        BY <1>0, <2>1, <3>1 DEF SenderAt, SendTypes
      <3>4. PICK r : r = <<q[1], q[2] + k>>
        OBVIOUS
      <3>5. /\ r \in Places(a)
            /\ Leads(a, p, r, pipe[a] \o [i \in 1 .. k |-> ByteCell(Item(a, q[1]), q[2] + i)])
        <4>1. q[2] + k <= SizeAt(a, q[1])
          BY <3>2, <3>3
        <4> QED
          BY <1>0, <2>1, <3>2, <3>3, <3>4, <4>1, LeadsBytes
      <3>6. Leads(a, p, r, pipe'[a])
        <4>1. Item(a, q[1]) = Sending(a) /\ q[2] = off[a]
          BY <3>2, <3>3
        <4> QED
          BY <3>1, <3>5, <4>1, Zenon
      <3>7. Cut(r[2], SizeAt(a, r[1]))
        <4>1. Cut(off[a] + Asked(SizeAt(a, pos[a]) - off[a]), SizeAt(a, pos[a]))
          <5>1. off[a] < SizeAt(a, pos[a]) /\ Cut(off[a], SizeAt(a, pos[a]))
            BY <3>1, <3>2, <3>3
          <5> QED
            BY <1>0, <3>2, <5>1, NextCut
        <4> QED
          BY <3>2, <3>3, <3>4, <4>1
      <3>8. SenderAt(a, r)'
        <4>1. r = <<pos'[a], off'[a]>>
          BY <3>1, <3>3, <3>4
        <4> QED
          BY <3>1, <3>7, <4>1 DEF SenderAt
      <3> QED
        BY <2>3, <3>5, <3>6, <3>8
    <2>7. CASE SendNext(a)
      <3>1. /\ snd[a] = "data" /\ off[a] = SizeOf(Sending(a)) /\ snd'[a] = "next"
            /\ pos'[a] = pos[a] /\ pipe'[a] = pipe[a]
        BY <1>0, <1>5, <2>7 DEF SendNext
      <3>2. q = <<pos[a], off[a]>> /\ pos[a] \in 1 .. Items(a)
        BY <1>0, <2>1, <3>1 DEF SenderAt, SendTypes
      <3>3. off[a] = SizeAt(a, pos[a])
        BY <3>1, <3>2, SizeAtTyped DEF Sending, Item
      <3>4. SenderAt(a, q)'
        BY <3>1, <3>2, <3>3 DEF SenderAt
      <3> QED
        BY <2>1, <2>3, <3>1, <3>4
    <2>8. CASE SendEnd(a)
      <3>1. /\ snd[a] = "next" /\ pos[a] = Items(a) /\ snd'[a] = "ok"
            /\ pipe'[a] = Append(pipe[a], EndCell(Root[a]))
        BY <1>0, <1>5, <2>8 DEF SendEnd, Items
      <3>2. q = <<pos[a], SizeAt(a, pos[a])>> /\ q[1] = Items(a) /\ q[2] = SizeAt(a, q[1])
        BY <2>1, <3>1 DEF SenderAt
      <3>3. PICK cell : cell = EndCell(Root[a])
        OBVIOUS
      <3>4. cell \in Cells /\ cell = CellAt(a, <<q[1] + 1, 0>>)
        BY <1>0, <3>2, <3>3, SizeTyped, CellTyped DEF CellAt
      <3>5. PICK r : r = <<q[1] + 1, 0>>
        OBVIOUS
      <3>6. r \in Places(a) /\ Leads(a, p, r, Append(pipe[a], cell))
        <4>1. q[1] <= Items(a)
          BY <1>0, <3>2
        <4> QED
          BY <1>0, <2>1, <3>2, <3>4, <3>5, <4>1, LeadsHead
      <3>7. SenderAt(a, r)'
        BY <3>1, <3>2, <3>5 DEF SenderAt
      <3> QED
        BY <2>3, <3>1, <3>3, <3>6, <3>7
    <2> QED
      BY <2>4, <2>5, <2>6, <2>7, <2>8 DEF SendStep
  <1> QED
    BY <1>2, <1>3, <1>4, <1>5 DEF Flow

\* Where the sender is, its place is a cut.
LEMMA SenderCut ==
  ASSUME SyncTypes, NEW s \in Clients, NEW q \in Places(s), SenderAt(s, q),
         snd[s] \notin {"err", "killed"}, q[1] \in 1 .. Items(s)
  PROVE  Cut(q[2], SizeAt(s, q[1]))
  <1>1. snd[s] \in {"none", "open", "opened", "next", "data", "ok"}
    BY DEF SyncTypes, SendPlaces, Ended
  <1>2. Items(s) \in Nat
    BY ItemsTyped
  <1>3. CASE snd[s] \in {"none", "open", "opened"}
    BY <1>3 DEF SenderAt
  <1>4. CASE snd[s] = "next"
    BY <1>4 DEF SenderAt, Cut
  <1>5. CASE snd[s] = "data"
    BY <1>5 DEF SenderAt
  <1>6. CASE snd[s] = "ok"
    BY <1>2, <1>6 DEF SenderAt
  <1> QED
    BY <1>1, <1>3, <1>4, <1>5, <1>6

\* The end of file without a failure comes after the end of the stream.
LEMMA EndOfFile ==
  ASSUME SyncTypes, NEW c \in Clients, NEW s \in Clients, s = Other(c), AtEOF(c),
         snd[s] \notin {"err", "killed"},
         NEW p \in Places(s), NEW q \in Places(s), Leads(s, p, q, pipe[s]), SenderAt(s, q)
  PROVE  p = <<Items(s) + 1, 0>>
  <1>1. snd[s] = "ok" /\ pipe[s] = <<>>
    BY DEF AtEOF, Ended
  <1> QED
    BY <1>1, LeadsEmpty DEF SenderAt

\* The receiver takes the head of the next item or the end.
LEMMA TakeFlows ==
  ASSUME SyncTypes, SendTypes, ReceiveTypes, NEW c \in Clients, NEW s \in Clients, s = Other(c),
         rcv[c] \in {"first", "again"},
         TakeHead(c, "got") \/ TakeHead(c, "file") \/ TakeEnd(c),
         made' = made, mirror' = mirror, data' = data, sync' = sync, result' = result,
         NEW p \in Places(s), NEW q \in Places(s), Leads(s, p, q, pipe[s]),
         ReceiverAt(c, s, p), Stored(c, s, p)
  PROVE  /\ rcv'[c] # "stale"
         /\ \E r \in Places(s) : /\ Leads(s, r, q, pipe'[s]) /\ ReceiverAt(c, s, r)'
                                 /\ Stored(c, s, r)'
  <1> USE DEF Set, ReceiveEnds
  <1>0. /\ pipe[s] \in Seq(Cells) /\ pipe[s] # <<>> /\ From(c) = pipe[s] /\ Items(s) \in Nat
        /\ Head(From(c)) = pipe[s][1] /\ Consume(c, 1) /\ 1 \in 0 .. Len(From(c))
    BY ItemsTyped DEF TakeHead, TakeEnd, Readable, From, SendTypes
  <1>1. pipe'[s] = SubSeq(pipe[s], 2, Len(pipe[s]))
    BY <1>0, ConsumeTyped
  <1>2. /\ p[1] \in Nat /\ p[2] \in Nat /\ p[2] = SizeAt(s, p[1])
        /\ rcv[c] = "first" => p[1] = 0
    BY PlaceTyped, SizeAtTyped DEF ReceiverAt
  <1>3. PICK r : r = <<p[1] + 1, 0>>
    OBVIOUS
  <1>4. r \in Places(s) /\ pipe[s][1] = CellAt(s, r) /\ Leads(s, r, q, pipe'[s])
    BY <1>0, <1>1, <1>2, <1>3, LeadsTake
  <1>5. r[1] = p[1] + 1 /\ r[2] = 0 /\ r[1] \in 1 .. Items(s) + 1
    <2>1. r[1] = p[1] + 1 /\ r[2] = 0
      BY <1>3
    <2>2. r[1] \in 0 .. Items(s) + 1
      BY <1>4, PlaceTyped
    <2> QED
      BY <1>0, <1>2, <2>1, <2>2
  <1>6. ~Begins(c) /\ rcv[c] \notin {"none", "open", "opened"}
    BY DEF Begins
  <1>7. /\ \A j \in 1 .. Items(s) : j > p[1] => data[c][Item(s, j)] = Begun(Item(s, j), 0)
        /\ ~Removed(c) => /\ made[c] /\ mirror[c] = PathsBefore(s, p[1] + 1)
                          /\ \A j \in 1 .. Items(s) : j < r[1] =>
                                data[c][Item(s, j)] = Content(Item(s, j))
    <2>1. Unread(c, s, p[1]) /\ (Removed(c) \/ Kept(c, s, p[1]))
      BY DEF Stored
    <2>2. ASSUME ~Removed(c), NEW j \in 1 .. Items(s), j < r[1]
          PROVE  data[c][Item(s, j)] = Content(Item(s, j))
      <3>1. j < p[1] \/ (j = p[1] /\ rcv[c] = "again")
        BY <1>2, <1>5, <2>2
      <3> QED
        BY <2>1, <2>2, <3>1 DEF Kept
    <2> QED
      BY <1>6, <2>1, <2>2 DEF Unread, Kept
  <1>8. Removed(c)' <=> Removed(c)
    BY DEF Removed
  <1>9. CASE TakeHead(c, "got") \/ TakeHead(c, "file")
    <2>1. /\ rcv'[c] \in {"got", "file"} /\ cur'[c] = pipe[s][1].node
          /\ left'[c] = pipe[s][1].at /\ pipe[s][1].kind = "head"
      BY <1>0, <1>9 DEF TakeHead, SyncTypes, ReceiveTypes
    <2>2. r[1] \in 1 .. Items(s)
      <3>1. SUFFICES ASSUME r[1] > Items(s) PROVE FALSE
        BY <1>0, <1>5
      <3>2. pipe[s][1] = EndCell(Root[s])
        BY <1>4, <3>1 DEF CellAt
      <3> QED
        BY <2>1, <3>2, SizeTyped, CellTyped
    <2>3. /\ Item(s, r[1]) \in Nodes
          /\ SizeAt(s, r[1]) = SizeOf(Item(s, r[1])) /\ SizeAt(s, r[1]) \in Nat
      BY <2>2, ItemsTyped, SizeAtTyped
    <2>4. pipe[s][1] = HeadCell(Item(s, r[1]))
      BY <1>0, <1>4, <1>5, <2>2 DEF CellAt
    <2>5. cur'[c] = Item(s, r[1]) /\ left'[c] = SizeAt(s, r[1])
      BY <2>1, <2>3, <2>4, CellTyped
    <2>6. Cut(r[2], SizeAt(s, r[1]))
      <3>1. 0 = 0 * MaxBuff
        BY SizeTyped
      <3> QED
        BY <1>5, <3>1 DEF Cut
    <2>7. ReceiverAt(c, s, r)'
      <3>1. left'[c] = SizeAt(s, r[1]) - r[2]
        BY <1>5, <2>3, <2>5
      <3> QED
        BY <1>5, <2>1, <2>2, <2>5, <2>6, <3>1 DEF ReceiverAt
    <2>8. Unread(c, s, r[1])'
      <3> SUFFICES ASSUME NEW j \in 1 .. Items(s), j > r[1] \/ j = r[1]
                   PROVE  data'[c][Item(s, j)] = Begun(Item(s, j), 0)
        BY DEF Unread
      <3>1. j > p[1]
        BY <1>2, <1>5
      <3> QED
        BY <1>7, <3>1
    <2>9. ~Removed(c) => Kept(c, s, r[1])'
      <3> SUFFICES ASSUME ~Removed(c) PROVE Kept(c, s, r[1])'
        OBVIOUS
      <3>1. Begins(c)' /\ rcv'[c] # "again"
        BY <2>1 DEF Begins
      <3>2. mirror'[c] = PathsBefore(s, r[1]) /\ made'[c]
        BY <1>5, <1>7
      <3> QED
        BY <1>7, <3>1, <3>2 DEF Kept
    <2>10. Stored(c, s, r)'
      BY <1>8, <2>1, <2>8, <2>9 DEF Stored
    <2> QED
      BY <1>4, <2>1, <2>7, <2>10
  <1>10. CASE TakeEnd(c)
    <2>1. rcv'[c] = "ok" /\ pipe[s][1].kind = "end"
      BY <1>0, <1>10 DEF TakeEnd, SyncTypes
    <2>2. r[1] = Items(s) + 1
      <3>1. SUFFICES ASSUME r[1] \in 1 .. Items(s) PROVE FALSE
        BY <1>0, <1>5
      <3>2. pipe[s][1] = HeadCell(Item(s, r[1])) /\ Item(s, r[1]) \in Nodes
        BY <1>0, <1>4, <1>5, <3>1, ItemsTyped DEF CellAt
      <3> QED
        BY <2>1, <3>2, CellTyped
    <2>3. ReceiverAt(c, s, r)'
      <3>1. r = <<Items(s) + 1, 0>>
        BY <1>3, <1>5, <2>2
      <3> QED
        BY <2>1, <3>1 DEF ReceiverAt
    <2>4. Unread(c, s, r[1])'
      <3>1. \A j \in 1 .. Items(s) : ~(j > r[1]) /\ j # r[1]
        BY <1>0, <2>2
      <3> QED
        BY <3>1 DEF Unread
    <2>5. ~Removed(c) => Kept(c, s, r[1])'
      <3> SUFFICES ASSUME ~Removed(c) PROVE Kept(c, s, r[1])'
        OBVIOUS
      <3>1. ~Begins(c)' /\ rcv'[c] # "again"
        BY <2>1 DEF Begins
      <3>2. mirror'[c] = PathsBefore(s, r[1] + 1) /\ made'[c]
        <4>1. p[1] + 1 = Items(s) + 1 /\ r[1] + 1 = Items(s) + 2
          BY <1>0, <1>2, <1>5, <2>2
        <4> QED
          BY <1>7, <4>1, PathsFacts
      <3> QED
        BY <1>7, <3>1, <3>2 DEF Kept
    <2>6. Stored(c, s, r)'
      BY <1>8, <2>1, <2>4, <2>5 DEF Stored
    <2> QED
      BY <1>4, <2>1, <2>3, <2>6
  <1> QED
    BY <1>9, <1>10

\* A turn of the loop of read_file stores the bytes that come next.
LEMMA ReadDataFlows ==
  ASSUME SyncTypes, SendTypes, ReceiveTypes, NEW c \in Clients, NEW s \in Clients, s = Other(c),
         ReadData(c), Honest(c), snd[s] \notin {"err", "killed"},
         NEW p \in Places(s), NEW q \in Places(s), Leads(s, p, q, pipe[s]),
         ReceiverAt(c, s, p), SenderAt(s, q), Stored(c, s, p)
  PROVE  /\ rcv'[c] # "stale" /\ Honest(c)'
         /\ \E r \in Places(s) : /\ Leads(s, r, q, pipe'[s]) /\ ReceiverAt(c, s, r)'
                                 /\ Stored(c, s, r)'
  <1>0. /\ rcv[c] = "data" /\ left[c] > 0 /\ (Readable(c) \/ AtEOF(c)) /\ Consume(c, Taken(c))
        /\ data' = IF cur[c] \in mirror[c]
                   THEN [data EXCEPT ![c][cur[c]] = data[c][cur[c]] \o Buffer(c)] ELSE data
        /\ left' = Set(left, c, IF Asked(left[c]) <= left[c] THEN left[c] - Asked(left[c]) ELSE 0)
        /\ rcv' = rcv /\ cur' = cur /\ made' = made /\ mirror' = mirror
        /\ sync' = sync /\ result' = result
    BY ReadDataTakes DEF syncVars
  <1>1. /\ p[1] \in 1 .. Items(s) /\ cur[c] = Item(s, p[1])
        /\ left[c] = SizeAt(s, p[1]) - p[2] /\ Cut(p[2], SizeAt(s, p[1]))
    BY <1>0 DEF ReceiverAt
  <1>2. /\ p[1] \in Nat /\ p[2] \in Nat /\ Items(s) \in Nat /\ SizeAt(s, p[1]) \in Nat
        /\ cur[c] \in Nodes /\ SizeAt(s, p[1]) = SizeOf(cur[c]) /\ left[c] \in Nat
        /\ pipe[s] \in Seq(Cells) /\ From(c) = pipe[s]
    BY <1>1, PlaceTyped, ItemsTyped, SizeAtTyped DEF SendTypes, ReceiveTypes, From
  <1>3. pipe[s] # <<>>
    <2>1. SUFFICES ASSUME AtEOF(c) PROVE FALSE
      BY <1>0 DEF Readable
    <2>2. p = <<Items(s) + 1, 0>>
      BY <2>1, EndOfFile
    <2> QED
      BY <1>1, <1>2, <2>2
  <1>4. PICK m \in Nat : m = Asked(left[c]) /\ m > 0 /\ m <= left[c]
    BY <1>0, <1>2, AskedTyped
  <1>5. PICK r : r = <<p[1], p[2] + m>>
    OBVIOUS
  <1>6. /\ m <= Len(pipe[s]) /\ \A i \in 1 .. m : pipe[s][i] = ByteCell(cur[c], p[2] + i)
        /\ r \in Places(s) /\ Leads(s, r, q, SubSeq(pipe[s], m + 1, Len(pipe[s])))
    <2>1. p[2] < SizeAt(s, p[1]) /\ m = Asked(SizeAt(s, p[1]) - p[2])
      BY <1>0, <1>1, <1>2, <1>4
    <2>2. q[1] \in 1 .. Items(s) => Cut(q[2], SizeAt(s, q[1]))
      BY SenderCut
    <2> QED
      BY <1>1, <1>2, <1>3, <1>5, <2>1, <2>2, LeadsRead, SMTT(30)
  <1>7. /\ Taken(c) = m /\ Buffer(c) \in Seq(Cells) /\ Len(Buffer(c)) = m
        /\ Taken(c) \in 0 .. Len(From(c))
        /\ \A i \in 1 .. m : Buffer(c)[i] = ByteCell(cur[c], p[2] + i)
    BY <1>0, <1>2, <1>4, <1>6, BufferTyped
  <1>8. Leads(s, r, q, pipe'[s])
    BY <1>0, <1>6, <1>7, ConsumeTyped
  <1>9. r[1] = p[1] /\ r[2] = p[2] + m /\ r[2] \in 0 .. SizeOf(cur[c])
    BY <1>1, <1>2, <1>4, <1>5
  <1>10. ReceiverAt(c, s, r)'
    <2>1. left'[c] = SizeAt(s, r[1]) - r[2]
      <3>1. left'[c] = left[c] - m
        BY <1>0, <1>2, <1>4 DEF Set, ReceiveTypes
      <3> QED
        BY <1>1, <1>2, <1>9, <3>1
    <2>2. Cut(r[2], SizeAt(s, r[1]))
      <3>1. p[2] < SizeAt(s, p[1])
        BY <1>0, <1>1, <1>2
      <3>2. Cut(p[2] + Asked(SizeAt(s, p[1]) - p[2]), SizeAt(s, p[1]))
        BY <1>1, <1>2, <3>1, NextCut
      <3> QED
        BY <1>1, <1>4, <1>9, <3>2
    <2>3. rcv'[c] = "data" /\ cur'[c] = Item(s, r[1]) /\ r[1] \in 1 .. Items(s)
      BY <1>0, <1>1, <1>9
    <2> QED
      BY <2>1, <2>2, <2>3 DEF ReceiverAt
  <1>11. /\ \A n \in Nodes \ {cur[c]} : data'[c][n] = data[c][n]
         /\ cur[c] \in mirror[c] => data'[c][cur[c]] = Begun(cur[c], r[2])
         /\ cur[c] \notin mirror[c] => data' = data
    <2>1. CASE cur[c] \in mirror[c]
      <3>1. data[c][cur[c]] = Begun(cur[c], p[2])
        BY <1>0, <2>1 DEF Stored
      <3>2. PICK x : x = data[c][cur[c]] \o Buffer(c)
        OBVIOUS
      <3>3. x = Begun(cur[c], p[2] + m)
        <4>1. Begun(cur[c], p[2]) \o Buffer(c) = Begun(cur[c], p[2] + m)
          <5>1. PICK n \in Nodes, k \in Nat, b \in Seq(Cells) :
                   n = cur[c] /\ k = p[2] /\ b = Buffer(c)
            BY <1>2, <1>7
          <5>2. Len(b) = m /\ \A i \in 1 .. m : b[i] = ByteCell(n, k + i)
            BY <1>7, <5>1
          <5>3. Begun(n, k) \o b = Begun(n, k + m)
            BY <5>2, BegunMore
          <5> QED
            BY <5>1, <5>3, Zenon
        <4> QED
          BY <3>1, <3>2, <4>1, Zenon
      <3>4. x \in Seq(Cells)
        BY <1>2, <3>3, BegunFacts
      <3>5. data' = [data EXCEPT ![c][cur[c]] = x]
        BY <1>0, <2>1, <3>2
      <3>6. /\ data'[c][cur[c]] = x
            /\ \A n \in Nodes \ {cur[c]} : data'[c][n] = data[c][n]
        <4>1. PICK h \in Nodes : h = cur[c]
          BY <1>2
        <4>2. data' = [data EXCEPT ![c][h] = x]
          BY <3>5, <4>1
        <4>3. data'[c][h] = x /\ \A n \in Nodes \ {h} : data'[c][n] = data[c][n]
          BY <3>4, <4>2, DataPut, Zenon
        <4> QED
          BY <4>1, <4>3
      <3> QED
        BY <1>9, <2>1, <3>3, <3>6
    <2>2. CASE cur[c] \notin mirror[c]
      BY <1>0, <2>2
    <2> QED
      BY <2>1, <2>2
  <1>12. Honest(c)'
    <2> SUFFICES ASSUME NEW n \in Nodes
                 PROVE  \E k \in 0 .. SizeOf(n) : data'[c][n] = Begun(n, k)
      BY DEF Honest
    <2>1. CASE n = cur[c] /\ cur[c] \in mirror[c]
      BY <1>9, <1>11, <2>1
    <2>2. CASE ~(n = cur[c] /\ cur[c] \in mirror[c])
      <3>1. data'[c][n] = data[c][n]
        BY <1>11, <2>2
      <3> QED
        BY <3>1 DEF Honest
    <2> QED
      BY <2>1, <2>2
  <1>13. \A j \in 1 .. Items(s) : j # p[1] => data'[c][Item(s, j)] = data[c][Item(s, j)]
    BY <1>1, <1>11, ItemsTyped
  <1>14. Stored(c, s, r)'
    <2>1. Unread(c, s, p[1]) /\ (Removed(c) \/ Kept(c, s, p[1])) /\ ~Begins(c) /\ ~Begins(c)'
      BY <1>0 DEF Stored, Begins
    <2>2. Unread(c, s, r[1])'
      <3> SUFFICES ASSUME NEW j \in 1 .. Items(s), j > p[1]
                   PROVE  data'[c][Item(s, j)] = Begun(Item(s, j), 0)
        BY <1>9, <2>1 DEF Unread
      <3>1. j # p[1]
        BY <1>2
      <3> QED
        BY <1>13, <2>1, <3>1 DEF Unread
    <2>3. Kept(c, s, p[1]) => Kept(c, s, r[1])'
      <3> SUFFICES ASSUME Kept(c, s, p[1]) PROVE Kept(c, s, r[1])'
        OBVIOUS
      <3>1. ASSUME NEW j \in 1 .. Items(s), j < p[1]
            PROVE  data'[c][Item(s, j)] = Content(Item(s, j))
        <4>1. j # p[1]
          BY <1>2, <3>1
        <4> QED
          BY <1>13, <3>1, <4>1 DEF Kept
      <3>2. mirror'[c] = PathsBefore(s, r[1] + 1) /\ made'[c] /\ rcv'[c] = "data"
        BY <1>0, <1>9, <2>1 DEF Kept
      <3> QED
        BY <1>9, <2>1, <3>1, <3>2 DEF Kept
    <2>4. Removed(c)' <=> Removed(c)
      BY <1>0 DEF Removed
    <2>5. cur'[c] \in mirror'[c] => data'[c][cur'[c]] = Begun(cur'[c], r[2])
      BY <1>0, <1>11
    <2> QED
      BY <2>1, <2>2, <2>3, <2>4, <2>5 DEF Stored
  <1> QED
    BY <1>0, <1>8, <1>6, <1>10, <1>12, <1>14

\* Steps of the receiver.
LEMMA ReceiveStepFlows ==
  ASSUME SyncTypes, SendTypes, ReceiveTypes, NEW c \in Clients, NEW s \in Clients, s = Other(c),
         ReceiveStep(c) \/ StaleFails(c), Flow(c, s)
  PROVE  Flow(c, s)'
  <1> USE DEF Set, ReceiveEnds
  <1>0. SameSender(s) /\ sync' = sync /\ result' = result /\ (Removed(c)' <=> Removed(c))
    BY DEF ReceiveStep, ReceiveBegin, Select, ReadFirst, Got, MakePath, ReadData, ReadDone,
           ReadAgain, Stale, StaleFails, SameSender, Removed, syncVars, sndVars
  <1>1. CASE snd[s] \in {"err", "killed"}
    BY <1>0, <1>1 DEF Flow, SameSender
  <1>2. CASE /\ snd[s] \notin {"err", "killed"} /\ rcv[c] # "stale" /\ Honest(c)
             /\ rcv[c] \in {"err", "killed"}
    BY <1>2 DEF ReceiveStep, ReceiveBegin, Select, ReadFirst, Got, MakePath, ReadData, ReadDone,
                ReadAgain, Stale, StaleFails
  <1>3. CASE /\ snd[s] \notin {"err", "killed"} /\ rcv[c] # "stale" /\ Honest(c)
             /\ \E p, q \in Places(s) : /\ Leads(s, p, q, pipe[s]) /\ ReceiverAt(c, s, p)
                                        /\ SenderAt(s, q) /\ Stored(c, s, p)
    <2>1. PICK p \in Places(s), q \in Places(s) :
             /\ Leads(s, p, q, pipe[s]) /\ ReceiverAt(c, s, p)
             /\ SenderAt(s, q) /\ Stored(c, s, p)
      BY <1>3
    <2>2. SenderAt(s, q)'
      BY <1>0, <2>1, SenderStays
    <2>3. ASSUME rcv'[c] # "stale", Honest(c)',
                 \E r \in Places(s) : /\ Leads(s, r, q, pipe'[s]) /\ ReceiverAt(c, s, r)'
                                      /\ Stored(c, s, r)'
          PROVE  Flow(c, s)'
      BY <2>2, <2>3, FlowMoves
    <2>4. ASSUME data' = data PROVE Honest(c)'
      BY <1>3, <2>4 DEF Honest
    <2>5. ASSUME data' = data, rcv'[c] = "err" PROVE Flow(c, s)'
      BY <2>4, <2>5 DEF Flow
    <2>6. ASSUME data' = data, pipe' = pipe, rcv'[c] # "stale",
                 ReceiverAt(c, s, p)', Stored(c, s, p)'
          PROVE  Flow(c, s)'
      BY <2>1, <2>3, <2>4, <2>6
    <2>7. /\ Unread(c, s, p[1]) /\ (Removed(c) \/ Kept(c, s, p[1]))
          /\ p[1] \in Nat /\ p[2] \in Nat /\ Items(s) \in Nat
          /\ rcv \in [Clients -> ReceivePlaces] /\ cur \in [Clients -> Nodes]
      BY <2>1, PlaceTyped, ItemsTyped DEF Stored, SyncTypes, ReceiveTypes
    <2>8. CASE ReceiveBegin(c)
      <3>1. /\ rcv[c] = "opened" /\ data' = data /\ mirror' = mirror /\ pipe' = pipe
            /\ rcv'[c] = "err" \/ (rcv'[c] = "select" /\ made'[c])
        BY <2>7, <2>8 DEF ReceiveBegin, SyncTypes
      <3>2. CASE rcv'[c] = "err"
        BY <2>5, <3>1, <3>2
      <3>3. CASE rcv'[c] = "select" /\ made'[c]
        <4>1. ReceiverAt(c, s, p)'
          BY <2>1, <3>1, <3>3 DEF ReceiverAt
        <4>2. Unread(c, s, p[1])' /\ (Kept(c, s, p[1]) => Kept(c, s, p[1])')
          BY <2>7, <3>1, <3>3 DEF Unread, Kept, Begins
        <4>3. Stored(c, s, p)'
          BY <1>0, <2>7, <3>3, <4>2 DEF Stored
        <4> QED
          BY <2>6, <3>1, <3>3, <4>1, <4>3
      <3> QED
        BY <3>1, <3>2, <3>3
    <2>9. CASE Select(c)
      <3>1. /\ rcv[c] = "select" /\ data' = data /\ mirror' = mirror /\ pipe' = pipe
            /\ rcv'[c] \in {"err", "first"} /\ made' = made
        BY <2>7, <2>9 DEF Select, dirVars
      <3>2. CASE rcv'[c] = "err"
        BY <2>5, <3>1, <3>2
      <3>3. CASE rcv'[c] = "first"
        <4>1. ReceiverAt(c, s, p)'
          BY <2>1, <3>1, <3>3 DEF ReceiverAt
        <4>2. Unread(c, s, p[1])' /\ (Kept(c, s, p[1]) => Kept(c, s, p[1])')
          BY <2>7, <3>1, <3>3 DEF Unread, Kept, Begins
        <4>3. Stored(c, s, p)'
          BY <1>0, <2>7, <3>3, <4>2 DEF Stored
        <4> QED
          BY <2>6, <3>1, <3>3, <4>1, <4>3
      <3> QED
        BY <3>1, <3>2, <3>3
    <2>10. CASE ReadFirst(c) \/ ReadAgain(c)
      <3>1. /\ rcv[c] \in {"first", "again"} /\ made' = made /\ mirror' = mirror /\ data' = data
            /\ TakeHead(c, "got") \/ TakeHead(c, "file") \/ TakeEnd(c) \/ AtEOF(c)
        BY <2>10 DEF ReadFirst, ReadAgain, dirVars
      <3>2. ~AtEOF(c)
        <4>1. SUFFICES ASSUME AtEOF(c) PROVE FALSE
          OBVIOUS
        <4>2. p = <<Items(s) + 1, 0>>
          BY <1>3, <2>1, <4>1, EndOfFile
        <4>3. p[1] = 0 \/ p[1] \in 1 .. Items(s)
          BY <2>1, <3>1 DEF ReceiverAt
        <4> QED
          BY <2>7, <4>2, <4>3
      <3>3. /\ rcv'[c] # "stale"
            /\ \E r \in Places(s) : /\ Leads(s, r, q, pipe'[s]) /\ ReceiverAt(c, s, r)'
                                    /\ Stored(c, s, r)'
        BY <1>0, <2>1, <3>1, <3>2, TakeFlows
      <3> QED
        BY <2>3, <2>4, <3>1, <3>3
    <2>11. CASE Got(c)
      <3>1. /\ rcv[c] = "got" /\ data' = data /\ mirror' = mirror /\ pipe' = pipe
            /\ rcv'[c] \in {"err", "file"} /\ made' = made /\ cur' = cur /\ left' = left
        BY <2>7, <2>11 DEF Got, dirVars
      <3>2. CASE rcv'[c] = "err"
        BY <2>5, <3>1, <3>2
      <3>3. CASE rcv'[c] = "file"
        <4>1. ReceiverAt(c, s, p)'
          BY <2>1, <3>1, <3>3 DEF ReceiverAt
        <4>2. Unread(c, s, p[1])' /\ (Kept(c, s, p[1]) => Kept(c, s, p[1])')
          BY <2>7, <3>1, <3>3 DEF Unread, Kept, Begins
        <4>3. Stored(c, s, p)'
          BY <1>0, <2>7, <3>3, <4>2 DEF Stored
        <4> QED
          BY <2>6, <3>1, <3>3, <4>1, <4>3
      <3> QED
        BY <3>1, <3>2, <3>3
    <2>12. CASE MakePath(c)
      <3>1. /\ rcv[c] = "file" /\ data' = data /\ pipe' = pipe /\ made' = made
            /\ cur' = cur /\ left' = left
            /\ rcv'[c] = "data" \/ rcv'[c] = "err"
            /\ made[c] => mirror' = [mirror EXCEPT ![c] = mirror[c] \cup Path(cur[c])]
        BY <2>7, <2>12 DEF MakePath
      <3>2. CASE rcv'[c] = "err"
        BY <2>5, <3>1, <3>2
      <3>3. CASE rcv'[c] = "data"
        <4>1. /\ p[1] \in 1 .. Items(s) /\ cur[c] = Item(s, p[1]) /\ p[2] = 0
              /\ left[c] = SizeAt(s, p[1]) - p[2] /\ Cut(p[2], SizeAt(s, p[1]))
          BY <2>1, <3>1 DEF ReceiverAt
        <4>2. ReceiverAt(c, s, p)'
          BY <3>1, <3>3, <4>1 DEF ReceiverAt
        <4>3. Begins(c) /\ ~Begins(c)'
          BY <3>1, <3>3 DEF Begins
        <4>4. Unread(c, s, p[1])'
          BY <2>7, <3>1, <4>3 DEF Unread
        <4>5. data'[c][cur'[c]] = Begun(cur'[c], p[2])
          BY <2>7, <3>1, <4>1, <4>3 DEF Unread
        <4>6. Kept(c, s, p[1]) => Kept(c, s, p[1])'
          <5> SUFFICES ASSUME Kept(c, s, p[1]) PROVE Kept(c, s, p[1])'
            OBVIOUS
          <5>1. made[c] /\ mirror[c] = PathsBefore(s, p[1])
            BY <3>1, <4>3 DEF Kept
          <5>2. mirror'[c] = mirror[c] \cup Path(cur[c])
            BY <3>1, <5>1 DEF SyncTypes
          <5>3. mirror'[c] = PathsBefore(s, p[1] + 1)
            BY <4>1, <5>1, <5>2, PathsFacts
          <5>4. \A j \in 1 .. Items(s) : j < p[1] => data'[c][Item(s, j)] = Content(Item(s, j))
            BY <3>1 DEF Kept
          <5> QED
            BY <3>1, <3>3, <4>3, <5>1, <5>3, <5>4 DEF Kept
        <4>7. Stored(c, s, p)'
          BY <1>0, <2>7, <4>4, <4>5, <4>6 DEF Stored
        <4> QED
          BY <2>6, <3>1, <3>3, <4>2, <4>7
      <3> QED
        BY <3>1, <3>2, <3>3
    <2>13. CASE ReadData(c)
      BY <1>3, <2>1, <2>3, <2>13, ReadDataFlows
    <2>14. CASE ReadDone(c)
      <3>1. /\ rcv[c] = "data" /\ left[c] = 0 /\ data' = data /\ mirror' = mirror /\ pipe' = pipe
            /\ rcv'[c] \in {"err", "again"} /\ made' = made /\ cur' = cur /\ left' = left
        BY <2>7, <2>14 DEF ReadDone, dirVars
      <3>2. CASE rcv'[c] = "err"
        BY <2>5, <3>1, <3>2
      <3>3. CASE rcv'[c] = "again"
        <4>1. /\ p[1] \in 1 .. Items(s) /\ cur[c] = Item(s, p[1])
              /\ left[c] = SizeAt(s, p[1]) - p[2]
          BY <2>1, <3>1 DEF ReceiverAt
        <4>2. p[2] = SizeAt(s, p[1]) /\ SizeAt(s, p[1]) = SizeOf(cur[c]) /\ cur[c] \in Nodes
          BY <2>7, <3>1, <4>1, SizeAtTyped
        <4>3. ReceiverAt(c, s, p)'
          BY <3>3, <4>1, <4>2 DEF ReceiverAt
        <4>4. ~Begins(c) /\ ~Begins(c)'
          BY <3>1, <3>3 DEF Begins
        <4>5. Unread(c, s, p[1])'
          BY <2>7, <3>1, <4>4 DEF Unread
        <4>6. Kept(c, s, p[1]) => Kept(c, s, p[1])'
          <5> SUFFICES ASSUME Kept(c, s, p[1]) PROVE Kept(c, s, p[1])'
            OBVIOUS
          <5>1. mirror[c] = PathsBefore(s, p[1] + 1) /\ made[c]
            BY <3>1, <4>4 DEF Kept
          <5>2. cur[c] \in mirror[c]
            BY <4>1, <5>1, PathsFacts
          <5>3. data[c][cur[c]] = Content(cur[c])
            <6>1. data[c][cur[c]] = Begun(cur[c], p[2])
              BY <2>1, <3>1, <5>2 DEF Stored
            <6> QED
              BY <4>2, <6>1, BegunFacts
          <5>4. \A j \in 1 .. Items(s) : j < p[1] \/ j = p[1] =>
                   data'[c][Item(s, j)] = Content(Item(s, j))
            BY <3>1, <4>1, <5>3 DEF Kept
          <5> QED
            BY <3>1, <4>4, <5>1, <5>4 DEF Kept
        <4>7. Stored(c, s, p)'
          BY <1>0, <2>7, <3>3, <4>5, <4>6 DEF Stored
        <4> QED
          BY <2>6, <3>1, <3>3, <4>3, <4>7
      <3> QED
        BY <3>1, <3>2, <3>3
    <2>15. CASE Stale(c) \/ StaleFails(c)
      BY <1>3, <2>15 DEF Stale, StaleFails
    <2> QED
      BY <2>8, <2>9, <2>10, <2>11, <2>12, <2>13, <2>14, <2>15 DEF ReceiveStep
  <1> QED
    BY <1>1, <1>2, <1>3 DEF Flow

\* A receiver takes from its own FIFO and writes into its own mirror.
LEMMA ReceiveStepLocal ==
  ASSUME SyncTypes, SendTypes, ReceiveTypes, NEW a \in Clients, NEW c \in Clients, c # a,
         ReceiveStep(a) \/ StaleFails(a)
  PROVE  /\ rcv'[c] = rcv[c] /\ cur'[c] = cur[c] /\ left'[c] = left[c]
         /\ made'[c] = made[c] /\ mirror'[c] = mirror[c] /\ data'[c] = data[c]
         /\ pipe'[a] = pipe[a]
  <1> USE DEF Set, ReceiveEnds
  <1>0. /\ Other(a) \in Clients /\ Other(a) # a /\ cur[a] \in Nodes /\ From(a) \in Seq(Cells)
        /\ rcv \in [Clients -> ReceivePlaces] /\ cur \in [Clients -> Nodes]
        /\ left \in [Clients -> Nat] /\ made \in [Clients -> BOOLEAN]
        /\ mirror \in [Clients -> SUBSET Nodes]
    BY TwoClients DEF SyncTypes, ReceiveTypes, SendTypes, From
  <1>a. ASSUME TakeHead(a, "got") \/ TakeHead(a, "file") \/ TakeEnd(a)
        PROVE  /\ pipe'[a] = pipe[a] /\ rcv'[c] = rcv[c] /\ cur'[c] = cur[c] /\ left'[c] = left[c]
    <2>1. 1 \in 0 .. Len(From(a)) /\ Consume(a, 1)
      BY <1>0, <1>a DEF TakeHead, TakeEnd, Readable, From
    <2>2. pipe'[a] = pipe[a]
      BY <1>0, <2>1, ConsumeTyped
    <2> QED
      BY <1>0, <1>a, <2>2 DEF TakeHead, TakeEnd
  <1>1. CASE ReceiveBegin(a) \/ Select(a) \/ Got(a) \/ MakePath(a) \/ ReadDone(a) \/ StaleFails(a)
    BY <1>0, <1>1 DEF ReceiveBegin, Select, Got, MakePath, ReadDone, StaleFails, dirVars
  <1>2. CASE ReadFirst(a) \/ ReadAgain(a)
    BY <1>0, <1>2, <1>a DEF ReadFirst, ReadAgain, dirVars
  <1>3. CASE ReadData(a)
    <2>1. Taken(a) \in 0 .. Len(From(a)) /\ Buffer(a) \in Seq(Cells)
      BY <1>3, ReadDataTakes, BufferTyped
    <2>2. pipe'[a] = pipe[a]
      BY <1>0, <1>3, <2>1, ReadDataTakes, ConsumeTyped
    <2>3. rcv' = rcv /\ cur' = cur /\ made' = made /\ mirror' = mirror /\ left'[c] = left[c]
      BY <1>0, <1>3, ReadDataTakes
    <2>4. data' = data \/ data' = [data EXCEPT ![a][cur[a]] = data[a][cur[a]] \o Buffer(a)]
      BY <1>3, ReadDataTakes
    <2>5. data'[c] = data[c]
      BY <1>0, <2>4 DEF ReceiveTypes
    <2> QED
      BY <2>2, <2>3, <2>5
  <1>4. CASE Stale(a)
    <2>1. /\ pipe' = pipe /\ cur' = cur /\ left' = left /\ made' = made /\ rcv'[c] = rcv[c]
          /\ mirror'[c] = mirror[c]
      BY <1>0, <1>4 DEF Stale, WriteJunk
    <2>2. \/ data' = data
          \/ data' = [data EXCEPT ![a][cur[a]] = [i \in 1 .. SizeOf(cur[a]) |-> Junk(cur[a])]]
      BY <1>4 DEF Stale, WriteJunk
    <2>3. data'[c] = data[c]
      BY <1>0, <2>2 DEF ReceiveTypes
    <2> QED
      BY <2>1, <2>3
  <1> QED
    BY <1>1, <1>2, <1>3, <1>4 DEF ReceiveStep

\* Nothing moves from s to c; each may come to open the FIFO, or end.
LEMMA FlowRests ==
  ASSUME NEW c \in Clients, NEW s \in Clients, Flow(c, s),
         pos'[s] = pos[s], off'[s] = off[s], pipe'[s] = pipe[s],
         cur'[c] = cur[c], left'[c] = left[c], made'[c] = made[c],
         mirror'[c] = mirror[c], data'[c] = data[c], Removed(c) => Removed(c)',
         \/ snd'[s] = snd[s] \/ snd'[s] \in {"err", "killed"}
         \/ snd[s] \in {"none", "open"} /\ snd'[s] \in {"open", "opened"},
         \/ rcv'[c] = rcv[c] \/ rcv'[c] \in {"err", "killed"}
         \/ rcv[c] \in {"none", "open"} /\ rcv'[c] \in {"open", "opened"}
  PROVE  Flow(c, s)'
  <1>1. CASE snd'[s] \in {"err", "killed"}
    BY <1>1 DEF Flow
  <1>2. CASE snd'[s] \notin {"err", "killed"}
    <2>1. rcv[c] # "stale" /\ Honest(c) /\ snd[s] \notin {"err", "killed"}
      BY <1>2 DEF Flow
    <2>2. Honest(c)' /\ rcv'[c] # "stale"
      BY <2>1 DEF Honest
    <2>3. CASE rcv'[c] \in {"err", "killed"}
      BY <2>2, <2>3 DEF Flow
    <2>4. CASE rcv'[c] \notin {"err", "killed"}
      <3>1. PICK p \in Places(s), q \in Places(s) :
               /\ Leads(s, p, q, pipe[s]) /\ ReceiverAt(c, s, p)
               /\ SenderAt(s, q) /\ Stored(c, s, p)
        BY <2>1, <2>4 DEF Flow
      <3>2. SenderAt(s, q)'
        BY <1>2, <3>1 DEF SenderAt
      <3>3. ReceiverAt(c, s, p)'
        BY <2>4, <3>1 DEF ReceiverAt
      <3>4. /\ Unread(c, s, p[1]) => Unread(c, s, p[1])'
            /\ Kept(c, s, p[1]) => Kept(c, s, p[1])'
        <4>1. /\ (Begins(c)' <=> Begins(c))
              /\ (rcv'[c] = "again" <=> rcv[c] = "again")
              /\ (rcv[c] \in {"none", "open", "opened"} => rcv'[c] \in {"none", "open", "opened"})
          BY <2>4 DEF Begins
        <4> QED
          BY <4>1 DEF Unread, Kept
      <3>5. Stored(c, s, p)'
        BY <2>4, <3>1, <3>4 DEF Stored
      <3>6. Leads(s, p, q, pipe'[s])
        BY <3>1
      <3> QED
        BY <2>2, <3>2, <3>3, <3>5, <3>6, FlowMoves
    <2> QED
      BY <2>3, <2>4
  <1> QED
    BY <1>1, <1>2

\* The mirror is removed, in part or in whole: it holds nothing that was not
\* read, and nothing of what is to come.
LEMMA FlowRemoves ==
  ASSUME NEW c \in Clients, NEW s \in Clients, Flow(c, s), SameSender(s), pipe'[s] = pipe[s],
         rcv'[c] = rcv[c], cur'[c] = cur[c], left'[c] = left[c], Removed(c)',
         \/ mirror'[c] = {} /\ data'[c] = [n \in Nodes |-> <<>>]
         \/ mirror'[c] = mirror[c] /\ data'[c] = data[c]
  PROVE  Flow(c, s)'
  <1>1. CASE snd[s] \in {"err", "killed"}
    BY <1>1 DEF Flow, SameSender
  <1>2. CASE snd[s] \notin {"err", "killed"}
    <2>1. rcv'[c] # "stale" /\ Honest(c)
      BY <1>2 DEF Flow
    <2>2. data'[c] = data[c] \/ \A m \in Nodes : data'[c][m] = Begun(m, 0)
      BY BegunFacts
    <2>3. Honest(c)'
      BY <2>1, <2>2, SizeTyped DEF Honest
    <2>4. CASE rcv[c] \in {"err", "killed"}
      BY <2>1, <2>3, <2>4 DEF Flow
    <2>5. CASE rcv[c] \notin {"err", "killed"}
      <3>1. PICK p \in Places(s), q \in Places(s) :
               /\ Leads(s, p, q, pipe[s]) /\ ReceiverAt(c, s, p)
               /\ SenderAt(s, q) /\ Stored(c, s, p)
        BY <1>2, <2>5 DEF Flow
      <3>2. SenderAt(s, q)'
        BY <3>1, SenderStays
      <3>3. ReceiverAt(c, s, p)'
        BY <3>1 DEF ReceiverAt
      <3>4. Unread(c, s, p[1])'
        BY <2>2, <3>1, ItemsTyped DEF Stored, Unread, Begins
      <3>5. Stored(c, s, p)'
        BY <3>1, <3>4 DEF Stored
      <3>6. Leads(s, p, q, pipe'[s])
        BY <3>1
      <3> QED
        BY <2>1, <2>3, <3>2, <3>3, <3>5, <3>6, FlowMoves
    <2> QED
      BY <2>4, <2>5
  <1> QED
    BY <1>1, <1>2

\* A mirror that is removed stays so.
LEMMA RemovedStays ==
  ASSUME SyncInv, NEW a \in Clients, NEW c \in Clients, SyncStep(a), Removed(c)
  PROVE  Removed(c)' /\ (a = c => RemoveTop(a))
  <1>1. SyncTypes /\ ClientInv(c)
    BY DEF SyncInv
  <1>2. sync[c] \in {"rmdir", "done"}
    BY <1>1 DEF ClientInv, Removed
  <1>3. CASE a = c
    <2>1. RemoveTop(a)
      BY <1>2, <1>3 DEF SyncStep, Start, Fork, Flagged, ChildFailed, ChildSucceeded, Waited,
                        RemoveContents
    <2> QED
      BY <1>1, <1>3, <2>1 DEF RemoveTop, Return, Set, Removed, SyncTypes
  <1>4. CASE a # c
    <2>1. sync'[c] = sync[c] /\ result'[c] = result[c]
      BY <1>1, <1>4 DEF SyncStep, Start, Fork, Flagged, ChildFailed, ChildSucceeded, Waited,
                        RemoveContents, RemoveTop, Return, Set, SyncTypes
    <2> QED
      BY <1>4, <2>1 DEF Removed
  <1> QED
    BY <1>3, <1>4

\* Steps of the sync process.
LEMMA SyncStepFlows ==
  ASSUME SyncInv, SendTypes, ReceiveTypes, NEW a \in Clients, NEW c \in Clients, NEW s \in Clients,
         SyncStep(a), Flow(c, s)
  PROVE  Flow(c, s)'
  <1> USE DEF Set, sndVars, rcvVars, dirVars
  <1>0. SyncTypes /\ ClientInv(a)
    BY DEF SyncInv
  <1>1. Removed(c) => Removed(c)'
    BY RemovedStays
  <1>2. CASE Start(a)
    <2>1. /\ pos' = pos /\ off' = off /\ pipe' = pipe /\ cur' = cur /\ left' = left
          /\ made' = made /\ mirror' = mirror /\ data' = data /\ rcv' = rcv
      BY <1>2 DEF Start
    <2>2. snd[a] = "none"
      BY <1>0, <1>2 DEF Start, ClientInv
    <2>3. \/ snd'[s] = snd[s] \/ snd'[s] \in {"err", "killed"}
          \/ snd[s] \in {"none", "open"} /\ snd'[s] \in {"open", "opened"}
      BY <1>0, <1>2, <2>2 DEF Start, Starts, SyncTypes
    <2> QED
      BY <1>1, <2>1, <2>3, FlowRests
  <1>3. CASE Fork(a)
    <2>1. /\ pos' = pos /\ off' = off /\ pipe' = pipe /\ cur' = cur /\ left' = left
          /\ made' = made /\ mirror' = mirror /\ data' = data /\ snd' = snd
      BY <1>3 DEF Fork
    <2>2. rcv[a] = "none"
      BY <1>0, <1>3 DEF Fork, ClientInv
    <2>3. \/ rcv'[c] = rcv[c] \/ rcv'[c] \in {"err", "killed"}
          \/ rcv[c] \in {"none", "open"} /\ rcv'[c] \in {"open", "opened"}
      BY <1>0, <1>3, <2>2 DEF Fork, Starts, SyncTypes
    <2> QED
      BY <1>1, <2>1, <2>3, FlowRests
  <1>4. CASE Flagged(a) \/ ChildFailed(a) \/ ChildSucceeded(a) \/ Waited(a)
    <2>1. /\ pos' = pos /\ off' = off /\ pipe' = pipe /\ cur' = cur /\ left' = left
          /\ made' = made /\ mirror' = mirror /\ data' = data /\ snd' = snd /\ rcv' = rcv
      BY <1>4 DEF Flagged, ChildFailed, ChildSucceeded, Waited
    <2> QED
      BY <1>1, <2>1, FlowRests
  <1>5. CASE RemoveContents(a)
    <2>1. /\ pos' = pos /\ off' = off /\ pipe' = pipe /\ cur' = cur /\ left' = left
          /\ made' = made /\ snd' = snd /\ rcv' = rcv
      BY <1>5 DEF RemoveContents
    <2>2. CASE a = c
      <3>1. mirror'[c] = {} /\ data'[c] = [n \in Nodes |-> <<>>]
        BY <1>0, <1>5, <2>2 DEF RemoveContents, SyncTypes, ReceiveTypes
      <3>2. Removed(c)'
        BY <1>0, <1>5, <2>2 DEF RemoveContents, Removed, SyncTypes
      <3> QED
        BY <2>1, <3>1, <3>2, FlowRemoves DEF SameSender
    <2>3. CASE a # c
      <3>1. mirror'[c] = mirror[c] /\ data'[c] = data[c]
        BY <1>0, <1>5, <2>3 DEF RemoveContents, SyncTypes, ReceiveTypes
      <3> QED
        BY <1>1, <2>1, <3>1, FlowRests
    <2> QED
      BY <2>2, <2>3
  <1>6. CASE RemoveTop(a)
    <2>1. /\ pos' = pos /\ off' = off /\ pipe' = pipe /\ cur' = cur /\ left' = left
          /\ mirror' = mirror /\ data' = data /\ snd' = snd /\ rcv' = rcv
      BY <1>6 DEF RemoveTop
    <2>2. CASE a = c
      <3>1. Removed(c)
        BY <1>6, <2>2 DEF RemoveTop, Removed
      <3> QED
        BY <1>1, <2>1, <3>1, FlowRemoves DEF SameSender
    <2>3. CASE a # c
      <3>1. made'[c] = made[c]
        BY <1>0, <1>6, <2>3 DEF RemoveTop, SyncTypes
      <3> QED
        BY <1>1, <2>1, <3>1, FlowRests
    <2> QED
      BY <2>2, <2>3
  <1> QED
    BY <1>2, <1>3, <1>4, <1>5, <1>6 DEF SyncStep

\* An open that comes about, signals and deaths.
LEMMA OutsideFlows ==
  ASSUME SyncInv, SendTypes, ReceiveTypes, NEW a \in Clients, NEW c \in Clients, NEW s \in Clients,
         OpenFifo(a) \/ SigInt(a) \/ ClientQuits(a) \/ Dies(a), Flow(c, s)
  PROVE  Flow(c, s)'
  <1> USE DEF Set, sndVars, rcvVars, dirVars
  <1>0. SyncTypes /\ Other(a) \in Clients
    BY TwoClients DEF SyncInv
  <1>1. /\ pos' = pos /\ off' = off /\ pipe' = pipe /\ cur' = cur /\ left' = left
        /\ made' = made /\ mirror' = mirror /\ data' = data /\ sync' = sync /\ result' = result
    BY DEF OpenFifo, SigInt, ClientQuits, Dies, SendEnds, ReceiveEnds, syncVars
  <1>2. Removed(c) => Removed(c)'
    BY <1>1 DEF Removed
  <1>3. /\ \/ snd'[s] = snd[s] \/ snd'[s] \in {"err", "killed"}
           \/ snd[s] \in {"none", "open"} /\ snd'[s] \in {"open", "opened"}
        /\ \/ rcv'[c] = rcv[c] \/ rcv'[c] \in {"err", "killed"}
           \/ rcv[c] \in {"none", "open"} /\ rcv'[c] \in {"open", "opened"}
    BY <1>0 DEF OpenFifo, Reader, SigInt, ClientQuits, Dies, SendEnds, ReceiveEnds, SyncTypes
  <1> QED
    BY <1>1, <1>2, <1>3, FlowRests

--------------------------------------------------------------------------------

\* What flows between the two clients is what is stored, at every step of
\* sync_send.c, sync_receive.c and sync.c.
THEOREM FlowInvariance == Spec => []FlowInv
  <1>1. Init => FlowInv
    BY SyncInvInit, FlowTypesInit, FlowStart, TwoClients DEF FlowInv
  <1>2. FlowInv /\ [Next]_vars => FlowInv'
    <2> SUFFICES ASSUME FlowInv, [Next]_vars PROVE FlowInv'
      OBVIOUS
    <2>0. SyncInv /\ SyncTypes /\ SendTypes /\ ReceiveTypes /\ \A c \in Clients : Flow(c, Other(c))
      BY DEF FlowInv, SyncInv
    <2>1. CASE Next
      <3>1. PICK a \in Clients : \/ SyncStep(a) \/ OpenFifo(a) \/ SendStep(a) \/ ReceiveStep(a)
                                 \/ StaleFails(a) \/ SigInt(a) \/ ClientQuits(a) \/ Dies(a)
        BY <2>1 DEF Next
      <3>2. SyncInv'
        BY <2>0, <3>1, SyncStepKeeps, SendStepKeeps, ReceiveStepMoves, ReceiverMovesKeeps,
           OutsideKeeps
      <3>3. CASE SyncStep(a)
        BY <2>0, <3>2, <3>3, ElseTypes, SyncStepFlows, TwoClients DEF FlowInv
      <3>4. CASE OpenFifo(a) \/ SigInt(a) \/ ClientQuits(a) \/ Dies(a)
        BY <2>0, <3>2, <3>4, ElseTypes, OutsideFlows, TwoClients DEF FlowInv
      <3>5. CASE SendStep(a)
        <4>1. SendTypes'
          BY <2>0, <3>5, SendStepTypes
        <4>2. /\ ReceiveTypes' /\ cur' = cur /\ left' = left /\ made' = made /\ mirror' = mirror
              /\ data' = data /\ rcv' = rcv /\ sync' = sync /\ result' = result
          BY <2>0, <3>5 DEF SendStep, SendBegin, SendHead, SendData, SendNext, SendEnd, rcvVars,
                            dirVars, syncVars, ReceiveTypes
        <4>3. ASSUME NEW c \in Clients PROVE Flow(c, Other(c))'
          <5>1. CASE Other(c) = a
            BY <2>0, <3>5, <5>1, SendStepFlows
          <5>2. CASE Other(c) # a
            <6>1. SameSender(Other(c)) /\ pipe'[Other(c)] = pipe[Other(c)] /\ Other(c) \in Clients
              BY <2>0, <3>5, <5>2, TwoClients
                 DEF SendStep, SendBegin, SendHead, SendData, SendNext, SendEnd, SendEnds, Set,
                     SameSender, SendTypes, SyncTypes
            <6>2. SameReceiver(c)
              BY <4>2 DEF SameReceiver, Removed
            <6> QED
              BY <2>0, <6>1, <6>2, FlowSame
          <5> QED
            BY <5>1, <5>2
        <4> QED
          BY <3>2, <4>1, <4>2, <4>3 DEF FlowInv
      <3>6. CASE ReceiveStep(a) \/ StaleFails(a)
        <4>1. SendTypes' /\ ReceiveTypes'
          BY <2>0, <3>6, ReceiveStepTypes
        <4>2. ASSUME NEW c \in Clients PROVE Flow(c, Other(c))'
          <5>1. CASE c = a
            BY <2>0, <3>6, <5>1, ReceiveStepFlows, TwoClients
          <5>2. CASE c # a
            <6>1. Other(c) = a /\ Other(a) # a /\ Other(a) \in Clients
              BY <5>2, TwoClients
            <6>2. /\ rcv'[c] = rcv[c] /\ cur'[c] = cur[c] /\ left'[c] = left[c]
                  /\ made'[c] = made[c] /\ mirror'[c] = mirror[c]
                  /\ data'[c] = data[c] /\ pipe'[a] = pipe[a]
              BY <2>0, <3>6, <5>2, ReceiveStepLocal
            <6>3. SameSender(a) /\ sync' = sync /\ result' = result
              BY <3>6 DEF ReceiveStep, ReceiveBegin, Select, ReadFirst, Got, MakePath, ReadData,
                          ReadDone, ReadAgain, Stale, StaleFails, SameSender, syncVars, sndVars
            <6>4. SameReceiver(c)
              BY <6>2, <6>3 DEF SameReceiver, Removed
            <6> QED
              BY <2>0, <6>1, <6>2, <6>3, <6>4, FlowSame
          <5> QED
            BY <5>1, <5>2
        <4> QED
          BY <3>2, <4>1, <4>2 DEF FlowInv
      <3> QED
        BY <3>1, <3>3, <3>4, <3>5, <3>6
    <2>2. CASE UNCHANGED vars
      <3>1. SyncInv'
        BY <2>0, <2>2 DEF vars, syncVars, sndVars, rcvVars, dirVars, told, SyncInv, SyncTypes,
                          ClientInv, SenderSettled, ReceiverSettled
      <3>2. SendTypes' /\ ReceiveTypes'
        BY <2>0, <2>2 DEF vars, sndVars, rcvVars, dirVars, SendTypes, ReceiveTypes
      <3>3. ASSUME NEW c \in Clients PROVE Flow(c, Other(c))'
        BY <2>0, <2>2, FlowSame, TwoClients DEF vars, syncVars, sndVars, rcvVars, dirVars,
              SameSender, SameReceiver, Removed
      <3> QED
        BY <3>1, <3>2, <3>3 DEF FlowInv
    <2> QED
      BY <2>1, <2>2
  <1> QED
    BY <1>1, <1>2, PTL DEF Spec

\* A receiver stores bytes that it did not read, or loops without input, only
\* after the sender has failed (sync_receive.c:155 and 278).
THEOREM NoGarbage == Spec => []GarbageOnlyAfterFailure
  <1>1. FlowInv => GarbageOnlyAfterFailure
    <2> SUFFICES ASSUME FlowInv, NEW c \in Clients, snd[Other(c)] \notin {"err", "killed"}
                 PROVE  rcv[c] # "stale" /\ \A n \in Nodes : IsPrefix(data[c][n], Content(n))
      BY DEF GarbageOnlyAfterFailure
    <2>1. rcv[c] # "stale" /\ Honest(c)
      BY DEF FlowInv, Flow
    <2> QED
      BY <2>1, BegunPrefix DEF Honest
  <1> QED
    BY <1>1, FlowInvariance, PTL

\* When a sender and the receiver of its files end without error, the mirror is
\* a complete copy, unless the sync process has removed it.
THEOREM SuccessComplete == Spec => []SuccessIsComplete
  <1>1. FlowInv => SuccessIsComplete
    <2> SUFFICES ASSUME FlowInv, NEW c \in Clients, rcv[c] = "ok", snd[Other(c)] = "ok",
                        ~Removed(c)
                 PROVE  Complete(c)
      BY DEF SuccessIsComplete, Removed
    <2>1. PICK s \in Clients : s = Other(c)
      BY TwoClients
    <2>2. PICK p \in Places(s) : ReceiverAt(c, s, p) /\ Stored(c, s, p) /\ Honest(c)
      BY <2>1 DEF FlowInv, Flow
    <2>3. p = <<Items(s) + 1, 0>> /\ p[1] = Items(s) + 1 /\ Kept(c, s, p[1]) /\ ~Begins(c)
      BY <2>2 DEF ReceiverAt, Stored, Begins
    <2>4. PICK theirs : theirs = Below[Root[s]] \ {Root[s]}
      OBVIOUS
    <2>5. Items(s) \in Nat /\ p[1] + 1 = Items(s) + 2
      BY <2>3, ItemsTyped
    <2>6. made[c] /\ mirror[c] = theirs
      BY <2>3, <2>4, <2>5, PathsFacts DEF Kept
    <2>7. ASSUME NEW n \in theirs PROVE data[c][n] = Content(n)
      <3>1. n \in Nodes
        BY <2>6, <2>7 DEF FlowInv, SyncInv, SyncTypes
      <3>2. CASE n \in Dirs
        <4>1. SizeOf(n) = 0
          BY <3>2, SizeTyped
        <4>2. data[c][n] = Begun(n, 0)
          BY <2>2, <3>1, <4>1 DEF Honest
        <4> QED
          BY <3>1, <4>1, <4>2, BegunFacts
      <3>3. CASE n \notin Dirs
        <4>1. PICK k \in 1 .. Items(s) : n = Item(s, k)
          BY <2>4, <2>7, <3>3, AllItems
        <4>2. k < p[1]
          BY <2>3, <2>5
        <4> QED
          BY <2>3, <4>1, <4>2 DEF Kept
      <3> QED
        BY <3>2, <3>3
    <2> QED
      BY <2>1, <2>4, <2>6, <2>7 DEF Complete
  <1> QED
    BY <1>1, FlowInvariance, PTL
================================================================================
