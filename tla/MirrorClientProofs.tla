-------------------------- MODULE MirrorClientProofs ---------------------------
(***************************************************************************)
(* What holds of the list of children for any clients that come and go,    *)
(* any failures and any signals.                                           *)
(***************************************************************************)
EXTENDS MirrorClient, SequenceTheorems, TLAPS

\* A client has one node in the list: add_pid finds the one there is.
OneNodeEach == \A m, n \in 1 .. Len(children) : children[m].id = children[n].id => m = n

\* The inductive invariant.
MirrorInv == TypeOK /\ TriesBounded /\ OneNodeEach

Procs == Seq([peer : Peers, st : {"run", "told", "wrote", "zombie", "gone"}])
Nodes(n) == [id : Peers, pid : 1 .. n, times : Nat \ {0}]

\* A process that changes its state leaves the table of processes well typed.
LEMMA StateTyped ==
  ASSUME NEW procs \in Procs, NEW k \in 1 .. Len(procs),
         NEW st \in {"run", "told", "wrote", "zombie", "gone"}
  PROVE  Becomes(procs, k, st) \in Procs /\ Len(Becomes(procs, k, st)) = Len(procs)
  <1> DEFINE new == [peer |-> procs[k].peer, st |-> st]
  <1>1. new \in [peer : Peers, st : {"run", "told", "wrote", "zombie", "gone"}]
    BY ElementOfSeq DEF Procs
  <1> HIDE DEF new
  <1>2. /\ [procs EXCEPT ![k] = new] \in Procs
        /\ Len([procs EXCEPT ![k] = new]) = Len(procs)
    BY <1>1, ExceptSeq DEF Procs
  <1> QED
    BY <1>2 DEF new, Becomes

\* Pids that are in range stay so when processes are added.
LEMMA ListGrows ==
  ASSUME NEW m \in Nat, NEW n \in Nat, m <= n
  PROVE  /\ \A s \in Seq(1 .. m) : s \in Seq(1 .. n)
         /\ \A s \in Seq(Nodes(m)) : s \in Seq(Nodes(n))
  <1>1. 1 .. m \subseteq 1 .. n /\ Nodes(m) \subseteq Nodes(n)
    BY DEF Nodes
  <1> QED
    BY <1>1, SeqMonotonic

\* What Append returns.
LEMMA AppendTyped ==
  ASSUME NEW S, NEW s \in Seq(S), NEW e \in S
  PROVE  /\ Append(s, e) \in Seq(S) /\ Len(Append(s, e)) = Len(s) + 1
         /\ Append(s, e)[Len(s) + 1] = e
         /\ \A k \in 1 .. Len(s) : Append(s, e)[k] = s[k]
  OBVIOUS

\* add_pid keeps one node per client and counts one more try.
LEMMA AddKeeps ==
  ASSUME NEW n \in Nat, NEW pid \in 1 .. n, NEW id \in Peers,
         children \in Seq(Nodes(n)), TriesBounded, OneNodeEach, MayRetry(id),
         children' = add_pid(pid, id)
  PROVE  children' \in Seq(Nodes(n)) /\ TriesBounded' /\ OneNodeEach'
  <1>1. CASE Entries(id) = {}
    <2> DEFINE node == [id |-> id, pid |-> pid, times |-> 1]
    <2>1. children' = Append(children, node) /\ node \in Nodes(n)
      BY <1>1 DEF add_pid, Nodes
    <2>2. /\ children' \in Seq(Nodes(n)) /\ Len(children') = Len(children) + 1
          /\ children'[Len(children) + 1] = node
          /\ \A k \in 1 .. Len(children) : children'[k] = children[k]
      BY <2>1, AppendTyped
    <2>3. \A k \in 1 .. Len(children) : children[k].id # id
      BY <1>1 DEF Entries
    <2>4. node.id = id /\ node.times = 1
      OBVIOUS
    <2> HIDE DEF node
    <2>5. TriesBounded'
      BY <2>2, <2>4 DEF TriesBounded
    <2>6. OneNodeEach'
      BY <2>2, <2>3, <2>4 DEF OneNodeEach
    <2> QED
      BY <2>2, <2>5, <2>6
  <1>2. CASE Entries(id) # {}
    <2>1. PICK e \in Entries(id) : e = CHOOSE k \in Entries(id) : TRUE
      BY <1>2
    <2>2. e \in 1 .. Len(children) /\ children[e].id = id /\ Entries(id) = {e}
      BY <2>1 DEF Entries, OneNodeEach
    <2>3. children[e].times <= 2 /\ children[e] \in Nodes(n)
      BY <1>2, <2>1, <2>2, ElementOfSeq DEF MayRetry, times_tried
    <2> DEFINE node == [id |-> id, pid |-> pid, times |-> children[e].times + 1]
    <2>4. node \in Nodes(n) /\ node.times <= 3 /\ node.id = id
      BY <2>3 DEF Nodes
    <2>5. children' = [k \in 1 .. Len(children) |-> IF k = e THEN node ELSE children[k]]
      BY <1>2, <2>2 DEF add_pid
    <2> HIDE DEF node
    <2>6. Len(children) \in Nat /\ \A k \in 1 .. Len(children) : children[k] \in Nodes(n)
      BY ElementOfSeq
    <2>7. children' \in Seq(Nodes(n)) /\ Len(children') = Len(children)
      BY <2>4, <2>5, <2>6
    <2>8. TriesBounded'
      BY <2>4, <2>5, <2>7 DEF TriesBounded
    <2>9. OneNodeEach'
      BY <2>2, <2>4, <2>5, <2>7 DEF OneNodeEach
    <2> QED
      BY <2>7, <2>8, <2>9
  <1> QED
    BY <1>1, <1>2

\* fork in check_common_dir and in retry, with the table of processes it finds.
LEMMA SynchKeeps ==
  ASSUME NEW procs \in Procs, Len(procs) = Len(proc), NEW id \in Peers, MirrorInv,
         MayRetry(id), synch(procs, id)
  PROVE  /\ proc' \in Procs /\ Len(proc) <= Len(proc')
         /\ children' \in Seq(Nodes(Len(proc'))) /\ TriesBounded' /\ OneNodeEach'
  <1>1. Len(proc) \in Nat /\ children \in Seq(Nodes(Len(proc))) /\ TriesBounded /\ OneNodeEach
    BY DEF MirrorInv, TypeOK, Nodes
  <1>2. CASE proc' = procs /\ UNCHANGED children
    BY <1>1, <1>2 DEF TriesBounded, OneNodeEach
  <1>3. CASE /\ proc' = Append(procs, [peer |-> id, st |-> "run"])
             /\ children' = add_pid(Len(procs) + 1, id)
    <2>1. proc' \in Procs /\ Len(proc') = Len(proc) + 1
      BY <1>1, <1>3, AppendTyped DEF Procs
    <2>2. children \in Seq(Nodes(Len(proc')))
      BY <1>1, <2>1, ListGrows
    <2>3. Len(procs) + 1 \in 1 .. Len(proc') /\ Len(proc') \in Nat
      BY <1>1, <2>1
    <2> QED
      BY <1>1, <1>3, <2>1, <2>2, <2>3, AddKeeps
  <1> QED
    BY <1>2, <1>3 DEF synch

\* delete_entry takes at most the first node out.
LEMMA DeleteKeeps ==
  ASSUME MirrorInv, NEW id, NEW through, delete_entry(id, through)
  PROVE  /\ children' \in Seq(Nodes(Len(proc))) /\ TriesBounded' /\ OneNodeEach'
         /\ pc' \in Places /\ forgot' \in BOOLEAN
  <1>1. /\ children \in Seq(Nodes(Len(proc))) /\ TriesBounded /\ OneNodeEach
        /\ pc \in Places /\ forgot \in BOOLEAN
    BY DEF MirrorInv, TypeOK, Nodes
  <1>2. pc' \in Places
    BY <1>1 DEF delete_entry, Places
  <1>3. forgot' \in BOOLEAN
    BY <1>1 DEF delete_entry
  <1>4. CASE UNCHANGED children
    BY <1>1, <1>2, <1>3, <1>4 DEF TriesBounded, OneNodeEach
  <1>5. CASE already_synced(id) /\ children' = Tail(children)
    <2>1. /\ children' \in Seq(Nodes(Len(proc))) /\ Len(children') = Len(children) - 1
          /\ Len(children) \in Nat
          /\ \A k \in 1 .. Len(children') : children'[k] = children[k + 1]
      BY <1>1, <1>5, HeadTailProperties DEF already_synced
    <2>2. TriesBounded'
      BY <1>1, <2>1 DEF TriesBounded
    <2>3. OneNodeEach'
      BY <1>1, <2>1 DEF OneNodeEach
    <2> QED
      BY <1>2, <1>3, <2>1, <2>2, <2>3
  <1> QED
    BY <1>4, <1>5 DEF delete_entry

\* A signal leaves the flag, the pending signals and the history well typed.
LEMMA RaiseTyped ==
  ASSUME TypeOK, NEW sig \in {"INT", "USR1", "ALRM"}, Raise(sig)
  PROVE  /\ sync_flag' \in {-1, 0, 1, 2} /\ blocked' \in BOOLEAN
         /\ pending' \subseteq {"INT", "USR1", "ALRM"} /\ lost' \subseteq {"INT", "USR1"}
  <1>1. FlagOf(sig) \in {-1, 1, 2}
    BY DEF FlagOf
  <1>2. Overwritten(FlagOf(sig)) \subseteq {"INT", "USR1"}
    BY DEF Overwritten
  <1> HIDE DEF Overwritten, FlagOf
  <1> QED
    BY <1>1, <1>2 DEF TypeOK, Raise, SetFlag

\* A step that leaves list and processes alone keeps what is said about them.
LEMMA AsideKeeps ==
  ASSUME MirrorInv, UNCHANGED <<children, proc>>
  PROVE  TriesBounded' /\ OneNodeEach'
  BY DEF MirrorInv, TriesBounded, OneNodeEach

\* Every step of the client keeps the invariant.
LEMMA ClientKeeps ==
  ASSUME MirrorInv, ClientStep
  PROVE  MirrorInv'
  <1> USE DEF sigVars, dirVars, listVars
  <1>0. TypeOK /\ proc \in Procs /\ children \in Seq(Nodes(Len(proc)))
    BY DEF MirrorInv, TypeOK, Procs, Nodes
  <1>1. CASE Top
    <2>1. TypeOK'
      BY <1>0, <1>1 DEF TypeOK, Top, Places
    <2> QED
      BY <1>1, <2>1, AsideKeeps DEF MirrorInv, Top
  <1>2. CASE Visit
    <2>1. PICK id \in todo :
             IF Spins(id)
             THEN pc' = "hung" /\ blocked' = TRUE /\ UNCHANGED listVars
             ELSE /\ IF already_synced(id) THEN UNCHANGED listVars
                                           ELSE synch(proc, id) /\ UNCHANGED forgot
                  /\ UNCHANGED <<pc, blocked>>
      BY <1>2 DEF Visit
    <2>2. id \in Peers /\ Len(proc) \in Nat
      BY <1>0, <2>1 DEF TypeOK
    <2>3. CASE UNCHANGED <<children, proc, forgot>>
      <3>1. TypeOK'
        BY <1>0, <1>2, <2>1, <2>3 DEF TypeOK, Visit, Places
      <3> QED
        BY <2>3, <3>1, AsideKeeps DEF MirrorInv
    <2>4. CASE ~Spins(id) /\ ~already_synced(id) /\ synch(proc, id)
               /\ UNCHANGED <<forgot, pc, blocked>>
      <3>1. Entries(id) = {}
        BY <1>0, <2>4 DEF Spins, already_synced, Entries
      <3>2. MayRetry(id)
        BY <3>1 DEF MayRetry, times_tried
      <3>3. /\ proc' \in Procs /\ Len(proc) <= Len(proc')
            /\ children' \in Seq(Nodes(Len(proc'))) /\ TriesBounded' /\ OneNodeEach'
        BY <1>0, <2>2, <2>4, <3>2, SynchKeeps
      <3>4. pipe' \in Seq(1 .. Len(proc'))
        <4>1. Len(proc') \in Nat /\ pipe' = pipe /\ pipe \in Seq(1 .. Len(proc))
          BY <1>0, <1>2, <3>3 DEF TypeOK, Visit, Procs
        <4> QED
          BY <2>2, <3>3, <4>1, ListGrows
      <3>5. TypeOK'
        BY <1>0, <1>2, <2>4, <3>3, <3>4 DEF TypeOK, Visit, Procs, Nodes
      <3> QED
        BY <3>3, <3>5 DEF MirrorInv
    <2> QED
      BY <2>1, <2>3, <2>4
  <1>3. CASE ScanEnds \/ CheckEnds
    <2>1. TypeOK'
      BY <1>0, <1>3 DEF TypeOK, ScanEnds, CheckEnds, Goes, Places
    <2> QED
      BY <1>3, <2>1, AsideKeeps DEF MirrorInv, ScanEnds, CheckEnds, Goes
  <1>4. CASE Block
    <2>1. TypeOK'
      BY <1>0, <1>4 DEF TypeOK, Block, Places
    <2> QED
      BY <1>4, <2>1, AsideKeeps DEF MirrorInv, Block
  <1>5. CASE Collect
    <2> DEFINE pid == Head(pipe)
               reaped == Becomes(proc, pid, "gone")
    <2>1. Len(proc) \in Nat /\ pipe \in Seq(1 .. Len(proc)) /\ pipe # <<>>
      BY <1>0, <1>5 DEF TypeOK, Collect
    <2>2. pid \in 1 .. Len(proc) /\ pipe' \in Seq(1 .. Len(proc))
      BY <1>5, <2>1, HeadTailProperties DEF Collect
    <2>3. reaped \in Procs /\ Len(reaped) = Len(proc)
      BY <1>0, <2>2, StateTyped
    <2>4. ids \subseteq Peers
      BY <1>0 DEF TypeOK
    <2> HIDE DEF reaped
    <2>5. CASE delete_entry(Status(pid), {pid}) /\ proc' = reaped
      <3>1. /\ children' \in Seq(Nodes(Len(proc))) /\ TriesBounded' /\ OneNodeEach'
            /\ pc' \in Places /\ forgot' \in BOOLEAN
        BY <2>5, DeleteKeeps
      <3>2. TypeOK'
        BY <1>0, <1>5, <2>2, <2>3, <2>5, <3>1 DEF TypeOK, Collect, Procs, Nodes
      <3> QED
        BY <3>1, <3>2 DEF MirrorInv
    <2>6. CASE /\ cl_still_exists(Status(pid)) /\ MayRetry(Status(pid))
               /\ synch(reaped, Status(pid)) /\ UNCHANGED <<pc, forgot>>
      <3>1. /\ proc' \in Procs /\ Len(proc) <= Len(proc')
            /\ children' \in Seq(Nodes(Len(proc'))) /\ TriesBounded' /\ OneNodeEach'
        BY <2>3, <2>4, <2>6, SynchKeeps DEF cl_still_exists
      <3>2. pipe' \in Seq(1 .. Len(proc'))
        BY <2>1, <2>2, <3>1, ListGrows DEF Procs
      <3>3. TypeOK'
        BY <1>0, <1>5, <2>6, <3>1, <3>2 DEF TypeOK, Collect, Procs, Nodes
      <3> QED
        BY <3>1, <3>3 DEF MirrorInv
    <2>7. CASE proc' = reaped /\ UNCHANGED <<pc, children, forgot>>
      <3>1. TypeOK'
        BY <1>0, <1>5, <2>2, <2>3, <2>7 DEF TypeOK, Collect, Procs, Nodes
      <3> QED
        BY <2>7, <3>1 DEF MirrorInv, TriesBounded, OneNodeEach
    <2> QED
      BY <1>5, <2>5, <2>6, <2>7 DEF Collect, retry, reaped
  <1>6. CASE Collected
    <2>1. sync_flag' \in {-1, 0, 1, 2} /\ lost' \subseteq {"INT", "USR1"}
      <3>1. \A sig \in {"INT", "USR1", "ALRM"} : FlagOf(sig) \in {-1, 1, 2}
        BY DEF FlagOf
      <3> QED
        BY <1>0, <1>6, <3>1 DEF TypeOK, Collected, ResetAndUnblock
    <2>2. TypeOK'
      BY <1>0, <1>6, <2>1 DEF TypeOK, Collected, ResetAndUnblock, Places
    <2> QED
      BY <1>6, <2>2, AsideKeeps DEF MirrorInv, Collected, ResetAndUnblock
  <1>7. CASE Paused
    <2>1. TypeOK'
      BY <1>0, <1>7 DEF TypeOK, Paused, OpenMirrors, Places
    <2> QED
      BY <1>7, <2>1, AsideKeeps DEF MirrorInv, Paused
  <1>8. CASE Reset
    <2>1. TypeOK'
      BY <1>0, <1>8 DEF TypeOK, Reset, SetFlag, Overwritten, OpenMirrors, Places
    <2> QED
      BY <1>8, <2>1, AsideKeeps DEF MirrorInv, Reset
  <1>9. CASE CheckMirror
    <2>1. PICK id \in todo :
            /\ todo' = todo \ {id}
            /\ \/ UNCHANGED <<pc, children, forgot, deleting>>
               \/ /\ deleting' = [deleting EXCEPT ![id] = @ + 1]
                  /\ delete_entry(id, {})
      BY <1>9 DEF CheckMirror
    <2>2. /\ children' \in Seq(Nodes(Len(proc))) /\ TriesBounded' /\ OneNodeEach'
          /\ pc' \in Places /\ forgot' \in BOOLEAN
      <3>1. CASE delete_entry(id, {})
        BY <3>1, DeleteKeeps
      <3>2. CASE UNCHANGED <<pc, children, forgot, deleting>>
        BY <1>0, <3>2 DEF MirrorInv, TypeOK, TriesBounded, OneNodeEach
      <3> QED
        BY <2>1, <3>1, <3>2
    <2>3. deleting' \in [Peers -> Nat]
      BY <1>0, <2>1, SMTT(30) DEF TypeOK
    <2>4. TypeOK'
      <3>1. proc' = proc /\ todo' \subseteq Peers /\ UNCHANGED <<ids, mirror, pipe>>
        BY <1>0, <1>9, <2>1 DEF TypeOK, CheckMirror
      <3>2. UNCHANGED <<sync_flag, blocked, armed, pending, lost, starts, sigs>>
        BY <1>9 DEF CheckMirror
      <3> QED
        BY <1>0, <2>2, <2>3, <3>1, <3>2 DEF TypeOK, Nodes
    <2> QED
      BY <2>2, <2>4 DEF MirrorInv
  <1>10. CASE kill_processes
    <2>1. proc' \in Procs /\ Len(proc') = Len(proc)
      <3>1. children # <<>> => children[1].pid \in 1 .. Len(proc)
        <4>1. children # <<>> => children[1] \in Nodes(Len(proc))
          BY <1>0
        <4> QED
          BY <4>1 DEF Nodes
      <3> QED
        BY <1>0, <1>10, <3>1, StateTyped DEF kill_processes
    <2>2. TypeOK'
      BY <1>0, <1>10, <2>1 DEF TypeOK, kill_processes, Procs, Places
    <2> QED
      BY <1>10, <2>2 DEF MirrorInv, TriesBounded, OneNodeEach, kill_processes
  <1>11. CASE Cleanup
    <2>1. TypeOK'
      BY <1>0, <1>11 DEF TypeOK, Cleanup, Places
    <2> QED
      BY <1>11, <2>1, AsideKeeps DEF MirrorInv, Cleanup
  <1> QED
    BY <1>1, <1>2, <1>3, <1>4, <1>5, <1>6, <1>7, <1>8, <1>9, <1>10, <1>11 DEF ClientStep

\* What other processes do to the client keeps the invariant.
LEMMA OthersKeep ==
  ASSUME MirrorInv,
         \/ SigInt \/ Alarm \/ PeerStarts \/ PeerStops \/ DeleteMirror
         \/ \E k \in 1 .. Len(proc) : SyncStep(k)
  PROVE  MirrorInv'
  <1> USE DEF sigVars, dirVars, listVars
  <1>0. TypeOK /\ proc \in Procs /\ children \in Seq(Nodes(Len(proc)))
    BY DEF MirrorInv, TypeOK, Procs, Nodes
  <1>1. CASE SigInt
    <2>1. Raise("INT") /\ sigs' = sigs + 1 /\ sigs < MaxSig
          /\ UNCHANGED <<pc, dirVars, listVars, armed, todo, pipe>>
      BY <1>1 DEF SigInt
    <2>2. sigs' \in 0 .. MaxSig
      BY <1>0, <2>1, MirrorAssumption DEF TypeOK
    <2>3. TypeOK'
      BY <1>0, <2>1, <2>2, RaiseTyped DEF TypeOK
    <2> QED
      BY <2>1, <2>3, AsideKeeps DEF MirrorInv
  <1>2. CASE Alarm
    <2>1. TypeOK'
      BY <1>0, <1>2, RaiseTyped DEF TypeOK, Alarm
    <2> QED
      BY <1>2, <2>1, AsideKeeps DEF MirrorInv, Alarm
  <1>3. CASE PeerStarts
    <2>1. ids' \subseteq Peers /\ starts' \in 0 .. MaxStarts
      BY <1>0, <1>3, MirrorAssumption DEF TypeOK, PeerStarts
    <2>2. TypeOK'
      BY <1>0, <1>3, <2>1 DEF TypeOK, PeerStarts
    <2> QED
      BY <1>3, <2>2, AsideKeeps DEF MirrorInv, PeerStarts
  <1>5. CASE PeerStops
    <2>1. TypeOK'
      BY <1>0, <1>5 DEF TypeOK, PeerStops
    <2> QED
      BY <1>5, <2>1, AsideKeeps DEF MirrorInv, PeerStops
  <1>6. CASE DeleteMirror
    <2>1. deleting' \in [Peers -> Nat] /\ mirror' \subseteq Peers
      BY <1>0, <1>6 DEF TypeOK, DeleteMirror
    <2>2. TypeOK'
      BY <1>0, <1>6, <2>1 DEF TypeOK, DeleteMirror
    <2> QED
      BY <1>6, <2>2, AsideKeeps DEF MirrorInv, DeleteMirror
  <1>4. ASSUME NEW k \in 1 .. Len(proc), SyncStep(k) PROVE MirrorInv'
    <2>1. proc[k].peer \in Peers
      <3>1. proc[k] \in [peer : Peers, st : {"run", "told", "wrote", "zombie", "gone"}]
        BY <1>0, <1>4, ElementOfSeq DEF Procs
      <3> QED
        BY <3>1
    <2>2. CASE SyncReceives(k)
      <3>1. mirror' \subseteq Peers
        BY <1>0, <2>1, <2>2 DEF TypeOK, SyncReceives
      <3>2. TypeOK'
        BY <1>0, <2>2, <3>1 DEF TypeOK, SyncReceives
      <3> QED
        BY <2>2, <3>2, AsideKeeps DEF MirrorInv, SyncReceives
    <2>3. ASSUME NEW st \in {"gone", "wrote", "zombie"}, State(k, st)
          PROVE  proc' \in Procs /\ Len(proc') = Len(proc)
      BY <1>0, <2>3, StateTyped DEF State
    <2>4. CASE SyncSucceeds(k)
      <3>1. TypeOK'
        BY <1>0, <2>3, <2>4 DEF TypeOK, SyncSucceeds, Procs
      <3> QED
        BY <2>4, <3>1 DEF MirrorInv, SyncSucceeds, TriesBounded, OneNodeEach
    <2>5. CASE SyncFails(k)
      <3>1. proc' \in Procs /\ Len(proc') = Len(proc)
        BY <2>3, <2>5 DEF SyncFails
      <3>2. pipe' \in Seq(1 .. Len(proc))
        BY <1>0, <2>5, AppendTyped DEF TypeOK, SyncFails
      <3>3. TypeOK'
        BY <1>0, <2>5, <3>1, <3>2 DEF TypeOK, SyncFails, Procs
      <3> QED
        BY <2>5, <3>3 DEF MirrorInv, SyncFails, TriesBounded, OneNodeEach
    <2>6. CASE SyncReturns(k)
      <3>1. proc' \in Procs /\ Len(proc') = Len(proc)
        BY <2>3, <2>6 DEF SyncReturns
      <3>2. TypeOK'
        BY <1>0, <2>6, <3>1, RaiseTyped DEF TypeOK, SyncReturns, Procs
      <3> QED
        BY <2>6, <3>2 DEF MirrorInv, SyncReturns, TriesBounded, OneNodeEach
    <2>7. CASE ExecFails(k)
      <3>1. proc' \in Procs /\ Len(proc') = Len(proc)
        BY <2>3, <2>7 DEF ExecFails
      <3>2. TypeOK'
        BY <1>0, <2>7, <3>1, RaiseTyped DEF TypeOK, ExecFails, Procs
      <3> QED
        BY <2>7, <3>2 DEF MirrorInv, ExecFails, TriesBounded, OneNodeEach
    <2> QED
      BY <1>4, <2>2, <2>4, <2>5, <2>6, <2>7 DEF SyncStep
  <1> QED
    BY <1>1, <1>2, <1>3, <1>4, <1>5, <1>6

\* MirrorInv is an invariant of the mirror client.
THEOREM MirrorInvariance == Spec => []MirrorInv
  <1>1. Init => MirrorInv
    <2> SUFFICES ASSUME Init PROVE MirrorInv
      OBVIOUS
    <2>1. Len(children) = 0 /\ Len(proc) = 0 /\ proc = <<>> /\ children = <<>> /\ pipe = <<>>
      BY DEF Init
    <2>2. TriesBounded /\ OneNodeEach
      BY <2>1 DEF TriesBounded, OneNodeEach
    <2>3. deleting \in [Peers -> Nat] /\ starts \in 0 .. MaxStarts /\ sigs \in 0 .. MaxSig
      BY MirrorAssumption DEF Init
    <2>4. /\ proc \in Seq([peer : Peers, st : {"run", "told", "wrote", "zombie", "gone"}])
          /\ children \in Seq([id : Peers, pid : 1 .. Len(proc), times : Nat \ {0}])
          /\ pipe \in Seq(1 .. Len(proc))
      <3>1. ASSUME NEW S PROVE <<>> \in Seq(S)
        OBVIOUS
      <3> QED
        BY <2>1, <3>1, Zenon
    <2>5. TypeOK
      BY <2>3, <2>4 DEF Init, TypeOK, Places
    <2> QED
      BY <2>2, <2>5 DEF MirrorInv
  <1>2. MirrorInv /\ [Next]_vars => MirrorInv'
    <2> SUFFICES ASSUME MirrorInv, [Next]_vars PROVE MirrorInv'
      OBVIOUS
    <2>1. CASE Next
      BY <2>1, ClientKeeps, OthersKeep DEF Next
    <2>2. CASE UNCHANGED vars
      BY <2>2 DEF vars, sigVars, dirVars, listVars, MirrorInv, TypeOK, TriesBounded,
                  OneNodeEach
    <2> QED
      BY <2>1, <2>2
  <1> QED
    BY <1>1, <1>2, PTL DEF Spec

\* No client is tried more than three times while its node is in the list:
\* retry counts right whatever fails, stops and comes back.
THEOREM TriesCorrect == Spec => []TriesBounded
  <1>1. MirrorInv => TriesBounded
    BY DEF MirrorInv
  <1> QED
    BY <1>1, MirrorInvariance, PTL

--------------------------------------------------------------------------------
(* One process per client.  An exit status has eight bits, so all of this is   *)
(* about IDs up to 255: with clients 1 and 257 a failure of the second starts  *)
(* another process for the first.                                              *)

SmallIDs == Peers \subseteq 1 .. 255

\* The node of the client of process k holds the pid k.
Listed(k) == \E n \in 1 .. Len(children) : children[n].pid = k /\ children[n].id = proc[k].peer

\* A process that runs, or whose failure is not dealt with yet, is in the list.
BusyListed == ~forgot => \A k \in 1 .. Len(proc) : Busy(k) => Listed(k)

\* A process writes its pid once, and has then stopped running.
PipeOnce == /\ \A m, n \in 1 .. Len(pipe) : pipe[m] = pipe[n] => m = n
            /\ \A n \in 1 .. Len(pipe) : proc[pipe[n]].st \in {"wrote", "zombie"}

\* The inductive invariant behind OneChildEach and ChildrenTold.
ChildInv == MirrorInv /\ BusyListed /\ PipeOnce /\ ChildrenTold

\* What the invariant says about the types, in the form the proofs use.
LEMMA ChildTypes ==
  ASSUME MirrorInv
  PROVE  /\ proc \in Procs /\ children \in Seq(Nodes(Len(proc))) /\ pipe \in Seq(1 .. Len(proc))
         /\ Len(proc) \in Nat /\ Len(children) \in Nat /\ Len(pipe) \in Nat
         /\ \A n \in 1 .. Len(pipe) : pipe[n] \in 1 .. Len(proc)
  BY ElementOfSeq, SMTT(30) DEF MirrorInv, TypeOK, Procs, Nodes

\* Two busy processes of one client are one.
LEMMA BusyUnique ==
  ASSUME MirrorInv, BusyListed, ~forgot,
         NEW k \in 1 .. Len(proc), NEW m \in 1 .. Len(proc),
         Busy(k), Busy(m), proc[k].peer = proc[m].peer
  PROVE  k = m
  <1>1. PICK a \in 1 .. Len(children) : children[a].pid = k /\ children[a].id = proc[k].peer
    BY DEF BusyListed, Listed
  <1>2. PICK b \in 1 .. Len(children) : children[b].pid = m /\ children[b].id = proc[m].peer
    BY DEF BusyListed, Listed
  <1>3. a = b
    BY <1>1, <1>2 DEF MirrorInv, OneNodeEach
  <1> QED
    BY <1>1, <1>2, <1>3

\* A process that changes its state keeps its client.
LEMMA BecomesKeeps ==
  ASSUME NEW procs \in Procs, NEW k \in 1 .. Len(procs), NEW st
  PROVE  /\ Len(Becomes(procs, k, st)) = Len(procs)
         /\ Becomes(procs, k, st)[k].st = st
         /\ \A j \in 1 .. Len(procs) : Becomes(procs, k, st)[j].peer = procs[j].peer
         /\ \A j \in 1 .. Len(procs) : j # k => Becomes(procs, k, st)[j] = procs[j]
  <1> DEFINE new == [peer |-> procs[k].peer, st |-> st]
  <1>1. new.peer = procs[k].peer /\ new.st = st
    OBVIOUS
  <1> HIDE DEF new
  <1>2. Becomes(procs, k, st) = [procs EXCEPT ![k] = new]
    BY DEF Becomes, new
  <1>3. DOMAIN procs = 1 .. Len(procs) /\ Len(procs) \in Nat
    BY DEF Procs
  <1>4. /\ DOMAIN [procs EXCEPT ![k] = new] = 1 .. Len(procs)
        /\ [procs EXCEPT ![k] = new][k] = new
        /\ \A j \in 1 .. Len(procs) : j # k => [procs EXCEPT ![k] = new][j] = procs[j]
    BY <1>3
  <1>5. Len([procs EXCEPT ![k] = new]) = Len(procs)
    BY ExceptSeq DEF Procs
  <1> QED
    BY <1>1, <1>2, <1>4, <1>5

\* If no process becomes busy and the list stays, BusyListed stays.
LEMMA QuietListed ==
  ASSUME MirrorInv, BusyListed, children' = children, forgot' = forgot,
         Len(proc') = Len(proc),
         \A j \in 1 .. Len(proc) : proc'[j].peer = proc[j].peer,
         \A j \in 1 .. Len(proc) : Busy(j)' => Busy(j)
  PROVE  BusyListed'
  BY DEF BusyListed, Listed

\* synch with a process already reaped: add_pid overwrites no busy process's
\* node.
LEMMA AddListed ==
  ASSUME MirrorInv, BusyListed, ~forgot, forgot' = forgot, NEW id \in Peers,
         children' = add_pid(Len(proc) + 1, id),
         Len(proc') = Len(proc) + 1, proc'[Len(proc) + 1].peer = id,
         \A j \in 1 .. Len(proc) : proc'[j].peer = proc[j].peer,
         \A j \in 1 .. Len(proc) : Busy(j)' => Busy(j) /\ proc[j].peer # id
  PROVE  BusyListed'
  <1>0. Len(proc) \in Nat /\ children \in Seq(Nodes(Len(proc))) /\ Len(children) \in Nat
    BY ChildTypes
  <1> DEFINE pid == Len(proc) + 1
  <1>1. /\ \E n \in 1 .. Len(children') : children'[n].pid = pid /\ children'[n].id = id
        /\ \A m \in 1 .. Len(children) : children[m].id # id =>
              \E n \in 1 .. Len(children') : children'[n] = children[m]
    <2>1. CASE Entries(id) = {}
      <3> DEFINE node == [id |-> id, pid |-> pid, times |-> 1]
      <3>1. node.pid = pid /\ node.id = id /\ children' = Append(children, node)
        BY <2>1 DEF add_pid
      <3> HIDE DEF node, pid
      <3>2. /\ Len(children') = Len(children) + 1
            /\ children'[Len(children) + 1] = node
            /\ \A n \in 1 .. Len(children) : children'[n] = children[n]
        BY <1>0, <3>1
      <3> QED
        BY <1>0, <3>1, <3>2
    <2>2. CASE Entries(id) # {}
      <3>1. PICK e \in 1 .. Len(children) : children[e].id = id
        BY <2>2 DEF Entries
      <3>2. Entries(id) = {e}
        BY <3>1 DEF Entries, MirrorInv, OneNodeEach
      <3> DEFINE node == [id |-> id, pid |-> pid, times |-> children[e].times + 1]
      <3>3. node.pid = pid /\ node.id = id
        OBVIOUS
      <3>4. children' = [n \in 1 .. Len(children) |-> IF n = e THEN node ELSE children[n]]
        BY <2>2, <3>2 DEF add_pid
      <3> HIDE DEF node, pid
      <3>5. Len(children') = Len(children)
        BY <1>0, <3>4
      <3> QED
        BY <3>1, <3>3, <3>4, <3>5
    <2> QED
      BY <2>1, <2>2
  <1>2. ASSUME NEW k \in 1 .. Len(proc'), Busy(k)' PROVE Listed(k)'
    <2>1. CASE k = pid
      BY <1>1, <2>1 DEF Listed
    <2>2. CASE k \in 1 .. Len(proc)
      <3>1. Busy(k) /\ proc[k].peer # id /\ proc'[k].peer = proc[k].peer
        BY <1>2, <2>2
      <3>2. PICK m \in 1 .. Len(children) : children[m].pid = k /\ children[m].id = proc[k].peer
        BY <2>2, <3>1 DEF BusyListed, Listed
      <3> QED
        BY <1>1, <3>1, <3>2 DEF Listed
    <2> QED
      BY <1>0, <2>1, <2>2
  <1> QED
    BY <1>2 DEF BusyListed

\* delete_entry: either the process of the client was through, or forgot says
\* that it was not.
LEMMA DeleteListed ==
  ASSUME MirrorInv, BusyListed, NEW id, NEW through, delete_entry(id, through),
         Len(proc') = Len(proc),
         \A j \in 1 .. Len(proc) : proc'[j].peer = proc[j].peer,
         \A j \in 1 .. Len(proc) : Busy(j)' => Busy(j) /\ j \notin through
  PROVE  BusyListed'
  <1> SUFFICES ASSUME ~forgot', NEW k \in 1 .. Len(proc), Busy(k)'
               PROVE  Listed(k)'
    BY DEF BusyListed
  <1>1. Busy(k) /\ k \notin through /\ proc'[k].peer = proc[k].peer
    OBVIOUS
  <1>2. CASE UNCHANGED <<children, forgot>>
    BY <1>1, <1>2 DEF BusyListed, Listed
  <1>3. CASE /\ already_synced(id) /\ children' = Tail(children)
             /\ forgot' = (forgot \/ \E j \in (1 .. Len(proc)) \ through :
                                        proc[j].peer = id /\ Busy(j))
    <2>1. ~forgot /\ proc[k].peer # id
      BY <1>1, <1>3
    <2>2. PICK m \in 1 .. Len(children) : children[m].pid = k /\ children[m].id = proc[k].peer
      BY <1>1, <2>1 DEF BusyListed, Listed
    <2>3. m # 1
      BY <1>3, <2>1, <2>2 DEF already_synced
    <2>4. /\ Len(children) \in Nat /\ Len(children') = Len(children) - 1
          /\ \A n \in 1 .. Len(children') : children'[n] = children[n + 1]
      BY <1>3, ChildTypes, HeadTailProperties DEF already_synced
    <2>5. m - 1 \in 1 .. Len(children') /\ children'[m - 1] = children[m]
      BY <2>3, <2>4
    <2> QED
      BY <1>1, <2>2, <2>5 DEF Listed
  <1> QED
    BY <1>2, <1>3 DEF delete_entry

\* A step that leaves list, processes and pipe alone and does not begin to clean
\* up keeps the invariant.
LEMMA AsideChild ==
  ASSUME ChildInv, children' = children, proc' = proc, forgot' = forgot, pipe' = pipe,
         pc' \in {"cleanup", "exited"} => pc \in {"cleanup", "exited"}
  PROVE  BusyListed' /\ PipeOnce' /\ ChildrenTold'
  <1>1. \A j \in 1 .. Len(proc) : Busy(j)' => Busy(j)
    BY DEF Busy
  <1>2. BusyListed'
    BY <1>1, QuietListed DEF ChildInv
  <1> QED
    BY <1>2 DEF ChildInv, PipeOnce, ChildrenTold

\* A process that is no longer running changes its state, or one that runs ends
\* without a word.
LEMMA StateChild ==
  ASSUME ChildInv, NEW k \in 1 .. Len(proc), NEW st \in {"gone", "zombie"},
         proc[k].st \in {"run", "told", "wrote"}, st = "gone" => proc[k].st # "wrote",
         proc' = Becomes(proc, k, st),
         children' = children, forgot' = forgot, pipe' = pipe, pc' = pc
  PROVE  BusyListed' /\ PipeOnce' /\ ChildrenTold'
  <1>0. proc \in Procs /\ \A n \in 1 .. Len(pipe) : pipe[n] \in 1 .. Len(proc)
    BY ChildTypes DEF ChildInv
  <1>1. /\ Len(proc') = Len(proc) /\ proc'[k].st = st
        /\ \A j \in 1 .. Len(proc) : proc'[j].peer = proc[j].peer
        /\ \A j \in 1 .. Len(proc) : j # k => proc'[j] = proc[j]
    BY <1>0, BecomesKeeps
  <1>2. \A j \in 1 .. Len(proc) : Busy(j)' => Busy(j)
    BY <1>1 DEF Busy
  <1>3. BusyListed'
    BY <1>1, <1>2, QuietListed DEF ChildInv
  <1>4. PipeOnce'
    BY <1>0, <1>1 DEF ChildInv, PipeOnce
  <1>5. ChildrenTold'
    BY <1>1 DEF ChildInv, ChildrenTold
  <1> QED
    BY <1>3, <1>4, <1>5

\* A process that fails stays busy: its pid is now in the pipe.
LEMMA FailsChild ==
  ASSUME ChildInv, NEW k \in 1 .. Len(proc), SyncFails(k)
  PROVE  BusyListed' /\ PipeOnce' /\ ChildrenTold'
  <1>0. /\ proc \in Procs /\ pipe \in Seq(1 .. Len(proc)) /\ Len(pipe) \in Nat
        /\ \A n \in 1 .. Len(pipe) : pipe[n] \in 1 .. Len(proc)
    BY ChildTypes DEF ChildInv
  <1>a. /\ proc[k].st = "run" /\ proc' = Becomes(proc, k, "wrote") /\ pipe' = Append(pipe, k)
        /\ children' = children /\ forgot' = forgot /\ pc' = pc
    BY DEF SyncFails, State
  <1>1. /\ Len(proc') = Len(proc) /\ proc'[k].st = "wrote"
        /\ \A j \in 1 .. Len(proc) : proc'[j].peer = proc[j].peer
        /\ \A j \in 1 .. Len(proc) : j # k => proc'[j] = proc[j]
    BY <1>0, <1>a, BecomesKeeps
  <1>b. /\ Len(pipe') = Len(pipe) + 1 /\ pipe'[Len(pipe) + 1] = k
        /\ \A n \in 1 .. Len(pipe) : pipe'[n] = pipe[n]
    BY <1>0, <1>a, AppendTyped
  <1>c. \A n \in 1 .. Len(pipe') : n = Len(pipe) + 1 \/ n \in 1 .. Len(pipe)
    BY <1>0, <1>b
  <1>2. \A j \in 1 .. Len(proc) : Busy(j)' => Busy(j)
    BY <1>1, <1>a, <1>b, <1>c DEF Busy
  <1>3. BusyListed'
    BY <1>1, <1>2, <1>a, QuietListed DEF ChildInv
  <1>d. \A n \in 1 .. Len(pipe) : pipe[n] # k /\ proc[pipe[n]].st \in {"wrote", "zombie"}
    BY <1>a DEF ChildInv, PipeOnce
  <1>4. PipeOnce'
    <2>1. \A n \in 1 .. Len(pipe') : proc'[pipe'[n]].st \in {"wrote", "zombie"}
      BY <1>0, <1>1, <1>b, <1>c, <1>d
    <2>2. \A m, n \in 1 .. Len(pipe') : pipe'[m] = pipe'[n] => m = n
      BY <1>b, <1>c, <1>d DEF ChildInv, PipeOnce
    <2> QED
      BY <2>1, <2>2 DEF PipeOnce
  <1>5. ChildrenTold'
    BY <1>1, <1>a DEF ChildInv, ChildrenTold
  <1> QED
    BY <1>3, <1>4, <1>5

\* What other processes do keeps the invariant.
LEMMA OthersChild ==
  ASSUME ChildInv,
         \/ SigInt \/ Alarm \/ PeerStarts \/ PeerStops \/ DeleteMirror
         \/ \E k \in 1 .. Len(proc) : SyncStep(k)
  PROVE  BusyListed' /\ PipeOnce' /\ ChildrenTold'
  <1>1. CASE SigInt \/ Alarm \/ PeerStarts \/ PeerStops \/ DeleteMirror
    <2>1. children' = children /\ proc' = proc /\ forgot' = forgot /\ pipe' = pipe /\ pc' = pc
      BY <1>1 DEF SigInt, Alarm, PeerStarts, PeerStops, DeleteMirror, listVars
    <2> QED
      BY <2>1, AsideChild
  <1>2. ASSUME NEW k \in 1 .. Len(proc), SyncStep(k)
        PROVE  BusyListed' /\ PipeOnce' /\ ChildrenTold'
    <2>1. CASE SyncReceives(k)
      <3>1. children' = children /\ proc' = proc /\ forgot' = forgot /\ pipe' = pipe /\ pc' = pc
        BY <2>1 DEF SyncReceives, listVars
      <3> QED
        BY <3>1, AsideChild
    <2>2. CASE SyncSucceeds(k) \/ ExecFails(k)
      <3>1. /\ proc[k].st \in {"run", "told"} /\ proc' = Becomes(proc, k, "gone")
            /\ children' = children /\ forgot' = forgot /\ pipe' = pipe /\ pc' = pc
        BY <2>2 DEF SyncSucceeds, ExecFails, State
      <3> QED
        BY <3>1, StateChild
    <2>3. CASE SyncReturns(k)
      <3>1. /\ proc[k].st = "wrote" /\ proc' = Becomes(proc, k, "zombie")
            /\ children' = children /\ forgot' = forgot /\ pipe' = pipe /\ pc' = pc
        BY <2>3 DEF SyncReturns, State
      <3> QED
        BY <3>1, StateChild
    <2>4. CASE SyncFails(k)
      BY <2>4, FailsChild
    <2> QED
      BY <1>2, <2>1, <2>2, <2>3, <2>4 DEF SyncStep
  <1> QED
    BY <1>1, <1>2

\* A client that is new gets a process, or the fork fails.
LEMMA VisitChild ==
  ASSUME ChildInv, Visit
  PROVE  BusyListed' /\ PipeOnce' /\ ChildrenTold'
  <1>0. /\ proc \in Procs /\ Len(proc) \in Nat /\ children \in Seq(Nodes(Len(proc)))
        /\ todo \subseteq Peers /\ \A n \in 1 .. Len(pipe) : pipe[n] \in 1 .. Len(proc)
    BY ChildTypes DEF ChildInv, MirrorInv, TypeOK
  <1>1. PICK id \in todo :
           IF Spins(id)
           THEN pc' = "hung" /\ blocked' = TRUE /\ UNCHANGED listVars
           ELSE /\ IF already_synced(id) THEN UNCHANGED listVars
                                         ELSE synch(proc, id) /\ UNCHANGED forgot
                /\ UNCHANGED <<pc, blocked>>
    BY DEF Visit
  <1>2. pipe' = pipe /\ pc = "scan" /\ pc' \notin {"cleanup", "exited"}
    BY <1>1 DEF Visit
  <1>3. CASE children' = children /\ proc' = proc /\ forgot' = forgot
    BY <1>2, <1>3, AsideChild
  <1>4. CASE /\ ~Spins(id) /\ ~already_synced(id) /\ forgot' = forgot
             /\ proc' = Append(proc, [peer |-> id, st |-> "run"])
             /\ children' = add_pid(Len(proc) + 1, id)
    <2>1. \A n \in 1 .. Len(children) : children[n].id # id
      BY <1>0, <1>4 DEF Spins, already_synced
    <2> DEFINE new == [peer |-> id, st |-> "run"]
    <2>2. new \in [peer : Peers, st : {"run", "told", "wrote", "zombie", "gone"}] /\ new.peer = id
      BY <1>0
    <2> HIDE DEF new
    <2>3. /\ Len(proc') = Len(proc) + 1 /\ proc'[Len(proc) + 1] = new
          /\ \A j \in 1 .. Len(proc) : proc'[j] = proc[j]
      BY <1>0, <1>4, <2>2, AppendTyped DEF Procs, new
    <2>4. ASSUME ~forgot PROVE BusyListed'
      <3>1. \A j \in 1 .. Len(proc) : Busy(j)' => Busy(j)
        BY <1>2, <2>3 DEF Busy
      <3>2. \A j \in 1 .. Len(proc) : Busy(j) => proc[j].peer # id
        BY <2>1, <2>4 DEF ChildInv, BusyListed, Listed
      <3> QED
        BY <1>0, <1>4, <2>2, <2>3, <2>4, <3>1, <3>2, AddListed DEF ChildInv
    <2>5. BusyListed'
      BY <1>4, <2>4 DEF BusyListed
    <2>6. PipeOnce'
      BY <1>0, <1>2, <2>3 DEF ChildInv, PipeOnce
    <2> QED
      BY <1>2, <2>5, <2>6 DEF ChildrenTold
  <1> QED
    BY <1>1, <1>3, <1>4 DEF synch, listVars

\* The process whose pid is read is reaped: whoever else is busy has another
\* client.
LEMMA CollectChild ==
  ASSUME SmallIDs, ChildInv, Collect
  PROVE  BusyListed' /\ PipeOnce' /\ ChildrenTold'
  <1> DEFINE pid == Head(pipe)
             reaped == Becomes(proc, pid, "gone")
  <1>0. /\ proc \in Procs /\ Len(proc) \in Nat /\ Len(pipe) \in Nat
        /\ pipe \in Seq(1 .. Len(proc)) /\ pipe # <<>> /\ ids \subseteq Peers
        /\ \A n \in 1 .. Len(pipe) : pipe[n] \in 1 .. Len(proc)
    BY ChildTypes DEF ChildInv, MirrorInv, TypeOK, Collect
  <1>1. /\ 1 \in 1 .. Len(pipe) /\ pid = pipe[1] /\ pid \in 1 .. Len(proc)
        /\ Len(pipe') = Len(pipe) - 1
        /\ \A n \in 1 .. Len(pipe') : n + 1 \in 1 .. Len(pipe) /\ pipe'[n] = pipe[n + 1]
    BY <1>0, HeadTailProperties DEF Collect
  <1>2. \A n \in 1 .. Len(pipe') : pipe'[n] # pid /\ n + 1 # 1
    BY <1>1 DEF ChildInv, PipeOnce
  <1>3. /\ Len(reaped) = Len(proc) /\ reaped[pid].st = "gone"
        /\ \A j \in 1 .. Len(proc) : reaped[j].peer = proc[j].peer
        /\ \A j \in 1 .. Len(proc) : j # pid => reaped[j] = proc[j]
    BY <1>0, <1>1, BecomesKeeps
  <1>4. Status(pid) = proc[pid].peer /\ proc[pid].peer \in Peers
    <2>1. proc[pid].peer \in Peers
      <3>1. proc[pid] \in [peer : Peers, st : {"run", "told", "wrote", "zombie", "gone"}]
        BY <1>0, <1>1, ElementOfSeq DEF Procs
      <3> QED
        BY <3>1
    <2>2. \A x \in 1 .. 255 : x % 256 = x
      OBVIOUS
    <2> QED
      BY <2>1, <2>2, Zenon DEF Status, SmallIDs
  <1>5. Busy(pid)
    BY <1>1 DEF Busy
  <1>6. pc = "collect" /\ retry(pid) /\ reaped \in Procs
    BY <1>0, <1>1, StateTyped DEF Collect
  <1> HIDE DEF pid, reaped
  <1>7. ASSUME \A j \in 1 .. Len(proc) : proc'[j] = reaped[j]
        PROVE  /\ \A j \in 1 .. Len(proc) : Busy(j)' => Busy(j) /\ j # pid
               /\ \A j \in 1 .. Len(proc) : proc'[j].peer = proc[j].peer
               /\ PipeOnce'
    <2>1. \A j \in 1 .. Len(proc) : Busy(j)' => Busy(j) /\ j # pid
      BY <1>1, <1>2, <1>3, <1>7 DEF Busy
    <2>2. ASSUME NEW n \in 1 .. Len(pipe') PROVE proc'[pipe'[n]].st \in {"wrote", "zombie"}
      <3>1. n + 1 \in 1 .. Len(pipe) /\ pipe'[n] = pipe[n + 1] /\ pipe'[n] # pid
        BY <1>1, <1>2
      <3>2. pipe[n + 1] \in 1 .. Len(proc) /\ proc[pipe[n + 1]].st \in {"wrote", "zombie"}
        BY <1>0, <3>1 DEF ChildInv, PipeOnce
      <3>3. proc'[pipe'[n]] = proc[pipe'[n]]
        BY <1>3, <1>7, <3>1, <3>2
      <3> QED
        BY <3>1, <3>2, <3>3
    <2>3. ASSUME NEW m \in 1 .. Len(pipe'), NEW n \in 1 .. Len(pipe'), pipe'[m] = pipe'[n]
          PROVE  m = n
      <3>1. /\ m + 1 \in 1 .. Len(pipe) /\ pipe'[m] = pipe[m + 1]
            /\ n + 1 \in 1 .. Len(pipe) /\ pipe'[n] = pipe[n + 1]
        BY <1>1
      <3>2. m + 1 = n + 1
        BY <2>3, <3>1 DEF ChildInv, PipeOnce
      <3>3. m \in Int /\ n \in Int
        BY <1>0, <1>1
      <3> QED
        BY <3>2, <3>3
    <2> QED
      BY <1>3, <1>7, <2>1, <2>2, <2>3 DEF PipeOnce
  <1>8. CASE delete_entry(proc[pid].peer, {pid}) /\ proc' = reaped
    <2>1. BusyListed'
      BY <1>3, <1>7, <1>8, DeleteListed DEF ChildInv
    <2>2. pc' \notin {"cleanup", "exited"}
      BY <1>6, <1>8 DEF delete_entry
    <2> QED
      BY <1>7, <1>8, <2>1, <2>2 DEF ChildrenTold
  <1>9. CASE proc' = reaped /\ children' = children /\ forgot' = forgot /\ pc' = pc
    <2>1. BusyListed'
      BY <1>3, <1>7, <1>9, QuietListed DEF ChildInv
    <2> QED
      BY <1>6, <1>7, <1>9, <2>1 DEF ChildrenTold
  <1>10. CASE /\ proc' = Append(reaped, [peer |-> proc[pid].peer, st |-> "run"])
              /\ children' = add_pid(Len(reaped) + 1, proc[pid].peer)
              /\ forgot' = forgot /\ pc' = pc
    <2> DEFINE new == [peer |-> proc[pid].peer, st |-> "run"]
    <2>1. /\ new \in [peer : Peers, st : {"run", "told", "wrote", "zombie", "gone"}]
          /\ new.peer = proc[pid].peer
      BY <1>4
    <2> HIDE DEF new
    <2>2. /\ Len(proc') = Len(proc) + 1 /\ proc'[Len(proc) + 1] = new
          /\ \A j \in 1 .. Len(proc) : proc'[j] = reaped[j]
      BY <1>3, <1>6, <1>10, <2>1, AppendTyped DEF Procs, new
    <2>3. ASSUME ~forgot PROVE BusyListed'
      <3>1. ASSUME NEW j \in 1 .. Len(proc), Busy(j)'
            PROVE  Busy(j) /\ proc[j].peer # proc[pid].peer
        <4>1. Busy(j) /\ j # pid
          BY <1>7, <2>2, <3>1
        <4> QED
          BY <1>1, <1>5, <2>3, <4>1, BusyUnique DEF ChildInv
      <3>2. \A j \in 1 .. Len(proc) : proc'[j].peer = proc[j].peer
        BY <1>7, <2>2
      <3>3. children' = add_pid(Len(proc) + 1, proc[pid].peer)
        BY <1>3, <1>10
      <3>4. MirrorInv /\ BusyListed /\ forgot' = forgot
        BY <1>10 DEF ChildInv
      <3>5. proc'[Len(proc) + 1].peer = proc[pid].peer
        BY <2>1, <2>2
      <3> QED
        BY <1>4, <2>2, <2>3, <3>1, <3>2, <3>3, <3>4, <3>5, AddListed
    <2>4. BusyListed'
      BY <1>10, <2>3 DEF BusyListed
    <2> QED
      BY <1>6, <1>7, <1>10, <2>2, <2>4 DEF ChildrenTold
  <1> QED
    BY <1>4, <1>6, <1>8, <1>9, <1>10 DEF retry, synch, reaped

\* kill_processes tells the one process the list can hold: with more it hangs.
LEMMA KillChild ==
  ASSUME ChildInv, kill_processes
  PROVE  BusyListed' /\ PipeOnce' /\ ChildrenTold'
  <1>0. /\ proc \in Procs /\ Len(proc) \in Nat /\ Len(children) \in Nat
        /\ children \in Seq(Nodes(Len(proc)))
        /\ \A n \in 1 .. Len(pipe) : pipe[n] \in 1 .. Len(proc)
    BY ChildTypes DEF ChildInv
  <1>1. children' = children /\ forgot' = forgot /\ pipe' = pipe
    BY DEF kill_processes
  <1> DEFINE k == children[1].pid
  <1>2. CASE children # <<>> /\ proc[k].st = "run"
    <2>1. k \in 1 .. Len(proc)
      <3>1. children[1] \in Nodes(Len(proc))
        BY <1>0, <1>2
      <3> QED
        BY <3>1 DEF Nodes
    <2>2. proc' = Becomes(proc, k, "told")
      BY <1>2 DEF kill_processes
    <2> HIDE DEF k
    <2>3. /\ Len(proc') = Len(proc) /\ proc'[k].st = "told"
          /\ \A j \in 1 .. Len(proc) : proc'[j].peer = proc[j].peer
          /\ \A j \in 1 .. Len(proc) : j # k => proc'[j] = proc[j]
      BY <1>0, <2>1, <2>2, BecomesKeeps
    <2>4. \A j \in 1 .. Len(proc) : Busy(j)' => Busy(j)
      BY <1>1, <2>3 DEF Busy
    <2>5. BusyListed'
      BY <1>1, <2>3, <2>4, QuietListed DEF ChildInv
    <2>6. PipeOnce'
      <3>1. \A n \in 1 .. Len(pipe) : pipe[n] # k
        BY <1>2 DEF ChildInv, PipeOnce, k
      <3> QED
        BY <1>0, <1>1, <2>3, <3>1 DEF ChildInv, PipeOnce
    <2>7. ASSUME ~forgot, Len(children) <= 1, NEW j \in 1 .. Len(proc), proc'[j].st = "run"
          PROVE  FALSE
      <3>1. j # k /\ proc[j].st = "run"
        BY <2>3, <2>7
      <3>2. Listed(j)
        BY <2>7, <3>1 DEF ChildInv, BusyListed, Busy
      <3> QED
        BY <1>0, <2>7, <3>1, <3>2 DEF Listed, k
    <2>8. ChildrenTold'
      BY <1>0, <1>1, <2>3, <2>7 DEF ChildrenTold, kill_processes
    <2> QED
      BY <2>5, <2>6, <2>8
  <1>3. CASE ~(children # <<>> /\ proc[k].st = "run")
    <2>1. proc' = proc
      BY <1>3 DEF kill_processes
    <2>2. \A j \in 1 .. Len(proc) : Busy(j)' => Busy(j)
      BY <1>1, <2>1 DEF Busy
    <2>3. BusyListed'
      BY <1>1, <2>1, <2>2, QuietListed DEF ChildInv
    <2>4. PipeOnce'
      BY <1>1, <2>1 DEF ChildInv, PipeOnce
    <2>5. ASSUME ~forgot, Len(children) <= 1, NEW j \in 1 .. Len(proc), proc[j].st = "run"
          PROVE  FALSE
      <3>1. PICK n \in 1 .. Len(children) : children[n].pid = j
        BY <2>5 DEF ChildInv, BusyListed, Busy, Listed
      <3>2. n = 1 /\ children # <<>>
        BY <1>0, <2>5, <3>1
      <3> QED
        BY <1>3, <2>5, <3>1, <3>2
    <2>6. ChildrenTold'
      BY <1>0, <1>1, <2>1, <2>5 DEF ChildrenTold, kill_processes
    <2> QED
      BY <2>3, <2>4, <2>6
  <1> QED
    BY <1>2, <1>3

\* Every step of the client keeps the invariant.
LEMMA ClientChild ==
  ASSUME SmallIDs, ChildInv, ClientStep
  PROVE  BusyListed' /\ PipeOnce' /\ ChildrenTold'
  <1>1. CASE Top \/ ScanEnds \/ Block \/ Collected \/ Paused \/ Reset \/ CheckEnds \/ Cleanup
    <2>1. /\ children' = children /\ proc' = proc /\ forgot' = forgot /\ pipe' = pipe
          /\ pc' \in {"cleanup", "exited"} => pc \in {"cleanup", "exited"}
      BY <1>1 DEF Top, ScanEnds, Goes, Block, Collected, ResetAndUnblock, Paused, Reset,
                  CheckEnds, Cleanup, listVars
    <2> QED
      BY <2>1, AsideChild
  <1>2. CASE CheckMirror
    <2>1. PICK id : \/ pc' = pc /\ children' = children /\ forgot' = forgot
                    \/ delete_entry(id, {})
      BY <1>2 DEF CheckMirror
    <2>2. proc' = proc /\ pipe' = pipe /\ pc = "check"
      BY <1>2 DEF CheckMirror
    <2>3. CASE pc' = pc /\ children' = children /\ forgot' = forgot
      BY <2>2, <2>3, AsideChild
    <2>4. CASE delete_entry(id, {})
      <3>1. \A j \in 1 .. Len(proc) : Busy(j)' => Busy(j) /\ j \notin {}
        BY <2>2 DEF Busy
      <3>2. BusyListed'
        BY <2>2, <2>4, <3>1, DeleteListed DEF ChildInv
      <3>3. pc' \notin {"cleanup", "exited"}
        BY <2>2, <2>4 DEF delete_entry
      <3> QED
        BY <2>2, <3>2, <3>3 DEF ChildInv, PipeOnce, ChildrenTold
    <2> QED
      BY <2>1, <2>3, <2>4
  <1> QED
    BY <1>1, <1>2, VisitChild, CollectChild, KillChild DEF ClientStep

\* ChildInv is an invariant of a mirror client whose peers have IDs of one byte.
THEOREM ChildInvariance == SmallIDs /\ Spec => []ChildInv
  <1> SUFFICES ASSUME SmallIDs PROVE Spec => []ChildInv
    OBVIOUS
  <1>1. Init => BusyListed /\ PipeOnce /\ ChildrenTold
    <2>1. Init => Len(proc) = 0 /\ Len(pipe) = 0
      BY DEF Init
    <2> QED
      BY <2>1 DEF BusyListed, PipeOnce, ChildrenTold
  <1> DEFINE Rest == BusyListed /\ PipeOnce /\ ChildrenTold
  <1>2. MirrorInv /\ Rest /\ [Next]_vars => Rest'
    <2> SUFFICES ASSUME ChildInv, [Next]_vars PROVE Rest'
      BY DEF ChildInv
    <2>1. CASE Next
      BY <2>1, ClientChild, OthersChild DEF Next
    <2>2. CASE UNCHANGED vars
      BY <2>2, AsideChild DEF vars, sigVars, dirVars, listVars
    <2> QED
      BY <2>1, <2>2
  <1>3. MirrorInv /\ Rest <=> ChildInv
    BY DEF ChildInv
  <1>4. Init => Rest
    BY <1>1
  <1> HIDE DEF Rest
  <1> QED
    BY <1>2, <1>3, <1>4, MirrorInvariance, PTL DEF Spec

\* A client never has two sync processes for one client, and the one it has is
\* in its list, as long as no node was deleted early (synch, retry, add_pid).
THEOREM SoleChild == SmallIDs /\ Spec => []OneChildEach
  <1>1. ChildInv => OneChildEach
    <2> SUFFICES ASSUME ChildInv, ~forgot, NEW k \in 1 .. Len(proc), proc[k].st = "run"
                 PROVE  /\ Listed(k)
                        /\ \A m \in 1 .. Len(proc) :
                              proc[m].st = "run" /\ proc[m].peer = proc[k].peer => m = k
      BY DEF OneChildEach, Listed
    <2>1. \A j \in 1 .. Len(proc) : proc[j].st = "run" => Busy(j)
      BY DEF Busy
    <2> QED
      BY <2>1, BusyUnique DEF ChildInv, BusyListed
  <1> QED
    BY <1>1, ChildInvariance, PTL

\* A client that ends has told all of its sync processes to end: with one node
\* kill_processes reaches it, with more it never gets to the cleanup.
THEOREM AllTold == SmallIDs /\ Spec => []ChildrenTold
  <1>1. ChildInv => ChildrenTold
    BY DEF ChildInv
  <1> QED
    BY <1>1, ChildInvariance, PTL

================================================================================
