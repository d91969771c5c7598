----------------------------- MODULE MirrorClient ------------------------------
(***************************************************************************)
(* One mirror client (SysPro_Project2/src/mirror_client: clientSync.c and  *)
(* the end of main.c): the loop that polls the common directory, forks a   *)
(* sync process per new client, hears of failures through SIGUSR1 and a    *)
(* pipe, retries, forgets clients that left, and ends on SIGINT.           *)
(*                                                                         *)
(* Signals come at any moment.  What runs with all signals blocked is one  *)
(* step where no other process can tell; otherwise a step lies between two *)
(* looks at sync_flag.  alarm(3) is three seconds away, so it does not go  *)
(* off in the few instructions between alarm and pause.  The sync          *)
(* processes (sync.c) are known by what they do to the client: fill or     *)
(* remove a mirror, write their pid, send SIGUSR1, exit.                   *)
(***************************************************************************)
EXTENDS Integers, Sequences

CONSTANTS Peers,       \* IDs of the other clients
          MaxStarts,   \* bound: how often other clients are started
          MaxSig,      \* bound on SIGINTs and SIGQUITs
          MaxProcs,    \* bound on sync processes: fork fails from then on
          Faults       \* fork, opendir and execl may fail

ASSUME MirrorAssumption == /\ Peers \subseteq Nat \ {0}
                           /\ MaxStarts \in Nat /\ MaxSig \in Nat /\ MaxProcs \in Nat
                           /\ Faults \in BOOLEAN

VARIABLES pc,          \* where check_common_dir or the end of main is
          sync_flag,
          blocked,     \* all signals are blocked
          pending,     \* signals that wait for that to end
          armed,       \* alarm(3) is running
          children,    \* the children_list
          todo,        \* entries of the directory stream not yet read
          pipe,        \* pids written by sync processes that failed
          proc,        \* the sync processes, by pid
          ids,         \* clients with an .id file in the common directory
          mirror,      \* clients with a directory in mirror_dir
          deleting,    \* forked processes that are to delete a mirror
          starts,      \* how often other clients were started
          sigs,        \* SIGINTs and SIGQUITs sent
          lost,        \* history: signals whose flag was overwritten unseen
          forgot       \* history: an entry was deleted before its process was through

sigVars  == <<sync_flag, blocked, pending, lost>>
dirVars  == <<ids, mirror, deleting, starts>>
listVars == <<children, proc, forgot>>
vars     == <<pc, sigVars, dirVars, listVars, armed, todo, pipe, sigs>>

Init ==
    /\ pc = "top" /\ sync_flag = 0
    /\ blocked = FALSE /\ pending = {} /\ armed = FALSE
    /\ children = <<>> /\ todo = {} /\ pipe = <<>> /\ proc = <<>>
    /\ ids = {} /\ mirror = {} /\ deleting = [p \in Peers |-> 0]
    /\ starts = 0 /\ sigs = 0 /\ lost = {} /\ forgot = FALSE

Alive == pc \notin {"exited", "crashed"}

--------------------------------------------------------------------------------
(* Signals. *)

\* The value usr_handler gives to sync_flag.
FlagOf(sig) == CASE sig = "USR1" -> 2 [] sig = "ALRM" -> -1 [] sig = "INT" -> 1

\* Signals that are forgotten when the flag becomes new.
Overwritten(new) == {sig \in {"INT", "USR1"} : FlagOf(sig) = sync_flag /\ new # sync_flag}

SetFlag(new) == sync_flag' = new /\ lost' = lost \cup Overwritten(new)

\* A signal arrives.
Raise(sig) == /\ IF blocked
                 THEN pending' = pending \cup {sig} /\ UNCHANGED <<sync_flag, lost>>
                 ELSE SetFlag(FlagOf(sig)) /\ UNCHANGED pending
              /\ UNCHANGED blocked

SigInt == /\ Alive /\ sigs < MaxSig
          /\ sigs' = sigs + 1
          /\ Raise("INT")
          /\ UNCHANGED <<pc, dirVars, listVars, armed, todo, pipe>>

Alarm == /\ Alive /\ armed
         /\ armed' = FALSE
         /\ Raise("ALRM")
         /\ UNCHANGED <<pc, dirVars, listVars, todo, pipe, sigs>>

--------------------------------------------------------------------------------
(* The list of children. *)

\* The loops of already_synced, delete_entry and kill_processes look at the
\* first node again and again unless it is the last one or the one they want.
Spins(id) == Len(children) > 1 /\ children[1].id # id

\* Mutant: a client that is being synchronised is not recognised.
NeverSynced(id) == FALSE

already_synced(id) == children # <<>> /\ children[1].id = id

Entries(id) == {n \in 1 .. Len(children) : children[n].id = id}

times_tried(id) == IF Entries(id) = {} THEN 0
                   ELSE children[CHOOSE n \in Entries(id) : TRUE].times

add_pid(pid, id) ==
    IF Entries(id) = {} THEN Append(children, [id |-> id, pid |-> pid, times |-> 1])
    ELSE [n \in 1 .. Len(children) |->
            IF n \in Entries(id) THEN [id |-> id, pid |-> pid, times |-> children[n].times + 1]
            ELSE children[n]]

\* The processes once that of pid has changed its state.
Becomes(procs, pid, st) == [procs EXCEPT ![pid] = [peer |-> procs[pid].peer, st |-> st]]

\* fork: the child becomes the sync process of id, next to procs; or it fails.
synch(procs, id) ==
    \/ /\ Len(procs) < MaxProcs
       /\ proc' = Append(procs, [peer |-> id, st |-> "run"])
       /\ children' = add_pid(Len(procs) + 1, id)
    \/ /\ Faults \/ Len(procs) = MaxProcs
       /\ proc' = procs /\ UNCHANGED children

\* The process of this pid runs, or its failure is not dealt with yet.
Busy(pid) == proc[pid].st = "run" \/ \E n \in 1 .. Len(pipe) : pipe[n] = pid

\* delete_entry and remove_list_node; it does not expect an empty list.  The
\* processes of the set through are dealt with.
delete_entry(id, through) ==
    /\ pc' = IF children = <<>> THEN "crashed" ELSE IF Spins(id) THEN "hung" ELSE pc
    /\ IF already_synced(id)
       THEN /\ children' = Tail(children)
            /\ forgot' = (forgot \/ \E k \in (1 .. Len(proc)) \ through :
                                        proc[k].peer = id /\ Busy(k))
       ELSE UNCHANGED <<children, forgot>>

--------------------------------------------------------------------------------
(* check_common_dir. *)

\* while (sync_flag != 1), and the directory as the stream shows it.
Top == /\ pc = "top"
       /\ IF sync_flag = 1 THEN pc' = "kill" /\ UNCHANGED todo
                           ELSE pc' = "scan" /\ todo' = ids
       /\ UNCHANGED <<sigVars, dirVars, listVars, armed, pipe, sigs>>

\* One entry, with signals blocked.
Visit == /\ pc = "scan" /\ sync_flag = 0
         /\ \E id \in todo :
               /\ todo' = todo \ {id}
               /\ IF Spins(id)
                  THEN pc' = "hung" /\ blocked' = TRUE /\ UNCHANGED listVars
                  ELSE /\ IF already_synced(id) THEN UNCHANGED listVars
                                                ELSE synch(proc, id) /\ UNCHANGED forgot
                       /\ UNCHANGED <<pc, blocked>>
         /\ UNCHANGED <<sync_flag, pending, lost, dirVars, armed, pipe, sigs>>

\* A step of the client that only moves it on.
Goes(place) == /\ pc' = place
               /\ UNCHANGED <<sigVars, dirVars, listVars, armed, todo, pipe, sigs>>

\* The directory is read, or a signal came.
ScanEnds == /\ pc = "scan" /\ (todo = {} \/ sync_flag # 0)
            /\ Goes(IF sync_flag = 1 THEN "kill" ELSE "block")

\* Signals are blocked.  If there is nothing to collect they are unblocked at
\* once and alarm(3) is set.
Block == /\ pc = "block"
         /\ IF sync_flag = 2 THEN pc' = "collect" /\ blocked' = TRUE /\ UNCHANGED armed
                             ELSE pc' = "pause" /\ armed' = TRUE /\ UNCHANGED blocked
         /\ UNCHANGED <<sync_flag, pending, lost, dirVars, listVars, todo, pipe, sigs>>

\* What the client learns from waitpid: an exit status has eight bits.
Status(pid) == proc[pid].peer % 256

\* Mutant: a fourth try.
LetRetryMore(id) == times_tried(id) <= 3

MayRetry(id) == times_tried(id) <= 2

\* cl_still_exists does not return 0: the .id file is there, or opendir failed.
cl_still_exists(id) == id \in ids \/ (Faults /\ id \in Peers)

\* The process has ended; its client is gone, is tried again, or was tried
\* often enough.
retry(pid) ==
    LET id == Status(pid)
        reaped == Becomes(proc, pid, "gone")
    IN  /\ proc[pid].st = "zombie"
        /\ \/ /\ id \notin ids
              /\ delete_entry(id, {pid}) /\ proc' = reaped
           \/ /\ cl_still_exists(id) /\ MayRetry(id)
              /\ synch(reaped, id) /\ UNCHANGED <<pc, forgot>>
           \/ /\ cl_still_exists(id) /\ ~MayRetry(id)
              /\ proc' = reaped /\ UNCHANGED <<pc, children, forgot>>

Collect == /\ pc = "collect" /\ pipe # <<>>
           /\ pipe' = Tail(pipe)
           /\ retry(Head(pipe))
           /\ UNCHANGED <<sigVars, dirVars, armed, todo, sigs>>

\* Back to the wait: the flag is reset, then the handlers of the signals that
\* are pending run, in any order; alarm(3).
ResetAndUnblock ==
    /\ IF pending = {} THEN sync_flag' = 0 /\ UNCHANGED lost
       ELSE \E last \in pending :
               /\ sync_flag' = FlagOf(last)
               /\ lost' = lost \cup (pending \ {last, "ALRM"})
    /\ pending' = {} /\ blocked' = FALSE
    /\ armed' = TRUE /\ pc' = "pause"
    /\ UNCHANGED <<dirVars, listVars, todo, pipe, sigs>>

\* Mutant: the flag is reset after the signals are unblocked.
CollectedResetLate ==
    /\ pc = "collect" /\ pipe = <<>>
    /\ sync_flag' = 0 /\ pending' = {} /\ blocked' = FALSE
    /\ armed' = TRUE /\ pc' = "pause"
    /\ UNCHANGED <<lost, dirVars, listVars, todo, pipe, sigs>>

\* Mutant: pids may be left in the pipe.
CollectedSome == pc = "collect" /\ ResetAndUnblock

\* The pipe is empty, or select waited a second in vain.
Collected == pc = "collect" /\ pipe = <<>> /\ ResetAndUnblock

\* check_for_deleted_clients reads the mirrors there are; none if opendir
\* fails.
OpenMirrors == todo' = mirror \/ (Faults /\ todo' = {})

\* while (!sync_flag) pause(), and what follows looks at the flag once more.
Paused == /\ pc = "pause" /\ sync_flag # 0
          /\ \/ sync_flag = -1 /\ pc' = "reset" /\ UNCHANGED todo
             \/ sync_flag = 1 /\ pc' = "kill" /\ UNCHANGED todo
             \/ sync_flag = 2 /\ pc' = "check" /\ OpenMirrors
          /\ UNCHANGED <<sigVars, dirVars, listVars, armed, pipe, sigs>>

\* The flag is reset, whatever it has become meanwhile.
Reset == /\ pc = "reset"
         /\ SetFlag(0)
         /\ pc' = "check" /\ OpenMirrors
         /\ UNCHANGED <<blocked, pending, dirVars, listVars, armed, pipe, sigs>>

\* A mirror without a client: delete_client.
CheckMirror ==
    /\ pc = "check"
    /\ \E id \in todo :
          /\ todo' = todo \ {id}
          /\ \/ /\ id \in ids
                /\ UNCHANGED <<pc, children, forgot, deleting>>
             \/ /\ id \notin ids
                /\ deleting' = [deleting EXCEPT ![id] = @ + 1]
                /\ delete_entry(id, {})
             \/ /\ id \notin ids /\ Faults
                /\ UNCHANGED <<pc, children, forgot, deleting>>
    /\ UNCHANGED <<sigVars, ids, mirror, starts, proc, armed, pipe, sigs>>

CheckEnds == pc = "check" /\ todo = {} /\ Goes("top")

--------------------------------------------------------------------------------
(* The end of main. *)

\* Mutant: the last child is not told.
KillAllButLast == /\ pc = "kill" /\ Goes(IF Len(children) > 1 THEN "hung" ELSE "cleanup")

kill_processes ==
    /\ pc = "kill"
    /\ pc' = IF Len(children) > 1 THEN "hung" ELSE "cleanup"
    /\ proc' = IF children # <<>> /\ proc[children[1].pid].st = "run"
               THEN Becomes(proc, children[1].pid, "told") ELSE proc
    /\ UNCHANGED <<sigVars, dirVars, children, forgot, armed, todo, pipe, sigs>>

\* delete_on_exit.
Cleanup == /\ pc = "cleanup"
           /\ pc' = "exited" /\ mirror' = {}
           /\ UNCHANGED <<sigVars, ids, deleting, starts, listVars, armed, todo, pipe,
                          sigs>>

ClientStep == \/ Top \/ Visit \/ ScanEnds \/ Block \/ Collect \/ Collected
              \/ Paused \/ Reset \/ CheckMirror \/ CheckEnds
              \/ kill_processes \/ Cleanup

--------------------------------------------------------------------------------
(* The other processes. *)

PeerStarts == /\ Alive /\ starts < MaxStarts
              /\ \E p \in Peers \ ids : ids' = ids \cup {p}
              /\ starts' = starts + 1
              /\ UNCHANGED <<pc, sigVars, mirror, deleting, listVars, armed, todo,
                             pipe, sigs>>

PeerStops == /\ Alive
             /\ \E p \in ids : ids' = ids \ {p}
             /\ UNCHANGED <<pc, sigVars, mirror, deleting, starts, listVars, armed, todo,
                            pipe, sigs>>

\* The process that delete_client forked removes the mirror.
DeleteMirror == /\ Alive
                /\ \E p \in Peers : /\ deleting[p] > 0
                                    /\ deleting' = [deleting EXCEPT ![p] = @ - 1]
                                    /\ mirror' = mirror \ {p}
                /\ UNCHANGED <<pc, sigVars, ids, starts, listVars, armed, todo, pipe, sigs>>

State(k, st) == proc' = Becomes(proc, k, st)

\* The receiver makes the mirror of its client.
SyncReceives(k) == /\ Alive /\ proc[k].st = "run" /\ proc[k].peer \notin mirror
                   /\ mirror' = mirror \cup {proc[k].peer}
                   /\ UNCHANGED <<pc, sigVars, ids, deleting, starts, listVars, armed,
                                  todo, pipe, sigs>>

SyncSucceeds(k) == /\ Alive /\ proc[k].st \in {"run", "told"}
                   /\ State(k, "gone")
                   /\ UNCHANGED <<pc, sigVars, dirVars, children, forgot, armed, todo,
                                  pipe, sigs>>

\* The mirror is removed (not if its own forks failed) and the pid written into
\* the pipe ...
SyncFails(k) == /\ Alive /\ proc[k].st = "run"
                /\ State(k, "wrote")
                /\ mirror' = mirror \ {proc[k].peer} \/ (Faults /\ mirror' = mirror)
                /\ pipe' = Append(pipe, k)
                /\ UNCHANGED <<pc, sigVars, ids, deleting, starts, children, forgot,
                               armed, todo, sigs>>

\* ... then SIGUSR1 is sent and the ID returned.
SyncReturns(k) == /\ Alive /\ proc[k].st = "wrote"
                  /\ State(k, "zombie")
                  /\ Raise("USR1")
                  /\ UNCHANGED <<pc, dirVars, children, forgot, armed, todo, pipe, sigs>>

\* execl fails: SIGUSR1 without a pid.
ExecFails(k) == /\ Alive /\ Faults /\ proc[k].st = "run"
                /\ State(k, "gone")
                /\ Raise("USR1")
                /\ UNCHANGED <<pc, dirVars, children, forgot, armed, todo, pipe, sigs>>

SyncStep(k) == \/ SyncReceives(k) \/ SyncSucceeds(k) \/ SyncFails(k) \/ SyncReturns(k)
               \/ ExecFails(k)

Next == \/ ClientStep \/ SigInt \/ Alarm
        \/ PeerStarts \/ PeerStops \/ DeleteMirror
        \/ \E k \in 1 .. Len(proc) : SyncStep(k)

Spec == Init /\ [][Next]_vars

\* The client is scheduled, its alarm goes off, and a process that has written
\* its pid gets to its last statement.
FairSpec == /\ Spec /\ WF_vars(ClientStep) /\ WF_vars(Alarm)
            /\ WF_vars(\E k \in 1 .. Len(proc) : SyncReturns(k))

--------------------------------------------------------------------------------
(* Properties. *)

Places == {"top", "scan", "block", "collect", "pause", "reset", "check", "kill",
           "cleanup", "exited", "hung", "crashed"}

\* Every variable has the shape its C declaration gives it, and a node of the
\* list stands for at least one try.
TypeOK ==
    /\ pc \in Places /\ sync_flag \in {-1, 0, 1, 2}
    /\ blocked \in BOOLEAN /\ armed \in BOOLEAN /\ forgot \in BOOLEAN
    /\ pending \subseteq {"INT", "USR1", "ALRM"} /\ lost \subseteq {"INT", "USR1"}
    /\ proc \in Seq([peer : Peers, st : {"run", "told", "wrote", "zombie", "gone"}])
    /\ children \in Seq([id : Peers, pid : 1 .. Len(proc), times : Nat \ {0}])
    /\ todo \subseteq Peers /\ ids \subseteq Peers /\ mirror \subseteq Peers
    /\ pipe \in Seq(1 .. Len(proc))
    /\ deleting \in [Peers -> Nat]
    /\ starts \in 0 .. MaxStarts /\ sigs \in 0 .. MaxSig

\* No client is tried more than three times for as long as its node is in the
\* list, however failures, retries and restarts interleave.
TriesBounded == \A n \in 1 .. Len(children) : children[n].times <= 3

\* As long as no node was deleted before its process was through, a client has
\* one sync process at most, and its pid is the one in the list.
OneChildEach ==
    ~forgot => \A k \in 1 .. Len(proc) : proc[k].st = "run" =>
       /\ \E n \in 1 .. Len(children) : children[n].pid = k /\ children[n].id = proc[k].peer
       /\ \A m \in 1 .. Len(proc) : proc[m].st = "run" /\ proc[m].peer = proc[k].peer => m = k

\* Under the same condition a client that ends has told all of its sync
\* processes to end.
ChildrenTold ==
    ~forgot /\ pc \in {"cleanup", "exited"} => \A k \in 1 .. Len(proc) : proc[k].st # "run"

\* A SIGINT ends the client, unless the flag was overwritten before the client
\* looked at it.
StopsUnlessLost == sigs > 0 ~> ~Alive \/ "INT" \in lost

\* A failure is read from the pipe, unless the client ends or the flag was
\* overwritten.
FailureHeard == pipe # <<>> ~> pipe = <<>> \/ sigs > 0 \/ ~Alive \/ "USR1" \in lost

\* The client begins another round until it is told to stop.
Repeats == (pc = "scan" /\ sigs = 0) ~> (pc = "top" \/ sigs > 0 \/ pc = "crashed")
================================================================================
