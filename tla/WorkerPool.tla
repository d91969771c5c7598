------------------------------ MODULE WorkerPool -------------------------------
(***************************************************************************)
(* The threads of one dropbox client (dropbox_client.c, from the creation  *)
(* of the workers to the end of the process): the main thread, which       *)
(* learns of other clients and queues them, and the worker threads, which  *)
(* take clients and files off the circular buffer, ask the peers for them  *)
(* and queue the files of every list they receive.                         *)
(*                                                                         *)
(* A step is what a thread does between two points where another thread or *)
(* the SIGINT handler can make a difference.  Holding buffer_mtx is state; *)
(* so is the gap between deciding to wait and being on the condition       *)
(* variable's queue, because the handler does not take the mutex.  Peers,  *)
(* server and signals are the environment.                                 *)
(***************************************************************************)
EXTENDS CircBuffer, ClientList

CONSTANTS Clients,         \* the other clients
          Self,            \* this_client
          Files,           \* pathnames in the lists of the peers
          NoFile,          \* pathname[0] = 0: the element is only a client
          workerThreads,   \* number of worker threads
          StartLists,      \* what the server may answer to GET_CLIENTS
          FileLists,       \* what a peer may answer to GET_FILE_LIST
          PeerDrops,       \* peers may refuse or close connections
          ServerDrops,     \* the server may close the connection early
          MaxOn,           \* bound on USER_ON messages
          MaxSig           \* bound on SIGINTs

ASSUME PoolAssumption ==
    /\ workerThreads \in Nat \ {0}
    /\ Self \notin Clients
    /\ NoFile \notin Files
    /\ Elem = [client : Clients, file : Files \cup {NoFile}]
    /\ StartLists \subseteq Seq(Clients \cup {Self})
    /\ FileLists \subseteq Seq(Files)
    /\ PeerDrops \in BOOLEAN /\ ServerDrops \in BOOLEAN
    /\ MaxOn \in Nat /\ MaxSig \in Nat

Workers == 0 .. workerThreads - 1
Main    == workerThreads
Threads == 0 .. workerThreads
NoOne   == -1

CondVars == {"nonempty", "nonfull"}

VARIABLES mtx,        \* holder of buffer_mtx, or NoOne
          pc,         \* where each thread is
          waiters,    \* threads asleep on each condition variable
          term_flag,
          todo,       \* elements a thread still has to push
          elem,       \* the worker's pointer: the slot it popped, or NoOne
          popped,     \* history: what that slot held when it was popped
          list,       \* the client list
          incoming,   \* the tuples the server sends at start-up
          i,          \* main's loop counter over them
          ons,        \* USER_ON messages received
          sigs,       \* SIGINTs delivered
          sigOn,      \* thread running the handler, or NoOne
          sigNext     \* condition variable the handler broadcasts next

syncVars == <<mtx, waiters>>
envVars  == <<incoming, ons>>
sigVars  == <<sigs, sigOn, sigNext>>
vars == <<bufVars, syncVars, envVars, sigVars, pc, term_flag, todo, elem,
          popped, list, i>>

Init ==
    /\ buffer_init
    /\ mtx = NoOne
    /\ pc = [t \in Threads |-> IF t = Main THEN "recv" ELSE "loop"]
    /\ waiters = [c \in CondVars |-> {}]
    /\ term_flag = 0
    /\ todo = [t \in Threads |-> <<>>]
    /\ elem = [w \in Workers |-> NoOne]
    /\ popped = [w \in Workers |-> NoElem]
    /\ list = <<>>
    /\ incoming \in StartLists
    /\ i = 0
    /\ ons = 0
    /\ sigs = 0 /\ sigOn = NoOne /\ sigNext = "nonempty"

--------------------------------------------------------------------------------
(* Threads, mutex and condition variables. *)

\* t is at this place and is not suspended by the handler or by exit().
At(t, place) == pc[t] = place /\ sigOn # t /\ pc[Main] # "exited"

Goto(t, place) == pc' = [pc EXCEPT ![t] = place]

\* pc after a broadcast on c, given what it would have been without.
Woken(places, c) ==
    [t \in Threads |-> IF t \in waiters[c] THEN "lock" ELSE places[t]]

\* pthread_mutex_lock, or the end of pthread_cond_wait.
Lock(t) == /\ At(t, "lock")
           /\ mtx = NoOne
           /\ mtx' = t
           /\ Goto(t, "check")
           /\ UNCHANGED <<bufVars, envVars, sigVars, waiters, term_flag,
                          todo, elem, popped, list, i>>

\* The condition variable t waits on: a worker names buffer_nonempty both
\* when it wants an element and when it wants room.
CondOf(t) == IF t = Main THEN "nonfull" ELSE "nonempty"

Blocked(t) == IF todo[t] # <<>> THEN buffer_is_full ELSE buffer_is_empty

\* The test of the while loop around pthread_cond_wait succeeds.
MustWait(t) == /\ At(t, "check")
               /\ Blocked(t)
               /\ term_flag = 0
               /\ Goto(t, "sleep")
               /\ UNCHANGED <<bufVars, syncVars, envVars, sigVars, term_flag,
                              todo, elem, popped, list, i>>

\* pthread_cond_wait puts t on the queue and releases the mutex.
Sleep(t) == /\ At(t, "sleep")
            /\ mtx' = NoOne
            /\ waiters' = [waiters EXCEPT ![CondOf(t)] = @ \cup {t}]
            /\ Goto(t, "asleep")
            /\ UNCHANGED <<bufVars, envVars, sigVars, term_flag, todo, elem,
                           popped, list, i>>

\* POSIX lets pthread_cond_wait return without a signal.
SpuriousWakeup(t) ==
    /\ At(t, "asleep")
    /\ waiters' = [c \in CondVars |-> waiters[c] \ {t}]
    /\ Goto(t, "lock")
    /\ UNCHANGED <<bufVars, envVars, sigVars, mtx, term_flag, todo, elem,
                   popped, list, i>>

Starting == i < Len(incoming)

\* Where a thread that finds term_flag set under the mutex goes.
QuitTo(t) == IF t # Main THEN "ret" ELSE IF Starting THEN "joinsome" ELSE "listen"

Quit(t) == /\ At(t, "check")
           /\ term_flag = 1
           /\ mtx' = NoOne
           /\ todo' = [todo EXCEPT ![t] = <<>>]
           /\ Goto(t, QuitTo(t))
           /\ UNCHANGED <<bufVars, envVars, sigVars, waiters, term_flag, elem,
                          popped, list, i>>

\* Mutant: no check for a full buffer.
PushUnchecked(t) ==
          /\ At(t, "check")
          /\ todo[t] # <<>> /\ term_flag = 0
          /\ buffer_push(Head(todo[t]))
          /\ todo' = [todo EXCEPT ![t] = Tail(@)]
          /\ mtx' = NoOne
          /\ Goto(t, "signal_nonempty")
          /\ UNCHANGED <<envVars, sigVars, waiters, term_flag, elem, popped, list, i>>

Push(t) == /\ At(t, "check")
           /\ todo[t] # <<>> /\ ~buffer_is_full /\ term_flag = 0
           /\ buffer_push(Head(todo[t]))
           /\ todo' = [todo EXCEPT ![t] = Tail(@)]
           /\ mtx' = NoOne
           /\ Goto(t, "signal_nonempty")
           /\ UNCHANGED <<envVars, sigVars, waiters, term_flag, elem, popped, list, i>>

\* Where a thread goes on after the broadcast that follows a push.
AfterPush(t) == IF t = Main THEN IF Starting THEN "recv" ELSE "listen"
                ELSE IF todo[t] # <<>> THEN "lock" ELSE "loop"

\* Mutant: the broadcast after a push is forgotten.
PushSilently(t) ==
    /\ At(t, "signal_nonempty")
    /\ Goto(t, AfterPush(t))
    /\ i' = IF t = Main /\ Starting THEN i + 1 ELSE i
    /\ UNCHANGED <<bufVars, envVars, sigVars, mtx, waiters, term_flag, todo, elem,
                   popped, list>>

SignalNonempty(t) ==
    /\ At(t, "signal_nonempty")
    /\ waiters' = [waiters EXCEPT !["nonempty"] = {}]
    /\ pc' = Woken([pc EXCEPT ![t] = AfterPush(t)], "nonempty")
    /\ i' = IF t = Main /\ Starting THEN i + 1 ELSE i
    /\ UNCHANGED <<bufVars, envVars, sigVars, mtx, term_flag, todo, elem,
                   popped, list>>

--------------------------------------------------------------------------------
(* The worker threads: work(). *)

\* A step of worker w that only moves it on.
WorkerGoes(w, place) ==
    /\ Goto(w, place)
    /\ UNCHANGED <<bufVars, syncVars, envVars, sigVars, term_flag, todo, elem,
                   popped, list, i>>

\* while (term_flag != 1)
Loop(w) == At(w, "loop") /\ WorkerGoes(w, IF term_flag = 1 THEN "ret" ELSE "lock")

\* buffer_pop hands out the address of the slot.
Pop(w) == /\ At(w, "check")
          /\ todo[w] = <<>> /\ ~buffer_is_empty /\ term_flag = 0
          /\ elem' = [elem EXCEPT ![w] = read]
          /\ popped' = [popped EXCEPT ![w] = circ_buffer[read]]
          /\ buffer_pop
          /\ mtx' = NoOne
          /\ Goto(w, "signal_nonfull")
          /\ UNCHANGED <<envVars, sigVars, waiters, term_flag, todo, list, i>>

\* Mutant: the broadcast after a pop wakes the wrong queue.
SignalNonemptyAgain(w) ==
    /\ At(w, "signal_nonfull")
    /\ waiters' = [waiters EXCEPT !["nonempty"] = {}]
    /\ pc' = Woken([pc EXCEPT ![w] = "lookup"], "nonempty")
    /\ UNCHANGED <<bufVars, envVars, sigVars, mtx, term_flag, todo, elem,
                   popped, list, i>>

SignalNonfull(w) ==
    /\ At(w, "signal_nonfull")
    /\ waiters' = [waiters EXCEPT !["nonfull"] = {}]
    /\ pc' = Woken([pc EXCEPT ![w] = "lookup"], "nonfull")
    /\ UNCHANGED <<bufVars, envVars, sigVars, mtx, term_flag, todo, elem,
                   popped, list, i>>

\* What the pointer shows now: no lock protects this read.
Deref(w) == circ_buffer[elem[w]]

\* in_client_list under client_list_mtx.
Lookup(w) == /\ At(w, "lookup")
             /\ WorkerGoes(w, IF in_client_list(list, Deref(w).client)
                              THEN "dial" ELSE "loop")

\* The address is copied from the element and its kind is looked at.
Dial(w) == /\ At(w, "dial")
           /\ WorkerGoes(w, IF Deref(w).file = NoFile THEN "list" ELSE "file")

\* tmp_array is filled from the answer and from the element, read again.
TmpArray(w, files) ==
    [n \in 1 .. Len(files) |-> [client |-> Deref(w).client, file |-> files[n]]]

TakeList(w, files) ==
    /\ At(w, "list")
    /\ todo' = [todo EXCEPT ![w] = TmpArray(w, files)]
    /\ Goto(w, IF files = <<>> THEN "loop" ELSE "lock")
    /\ UNCHANGED <<bufVars, syncVars, envVars, sigVars, term_flag, elem, popped,
                   list, i>>

ListReply(w) == \E files \in FileLists : TakeList(w, files)

\* The connection breaks after n tuples: `continue` leaves the others of
\* tmp_array as malloc made them, and they are queued all the same.
ListBroken(w) ==
    /\ PeerDrops
    /\ \E files \in FileLists : \E n \in 0 .. Len(files) - 1 :
         \E rest \in [n + 1 .. Len(files) -> Files \cup {NoFile}] :
            TakeList(w, [k \in 1 .. Len(files) |->
                            IF k <= n THEN files[k] ELSE rest[k]])

\* connect fails, the peer refuses or closes: `continue`.
PeerRefuses(w) == /\ PeerDrops
                  /\ At(w, "list") \/ At(w, "file")
                  /\ WorkerGoes(w, "loop")

\* The file is received, is up to date or is gone.
FileDone(w) == At(w, "file") /\ WorkerGoes(w, "loop")

\* The peer closes before it approves GET_FILE: `break` ends the thread.
FileApprovalLost(w) == PeerDrops /\ At(w, "file") /\ WorkerGoes(w, "ret")

\* The peer closes inside the file: the descriptor is closed and polled on.
FileBroken(w) == PeerDrops /\ At(w, "file") /\ WorkerGoes(w, "stuck")

\* Every poll loop on a peer's socket ends when term_flag is set.
PollStops(w) == /\ At(w, "list") \/ At(w, "file") \/ At(w, "stuck")
                /\ term_flag = 1
                /\ WorkerGoes(w, "ret")

--------------------------------------------------------------------------------
(* The main thread. *)

ClientElem(c) == [client |-> c, file |-> NoFile]

\* Adds c to the list and turns to the buffer with an element for it.
Announce(c) == /\ list' = client_list_add(list, c)
               /\ todo' = [todo EXCEPT ![Main] = <<ClientElem(c)>>]
               /\ Goto(Main, "lock")
               /\ UNCHANGED <<bufVars, syncVars, sigVars, term_flag, elem, popped>>

\* The next tuple of the server's answer; the client's own is skipped.
RecvTuple ==
    /\ At(Main, "recv") /\ Starting /\ term_flag = 0
    /\ IF incoming[i + 1] = Self
       THEN /\ i' = i + 1
            /\ UNCHANGED <<bufVars, syncVars, envVars, sigVars, pc, term_flag,
                           todo, elem, popped, list>>
       ELSE Announce(incoming[i + 1]) /\ UNCHANGED <<envVars, i>>

MainGoes(place) ==
    /\ Goto(Main, place)
    /\ UNCHANGED <<bufVars, syncVars, envVars, sigVars, term_flag, todo, elem,
                   popped, list, i>>

RecvDone == At(Main, "recv") /\ ~Starting /\ MainGoes("listen")

RecvStops == At(Main, "recv") /\ Starting /\ term_flag = 1 /\ MainGoes("joinsome")

\* The server is gone: term_flag is set, but nobody who sleeps is woken.
RecvFails == /\ ServerDrops
             /\ At(Main, "recv") /\ Starting /\ term_flag = 0
             /\ term_flag' = 1
             /\ Goto(Main, "joinsome")
             /\ UNCHANGED <<bufVars, syncVars, envVars, sigVars, todo, elem,
                            popped, list, i>>

UserOn == /\ At(Main, "listen") /\ term_flag = 0
          /\ ons < MaxOn
          /\ ons' = ons + 1
          /\ \E c \in Clients : Announce(c)
          /\ UNCHANGED <<incoming, i>>

UserOff == /\ At(Main, "listen") /\ term_flag = 0
           /\ \E c \in Clients : list' = delete_from_client_list(list, c)
           /\ UNCHANGED <<bufVars, syncVars, envVars, sigVars, pc, term_flag,
                          todo, elem, popped, i>>

ListenStops == At(Main, "listen") /\ term_flag = 1 /\ MainGoes("joinall")

\* Mutant: the early exits join one thread less.
JoinFewer == /\ At(Main, "joinsome")
             /\ \A w \in Workers : w < i => pc[w] = "ret"
             /\ MainGoes("freed")

\* The early exits join the threads 0..i only, then free the buffer.
JoinSome == /\ At(Main, "joinsome")
            /\ \A w \in Workers : w <= i => pc[w] = "ret"
            /\ MainGoes("freed")

ExitEarly == At(Main, "freed") /\ MainGoes("exited")

\* All workers are joined and term_flag is reset for the log-off.
JoinAll == /\ At(Main, "joinall")
           /\ \A w \in Workers : pc[w] = "ret"
           /\ term_flag' = 0
           /\ Goto(Main, "logoff")
           /\ UNCHANGED <<bufVars, syncVars, envVars, sigVars, todo, elem,
                          popped, list, i>>

LogOff == At(Main, "logoff") /\ MainGoes("exited")

--------------------------------------------------------------------------------
(* SIGINT: sig_h runs on any thread, without the mutex. *)

SigInt(t) == /\ sigs < MaxSig /\ sigOn = NoOne
             /\ pc[t] # "ret" /\ pc[Main] # "exited"
             /\ sigs' = sigs + 1
             /\ sigOn' = t
             /\ sigNext' = "nonempty"
             /\ term_flag' = 1
             /\ UNCHANGED <<bufVars, syncVars, envVars, pc, todo, elem, popped,
                            list, i>>

\* Mutant: the handler wakes the workers only.
SigWakesWorkers ==
    /\ sigOn # NoOne /\ pc[Main] # "exited"
    /\ waiters' = [waiters EXCEPT !["nonempty"] = {}]
    /\ pc' = Woken(pc, "nonempty")
    /\ sigOn' = NoOne
    /\ UNCHANGED <<bufVars, envVars, sigs, sigNext, mtx, term_flag, todo, elem,
                   popped, list, i>>

SigBroadcast ==
    /\ sigOn # NoOne /\ pc[Main] # "exited"
    /\ waiters' = [waiters EXCEPT ![sigNext] = {}]
    /\ pc' = Woken(pc, sigNext)
    /\ sigNext' = "nonfull"
    /\ sigOn' = IF sigNext = "nonfull" THEN NoOne ELSE sigOn
    /\ UNCHANGED <<bufVars, envVars, sigs, mtx, term_flag, todo, elem, popped,
                   list, i>>

--------------------------------------------------------------------------------

\* The mutex and condition variable code both kinds of thread run.
SyncStep(t) == Lock(t) \/ MustWait(t) \/ Sleep(t) \/ Quit(t) \/ Push(t)
               \/ SignalNonempty(t)

WorkerStep(w) == \/ SyncStep(w) \/ Loop(w) \/ Pop(w) \/ SignalNonfull(w)
                 \/ Lookup(w) \/ Dial(w) \/ ListReply(w) \/ FileDone(w)
                 \/ PollStops(w)

PeerFault(w) == \/ ListBroken(w) \/ PeerRefuses(w) \/ FileApprovalLost(w)
                \/ FileBroken(w)

MainStep == \/ SyncStep(Main) \/ RecvTuple \/ RecvDone \/ RecvStops
            \/ ListenStops \/ JoinSome \/ ExitEarly \/ JoinAll \/ LogOff

MainInput == RecvFails \/ UserOn \/ UserOff

Next == \/ \E w \in Workers : WorkerStep(w) \/ PeerFault(w)
        \/ MainStep \/ MainInput
        \/ \E t \in Threads : SpuriousWakeup(t) \/ SigInt(t)
        \/ SigBroadcast

Spec == Init /\ [][Next]_vars

\* Every thread that can run is scheduled again and again and gets a mutex
\* that keeps being released; peers answer; a handler runs to its end.
Fairness == /\ \A w \in Workers : WF_vars(WorkerStep(w)) /\ SF_vars(Lock(w))
            /\ WF_vars(MainStep) /\ SF_vars(Lock(Main))
            /\ WF_vars(SigBroadcast)

FairSpec == Spec /\ Fairness

--------------------------------------------------------------------------------
(* Properties. *)

WorkerPlaces == {"loop", "lock", "check", "sleep", "asleep", "signal_nonempty",
                 "signal_nonfull", "lookup", "dial", "list", "file", "stuck",
                 "ret"}
MainPlaces == {"recv", "lock", "check", "sleep", "asleep", "signal_nonempty",
               "listen", "joinsome", "freed", "joinall", "logoff", "exited"}

\* Between buffer_pop and its last use of the element.
Using(w) == pc[w] \in {"signal_nonfull", "lookup", "dial", "list", "file", "stuck"}

\* Every variable has the shape its C declaration gives it, and a thread is
\* in the middle of a push exactly where work() and main() can be.
TypeOK ==
    /\ circ_buffer \in [Slots -> Elem \cup {NoElem}]
    /\ read \in Slots /\ write \in Slots
    /\ mtx \in Threads \cup {NoOne}
    /\ pc \in [Threads -> WorkerPlaces \cup MainPlaces]
    /\ pc[Main] \in MainPlaces
    /\ \A w \in Workers : pc[w] \in WorkerPlaces
    /\ waiters \in [CondVars -> SUBSET Threads]
    /\ term_flag \in {0, 1}
    /\ todo \in [Threads -> Seq(Elem)]
    /\ elem \in [Workers -> Slots \cup {NoOne}]
    /\ popped \in [Workers -> Elem \cup {NoElem}]
    /\ list \in Seq(Clients)
    /\ incoming \in Seq(Clients \cup {Self})
    /\ i \in 0 .. Len(incoming)
    /\ ons \in 0 .. MaxOn
    /\ sigs \in 0 .. MaxSig
    /\ sigOn \in Threads \cup {NoOne}
    /\ sigNext \in CondVars

\* buffer_mtx works: exactly the holder is between lock and unlock, so tests
\* and updates of the indices never interleave.
MutualExclusion == \A t \in Threads : pc[t] \in {"check", "sleep"} <=> mtx = t

\* A thread is on the queue of the condition variable it named, and on no
\* other, exactly while it sleeps.
SleepersQueued == \A t \in Threads : \A c \in CondVars :
                      t \in waiters[c] <=> pc[t] = "asleep" /\ c = CondOf(t)

\* A thread that has decided to wait still has the reason to: the mutex it
\* holds keeps the buffer as it was.
DecisionStands == \A t \in Threads : pc[t] = "sleep" => Blocked(t)

\* Main only turns to the buffer to put something in.
MainPushes == pc[Main] \in {"lock", "check", "sleep", "asleep"} => todo[Main] # <<>>

\* A slot that is queued, or that a worker points to, was written.
SlotsWritten ==
    /\ \A k \in 0 .. Count - 1 : circ_buffer[Slot(k)] \in Elem
    /\ \A w \in Workers : Using(w) => elem[w] \in Slots /\ Deref(w) \in Elem

\* No wakeup is missed, SIGINT aside: if a worker sleeps for an element
\* although the buffer has one, or main for room although there is some, then
\* a thread is on its way to the broadcast that wakes it.
NoMissedWakeup ==
    /\ (\E w \in Workers : pc[w] = "asleep" /\ todo[w] = <<>>) /\ ~buffer_is_empty
          => \E t \in Threads : pc[t] = "signal_nonempty"
    /\ pc[Main] = "asleep" /\ ~buffer_is_full
          => \E w \in Workers : pc[w] = "signal_nonfull"

\* Through all interleavings of its threads a client uses the circular buffer
\* as a bounded first-in first-out queue of bufferSize - 1 places.
BufferIsFIFO == FIFO!Spec

\* The element a worker works on, outside the mutex, is still the one it
\* popped: nobody writes a slot while it is in use.
ElementStable == \A w \in Workers : Using(w) => Deref(w) = popped[w]

\* The buffer is freed only when no worker can touch it any more.
FreedAfterJoin == pc[Main] = "freed" => \A w \in Workers : pc[w] = "ret"

\* What is queued is taken by some worker, unless a SIGINT stops the client.
QueuedIsTaken == (~buffer_is_empty /\ sigs = 0) ~> (buffer_is_empty \/ sigs > 0)

\* Main, waiting for room, gets it, and so comes back to its sockets, unless
\* a SIGINT comes first.
MainUnblocks ==
    (pc[Main] = "asleep" /\ sigs = 0) ~> (pc[Main] # "asleep" \/ sigs > 0)

\* A worker that sleeps until there is room wakes up.
PusherUnblocks ==
    \A w \in Workers : (pc[w] = "asleep" /\ todo[w] # <<>>) ~> pc[w] # "asleep"

\* The first SIGINT stops the client for good if it catches no thread between
\* its decision to wait and the wait itself.
StopsUnlessCaught ==
    (sigOn # NoOne /\ sigNext = "nonempty" /\ \A t \in Threads : pc[t] # "sleep")
        ~> pc[Main] = "exited"
================================================================================
