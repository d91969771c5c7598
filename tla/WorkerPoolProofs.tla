--------------------------- MODULE WorkerPoolProofs ----------------------------
(***************************************************************************)
(* What holds of a client's threads for every number of workers, every     *)
(* bufferSize and every environment.  The inductive invariant PoolInv adds *)
(* to the properties of WorkerPool what a waiting thread knows: where it   *)
(* is queued, why it waits, and that main waits only in order to push.     *)
(***************************************************************************)
EXTENDS WorkerPool, SequenceTheorems, TLAPS

\* The inductive invariant.
PoolInv == /\ TypeOK
           /\ MutualExclusion
           /\ SleepersQueued
           /\ MainPushes
           /\ DecisionStands
           /\ SlotsWritten
           /\ NoMissedWakeup

\* What the index arithmetic of buffer.c amounts to: indices stay in the array,
\* Count lies below bufferSize, no queued slot is the next one to be written, and
\* the two tests of the indices compare Count with its limits.
LEMMA RingStep ==
  ASSUME read \in Slots, write \in Slots
  PROVE  /\ Succ(read) \in Slots /\ Succ(write) \in Slots
         /\ Count \in Nat /\ Count < bufferSize
         /\ \A k \in 0 .. Count - 1 : Slot(k) \in Slots /\ Slot(k) # write
         /\ buffer_is_empty <=> Count = 0
         /\ buffer_is_full <=> Count = bufferSize - 1
  BY BufferAssumption DEF Slots, Succ, Count, Slot, buffer_is_empty, buffer_is_full

\* Advancing only the write index of a buffer that is not full appends one slot.
LEMMA RingPush ==
  ASSUME read \in Slots, write \in Slots, ~buffer_is_full,
         read' = read, write' = Succ(write)
  PROVE  /\ Count' = Count + 1
         /\ \A k \in 0 .. Count : Slot(k)' = Slot(k)
         /\ Slot(Count) = write
  BY BufferAssumption DEF Slots, Succ, Count, Slot, buffer_is_full

\* Advancing only the read index of a buffer that is not empty drops the first slot.
LEMMA RingPop ==
  ASSUME read \in Slots, write \in Slots, ~buffer_is_empty,
         read' = Succ(read), write' = write
  PROVE  /\ Count' = Count - 1
         /\ \A k \in 0 .. Count - 2 : Slot(k)' = Slot(k + 1)
         /\ Slot(0) = read
  BY BufferAssumption DEF Slots, Succ, Count, Slot, buffer_is_empty

\* The state in which the worker threads have just been created satisfies PoolInv.
LEMMA InitInv == Init => PoolInv
  <1> SUFFICES ASSUME Init PROVE PoolInv
    OBVIOUS
  <1> USE BufferAssumption, PoolAssumption DEF Init, buffer_init, Threads, Workers, Main, NoOne
  <1>1. TypeOK
    BY DEF TypeOK, Slots, WorkerPlaces, MainPlaces, CondVars
  <1>2. MutualExclusion
    BY DEF MutualExclusion
  <1>3. SleepersQueued
    BY DEF SleepersQueued
  <1>4. MainPushes
    BY DEF MainPushes
  <1>5. DecisionStands
    BY DEF DecisionStands
  <1>6. SlotsWritten
    BY DEF SlotsWritten, Count, Using
  <1>7. NoMissedWakeup
    BY DEF NoMissedWakeup, buffer_is_empty
  <1> QED
    BY <1>1, <1>2, <1>3, <1>4, <1>5, <1>6, <1>7 DEF PoolInv

\* The main thread and the workers are different threads, and there are no others.
LEMMA ThreadNames ==
  /\ Main \in Threads /\ NoOne \notin Threads
  /\ Workers \subseteq Threads /\ Main \notin Workers
  /\ \A t \in Threads : t = Main \/ t \in Workers
  BY PoolAssumption DEF Main, NoOne, Workers, Threads

\* A thread that moves to a place of its own code leaves pc well typed and the
\* other threads where they are.
LEMMA GotoTyped ==
  ASSUME TypeOK, NEW t \in Threads, NEW p, Goto(t, p),
         t = Main => p \in MainPlaces, t # Main => p \in WorkerPlaces
  PROVE  /\ pc' \in [Threads -> WorkerPlaces \cup MainPlaces]
         /\ pc'[Main] \in MainPlaces
         /\ \A w \in Workers : pc'[w] \in WorkerPlaces
         /\ pc'[t] = p
         /\ \A u \in Threads : u # t => pc'[u] = pc[u]
  BY PoolAssumption DEF TypeOK, Goto, Threads, Workers, Main

\* A thread that is about no broadcast and moves to no wait disturbs neither the
\* queues nor the reasons of the sleepers.
LEMMA MoveKeeps ==
  ASSUME PoolInv, NEW t \in Threads, NEW p, Goto(t, p),
         pc[t] \notin {"asleep", "signal_nonempty", "signal_nonfull"},
         p \notin {"sleep", "asleep"},
         UNCHANGED <<waiters, read, write>>,
         \A u \in Threads : u # t => todo'[u] = todo[u]
  PROVE  /\ SleepersQueued'
         /\ DecisionStands'
         /\ NoMissedWakeup'
  <1>0. /\ pc'[t] = p
        /\ \A u \in Threads : u # t => pc'[u] = pc[u]
    BY DEF PoolInv, TypeOK, Goto
  <1>1. SleepersQueued'
    BY <1>0 DEF PoolInv, SleepersQueued, CondOf
  <1>2. DecisionStands'
    BY <1>0 DEF PoolInv, DecisionStands, Blocked, buffer_is_empty, buffer_is_full, Succ
  <1>3. NoMissedWakeup'
    <2>1. buffer_is_empty' = buffer_is_empty /\ buffer_is_full' = buffer_is_full
      BY DEF buffer_is_empty, buffer_is_full, Succ
    <2>2. Main \in Threads /\ Workers \subseteq Threads
      BY ThreadNames
    <2>3. ASSUME NEW w \in Workers, pc'[w] = "asleep", todo'[w] = <<>>, ~buffer_is_empty'
          PROVE  \E u \in Threads : pc'[u] = "signal_nonempty"
      <3>1. w # t /\ pc[w] = "asleep" /\ todo[w] = <<>>
        BY <1>0, <2>2, <2>3
      <3>2. PICK u \in Threads : pc[u] = "signal_nonempty"
        BY <2>1, <2>3, <3>1 DEF PoolInv, NoMissedWakeup
      <3> QED
        BY <1>0, <3>2
    <2>4. ASSUME pc'[Main] = "asleep", ~buffer_is_full'
          PROVE  \E w \in Workers : pc'[w] = "signal_nonfull"
      <3>1. Main # t /\ pc[Main] = "asleep"
        BY <1>0, <2>2, <2>4
      <3>2. PICK w \in Workers : pc[w] = "signal_nonfull"
        BY <2>1, <2>4, <3>1 DEF PoolInv, NoMissedWakeup
      <3> QED
        BY <1>0, <2>2, <3>2
    <2> QED
      BY <2>3, <2>4 DEF NoMissedWakeup
  <1> QED
    BY <1>1, <1>2, <1>3

\* A move that touches no slot and pops nothing leaves the written slots written.
LEMMA ReadersKeep ==
  ASSUME PoolInv, NEW t \in Threads, NEW p, Goto(t, p),
         UNCHANGED <<bufVars, elem>>,
         p \notin {"signal_nonfull", "lookup"},
         p \in {"dial", "list", "file", "stuck"} => Using(t)
  PROVE  SlotsWritten'
  BY DEF PoolInv, TypeOK, SlotsWritten, Count, Slot, Using, Deref, Goto, bufVars

\* Taking buffer_mtx keeps PoolInv.
LEMMA LockKeeps ==
  ASSUME PoolInv, NEW t \in Threads, Lock(t)
  PROVE  PoolInv'
  <1> USE DEF Lock, At
  <1>0. "check" \in WorkerPlaces /\ "check" \in MainPlaces
    BY DEF WorkerPlaces, MainPlaces
  <1>1. TypeOK'
    BY <1>0, GotoTyped DEF PoolInv, TypeOK, bufVars, envVars, sigVars
  <1>2. MutualExclusion'
    BY ThreadNames DEF PoolInv, TypeOK, MutualExclusion, Goto
  <1>3. SleepersQueued' /\ DecisionStands' /\ NoMissedWakeup'
    BY MoveKeeps DEF bufVars
  <1>4. MainPushes'
    BY DEF PoolInv, TypeOK, MainPushes, Goto
  <1>5. SlotsWritten'
    BY ReadersKeep
  <1> QED
    BY <1>1, <1>2, <1>3, <1>4, <1>5 DEF PoolInv

\* Deciding to wait keeps PoolInv: the reason to wait is the guard itself.
LEMMA MustWaitKeeps ==
  ASSUME PoolInv, NEW t \in Threads, MustWait(t)
  PROVE  PoolInv'
  <1> USE DEF MustWait, At
  <1>0. "sleep" \in WorkerPlaces /\ "sleep" \in MainPlaces
    BY DEF WorkerPlaces, MainPlaces
  <1>1. TypeOK'
    BY <1>0, GotoTyped DEF PoolInv, TypeOK, bufVars, envVars, sigVars, syncVars
  <1>2. MutualExclusion'
    BY DEF PoolInv, TypeOK, MutualExclusion, Goto, syncVars
  <1>3. SleepersQueued'
    BY DEF PoolInv, TypeOK, SleepersQueued, CondOf, Goto, syncVars
  <1>4. DecisionStands'
    BY DEF PoolInv, TypeOK, DecisionStands, Blocked, buffer_is_empty, buffer_is_full,
           Succ, Goto, bufVars
  <1>5. NoMissedWakeup'
    BY DEF PoolInv, TypeOK, NoMissedWakeup, buffer_is_empty, buffer_is_full,
           Succ, Goto, bufVars
  <1>6. MainPushes'
    BY DEF PoolInv, TypeOK, MainPushes, Goto
  <1>7. SlotsWritten'
    BY ReadersKeep
  <1> QED
    BY <1>1, <1>2, <1>3, <1>4, <1>5, <1>6, <1>7 DEF PoolInv

\* pthread_cond_wait keeps PoolInv: the thread joins the queue before it lets the
\* mutex go, and DecisionStands says its reason to wait still holds.
LEMMA SleepKeeps ==
  ASSUME PoolInv, NEW t \in Threads, Sleep(t)
  PROVE  PoolInv'
  <1> USE DEF Sleep, At
  <1>0. "asleep" \in WorkerPlaces /\ "asleep" \in MainPlaces /\ CondOf(t) \in CondVars
    BY DEF WorkerPlaces, MainPlaces, CondOf, CondVars
  <1>1. TypeOK'
    BY <1>0, GotoTyped DEF PoolInv, TypeOK, bufVars, envVars, sigVars
  <1>2. MutualExclusion'
    BY ThreadNames DEF PoolInv, TypeOK, MutualExclusion, Goto
  <1>3. SleepersQueued'
    BY <1>0 DEF PoolInv, TypeOK, SleepersQueued, CondOf, Goto
  <1>4. DecisionStands'
    BY DEF PoolInv, TypeOK, DecisionStands, Blocked, buffer_is_empty, buffer_is_full,
           Succ, Goto, bufVars
  <1>5. NoMissedWakeup'
    <2>1. buffer_is_empty' = buffer_is_empty /\ buffer_is_full' = buffer_is_full
      BY DEF buffer_is_empty, buffer_is_full, Succ, bufVars
    <2>2. Blocked(t)
      BY DEF PoolInv, DecisionStands
    <2>3. t = Main => todo[t] # <<>>
      BY DEF PoolInv, MainPushes
    <2>4. \A u \in Threads : u # t => pc'[u] = pc[u]
      BY DEF PoolInv, TypeOK, Goto
    <2> QED
      BY <2>1, <2>2, <2>3, <2>4, ThreadNames DEF PoolInv, NoMissedWakeup, Blocked
  <1>6. MainPushes'
    BY DEF PoolInv, TypeOK, MainPushes, Goto
  <1>7. SlotsWritten'
    BY ReadersKeep
  <1> QED
    BY <1>1, <1>2, <1>3, <1>4, <1>5, <1>6, <1>7 DEF PoolInv

\* Leaving the wait because of term_flag keeps PoolInv.
LEMMA QuitKeeps ==
  ASSUME PoolInv, NEW t \in Threads, Quit(t)
  PROVE  PoolInv'
  <1> USE DEF Quit, At
  <1>0. /\ t = Main => QuitTo(t) \in MainPlaces \cap {"joinsome", "listen"}
        /\ t # Main => QuitTo(t) \in WorkerPlaces \cap {"ret"}
    BY DEF WorkerPlaces, MainPlaces, QuitTo
  <1>1. TypeOK'
    BY <1>0, GotoTyped, ThreadNames DEF PoolInv, TypeOK, bufVars, envVars, sigVars
  <1>2. MutualExclusion'
    BY <1>0, ThreadNames DEF PoolInv, TypeOK, MutualExclusion, Goto
  <1>3. SleepersQueued' /\ DecisionStands' /\ NoMissedWakeup'
    BY <1>0, MoveKeeps DEF bufVars, PoolInv, TypeOK
  <1>4. MainPushes'
    BY <1>0, ThreadNames DEF PoolInv, TypeOK, MainPushes, Goto
  <1>5. SlotsWritten'
    BY <1>0, ReadersKeep
  <1> QED
    BY <1>1, <1>2, <1>3, <1>4, <1>5 DEF PoolInv

\* The steps of work() outside the mutex that only move the worker keep PoolInv.
LEMMA WorkerGoesKeeps ==
  ASSUME PoolInv, NEW w \in Workers, NEW p, WorkerGoes(w, p),
         pc[w] \in {"loop", "lookup", "dial", "list", "file", "stuck"},
         p \in {"loop", "lock", "ret"} \/ (p \in {"dial", "list", "file", "stuck"} /\ Using(w))
  PROVE  PoolInv'
  <1> USE DEF WorkerGoes
  <1>0. p \in WorkerPlaces /\ w \in Threads /\ w # Main
    BY ThreadNames DEF WorkerPlaces
  <1>1. TypeOK'
    BY <1>0, GotoTyped DEF PoolInv, TypeOK, bufVars, envVars, sigVars, syncVars
  <1>2. MutualExclusion'
    BY <1>0 DEF PoolInv, TypeOK, MutualExclusion, Goto, syncVars
  <1>3. SleepersQueued' /\ DecisionStands' /\ NoMissedWakeup'
    BY <1>0, MoveKeeps DEF bufVars, syncVars
  <1>4. MainPushes'
    BY <1>0, ThreadNames DEF PoolInv, TypeOK, MainPushes, Goto
  <1>5. SlotsWritten'
    BY <1>0, ReadersKeep
  <1> QED
    BY <1>1, <1>2, <1>3, <1>4, <1>5 DEF PoolInv

\* The steps of main() that only move the main thread keep PoolInv.
LEMMA MainGoesKeeps ==
  ASSUME PoolInv, NEW p, MainGoes(p),
         pc[Main] \notin {"check", "sleep", "asleep", "signal_nonempty"},
         p \in {"listen", "joinsome", "freed", "joinall", "exited"}
  PROVE  PoolInv'
  <1> USE DEF MainGoes
  <1>0. p \in MainPlaces /\ Main \in Threads
    BY ThreadNames DEF MainPlaces
  <1>1. TypeOK'
    BY <1>0, GotoTyped DEF PoolInv, TypeOK, bufVars, envVars, sigVars, syncVars
  <1>2. MutualExclusion'
    BY <1>0 DEF PoolInv, TypeOK, MutualExclusion, Goto, syncVars
  <1>3. SleepersQueued' /\ DecisionStands' /\ NoMissedWakeup'
    BY <1>0, MoveKeeps DEF bufVars, syncVars, PoolInv, TypeOK, MainPlaces
  <1>4. MainPushes'
    BY <1>0 DEF PoolInv, TypeOK, MainPushes, Goto
  <1>5. SlotsWritten'
    BY <1>0, ReadersKeep
  <1> QED
    BY <1>1, <1>2, <1>3, <1>4, <1>5 DEF PoolInv

\* The thread that leaves the critical section was the only one in it.
LEMMA AloneInside ==
  ASSUME PoolInv, NEW t \in Threads, pc[t] = "check", NEW p, Goto(t, p),
         p \notin {"check", "sleep"}, mtx' = NoOne
  PROVE  /\ MutualExclusion'
         /\ DecisionStands'
  <1>0. \A u \in Threads : u # t => pc[u] \notin {"check", "sleep"} /\ pc'[u] = pc[u]
    BY DEF PoolInv, TypeOK, MutualExclusion, Goto
  <1>1. pc'[t] = p
    BY DEF PoolInv, TypeOK, Goto
  <1> QED
    BY <1>0, <1>1, ThreadNames DEF MutualExclusion, DecisionStands

\* buffer_push with its unlock keeps PoolInv: whoever sleeps for an element has a
\* broadcast coming, from the thread that just pushed.
LEMMA PushKeeps ==
  ASSUME PoolInv, NEW t \in Threads, Push(t)
  PROVE  PoolInv'
  <1> USE DEF Push, At, buffer_push
  <1>0. "signal_nonempty" \in WorkerPlaces /\ "signal_nonempty" \in MainPlaces
    BY DEF WorkerPlaces, MainPlaces
  <1>1. Head(todo[t]) \in Elem /\ Tail(todo[t]) \in Seq(Elem)
    BY DEF PoolInv, TypeOK
  <1>2. read \in Slots /\ write \in Slots /\ circ_buffer \in [Slots -> Elem \cup {NoElem}]
    BY DEF PoolInv, TypeOK
  <1>3. TypeOK'
    <2>1. circ_buffer' \in [Slots -> Elem \cup {NoElem}] /\ write' \in Slots
      BY <1>1, <1>2, RingStep
    <2>2. todo' \in [Threads -> Seq(Elem)]
      BY <1>1 DEF PoolInv, TypeOK
    <2> QED
      BY <1>0, <2>1, <2>2, GotoTyped, ThreadNames DEF PoolInv, TypeOK, envVars, sigVars
  <1>4. MutualExclusion' /\ DecisionStands'
    BY AloneInside
  <1>5. SleepersQueued'
    BY DEF PoolInv, TypeOK, SleepersQueued, CondOf, Goto
  <1>6. MainPushes'
    BY ThreadNames DEF PoolInv, TypeOK, MainPushes, Goto
  <1>7. SlotsWritten'
    <2>1. ASSUME NEW k \in 0 .. Count' - 1
          PROVE  circ_buffer'[Slot(k)'] \in Elem
      <3>1. Count' = Count + 1 /\ Count \in Nat /\ Slot(k)' = Slot(k)
        BY <1>2, RingPush, RingStep
      <3>2. CASE k = Count
        BY <1>1, <1>2, <3>1, <3>2, RingPush
      <3>3. CASE k \in 0 .. Count - 1
        BY <1>1, <1>2, <3>1, <3>3, RingStep DEF PoolInv, SlotsWritten
      <3> QED
        BY <3>1, <3>2, <3>3
    <2>2. \A w \in Workers : Using(w)' => Using(w)
      BY ThreadNames DEF PoolInv, TypeOK, Using, Goto
    <2>3. \A w \in Workers : Using(w)' => elem'[w] \in Slots /\ Deref(w)' \in Elem
      BY <1>1, <1>2, <2>2 DEF PoolInv, TypeOK, SlotsWritten, Deref
    <2> QED
      BY <2>1, <2>3 DEF SlotsWritten
  <1>8. NoMissedWakeup'
    <2>1. pc'[t] = "signal_nonempty" /\ \A u \in Threads : u # t => pc'[u] = pc[u]
      BY DEF PoolInv, TypeOK, Goto
    <2>2. ASSUME pc'[Main] = "asleep"
          PROVE  \E w \in Workers : pc'[w] = "signal_nonfull"
      <3>1. PICK w \in Workers : pc[w] = "signal_nonfull"
        BY <2>1, <2>2, ThreadNames DEF PoolInv, NoMissedWakeup
      <3> QED
        BY <2>1, <3>1, ThreadNames
    <2> QED
      BY <2>1, <2>2 DEF NoMissedWakeup
  <1> QED
    BY <1>3, <1>4, <1>5, <1>6, <1>7, <1>8 DEF PoolInv

\* buffer_pop with its unlock keeps PoolInv: if main sleeps for room, the thread
\* that just popped is about to broadcast.
LEMMA PopKeeps ==
  ASSUME PoolInv, NEW w \in Workers, Pop(w)
  PROVE  PoolInv'
  <1> USE DEF Pop, At, buffer_pop
  <1>0. "signal_nonfull" \in WorkerPlaces /\ w \in Threads /\ w # Main
    BY ThreadNames DEF WorkerPlaces
  <1>2. read \in Slots /\ write \in Slots /\ circ_buffer \in [Slots -> Elem \cup {NoElem}]
    BY DEF PoolInv, TypeOK
  <1>3. TypeOK'
    <2>1. read' \in Slots
      BY <1>2, RingStep
    <2>2. /\ elem' \in [Workers -> Slots \cup {NoOne}]
          /\ popped' \in [Workers -> Elem \cup {NoElem}]
      BY <1>2 DEF PoolInv, TypeOK
    <2> QED
      BY <1>0, <2>1, <2>2, GotoTyped DEF PoolInv, TypeOK, envVars, sigVars
  <1>4. MutualExclusion' /\ DecisionStands'
    BY <1>0, AloneInside
  <1>5. SleepersQueued'
    BY <1>0 DEF PoolInv, TypeOK, SleepersQueued, CondOf, Goto
  <1>6. MainPushes'
    BY <1>0, ThreadNames DEF PoolInv, TypeOK, MainPushes, Goto
  <1>7. SlotsWritten'
    <2>0. Count \in Nat /\ Count > 0 /\ Slot(0) = read
      BY <1>2, RingStep, RingPop
    <2>1. ASSUME NEW k \in 0 .. Count' - 1
          PROVE  circ_buffer'[Slot(k)'] \in Elem
      <3>1. Count' = Count - 1 /\ Slot(k)' = Slot(k + 1) /\ k + 1 \in 0 .. Count - 1
        BY <1>2, <2>0, RingPop
      <3> QED
        BY <3>1 DEF PoolInv, SlotsWritten
    <2>2. circ_buffer[read] \in Elem
      BY <2>0 DEF PoolInv, SlotsWritten
    <2>3. \A v \in Workers : v # w => (Using(v)' <=> Using(v)) /\ elem'[v] = elem[v]
      BY <1>0, ThreadNames DEF PoolInv, TypeOK, Using, Goto
    <2>4. elem'[w] = read
      BY DEF PoolInv, TypeOK
    <2>5. \A v \in Workers : Using(v)' => elem'[v] \in Slots /\ Deref(v)' \in Elem
      BY <1>2, <2>2, <2>3, <2>4 DEF PoolInv, SlotsWritten, Deref
    <2> QED
      BY <2>1, <2>5 DEF SlotsWritten
  <1>8. NoMissedWakeup'
    <2>1. pc'[w] = "signal_nonfull" /\ \A u \in Threads : u # w => pc'[u] = pc[u]
      BY <1>0 DEF PoolInv, TypeOK, Goto
    <2>2. ASSUME NEW v \in Workers, pc'[v] = "asleep", todo'[v] = <<>>
          PROVE  \E t \in Threads : pc'[t] = "signal_nonempty"
      <3>1. PICK t \in Threads : pc[t] = "signal_nonempty"
        BY <2>1, <2>2, ThreadNames DEF PoolInv, NoMissedWakeup
      <3> QED
        BY <2>1, <3>1
    <2> QED
      BY <2>1, <2>2 DEF NoMissedWakeup
  <1> QED
    BY <1>3, <1>4, <1>5, <1>6, <1>7, <1>8 DEF PoolInv

\* A broadcast on c wakes all that sleep on c; it may come from the thread that
\* owes it (which then moves on) or from the signal handler.
LEMMA BroadcastKeeps ==
  ASSUME PoolInv, NEW c \in CondVars, NEW places,
         \A t \in Threads : \/ places[t] = pc[t]
                            \/ /\ pc[t] = "signal_nonempty" /\ c = "nonempty"
                               /\ t = Main => places[t] \in {"recv", "listen"}
                               /\ t # Main => places[t] \in {"lock", "loop"}
                            \/ /\ pc[t] = "signal_nonfull" /\ c = "nonfull"
                               /\ t # Main /\ places[t] = "lookup",
         waiters' = [waiters EXCEPT ![c] = {}],
         pc' = Woken(places, c),
         UNCHANGED <<bufVars, mtx, todo, elem>>
  PROVE  /\ pc' \in [Threads -> WorkerPlaces \cup MainPlaces]
         /\ pc'[Main] \in MainPlaces
         /\ \A w \in Workers : pc'[w] \in WorkerPlaces
         /\ waiters' \in [CondVars -> SUBSET Threads]
         /\ MutualExclusion' /\ SleepersQueued' /\ MainPushes'
         /\ DecisionStands' /\ SlotsWritten' /\ NoMissedWakeup'
  <1>0. /\ pc' = [t \in Threads |->
                     IF pc[t] = "asleep" /\ c = CondOf(t) THEN "lock" ELSE places[t]]
        /\ waiters \in [CondVars -> SUBSET Threads]
    BY DEF Woken, PoolInv, TypeOK, SleepersQueued
  <1>1. \A t \in Threads :
           /\ pc'[t] = "asleep" <=> pc[t] = "asleep" /\ c # CondOf(t)
           /\ pc'[t] \in {"check", "sleep"} => pc'[t] = pc[t]
           /\ pc[t] \in {"check", "sleep"} => pc'[t] = pc[t]
    BY <1>0
  <1>2. /\ pc'[Main] \in MainPlaces
        /\ \A w \in Workers : pc'[w] \in WorkerPlaces
    <2>1. pc'[Main] \in MainPlaces
      <3>1. Main \in Threads /\ pc[Main] \in MainPlaces
        BY ThreadNames DEF PoolInv, TypeOK
      <3>2. pc'[Main] \in {pc[Main], "lock", "recv", "listen"}
        BY <1>0, <3>1
      <3> QED
        BY <3>1, <3>2 DEF MainPlaces
    <2>2. ASSUME NEW w \in Workers PROVE pc'[w] \in WorkerPlaces
      <3>1. w \in Threads /\ w # Main /\ pc[w] \in WorkerPlaces
        BY ThreadNames DEF PoolInv, TypeOK
      <3>2. pc'[w] \in {pc[w], "lock", "loop", "lookup"}
        BY <1>0, <3>1
      <3> QED
        BY <3>1, <3>2 DEF WorkerPlaces
    <2> QED
      BY <2>1, <2>2
  <1>3. pc' \in [Threads -> WorkerPlaces \cup MainPlaces]
    BY <1>0, <1>2, ThreadNames
  <1>4. waiters' \in [CondVars -> SUBSET Threads]
    BY <1>0
  <1>5. MutualExclusion'
    BY <1>1 DEF PoolInv, MutualExclusion
  <1>6. SleepersQueued'
    BY <1>0, <1>1 DEF PoolInv, SleepersQueued, CondOf
  <1>7. MainPushes'
    BY <1>0, ThreadNames DEF PoolInv, MainPushes
  <1>8. DecisionStands'
    BY <1>1 DEF PoolInv, DecisionStands, Blocked, buffer_is_empty, buffer_is_full,
                Succ, bufVars
  <1>9. SlotsWritten'
    <2>1. \A w \in Workers : Using(w)' => Using(w)
      BY <1>0, ThreadNames DEF Using
    <2> QED
      BY <2>1 DEF PoolInv, SlotsWritten, Count, Slot, Deref, bufVars
  <1>10. NoMissedWakeup'
    <2>1. buffer_is_empty' = buffer_is_empty /\ buffer_is_full' = buffer_is_full
      BY DEF buffer_is_empty, buffer_is_full, Succ, bufVars
    <2>2. ASSUME NEW w \in Workers, pc'[w] = "asleep", todo'[w] = <<>>, ~buffer_is_empty'
          PROVE  \E t \in Threads : pc'[t] = "signal_nonempty"
      <3>1. c = "nonfull" /\ pc[w] = "asleep" /\ todo[w] = <<>>
        BY <1>1, <2>2, ThreadNames DEF CondOf, CondVars
      <3>2. PICK t \in Threads : pc[t] = "signal_nonempty"
        BY <2>1, <2>2, <3>1 DEF PoolInv, NoMissedWakeup
      <3> QED
        BY <1>0, <3>1, <3>2
    <2>3. ASSUME pc'[Main] = "asleep", ~buffer_is_full'
          PROVE  \E w \in Workers : pc'[w] = "signal_nonfull"
      <3>1. c = "nonempty" /\ pc[Main] = "asleep"
        BY <1>1, <2>3, ThreadNames DEF CondOf, CondVars
      <3>2. PICK w \in Workers : pc[w] = "signal_nonfull"
        BY <2>1, <2>3, <3>1 DEF PoolInv, NoMissedWakeup
      <3> QED
        BY <1>0, <3>1, <3>2, ThreadNames
    <2> QED
      BY <2>2, <2>3 DEF NoMissedWakeup
  <1> QED
    BY <1>2, <1>3, <1>4, <1>5, <1>6, <1>7, <1>8, <1>9, <1>10

\* The broadcast after a push keeps PoolInv.
LEMMA SignalNonemptyKeeps ==
  ASSUME PoolInv, NEW t \in Threads, SignalNonempty(t)
  PROVE  PoolInv'
  <1> DEFINE places == [pc EXCEPT ![t] = AfterPush(t)]
  <1> USE DEF SignalNonempty, At
  <1>1. /\ t = Main => places[t] \in {"recv", "listen"}
        /\ t # Main => places[t] \in {"lock", "loop"}
        /\ \A u \in Threads : u # t => places[u] = pc[u]
    BY DEF PoolInv, TypeOK, AfterPush
  <1>2. "nonempty" \in CondVars
    BY DEF CondVars
  <1> HIDE DEF places
  <1>3. /\ pc' \in [Threads -> WorkerPlaces \cup MainPlaces]
        /\ pc'[Main] \in MainPlaces
        /\ \A w \in Workers : pc'[w] \in WorkerPlaces
        /\ waiters' \in [CondVars -> SUBSET Threads]
        /\ MutualExclusion' /\ SleepersQueued' /\ MainPushes'
        /\ DecisionStands' /\ SlotsWritten' /\ NoMissedWakeup'
    <2>1. pc' = Woken(places, "nonempty")
      BY DEF places
    <2> QED
      BY <1>1, <1>2, <2>1, BroadcastKeeps
  <1>4. TypeOK'
    <2>1. i' \in 0 .. Len(incoming) /\ incoming' = incoming
      <3>1. i \in 0 .. Len(incoming) /\ Len(incoming) \in Nat
        BY DEF PoolInv, TypeOK
      <3> QED
        BY <3>1 DEF Starting, envVars
    <2> QED
      BY <1>3, <2>1 DEF PoolInv, TypeOK, bufVars, envVars, sigVars
  <1> QED
    BY <1>3, <1>4 DEF PoolInv

\* The broadcast after a pop keeps PoolInv.
LEMMA SignalNonfullKeeps ==
  ASSUME PoolInv, NEW w \in Workers, SignalNonfull(w)
  PROVE  PoolInv'
  <1> DEFINE places == [pc EXCEPT ![w] = "lookup"]
  <1> USE DEF SignalNonfull, At
  <1>1. /\ w # Main /\ w \in Threads
        /\ places[w] = "lookup" /\ \A u \in Threads : u # w => places[u] = pc[u]
    BY ThreadNames DEF PoolInv, TypeOK
  <1>2. "nonfull" \in CondVars
    BY DEF CondVars
  <1> HIDE DEF places
  <1>3. /\ pc' \in [Threads -> WorkerPlaces \cup MainPlaces]
        /\ pc'[Main] \in MainPlaces
        /\ \A v \in Workers : pc'[v] \in WorkerPlaces
        /\ waiters' \in [CondVars -> SUBSET Threads]
        /\ MutualExclusion' /\ SleepersQueued' /\ MainPushes'
        /\ DecisionStands' /\ SlotsWritten' /\ NoMissedWakeup'
    <2>1. pc' = Woken(places, "nonfull")
      BY DEF places
    <2> QED
      BY <1>1, <1>2, <2>1, BroadcastKeeps
  <1>4. TypeOK'
    BY <1>3 DEF PoolInv, TypeOK, bufVars, envVars, sigVars
  <1> QED
    BY <1>3, <1>4 DEF PoolInv

\* A broadcast of sig_h keeps PoolInv.
LEMMA SigBroadcastKeeps ==
  ASSUME PoolInv, SigBroadcast
  PROVE  PoolInv'
  <1> USE DEF SigBroadcast
  <1>1. sigNext \in CondVars
    BY DEF PoolInv, TypeOK
  <1>3. /\ pc' \in [Threads -> WorkerPlaces \cup MainPlaces]
        /\ pc'[Main] \in MainPlaces
        /\ \A v \in Workers : pc'[v] \in WorkerPlaces
        /\ waiters' \in [CondVars -> SUBSET Threads]
        /\ MutualExclusion' /\ SleepersQueued' /\ MainPushes'
        /\ DecisionStands' /\ SlotsWritten' /\ NoMissedWakeup'
    BY <1>1, BroadcastKeeps
  <1>4. TypeOK'
    <2>1. sigOn' \in Threads \cup {NoOne} /\ sigNext' \in CondVars
      BY DEF PoolInv, TypeOK, CondVars
    <2> QED
      BY <1>3, <2>1 DEF PoolInv, TypeOK, bufVars, envVars
  <1> QED
    BY <1>3, <1>4 DEF PoolInv

\* A wakeup without a signal keeps PoolInv.
LEMMA SpuriousWakeupKeeps ==
  ASSUME PoolInv, NEW t \in Threads, SpuriousWakeup(t)
  PROVE  PoolInv'
  <1> USE DEF SpuriousWakeup, At
  <1>0. "lock" \in WorkerPlaces /\ "lock" \in MainPlaces
    BY DEF WorkerPlaces, MainPlaces
  <1>1. TypeOK'
    BY <1>0, GotoTyped DEF PoolInv, TypeOK, bufVars, envVars, sigVars
  <1>2. MutualExclusion'
    BY DEF PoolInv, TypeOK, MutualExclusion, Goto
  <1>3. SleepersQueued'
    BY DEF PoolInv, TypeOK, SleepersQueued, CondOf, Goto
  <1>4. DecisionStands'
    BY DEF PoolInv, TypeOK, DecisionStands, Blocked, buffer_is_empty, buffer_is_full,
           Succ, Goto, bufVars
  <1>5. NoMissedWakeup'
    <2>1. pc'[t] = "lock" /\ \A u \in Threads : u # t => pc'[u] = pc[u]
      BY DEF PoolInv, TypeOK, Goto
    <2>2. buffer_is_empty' = buffer_is_empty /\ buffer_is_full' = buffer_is_full
      BY DEF buffer_is_empty, buffer_is_full, Succ, bufVars
    <2>3. \A u \in Threads : pc[u] \in {"signal_nonempty", "signal_nonfull"} => u # t
      OBVIOUS
    <2> QED
      BY <2>1, <2>2, <2>3, ThreadNames DEF PoolInv, NoMissedWakeup
  <1>6. MainPushes'
    BY DEF PoolInv, TypeOK, MainPushes, Goto
  <1>7. SlotsWritten'
    BY ReadersKeep
  <1> QED
    BY <1>1, <1>2, <1>3, <1>4, <1>5, <1>6, <1>7 DEF PoolInv

\* Turning a peer's file list into elements to push keeps PoolInv.
LEMMA TakeListKeeps ==
  ASSUME PoolInv, NEW w \in Workers, NEW files \in Seq(Files \cup {NoFile}),
         TakeList(w, files)
  PROVE  PoolInv'
  <1> USE DEF TakeList, At
  <1> DEFINE p == IF files = <<>> THEN "loop" ELSE "lock"
  <1>0. p \in WorkerPlaces /\ p \in {"loop", "lock"} /\ w \in Threads /\ w # Main
    BY ThreadNames DEF WorkerPlaces
  <1>1. TmpArray(w, files) \in Seq(Elem)
    <2>1. Deref(w) \in Elem
      BY DEF PoolInv, SlotsWritten, Using
    <2>2. \A n \in 1 .. Len(files) :
             [client |-> Deref(w).client, file |-> files[n]] \in Elem
      BY <2>1, PoolAssumption
    <2> QED
      BY <2>2 DEF TmpArray
  <1> HIDE DEF p
  <1>2. Goto(w, p)
    BY DEF p
  <1>3. TypeOK'
    <2>1. todo' \in [Threads -> Seq(Elem)]
      BY <1>0, <1>1 DEF PoolInv, TypeOK
    <2> QED
      BY <1>0, <1>2, <2>1, GotoTyped DEF PoolInv, TypeOK, bufVars, envVars, sigVars, syncVars
  <1>4. MutualExclusion'
    BY <1>0, <1>2 DEF PoolInv, TypeOK, MutualExclusion, Goto, syncVars
  <1>5. SleepersQueued' /\ DecisionStands' /\ NoMissedWakeup'
    BY <1>0, <1>2, MoveKeeps DEF bufVars, syncVars, PoolInv, TypeOK
  <1>6. MainPushes'
    BY <1>0, <1>2, ThreadNames DEF PoolInv, TypeOK, MainPushes, Goto
  <1>7. SlotsWritten'
    BY <1>0, <1>2, ReadersKeep
  <1> QED
    BY <1>3, <1>4, <1>5, <1>6, <1>7 DEF PoolInv

\* Adding a client to the list and turning to the buffer with it keeps PoolInv.
LEMMA AnnounceKeeps ==
  ASSUME PoolInv, NEW c \in Clients, Announce(c),
         pc[Main] \in {"recv", "listen"},
         incoming' = incoming, i' \in 0 .. Len(incoming), ons' \in 0 .. MaxOn
  PROVE  PoolInv'
  <1> USE DEF Announce
  <1>0. "lock" \in MainPlaces /\ Main \in Threads
    BY ThreadNames DEF MainPlaces
  <1>1. <<ClientElem(c)>> \in Seq(Elem) /\ <<ClientElem(c)>> # <<>>
    BY PoolAssumption DEF ClientElem
  <1>2. list' \in Seq(Clients)
    BY DEF PoolInv, TypeOK, client_list_add
  <1>3. TypeOK'
    <2>1. todo' \in [Threads -> Seq(Elem)]
      BY <1>0, <1>1 DEF PoolInv, TypeOK
    <2> QED
      BY <1>0, <1>2, <2>1, GotoTyped DEF PoolInv, TypeOK, bufVars, sigVars, syncVars
  <1>4. MutualExclusion'
    BY <1>0 DEF PoolInv, TypeOK, MutualExclusion, Goto, syncVars
  <1>5. SleepersQueued' /\ DecisionStands' /\ NoMissedWakeup'
    BY <1>0, MoveKeeps DEF bufVars, syncVars, PoolInv, TypeOK
  <1>6. MainPushes'
    BY <1>0, <1>1 DEF PoolInv, TypeOK, MainPushes, Goto
  <1>7. SlotsWritten'
    BY <1>0, ReadersKeep
  <1> QED
    BY <1>3, <1>4, <1>5, <1>6, <1>7 DEF PoolInv

\* delete_from_client_list returns a list of clients.
LEMMA DeleteTyped ==
  ASSUME NEW l \in Seq(Clients), NEW c
  PROVE  delete_from_client_list(l, c) \in Seq(Clients)
  <1>1. CASE in_client_list(l, c)
    <2> DEFINE n == FirstNode(l, c)
    <2>1. Len(l) \in Nat /\ Len(l) >= 1
      BY <1>1 DEF in_client_list
    <2>2. \A k \in 1 .. Len(l) - 1 : (IF k < n THEN l[k] ELSE l[k + 1]) \in Clients
      BY <2>1
    <2> HIDE DEF n
    <2>3. [k \in 1 .. Len(l) - 1 |-> IF k < n THEN l[k] ELSE l[k + 1]] \in Seq(Clients)
      BY <2>1, <2>2
    <2> QED
      BY <1>1, <2>3 DEF delete_from_client_list, n
  <1>2. CASE ~in_client_list(l, c)
    BY <1>2 DEF delete_from_client_list
  <1> QED
    BY <1>1, <1>2

\* Steps that touch neither the buffer nor the threads' places.
\* PoolInv depends on the buffer, the mutex, the queues and the threads only.
LEMMA AsideKeeps ==
  ASSUME PoolInv, TypeOK', UNCHANGED <<bufVars, syncVars, pc, todo, elem>>
  PROVE  PoolInv'
  <1> USE DEF bufVars, syncVars
  <1>1. MutualExclusion' /\ SleepersQueued' /\ MainPushes'
    BY DEF PoolInv, MutualExclusion, SleepersQueued, MainPushes, CondOf
  <1>2. DecisionStands'
    BY DEF PoolInv, DecisionStands, Blocked, buffer_is_empty, buffer_is_full, Succ
  <1>3. SlotsWritten'
    BY DEF PoolInv, SlotsWritten, Count, Slot, Using, Deref
  <1>4. NoMissedWakeup'
    BY DEF PoolInv, NoMissedWakeup, buffer_is_empty, buffer_is_full, Succ
  <1> QED
    BY <1>1, <1>2, <1>3, <1>4 DEF PoolInv

\* Every step of a worker, faults of its peer included, keeps PoolInv.
LEMMA WorkerKeeps ==
  ASSUME PoolInv, NEW w \in Workers, WorkerStep(w) \/ PeerFault(w)
  PROVE  PoolInv'
  <1>0. w \in Threads
    BY ThreadNames
  <1>1. CASE Lock(w) \/ MustWait(w) \/ Sleep(w) \/ Quit(w)
    BY <1>0, <1>1, LockKeeps, MustWaitKeeps, SleepKeeps, QuitKeeps
  <1>2. CASE Push(w) \/ SignalNonempty(w) \/ Pop(w) \/ SignalNonfull(w)
    BY <1>0, <1>2, PushKeeps, SignalNonemptyKeeps, PopKeeps, SignalNonfullKeeps
  <1>3. CASE Loop(w)
    BY <1>3, WorkerGoesKeeps DEF Loop, At
  <1>4. CASE Lookup(w)
    BY <1>4, WorkerGoesKeeps DEF Lookup, At, Using
  <1>5. CASE Dial(w)
    BY <1>5, WorkerGoesKeeps DEF Dial, At, Using
  <1>6. CASE ListReply(w)
    <2>1. PICK files \in FileLists : TakeList(w, files)
      BY <1>6 DEF ListReply
    <2>2. files \in Seq(Files \cup {NoFile})
      BY PoolAssumption
    <2> QED
      BY <2>1, <2>2, TakeListKeeps
  <1>7. CASE ListBroken(w)
    <2>1. PICK files \in FileLists : \E n \in 0 .. Len(files) - 1 :
             \E rest \in [n + 1 .. Len(files) -> Files \cup {NoFile}] :
                TakeList(w, [k \in 1 .. Len(files) |->
                                IF k <= n THEN files[k] ELSE rest[k]])
      BY <1>7 DEF ListBroken
    <2>2. files \in Seq(Files) /\ Len(files) \in Nat
      BY PoolAssumption
    <2>3. PICK n \in 0 .. Len(files) - 1 :
             \E rest \in [n + 1 .. Len(files) -> Files \cup {NoFile}] :
                TakeList(w, [k \in 1 .. Len(files) |->
                                IF k <= n THEN files[k] ELSE rest[k]])
      BY <2>1
    <2>4. PICK rest \in [n + 1 .. Len(files) -> Files \cup {NoFile}] :
             TakeList(w, [k \in 1 .. Len(files) |->
                             IF k <= n THEN files[k] ELSE rest[k]])
      BY <2>3
    <2> DEFINE mixed == [k \in 1 .. Len(files) |-> IF k <= n THEN files[k] ELSE rest[k]]
    <2>5. mixed \in Seq(Files \cup {NoFile})
      <3>1. \A k \in 1 .. Len(files) :
               (IF k <= n THEN files[k] ELSE rest[k]) \in Files \cup {NoFile}
        BY <2>2
      <3> QED
        BY <2>2, <3>1
    <2> HIDE DEF mixed
    <2>6. TakeList(w, mixed)
      BY <2>4 DEF mixed
    <2> QED
      BY <2>5, <2>6, TakeListKeeps
  <1>8. CASE PeerRefuses(w)
    BY <1>8, WorkerGoesKeeps DEF PeerRefuses, At
  <1>9. CASE FileDone(w) \/ FileApprovalLost(w) \/ FileBroken(w)
    BY <1>9, WorkerGoesKeeps DEF FileDone, FileApprovalLost, FileBroken, At, Using
  <1>10. CASE PollStops(w)
    BY <1>10, WorkerGoesKeeps DEF PollStops, At
  <1> QED
    BY <1>1, <1>2, <1>3, <1>4, <1>5, <1>6, <1>7, <1>8, <1>9, <1>10
    DEF WorkerStep, PeerFault, SyncStep

\* Every step of the main thread keeps PoolInv.
LEMMA MainKeeps ==
  ASSUME PoolInv, MainStep \/ MainInput
  PROVE  PoolInv'
  <1>0. Main \in Threads /\ incoming \in Seq(Clients \cup {Self})
        /\ i \in 0 .. Len(incoming) /\ Len(incoming) \in Nat
    BY ThreadNames DEF PoolInv, TypeOK
  <1>1. CASE SyncStep(Main)
    BY <1>0, <1>1, LockKeeps, MustWaitKeeps, SleepKeeps, QuitKeeps, PushKeeps,
       SignalNonemptyKeeps DEF SyncStep
  <1>2. CASE RecvTuple
    <2>1. CASE incoming[i + 1] = Self
      <3>1. i + 1 \in 0 .. Len(incoming)
        BY <1>0, <1>2 DEF RecvTuple, Starting
      <3>2. TypeOK'
        BY <1>2, <2>1, <3>1 DEF RecvTuple, PoolInv, TypeOK, bufVars, syncVars,
                                envVars, sigVars
      <3> QED
        BY <1>2, <2>1, <3>2, AsideKeeps DEF RecvTuple
    <2>2. CASE incoming[i + 1] # Self
      <3>1. incoming[i + 1] \in Clients
        BY <1>0, <1>2, <2>2 DEF RecvTuple, Starting
      <3>2. ons \in 0 .. MaxOn
        BY DEF PoolInv, TypeOK
      <3> QED
        BY <1>0, <1>2, <2>2, <3>1, <3>2, AnnounceKeeps DEF RecvTuple, At, envVars
    <2> QED
      BY <2>1, <2>2
  <1>3. CASE RecvDone \/ RecvStops \/ ListenStops
    BY <1>3, MainGoesKeeps DEF RecvDone, RecvStops, ListenStops, At
  <1>4. CASE JoinSome \/ ExitEarly \/ LogOff
    BY <1>4, MainGoesKeeps DEF JoinSome, ExitEarly, LogOff, At
  <1>5. CASE RecvFails \/ JoinAll
    <2> DEFINE p == IF RecvFails THEN "joinsome" ELSE "logoff"
    <2>1. /\ Goto(Main, p) /\ pc[Main] \in {"recv", "joinall"}
          /\ p \in MainPlaces \cap {"joinsome", "logoff"} /\ term_flag' \in {0, 1}
          /\ UNCHANGED <<bufVars, syncVars, envVars, sigVars, todo, elem, popped, list, i>>
      BY <1>5 DEF RecvFails, JoinAll, At, MainPlaces
    <2> HIDE DEF p
    <2>2. TypeOK'
      BY <1>0, <2>1, GotoTyped DEF PoolInv, TypeOK, bufVars, envVars, sigVars, syncVars
    <2>3. MutualExclusion'
      BY <1>0, <2>1 DEF PoolInv, TypeOK, MutualExclusion, Goto, syncVars
    <2>4. SleepersQueued' /\ DecisionStands' /\ NoMissedWakeup'
      BY <1>0, <2>1, MoveKeeps DEF bufVars, syncVars
    <2>5. MainPushes'
      BY <1>0, <2>1 DEF PoolInv, TypeOK, MainPushes, Goto
    <2>6. SlotsWritten'
      BY <1>0, <2>1, ReadersKeep
    <2> QED
      BY <2>2, <2>3, <2>4, <2>5, <2>6 DEF PoolInv
  <1>6. CASE UserOn
    <2>1. PICK c \in Clients : Announce(c)
      BY <1>6 DEF UserOn
    <2>2. ons' \in 0 .. MaxOn
      BY <1>6, PoolAssumption DEF UserOn, PoolInv, TypeOK
    <2> QED
      BY <1>0, <1>6, <2>1, <2>2, AnnounceKeeps DEF UserOn, At
  <1>7. CASE UserOff
    <2>1. PICK c \in Clients : list' = delete_from_client_list(list, c)
      BY <1>7 DEF UserOff
    <2>2. list' \in Seq(Clients)
      BY <2>1, DeleteTyped DEF PoolInv, TypeOK
    <2>3. TypeOK'
      BY <1>7, <2>2 DEF UserOff, PoolInv, TypeOK, bufVars, syncVars, envVars, sigVars
    <2> QED
      BY <1>7, <2>3, AsideKeeps DEF UserOff
  <1> QED
    BY <1>1, <1>2, <1>3, <1>4, <1>5, <1>6, <1>7 DEF MainStep, MainInput

\* The arrival of a SIGINT keeps PoolInv.
LEMMA SigIntKeeps ==
  ASSUME PoolInv, NEW t \in Threads, SigInt(t)
  PROVE  PoolInv'
  <1>1. sigs' \in 0 .. MaxSig
    BY PoolAssumption DEF SigInt, PoolInv, TypeOK
  <1>2. TypeOK'
    BY <1>1 DEF SigInt, PoolInv, TypeOK, bufVars, syncVars, envVars, CondVars
  <1> QED
    BY <1>2, AsideKeeps DEF SigInt

\* PoolInv is inductive.
LEMMA NextKeeps == PoolInv /\ [Next]_vars => PoolInv'
  <1> SUFFICES ASSUME PoolInv, [Next]_vars PROVE PoolInv'
    OBVIOUS
  <1>1. CASE UNCHANGED vars
    <2>1. TypeOK'
      BY <1>1 DEF PoolInv, TypeOK, vars, bufVars, syncVars, envVars, sigVars
    <2> QED
      BY <1>1, <2>1, AsideKeeps DEF vars
  <1>2. CASE \E w \in Workers : WorkerStep(w) \/ PeerFault(w)
    BY <1>2, WorkerKeeps
  <1>3. CASE MainStep \/ MainInput
    BY <1>3, MainKeeps
  <1>4. CASE \E t \in Threads : SpuriousWakeup(t) \/ SigInt(t)
    BY <1>4, SpuriousWakeupKeeps, SigIntKeeps
  <1>5. CASE SigBroadcast
    BY <1>5, SigBroadcastKeeps
  <1> QED
    BY <1>1, <1>2, <1>3, <1>4, <1>5 DEF Next

\* Whatever the number of workers, the size of the buffer, the peers' answers and
\* the signals, PoolInv holds in every reachable state of a client.
THEOREM Invariance == Spec => []PoolInv
  BY InitInv, NextKeeps, PTL DEF Spec

\* The state of a client is always well typed; above all, read and write never
\* leave the array of buffer.c.
THEOREM TypeCorrect == Spec => []TypeOK
  <1>1. PoolInv => TypeOK
    BY DEF PoolInv
  <1> QED
    BY <1>1, Invariance, PTL

\* buffer_mtx is held by exactly the thread between lock and unlock.
THEOREM MutexCorrect == Spec => []MutualExclusion
  <1>1. PoolInv => MutualExclusion
    BY DEF PoolInv
  <1> QED
    BY <1>1, Invariance, PTL

\* No sleeping worker misses an element and a sleeping main thread misses no room:
\* the broadcast is under way (the pairing of work() and main() in dropbox_client.c).
THEOREM WakeupsCorrect == Spec => []NoMissedWakeup
  <1>1. PoolInv => NoMissedWakeup
    BY DEF PoolInv
  <1> QED
    BY <1>1, Invariance, PTL

--------------------------------------------------------------------------------

\* A step that is neither a push nor a pop leaves the buffer and the popped
\* pointers alone, and starts no use of one.
LEMMA OthersLeaveBuffer ==
  ASSUME PoolInv, [Next]_vars,
         ~\E t \in Threads : Push(t), ~\E w \in Workers : Pop(w)
  PROVE  /\ UNCHANGED <<bufVars, elem, popped>>
         /\ \A w \in Workers : Using(w)' => Using(w)
  <1> USE DEF bufVars
  <1>0. pc \in [Threads -> WorkerPlaces \cup MainPlaces] /\ Workers \subseteq Threads
        /\ Main \in Threads /\ Main \notin Workers
    BY ThreadNames DEF PoolInv, TypeOK
  <1>1. CASE UNCHANGED vars
    BY <1>1 DEF vars, Using
  <1>2. ASSUME NEW t \in Threads, SyncStep(t)
        PROVE  /\ UNCHANGED <<bufVars, elem, popped>>
               /\ \A w \in Workers : Using(w)' => Using(w)
    <2>1. CASE Lock(t) \/ MustWait(t) \/ Sleep(t)
      BY <1>0, <2>1 DEF Lock, MustWait, Sleep, Goto, Using
    <2>2. CASE Quit(t)
      BY <1>0, <2>2 DEF Quit, QuitTo, Goto, Using
    <2>3. CASE SignalNonempty(t)
      BY <1>0, <2>3 DEF SignalNonempty, AfterPush, Woken, Using
    <2> QED
      BY <1>2, <2>1, <2>2, <2>3 DEF SyncStep
  <1>3. ASSUME NEW v \in Workers, WorkerStep(v) \/ PeerFault(v)
        PROVE  /\ UNCHANGED <<bufVars, elem, popped>>
               /\ \A w \in Workers : Using(w)' => Using(w)
    <2>0. v \in Threads
      BY <1>0
    <2>1. CASE SyncStep(v)
      BY <1>2, <2>0, <2>1
    <2>2. CASE SignalNonfull(v)
      BY <1>0, <2>2 DEF SignalNonfull, At, Woken, Using
    <2>3. CASE Loop(v) \/ PollStops(v) \/ PeerRefuses(v)
      BY <1>0, <2>3 DEF Loop, PollStops, PeerRefuses, WorkerGoes, Goto, Using
    <2>4. CASE Lookup(v) \/ Dial(v)
      BY <1>0, <2>4 DEF Lookup, Dial, WorkerGoes, Goto, Using, At
    <2>5. CASE FileDone(v) \/ FileApprovalLost(v) \/ FileBroken(v)
      BY <1>0, <2>5 DEF FileDone, FileApprovalLost, FileBroken, WorkerGoes, Goto, Using, At
    <2>6. ASSUME NEW files, TakeList(v, files)
          PROVE  /\ UNCHANGED <<bufVars, elem, popped>>
                 /\ \A w \in Workers : Using(w)' => Using(w)
      BY <1>0, <2>6 DEF TakeList, Goto, Using
    <2>7. CASE ListReply(v) \/ ListBroken(v)
      BY <2>6, <2>7 DEF ListReply, ListBroken
    <2> QED
      BY <1>3, <2>1, <2>2, <2>3, <2>4, <2>5, <2>7 DEF WorkerStep, PeerFault
  <1>4. CASE MainStep \/ MainInput
    <2>1. CASE SyncStep(Main)
      BY <1>0, <1>2, <2>1
    <2>2. CASE RecvTuple \/ UserOn \/ UserOff
      BY <1>0, <2>2 DEF RecvTuple, UserOn, UserOff, Announce, Goto, Using
    <2>3. CASE RecvDone \/ RecvStops \/ ListenStops \/ JoinSome \/ ExitEarly \/ LogOff
      BY <1>0, <2>3 DEF RecvDone, RecvStops, ListenStops, JoinSome, ExitEarly, LogOff,
                        MainGoes, Goto, Using
    <2>4. CASE RecvFails \/ JoinAll
      BY <1>0, <2>4 DEF RecvFails, JoinAll, Goto, Using
    <2> QED
      BY <1>4, <2>1, <2>2, <2>3, <2>4 DEF MainStep, MainInput
  <1>5. CASE \E t \in Threads : SpuriousWakeup(t) \/ SigInt(t)
    BY <1>0, <1>5 DEF SpuriousWakeup, SigInt, Goto, Using
  <1>6. CASE SigBroadcast
    BY <1>0, <1>6 DEF SigBroadcast, Woken, Using
  <1> QED
    BY <1>1, <1>3, <1>4, <1>5, <1>6 DEF Next

\* Append, described index by index.
LEMMA AppendByIndex ==
  ASSUME NEW S, NEW s \in Seq(S), NEW e \in S, NEW r,
         r = [k \in 1 .. Len(s) + 1 |-> IF k = Len(s) + 1 THEN e ELSE s[k]]
  PROVE  r = Append(s, e)
  <1>1. Len(s) \in Nat
    OBVIOUS
  <1>2. r \in Seq(S)
    <2>1. \A k \in 1 .. Len(s) + 1 : (IF k = Len(s) + 1 THEN e ELSE s[k]) \in S
      OBVIOUS
    <2> QED
      BY <1>1, <2>1
  <1>3. Len(r) = Len(s) + 1
    BY <1>1
  <1>4. /\ Append(s, e) \in Seq(S) /\ Len(Append(s, e)) = Len(s) + 1
        /\ \A k \in 1 .. Len(r) : r[k] = Append(s, e)[k]
    BY <1>1, <1>3, AppendProperties
  <1> QED
    BY <1>2, <1>3, <1>4, SeqEqual

\* Tail, described index by index.
LEMMA TailByIndex ==
  ASSUME NEW S, NEW s \in Seq(S), s # <<>>, NEW r,
         r = [k \in 1 .. Len(s) - 1 |-> s[k + 1]]
  PROVE  r = Tail(s)
  <1>1. Len(s) \in Nat /\ Len(s) >= 1
    OBVIOUS
  <1>2. r \in Seq(S)
    <2>1. \A k \in 1 .. Len(s) - 1 : s[k + 1] \in S
      BY <1>1
    <2> QED
      BY <1>1, <2>1
  <1>3. Len(r) = Len(s) - 1
    BY <1>1
  <1>4. \A k \in 1 .. Len(r) : r[k] = Tail(s)[k]
    BY <1>1, <1>3, HeadTailProperties
  <1> QED
    BY <1>2, <1>3, <1>4, HeadTailProperties, SeqEqual

\* buffer_push is Enqueue of the abstract queue.
LEMMA PushEnqueues ==
  ASSUME PoolInv, NEW t \in Threads, Push(t)
  PROVE  FIFO!Enqueue
  <1> DEFINE e == Head(todo[t])
  <1>1. read \in Slots /\ write \in Slots /\ circ_buffer \in [Slots -> Elem \cup {NoElem}]
        /\ e \in Elem
    BY DEF PoolInv, TypeOK, Push
  <1>2. ~buffer_is_full /\ read' = read /\ write' = Succ(write)
        /\ circ_buffer' = [circ_buffer EXCEPT ![write] = e]
    BY DEF Push, buffer_push
  <1> HIDE DEF e
  <1>3. Count' = Count + 1 /\ Slot(Count) = write
        /\ \A k \in 0 .. Count : Slot(k)' = Slot(k)
    BY <1>1, <1>2, RingPush
  <1>4. Count \in Nat /\ Count < bufferSize - 1
        /\ \A k \in 0 .. Count - 1 : Slot(k) \in Slots /\ Slot(k) # write
    BY <1>1, <1>2, RingStep, BufferAssumption
  <1>5. Contents \in Seq(Elem) /\ Len(Contents) = Count
    <2>1. \A k \in 1 .. Count : circ_buffer[Slot(k - 1)] \in Elem
      BY <1>4 DEF PoolInv, SlotsWritten
    <2> QED
      BY <1>4, <2>1 DEF Contents
  <1>6. Contents' = [k \in 1 .. Count + 1 |-> IF k = Count + 1 THEN e ELSE Contents[k]]
    <2>1. \A k \in 1 .. Count + 1 :
             circ_buffer'[Slot(k - 1)'] = IF k = Count + 1 THEN e ELSE circ_buffer[Slot(k - 1)]
      BY <1>1, <1>2, <1>3, <1>4
    <2> QED
      BY <1>3, <1>4, <2>1 DEF Contents
  <1>7. Contents' = Append(Contents, e)
    BY <1>1, <1>5, <1>6, AppendByIndex
  <1> QED
    BY <1>1, <1>4, <1>5, <1>7 DEF FIFO!Enqueue

\* buffer_pop is Dequeue of the abstract queue.
LEMMA PopDequeues ==
  ASSUME PoolInv, NEW w \in Workers, Pop(w)
  PROVE  FIFO!Dequeue
  <1>1. read \in Slots /\ write \in Slots
    BY DEF PoolInv, TypeOK
  <1>2. ~buffer_is_empty /\ read' = Succ(read) /\ write' = write
        /\ circ_buffer' = circ_buffer
    BY DEF Pop, buffer_pop
  <1>3. Count' = Count - 1 /\ \A k \in 0 .. Count - 2 : Slot(k)' = Slot(k + 1)
    BY <1>1, <1>2, RingPop
  <1>4. Count \in Nat /\ Count > 0
    BY <1>1, <1>2, RingStep
  <1>5. Contents \in Seq(Elem) /\ Len(Contents) = Count
    <2>1. \A k \in 1 .. Count : circ_buffer[Slot(k - 1)] \in Elem
      BY <1>4 DEF PoolInv, SlotsWritten
    <2> QED
      BY <1>4, <2>1 DEF Contents
  <1>6. Contents' = [k \in 1 .. Count - 1 |-> Contents[k + 1]]
    <2>1. \A k \in 1 .. Count - 1 : Slot(k - 1)' = Slot(k)
      BY <1>3, <1>4
    <2>2. \A k \in 1 .. Count - 1 : Contents[k + 1] = circ_buffer[Slot(k)]
      BY <1>4 DEF Contents
    <2> QED
      BY <1>2, <1>3, <1>4, <2>1, <2>2 DEF Contents
  <1>7. Contents' = Tail(Contents)
    <2>1. Contents # <<>>
      BY <1>4, <1>5
    <2> QED
      BY <1>5, <1>6, <2>1, TailByIndex
  <1> QED
    BY <1>4, <1>5, <1>7 DEF FIFO!Dequeue

\* The buffer, as all threads of a client use it, implements a bounded FIFO queue
\* of bufferSize - 1 places, for every number of threads and every size.
THEOREM RefinesFIFO == Spec => BufferIsFIFO
  <1>1. Init => FIFO!Init
    <2>1. Init => Count = 0
      BY DEF Init, buffer_init, Count
    <2> QED
      BY <2>1 DEF FIFO!Init, Contents
  <1>2. PoolInv /\ [Next]_vars => [FIFO!Next]_Contents
    <2> SUFFICES ASSUME PoolInv, [Next]_vars PROVE [FIFO!Next]_Contents
      OBVIOUS
    <2>1. CASE \E t \in Threads : Push(t)
      BY <2>1, PushEnqueues DEF FIFO!Next
    <2>2. CASE \E w \in Workers : Pop(w)
      BY <2>2, PopDequeues DEF FIFO!Next
    <2>3. CASE (~\E t \in Threads : Push(t)) /\ (~\E w \in Workers : Pop(w))
      BY <2>3, OthersLeaveBuffer DEF Contents, Count, Slot, bufVars
    <2> QED
      BY <2>1, <2>2, <2>3
  <1> QED
    BY <1>1, <1>2, Invariance, PTL DEF Spec, BufferIsFIFO, FIFO!Spec

\* A sole worker uses the slot just behind read, which a push never reaches.
SoleInv == workerThreads = 1 =>
              /\ ElementStable
              /\ \A w \in Workers : Using(w) => read = Succ(elem[w])

\* With one worker thread the pointer that buffer_pop returns is safe to use after
\* the unlock: the one slot kept free is the one in use.
THEOREM SoleWorkerSafe == Spec => [](workerThreads = 1 => ElementStable)
  <1>1. Init => SoleInv
    BY ThreadNames DEF Init, SoleInv, ElementStable, Using, Workers, Threads
  <1>2. PoolInv /\ SoleInv /\ [Next]_vars => SoleInv'
    <2> SUFFICES ASSUME PoolInv, SoleInv, [Next]_vars, workerThreads = 1
                 PROVE  /\ ElementStable'
                        /\ \A w \in Workers : Using(w)' => read' = Succ(elem'[w])
      BY DEF SoleInv, Succ
    <2>0. \A v, w \in Workers : v = w
      BY DEF Workers
    <2>1. CASE \E t \in Threads : Push(t)
      <3>1. PICK t \in Threads : Push(t)
        BY <2>1
      <3>2. \A w \in Workers : Using(w)' => Using(w)
        BY <3>1, ThreadNames DEF Push, Goto, Using, PoolInv, TypeOK
      <3>3. \A w \in Workers : Using(w) => elem[w] # write /\ elem[w] \in Slots
        BY <3>1 DEF Push, buffer_is_full, SoleInv, PoolInv, SlotsWritten
      <3>4. \A w \in Workers : Using(w) => Deref(w)' = Deref(w)
        BY <3>1, <3>3 DEF Push, buffer_push, Deref, PoolInv, TypeOK
      <3> QED
        BY <3>1, <3>2, <3>4 DEF Push, buffer_push, SoleInv, ElementStable
    <2>2. CASE \E w \in Workers : Pop(w)
      <3>1. PICK w \in Workers : Pop(w)
        BY <2>2
      <3>2. elem'[w] = read /\ popped'[w] = circ_buffer[read]
        BY <3>1 DEF Pop, PoolInv, TypeOK
      <3> QED
        BY <2>0, <3>1, <3>2 DEF Pop, buffer_pop, ElementStable, Deref
    <2>3. CASE (~\E t \in Threads : Push(t)) /\ (~\E w \in Workers : Pop(w))
      BY <2>3, OthersLeaveBuffer DEF SoleInv, ElementStable, Deref, bufVars
    <2> QED
      BY <2>1, <2>2, <2>3
  <1>3. SoleInv => (workerThreads = 1 => ElementStable)
    BY DEF SoleInv
  <1> QED
    BY <1>1, <1>2, <1>3, Invariance, PTL DEF Spec

\* No worker reads a slot that nobody has written, and every queued slot was
\* written, however many workers and whatever the size of the buffer.
THEOREM SlotsCorrect == Spec => []SlotsWritten
  <1>1. PoolInv => SlotsWritten
    BY DEF PoolInv
  <1> QED
    BY <1>1, Invariance, PTL

--------------------------------------------------------------------------------

\* A worker that has returned stays so; main comes to the release of the
\* buffer only from the early join; and the counter that says how many were
\* joined is done with by then.
LEMMA ReturnedStays ==
  ASSUME PoolInv, [Next]_vars, NEW w \in Workers
  PROVE  /\ pc[w] = "ret" => pc'[w] = "ret"
         /\ pc'[Main] = "freed" => pc[Main] = "freed" \/ JoinSome
         /\ pc[Main] = "freed" => i' = i
  <1> DEFINE Goal == /\ pc[w] = "ret" => pc'[w] = "ret"
                     /\ pc'[Main] = "freed" => pc[Main] = "freed" \/ JoinSome
                     /\ pc[Main] = "freed" => i' = i
  <1>0. pc \in [Threads -> WorkerPlaces \cup MainPlaces] /\ Workers \subseteq Threads
        /\ Main \in Threads /\ Main \notin Workers /\ w \in Threads
    BY ThreadNames DEF PoolInv, TypeOK
  <1>1. \A c \in CondVars : \A t \in waiters[c] : pc[t] = "asleep"
    BY DEF PoolInv, TypeOK, SleepersQueued
  <1>2. CASE UNCHANGED vars
    BY <1>2 DEF vars
  <1>3. ASSUME NEW t \in Threads, SyncStep(t) PROVE Goal
    <2>1. CASE Lock(t) \/ MustWait(t) \/ Sleep(t) \/ Push(t)
      BY <1>0, <2>1 DEF Lock, MustWait, Sleep, Push, At, Goto
    <2>2. CASE Quit(t)
      BY <1>0, <2>2 DEF Quit, QuitTo, At, Goto
    <2>3. CASE SignalNonempty(t)
      BY <1>0, <1>1, <2>3 DEF SignalNonempty, AfterPush, Woken, At, CondVars
    <2> QED
      BY <1>3, <2>1, <2>2, <2>3 DEF SyncStep
  <1>4. ASSUME NEW v \in Workers, WorkerStep(v) \/ PeerFault(v) PROVE Goal
    <2>0. v \in Threads
      BY <1>0
    <2>1. CASE SyncStep(v)
      BY <1>3, <2>0, <2>1
    <2>2. CASE SignalNonfull(v)
      BY <1>0, <1>1, <2>2 DEF SignalNonfull, At, Woken, CondVars
    <2>3. CASE Loop(v) \/ PollStops(v) \/ PeerRefuses(v) \/ Pop(v)
      BY <1>0, <2>3 DEF Loop, PollStops, PeerRefuses, Pop, WorkerGoes, Goto, At
    <2>4. CASE Lookup(v) \/ Dial(v)
      BY <1>0, <2>4 DEF Lookup, Dial, WorkerGoes, Goto, At
    <2>5. CASE FileDone(v) \/ FileApprovalLost(v) \/ FileBroken(v)
      BY <1>0, <2>5 DEF FileDone, FileApprovalLost, FileBroken, WorkerGoes, Goto, At
    <2>6. ASSUME NEW files, TakeList(v, files) PROVE Goal
      BY <1>0, <2>6 DEF TakeList, Goto, At
    <2>7. CASE ListReply(v) \/ ListBroken(v)
      BY <2>6, <2>7 DEF ListReply, ListBroken
    <2> QED
      BY <1>4, <2>1, <2>2, <2>3, <2>4, <2>5, <2>7 DEF WorkerStep, PeerFault
  <1>5. CASE MainStep \/ MainInput
    <2>1. CASE SyncStep(Main)
      BY <1>0, <1>3, <2>1
    <2>2. CASE RecvTuple \/ UserOn \/ UserOff
      BY <1>0, <2>2 DEF RecvTuple, UserOn, UserOff, Announce, Goto, At
    <2>3. CASE RecvDone \/ RecvStops \/ ListenStops \/ ExitEarly \/ LogOff
      BY <1>0, <2>3 DEF RecvDone, RecvStops, ListenStops, ExitEarly, LogOff,
                        MainGoes, Goto, At
    <2>4. CASE RecvFails \/ JoinAll
      BY <1>0, <2>4 DEF RecvFails, JoinAll, Goto, At
    <2>5. CASE JoinSome
      BY <1>0, <2>5 DEF JoinSome, MainGoes, Goto, At
    <2> QED
      BY <1>5, <2>1, <2>2, <2>3, <2>4, <2>5 DEF MainStep, MainInput
  <1>6. CASE \E t \in Threads : SpuriousWakeup(t) \/ SigInt(t)
    BY <1>0, <1>6 DEF SpuriousWakeup, SigInt, Goto, At
  <1>7. CASE SigBroadcast
    BY <1>0, <1>1, <1>7 DEF SigBroadcast, Woken, PoolInv, TypeOK
  <1> QED
    BY <1>2, <1>4, <1>5, <1>6, <1>7 DEF Next

\* What the early exits join: the threads up to main's loop counter.
JoinedFreed == pc[Main] = "freed" => \A w \in Workers : w <= i => pc[w] = "ret"

\* The early exits of main free the buffer after the join of every thread up to
\* the loop counter; with one worker thread this is all of them.
THEOREM SoleWorkerJoined == Spec => [](workerThreads = 1 => FreedAfterJoin)
  <1>1. Init => JoinedFreed
    BY ThreadNames DEF Init, JoinedFreed
  <1>2. PoolInv /\ JoinedFreed /\ [Next]_vars => JoinedFreed'
    <2> SUFFICES ASSUME PoolInv, JoinedFreed, [Next]_vars, pc'[Main] = "freed",
                        NEW w \in Workers, w <= i'
                 PROVE  pc'[w] = "ret"
      BY DEF JoinedFreed
    <2>1. CASE pc[Main] = "freed"
      BY <2>1, ReturnedStays DEF JoinedFreed
    <2>2. CASE JoinSome
      <3>1. pc[w] = "ret"
        BY <2>2 DEF JoinSome, MainGoes
      <3> QED
        BY <3>1, ReturnedStays
    <2> QED
      BY <2>1, <2>2, ReturnedStays
  <1>3. PoolInv /\ JoinedFreed => (workerThreads = 1 => FreedAfterJoin)
    BY DEF PoolInv, TypeOK, JoinedFreed, FreedAfterJoin, Workers
  <1> QED
    BY <1>1, <1>2, <1>3, Invariance, PTL DEF Spec
================================================================================
