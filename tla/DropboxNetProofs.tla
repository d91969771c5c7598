--------------------------- MODULE DropboxNetProofs ----------------------------
(***************************************************************************)
(* For any number of clients, starts, crashes and interrupted exchanges:   *)
(* the server's list never holds a client twice, the number it keeps       *)
(* beside the list is the list's length whenever it takes a request, and   *)
(* the lists of the clients agree with it as long as no round of           *)
(* notifications is cut short.                                             *)
(***************************************************************************)
EXTENDS DropboxNet, InductionProofs, SequenceTheorems, TLAPS

\* The part of the type invariant that the server's own steps rely on.
ServerTypeOK ==
    /\ c_list \in Seq(Clients)
    /\ clients_logged_on \in Int
    /\ job \in Requests
    /\ backlog \in Seq(Requests)
    /\ starts \in Nat

\* The server is inside a LOG_ON: the client is in the list, not yet counted.
LoggingOn == spc \notin {"accept", "exited"} /\ job.op = "LOG_ON"

CountInv == clients_logged_on = IF LoggingOn THEN Len(c_list) - 1 ELSE Len(c_list)

RegistryInv == /\ ServerTypeOK
               /\ run \in [Clients -> Nat]
               /\ NoDuplicates
               /\ CountInv

\* client_list_add keeps a list without duplicates that way if the new tuple
\* was not in it.
LEMMA AddKeepsDistinct ==
  ASSUME NEW l \in Seq(Clients), NEW c \in Clients, ~in_client_list(l, c),
         \A m, n \in 1 .. Len(l) : l[m] = l[n] => m = n
  PROVE  LET k == client_list_add(l, c)
         IN  /\ k \in Seq(Clients) /\ Len(k) = Len(l) + 1
             /\ \A m, n \in 1 .. Len(k) : k[m] = k[n] => m = n
  BY AppendProperties DEF in_client_list, client_list_add

\* delete_from_client_list unlinks one node and keeps the others distinct.
LEMMA DeleteKeepsDistinct ==
  ASSUME NEW l \in Seq(Clients), NEW c, in_client_list(l, c),
         \A m, n \in 1 .. Len(l) : l[m] = l[n] => m = n
  PROVE  LET k == delete_from_client_list(l, c)
         IN  /\ k \in Seq(Clients) /\ Len(k) = Len(l) - 1
             /\ \A m, n \in 1 .. Len(k) : k[m] = k[n] => m = n
  <1> DEFINE f == FirstNode(l, c)
             k == [i \in 1 .. Len(l) - 1 |-> IF i < f THEN l[i] ELSE l[i + 1]]
  <1>1. Len(l) \in Nat /\ Len(l) >= 1
    BY DEF in_client_list
  <1>2. f \in Int
    <2>1. PICK i \in 1 .. Len(l) : l[i] = c
      BY DEF in_client_list
    <2>2. \A j \in 1 .. i - 1 : l[j] # c
      BY <2>1, <1>1
    <2>3. \E x \in 1 .. Len(l) : l[x] = c /\ \A j \in 1 .. x - 1 : l[j] # c
      BY <2>1, <2>2
    <2>4. f \in 1 .. Len(l)
      BY <2>3 DEF FirstNode
    <2> QED
      BY <2>4
  <1> HIDE DEF f
  <1>3. \A i \in 1 .. Len(l) - 1 : (IF i < f THEN l[i] ELSE l[i + 1]) \in Clients
    BY <1>1
  <1>4. k \in Seq(Clients) /\ Len(k) = Len(l) - 1
    BY <1>1, <1>3
  <1>5. \A m, n \in 1 .. Len(k) : k[m] = k[n] => m = n
    BY <1>1, <1>2, <1>4
  <1>6. delete_from_client_list(l, c) = k
    BY DEF delete_from_client_list, f
  <1> QED
    BY <1>4, <1>5, <1>6

\* A request appended to the backlog keeps the typing.
LEMMA RequestTyped ==
  ASSUME backlog \in Seq(Requests), NEW c \in Clients, NEW op \in Ops,
         run' \in [Clients -> Nat], Request(c, op)
  PROVE  backlog' \in Seq(Requests)
  BY DEF Request, Requests

\* Taking a request off the backlog.
LEMMA ReadyTyped ==
  ASSUME RegistryInv, NEW op, Ready(op)
  PROVE  /\ Head(backlog) \in Requests /\ backlog' \in Seq(Requests)
         /\ Head(backlog).op = op /\ ~LoggingOn
  BY DEF RegistryInv, ServerTypeOK, Ready, LoggingOn

\* A step that leaves the registry alone and stays on its side of LoggingOn.
LEMMA AsideKeeps ==
  ASSUME RegistryInv, UNCHANGED <<c_list, clients_logged_on, job>>,
         LoggingOn' = LoggingOn, backlog' \in Seq(Requests),
         run' \in [Clients -> Nat], starts' \in Nat
  PROVE  RegistryInv'
  BY DEF RegistryInv, ServerTypeOK, NoDuplicates, CountInv

\* Steps of the server.
LEMMA ServerKeeps ==
  ASSUME RegistryInv, ServerStep \/ ServerSigInt
  PROVE  RegistryInv'
  <1> USE DEF serverVars, clientVars
  <1>0. /\ c_list \in Seq(Clients) /\ backlog \in Seq(Requests) /\ job \in Requests
        /\ run \in [Clients -> Nat] /\ starts \in Nat
        /\ clients_logged_on \in Int /\ Len(c_list) \in Nat
    BY DEF RegistryInv, ServerTypeOK
  <1>1. CASE AcceptLogOn
    <2> DEFINE r == Head(backlog)
    <2>1. r \in Requests /\ backlog' \in Seq(Requests) /\ r.op = "LOG_ON" /\ ~LoggingOn
      BY <1>1, ReadyTyped DEF AcceptLogOn
    <2>2. CASE in_client_list(c_list, r.client)
      BY <1>0, <1>1, <2>1, <2>2, AsideKeeps DEF AcceptLogOn, LoggingOn
    <2>3. CASE ~in_client_list(c_list, r.client)
      <3>1. /\ c_list' = client_list_add(c_list, r.client) /\ job' = r /\ spc' = "notify"
            /\ UNCHANGED <<clients_logged_on, starts, run>>
        BY <1>1, <2>3 DEF AcceptLogOn
      <3>2. r.client \in Clients
        BY <2>1 DEF Requests
      <3> HIDE DEF r
      <3>3. /\ c_list' \in Seq(Clients) /\ Len(c_list') = Len(c_list) + 1
            /\ NoDuplicates'
        BY <1>0, <2>3, <3>1, <3>2, AddKeepsDistinct DEF RegistryInv, NoDuplicates
      <3>4. LoggingOn'
        BY <2>1, <3>1 DEF LoggingOn
      <3>5. clients_logged_on = Len(c_list)
        BY <2>1 DEF RegistryInv, CountInv
      <3>6. CountInv'
        BY <1>0, <3>1, <3>3, <3>4, <3>5 DEF CountInv
      <3> QED
        BY <1>0, <2>1, <3>1, <3>3, <3>6 DEF RegistryInv, ServerTypeOK
    <2> QED
      BY <2>2, <2>3
  <1>2. CASE AcceptLogOff
    <2> DEFINE r == Head(backlog)
    <2>1. r \in Requests /\ backlog' \in Seq(Requests) /\ r.op = "LOG_OFF" /\ ~LoggingOn
      BY <1>2, ReadyTyped DEF AcceptLogOff
    <2>2. CASE ~in_client_list(c_list, r.client)
      BY <1>0, <1>2, <2>1, <2>2, AsideKeeps DEF AcceptLogOff, LoggingOn
    <2>3. CASE in_client_list(c_list, r.client)
      <3>1. /\ c_list' = delete_from_client_list(c_list, r.client) /\ job' = r
            /\ clients_logged_on' = clients_logged_on - 1
            /\ UNCHANGED <<starts, run>>
        BY <1>2, <2>3 DEF AcceptLogOff
      <3> HIDE DEF r
      <3>2. /\ c_list' \in Seq(Clients) /\ Len(c_list') = Len(c_list) - 1
            /\ NoDuplicates'
        BY <1>0, <2>3, <3>1, DeleteKeepsDistinct DEF RegistryInv, NoDuplicates
      <3>3. ~LoggingOn'
        BY <2>1, <3>1 DEF LoggingOn
      <3>4. clients_logged_on = Len(c_list)
        BY <2>1 DEF RegistryInv, CountInv
      <3>5. CountInv'
        BY <1>0, <3>1, <3>2, <3>3, <3>4 DEF CountInv
      <3> QED
        BY <1>0, <2>1, <3>1, <3>2, <3>5 DEF RegistryInv, ServerTypeOK
    <2> QED
      BY <2>2, <2>3
  <1>3. CASE AcceptGetClients
    BY <1>0, <1>3, ReadyTyped, AsideKeeps DEF AcceptGetClients, LoggingOn
  <1>4. CASE AcceptNothing
    BY <1>0, <1>4, ReadyTyped, AsideKeeps DEF AcceptNothing, LoggingOn
  <1>5. CASE AcceptHalf
    BY <1>0, <1>5, ReadyTyped, AsideKeeps DEF AcceptHalf, LoggingOn
  <1>6. CASE NotifyConnect
    BY <1>0, <1>6, AsideKeeps DEF NotifyConnect, LoggingOn
  <1>7. CASE NotifySend
    BY <1>0, <1>7, AsideKeeps DEF NotifySend, LoggingOn
  <1>8. CASE NotifySpins \/ ServerSigInt
    BY <1>0, <1>8, AsideKeeps DEF NotifySpins, ServerSigInt, LoggingOn
  <1>9. CASE NotifyDone \/ NotifyAborts \/ ServerExits
    <2>1. /\ UNCHANGED <<c_list, job, backlog, starts, run>>
          /\ clients_logged_on' = IF LoggingOn THEN clients_logged_on + 1
                                               ELSE clients_logged_on
          /\ ~LoggingOn'
      BY <1>9 DEF NotifyDone, NotifyAborts, ServerExits, Finish, LoggingOn
    <2>2. CountInv' /\ clients_logged_on' \in Int
      BY <1>0, <2>1 DEF RegistryInv, CountInv
    <2>3. NoDuplicates'
      BY <2>1 DEF RegistryInv, NoDuplicates
    <2> QED
      BY <1>0, <2>1, <2>2, <2>3 DEF RegistryInv, ServerTypeOK
  <1> QED
    BY <1>1, <1>2, <1>3, <1>4, <1>5, <1>6, <1>7, <1>8, <1>9 DEF ServerStep

\* Steps of a client only add to the backlog or break the connection the
\* server is waiting on.
LEMMA ClientKeeps ==
  ASSUME RegistryInv, NEW c \in Clients, ClientStep(c) \/ ClientInput(c)
  PROVE  RegistryInv'
  <1> USE DEF serverVars, clientVars
  <1>0. /\ backlog \in Seq(Requests) /\ run \in [Clients -> Nat] /\ starts \in Nat
    BY DEF RegistryInv, ServerTypeOK
  <1>1. CASE Exit(c)
    <2>1. LoggingOn' = LoggingOn
      BY <1>1 DEF Exit, WaitsFor, LoggingOn
    <2> QED
      BY <1>0, <1>1, <2>1, AsideKeeps DEF Exit
  <1>2. CASE Rejected(c) \/ SigIntEarly(c) \/ LoggedOff(c) \/ GiveUp(c) \/ Crash(c)
    BY <1>1, <1>2 DEF Rejected, SigIntEarly, LoggedOff, GiveUp, Crash
  <1>3. CASE Start(c) \/ StartDies(c)
    <2>1. run' \in [Clients -> Nat] /\ starts' \in Nat
      BY <1>0, <1>3 DEF Start, StartDies
    <2>2. backlog' \in Seq(Requests)
      BY <1>0, <1>3, <2>1, RequestTyped DEF Start, StartDies, Ops
    <2> QED
      BY <1>3, <2>1, <2>2, AsideKeeps DEF Start, StartDies, LoggingOn
  <1>4. CASE LoggedOn(c) \/ SendLogOff(c)
    <2>1. backlog' \in Seq(Requests)
      BY <1>0, <1>4, RequestTyped DEF LoggedOn, SendLogOff, Ops
    <2> QED
      BY <1>0, <1>4, <2>1, AsideKeeps DEF LoggedOn, SendLogOff, LoggingOn
  <1>5. CASE GotClients(c) \/ ReadTuple(c)
    BY <1>0, <1>5, AsideKeeps DEF GotClients, ReadTuple, LoggingOn
  <1>6. CASE Approve(c)
    BY <1>0, <1>6, AsideKeeps DEF Approve, WaitsFor, LoggingOn
  <1>7. CASE SigIntListen(c)
    <2>1. LoggingOn' = LoggingOn
      BY <1>7 DEF SigIntListen, WaitsFor, LoggingOn
    <2> QED
      BY <1>0, <1>7, <2>1, AsideKeeps DEF SigIntListen
  <1> QED
    BY <1>2, <1>3, <1>4, <1>5, <1>6, <1>7 DEF ClientStep, ClientInput

\* The invariant of the registry.
THEOREM RegistryInvariance == Spec => []RegistryInv
  <1>1. ASSUME Init, Clients # {} PROVE RegistryInv
    <2>1. job \in Requests
      BY <1>1 DEF Init, Requests, Ops
    <2> QED
      BY <1>1, <2>1 DEF Init, RegistryInv, ServerTypeOK, NoDuplicates, CountInv, LoggingOn
  <1>2. RegistryInv /\ [Next]_vars => RegistryInv'
    <2> SUFFICES ASSUME RegistryInv, [Next]_vars PROVE RegistryInv'
      OBVIOUS
    <2>1. CASE UNCHANGED vars
      BY <2>1, AsideKeeps DEF vars, serverVars, clientVars, LoggingOn, RegistryInv, ServerTypeOK
    <2>2. CASE ServerStep \/ ServerSigInt
      BY <2>2, ServerKeeps
    <2>3. CASE \E c \in Clients : ClientStep(c) \/ ClientInput(c)
      BY <2>3, ClientKeeps
    <2> QED
      BY <2>1, <2>2, <2>3 DEF Next
  <1> QED
    BY <1>1, <1>2, NetAssumption, PTL DEF Spec

\* No client is registered twice.
THEOREM RegistryDistinct == Spec => []NoDuplicates
  <1>1. RegistryInv => NoDuplicates
    BY DEF RegistryInv
  <1> QED
    BY <1>1, RegistryInvariance, PTL

\* The number the server announces is the number of tuples it sends.
THEOREM RegistryCounted == Spec => []CountMatches
  <1>1. RegistryInv => CountMatches
    BY DEF RegistryInv, CountInv, LoggingOn, CountMatches
  <1> QED
    BY <1>1, RegistryInvariance, PTL

--------------------------------------------------------------------------------
(* Lists. *)

Members(l) == {l[i] : i \in 1 .. Len(l)}

\* l holds the clients of S, each of them once.
Exactly(l, S) == /\ \A m, n \in 1 .. Len(l) : l[m] = l[n] => m = n
                 /\ Members(l) = S

\* in_client_list looks for a member.
LEMMA InList ==
  ASSUME NEW l, NEW c
  PROVE  in_client_list(l, c) <=> c \in Members(l)
  BY DEF in_client_list, Members

\* client_list_add adds a member.
LEMMA AddExact ==
  ASSUME NEW l \in Seq(Clients), NEW c \in Clients
  PROVE  /\ client_list_add(l, c) \in Seq(Clients)
         /\ Members(client_list_add(l, c)) = Members(l) \cup {c}
         /\ \A S : Exactly(l, S) /\ c \notin S => Exactly(client_list_add(l, c), S \cup {c})
  <1>1. PICK k : k = client_list_add(l, c)
    OBVIOUS
  <1>2. /\ k \in Seq(Clients) /\ Len(k) = Len(l) + 1 /\ Len(l) \in Nat
        /\ \A i \in 1 .. Len(l) : k[i] = l[i]
        /\ k[Len(l) + 1] = c
    BY <1>1, AppendProperties DEF client_list_add
  <1>3. Members(k) = Members(l) \cup {c}
    <2>1. ASSUME NEW x \in Members(k) PROVE x \in Members(l) \cup {c}
      <3>1. PICK i \in 1 .. Len(k) : x = k[i]
        BY <2>1 DEF Members
      <3>2. i \in 1 .. Len(l) \/ i = Len(l) + 1
        BY <1>2
      <3> QED
        BY <1>2, <3>1, <3>2 DEF Members
    <2>2. ASSUME NEW x \in Members(l) PROVE x \in Members(k)
      <3>1. PICK i \in 1 .. Len(l) : x = l[i]
        BY <2>2 DEF Members
      <3>2. i \in 1 .. Len(k) /\ x = k[i]
        BY <1>2, <3>1
      <3> QED
        BY <3>2 DEF Members
    <2>3. c \in Members(k)
      <3>1. Len(l) + 1 \in 1 .. Len(k)
        BY <1>2
      <3> QED
        BY <1>2, <3>1 DEF Members
    <2> QED
      BY <2>1, <2>2, <2>3
  <1>4. ASSUME NEW S, Exactly(l, S), c \notin S
        PROVE  Exactly(k, S \cup {c})
    <2>1. \A i \in 1 .. Len(l) : l[i] # c
      BY <1>4 DEF Exactly, Members
    <2>2. \A m, n \in 1 .. Len(k) : k[m] = k[n] => m = n
      BY <1>2, <1>4, <2>1 DEF Exactly
    <2> QED
      BY <1>3, <1>4, <2>2 DEF Exactly
  <1> QED
    BY <1>1, <1>2, <1>3, <1>4

\* delete_from_client_list takes the member out, and leaves a list alone that
\* does not have it.
LEMMA DeleteExact ==
  ASSUME NEW l \in Seq(Clients), NEW c \in Clients
  PROVE  /\ delete_from_client_list(l, c) \in Seq(Clients)
         /\ \A S : Exactly(l, S) /\ c \in S => Exactly(delete_from_client_list(l, c), S \ {c})
  <1>0. Len(l) \in Nat
    OBVIOUS
  <1>1. CASE ~in_client_list(l, c)
    <2>1. ASSUME NEW S, Exactly(l, S), c \in S PROVE FALSE
      BY <1>1, <2>1, InList DEF Exactly
    <2> QED
      BY <1>1, <2>1 DEF delete_from_client_list
  <1>2. CASE in_client_list(l, c)
    <2>1. PICK f : f = FirstNode(l, c)
      OBVIOUS
    <2>2. PICK k : k = [i \in 1 .. Len(l) - 1 |-> IF i < f THEN l[i] ELSE l[i + 1]]
      OBVIOUS
    <2>3. delete_from_client_list(l, c) = k
      BY <1>2, <2>1, <2>2 DEF delete_from_client_list
    <2>4. f \in 1 .. Len(l) /\ l[f] = c
      <3>1. PICK S : S = {n \in 1 .. Len(l) : l[n] = c}
        OBVIOUS
      <3>2. S \in SUBSET Nat /\ S # {}
        BY <1>2, <3>1 DEF in_client_list
      <3>3. PICK n \in S : \A m \in S : n <= m
        BY <3>2, Least
      <3>4. /\ n \in 1 .. Len(l) /\ l[n] = c
            /\ \A j \in 1 .. n - 1 : l[j] # c
        BY <1>0, <3>1, <3>3
      <3> QED
        BY <2>1, <3>4 DEF FirstNode
    <2>5. \A i \in 1 .. Len(l) - 1 : (IF i < f THEN l[i] ELSE l[i + 1]) \in Clients
      BY <1>0
    <2>6. k \in Seq(Clients) /\ Len(k) = Len(l) - 1
      BY <1>0, <2>2, <2>4, <2>5
    <2>7. ASSUME NEW S, Exactly(l, S), c \in S PROVE Exactly(k, S \ {c})
      <3>1. \A m, n \in 1 .. Len(k) : k[m] = k[n] => m = n
        BY <1>0, <2>2, <2>4, <2>6, <2>7 DEF Exactly
      <3>2. ASSUME NEW x \in Members(k) PROVE x \in S \ {c}
        <4>1. PICK i \in 1 .. Len(k) : x = k[i]
          BY <3>2 DEF Members
        <4>2. PICK j \in 1 .. Len(l) : x = l[j] /\ j # f
          BY <1>0, <2>2, <2>4, <2>6, <4>1
        <4> QED
          BY <2>4, <2>7, <4>2 DEF Exactly, Members
      <3>3. ASSUME NEW x \in S \ {c} PROVE x \in Members(k)
        <4>1. PICK j \in 1 .. Len(l) : x = l[j]
          BY <2>7, <3>3 DEF Exactly, Members
        <4>2. j # f
          BY <2>4, <4>1, <3>3
        <4>3. PICK i \in 1 .. Len(k) : i = IF j < f THEN j ELSE j - 1
          BY <1>0, <2>4, <2>6, <4>2
        <4>4. k[i] = l[j]
          BY <1>0, <2>2, <2>4, <2>6, <4>2, <4>3
        <4> QED
          BY <4>1, <4>4 DEF Members
      <3> QED
        BY <3>1, <3>2, <3>3 DEF Exactly
    <2> QED
      BY <2>3, <2>6, <2>7
  <1> QED
    BY <1>1, <1>2

\* The list after i tuples of the server's answer.
Answered(f, c, t, i) ==
    IF i = 0 THEN <<>> ELSE IF t[i] = c THEN f[i - 1] ELSE client_list_add(f[i - 1], t[i])

\* The loop over the tuples of the answer.
LEMMA OthersLoop ==
  ASSUME NEW c, NEW t \in Seq(Clients)
  PROVE  \E f \in [0 .. Len(t) -> Seq(Clients)] :
            /\ \A i \in 0 .. Len(t) : f[i] = Answered(f, c, t, i)
            /\ Others(c, t) = f[Len(t)]
  <1>0. Len(t) \in Nat
    OBVIOUS
  <1>1. PICK V : V = Seq(Clients)
    OBVIOUS
  <1>2. PICK step : step = [x \in V \X Nat |->
            IF x[2] + 1 \in 1 .. Len(t) /\ t[x[2] + 1] # c
            THEN client_list_add(x[1], t[x[2] + 1]) ELSE x[1]]
    OBVIOUS
  <1>3. step \in [V \X Nat -> V]
    <2>1. ASSUME NEW x \in V \X Nat, x[2] + 1 \in 1 .. Len(t)
          PROVE  client_list_add(x[1], t[x[2] + 1]) \in V
      <3>1. x[1] \in Seq(Clients) /\ t[x[2] + 1] \in Clients
        BY <1>0, <1>1, <2>1
      <3> QED
        BY <1>1, <3>1, AddExact
    <2> QED
      BY <1>2, <2>1
  <1>4. <<>> \in V
    BY <1>1
  <1>5. PICK f : Begins(f, V, <<>>, step, Len(t))
    BY <1>0, <1>3, <1>4, Recursion
  <1>6. f \in [0 .. Len(t) -> V] /\ f[0] = <<>>
    BY <1>5 DEF Begins
  <1>7. ASSUME NEW i \in 0 .. Len(t) PROVE f[i] = Answered(f, c, t, i)
    <2>1. CASE i = 0
      BY <1>6, <2>1 DEF Answered
    <2>2. CASE i # 0
      <3>1. PICK j \in 0 .. Len(t) - 1 : j = i - 1
        BY <1>0, <2>2
      <3>2. i = j + 1 /\ j \in Nat /\ j + 1 \in 1 .. Len(t) /\ f[j] \in V
        BY <1>0, <1>6, <3>1
      <3>3. f[j + 1] = step[<<f[j], j>>]
        BY <1>5, <3>1 DEF Begins
      <3>4. <<f[j], j>> \in V \X Nat
        BY <3>2
      <3>5. step[<<f[j], j>>] = IF t[j + 1] # c THEN client_list_add(f[j], t[j + 1]) ELSE f[j]
        BY <1>2, <3>2, <3>4
      <3> QED
        BY <2>2, <3>1, <3>2, <3>3, <3>5 DEF Answered
    <2> QED
      BY <2>1, <2>2
  <1>8. f = [i \in 0 .. Len(t) |-> Answered(f, c, t, i)]
    BY <1>6, <1>7
  <1>9. PICK g : g = CHOOSE After : After = [i \in 0 .. Len(t) |-> Answered(After, c, t, i)]
    OBVIOUS
  <1>10. g = [i \in 0 .. Len(t) |-> Answered(g, c, t, i)]
    BY <1>8, <1>9
  <1>11. Others(c, t) = g[Len(t)]
    BY <1>9 DEF Others, Answered
  <1>12. PICK S : S = {n \in Nat : n <= Len(t) => g[n] = f[n]}
    OBVIOUS
  <1>13. 0 \in S
    <2>1. 0 \in 0 .. Len(t)
      BY <1>0
    <2>2. g[0] = <<>>
      BY <1>10, <2>1 DEF Answered
    <2> QED
      BY <1>6, <1>12, <2>2
  <1>14. ASSUME NEW n \in Nat, n \in S PROVE n + 1 \in S
    <2> SUFFICES ASSUME n + 1 <= Len(t) PROVE g[n + 1] = f[n + 1]
      BY <1>12
    <2>1. PICK m \in 0 .. Len(t) : m = n + 1
      BY <1>0
    <2>2. m # 0 /\ m - 1 = n /\ n <= Len(t)
      BY <1>0, <2>1
    <2>3. g[n] = f[n]
      BY <1>12, <1>14, <2>2
    <2>4. g[m] = Answered(g, c, t, m) /\ f[m] = Answered(f, c, t, m)
      BY <1>7, <1>10
    <2>5. Answered(g, c, t, m) = Answered(f, c, t, m)
      BY <2>2, <2>3 DEF Answered
    <2> QED
      BY <2>1, <2>4, <2>5
  <1>15. g[Len(t)] = f[Len(t)]
    <2>1. Len(t) \in S
      BY <1>0, <1>13, <1>14, SetInduction
    <2> QED
      BY <1>0, <1>12, <2>1
  <1> QED
    BY <1>1, <1>6, <1>7, <1>11, <1>15

\* The loop adds every tuple but the client's own.
LEMMA OthersExact ==
  ASSUME NEW c, NEW t \in Seq(Clients)
  PROVE  /\ Others(c, t) \in Seq(Clients)
         /\ (\A m, n \in 1 .. Len(t) : t[m] = t[n] => m = n) =>
               Exactly(Others(c, t), Members(t) \ {c})
  <1>0. Len(t) \in Nat
    OBVIOUS
  <1>1. PICK f \in [0 .. Len(t) -> Seq(Clients)] :
            /\ \A i \in 0 .. Len(t) : f[i] = Answered(f, c, t, i)
            /\ Others(c, t) = f[Len(t)]
    BY OthersLoop
  <1>2. Others(c, t) \in Seq(Clients)
    BY <1>0, <1>1
  <1>3. ASSUME \A m, n \in 1 .. Len(t) : t[m] = t[n] => m = n
        PROVE  Exactly(f[Len(t)], Members(t) \ {c})
    <2>1. PICK Seen : Seen = [n \in Nat |-> {t[i] : i \in {j \in 1 .. Len(t) : j <= n}} \ {c}]
      OBVIOUS
    <2>2. PICK S : S = {n \in Nat : n <= Len(t) => Exactly(f[n], Seen[n])}
      OBVIOUS
    <2>3. 0 \in S
      <3>1. 0 \in 0 .. Len(t)
        BY <1>0
      <3>2. f[0] = <<>> /\ Seen[0] = {}
        BY <1>0, <1>1, <2>1, <3>1 DEF Answered
      <3>3. Exactly(<<>>, {})
        BY DEF Exactly, Members
      <3> QED
        BY <2>2, <3>2, <3>3
    <2>4. ASSUME NEW n \in Nat, n \in S PROVE n + 1 \in S
      <3> SUFFICES ASSUME n + 1 <= Len(t) PROVE Exactly(f[n + 1], Seen[n + 1])
        BY <2>2
      <3>1. PICK m \in 1 .. Len(t) : m = n + 1
        BY <1>0
      <3>2. /\ m \in 0 .. Len(t) /\ m # 0 /\ m - 1 = n /\ n <= Len(t) /\ n \in 0 .. Len(t)
            /\ m \in Nat
        BY <1>0, <3>1
      <3>3. Exactly(f[n], Seen[n]) /\ f[n] \in Seq(Clients)
        BY <2>2, <2>4, <3>2
      <3>4. f[m] = IF t[m] = c THEN f[n] ELSE client_list_add(f[n], t[m])
        BY <1>1, <3>2 DEF Answered
      <3>5. Seen[m] = (Seen[n] \cup {t[m]}) \ {c}
        <4>1. \A j \in 1 .. Len(t) : j <= m <=> j <= n \/ j = m
          BY <1>0, <3>1
        <4> QED
          BY <2>1, <3>2, <4>1
      <3>6. CASE t[m] = c
        <4>1. Seen[m] = Seen[n]
          BY <2>1, <3>5, <3>6
        <4> QED
          BY <3>1, <3>3, <3>4, <3>6, <4>1
      <3>7. CASE t[m] # c
        <4>1. t[m] \notin Seen[n]
          BY <1>0, <1>3, <2>1, <3>1
        <4>2. Seen[m] = Seen[n] \cup {t[m]}
          BY <2>1, <3>5, <3>7
        <4>3. t[m] \in Clients
          OBVIOUS
        <4>4. Exactly(client_list_add(f[n], t[m]), Seen[n] \cup {t[m]})
          BY <3>3, <4>1, <4>3, AddExact
        <4> QED
          BY <3>1, <3>4, <3>7, <4>2, <4>4
      <3> QED
        BY <3>6, <3>7
    <2>5. Len(t) \in S
      BY <1>0, <2>3, <2>4, SetInduction
    <2>6. Seen[Len(t)] = Members(t) \ {c}
      BY <1>0, <2>1 DEF Members
    <2> QED
      BY <1>0, <2>2, <2>5, <2>6
  <1> QED
    BY <1>1, <1>2, <1>3

--------------------------------------------------------------------------------
(* What every client knows, or is about to know. *)

ServerPlaces == {"accept", "notify", "approval", "approved", "lost", "spinning", "exited"}

ClientPlaces == {"off", "logon", "clients", "listen", "expect_on", "expect_off", "leaving",
                 "logoff"}

Expecting == {"expect_on", "expect_off"}

\* The types that RegistryInv does not give.
NetTypes ==
    /\ term_flag \in {0, 1} /\ spc \in ServerPlaces /\ curr \in Nat /\ skipped \in BOOLEAN
    /\ cpc \in [Clients -> ClientPlaces]
    /\ starts \in 0 .. MaxStarts
    /\ reply \in [Clients -> Replies]
    /\ news \in [Clients -> Seq(Clients)]
    /\ list \in [Clients -> Seq(Clients)]

\* No request is of a start to come.
RunsBelow == /\ \A i \in 1 .. Len(backlog) : backlog[i].run <= starts
             /\ job.run <= starts /\ \A c \in Clients : run[c] <= starts

\* The server is in the middle of a LOG_ON or LOG_OFF.
Busy == spc \notin {"accept", "exited"}

\* The server has accepted the log-on of this start of c and not answered it.
Serving(c) == Busy /\ job.op = "LOG_ON" /\ job.client = c /\ job.run = run[c]

\* The log-on of this start of c waits in the backlog, and is the last of c.
Pending(c) ==
    \E i \in 1 .. Len(backlog) :
        /\ backlog[i] = [op |-> "LOG_ON", client |-> c, run |-> run[c]]
        /\ \A j \in 1 .. Len(backlog) :
              j # i /\ backlog[j].client = c => j < i /\ backlog[j].run # run[c]

\* c is registered and no request of c is under way.
Alone(c) == c \in Members(c_list) /\ \A i \in 1 .. Len(backlog) : backlog[i].client # c

\* c is registered and its only request is GET_CLIENTS.
Asking(c) ==
    /\ c \in Members(c_list)
    /\ \E i \in 1 .. Len(backlog) :
          /\ backlog[i] = [op |-> "GET_CLIENTS", client |-> c, run |-> run[c]]
          /\ \A j \in 1 .. Len(backlog) : j # i => backlog[j].client # c

\* No request of this start of c is under way.
Turned(c) == \A i \in 1 .. Len(backlog) : backlog[i].client = c => backlog[i].run # run[c]

\* No request of c is under way but to log off.
Parting(c) == \A i \in 1 .. Len(backlog) :
                 backlog[i].client = c => backlog[i].op = "LOG_OFF" /\ backlog[i].run = run[c]

\* What the server knows, and will hear, of a client, by where the client is.
Phase(c) ==
    /\ cpc[c] = "off" => reply[c].kind = "none"
    /\ cpc[c] = "logon" /\ reply[c].kind = "tuple" => Alone(c)
    /\ cpc[c] = "logon" /\ reply[c].kind = "none" =>
          (Serving(c) /\ Alone(c)) \/ (~Serving(c) /\ Pending(c))
    /\ cpc[c] = "logon" /\ reply[c].kind \notin {"none", "tuple"} => Turned(c)
    /\ cpc[c] = "clients" /\ reply[c].kind = "none" => Asking(c)
    /\ cpc[c] = "clients" /\ reply[c].kind # "none" => Alone(c)
    /\ cpc[c] \in {"listen", "expect_on", "expect_off", "leaving"} =>
          reply[c].kind = "none" /\ Alone(c)
    /\ cpc[c] = "logoff" => Parting(c)
    /\ Serving(c) /\ cpc[c] # "off" => cpc[c] = "logon" /\ reply[c].kind = "none"

\* The round of notifications.
Job ==
    Busy => /\ job.op \in {"LOG_ON", "LOG_OFF"}
            /\ job.op = "LOG_ON" => Len(c_list) > 0 /\ c_list[Len(c_list)] = job.client
            /\ job.op = "LOG_OFF" => job.client \notin Members(c_list)

\* The client the server waits for, or has heard from, is a node of its list.
AtNode == /\ curr >= 1
          /\ spc \in {"approval", "approved", "lost", "spinning"} => curr <= LastNode

\* A client that has approved waits for its tuple, or is on its way out, or is
\* a new start that has not heard from the server.
Approved ==
    spc = "approved" =>
        \/ cpc[c_list[curr]] \in {"off", "leaving", "logoff"}
        \/ cpc[c_list[curr]] = "logon" /\ reply[c_list[curr]].kind # "tuple"
        \/ cpc[c_list[curr]] \in Expecting /\ news[c_list[curr]] = NoNews

\* A client that waits for a tuple has it in its socket, or is the one the
\* server is about to write it to.
Noticed(c) ==
    /\ news[c] # NoNews => cpc[c] \in Expecting
    /\ cpc[c] \in Expecting /\ news[c] = NoNews =>
          /\ spc = "approved" /\ c_list[curr] = c
          /\ (cpc[c] = "expect_on" <=> job.op = "LOG_ON")

\* The server is through with c in this round.
Told(c) == spc = "accept" \/ \E n \in 1 .. curr - 1 : n <= Len(c_list) /\ c_list[n] = c

\* Whom c is to know of.
Target(c) ==
    IF Told(c) THEN Members(c_list) \ {c}
    ELSE IF job.op = "LOG_ON" THEN Members(c_list) \ {c, job.client}
    ELSE (Members(c_list) \cup {job.client}) \ {c}

\* What c knows, or will know once it has read what is in its sockets.
Informed(c) ==
    /\ cpc[c] = "clients" /\ reply[c].kind = "list" =>
          reply[c].n = Len(reply[c].tuples) /\ Exactly(Others(c, reply[c].tuples), Target(c))
    /\ cpc[c] = "listen" => Exactly(list[c], Target(c))
    /\ cpc[c] \in Expecting /\ news[c] = NoNews => Exactly(list[c], Target(c))
    /\ cpc[c] = "expect_on" /\ news[c] # NoNews =>
          Exactly(client_list_add(list[c], news[c][1]), Target(c))
    /\ cpc[c] = "expect_off" /\ news[c] # NoNews =>
          Exactly(delete_from_client_list(list[c], news[c][1]), Target(c))

\* All of it, while the server runs.
Knowing ==
    /\ Job /\ AtNode /\ Approved
    /\ \A c \in Clients : Phase(c) /\ Noticed(c)
    /\ ~skipped => \A c \in Clients : Informed(c)

\* The inductive invariant behind ListsAgree, beside RegistryInv.
NetInv == NetTypes /\ RunsBelow /\ (spc # "exited" => Knowing)

\* What is known of the state at a step.
LEMMA NetFacts ==
  ASSUME RegistryInv, NetInv
  PROVE  /\ c_list \in Seq(Clients) /\ Len(c_list) \in Nat
         /\ backlog \in Seq(Requests) /\ Len(backlog) \in Nat
         /\ \A i \in 1 .. Len(backlog) : backlog[i] \in Requests
         /\ job \in Requests /\ job.client \in Clients
         /\ run \in [Clients -> Nat] /\ starts \in Nat /\ curr \in Nat
         /\ \A i \in 1 .. Len(c_list) : c_list[i] \in Clients
         /\ cpc \in [Clients -> ClientPlaces] /\ spc \in ServerPlaces
         /\ reply \in [Clients -> Replies]
         /\ news \in [Clients -> Seq(Clients)] /\ list \in [Clients -> Seq(Clients)]
  <1>1. /\ c_list \in Seq(Clients) /\ backlog \in Seq(Requests) /\ job \in Requests
        /\ run \in [Clients -> Nat] /\ starts \in Nat
    BY DEF RegistryInv, ServerTypeOK
  <1>2. /\ curr \in Nat /\ cpc \in [Clients -> ClientPlaces] /\ spc \in ServerPlaces
        /\ reply \in [Clients -> Replies]
        /\ news \in [Clients -> Seq(Clients)] /\ list \in [Clients -> Seq(Clients)]
    BY DEF NetInv, NetTypes
  <1>3. job.client \in Clients
    BY <1>1 DEF Requests
  <1>4. Len(c_list) \in Nat /\ \A i \in 1 .. Len(c_list) : c_list[i] \in Clients
    BY <1>1
  <1>5. Len(backlog) \in Nat /\ \A i \in 1 .. Len(backlog) : backlog[i] \in Requests
    BY <1>1
  <1> QED
    BY <1>1, <1>2, <1>3, <1>4, <1>5

\* The predicates that Phase is made of carry over.
CarriesOver(d) ==
    /\ Pending(d) => Pending(d)'
    /\ Alone(d) => Alone(d)'
    /\ Asking(d) => Asking(d)'
    /\ Turned(d) => Turned(d)'
    /\ Parting(d) => Parting(d)'

\* A client that keeps its place, and whose requests carry over, keeps its phase.
LEMMA PhaseStays ==
  ASSUME NEW d \in Clients, Phase(d), cpc'[d] = cpc[d], reply'[d] = reply[d],
         Serving(d)' <=> Serving(d), CarriesOver(d)
  PROVE  Phase(d)'
  BY DEF Phase, CarriesOver

\* Nothing about the requests and the registry changes.
LEMMA SameCarries ==
  ASSUME NEW d \in Clients, backlog' = backlog, c_list' = c_list, run'[d] = run[d]
  PROVE  CarriesOver(d)
  BY DEF CarriesOver, Pending, Alone, Asking, Turned, Parting

\* A request of another client is appended.
LEMMA AppendCarries ==
  ASSUME NEW d \in Clients, NEW r \in Requests, backlog \in Seq(Requests),
         backlog' = Append(backlog, r), r.client # d, c_list' = c_list, run'[d] = run[d]
  PROVE  CarriesOver(d)
  <1>1. /\ Len(backlog) \in Nat /\ Len(backlog') = Len(backlog) + 1
        /\ \A i \in 1 .. Len(backlog) : backlog'[i] = backlog[i]
        /\ backlog'[Len(backlog) + 1] = r
    BY AppendProperties
  <1>2. \A i \in 1 .. Len(backlog') : i \in 1 .. Len(backlog) \/ i = Len(backlog) + 1
    BY <1>1
  <1>3. \A i \in 1 .. Len(backlog) : i \in 1 .. Len(backlog')
    BY <1>1
  <1>4. \A i \in 1 .. Len(backlog') :
           backlog'[i].client = d => i \in 1 .. Len(backlog) /\ backlog'[i] = backlog[i]
    BY <1>1, <1>2
  <1>5. Pending(d) => Pending(d)'
    <2> SUFFICES ASSUME Pending(d) PROVE Pending(d)'
      OBVIOUS
    <2>1. PICK i \in 1 .. Len(backlog) :
              /\ backlog[i] = [op |-> "LOG_ON", client |-> d, run |-> run[d]]
              /\ \A j \in 1 .. Len(backlog) :
                    j # i /\ backlog[j].client = d => j < i /\ backlog[j].run # run[d]
      BY DEF Pending
    <2>2. /\ i \in 1 .. Len(backlog')
          /\ backlog'[i] = [op |-> "LOG_ON", client |-> d, run |-> run'[d]]
      BY <1>1, <1>3, <2>1
    <2>3. \A j \in 1 .. Len(backlog') :
              j # i /\ backlog'[j].client = d => j < i /\ backlog'[j].run # run'[d]
      BY <1>4, <2>1
    <2> QED
      BY <2>2, <2>3 DEF Pending
  <1>6. Alone(d) => Alone(d)'
    BY <1>4 DEF Alone
  <1>7. Asking(d) => Asking(d)'
    <2> SUFFICES ASSUME Asking(d) PROVE Asking(d)'
      OBVIOUS
    <2>1. PICK i \in 1 .. Len(backlog) :
              /\ backlog[i] = [op |-> "GET_CLIENTS", client |-> d, run |-> run[d]]
              /\ \A j \in 1 .. Len(backlog) : j # i => backlog[j].client # d
      BY DEF Asking
    <2>2. /\ i \in 1 .. Len(backlog')
          /\ backlog'[i] = [op |-> "GET_CLIENTS", client |-> d, run |-> run'[d]]
      BY <1>1, <1>3, <2>1
    <2>3. \A j \in 1 .. Len(backlog') : j # i => backlog'[j].client # d
      BY <1>4, <2>1
    <2> QED
      BY <2>2, <2>3 DEF Asking
  <1>8. Turned(d) => Turned(d)'
    BY <1>4 DEF Turned
  <1>9. Parting(d) => Parting(d)'
    BY <1>4 DEF Parting
  <1> QED
    BY <1>5, <1>6, <1>7, <1>8, <1>9 DEF CarriesOver

\* The first request is taken off the backlog.
LEMMA TailFacts ==
  ASSUME backlog \in Seq(Requests), backlog # <<>>, backlog' = Tail(backlog)
  PROVE  /\ Len(backlog) \in Nat /\ 1 \in 1 .. Len(backlog) /\ Len(backlog') = Len(backlog) - 1
         /\ Head(backlog) = backlog[1]
         /\ \A i \in 1 .. Len(backlog') :
               i + 1 \in 1 .. Len(backlog) /\ i + 1 # 1 /\ backlog'[i] = backlog[i + 1]
         /\ \A i \in 1 .. Len(backlog) :
               i # 1 => i - 1 \in 1 .. Len(backlog') /\ backlog'[i - 1] = backlog[i]
  <1>1. /\ Len(backlog) \in Nat /\ 1 \in 1 .. Len(backlog) /\ Head(backlog) = backlog[1]
        /\ Len(backlog') = Len(backlog) - 1
        /\ \A i \in 1 .. Len(backlog') : backlog'[i] = backlog[i + 1]
    BY HeadTailProperties
  <1>2. \A i \in 1 .. Len(backlog') : i + 1 \in 1 .. Len(backlog) /\ i + 1 # 1
    BY <1>1
  <1>3. ASSUME NEW i \in 1 .. Len(backlog), i # 1
        PROVE  i - 1 \in 1 .. Len(backlog') /\ backlog'[i - 1] = backlog[i]
    <2>1. i - 1 \in 1 .. Len(backlog') /\ (i - 1) + 1 = i
      BY <1>1, <1>3
    <2> QED
      BY <1>1, <2>1
  <1> QED
    BY <1>1, <1>2, <1>3

\* It is not a request of the present start of d.
LEMMA TailCarries ==
  ASSUME NEW d \in Clients, backlog \in Seq(Requests), backlog # <<>>, backlog' = Tail(backlog),
         run' = run, Head(backlog).client # d \/ Head(backlog).run # run[d],
         Head(backlog).client = d \/ (d \in Members(c_list) => d \in Members(c_list'))
  PROVE  CarriesOver(d)
  <1>1. /\ Len(backlog) \in Nat /\ 1 \in 1 .. Len(backlog) /\ Len(backlog') = Len(backlog) - 1
        /\ Head(backlog) = backlog[1]
        /\ \A i \in 1 .. Len(backlog') :
              i + 1 \in 1 .. Len(backlog) /\ i + 1 # 1 /\ backlog'[i] = backlog[i + 1]
        /\ \A i \in 1 .. Len(backlog) :
              i # 1 => i - 1 \in 1 .. Len(backlog') /\ backlog'[i - 1] = backlog[i]
    BY TailFacts
  <1>2. Pending(d) => Pending(d)'
    <2> SUFFICES ASSUME Pending(d) PROVE Pending(d)'
      OBVIOUS
    <2>1. PICK i \in 1 .. Len(backlog) :
              /\ backlog[i] = [op |-> "LOG_ON", client |-> d, run |-> run[d]]
              /\ \A j \in 1 .. Len(backlog) :
                    j # i /\ backlog[j].client = d => j < i /\ backlog[j].run # run[d]
      BY DEF Pending
    <2>2. i # 1
      BY <1>1, <2>1
    <2>3. PICK m \in 1 .. Len(backlog') : m = i - 1 /\ i = m + 1 /\ backlog'[m] = backlog[i]
      BY <1>1, <2>2
    <2>4. ASSUME NEW j \in 1 .. Len(backlog'), j # m, backlog'[j].client = d
          PROVE  j < m /\ backlog'[j].run # run[d]
      <3>1. j + 1 \in 1 .. Len(backlog) /\ backlog'[j] = backlog[j + 1] /\ j + 1 # i
        BY <1>1, <2>3, <2>4
      <3>2. j + 1 < i /\ backlog[j + 1].run # run[d]
        BY <2>1, <2>4, <3>1
      <3> QED
        BY <1>1, <2>3, <3>1, <3>2
    <2>5. run'[d] = run[d] /\ backlog'[m] = [op |-> "LOG_ON", client |-> d, run |-> run'[d]]
      BY <2>1, <2>3
    <2>6. \A j \in 1 .. Len(backlog') :
             j # m /\ backlog'[j].client = d => j < m /\ backlog'[j].run # run'[d]
      BY <2>4, <2>5
    <2> QED
      BY <2>5, <2>6 DEF Pending
  <1>3. Alone(d) => Alone(d)'
    <2> SUFFICES ASSUME Alone(d) PROVE Alone(d)'
      OBVIOUS
    <2>1. Head(backlog).client # d
      BY <1>1 DEF Alone
    <2> QED
      BY <1>1, <2>1 DEF Alone
  <1>4. Asking(d) => Asking(d)'
    <2> SUFFICES ASSUME Asking(d) PROVE Asking(d)'
      OBVIOUS
    <2>1. PICK i \in 1 .. Len(backlog) :
              /\ backlog[i] = [op |-> "GET_CLIENTS", client |-> d, run |-> run[d]]
              /\ \A j \in 1 .. Len(backlog) : j # i => backlog[j].client # d
      BY DEF Asking
    <2>2. i # 1
      BY <1>1, <2>1
    <2>3. PICK m \in 1 .. Len(backlog') : m = i - 1 /\ i = m + 1 /\ backlog'[m] = backlog[i]
      BY <1>1, <2>2
    <2>4. ASSUME NEW j \in 1 .. Len(backlog'), j # m PROVE backlog'[j].client # d
      <3>1. j + 1 \in 1 .. Len(backlog) /\ backlog'[j] = backlog[j + 1] /\ j + 1 # i
        BY <1>1, <2>3, <2>4
      <3> QED
        BY <2>1, <3>1
    <2>5. Head(backlog).client # d
      BY <1>1, <2>1, <2>2
    <2>6. d \in Members(c_list')
      BY <2>5 DEF Asking
    <2> QED
      BY <2>1, <2>3, <2>4, <2>6, SMTT(30) DEF Asking
  <1>5. Turned(d) => Turned(d)'
    BY <1>1 DEF Turned
  <1>6. Parting(d) => Parting(d)'
    BY <1>1 DEF Parting
  <1> QED
    BY <1>2, <1>3, <1>4, <1>5, <1>6 DEF CarriesOver

\* What a request of the present start of a running client says about it.
LEMMA PresentRequest ==
  ASSUME NEW h \in Clients, Phase(h), cpc[h] \in ClientPlaces, cpc[h] # "off", spc = "accept",
         backlog \in Seq(Requests), backlog # <<>>, backlog' = Tail(backlog),
         run' = run, Head(backlog).client = h, Head(backlog).run = run[h]
  PROVE  /\ Head(backlog).op = "LOG_ON" => cpc[h] = "logon"
         /\ Head(backlog).op = "GET_CLIENTS" => cpc[h] = "clients" /\ h \in Members(c_list)
         /\ Head(backlog).op = "LOG_OFF" => cpc[h] = "logoff" /\ Parting(h)'
         /\ Head(backlog).op # "LOG_OFF" =>
               /\ Head(backlog).op \in {"LOG_ON", "GET_CLIENTS"}
               /\ reply[h].kind = "none"
               /\ \A i \in 1 .. Len(backlog') : backlog'[i].client # h
  <1>1. /\ Len(backlog) \in Nat /\ 1 \in 1 .. Len(backlog) /\ Head(backlog) = backlog[1]
        /\ \A i \in 1 .. Len(backlog') :
              i + 1 \in 1 .. Len(backlog) /\ i + 1 # 1 /\ backlog'[i] = backlog[i + 1]
    BY TailFacts
  <1>2. ~Alone(h) /\ ~Turned(h) /\ ~Serving(h)
    BY <1>1 DEF Alone, Turned, Serving, Busy
  <1>3. cpc[h] \in {"logon", "clients", "logoff"}
    BY <1>2 DEF Phase, ClientPlaces
  <1>4. CASE cpc[h] = "logoff"
    <2>1. Parting(h)
      BY <1>4 DEF Phase
    <2>2. Head(backlog).op = "LOG_OFF"
      BY <1>1, <2>1 DEF Parting
    <2>3. Parting(h)'
      BY <1>1, <2>1 DEF Parting
    <2> QED
      BY <1>4, <2>2, <2>3
  <1>5. CASE cpc[h] = "clients"
    <2>1. reply[h].kind = "none" /\ Asking(h)
      BY <1>2, <1>5 DEF Phase
    <2>2. PICK i \in 1 .. Len(backlog) :
              /\ backlog[i] = [op |-> "GET_CLIENTS", client |-> h, run |-> run[h]]
              /\ \A j \in 1 .. Len(backlog) : j # i => backlog[j].client # h
      BY <2>1 DEF Asking
    <2>3. i = 1
      BY <1>1, <2>2
    <2> QED
      BY <1>1, <1>5, <2>1, <2>2, <2>3 DEF Asking
  <1>6. CASE cpc[h] = "logon"
    <2>1. reply[h].kind = "none" /\ Pending(h)
      BY <1>2, <1>6 DEF Phase
    <2>2. PICK i \in 1 .. Len(backlog) :
              /\ backlog[i] = [op |-> "LOG_ON", client |-> h, run |-> run[h]]
              /\ \A j \in 1 .. Len(backlog) :
                    j # i /\ backlog[j].client = h => j < i /\ backlog[j].run # run[h]
      BY <2>1 DEF Pending
    <2>3. i = 1
      BY <1>1, <2>2
    <2>4. \A j \in 1 .. Len(backlog) : j # 1 => backlog[j].client # h
      BY <1>1, <2>2, <2>3
    <2> QED
      BY <1>1, <1>6, <2>1, <2>2, <2>3, <2>4
  <1> QED
    BY <1>3, <1>4, <1>5, <1>6

\* A client whose sockets and list are the same, and that is to know of the
\* same clients, is as informed as before.
LEMMA InformedStays ==
  ASSUME NEW d \in Clients, Informed(d), cpc'[d] = cpc[d], reply'[d] = reply[d],
         news'[d] = news[d], list'[d] = list[d], Target(d)' = Target(d)
  PROVE  Informed(d)'
  BY DEF Informed

\* A client the server has nothing to tell.
LEMMA InformedIdle ==
  ASSUME NEW d \in Clients, cpc'[d] \in {"off", "logon", "leaving", "logoff"}
  PROVE  Informed(d)'
  BY DEF Informed, Expecting

--------------------------------------------------------------------------------
(* Types and numbers of starts. *)

\* What is written to a client is one of the replies.
LEMMA SendTyped ==
  ASSUME reply \in [Clients -> Replies], NEW c \in Clients, NEW r, NEW msg \in Replies,
         Send(c, r, msg)
  PROVE  reply' \in [Clients -> Replies]
  BY DEF Send

\* The replies of the server.
LEMMA RepliesTyped ==
  /\ Msg("closed") \in Replies /\ Msg("tuple") \in Replies /\ Msg("succ") \in Replies
  /\ Msg("notfound") \in Replies /\ NoReply \in Replies
  /\ \A n \in Nat, t \in Seq(Clients) : [kind |-> "list", n |-> n, tuples |-> t] \in Replies
  BY DEF Msg, NoReply, Replies

\* A step that leaves the numbers of starts alone.
LEMMA RunsStay ==
  ASSUME RunsBelow, run' = run, starts' = starts, starts \in Nat, run \in [Clients -> Nat],
         job' = job \/ job'.run <= starts,
         \A i \in 1 .. Len(backlog') : \/ \E j \in 1 .. Len(backlog) : backlog'[i] = backlog[j]
                                       \/ \E c \in Clients : backlog'[i].run = run[c]
  PROVE  RunsBelow'
  <1>1. \A i \in 1 .. Len(backlog') : backlog'[i].run <= starts'
    BY DEF RunsBelow
  <1> QED
    BY <1>1 DEF RunsBelow

\* The server's steps.
LEMMA ServerTypes ==
  ASSUME RegistryInv, NetInv, ServerStep \/ ServerSigInt
  PROVE  NetTypes' /\ RunsBelow'
  <1> USE DEF serverVars, clientVars
  <1>0. /\ c_list \in Seq(Clients) /\ backlog \in Seq(Requests) /\ job \in Requests
        /\ run \in [Clients -> Nat] /\ starts \in Nat /\ curr \in Nat
        /\ spc \in ServerPlaces /\ reply \in [Clients -> Replies]
        /\ news \in [Clients -> Seq(Clients)] /\ job.client \in Clients
        /\ list \in [Clients -> Seq(Clients)] /\ cpc \in [Clients -> ClientPlaces]
        /\ Len(backlog) \in Nat
    BY NetFacts
  <1>1. term_flag \in {0, 1} /\ skipped \in BOOLEAN /\ starts \in 0 .. MaxStarts /\ RunsBelow
    BY DEF NetInv, NetTypes
  <1>2. ASSUME NEW op, Ready(op)
        PROVE  /\ Head(backlog) \in Requests /\ Head(backlog).client \in Clients
               /\ Head(backlog).run <= starts /\ spc = "accept"
               /\ \A i \in 1 .. Len(backlog') :
                     \E j \in 1 .. Len(backlog) : backlog'[i] = backlog[j]
    <2>1. backlog # <<>> /\ backlog' = Tail(backlog) /\ spc = "accept"
      BY <1>2 DEF Ready
    <2>2. /\ 1 \in 1 .. Len(backlog) /\ Head(backlog) = backlog[1]
          /\ \A i \in 1 .. Len(backlog') :
                i + 1 \in 1 .. Len(backlog) /\ backlog'[i] = backlog[i + 1]
      BY <1>0, <2>1, TailFacts
    <2>3. Head(backlog) \in Requests
      BY <1>0, <2>2
    <2> QED
      BY <1>1, <2>1, <2>2, <2>3 DEF RunsBelow, Requests
  <1>3. CASE \/ NotifyConnect \/ NotifySend \/ NotifyDone \/ NotifyAborts \/ NotifySpins
             \/ ServerExits \/ ServerSigInt
    <2>1. /\ run' = run /\ starts' = starts /\ job' = job /\ backlog' = backlog
          /\ list' = list /\ cpc' = cpc
      BY <1>3 DEF NotifyConnect, NotifySend, NotifyDone, NotifyAborts, NotifySpins, ServerExits,
                  ServerSigInt, Finish
    <2>2. term_flag' \in {0, 1} /\ skipped' \in BOOLEAN
      BY <1>1, <1>3 DEF NotifyConnect, NotifySend, NotifyDone, NotifyAborts, NotifySpins,
                        ServerExits, ServerSigInt, Finish
    <2>3. spc' \in ServerPlaces /\ curr' \in Nat
      BY <1>0, <1>3 DEF NotifyConnect, NotifySend, NotifyDone, NotifyAborts, NotifySpins,
                        ServerExits, ServerSigInt, Finish, ServerPlaces
    <2>4. reply' \in [Clients -> Replies]
      <3>1. CASE NotifyConnect \/ NotifySend \/ NotifySpins \/ ServerSigInt
        BY <1>0, <3>1 DEF NotifyConnect, NotifySend, NotifySpins, ServerSigInt
      <3>2. CASE NotifyDone \/ NotifyAborts
        BY <1>0, <3>2, SendTyped, RepliesTyped DEF NotifyDone, NotifyAborts, Finish
      <3>3. CASE ServerExits
        BY <1>0, <3>3, SendTyped, RepliesTyped DEF ServerExits
      <3> QED
        BY <1>3, <3>1, <3>2, <3>3
    <2>5. news' \in [Clients -> Seq(Clients)]
      <3>1. CASE NotifySend
        <4>1. <<job.client>> \in Seq(Clients)
          BY <1>0
        <4>2. news' = news \/ news' = [news EXCEPT ![c_list[curr]] = <<job.client>>]
          BY <3>1 DEF NotifySend
        <4> QED
          BY <1>0, <4>1, <4>2
      <3>2. CASE ~NotifySend
        BY <1>0, <1>3, <3>2 DEF NotifyConnect, NotifyDone, NotifyAborts, NotifySpins, ServerExits,
                                ServerSigInt, Finish
      <3> QED
        BY <3>1, <3>2
    <2>6. RunsBelow'
      BY <1>0, <1>1, <2>1, RunsStay
    <2> QED
      BY <1>0, <1>1, <2>1, <2>2, <2>3, <2>4, <2>5, <2>6 DEF NetTypes
  <1>4. CASE AcceptLogOn \/ AcceptGetClients \/ AcceptLogOff \/ AcceptNothing \/ AcceptHalf
    <2>1. PICK op : Ready(op)
      BY <1>4 DEF AcceptLogOn, AcceptGetClients, AcceptLogOff, AcceptNothing, AcceptHalf
    <2>2. /\ Head(backlog).client \in Clients /\ Head(backlog).run <= starts /\ spc = "accept"
          /\ \A i \in 1 .. Len(backlog') :
                \E j \in 1 .. Len(backlog) : backlog'[i] = backlog[j]
      BY <1>2, <2>1
    <2>3. /\ run' = run /\ starts' = starts /\ list' = list /\ cpc' = cpc /\ news' = news
          /\ job' = job \/ job' = Head(backlog)
          /\ term_flag' = term_flag /\ skipped' = skipped
      BY <1>4 DEF AcceptLogOn, AcceptGetClients, AcceptLogOff, AcceptNothing, AcceptHalf
    <2>4. spc' \in ServerPlaces /\ curr' \in Nat
      BY <1>0, <1>4 DEF AcceptLogOn, AcceptGetClients, AcceptLogOff, AcceptNothing, AcceptHalf,
                        ServerPlaces
    <2>5. reply' \in [Clients -> Replies]
      <3>1. CASE AcceptLogOn
        BY <1>0, <2>2, <3>1, SendTyped, RepliesTyped DEF AcceptLogOn
      <3>2. CASE AcceptLogOff
        BY <1>0, <2>2, <3>2, SendTyped, RepliesTyped DEF AcceptLogOff
      <3>3. CASE AcceptNothing \/ AcceptHalf
        BY <1>0, <3>3 DEF AcceptNothing, AcceptHalf
      <3>4. CASE AcceptGetClients
        <4>1. clients_logged_on \in Nat
          BY <1>0, <2>2 DEF RegistryInv, CountInv, LoggingOn
        <4>2. [kind |-> "list", n |-> clients_logged_on, tuples |-> c_list] \in Replies
          BY <1>0, <4>1, RepliesTyped
        <4> QED
          BY <1>0, <2>2, <3>4, <4>2, SendTyped, RepliesTyped DEF AcceptGetClients
      <3> QED
        BY <1>4, <3>1, <3>2, <3>3, <3>4
    <2>6. RunsBelow'
      BY <1>0, <1>1, <2>2, <2>3, RunsStay
    <2> QED
      BY <1>0, <1>1, <2>3, <2>4, <2>5, <2>6 DEF NetTypes
  <1> QED
    BY <1>3, <1>4 DEF ServerStep

\* A request of a client joins the backlog.
LEMMA RequestFacts ==
  ASSUME backlog \in Seq(Requests), NEW c \in Clients, NEW op \in Ops,
         run' \in [Clients -> Nat], Request(c, op)
  PROVE  /\ Len(backlog) \in Nat /\ Len(backlog') = Len(backlog) + 1
         /\ [op |-> op, client |-> c, run |-> run'[c]] \in Requests
         /\ backlog' = Append(backlog, [op |-> op, client |-> c, run |-> run'[c]])
         /\ backlog'[Len(backlog) + 1] = [op |-> op, client |-> c, run |-> run'[c]]
         /\ \A i \in 1 .. Len(backlog) : backlog'[i] = backlog[i]
         /\ \A i \in 1 .. Len(backlog') : i \in 1 .. Len(backlog) \/ i = Len(backlog) + 1
  <1>1. PICK r : r = [op |-> op, client |-> c, run |-> run'[c]]
    OBVIOUS
  <1>2. r \in Requests
    BY <1>1 DEF Requests
  <1>3. backlog' = Append(backlog, r)
    BY <1>1 DEF Request
  <1>4. /\ Len(backlog) \in Nat /\ Len(backlog') = Len(backlog) + 1
        /\ backlog'[Len(backlog) + 1] = r
        /\ \A i \in 1 .. Len(backlog) : backlog'[i] = backlog[i]
    BY <1>2, <1>3, AppendProperties
  <1>5. \A i \in 1 .. Len(backlog') : i \in 1 .. Len(backlog) \/ i = Len(backlog) + 1
    BY <1>4
  <1> QED
    BY <1>1, <1>2, <1>3, <1>4, <1>5

\* The clients' steps.
LEMMA ClientTypes ==
  ASSUME RegistryInv, NetInv, NEW c \in Clients, ClientStep(c) \/ ClientInput(c)
  PROVE  NetTypes' /\ RunsBelow'
  <1> USE DEF serverVars, clientVars
  <1>0. /\ c_list \in Seq(Clients) /\ backlog \in Seq(Requests) /\ job \in Requests
        /\ run \in [Clients -> Nat] /\ starts \in Nat /\ curr \in Nat
        /\ spc \in ServerPlaces /\ reply \in [Clients -> Replies]
        /\ news \in [Clients -> Seq(Clients)] /\ job.client \in Clients
        /\ list \in [Clients -> Seq(Clients)] /\ cpc \in [Clients -> ClientPlaces]
        /\ Len(backlog) \in Nat
    BY NetFacts
  <1>1. term_flag \in {0, 1} /\ skipped \in BOOLEAN /\ starts \in 0 .. MaxStarts /\ RunsBelow
    BY DEF NetInv, NetTypes
  <1>2. <<>> \in Seq(Clients) /\ NoReply \in Replies /\ NoNews \in Seq(Clients)
    BY RepliesTyped DEF NoNews
  <1>3. CASE Exit(c)
    <2>1. /\ cpc' \in [Clients -> ClientPlaces] /\ spc' \in ServerPlaces
          /\ reply' \in [Clients -> Replies] /\ news' \in [Clients -> Seq(Clients)]
          /\ list' \in [Clients -> Seq(Clients)]
      BY <1>0, <1>2, <1>3 DEF Exit, ClientGoes, ClientPlaces, ServerPlaces
    <2>2. RunsBelow'
      BY <1>0, <1>1, <1>3, RunsStay DEF Exit
    <2> QED
      BY <1>0, <1>1, <1>3, <2>1, <2>2 DEF NetTypes, Exit
  <1>4. CASE Rejected(c) \/ SigIntEarly(c) \/ LoggedOff(c) \/ GiveUp(c) \/ Crash(c)
    BY <1>3, <1>4 DEF Rejected, SigIntEarly, LoggedOff, GiveUp, Crash
  <1>5. CASE Start(c) \/ StartDies(c)
    <2>1. /\ run' = [run EXCEPT ![c] = starts + 1] /\ starts' = starts + 1 /\ starts < MaxStarts
          /\ UNCHANGED <<serverVars, spc, reply, news, list>>
      BY <1>5 DEF Start, StartDies
    <2>2. PICK op \in Ops : Request(c, op)
      BY <1>5 DEF Start, StartDies, Ops
    <2>3. run' \in [Clients -> Nat] /\ run'[c] = starts + 1
      BY <1>0, <2>1
    <2>4. /\ Len(backlog) \in Nat /\ Len(backlog') = Len(backlog) + 1
          /\ backlog'[Len(backlog) + 1] = [op |-> op, client |-> c, run |-> run'[c]]
          /\ \A i \in 1 .. Len(backlog) : backlog'[i] = backlog[i]
          /\ \A i \in 1 .. Len(backlog') : i \in 1 .. Len(backlog) \/ i = Len(backlog) + 1
      BY <1>0, <2>2, <2>3, RequestFacts
    <2>5. cpc' \in [Clients -> ClientPlaces]
      BY <1>0, <1>5 DEF Start, StartDies, ClientGoes, ClientPlaces
    <2>6. RunsBelow'
      <3>1. ASSUME NEW i \in 1 .. Len(backlog') PROVE backlog'[i].run <= starts'
        <4>1. CASE i \in 1 .. Len(backlog)
          <5>1. backlog[i] \in Requests /\ backlog[i].run <= starts
            BY <1>0, <1>1, <4>1 DEF RunsBelow
          <5>2. backlog[i].run \in Nat
            BY <5>1 DEF Requests
          <5> QED
            BY <1>0, <2>1, <2>4, <4>1, <5>1, <5>2
        <4>2. CASE i = Len(backlog) + 1
          BY <1>0, <2>1, <2>3, <2>4, <4>2
        <4> QED
          BY <2>4, <4>1, <4>2
      <3>2. job'.run <= starts'
        <4>1. job' = job /\ job.run \in Nat /\ job.run <= starts
          BY <1>0, <1>1, <2>1 DEF Requests, RunsBelow
        <4> QED
          BY <1>0, <2>1, <4>1
      <3>3. \A d \in Clients : run'[d] <= starts'
        BY <1>0, <1>1, <2>1 DEF RunsBelow
      <3> QED
        BY <3>1, <3>2, <3>3 DEF RunsBelow
    <2>7. starts' \in 0 .. MaxStarts
      BY <1>1, <2>1, NetAssumption
    <2> QED
      BY <1>0, <1>1, <2>1, <2>5, <2>6, <2>7 DEF NetTypes
  <1>6. CASE LoggedOn(c) \/ SendLogOff(c)
    <2>1. /\ UNCHANGED <<serverVars, clientVars, spc, news>>
          /\ cpc' \in [Clients -> ClientPlaces] /\ reply' \in [Clients -> Replies]
      BY <1>0, <1>2, <1>6 DEF LoggedOn, SendLogOff, ClientGoes, ClientPlaces
    <2>2. PICK op \in Ops : Request(c, op)
      BY <1>6 DEF LoggedOn, SendLogOff, Ops
    <2>3. /\ backlog'[Len(backlog) + 1] = [op |-> op, client |-> c, run |-> run[c]]
          /\ \A i \in 1 .. Len(backlog) : backlog'[i] = backlog[i]
          /\ \A i \in 1 .. Len(backlog') : i \in 1 .. Len(backlog) \/ i = Len(backlog) + 1
      BY <1>0, <2>1, <2>2, RequestFacts
    <2>4. \A i \in 1 .. Len(backlog') : \/ \E j \in 1 .. Len(backlog) : backlog'[i] = backlog[j]
                                        \/ \E d \in Clients : backlog'[i].run = run[d]
      BY <2>3
    <2>5. RunsBelow'
      BY <1>0, <1>1, <2>1, <2>4, RunsStay
    <2> QED
      BY <1>0, <1>1, <2>1, <2>5 DEF NetTypes
  <1>7. CASE GotClients(c) \/ ReadTuple(c) \/ Approve(c) \/ SigIntListen(c)
    <2>1. UNCHANGED <<serverVars, starts, run, backlog>>
      BY <1>7 DEF GotClients, ReadTuple, Approve, SigIntListen
    <2>2. cpc' \in [Clients -> ClientPlaces] /\ spc' \in ServerPlaces
      BY <1>0, <1>7 DEF GotClients, ReadTuple, Approve, SigIntListen, ClientGoes, ClientPlaces,
                        ServerPlaces
    <2>3. reply' \in [Clients -> Replies] /\ news' \in [Clients -> Seq(Clients)]
      BY <1>0, <1>2, <1>7 DEF GotClients, ReadTuple, Approve, SigIntListen
    <2>4. list' \in [Clients -> Seq(Clients)]
      <3>1. CASE GotClients(c)
        <4>1. reply[c].tuples \in Seq(Clients) /\ reply[c].n \in Nat
          BY <1>0 DEF Replies
        <4>2. reply[c].n <= Len(reply[c].tuples)
          BY <3>1 DEF GotClients
        <4>3. PICK t : t = SubSeq(reply[c].tuples, 1, reply[c].n)
          OBVIOUS
        <4>4. t \in Seq(Clients)
          BY <4>1, <4>2, <4>3
        <4>5. Others(c, t) \in Seq(Clients)
          BY <4>4, OthersExact
        <4>6. list' = [list EXCEPT ![c] = Others(c, t)]
          BY <3>1, <4>3 DEF GotClients
        <4> QED
          BY <1>0, <4>5, <4>6
      <3>2. CASE ReadTuple(c)
        <4>1. news[c] \in Seq(Clients) /\ news[c] # <<>>
          BY <1>0, <3>2 DEF ReadTuple, NoNews
        <4>2. news[c][1] \in Clients /\ list[c] \in Seq(Clients)
          BY <1>0, <4>1
        <4>3. /\ client_list_add(list[c], news[c][1]) \in Seq(Clients)
              /\ delete_from_client_list(list[c], news[c][1]) \in Seq(Clients)
          BY <4>2, AddExact, DeleteExact
        <4> QED
          BY <1>0, <3>2, <4>3 DEF ReadTuple
      <3>3. CASE Approve(c) \/ SigIntListen(c)
        BY <1>0, <3>3 DEF Approve, SigIntListen
      <3> QED
        BY <1>7, <3>1, <3>2, <3>3
    <2>5. RunsBelow'
      BY <1>0, <1>1, <2>1, RunsStay
    <2> QED
      BY <1>0, <1>1, <2>1, <2>2, <2>3, <2>4, <2>5 DEF NetTypes
  <1> QED
    BY <1>4, <1>5, <1>6, <1>7 DEF ClientStep, ClientInput

--------------------------------------------------------------------------------
(* The server's steps. *)

\* Whom a write of the server reaches.
LEMMA SendReaches ==
  ASSUME reply \in [Clients -> Replies], NEW h \in Clients, NEW r, NEW msg, Send(h, r, msg),
         NEW d \in Clients
  PROVE  /\ d # h \/ cpc[d] = "off" \/ run[d] # r => reply'[d] = reply[d]
         /\ d = h /\ cpc[d] # "off" /\ run[d] = r => reply'[d] = msg
  BY DEF Send

\* The idle server takes a request.
LEMMA ReadyFacts ==
  ASSUME RegistryInv, NetInv, NEW op, Ready(op)
  PROVE  /\ spc = "accept" /\ Knowing /\ backlog # <<>> /\ backlog' = Tail(backlog)
         /\ Head(backlog).op = op /\ Head(backlog).client \in Clients
         /\ \A d \in Clients : ~Serving(d) /\ Target(d) = Members(c_list) \ {d}
         /\ \A d \in Clients : Noticed(d) /\ Phase(d) /\ (~skipped => Informed(d))
         /\ \A d \in Clients : ~(cpc[d] \in Expecting /\ news[d] = NoNews)
  <1>1. spc = "accept" /\ backlog # <<>> /\ backlog' = Tail(backlog) /\ Head(backlog).op = op
    BY DEF Ready
  <1>2. Knowing
    BY <1>1 DEF NetInv
  <1>3. Head(backlog) \in Requests
    BY ReadyTyped
  <1>4. \A d \in Clients : ~Serving(d) /\ Target(d) = Members(c_list) \ {d}
    BY <1>1 DEF Serving, Busy, Target, Told
  <1>5. \A d \in Clients : Noticed(d) /\ Phase(d) /\ (~skipped => Informed(d))
    BY <1>2 DEF Knowing
  <1>6. \A d \in Clients : ~(cpc[d] \in Expecting /\ news[d] = NoNews)
    BY <1>1, <1>5 DEF Noticed
  <1> QED
    BY <1>1, <1>2, <1>3, <1>4, <1>5, <1>6 DEF Requests

\* No notification waits for the server to write it, so none is disturbed.
LEMMA NoticedAside ==
  ASSUME NEW d \in Clients, Noticed(d), ~(cpc[d] \in Expecting /\ news[d] = NoNews),
         cpc' = cpc, news' = news
  PROVE  Noticed(d)'
  BY DEF Noticed

\* A request that changes nothing but the reply to the client that made it.
LEMMA AnsweredKeeps ==
  ASSUME RegistryInv, NetInv, NEW op, Ready(op), NEW msg,
         Send(Head(backlog).client, Head(backlog).run, msg),
         msg.kind # "none", msg.kind # "tuple",
         op = "LOG_ON" => msg.kind # "list", op = "LOG_OFF" => msg.kind # "list",
         msg.kind = "list" => msg.n = Len(msg.tuples) /\ msg.tuples = c_list,
         op \in {"LOG_ON", "GET_CLIENTS", "LOG_OFF"},
         UNCHANGED <<serverVars, clientVars, spc, cpc, news>>
  PROVE  Knowing'
  <1> USE DEF serverVars, clientVars
  <1>1. PICK h \in Clients : h = Head(backlog).client
    BY ReadyFacts
  <1>2. /\ spc = "accept" /\ Knowing /\ backlog # <<>> /\ backlog' = Tail(backlog)
        /\ Head(backlog).op = op
        /\ \A d \in Clients : ~Serving(d) /\ Target(d) = Members(c_list) \ {d}
        /\ \A d \in Clients : Noticed(d) /\ Phase(d) /\ (~skipped => Informed(d))
        /\ \A d \in Clients : ~(cpc[d] \in Expecting /\ news[d] = NoNews)
    BY ReadyFacts
  <1>3. /\ c_list \in Seq(Clients) /\ backlog \in Seq(Requests)
        /\ reply \in [Clients -> Replies] /\ cpc \in [Clients -> ClientPlaces]
    BY NetFacts
  <1>4. Job' /\ AtNode' /\ Approved'
    BY <1>2 DEF Knowing, Job, AtNode, Approved, Busy, LastNode
  <1>5. \A d \in Clients : Noticed(d)'
    BY <1>2, NoticedAside
  <1>6. ASSUME NEW d \in Clients PROVE Phase(d)' /\ (~skipped' => Informed(d)')
    <2>1. ~Serving(d)' /\ Target(d)' = Target(d)
      BY <1>2 DEF Serving, Busy, Target, Told
    <2>2. CASE d # h \/ cpc[d] = "off" \/ run[d] # Head(backlog).run
      <3>1. reply'[d] = reply[d]
        BY <1>1, <1>3, <2>2, SendReaches
      <3>2. Informed(d) => Informed(d)'
        BY <2>1, <3>1, InformedStays
      <3>3. CASE cpc[d] = "off"
        <4>1. Phase(d)'
          BY <1>2, <2>1, <3>1, <3>3 DEF Phase
        <4> QED
          BY <1>2, <3>2, <4>1
      <3>4. CASE cpc[d] # "off"
        <4>1. CarriesOver(d)
          BY <1>1, <1>2, <1>3, <2>2, <3>4, TailCarries
        <4>2. Phase(d)'
          BY <1>2, <2>1, <3>1, <4>1, PhaseStays
        <4> QED
          BY <1>2, <3>2, <4>2
      <3> QED
        BY <3>3, <3>4
    <2>3. CASE d = h /\ cpc[d] # "off" /\ run[d] = Head(backlog).run
      <3>1. reply'[d] = msg
        BY <1>1, <1>3, <2>3, SendReaches
      <3>2. /\ op = "LOG_ON" => cpc[d] = "logon"
            /\ op = "GET_CLIENTS" => cpc[d] = "clients" /\ d \in Members(c_list)
            /\ op = "LOG_OFF" => cpc[d] = "logoff" /\ Parting(d)'
            /\ op # "LOG_OFF" => \A i \in 1 .. Len(backlog') : backlog'[i].client # d
        BY <1>1, <1>2, <1>3, <2>3, PresentRequest
      <3>3. op # "LOG_OFF" => Turned(d)'
        BY <3>2 DEF Turned
      <3>4. op = "GET_CLIENTS" => Alone(d)'
        BY <3>2 DEF Alone
      <3>5. Phase(d)'
        BY <2>1, <3>1, <3>2, <3>3, <3>4 DEF Phase
      <3>6. Informed(d)'
        <4>1. CASE op # "GET_CLIENTS"
          BY <3>2, <4>1, InformedIdle
        <4>2. CASE op = "GET_CLIENTS"
          <5>1. cpc'[d] = "clients"
            BY <3>2, <4>2
          <5>2. msg.kind = "list" => Exactly(Others(d, c_list), Members(c_list) \ {d})
            BY <1>3, OthersExact DEF RegistryInv, NoDuplicates
          <5>3. reply'[d].kind = "list" =>
                   /\ reply'[d].n = Len(reply'[d].tuples)
                   /\ Exactly(Others(d, reply'[d].tuples), Target(d)')
            BY <1>2, <2>1, <3>1, <5>2
          <5> QED
            BY <5>1, <5>3 DEF Informed, Expecting
        <4> QED
          BY <4>1, <4>2
      <3> QED
        BY <3>5, <3>6
    <2> QED
      BY <2>2, <2>3
  <1> QED
    BY <1>4, <1>5, <1>6 DEF Knowing

\* LOG_ON (dropbox_server.c).
LEMMA LogOnKeeps ==
  ASSUME RegistryInv, NetInv, AcceptLogOn
  PROVE  Knowing'
  <1> USE DEF serverVars, clientVars
  <1>0. Ready("LOG_ON")
    BY DEF AcceptLogOn
  <1>1. PICK h \in Clients : h = Head(backlog).client
    BY <1>0, ReadyFacts
  <1>2. CASE in_client_list(c_list, h)
    <2>1. /\ Send(Head(backlog).client, Head(backlog).run, Msg("closed"))
          /\ UNCHANGED <<serverVars, clientVars, spc, cpc, news>>
      BY <1>1, <1>2 DEF AcceptLogOn
    <2>2. Msg("closed").kind = "closed"
      BY DEF Msg
    <2> QED
      BY <1>0, <2>1, <2>2, AnsweredKeeps
  <1>3. CASE ~in_client_list(c_list, h)
    <2>1. /\ c_list' = client_list_add(c_list, h) /\ job' = Head(backlog) /\ curr' = 1
          /\ spc' = "notify" /\ skipped' = skipped /\ reply' = reply
          /\ cpc' = cpc /\ news' = news /\ run' = run /\ list' = list
      BY <1>1, <1>3 DEF AcceptLogOn
    <2>2. /\ spc = "accept" /\ Knowing /\ backlog # <<>> /\ backlog' = Tail(backlog)
          /\ Head(backlog).op = "LOG_ON"
          /\ \A d \in Clients : ~Serving(d) /\ Target(d) = Members(c_list) \ {d}
          /\ \A d \in Clients : Noticed(d) /\ Phase(d) /\ (~skipped => Informed(d))
          /\ \A d \in Clients : ~(cpc[d] \in Expecting /\ news[d] = NoNews)
      BY <1>0, ReadyFacts
    <2>3. /\ c_list \in Seq(Clients) /\ backlog \in Seq(Requests)
          /\ reply \in [Clients -> Replies] /\ cpc \in [Clients -> ClientPlaces]
      BY NetFacts
    <2>4. /\ Len(c_list') > 0 /\ c_list'[Len(c_list')] = h
          /\ Members(c_list') = Members(c_list) \cup {h} /\ h \notin Members(c_list)
      BY <1>3, <2>1, <2>3, AddExact, InList, AppendProperties DEF client_list_add
    <2>5. Job' /\ AtNode' /\ Approved'
      BY <1>1, <2>1, <2>2, <2>4 DEF Job, AtNode, Approved, Busy
    <2>6. \A d \in Clients : Noticed(d)'
      BY <2>1, <2>2, NoticedAside
    <2>7. ASSUME NEW d \in Clients PROVE Target(d)' = Target(d)
      <3>1. ~Told(d)'
        BY <2>1 DEF Told
      <3>2. job'.op = "LOG_ON" /\ job'.client = h
        BY <1>1, <2>1, <2>2
      <3>3. Target(d)' = Members(c_list') \ {d, h}
        BY <3>1, <3>2 DEF Target
      <3> QED
        BY <2>2, <2>4, <3>3
    <2>8. \A d \in Clients : ~skipped' => Informed(d)'
      BY <2>1, <2>2, <2>7, InformedStays
    <2>9. ASSUME NEW d \in Clients PROVE Phase(d)'
      <3>1. Serving(d)' <=> d = h /\ run[d] = Head(backlog).run
        BY <1>1, <2>1, <2>2 DEF Serving, Busy
      <3>2. CASE d # h \/ run[d] # Head(backlog).run
        <4>1. CarriesOver(d)
          BY <1>1, <2>1, <2>2, <2>3, <2>4, <3>2, TailCarries
        <4> QED
          BY <2>1, <2>2, <3>1, <3>2, <4>1, PhaseStays
      <3>3. CASE cpc[d] = "off"
        BY <2>1, <2>2, <3>3 DEF Phase
      <3>4. CASE d = h /\ cpc[d] # "off" /\ run[d] = Head(backlog).run
        <4>1. /\ cpc[d] = "logon" /\ reply[d].kind = "none"
              /\ \A i \in 1 .. Len(backlog') : backlog'[i].client # d
          BY <1>1, <2>1, <2>2, <2>3, <3>4, PresentRequest
        <4>2. Alone(d)'
          BY <2>4, <3>4, <4>1 DEF Alone
        <4> QED
          BY <2>1, <3>1, <3>4, <4>1, <4>2 DEF Phase
      <3> QED
        BY <3>2, <3>3, <3>4
    <2> QED
      BY <2>5, <2>6, <2>8, <2>9 DEF Knowing
  <1> QED
    BY <1>2, <1>3

\* LOG_OFF (dropbox_server.c).
LEMMA LogOffKeeps ==
  ASSUME RegistryInv, NetInv, AcceptLogOff
  PROVE  Knowing'
  <1> USE DEF serverVars, clientVars
  <1>0. Ready("LOG_OFF")
    BY DEF AcceptLogOff
  <1>1. PICK h \in Clients : h = Head(backlog).client
    BY <1>0, ReadyFacts
  <1>2. CASE ~in_client_list(c_list, h)
    <2>1. /\ Send(Head(backlog).client, Head(backlog).run, Msg("notfound"))
          /\ UNCHANGED <<serverVars, clientVars, spc, cpc, news>>
      BY <1>1, <1>2 DEF AcceptLogOff
    <2>2. Msg("notfound").kind = "notfound"
      BY DEF Msg
    <2> QED
      BY <1>0, <2>1, <2>2, AnsweredKeeps
  <1>3. CASE in_client_list(c_list, h)
    <2>1. /\ c_list' = delete_from_client_list(c_list, h) /\ job' = Head(backlog) /\ curr' = 1
          /\ spc' = "notify" /\ skipped' = skipped
          /\ Send(h, Head(backlog).run, Msg("succ"))
          /\ cpc' = cpc /\ news' = news /\ run' = run /\ list' = list
      BY <1>1, <1>3 DEF AcceptLogOff
    <2>2. /\ spc = "accept" /\ Knowing /\ backlog # <<>> /\ backlog' = Tail(backlog)
          /\ Head(backlog).op = "LOG_OFF"
          /\ \A d \in Clients : ~Serving(d) /\ Target(d) = Members(c_list) \ {d}
          /\ \A d \in Clients : Noticed(d) /\ Phase(d) /\ (~skipped => Informed(d))
          /\ \A d \in Clients : ~(cpc[d] \in Expecting /\ news[d] = NoNews)
      BY <1>0, ReadyFacts
    <2>3. /\ c_list \in Seq(Clients) /\ backlog \in Seq(Requests)
          /\ reply \in [Clients -> Replies] /\ cpc \in [Clients -> ClientPlaces]
      BY NetFacts
    <2>4. Members(c_list') = Members(c_list) \ {h} /\ h \in Members(c_list)
      <3>1. Exactly(c_list, Members(c_list)) /\ h \in Members(c_list)
        BY <1>3, InList DEF RegistryInv, NoDuplicates, Exactly
      <3> QED
        BY <2>1, <2>3, <3>1, DeleteExact DEF Exactly
    <2>5. Job' /\ AtNode' /\ Approved'
      BY <1>1, <2>1, <2>2, <2>4 DEF Job, AtNode, Approved, Busy
    <2>6. \A d \in Clients : Noticed(d)'
      BY <2>1, <2>2, NoticedAside
    <2>7. ASSUME NEW d \in Clients PROVE Target(d)' = Target(d)
      <3>1. ~Told(d)'
        BY <2>1 DEF Told
      <3>2. job'.op = "LOG_OFF" /\ job'.client = h
        BY <1>1, <2>1, <2>2
      <3>3. Target(d)' = (Members(c_list') \cup {h}) \ {d}
        BY <3>1, <3>2 DEF Target
      <3> QED
        BY <2>2, <2>4, <3>3
    <2>8. ASSUME NEW d \in Clients PROVE Phase(d)' /\ (~skipped' => Informed(d)')
      <3>1. ~Serving(d)'
        BY <2>1, <2>2 DEF Serving
      <3>2. CASE d # h \/ cpc[d] = "off" \/ run[d] # Head(backlog).run
        <4>1. reply'[d] = reply[d]
          BY <2>1, <2>3, <3>2, SendReaches
        <4>2. Informed(d) => Informed(d)'
          BY <2>1, <2>7, <4>1, InformedStays
        <4>3. CASE cpc[d] = "off"
          <5>1. Phase(d)'
            BY <2>1, <2>2, <3>1, <4>1, <4>3 DEF Phase
          <5> QED
            BY <2>1, <2>2, <4>2, <5>1
        <4>4. CASE cpc[d] # "off"
          <5>1. CarriesOver(d)
            BY <1>1, <2>1, <2>2, <2>3, <2>4, <3>2, <4>4, TailCarries
          <5>2. Phase(d)'
            BY <2>1, <2>2, <3>1, <4>1, <5>1, PhaseStays
          <5> QED
            BY <2>1, <2>2, <4>2, <5>2
        <4> QED
          BY <4>3, <4>4
      <3>3. CASE d = h /\ cpc[d] # "off" /\ run[d] = Head(backlog).run
        <4>1. cpc[d] = "logoff" /\ Parting(d)'
          BY <1>1, <2>1, <2>2, <2>3, <3>3, PresentRequest
        <4>2. Informed(d)'
          BY <2>1, <4>1, InformedIdle
        <4>3. Phase(d)'
          BY <2>1, <3>1, <4>1 DEF Phase
        <4> QED
          BY <4>2, <4>3
      <3> QED
        BY <3>2, <3>3
    <2> QED
      BY <2>5, <2>6, <2>8 DEF Knowing
  <1> QED
    BY <1>2, <1>3

\* GET_CLIENTS, and a connection that is closed without a request.
LEMMA QueryKeeps ==
  ASSUME RegistryInv, NetInv, AcceptGetClients \/ AcceptNothing
  PROVE  Knowing'
  <1> USE DEF serverVars, clientVars
  <1>1. CASE AcceptGetClients
    <2>1. PICK msg : /\ Send(Head(backlog).client, Head(backlog).run, msg)
                     /\ msg = IF in_client_list(c_list, Head(backlog).client)
                              THEN [kind |-> "list", n |-> clients_logged_on, tuples |-> c_list]
                              ELSE Msg("notfound")
      BY <1>1 DEF AcceptGetClients
    <2>2. clients_logged_on = Len(c_list)
      BY <1>1 DEF AcceptGetClients, Ready, RegistryInv, CountInv, LoggingOn
    <2>3. /\ msg.kind \in {"list", "notfound"}
          /\ msg.kind = "list" => msg.n = Len(msg.tuples) /\ msg.tuples = c_list
      BY <2>1, <2>2 DEF Msg
    <2>4. Ready("GET_CLIENTS") /\ UNCHANGED <<serverVars, clientVars, spc, cpc, news>>
      BY <1>1 DEF AcceptGetClients
    <2> QED
      BY <2>1, <2>3, <2>4, AnsweredKeeps
  <1>2. CASE AcceptNothing
    <2>0. Ready("NOTHING") /\ UNCHANGED <<serverVars, clientVars, spc, cpc, reply, news>>
      BY <1>2 DEF AcceptNothing
    <2>1. PICK h \in Clients : h = Head(backlog).client
      BY <2>0, ReadyFacts
    <2>2. /\ spc = "accept" /\ Knowing /\ backlog # <<>> /\ backlog' = Tail(backlog)
          /\ Head(backlog).op = "NOTHING"
          /\ \A d \in Clients : ~Serving(d) /\ Target(d) = Members(c_list) \ {d}
          /\ \A d \in Clients : Noticed(d) /\ Phase(d) /\ (~skipped => Informed(d))
          /\ \A d \in Clients : ~(cpc[d] \in Expecting /\ news[d] = NoNews)
      BY <2>0, ReadyFacts
    <2>3. backlog \in Seq(Requests) /\ cpc \in [Clients -> ClientPlaces]
      BY NetFacts
    <2>4. Job' /\ AtNode' /\ Approved'
      BY <2>0, <2>2 DEF Knowing, Job, AtNode, Approved, Busy, LastNode
    <2>5. \A d \in Clients : Noticed(d)'
      BY <2>0, <2>2, NoticedAside
    <2>6. ASSUME NEW d \in Clients PROVE Phase(d)' /\ (~skipped' => Informed(d)')
      <3>1. ~Serving(d)' /\ Target(d)' = Target(d)
        BY <2>0, <2>2 DEF Serving, Busy, Target, Told
      <3>2. Informed(d) => Informed(d)'
        BY <2>0, <3>1, InformedStays
      <3>3. CASE cpc[d] = "off"
        <4>1. Phase(d)'
          BY <2>0, <2>2, <3>1, <3>3 DEF Phase
        <4> QED
          BY <2>0, <2>2, <3>2, <4>1
      <3>4. CASE cpc[d] # "off"
        <4>1. d # h \/ run[d] # Head(backlog).run
          BY <2>0, <2>1, <2>2, <2>3, <3>4, PresentRequest
        <4>2. CarriesOver(d)
          BY <2>0, <2>1, <2>2, <2>3, <4>1, TailCarries
        <4>3. Phase(d)'
          BY <2>0, <2>2, <3>1, <4>2, PhaseStays
        <4> QED
          BY <2>0, <2>2, <3>2, <4>3
      <3> QED
        BY <3>3, <3>4
    <2> QED
      BY <2>4, <2>5, <2>6 DEF Knowing
  <1> QED
    BY <1>1, <1>2

\* The server within a round.
LEMMA RoundFacts ==
  ASSUME RegistryInv, NetInv, spc \notin {"accept", "exited"}
  PROVE  /\ Knowing /\ Busy /\ Job /\ AtNode /\ Approved
         /\ \A d \in Clients : Noticed(d) /\ Phase(d) /\ (~skipped => Informed(d))
         /\ spc # "approved" => \A d \in Clients : ~(cpc[d] \in Expecting /\ news[d] = NoNews)
         /\ LastNode \in Int /\ LastNode <= Len(c_list)
  <1>1. Knowing /\ Busy
    BY DEF NetInv, Busy
  <1>2. \A d \in Clients : Noticed(d) /\ Phase(d) /\ (~skipped => Informed(d))
    BY <1>1 DEF Knowing
  <1>3. LastNode \in Int /\ LastNode <= Len(c_list)
    BY NetFacts DEF LastNode
  <1> QED
    BY <1>1, <1>2, <1>3 DEF Knowing, Noticed

\* connect to the next node.
LEMMA ConnectKeeps ==
  ASSUME RegistryInv, NetInv, NotifyConnect
  PROVE  Knowing'
  <1> USE DEF clientVars
  <1>1. /\ spc = "notify" /\ curr <= LastNode /\ c_list' = c_list /\ job' = job
        /\ skipped' = skipped /\ run' = run /\ list' = list /\ backlog' = backlog /\ cpc' = cpc
        /\ reply' = reply /\ news' = news
        /\ \/ cpc[c_list[curr]] = "off" /\ curr' = curr + 1 /\ spc' = spc
           \/ spc' = "approval" /\ curr' = curr
    BY DEF NotifyConnect
  <1>2. /\ Knowing /\ Job /\ AtNode
        /\ \A d \in Clients : Noticed(d) /\ Phase(d) /\ (~skipped => Informed(d))
        /\ \A d \in Clients : ~(cpc[d] \in Expecting /\ news[d] = NoNews)
        /\ LastNode \in Int /\ LastNode <= Len(c_list)
    BY <1>1, RoundFacts
  <1>3. curr \in Nat /\ Len(c_list) \in Nat
    BY NetFacts
  <1>4. Job' /\ AtNode' /\ Approved'
    <2>1. LastNode' = LastNode
      BY <1>1 DEF LastNode
    <2> QED
      BY <1>1, <1>2, <1>3, <2>1 DEF Job, AtNode, Approved, Busy
  <1>5. \A d \in Clients : Noticed(d)'
    BY <1>1, <1>2, NoticedAside
  <1>6. ASSUME NEW d \in Clients PROVE Phase(d)'
    <2>1. Serving(d)' <=> Serving(d)
      BY <1>1 DEF Serving, Busy
    <2>2. CarriesOver(d)
      BY <1>1, SameCarries
    <2> QED
      BY <1>1, <1>2, <2>1, <2>2, PhaseStays
  <1>7. ASSUME NEW d \in Clients, ~skipped PROVE Informed(d)'
    <2>1. CASE cpc[d] = "off"
      BY <1>1, <2>1, InformedIdle
    <2>2. CASE cpc[d] # "off"
      <3>1. Told(d)' <=> Told(d)
        BY <1>1, <1>2, <1>3, <2>2 DEF Told
      <3>2. Target(d)' = Target(d)
        BY <1>1, <3>1 DEF Target
      <3> QED
        BY <1>1, <1>2, <1>7, <3>2, InformedStays
    <2> QED
      BY <2>1, <2>2
  <1> QED
    BY <1>1, <1>4, <1>5, <1>6, <1>7 DEF Knowing

\* The tuple is written to the client that has approved.
LEMMA SendKeeps ==
  ASSUME RegistryInv, NetInv, NotifySend
  PROVE  Knowing'
  <1> USE DEF clientVars
  <1>1. /\ spc = "approved" /\ c_list' = c_list /\ job' = job /\ curr' = curr + 1
        /\ spc' = "notify" /\ skipped' = skipped /\ run' = run /\ list' = list
        /\ backlog' = backlog /\ cpc' = cpc /\ reply' = reply
    BY DEF NotifySend
  <1>2. /\ Knowing /\ Job /\ AtNode /\ Approved /\ Busy
        /\ \A d \in Clients : Noticed(d) /\ Phase(d) /\ (~skipped => Informed(d))
        /\ LastNode \in Int /\ LastNode <= Len(c_list)
    BY <1>1, RoundFacts
  <1>3. /\ curr \in Nat /\ Len(c_list) \in Nat /\ c_list \in Seq(Clients)
        /\ news \in [Clients -> Seq(Clients)] /\ list \in [Clients -> Seq(Clients)]
        /\ job.client \in Clients
    BY NetFacts
  <1>4. curr \in 1 .. Len(c_list) /\ curr <= LastNode
    BY <1>1, <1>2, <1>3 DEF AtNode
  <1>5. PICK c \in Clients : c = c_list[curr]
    BY <1>3, <1>4
  <1>6. /\ cpc[c] \in Expecting => news' = [news EXCEPT ![c] = <<job.client>>]
        /\ cpc[c] \notin Expecting => news' = news
    BY <1>5 DEF NotifySend, Expecting
  <1>7. Job' /\ AtNode' /\ Approved'
    BY <1>1, <1>2, <1>3 DEF Job, AtNode, Approved, Busy
  <1>8. ASSUME NEW d \in Clients PROVE Phase(d)'
    <2>1. Serving(d)' <=> Serving(d)
      BY <1>1 DEF Serving, Busy
    <2>2. CarriesOver(d)
      BY <1>1, SameCarries
    <2> QED
      BY <1>1, <1>2, <2>1, <2>2, PhaseStays
  <1>9. ASSUME NEW d \in Clients, d # c PROVE Noticed(d)' /\ (~skipped' => Informed(d)')
    <2>1. news'[d] = news[d]
      BY <1>3, <1>6, <1>9
    <2>2. ~(cpc[d] \in Expecting /\ news[d] = NoNews)
      BY <1>2, <1>5, <1>9 DEF Noticed
    <2>3. Noticed(d)'
      BY <1>1, <1>2, <2>1, <2>2 DEF Noticed
    <2>4. Told(d)' <=> Told(d)
      <3>1. ASSUME NEW n \in 1 .. curr, c_list[n] = d PROVE n \in 1 .. curr - 1
        BY <1>3, <1>5, <1>9, <3>1
      <3>2. curr' - 1 = curr /\ 1 .. curr - 1 \subseteq 1 .. curr
        BY <1>1, <1>3
      <3> QED
        BY <1>1, <3>1, <3>2 DEF Told
    <2>5. Target(d)' = Target(d)
      BY <1>1, <2>4 DEF Target
    <2> QED
      BY <1>1, <1>2, <2>1, <2>3, <2>5, InformedStays
  <1>10. CASE cpc[c] \in Expecting
    <2>1. news[c] = NoNews
      BY <1>1, <1>2, <1>5, <1>10 DEF Approved, Expecting
    <2>2. news'[c] = <<job.client>> /\ news'[c] # NoNews /\ news'[c][1] = job.client
      <3>1. news'[c] = <<job.client>>
        BY <1>3, <1>6, <1>10
      <3> QED
        BY <3>1 DEF NoNews
    <2>3. Noticed(c)'
      BY <1>1, <1>10, <2>2 DEF Noticed
    <2>4. cpc[c] = "expect_on" <=> job.op = "LOG_ON"
      BY <1>2, <1>10, <2>1 DEF Noticed
    <2>5. ~Told(c)
      <3>1. \A n \in 1 .. curr - 1 : c_list[n] # c_list[curr]
        BY <1>3, <1>4 DEF RegistryInv, NoDuplicates
      <3> QED
        BY <1>1, <1>5, <3>1 DEF Told
    <2>6. Told(c)'
      <3>1. curr \in 1 .. curr' - 1 /\ curr <= Len(c_list')
        BY <1>1, <1>3, <1>4
      <3> QED
        BY <1>1, <1>5, <3>1 DEF Told
    <2>7. Target(c)' = Members(c_list) \ {c}
      BY <1>1, <2>6 DEF Target
    <2>8. c \in Members(c_list)
      BY <1>4, <1>5 DEF Members
    <2>9. ASSUME ~skipped PROVE Informed(c)'
      <3>1. Exactly(list[c], Target(c))
        BY <1>2, <1>10, <2>1, <2>9 DEF Informed
      <3>2. list[c] \in Seq(Clients)
        BY <1>3
      <3>3. CASE job.op = "LOG_ON"
        <4>1. Target(c) = Members(c_list) \ {c, job.client}
          BY <2>5, <3>3 DEF Target
        <4>2. curr # Len(c_list) /\ Len(c_list) \in 1 .. Len(c_list)
          BY <1>3, <1>4, <3>3 DEF LastNode
        <4>3. c_list[Len(c_list)] = job.client
          BY <1>2, <3>3 DEF Job
        <4>4. job.client # c /\ job.client \in Members(c_list)
          BY <1>4, <1>5, <4>2, <4>3 DEF RegistryInv, NoDuplicates, Members
        <4>5. (Members(c_list) \ {c, job.client}) \cup {job.client} = Members(c_list) \ {c}
          BY <4>4
        <4>6. Exactly(client_list_add(list[c], job.client), Target(c) \cup {job.client})
          BY <1>3, <3>1, <3>2, <4>1, AddExact
        <4>7. Exactly(client_list_add(list'[c], news'[c][1]), Target(c)')
          BY <1>1, <2>2, <2>7, <4>1, <4>5, <4>6
        <4>8. cpc'[c] = "expect_on"
          BY <1>1, <2>4, <3>3
        <4> QED
          BY <2>2, <4>7, <4>8 DEF Informed, Expecting
      <3>4. CASE job.op # "LOG_ON"
        <4>1. Target(c) = (Members(c_list) \cup {job.client}) \ {c}
          BY <2>5, <3>4 DEF Target
        <4>2. job.client \notin Members(c_list)
          BY <1>2, <3>4 DEF Job
        <4>3. job.client \in Target(c) /\ Target(c) \ {job.client} = Members(c_list) \ {c}
          BY <2>8, <4>1, <4>2
        <4>4. Exactly(delete_from_client_list(list[c], job.client), Target(c) \ {job.client})
          BY <1>3, <3>1, <3>2, <4>3, DeleteExact
        <4>5. Exactly(delete_from_client_list(list'[c], news'[c][1]), Target(c)')
          BY <1>1, <2>2, <2>7, <4>3, <4>4
        <4>6. cpc'[c] = "expect_off"
          BY <1>1, <1>10, <2>4, <3>4 DEF Expecting
        <4> QED
          BY <2>2, <4>5, <4>6 DEF Informed, Expecting
      <3> QED
        BY <3>3, <3>4
    <2> QED
      BY <1>1, <1>7, <1>8, <1>9, <2>3, <2>9 DEF Knowing
  <1>11. CASE cpc[c] \notin Expecting
    <2>1. cpc[c] \in {"off", "logon", "leaving", "logoff"}
      BY <1>1, <1>2, <1>5, <1>11 DEF Approved
    <2>2. Informed(c)'
      BY <1>1, <2>1, InformedIdle
    <2>3. Noticed(c)'
      BY <1>1, <1>2, <1>6, <1>11 DEF Noticed
    <2> QED
      BY <1>1, <1>7, <1>8, <1>9, <2>2, <2>3 DEF Knowing
  <1> QED
    BY <1>10, <1>11

\* The round is over, or is broken off.
LEMMA FinishKeeps ==
  ASSUME RegistryInv, NetInv, NotifyDone \/ NotifyAborts
  PROVE  Knowing'
  <1> USE DEF clientVars
  <1>1. /\ spc \in {"notify", "lost"} /\ spc' = "accept" /\ c_list' = c_list /\ job' = job
        /\ curr' = curr /\ run' = run /\ list' = list /\ backlog' = backlog /\ cpc' = cpc
        /\ news' = news
        /\ job.op = "LOG_ON" => Send(job.client, job.run, Msg("tuple"))
        /\ job.op # "LOG_ON" => reply' = reply
        /\ \/ skipped' = TRUE
           \/ skipped' = skipped /\ curr > LastNode
    BY DEF NotifyDone, NotifyAborts, Finish
  <1>2. /\ Knowing /\ Job /\ AtNode /\ Busy
        /\ \A d \in Clients : Noticed(d) /\ Phase(d) /\ (~skipped => Informed(d))
        /\ \A d \in Clients : ~(cpc[d] \in Expecting /\ news[d] = NoNews)
        /\ LastNode \in Int /\ LastNode <= Len(c_list)
    BY <1>1, RoundFacts
  <1>3. /\ curr \in Nat /\ Len(c_list) \in Nat /\ c_list \in Seq(Clients)
        /\ reply \in [Clients -> Replies] /\ job.client \in Clients
    BY NetFacts
  <1>4. Job' /\ AtNode' /\ Approved'
    BY <1>1, <1>2 DEF Job, AtNode, Approved, Busy
  <1>5. \A d \in Clients : Noticed(d)'
    BY <1>1, <1>2, NoticedAside
  <1>6. \A d \in Clients : ~Serving(d)' /\ CarriesOver(d)
    BY <1>1, SameCarries DEF Serving, Busy
  <1>7. ASSUME NEW d \in Clients, Serving(d), cpc[d] # "off"
        PROVE  Phase(d)' /\ Informed(d)'
    <2>1. cpc[d] = "logon" /\ reply[d].kind = "none" /\ Alone(d)
      BY <1>2, <1>7 DEF Phase
    <2>2. reply'[d] = Msg("tuple") /\ Msg("tuple").kind = "tuple"
      BY <1>1, <1>3, <1>7, SendReaches DEF Serving, Msg
    <2>3. Alone(d)'
      BY <1>6, <2>1 DEF CarriesOver
    <2>4. Phase(d)'
      BY <1>1, <1>6, <2>1, <2>2, <2>3 DEF Phase
    <2> QED
      BY <1>1, <2>1, <2>4, InformedIdle
  <1>8. ASSUME NEW d \in Clients, ~Serving(d) \/ cpc[d] = "off"
        PROVE  reply'[d] = reply[d] /\ Phase(d)'
    <2>1. reply'[d] = reply[d]
      BY <1>1, <1>2, <1>3, <1>8, SendReaches DEF Serving
    <2>2. CASE ~Serving(d)
      BY <1>1, <1>2, <1>6, <2>1, <2>2, PhaseStays
    <2>3. CASE cpc[d] = "off"
      BY <1>1, <1>2, <2>1, <2>3 DEF Phase
    <2> QED
      BY <1>8, <2>1, <2>2, <2>3
  <1>9. ASSUME NEW d \in Clients, ~skipped', ~Serving(d) \/ cpc[d] = "off"
        PROVE  Informed(d)'
    <2>1. CASE cpc[d] \in {"off", "logon", "leaving", "logoff"}
      BY <1>1, <2>1, InformedIdle
    <2>2. CASE cpc[d] \notin {"off", "logon", "leaving", "logoff"}
      <3>1. d \in Members(c_list)
        <4>1. cpc[d] \in {"clients", "listen", "expect_on", "expect_off"}
          BY <2>2, NetFacts DEF ClientPlaces
        <4>2. Alone(d) \/ Asking(d)
          BY <1>2, <4>1 DEF Phase
        <4> QED
          BY <4>2 DEF Alone, Asking
      <3>2. PICK n \in 1 .. Len(c_list) : c_list[n] = d
        BY <3>1 DEF Members
      <3>3. Target(d)' = Members(c_list) \ {d}
        BY <1>1 DEF Target, Told
      <3>4. Target(d) = Members(c_list) \ {d}
        <4>1. CASE Told(d)
          BY <4>1 DEF Target
        <4>2. CASE ~Told(d)
          <5>1. n > LastNode
            BY <1>1, <1>2, <1>3, <1>9, <3>2, <4>2 DEF Told
          <5>2. job.op = "LOG_ON" /\ n = Len(c_list)
            BY <1>3, <3>2, <5>1 DEF LastNode
          <5>3. job.client = d
            BY <1>2, <3>2, <5>2 DEF Job
          <5> QED
            BY <4>2, <5>2, <5>3 DEF Target
        <4> QED
          BY <4>1, <4>2
      <3>5. ~skipped /\ Informed(d)
        BY <1>1, <1>2, <1>9
      <3> QED
        BY <1>1, <1>8, <1>9, <3>3, <3>4, <3>5, InformedStays
    <2> QED
      BY <2>1, <2>2
  <1> QED
    BY <1>4, <1>5, <1>7, <1>8, <1>9 DEF Knowing

\* Steps of the server that only wait.
LEMMA WaitKeeps ==
  ASSUME RegistryInv, NetInv, spc # "exited", NotifySpins \/ ServerSigInt \/ UNCHANGED vars
  PROVE  Knowing'
  <1> USE DEF clientVars, serverVars, vars
  <1>1. /\ c_list' = c_list /\ job' = job /\ curr' = curr /\ run' = run /\ list' = list
        /\ backlog' = backlog /\ cpc' = cpc /\ news' = news /\ reply' = reply
        /\ skipped' = skipped
        /\ spc' = spc \/ (spc = "lost" /\ spc' = "spinning")
    BY DEF NotifySpins, ServerSigInt
  <1>2. Knowing
    BY DEF NetInv
  <1>3. Job' /\ AtNode' /\ Approved'
    BY <1>1, <1>2 DEF Knowing, Job, AtNode, Approved, Busy, LastNode
  <1>4. ASSUME NEW d \in Clients PROVE Phase(d)' /\ Noticed(d)' /\ (~skipped' => Informed(d)')
    <2>1. (Serving(d)' <=> Serving(d)) /\ Target(d)' = Target(d)
      BY <1>1 DEF Serving, Busy, Target, Told
    <2>2. CarriesOver(d)
      BY <1>1, SameCarries
    <2>3. Phase(d)'
      BY <1>1, <1>2, <2>1, <2>2, PhaseStays DEF Knowing
    <2>4. Noticed(d)'
      BY <1>1, <1>2 DEF Knowing, Noticed
    <2> QED
      BY <1>1, <1>2, <2>1, <2>3, <2>4, InformedStays DEF Knowing
  <1> QED
    BY <1>3, <1>4 DEF Knowing

--------------------------------------------------------------------------------
(* The clients' steps. *)

\* What a step of one client leaves alone: the registry and all other clients.
\* The server's place changes at most where it hears that c has gone.
Apart(c) ==
    /\ c_list' = c_list /\ job' = job /\ curr' = curr /\ skipped' = skipped
    /\ \A d \in Clients \ {c} : /\ cpc'[d] = cpc[d] /\ reply'[d] = reply[d] /\ news'[d] = news[d]
                                /\ list'[d] = list[d] /\ run'[d] = run[d]
    /\ \/ spc' = spc
       \/ spc = "approval" /\ spc' \in {"lost", "approved"} /\ c_list[curr] = c

\* Everything but what concerns c itself.
LEMMA OthersStay ==
  ASSUME RegistryInv, NetInv, spc # "exited", NEW c \in Clients, Apart(c),
         \A d \in Clients \ {c} : CarriesOver(d),
         spc' = "approved" /\ c_list[curr] = c =>
            \/ cpc'[c] \in {"off", "leaving", "logoff"}
            \/ cpc'[c] = "logon" /\ reply'[c].kind # "tuple"
            \/ cpc'[c] \in Expecting /\ news'[c] = NoNews,
         Phase(c)', Noticed(c)', ~skipped => Informed(c)'
  PROVE  Knowing'
  <1>1. Knowing
    BY DEF NetInv
  <1>2. (Busy' <=> Busy) /\ (spc' = "accept" <=> spc = "accept")
    BY DEF Apart, Busy
  <1>3. Job'
    BY <1>1, <1>2 DEF Apart, Job, Knowing
  <1>4. AtNode'
    BY <1>1 DEF Apart, AtNode, LastNode, Knowing
  <1>5. Approved'
    <2> SUFFICES ASSUME spc' = "approved", c_list[curr] # c PROVE Approved'
      BY DEF Apart, Approved
    <2>1. spc = "approved"
      BY DEF Apart
    <2>2. c_list[curr] \in Clients \ {c}
      <3>1. curr \in Nat /\ curr >= 1 /\ curr <= LastNode /\ Len(c_list) \in Nat
        BY <1>1, <2>1, NetFacts DEF Knowing, AtNode
      <3>2. curr \in 1 .. Len(c_list)
        BY <3>1 DEF LastNode
      <3> QED
        BY <3>2, NetFacts
    <2> QED
      BY <1>1, <2>1, <2>2 DEF Apart, Approved, Knowing
  <1>6. ASSUME NEW d \in Clients \ {c} PROVE Phase(d)' /\ Noticed(d)' /\ (~skipped => Informed(d)')
    <2>1. (Serving(d)' <=> Serving(d)) /\ Target(d)' = Target(d)
      BY <1>2 DEF Apart, Serving, Target, Told
    <2>2. Phase(d)'
      BY <1>1, <2>1, PhaseStays DEF Apart, Knowing
    <2>3. Noticed(d)'
      BY <1>1 DEF Apart, Knowing, Noticed
    <2>4. ~skipped => Informed(d)'
      BY <1>1, <2>1, InformedStays DEF Apart, Knowing
    <2> QED
      BY <2>2, <2>3, <2>4
  <1> QED
    BY <1>3, <1>4, <1>5, <1>6 DEF Knowing, Apart

\* The facts a client's step starts from.
LEMMA ClientFacts ==
  ASSUME RegistryInv, NetInv, spc # "exited", NEW c \in Clients
  PROVE  /\ Knowing /\ Phase(c) /\ Noticed(c) /\ (~skipped => Informed(c))
         /\ Job /\ Approved
         /\ cpc \in [Clients -> ClientPlaces] /\ reply \in [Clients -> Replies]
         /\ news \in [Clients -> Seq(Clients)] /\ list \in [Clients -> Seq(Clients)]
         /\ run \in [Clients -> Nat] /\ backlog \in Seq(Requests)
  BY NetFacts DEF NetInv, Knowing

\* The process ends.
LEMMA ExitKeeps ==
  ASSUME RegistryInv, NetInv, spc # "exited", NEW c \in Clients, Exit(c)
  PROVE  Knowing'
  <1> USE DEF serverVars
  <1>0. /\ cpc \in [Clients -> ClientPlaces] /\ reply \in [Clients -> Replies]
        /\ news \in [Clients -> Seq(Clients)] /\ list \in [Clients -> Seq(Clients)]
    BY ClientFacts
  <1>1. /\ cpc'[c] = "off" /\ reply'[c] = NoReply /\ news'[c] = NoNews
        /\ backlog' = backlog /\ c_list' = c_list /\ run' = run
    BY <1>0 DEF Exit, ClientGoes
  <1>2. Apart(c)
    BY <1>0 DEF Exit, ClientGoes, WaitsFor, Apart
  <1>3. \A d \in Clients : CarriesOver(d)
    BY <1>1, SameCarries
  <1>4. Phase(c)' /\ Noticed(c)'
    BY <1>1 DEF Phase, Noticed, NoReply, Expecting
  <1>5. Informed(c)'
    BY <1>1, InformedIdle
  <1> QED
    BY <1>1, <1>2, <1>3, <1>4, <1>5, OthersStay

\* The client is started, and may die at once.
LEMMA StartKeeps ==
  ASSUME RegistryInv, NetInv, spc # "exited", NEW c \in Clients, Start(c) \/ StartDies(c)
  PROVE  Knowing'
  <1> USE DEF serverVars
  <1>0. /\ cpc \in [Clients -> ClientPlaces] /\ reply \in [Clients -> Replies]
        /\ news \in [Clients -> Seq(Clients)] /\ list \in [Clients -> Seq(Clients)]
        /\ run \in [Clients -> Nat] /\ backlog \in Seq(Requests)
        /\ Phase(c) /\ Noticed(c)
    BY ClientFacts
  <1>1. /\ cpc[c] = "off" /\ run' = [run EXCEPT ![c] = starts + 1]
        /\ UNCHANGED <<serverVars, spc, reply, news, list>>
        /\ cpc' = [cpc EXCEPT ![c] = "logon"] \/ cpc' = cpc
    BY DEF Start, StartDies, ClientGoes
  <1>2. PICK op \in Ops : /\ Request(c, op)
                          /\ \/ cpc' = [cpc EXCEPT ![c] = "logon"] /\ op = "LOG_ON"
                             \/ cpc' = cpc
    BY DEF Start, StartDies, Ops, ClientGoes
  <1>3. starts \in Nat /\ run' \in [Clients -> Nat] /\ run'[c] = starts + 1
    BY <1>0, <1>1, NetFacts
  <1>4. PICK r : r = [op |-> op, client |-> c, run |-> run'[c]]
    OBVIOUS
  <1>5. /\ r \in Requests /\ backlog' = Append(backlog, r) /\ r.client = c
        /\ Len(backlog) \in Nat /\ Len(backlog') = Len(backlog) + 1
        /\ backlog'[Len(backlog) + 1] = r
        /\ \A i \in 1 .. Len(backlog) : backlog'[i] = backlog[i]
        /\ \A i \in 1 .. Len(backlog') : i \in 1 .. Len(backlog) \/ i = Len(backlog) + 1
    BY <1>0, <1>2, <1>3, <1>4, RequestFacts
  <1>6. ASSUME NEW d \in Clients \ {c} PROVE CarriesOver(d)
    <2>1. run'[d] = run[d]
      BY <1>0, <1>1
    <2> QED
      BY <1>0, <1>1, <1>5, <2>1, AppendCarries
  <1>7. Apart(c)
    BY <1>0, <1>1 DEF Apart
  <1>8. reply'[c].kind = "none" /\ news'[c] = NoNews
    BY <1>0, <1>1 DEF Phase, Noticed, Expecting
  <1>9. cpc'[c] \in {"off", "logon"}
    BY <1>0, <1>1
  <1>10. ~Serving(c)'
    <2>1. job.run \in Nat /\ job.run <= starts /\ job' = job
      BY <1>1, NetFacts DEF NetInv, RunsBelow, Requests
    <2>2. job'.run # run'[c]
      BY <1>3, <2>1
    <2> QED
      BY <2>2 DEF Serving
  <1>11. cpc'[c] = "logon" => Pending(c)'
    <2> SUFFICES ASSUME cpc'[c] = "logon" PROVE Pending(c)'
      OBVIOUS
    <2>1. op = "LOG_ON"
      BY <1>1, <1>2
    <2>2. ASSUME NEW j \in 1 .. Len(backlog'), j # Len(backlog) + 1
          PROVE  j < Len(backlog) + 1 /\ backlog'[j].run # run'[c]
      <3>1. j \in 1 .. Len(backlog)
        BY <1>5, <2>2
      <3>2. backlog[j] \in Requests /\ backlog[j].run <= starts
        BY <1>0, <3>1 DEF NetInv, RunsBelow
      <3>3. backlog[j].run \in Nat
        BY <3>2 DEF Requests
      <3> QED
        BY <1>3, <1>5, <3>1, <3>2, <3>3
    <2>3. Len(backlog) + 1 \in 1 .. Len(backlog')
      BY <1>5
    <2> QED
      BY <1>4, <1>5, <2>1, <2>2, <2>3 DEF Pending
  <1>12. Phase(c)'
    BY <1>8, <1>9, <1>10, <1>11 DEF Phase
  <1>13. Noticed(c)' /\ Informed(c)'
    BY <1>8, <1>9, InformedIdle DEF Noticed, Expecting
  <1> QED
    BY <1>6, <1>7, <1>8, <1>9, <1>12, <1>13, OthersStay

\* The client asks for the list, or logs off.
LEMMA RequestKeeps ==
  ASSUME RegistryInv, NetInv, spc # "exited", NEW c \in Clients, LoggedOn(c) \/ SendLogOff(c)
  PROVE  Knowing'
  <1> USE DEF serverVars, clientVars
  <1>0. /\ cpc \in [Clients -> ClientPlaces] /\ reply \in [Clients -> Replies]
        /\ news \in [Clients -> Seq(Clients)] /\ list \in [Clients -> Seq(Clients)]
        /\ run \in [Clients -> Nat] /\ backlog \in Seq(Requests)
        /\ Phase(c) /\ Noticed(c) /\ Approved
    BY ClientFacts
  <1>1. /\ UNCHANGED <<serverVars, clientVars, spc, news>>
        /\ \/ /\ cpc[c] = "logon" /\ reply[c].kind = "tuple" /\ Request(c, "GET_CLIENTS")
              /\ cpc' = [cpc EXCEPT ![c] = "clients"]
              /\ reply' = [reply EXCEPT ![c] = NoReply]
           \/ /\ cpc[c] = "leaving" /\ Request(c, "LOG_OFF")
              /\ cpc' = [cpc EXCEPT ![c] = "logoff"] /\ reply' = reply
    BY DEF LoggedOn, SendLogOff, ClientGoes
  <1>2. PICK op \in Ops : /\ Request(c, op)
                          /\ cpc[c] = "logon" => op = "GET_CLIENTS"
                          /\ cpc[c] = "leaving" => op = "LOG_OFF"
    BY <1>1 DEF Ops
  <1>3. PICK r : r = [op |-> op, client |-> c, run |-> run[c]]
    OBVIOUS
  <1>4. /\ r \in Requests /\ backlog' = Append(backlog, r) /\ r.client = c
        /\ Len(backlog) \in Nat /\ Len(backlog') = Len(backlog) + 1
        /\ backlog'[Len(backlog) + 1] = r
        /\ \A i \in 1 .. Len(backlog) : backlog'[i] = backlog[i]
        /\ \A i \in 1 .. Len(backlog') : i \in 1 .. Len(backlog) \/ i = Len(backlog) + 1
    BY <1>0, <1>1, <1>2, <1>3, RequestFacts
  <1>5. \A d \in Clients \ {c} : CarriesOver(d)
    BY <1>0, <1>1, <1>4, AppendCarries
  <1>6. Apart(c)
    BY <1>0, <1>1 DEF Apart
  <1>7. Alone(c) /\ ~Serving(c) /\ news[c] = NoNews
    BY <1>0, <1>1 DEF Phase, Noticed, Expecting
  <1>8. /\ ~Serving(c)' /\ news'[c] = NoNews /\ run'[c] = run[c] /\ c \in Members(c_list')
        /\ Len(backlog) + 1 \in 1 .. Len(backlog')
        /\ \A j \in 1 .. Len(backlog') : j # Len(backlog) + 1 => backlog'[j].client # c
    BY <1>1, <1>4, <1>7 DEF Serving, Busy, Alone
  <1>9. CASE cpc[c] = "logon"
    <2>1. reply[c].kind = "tuple" /\ cpc'[c] = "clients" /\ reply'[c].kind = "none"
      BY <1>0, <1>1, <1>9 DEF NoReply
    <2>2. r = [op |-> "GET_CLIENTS", client |-> c, run |-> run'[c]]
      BY <1>2, <1>3, <1>8, <1>9
    <2>3. Asking(c)'
      BY <1>4, <1>8, <2>2 DEF Asking
    <2>4. Phase(c)' /\ Noticed(c)' /\ Informed(c)'
      BY <1>8, <2>1, <2>3 DEF Phase, Noticed, Informed, Expecting
    <2>5. ~(spc' = "approved" /\ c_list[curr] = c)
      BY <1>0, <1>1, <1>9, <2>1 DEF Approved, Expecting
    <2> QED
      BY <1>5, <1>6, <2>4, <2>5, OthersStay
  <1>10. CASE cpc[c] = "leaving"
    <2>1. cpc'[c] = "logoff"
      BY <1>0, <1>1, <1>10
    <2>2. r.op = "LOG_OFF" /\ r.run = run'[c]
      BY <1>2, <1>3, <1>8, <1>10
    <2>3. Parting(c)'
      BY <1>4, <1>8, <2>2 DEF Parting
    <2>4. Phase(c)' /\ Noticed(c)' /\ Informed(c)'
      BY <1>8, <2>1, <2>3 DEF Phase, Noticed, Informed, Expecting
    <2> QED
      BY <1>5, <1>6, <2>1, <2>4, OthersStay
  <1> QED
    BY <1>1, <1>9, <1>10

\* The client has its list, approves of a notification, reads its tuple, or is
\* about to leave.
LEMMA ListenKeeps ==
  ASSUME RegistryInv, NetInv, spc # "exited", NEW c \in Clients,
         GotClients(c) \/ Approve(c) \/ ReadTuple(c) \/ SigIntListen(c)
  PROVE  Knowing'
  <1> USE DEF serverVars, clientVars
  <1>0. /\ cpc \in [Clients -> ClientPlaces] /\ reply \in [Clients -> Replies]
        /\ news \in [Clients -> Seq(Clients)] /\ list \in [Clients -> Seq(Clients)]
        /\ Phase(c) /\ Noticed(c) /\ Approved /\ Job /\ (~skipped => Informed(c))
    BY ClientFacts
  <1>1. UNCHANGED <<serverVars, starts, run, backlog>>
    BY DEF GotClients, Approve, ReadTuple, SigIntListen
  <1>2. \A d \in Clients : CarriesOver(d)
    BY <1>1, SameCarries
  <1>3. Apart(c)
    BY <1>0, <1>1 DEF GotClients, Approve, ReadTuple, SigIntListen, Apart, ClientGoes, WaitsFor
  <1>4. Alone(c) /\ ~Serving(c)
    BY <1>0 DEF GotClients, Approve, ReadTuple, SigIntListen, Phase, Noticed, Expecting
  <1>5. Alone(c)' /\ ~Serving(c)'
    BY <1>1, <1>2, <1>3, <1>4 DEF CarriesOver, Serving, Busy, Apart
  <1>6. Target(c)' = Target(c)
    BY <1>3 DEF Apart, Target, Told
  <1>7. CASE GotClients(c)
    <2>1. /\ cpc[c] = "clients" /\ reply[c].kind = "list" /\ cpc'[c] = "listen"
          /\ reply'[c].kind = "none" /\ news'[c] = news[c] /\ spc' = spc
          /\ list'[c] = Others(c, SubSeq(reply[c].tuples, 1, reply[c].n))
      BY <1>0, <1>7 DEF GotClients, ClientGoes, NoReply
    <2>2. news[c] = NoNews
      BY <1>0, <2>1 DEF Noticed, Expecting
    <2>3. Phase(c)' /\ Noticed(c)'
      BY <1>5, <2>1, <2>2 DEF Phase, Noticed, Expecting
    <2>4. ASSUME ~skipped PROVE Informed(c)'
      <3>1. reply[c].n = Len(reply[c].tuples) /\ Exactly(Others(c, reply[c].tuples), Target(c))
        BY <1>0, <2>1, <2>4 DEF Informed
      <3>2. reply[c].tuples \in Seq(Clients)
        BY <1>0 DEF Replies
      <3>3. SubSeq(reply[c].tuples, 1, reply[c].n) = reply[c].tuples
        BY <3>1, <3>2
      <3> QED
        BY <1>6, <2>1, <3>1, <3>3 DEF Informed, Expecting
    <2>5. ~(spc' = "approved" /\ c_list[curr] = c)
      BY <1>0, <2>1 DEF Approved, Expecting
    <2> QED
      BY <1>2, <1>3, <2>3, <2>4, <2>5, OthersStay
  <1>8. CASE Approve(c)
    <2>1. /\ cpc[c] = "listen" /\ spc = "approval" /\ c_list[curr] = c /\ spc' = "approved"
          /\ cpc'[c] = IF job.op = "LOG_ON" THEN "expect_on" ELSE "expect_off"
          /\ reply'[c] = reply[c] /\ news'[c] = news[c] /\ list'[c] = list[c]
      BY <1>0, <1>8 DEF Approve, ClientGoes, WaitsFor
    <2>2. news[c] = NoNews /\ reply[c].kind = "none"
      BY <1>0, <2>1 DEF Noticed, Phase, Expecting
    <2>3. Phase(c)' /\ Noticed(c)'
      BY <1>1, <1>5, <2>1, <2>2 DEF Phase, Noticed, Expecting
    <2>4. ~skipped => Informed(c)'
      BY <1>0, <1>6, <2>1, <2>2 DEF Informed, Expecting
    <2>5. cpc'[c] \in Expecting /\ news'[c] = NoNews
      BY <2>1, <2>2 DEF Expecting
    <2> QED
      BY <1>2, <1>3, <2>3, <2>4, <2>5, OthersStay
  <1>9. CASE ReadTuple(c)
    <2>1. /\ news[c] # NoNews /\ cpc'[c] = "listen" /\ news'[c] = NoNews
          /\ reply'[c] = reply[c] /\ spc' = spc
          /\ list'[c] = IF cpc[c] = "expect_on" THEN client_list_add(list[c], news[c][1])
                        ELSE delete_from_client_list(list[c], news[c][1])
      BY <1>0, <1>9 DEF ReadTuple, ClientGoes
    <2>2. cpc[c] \in Expecting /\ reply[c].kind = "none"
      BY <1>0, <2>1 DEF Noticed, Phase, Expecting
    <2>3. Phase(c)' /\ Noticed(c)'
      BY <1>5, <2>1, <2>2 DEF Phase, Noticed, Expecting
    <2>4. ASSUME ~skipped PROVE Informed(c)'
      <3>1. Exactly(list'[c], Target(c))
        BY <1>0, <2>1, <2>2, <2>4 DEF Informed, Expecting
      <3> QED
        BY <1>6, <2>1, <3>1 DEF Informed, Expecting
    <2>5. ~(spc' = "approved" /\ c_list[curr] = c)
      BY <1>0, <2>1, <2>2 DEF Approved, Expecting
    <2> QED
      BY <1>2, <1>3, <2>3, <2>4, <2>5, OthersStay
  <1>10. CASE SigIntListen(c)
    <2>1. /\ cpc[c] \in {"listen", "expect_on"} /\ cpc'[c] = "leaving" /\ news'[c] = NoNews
          /\ reply'[c] = reply[c]
      BY <1>0, <1>10 DEF SigIntListen, ClientGoes
    <2>2. Phase(c)' /\ Noticed(c)' /\ Informed(c)'
      BY <1>0, <1>5, <2>1, InformedIdle DEF Phase, Noticed, Expecting
    <2> QED
      BY <1>2, <1>3, <2>1, <2>2, OthersStay
  <1> QED
    BY <1>7, <1>8, <1>9, <1>10

--------------------------------------------------------------------------------
(* The theorems. *)

\* NetInv holds at the start.
LEMMA NetInit ==
  ASSUME Init
  PROVE  NetInv
  <1>1. NetTypes
    <2>1. NoReply \in Replies /\ <<>> \in Seq(Clients)
      BY RepliesTyped
    <2>2. 0 \in 0 .. MaxStarts
      BY NetAssumption
    <2>3. cpc \in [Clients -> ClientPlaces] /\ reply \in [Clients -> Replies]
      BY <2>1 DEF Init, ClientPlaces
    <2>4. news \in [Clients -> Seq(Clients)] /\ list \in [Clients -> Seq(Clients)]
      BY <2>1 DEF Init, NoNews
    <2> QED
      BY <2>2, <2>3, <2>4 DEF Init, NetTypes, ServerPlaces
  <1>2. RunsBelow
    BY DEF Init, RunsBelow
  <1>3. Job /\ AtNode /\ Approved
    BY DEF Init, Job, AtNode, Approved, Busy
  <1>4. \A c \in Clients : Phase(c) /\ Noticed(c) /\ Informed(c)
    BY DEF Init, Phase, Noticed, Informed, Serving, Busy, NoReply, NoNews, Expecting
  <1> QED
    BY <1>1, <1>2, <1>3, <1>4 DEF NetInv, Knowing

\* Once the server has exited it stays so; a step of a running server or of a
\* client, as long as the server runs, leaves everybody knowing.
LEMMA NetStep ==
  ASSUME RegistryInv, NetInv, [Next]_vars
  PROVE  NetInv'
  <1> USE DEF serverVars, clientVars
  <1>1. CASE UNCHANGED vars
    <2>1. NetTypes' /\ RunsBelow'
      BY <1>1 DEF NetInv, NetTypes, RunsBelow, vars
    <2>2. spc' # "exited" => Knowing'
      BY <1>1, WaitKeeps DEF vars
    <2> QED
      BY <2>1, <2>2 DEF NetInv
  <1>2. CASE ServerStep \/ ServerSigInt
    <2>1. NetTypes' /\ RunsBelow'
      BY <1>2, ServerTypes
    <2>2. ASSUME spc' # "exited" PROVE Knowing'
      <3>1. spc # "exited"
        BY <1>2, <2>2 DEF ServerStep, ServerSigInt, AcceptLogOn, AcceptGetClients, AcceptLogOff,
              AcceptNothing, AcceptHalf, NotifyConnect, NotifySend, NotifyDone, NotifyAborts,
              NotifySpins, ServerExits, Ready
      <3>2. ~AcceptHalf /\ ~ServerExits
        BY <2>2 DEF AcceptHalf, ServerExits
      <3> QED
        BY <1>2, <3>1, <3>2, LogOnKeeps, LogOffKeeps, QueryKeeps, ConnectKeeps, SendKeeps,
           FinishKeeps, WaitKeeps DEF ServerStep
    <2> QED
      BY <2>1, <2>2 DEF NetInv
  <1>3. ASSUME NEW c \in Clients, ClientStep(c) \/ ClientInput(c) PROVE NetInv'
    <2>1. NetTypes' /\ RunsBelow'
      BY <1>3, ClientTypes
    <2>2. ASSUME spc' # "exited" PROVE Knowing'
      <3>1. spc # "exited"
        BY <1>3, <2>2 DEF ClientStep, ClientInput, LoggedOn, GotClients, Rejected, Approve,
              ReadTuple, SendLogOff, LoggedOff, Start, StartDies, SigIntEarly, SigIntListen,
              GiveUp, Crash, Exit, WaitsFor
      <3>2. CASE Rejected(c) \/ SigIntEarly(c) \/ LoggedOff(c) \/ GiveUp(c) \/ Crash(c)
        BY <3>1, <3>2, ExitKeeps DEF Rejected, SigIntEarly, LoggedOff, GiveUp, Crash
      <3> QED
        BY <1>3, <3>1, <3>2, StartKeeps, RequestKeeps, ListenKeeps DEF ClientStep, ClientInput
    <2> QED
      BY <2>1, <2>2 DEF NetInv
  <1> QED
    BY <1>1, <1>2, <1>3 DEF Next

\* What every client knows, by where it and the server are.
THEOREM NetInvariance == Spec => [](RegistryInv /\ NetInv)
  <1>1. Init => NetInv
    BY NetInit
  <1>2. RegistryInv /\ NetInv /\ [Next]_vars => NetInv'
    BY NetStep
  <1> QED
    BY <1>1, <1>2, RegistryInvariance, PTL DEF Spec

\* Every variable of the server and of all clients keeps its type; the number
\* of clients that the server announces is never negative.
THEOREM NetTypesCorrect == Spec => []TypeOK
  <1>1. RegistryInv /\ NetInv => TypeOK
    <2> SUFFICES ASSUME RegistryInv, NetInv PROVE TypeOK
      OBVIOUS
    <2>1. clients_logged_on \in Nat
      <3>1. Len(c_list) \in Nat
        BY NetFacts
      <3>2. LoggingOn => Len(c_list) > 0
        BY DEF NetInv, Knowing, Job, Busy, LoggingOn
      <3> QED
        BY <3>1, <3>2 DEF RegistryInv, CountInv
    <2> QED
      BY <2>1, NetFacts DEF TypeOK, NetInv, NetTypes, ServerPlaces, ClientPlaces
  <1> QED
    BY <1>1, NetInvariance, PTL

\* As long as no round was cut short, the lists of the clients that listen
\* agree with the server's and so with each other, for any number of clients,
\* restarts, crashes and requests of processes long dead.
THEOREM ListsCorrect == Spec => []ListsAgree
  <1>1. RegistryInv /\ NetInv => ListsAgree
    <2> SUFFICES ASSUME RegistryInv, NetInv, ~skipped, Settled PROVE ListsAgree
      BY DEF ListsAgree
    <2>1. spc = "accept" /\ Knowing
      BY DEF Settled, NetInv
    <2>2. ASSUME NEW c \in Clients, cpc[c] = "listen"
          PROVE  Exactly(list[c], Members(c_list) \ {c}) /\ c \in Members(c_list)
      <3>1. Target(c) = Members(c_list) \ {c}
        BY <2>1 DEF Target, Told
      <3> QED
        BY <2>1, <2>2, <3>1 DEF Knowing, Informed, Phase, Alone
    <2>3. KnowEachOther
      <3> SUFFICES ASSUME NEW c \in Clients, NEW d \in Clients, c # d, cpc[c] = "listen",
                          cpc[d] = "listen"
                   PROVE  in_client_list(list[c], d)
        BY DEF KnowEachOther
      <3>1. d \in Members(list[c])
        BY <2>2 DEF Exactly
      <3> QED
        BY <3>1, InList
    <2>4. ASSUME NEW c \in Clients, cpc[c] = "listen"
          PROVE  /\ ~in_client_list(list[c], c)
                 /\ \A n \in 1 .. Len(list[c]) :
                       /\ in_client_list(c_list, list[c][n])
                       /\ \A m \in 1 .. n - 1 : list[c][m] # list[c][n]
      <3>1. Exactly(list[c], Members(c_list) \ {c})
        BY <2>2, <2>4
      <3>2. ~in_client_list(list[c], c)
        BY <3>1, InList DEF Exactly
      <3>3. ASSUME NEW n \in 1 .. Len(list[c]) PROVE in_client_list(c_list, list[c][n])
        <4>1. list[c][n] \in Members(list[c])
          BY DEF Members
        <4> QED
          BY <3>1, <4>1, InList DEF Exactly
      <3>4. ASSUME NEW n \in 1 .. Len(list[c]), NEW m \in 1 .. n - 1
            PROVE  list[c][m] # list[c][n]
        <4>1. list[c] \in Seq(Clients)
          BY NetFacts
        <4>2. m \in 1 .. Len(list[c]) /\ m # n
          BY <4>1
        <4> QED
          BY <3>1, <4>2 DEF Exactly
      <3> QED
        BY <3>2, <3>3, <3>4
    <2> QED
      BY <2>3, <2>4 DEF ListsAgree
  <1> QED
    BY <1>1, NetInvariance, PTL
================================================================================
