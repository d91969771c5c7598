------------------------------ MODULE DropboxNet -------------------------------
(***************************************************************************)
(* The dropbox server (dropbox_server.c) and the main threads of the       *)
(* clients that log on to it and off again (dropbox_client.c): who is      *)
(* registered, who is told about whom, and who waits for whom.             *)
(*                                                                         *)
(* The server is one thread.  It takes one connection at a time off its    *)
(* backlog and, inside LOG_ON and LOG_OFF, connects to the other clients   *)
(* itself.  A client has at most one connection to the server.  A message  *)
(* is in the socket once it is written, whatever becomes of its sender.    *)
(* Workers and file transfers are in WorkerPool.                           *)
(***************************************************************************)
EXTENDS ClientList

CONSTANTS Clients,   \* addresses clients run at
          MaxStarts, \* bound: how often a client is started in all
          Faults     \* clients may crash, also between two writes

ASSUME NetAssumption == Clients # {} /\ MaxStarts \in Nat /\ Faults \in BOOLEAN

VARIABLES c_list,              \* server: the registered clients
          clients_logged_on,   \* server: how many it says there are
          term_flag,           \* server: SIGINT was received
          spc,                 \* server: where it is
          job,                 \* server: the LOG_ON or LOG_OFF it works on
          curr,                \* server: node of c_list to notify next
          skipped,             \* history: a notification round was cut short
          backlog,             \* requests written to the server, in order
          cpc,                 \* where each client's main thread is
          starts,              \* how often a client was started
          run,                 \* which start the client at an address is
          reply,               \* what the server sent to each client
          news,                \* the tuple the server sent in a notification
          list                 \* the client list of each client

serverVars == <<c_list, clients_logged_on, term_flag, job, curr, skipped>>
clientVars == <<starts, run, list>>
vars == <<serverVars, clientVars, spc, backlog, cpc, reply, news>>

NoReply == [kind |-> "none", n |-> 0, tuples |-> <<>>]
Msg(kind) == [kind |-> kind, n |-> 0, tuples |-> <<>>]
NoNews == <<>>

Init ==
    /\ c_list = <<>> /\ clients_logged_on = 0
    /\ term_flag = 0 /\ spc = "accept"
    /\ job = [op |-> "none", client |-> CHOOSE c \in Clients : TRUE, run |-> 0]
    /\ curr = 1 /\ skipped = FALSE
    /\ backlog = <<>>
    /\ cpc = [c \in Clients |-> "off"]
    /\ starts = 0 /\ run = [c \in Clients |-> 0]
    /\ reply = [c \in Clients |-> NoReply]
    /\ news = [c \in Clients |-> NoNews]
    /\ list = [c \in Clients |-> <<>>]

--------------------------------------------------------------------------------
(* The server. *)

\* Does the server wait for the approval of c?
WaitsFor(c) == spc = "approval" /\ c_list[curr] = c

\* A write to the socket of the process that made the request.
Send(c, r, msg) ==
    reply' = IF cpc[c] # "off" /\ run[c] = r
             THEN [reply EXCEPT ![c] = msg] ELSE reply

Ready(op) == /\ spc = "accept" /\ term_flag = 0
             /\ backlog # <<>> /\ Head(backlog).op = op
             /\ backlog' = Tail(backlog)

AcceptLogOn ==
    /\ Ready("LOG_ON")
    /\ LET r == Head(backlog)
       IN  IF in_client_list(c_list, r.client)
           THEN /\ Send(r.client, r.run, Msg("closed"))
                /\ UNCHANGED <<serverVars, spc>>
           ELSE /\ c_list' = client_list_add(c_list, r.client)
                /\ job' = r /\ curr' = 1 /\ spc' = "notify"
                /\ UNCHANGED <<clients_logged_on, term_flag, skipped, reply>>
    /\ UNCHANGED <<clientVars, cpc, news>>

AcceptGetClients ==
    /\ Ready("GET_CLIENTS")
    /\ LET r == Head(backlog)
       IN  Send(r.client, r.run,
                IF in_client_list(c_list, r.client)
                THEN [kind |-> "list", n |-> clients_logged_on, tuples |-> c_list]
                ELSE Msg("notfound"))
    /\ UNCHANGED <<serverVars, clientVars, spc, cpc, news>>

\* Mutant: the counter is only adjusted for clients that log on.
AcceptLogOffUncounted ==
    /\ Ready("LOG_OFF")
    /\ LET r == Head(backlog)
       IN  /\ in_client_list(c_list, r.client)
           /\ c_list' = delete_from_client_list(c_list, r.client)
           /\ Send(r.client, r.run, Msg("succ"))
           /\ job' = r /\ curr' = 1 /\ spc' = "notify"
           /\ UNCHANGED <<clients_logged_on, term_flag, skipped>>
    /\ UNCHANGED <<clientVars, cpc, news>>

AcceptLogOff ==
    /\ Ready("LOG_OFF")
    /\ LET r == Head(backlog)
       IN  IF in_client_list(c_list, r.client)
           THEN /\ c_list' = delete_from_client_list(c_list, r.client)
                /\ clients_logged_on' = clients_logged_on - 1
                /\ Send(r.client, r.run, Msg("succ"))
                /\ job' = r /\ curr' = 1 /\ spc' = "notify"
                /\ UNCHANGED <<term_flag, skipped>>
           ELSE /\ Send(r.client, r.run, Msg("notfound"))
                /\ UNCHANGED <<serverVars, spc>>
    /\ UNCHANGED <<clientVars, cpc, news>>

\* The client died before its first write: `continue`.
AcceptNothing == /\ Ready("NOTHING")
                 /\ UNCHANGED <<serverVars, clientVars, spc, cpc, reply, news>>

\* The client died between the message and its tuple: `break` ends the server.
AcceptHalf == /\ Ready("HALF")
              /\ spc' = "exited"
              /\ UNCHANGED <<serverVars, clientVars, cpc, reply, news>>

\* Mutant: both loops stop before the last node.
LastNodeNever == Len(c_list) - 1

\* USER_ON goes to all nodes but the last, which is the new client itself.
LastNode == IF job.op = "LOG_ON" THEN Len(c_list) - 1 ELSE Len(c_list)

\* connect: a running client has its listening socket open, wherever its main
\* thread is; otherwise the next node is tried.
NotifyConnect ==
    /\ spc = "notify" /\ term_flag = 0 /\ curr <= LastNode
    /\ IF cpc[c_list[curr]] = "off"
       THEN curr' = curr + 1 /\ UNCHANGED spc
       ELSE spc' = "approval" /\ UNCHANGED curr
    /\ UNCHANGED <<c_list, clients_logged_on, term_flag, job, skipped,
                   clientVars, backlog, cpc, reply, news>>

\* After OK the tuple is written and the next node is taken.
NotifySend ==
    /\ spc = "approved" /\ term_flag = 0
    /\ LET c == c_list[curr]
       IN  news' = IF cpc[c] \in {"expect_on", "expect_off"}
                   THEN [news EXCEPT ![c] = <<job.client>>] ELSE news
    /\ curr' = curr + 1 /\ spc' = "notify"
    /\ UNCHANGED <<c_list, clients_logged_on, term_flag, job, skipped,
                   clientVars, backlog, cpc, reply>>

\* What follows a notification round in LOG_ON and in LOG_OFF.
Finish == /\ IF job.op = "LOG_ON"
             THEN /\ clients_logged_on' = clients_logged_on + 1
                  /\ Send(job.client, job.run, Msg("tuple"))
             ELSE UNCHANGED <<clients_logged_on, reply>>
          /\ spc' = "accept"
          /\ UNCHANGED <<c_list, term_flag, job, curr, clientVars, backlog, cpc, news>>

NotifyDone == /\ spc = "notify" /\ term_flag = 0 /\ curr > LastNode
              /\ Finish
              /\ UNCHANGED skipped

\* The approval cannot be read: `return`, whoever comes after in the list.
NotifyAborts == /\ spc = "lost" /\ term_flag = 0
                /\ Finish
                /\ skipped' = TRUE

\* USER_OFF polls for POLLIN alone: a reset socket also reports POLLERR and
\* POLLHUP, so the loop goes on until SIGINT.
NotifySpins == /\ spc = "lost" /\ term_flag = 0 /\ job.op = "LOG_OFF"
               /\ spc' = "spinning"
               /\ UNCHANGED <<serverVars, clientVars, backlog, cpc, reply, news>>

ServerSigInt == /\ spc # "exited" /\ term_flag = 0
                /\ term_flag' = 1
                /\ UNCHANGED <<c_list, clients_logged_on, job, curr, skipped, spc,
                               clientVars, backlog, cpc, reply, news>>

\* Mutant: the loop that waits for an approval does not look at term_flag.
ServerExitsIdle ==
    /\ spc \in {"accept", "notify"} /\ term_flag = 1
    /\ spc' = "exited"
    /\ UNCHANGED <<serverVars, clientVars, backlog, cpc, reply, news>>

\* Every loop of the server ends on term_flag; a log-on in progress is counted
\* but not answered.
ServerExits ==
    /\ spc # "exited" /\ term_flag = 1
    /\ spc' = "exited"
    /\ IF spc # "accept" /\ job.op = "LOG_ON"
       THEN /\ clients_logged_on' = clients_logged_on + 1
            /\ Send(job.client, job.run, Msg("closed"))
       ELSE UNCHANGED <<clients_logged_on, reply>>
    /\ UNCHANGED <<c_list, term_flag, job, curr, skipped, clientVars, backlog,
                   cpc, news>>

ServerStep == \/ AcceptLogOn \/ AcceptGetClients \/ AcceptLogOff \/ AcceptNothing
              \/ AcceptHalf \/ NotifyConnect \/ NotifySend \/ NotifyDone
              \/ NotifyAborts \/ NotifySpins \/ ServerExits

--------------------------------------------------------------------------------
(* The clients. *)

Request(c, op) == backlog' = Append(backlog, [op |-> op, client |-> c, run |-> run'[c]])

ClientGoes(c, place) == cpc' = [cpc EXCEPT ![c] = place]

\* The process ends: its sockets are closed.
Exit(c) == /\ ClientGoes(c, "off")
           /\ reply' = [reply EXCEPT ![c] = NoReply]
           /\ news' = [news EXCEPT ![c] = NoNews]
           /\ list' = [list EXCEPT ![c] = <<>>]
           /\ spc' = IF WaitsFor(c) THEN "lost" ELSE spc
           /\ UNCHANGED <<serverVars, starts, run, backlog>>

Start(c) == /\ cpc[c] = "off" /\ starts < MaxStarts /\ spc # "exited"
            /\ starts' = starts + 1 /\ run' = [run EXCEPT ![c] = starts + 1]
            /\ Request(c, "LOG_ON")
            /\ ClientGoes(c, "logon")
            /\ UNCHANGED <<serverVars, spc, reply, news, list>>

\* The client dies after connect, or after writing LOG_ON without its tuple.
StartDies(c) == /\ Faults
                /\ cpc[c] = "off" /\ starts < MaxStarts /\ spc # "exited"
                /\ starts' = starts + 1 /\ run' = [run EXCEPT ![c] = starts + 1]
                /\ \E op \in {"NOTHING", "HALF"} : Request(c, op)
                /\ UNCHANGED <<serverVars, spc, cpc, reply, news, list>>

LoggedOn(c) == /\ cpc[c] = "logon" /\ reply[c].kind = "tuple" /\ spc # "exited"
               /\ UNCHANGED clientVars
               /\ Request(c, "GET_CLIENTS")
               /\ ClientGoes(c, "clients")
               /\ reply' = [reply EXCEPT ![c] = NoReply]
               /\ UNCHANGED <<serverVars, spc, news>>

\* The tuples of the answer are added one by one, without the client's own.
Others(c, tuples) ==
    LET After[i \in 0 .. Len(tuples)] ==
            IF i = 0 THEN <<>>
            ELSE IF tuples[i] = c THEN After[i - 1]
            ELSE client_list_add(After[i - 1], tuples[i])
    IN  After[Len(tuples)]

\* As many tuples are read as the server announced.
GotClients(c) ==
    /\ cpc[c] = "clients" /\ reply[c].kind = "list"
    /\ reply[c].n <= Len(reply[c].tuples)
    /\ list' = [list EXCEPT ![c] = Others(c, SubSeq(reply[c].tuples, 1, reply[c].n))]
    /\ ClientGoes(c, "listen")
    /\ reply' = [reply EXCEPT ![c] = NoReply]
    /\ UNCHANGED <<serverVars, starts, run, spc, backlog, news>>

\* The server refused or closed, or cannot be reached for the next request.
Rejected(c) == /\ \/ cpc[c] \in {"logon", "clients"} /\ reply[c].kind \in {"closed", "notfound"}
                  \/ cpc[c] = "logon" /\ reply[c].kind = "tuple" /\ spc = "exited"
               /\ Exit(c)

\* SIGINT while waiting for the server: exit without LOG_OFF.
SigIntEarly(c) == cpc[c] \in {"logon", "clients"} /\ Exit(c)

\* A listening client accepts the server's connection and approves.
Approve(c) ==
    /\ cpc[c] = "listen" /\ WaitsFor(c)
    /\ spc' = "approved"
    /\ ClientGoes(c, IF job.op = "LOG_ON" THEN "expect_on" ELSE "expect_off")
    /\ UNCHANGED <<serverVars, clientVars, backlog, reply, news>>

\* USER_ON and USER_OFF: the tuple is read and the list brought up to date.
ReadTuple(c) ==
    /\ news[c] # NoNews
    /\ list' = [list EXCEPT ![c] = IF cpc[c] = "expect_on"
                                   THEN client_list_add(@, news[c][1])
                                   ELSE delete_from_client_list(@, news[c][1])]
    /\ news' = [news EXCEPT ![c] = NoNews]
    /\ ClientGoes(c, "listen")
    /\ UNCHANGED <<serverVars, starts, run, spc, backlog, reply>>

\* SIGINT while listening or waiting for the tuple of USER_ON; a connection of
\* the server that was accepted is closed, one in the backlog stays open.
SigIntListen(c) ==
    /\ cpc[c] \in {"listen", "expect_on"}
    /\ ClientGoes(c, "leaving")
    /\ news' = [news EXCEPT ![c] = NoNews]
    /\ spc' \in IF WaitsFor(c) THEN {spc, "lost"} ELSE {spc}
    /\ UNCHANGED <<serverVars, clientVars, backlog, reply>>

\* The workers are joined; the client connects again and logs off.
SendLogOff(c) == /\ cpc[c] = "leaving" /\ spc # "exited"
                 /\ UNCHANGED clientVars
                 /\ Request(c, "LOG_OFF")
                 /\ ClientGoes(c, "logoff")
                 /\ UNCHANGED <<serverVars, spc, reply, news>>

LoggedOff(c) == cpc[c] = "logoff" /\ reply[c].kind # "none" /\ Exit(c)

\* A second SIGINT when the server is gone.
GiveUp(c) == cpc[c] \in {"leaving", "logoff"} /\ spc = "exited" /\ Exit(c)

Crash(c) == Faults /\ cpc[c] # "off" /\ Exit(c)

ClientStep(c) == \/ LoggedOn(c) \/ GotClients(c) \/ Rejected(c) \/ Approve(c)
                 \/ ReadTuple(c) \/ SendLogOff(c) \/ LoggedOff(c)

ClientInput(c) == \/ Start(c) \/ StartDies(c) \/ SigIntEarly(c) \/ SigIntListen(c)
                  \/ GiveUp(c) \/ Crash(c)

Next == \/ ServerStep \/ ServerSigInt
        \/ \E c \in Clients : ClientStep(c) \/ ClientInput(c)

Spec == Init /\ [][Next]_vars

\* Processes that can run do; nobody is obliged to start, stop or crash.
FairSpec == /\ Spec /\ WF_vars(ServerStep)
            /\ \A c \in Clients : WF_vars(ClientStep(c))

--------------------------------------------------------------------------------
(* Properties. *)

Ops == {"none", "LOG_ON", "GET_CLIENTS", "LOG_OFF", "NOTHING", "HALF"}
Requests == [op : Ops, client : Clients, run : Nat]
Replies == [kind : {"none", "tuple", "list", "succ", "notfound", "closed"},
            n : Nat, tuples : Seq(Clients)]

\* Every variable has the shape its C declaration gives it.
TypeOK ==
    /\ c_list \in Seq(Clients)
    /\ clients_logged_on \in Nat
    /\ term_flag \in {0, 1}
    /\ spc \in {"accept", "notify", "approval", "approved", "lost", "spinning", "exited"}
    /\ job \in Requests
    /\ curr \in Nat
    /\ skipped \in BOOLEAN
    /\ backlog \in Seq(Requests)
    /\ cpc \in [Clients -> {"off", "logon", "clients", "listen", "expect_on",
                            "expect_off", "leaving", "logoff"}]
    /\ starts \in 0 .. MaxStarts /\ run \in [Clients -> Nat]
    /\ reply \in [Clients -> Replies]
    /\ news \in [Clients -> Seq(Clients)]
    /\ list \in [Clients -> Seq(Clients)]

\* No client is registered twice, whatever is replayed, crashes or races.
NoDuplicates == \A m, n \in 1 .. Len(c_list) : c_list[m] = c_list[n] => m = n

\* Whenever the server takes requests, the number it will announce is the
\* number of tuples it will send; otherwise a client would wait for tuples
\* that never come or leave some unread.
CountMatches == spc = "accept" => clients_logged_on = Len(c_list)

\* All notifications of finished requests are taken in.
Settled == spc = "accept" /\ \A c \in Clients : cpc[c] \notin {"expect_on", "expect_off"}

\* Two clients that listen know of each other once the server is idle.
KnowEachOther ==
    Settled => \A c, d \in Clients :
                  c # d /\ cpc[c] = "listen" /\ cpc[d] = "listen"
                      => in_client_list(list[c], d)

\* As long as no round of notifications was cut short, two clients that
\* listen know of each other, and nobody lists itself, a client twice or one
\* that has logged off.
ListsAgree ==
    ~skipped /\ Settled =>
       /\ KnowEachOther
       /\ \A c \in Clients : cpc[c] = "listen" =>
             /\ ~in_client_list(list[c], c)
             /\ \A n \in 1 .. Len(list[c]) :
                   /\ in_client_list(c_list, list[c][n])
                   /\ \A m \in 1 .. n - 1 : list[c][m] # list[c][n]

\* SIGINT stops the server in the middle of whatever it does.
ServerStops == term_flag = 1 ~> spc = "exited"
================================================================================
