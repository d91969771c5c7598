----------------------------- MODULE FileTransfer ------------------------------
(***************************************************************************)
(* How a worker thread of one dropbox client copies the tree of another    *)
(* (dropbox_client.c: work, send_file_list, send_file; dirControl.c).  The *)
(* worker asks the peer for its file list and then for the files on it,    *)
(* one connection each; the peer's main thread serves one connection at a  *)
(* time.  The circular buffer between the two halves of the worker's loop  *)
(* is WorkerPool's and is left out here: one worker, which takes its own   *)
(* tuples in order.                                                        *)
(*                                                                         *)
(* A file is a sequence of bytes; Chunk is the 128 of the code.  A link is *)
(* a TCP connection: what was sent and not yet read, who has closed, and   *)
(* the reset a side gets for what it sent to a closed socket or left       *)
(* unread.  All the waits of the code are poll loops that accept exactly   *)
(* POLLIN or exactly POLLOUT: once the connection is reset poll adds       *)
(* POLLERR and POLLHUP, and such a loop only ends with term_flag.          *)
(***************************************************************************)
EXTENDS Naturals, Sequences, FiniteSets, SequencesExt, Selection

CONSTANTS Root, Dirs,      \* the directories of the peer's tree
          Files,           \* its files
          Entries,         \* readdir: what each directory holds, in order
          Contents,        \* what the owner may write into a file
          InitFiles, InitCopies,   \* trees and copies at the start
          MD5(_),          \* the digest of a sequence of bytes
          Chunk,
          Junk,            \* a byte of an uninitialised buffer
          Absent,          \* the file does not exist
          FdLimit,         \* descriptors the worker's process may leak
          MaxRounds, MaxEdits, MaxFaults

ASSUME TransferAssumption ==
    /\ Root \in Dirs
    /\ Entries \in [Dirs -> Seq((Dirs \ {Root}) \cup Files)]
    /\ Contents \subseteq Seq(UNION {Range(c) : c \in Contents})
    /\ Junk \notin UNION {Range(c) : c \in Contents}
    /\ \A c \in Contents : Len(MD5(c)) \in Nat \ {0}
    /\ Absent \notin Seq((UNION {Range(c) : c \in Contents}) \cup {Junk})
    /\ InitFiles \subseteq [Files -> Contents]
    /\ InitCopies \subseteq [Files -> Contents \cup {Absent}]
    /\ Chunk \in Nat \ {0}
    /\ FdLimit \in Nat /\ MaxRounds \in Nat
    /\ MaxEdits \in Nat /\ MaxFaults \in Nat

VARIABLES file,      \* the peer's files
          copy,      \* the worker's copies under __RSRVD
          dirs,      \* the directories made there
          wpc, todo, \* where the worker is, the tuples still to do
          want,      \* the tuple in hand
          wver,      \* version: what get_version found
          wbuf, left, at,   \* buffer, remaining, offset in the copy
          fds,       \* descriptors never closed
          ppc,       \* where the peer's main thread is
          f_list,    \* the list it is making
          pname, pver, pown,    \* ft.pathname, ft.version, version
          pbuf, pleft, pat,     \* buffer, remaining, offset in the file
          knock,     \* the request waiting in the peer's backlog
          link,      \* the connection being served
          old, last, clean,     \* history: see below
          ill, edits, rounds    \* faults so far, bounded counters

local  == <<copy, dirs, fds>>
worker == <<wpc, todo, want, wver, wbuf, left, at>>
peer   == <<ppc, f_list, pname, pver, pown, pbuf, pleft, pat>>
hist   == <<old, last, clean>>
env    == <<ill, edits, rounds>>
vars   == <<file, local, worker, peer, knock, link, hist, env>>

NoRequest == "none"
NoLink == [held |-> FALSE, open |-> FALSE, cut |-> FALSE, rst |-> "no",
           toP |-> <<>>, toW |-> <<>>]

Init ==
    /\ file \in InitFiles /\ copy \in InitCopies /\ dirs = {}
    /\ wpc = "idle" /\ todo = <<>> /\ want = Root /\ wver = <<>>
    /\ wbuf = <<>> /\ left = 0 /\ at = 0 /\ fds = 0
    /\ ppc = "idle" /\ f_list = <<>> /\ pname = Root /\ pver = <<>>
    /\ pown = <<>> /\ pbuf = <<>> /\ pleft = 0 /\ pat = 0
    /\ knock = NoRequest /\ link = NoLink
    /\ old = Absent /\ last = <<Root, "none">> /\ clean = FALSE
    /\ ill = {} /\ edits = 0 /\ rounds = 0

\* A fault of this kind happens now; each kind counts once.
Fault(kind) == /\ Cardinality(ill \cup {kind}) <= MaxFaults
               /\ ill' = ill \cup {kind}

--------------------------------------------------------------------------------
(* Files, versions, trees. *)

\* find_version prints the first byte of the digest once for every byte.
find_version(s) == [b \in 1 .. Len(MD5(s)) |-> MD5(s)[1]]

\* get_version: nothing (version[0] = 0) for a file that does not exist.
get_version(f) == IF copy[f] = Absent THEN <<>> ELSE find_version(copy[f])

\* Mutant: the buffer is cut to what the read gave.
FilledAnew(buf, bytes) == bytes

\* The buffer after a read of these bytes into it.
Filled(buf, bytes) == bytes \o SubSeq(buf, Len(bytes) + 1, Len(buf))

Fresh == [b \in 1 .. Chunk |-> Junk]

\* The copy after a write of these bytes at an offset: nothing truncates it.
Written(s, offset, bytes) ==
    SubSeq(s, 1, offset) \o bytes
        \o SubSeq(s, offset + Len(bytes) + 1, Len(s))

\* get_file_list as the sequence of its opendir calls and of the tuples it
\* appends.
Walk[d \in Dirs] ==
    <<[at |-> "open", name |-> d]>>
    \o FlattenSeq([e \in DOMAIN Entries[d] |->
            IF Entries[d][e] \in Dirs THEN Walk[Entries[d][e]]
            ELSE <<[at |-> "file", name |-> Entries[d][e]]>>])
    \o IF Entries[d] = <<>> /\ d # Root
       THEN <<[at |-> "dir", name |-> d]>> ELSE <<>>

\* A tuple of the list: a file, or a directory that is empty.
Tuple == [at : {"file"}, name : Files] \cup [at : {"dir"}, name : Dirs]

\* Mutant: an empty directory is not listed.
FilesListed(w) == Kept(SubSeq(Walk[Root], 1, w), [at : {"file"}, name : Files])

\* What the first w calls of the walk have appended.
Listed(w) == Kept(SubSeq(Walk[Root], 1, w), Tuple)

\* The directories are a tree: the walk ends, and it comes to every file and
\* to every directory that is empty.
ASSUME ListAssumption ==
    /\ Walk[Root] \in Seq([at : {"open", "file", "dir"}, name : Files \cup Dirs])
    /\ \A f \in Files : [at |-> "file", name |-> f] \in Range(Walk[Root])
    /\ \A d \in Dirs \ {Root} :
          Entries[d] = <<>> => [at |-> "dir", name |-> d] \in Range(Walk[Root])

\* The directories above an entry, made before it.
Above(e) == {d \in Dirs \ {Root} :
                \E w \in DOMAIN Walk[d] : Walk[d][w].name = e /\ d # e}

--------------------------------------------------------------------------------
(* The connection. *)

\* What the peer's write of these messages does to the link: to a closed
\* socket it succeeds and brings a reset.
Sent(l, msgs) ==
    IF l.held THEN [l EXCEPT !.toW = @ \o msgs]
    ELSE [l EXCEPT !.rst = IF @ = "no" THEN "flying" ELSE @]

\* Mutant: a return that forgets the close.
PeerKeeps(l) == l

\* close at the peer.
PeerClosed(l) == IF l.held THEN [l EXCEPT !.open = FALSE] ELSE NoLink

\* close at the worker, after which it has left these messages unread.
WorkerClosed(l, unread) ==
    IF l.open THEN [l EXCEPT !.held = FALSE, !.toW = <<>>,
                             !.rst = IF unread # <<>> THEN "flying" ELSE "no"]
    ELSE NoLink

Msg(tag) == <<[tag |-> tag, val |-> <<>>]>>
Bytes(s) == [b \in DOMAIN s |-> [tag |-> "byte", val |-> s[b]]]

\* The bytes in the worker's socket, k of them read.
Read(k) == [b \in 1 .. k |-> link.toW[b].val]

\* poll says POLLIN and nothing else.
Readable == link.held /\ ~ link.cut /\ (link.toW # <<>> \/ ~ link.open)

AtEOF == Readable /\ link.toW = <<>>
Incoming(tag) == Readable /\ link.toW # <<>> /\ Head(link.toW).tag = tag

--------------------------------------------------------------------------------
(* The worker. *)

\* Mutant: break instead of continue.
Break(fate) == IF fate = "failed" THEN "dead" ELSE "next"

\* continue, however the request ended.
Continue(fate) == "next"

\* The tuple in hand is done with, and the locals of the block are gone; the
\* next one is taken off the buffer.
Finish(fate) == /\ wpc' = Continue(fate)
                /\ last' = <<want, fate>>
                /\ link' = WorkerClosed(link, SubSeq(link.toW, 2, Len(link.toW)))
                /\ wver' = <<>> /\ wbuf' = <<>> /\ left' = 0 /\ at' = 0
                /\ UNCHANGED <<todo, want>>

\* n more descriptors can be opened.
Room(n) == fds + n <= FdLimit

\* GET_FILE_LIST; a client that left refuses the connection.
AskList ==
    /\ wpc = "idle" /\ rounds < MaxRounds
    /\ rounds' = rounds + 1
    /\ IF ppc = "dead" \/ ~ Room(1) THEN UNCHANGED <<wpc, knock>>
       ELSE wpc' = "list" /\ knock' = "list"
    /\ UNCHANGED <<file, local, todo, want, wver, wbuf, left, at, peer, link,
                   hist, ill, edits>>

\* OK, FILE_LIST and the tuples.
GetList ==
    /\ wpc = "list" /\ Incoming("OK") /\ Len(link.toW) = 2
    /\ todo' = link.toW[2].val
    /\ wpc' = "next"
    /\ link' = WorkerClosed(link, <<>>)
    /\ UNCHANGED <<file, local, want, wver, wbuf, left, at, peer, knock, hist,
                   env>>

\* Not approved, or the peer closes before the list.
NoList ==
    /\ wpc = "list"
    /\ \/ AtEOF \/ Incoming("IP_PORT_NOT_FOUND")
       \/ Incoming("OK") /\ Len(link.toW) = 1 /\ ~ link.open
    /\ wpc' = "idle"
    /\ link' = WorkerClosed(link, <<>>)
    /\ UNCHANGED <<file, local, todo, want, wver, wbuf, left, at, peer, knock,
                   hist, env>>

\* The buffer holds no more tuples of this peer.
ListDone == /\ wpc = "next" /\ todo = <<>>
            /\ wpc' = "idle"
            /\ UNCHANGED <<file, local, todo, want, wver, wbuf, left, at, peer,
                           knock, link, hist, env>>

\* An empty directory: the directories are made; the socket stays open.
MakeDir ==
    /\ wpc = "next" /\ todo # <<>> /\ Head(todo).at = "dir"
    /\ dirs' = dirs \cup Above(Head(todo).name) \cup {Head(todo).name}
    /\ todo' = Tail(todo)
    /\ fds' = fds + (IF Room(1) THEN 1 ELSE 0)
    /\ UNCHANGED <<file, copy, wpc, want, wver, wbuf, left, at, peer, knock,
                   link, hist, env>>

\* A file: the directories above it, the version of the copy (whose
\* descriptor stays open), connect and GET_FILE.
AskFile ==
    /\ wpc = "next" /\ todo # <<>> /\ Head(todo).at = "file"
    /\ LET f == Head(todo).name
           connected == ppc # "dead" /\ Room(1)
       IN  /\ dirs' = dirs \cup Above(f)
           /\ want' = f
           /\ wver' = IF connected /\ Room(2) THEN get_version(f) ELSE <<>>
           /\ fds' = fds + (IF Room(2) /\ copy[f] # Absent THEN 1 ELSE 0)
           /\ wpc' = IF connected THEN "approve" ELSE "next"
           /\ knock' = IF connected THEN "file" ELSE knock
           /\ last' = <<f, IF connected THEN "none" ELSE "failed">>
    /\ todo' = Tail(todo)
    /\ clean' = TRUE
    /\ UNCHANGED <<file, copy, wbuf, left, at, peer, link, old, env>>

\* OK: ft goes out, with the version of the copy.  If the peer has closed in
\* the meantime, the reset may or may not be here at the next poll.
SendTuple ==
    /\ wpc = "approve" /\ Incoming("OK")
    /\ wpc' = "reply"
    /\ \E c \in BOOLEAN :
        /\ c => ~ link.open
        /\ link' = [link EXCEPT !.toW = Tail(@), !.cut = c,
                        !.toP = IF link.open
                                THEN <<[name |-> want, version |-> wver]>>
                                ELSE <<>>]
    /\ UNCHANGED <<file, local, todo, want, wver, wbuf, left, at, peer, knock,
                   hist, env>>

\* Closed before the approval: break, and the thread returns.
WorkerEnds ==
    /\ wpc = "approve" /\ AtEOF
    /\ wpc' = "dead"
    /\ link' = WorkerClosed(link, <<>>)
    /\ UNCHANGED <<file, local, todo, want, wver, wbuf, left, at, peer, knock,
                   hist, env>>

\* The answers that end the request without data.
GetNothing ==
    /\ \/ wpc = "approve" /\ Incoming("IP_PORT_NOT_FOUND") /\ Finish("failed")
       \/ wpc = "reply" /\ Incoming("FILE_NOT_FOUND") /\ Finish("not found")
       \/ wpc = "reply" /\ Incoming("FILE_UP_TO_DATE") /\ Finish("up to date")
       \/ wpc = "reply" /\ AtEOF /\ Finish("failed")
    /\ UNCHANGED <<file, local, peer, knock, old, clean, env>>

\* file_size as read from the socket.
file_size(m) == m.val

\* FILE_SIZE, version, file_size; the copy is opened without O_TRUNC.
OpenCopy ==
    /\ wpc = "reply" /\ Incoming("FILE_SIZE") /\ Room(2)
    /\ old' = copy[want]
    /\ copy' = [copy EXCEPT ![want] = IF @ = Absent THEN <<>> ELSE @]
    /\ LET size == file_size(Head(link.toW))
       IN  IF size = 0 THEN Finish("copied")
           ELSE /\ wpc' = "data" /\ left' = size /\ at' = 0 /\ wbuf' = Fresh
                /\ link' = [link EXCEPT !.toW = Tail(@)]
                /\ UNCHANGED <<todo, want, wver, last>>
    /\ UNCHANGED <<file, dirs, fds, peer, knock, clean, env>>

\* The copy cannot be opened: close, with the file still coming in.
OpenFails ==
    /\ wpc = "reply" /\ Incoming("FILE_SIZE")
    /\ Finish("failed")
    /\ UNCHANGED <<file, local, peer, knock, old, clean, edits, rounds>>

OutOfDescriptors == OpenFails /\ ~ Room(2) /\ UNCHANGED ill
NotWritable      == OpenFails /\ Room(2) /\ Fault("open")

\* A read of up to n bytes gives k: fewer than there are only when TCP has
\* split what the peer wrote in one go.
Short(n, k) ==
    LET there == IF Len(link.toW) < n THEN Len(link.toW) ELSE n
    IN  IF k = there THEN UNCHANGED ill
        ELSE k \in 1 .. there - 1 /\ Fault("short")

\* Mutant: the chunk is written where the file began.
PutAtStart(bytes) == Written(copy[want], 0, bytes)

\* The copy once these bytes are written.
Put(bytes) == Written(copy[want], at, bytes)

\* The loop over whole chunks: the whole buffer is written, whatever the
\* read gave.
ReadChunk ==
    /\ wpc = "data" /\ left >= Chunk /\ Readable /\ link.toW # <<>>
    /\ \E k \in 1 .. Chunk :
        /\ Short(Chunk, k)
        /\ wbuf' = Filled(wbuf, Read(k))
        /\ clean' = (clean /\ k = Chunk)
        /\ link' = [link EXCEPT !.toW = SubSeq(@, k + 1, Len(@))]
    /\ copy' = [copy EXCEPT ![want] = Put(wbuf')]
    /\ left' = left - Chunk /\ at' = at + Chunk
    /\ UNCHANGED <<file, dirs, fds, wpc, todo, want, wver, peer, knock, old,
                   last, edits, rounds>>

\* The last read, of what remains; at end of file it gives nothing and the
\* buffer is written all the same.
ReadRest ==
    /\ wpc = "data" /\ left < Chunk /\ Readable
    /\ \E k \in 0 .. left :
        /\ Short(left, k)
        /\ clean' = (clean /\ k = left)
        /\ copy' = [copy EXCEPT ![want] =
                        Put(SubSeq(Filled(wbuf, Read(k)), 1, left))]
        /\ link' = WorkerClosed(link, SubSeq(link.toW, k + 1, Len(link.toW)))
    /\ wpc' = "next" /\ last' = <<want, "copied">>
    /\ wver' = <<>> /\ wbuf' = <<>> /\ left' = 0 /\ at' = 0
    /\ UNCHANGED <<file, dirs, fds, todo, want, peer, knock, old, edits,
                   rounds>>

\* End of file inside the loop closes both descriptors and polls on; after a
\* reset no poll says POLLIN alone.  Either way the worker waits for SIGINT.
WorkerStuck ==
    /\ \/ wpc = "data" /\ left >= Chunk /\ AtEOF
       \/ wpc \in {"list", "approve", "reply", "data"} /\ link.held /\ link.cut
    /\ wpc' = "stuck"
    /\ link' = NoLink
    /\ UNCHANGED <<file, local, todo, want, wver, wbuf, left, at, peer, knock,
                   hist, env>>

\* SIGINT: the client leaves, its end of the connection with it.
WorkerQuits ==
    /\ wpc # "gone" /\ Fault("quit")
    /\ wpc' = "gone"
    /\ link' = IF link.held THEN WorkerClosed(link, link.toW) ELSE link
    /\ UNCHANGED <<file, local, todo, want, wver, wbuf, left, at, peer, knock,
                   hist, edits, rounds>>

--------------------------------------------------------------------------------
(* The peer's main thread. *)

\* The locals of send_file_list and send_file, gone on return.
Returned == /\ f_list' = <<>>
            /\ pname' = Root /\ pver' = <<>> /\ pown' = <<>>
            /\ pbuf' = <<>> /\ pleft' = 0 /\ pat' = 0

\* Back in the accept loop, the connection closed.
Served(l) == /\ ppc' = "idle"
             /\ link' = PeerClosed(l)
             /\ Returned

\* accept, the request, the look-up of the sender; OK or IP_PORT_NOT_FOUND.
Accept ==
    /\ ppc = "idle" /\ knock # NoRequest
    /\ knock' = NoRequest
    /\ LET l == [NoLink EXCEPT !.open = TRUE,
                               !.held = wpc \in {"list", "approve"}]
       IN  \/ /\ link' = Sent(l, Msg("OK"))
              /\ ppc' = IF knock = "list" THEN "listing" ELSE "tuple"
              /\ UNCHANGED <<ill, f_list, pname, pver, pown, pbuf, pleft, pat>>
           \/ Served(Sent(l, Msg("IP_PORT_NOT_FOUND"))) /\ Fault("unknown")
    /\ UNCHANGED <<file, local, worker, hist, edits, rounds>>

\* get_file_list cannot open a directory: it is called again, with the list
\* as it stands.  (Bound: once.)
ListAgain ==
    /\ ppc = "listing" /\ "listing" \notin ill
    /\ Fault("listing")
    /\ \E w \in DOMAIN Walk[Root] :
        /\ Walk[Root][w].at = "open"
        /\ f_list' = f_list \o Listed(w)
    /\ UNCHANGED <<file, local, worker, ppc, pname, pver, pown, pbuf, pleft,
                   pat, knock, link, hist, edits, rounds>>

\* The whole tree is listed and sent.
send_file_list ==
    /\ ppc = "listing"
    /\ Served(Sent(link, <<[tag |-> "FILE_LIST",
                            val |-> f_list \o Listed(Len(Walk[Root]))]>>))
    /\ UNCHANGED <<file, local, worker, knock, hist, env>>

\* send_file reads ft and computes the version of the file; FILE_NOT_FOUND.
ReadTuple ==
    /\ ppc = "tuple" /\ link.toP # <<>>
    /\ LET ft == Head(link.toP)
           l  == [link EXCEPT !.toP = <<>>]
       IN  IF file[ft.name] = Absent
           THEN Served(Sent(l, Msg("FILE_NOT_FOUND")))
           ELSE /\ pname' = ft.name /\ pver' = ft.version
                /\ pown' = find_version(file[ft.name])
                /\ ppc' = "compare" /\ link' = l
                /\ UNCHANGED <<f_list, pbuf, pleft, pat>>
    /\ UNCHANGED <<file, local, worker, knock, hist, env>>

\* The worker closed before the tuple.
NoTuple ==
    /\ ppc = "tuple" /\ link.toP = <<>> /\ ~ link.held
    /\ Served(link)
    /\ UNCHANGED <<file, local, worker, knock, hist, env>>

\* Mutant: the versions are compared only as far as the shorter one goes.
StartsWith(v, w) == IsPrefix(v, w) \/ IsPrefix(w, v)

\* strcmp of the two versions.
SameVersion(v, w) == v = w

\* stat: 0 for a file removed since its version was computed.
FileSize(f) == IF file[f] = Absent THEN 0 ELSE Len(file[f])

\* The file is opened again, the versions are compared, the size is sent.
Compare ==
    /\ ppc = "compare" /\ link.rst # "arrived"
    /\ LET size == FileSize(pname)
           l    == Sent(link, <<[tag |-> "FILE_SIZE", val |-> size]>>)
       IN  IF SameVersion(pown, pver)
           THEN Served(Sent(link, Msg("FILE_UP_TO_DATE")))
           ELSE IF size = 0 THEN Served(l)
           ELSE /\ ppc' = "send" /\ link' = l
                /\ pleft' = size /\ pat' = 0 /\ pbuf' = Fresh
                /\ UNCHANGED <<f_list, pname, pver, pown>>
    /\ UNCHANGED <<file, local, worker, knock, hist, env>>

\* What read gives of the file as it is now.
FileBlock(offset) ==
    SubSeq(file[pname], offset + 1,
           IF offset + Chunk < Len(file[pname]) THEN offset + Chunk
           ELSE Len(file[pname]))

\* A whole chunk: the whole buffer is sent, whatever the read gave.
SendChunk ==
    /\ ppc = "send" /\ pleft >= Chunk /\ link.rst # "arrived"
    /\ pbuf' = Filled(pbuf, FileBlock(pat))
    /\ pat' = pat + Len(FileBlock(pat))
    /\ pleft' = pleft - Chunk
    /\ link' = Sent(link, Bytes(pbuf'))
    /\ UNCHANGED <<file, local, worker, ppc, f_list, pname, pver, pown, knock,
                   hist, env>>

\* What remains, nothing included; close.
SendRest ==
    /\ ppc = "send" /\ pleft < Chunk /\ link.rst # "arrived"
    /\ Served(Sent(link, Bytes(SubSeq(Filled(pbuf, FileBlock(pat)), 1, pleft))))
    /\ UNCHANGED <<file, local, worker, knock, hist, env>>

\* The reset has come: write fails, or the poll before it never says
\* POLLOUT alone and the main thread polls for ever.
PeerCut ==
    /\ ppc \in {"compare", "send"} /\ link.rst = "arrived"
    /\ ppc' \in {"idle", "spin"}
    /\ link' = NoLink
    /\ Returned
    /\ UNCHANGED <<file, local, worker, knock, hist, env>>

\* The worker's end of a request that is never answered.
Unanswered(reset) ==
    IF wpc = "gone" THEN NoLink ELSE [NoLink EXCEPT !.held = TRUE, !.cut = reset]

\* SIGINT: the peer leaves.  A connection it has not accepted, and one with
\* bytes it has not read, the worker sees reset; a request that was read and
\* not approved yet ends with an end of file.
PeerQuits ==
    /\ ppc # "dead" /\ Fault("peer")
    /\ ppc' = "dead"
    /\ knock' = NoRequest
    /\ \/ knock # NoRequest /\ link' = Unanswered(TRUE)
       \/ knock # NoRequest /\ ppc = "idle" /\ link' = Unanswered(FALSE)
       \/ /\ knock = NoRequest
          /\ link' = IF link.open THEN PeerClosed([link EXCEPT !.cut = link.toP # <<>>])
                                  ELSE link
    /\ Returned
    /\ UNCHANGED <<file, local, worker, hist, edits, rounds>>

--------------------------------------------------------------------------------
(* The environment. *)

\* The reset on its way reaches the peer.
ResetArrives ==
    /\ link.rst = "flying"
    /\ link' = [link EXCEPT !.rst = "arrived"]
    /\ UNCHANGED <<file, local, worker, peer, knock, hist, env>>

\* The owner rewrites, creates or removes a file.  A file removed while it
\* is being sent stays readable to its end, as if it were removed after.
EditFile ==
    /\ edits < MaxEdits
    /\ edits' = edits + 1
    /\ \E f \in Files, c \in Contents \cup {Absent} :
        /\ c # file[f]
        /\ ppc = "send" => c # Absent
        /\ file' = [file EXCEPT ![f] = c]
        /\ clean' = (clean /\ f # want)
    /\ UNCHANGED <<local, worker, peer, knock, link, old, last, ill, rounds>>

WorkerNext ==
    \/ AskList \/ GetList \/ NoList \/ ListDone \/ MakeDir \/ AskFile
    \/ SendTuple \/ WorkerEnds \/ GetNothing \/ OpenCopy \/ ReadChunk
    \/ ReadRest \/ WorkerStuck \/ OutOfDescriptors

PeerNext ==
    \/ Accept \/ send_file_list \/ ReadTuple \/ NoTuple \/ Compare
    \/ SendChunk \/ SendRest \/ PeerCut

Next == \/ WorkerNext \/ PeerNext \/ ResetArrives
        \/ NotWritable \/ ListAgain \/ WorkerQuits \/ PeerQuits \/ EditFile

Spec == Init /\ [][Next]_vars

\* Threads keep running and resets arrive; nobody has to edit, quit or fail.
FairSpec == Spec /\ WF_vars(WorkerNext) /\ WF_vars(PeerNext)
                 /\ WF_vars(ResetArrives)

--------------------------------------------------------------------------------
(* Properties. *)

Byte == (UNION {Range(c) : c \in Contents}) \cup {Junk}
Message == {"OK", "IP_PORT_NOT_FOUND", "FILE_LIST", "FILE_NOT_FOUND",
            "FILE_UP_TO_DATE", "FILE_SIZE", "byte"}

\* The shape of the state: whole buffers of Chunk bytes, offsets and
\* remainders that are never negative, no descriptor past the limit.
TypeOK ==
    /\ \A f \in Files : file[f] \in Contents \cup {Absent}
    /\ \A f \in Files : copy[f] = Absent \/ Range(copy[f]) \subseteq Byte
    /\ dirs \subseteq Dirs
    /\ wpc \in {"idle", "list", "next", "approve", "reply", "data", "dead",
                "stuck", "gone"}
    /\ ppc \in {"idle", "listing", "tuple", "compare", "send", "spin", "dead"}
    /\ left \in Nat /\ at \in Nat /\ pleft \in Nat /\ pat \in Nat
    /\ Len(wbuf) \in {0, Chunk} /\ Len(pbuf) \in {0, Chunk}
    /\ fds \in 0 .. FdLimit
    /\ knock \in {NoRequest, "list", "file"}
    /\ \A m \in Range(link.toW) : m.tag \in Message
    /\ link.rst \in {"no", "flying", "arrived"}

\* A file that came in one piece, and that its owner left alone meanwhile,
\* is in the copy byte for byte; only a copy that was longer before keeps
\* its old end.  (send_file and the data loop of work, chunk by chunk, on
\* both sides of the 128 byte boundary.)
CleanCopy ==
    last[2] = "copied" /\ clean =>
        LET f == file[last[1]] c == copy[last[1]]
            n == IF f = Absent THEN 0 ELSE Len(f)
        IN  /\ f # Absent => IsPrefix(f, c)
            /\ Len(c) = IF old = Absent \/ Len(old) < n THEN n ELSE Len(old)

\* FILE_UP_TO_DATE means the copy is the file (send_file's comparison of
\* versions): the file may only have changed since.
UpToDateMeansEqual ==
    last[2] = "up to date" /\ clean => copy[last[1]] = file[last[1]]

\* A whole round in which nothing went wrong leaves a copy of the tree: every
\* empty directory made, every file there from its first byte to its last.
RoundMirrors ==
    wpc = "idle" /\ rounds > 0 /\ ill = {} /\ edits = 0 /\ Room(2) =>
        /\ \A d \in Dirs \ {Root} : Entries[d] = <<>> => d \in dirs
        /\ \A f \in Files : copy[f] # Absent /\ IsPrefix(file[f], copy[f])

\* A thread is lost only to a hang-up.  The worker's thread ends or polls for
\* ever only if the peer left in the middle (the break after an unapproved
\* GET_FILE, the continue inside the data loop); the peer's main thread spins
\* only if a worker hung up on data it had not read.
LostOnlyByHangup ==
    /\ wpc \in {"dead", "stuck"} => "peer" \in ill
    /\ ppc = "spin" => ill \cap {"quit", "open", "short"} # {} \/ ~ Room(2)

\* Whatever is edited, refused or listed twice, a worker comes to the end of
\* its tuples (only a lost thread or its exit stops it), and the peer's main
\* thread gets back to accept: no wait of one for the other is for ever.
BothReturn ==
    /\ wpc # "idle" ~> wpc \in {"idle", "dead", "stuck", "gone"} \/ ppc = "spin"
    /\ ppc # "idle" ~> ppc \in {"idle", "dead", "spin"}
================================================================================
