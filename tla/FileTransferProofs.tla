-------------------------- MODULE FileTransferProofs ---------------------------
(***************************************************************************)
(* What holds of a worker and the peer it copies from for any tree, any    *)
(* contents, any chunk size and any number of rounds, edits and faults.    *)
(***************************************************************************)
EXTENDS FileTransfer, InductionProofs, SequenceTheorems, TLAPS

--------------------------------------------------------------------------------
(* Types. *)

\* What get_version returns.
Version == {<<>>} \cup {find_version(s) : s \in Seq(Byte)}

Answer  == [tag : {"OK", "IP_PORT_NOT_FOUND", "FILE_NOT_FOUND", "FILE_UP_TO_DATE"}, val : {<<>>}]
Listing == [tag : {"FILE_LIST"}, val : Seq(Tuple)]
Size    == [tag : {"FILE_SIZE"}, val : Nat]
Data    == [tag : {"byte"}, val : Byte]
Messages == Answer \cup Listing \cup Size \cup Data

LinkType == [held : BOOLEAN, open : BOOLEAN, cut : BOOLEAN,
             rst : {"no", "flying", "arrived"},
             toP : Seq([name : Files, version : Version]), toW : Seq(Messages)]

FilesTyped ==
    /\ file \in [Files -> Contents \cup {Absent}]
    /\ copy \in [Files -> Seq(Byte) \cup {Absent}]
    /\ dirs \subseteq Dirs /\ fds \in 0 .. FdLimit
    /\ knock \in {NoRequest, "list", "file"}

\* Where the worker is inside the loop over the bytes, the copy is there and
\* as long as the offset.
WorkerTyped ==
    /\ wpc \in {"idle", "list", "next", "approve", "reply", "data", "dead", "stuck", "gone"}
    /\ todo \in Seq(Tuple) /\ want \in Files \cup {Root} /\ wver \in Version
    /\ left \in Nat /\ at \in Nat /\ wbuf \in Seq(Byte) /\ Len(wbuf) \in {0, Chunk}
    /\ wpc \in {"approve", "reply", "data"} => want \in Files
    /\ wpc = "data" => /\ Len(wbuf) = Chunk
                       /\ copy[want] \in Seq(Byte) /\ at <= Len(copy[want])

PeerTyped ==
    /\ ppc \in {"idle", "listing", "tuple", "compare", "send", "spin", "dead"}
    /\ f_list \in Seq(Tuple)
    /\ pleft \in Nat /\ pat \in Nat /\ pbuf \in Seq(Byte) /\ Len(pbuf) \in {0, Chunk}
    /\ ppc \in {"compare", "send"} => pname \in Files
    /\ ppc = "send" => file[pname] \in Contents /\ Len(pbuf) = Chunk

--------------------------------------------------------------------------------
(* What the operators return. *)

\* The owner's files are sequences of bytes, and none of them is no file.
LEMMA ContentsBytes ==
  /\ Contents \subseteq Seq(Byte) /\ Junk \in Byte
  /\ Absent \notin Seq(Byte) /\ Absent \notin Contents
  <1>1. UNION {Range(c) : c \in Contents} \subseteq Byte /\ Junk \in Byte
    BY DEF Byte
  <1>2. Seq(UNION {Range(c) : c \in Contents}) \subseteq Seq(Byte)
    BY <1>1, SeqMonotonic
  <1>3. Contents \subseteq Seq(Byte)
    BY <1>2, TransferAssumption
  <1>4. Absent \notin Seq(Byte)
    BY TransferAssumption DEF Byte
  <1> QED
    BY <1>1, <1>3, <1>4

\* The buffer that is declared anew.
LEMMA FreshTyped == Fresh \in Seq(Byte) /\ Len(Fresh) = Chunk
  BY ContentsBytes, TransferAssumption DEF Fresh

\* A part of a sequence, and two sequences joined, index by index.
LEMMA PartOf ==
  ASSUME NEW S, NEW s \in Seq(S), NEW m \in Nat \ {0}, NEW n \in 0 .. Len(s)
  PROVE  /\ SubSeq(s, m, n) \in Seq(S)
         /\ m <= n => Len(SubSeq(s, m, n)) = n - m + 1
         /\ n < m => Len(SubSeq(s, m, n)) = 0
         /\ \A b \in 1 .. Len(SubSeq(s, m, n)) : SubSeq(s, m, n)[b] = s[m - 1 + b]
  <1>1. \A i \in m .. n : s[i] \in S
    OBVIOUS
  <1>2. /\ SubSeq(s, m, n) \in Seq(S)
        /\ m <= n => Len(SubSeq(s, m, n)) = n - m + 1
        /\ n < m => Len(SubSeq(s, m, n)) = 0
        /\ \A i \in 1 .. n - m + 1 : SubSeq(s, m, n)[i] = s[m + i - 1]
    BY <1>1, SubSeqProperties
  <1>3. ASSUME NEW b \in 1 .. Len(SubSeq(s, m, n)) PROVE SubSeq(s, m, n)[b] = s[m - 1 + b]
    <2>1. b \in 1 .. n - m + 1 /\ m + b - 1 = m - 1 + b
      BY <1>2
    <2> QED
      BY <1>2, <2>1
  <1> QED
    BY <1>2, <1>3

\* What get_file_list has appended are tuples, and the whole walk appends every
\* file and every directory that is empty.
LEMMA ListedTyped ==
  /\ \A w \in DOMAIN Walk[Root] : Listed(w) \in Seq(Tuple)
  /\ Listed(Len(Walk[Root])) \in Seq(Tuple)
  /\ \A i \in 1 .. Len(Walk[Root]) : Walk[Root][i] \in Tuple =>
        \E k \in 1 .. Len(Listed(Len(Walk[Root]))) : Listed(Len(Walk[Root]))[k] = Walk[Root][i]
  <1>1. PICK T : T = [at : {"open", "file", "dir"}, name : Files \cup Dirs]
    OBVIOUS
  <1>2. PICK s \in Seq(T) : s = Walk[Root]
    BY <1>1, ListAssumption
  <1>3. ASSUME NEW w \in 0 .. Len(s) PROVE Listed(w) \in Seq(Tuple)
    <2>1. PICK r : r = SubSeq(s, 1, w)
      OBVIOUS
    <2>2. r \in Seq(T)
      BY <2>1, PartOf
    <2>3. /\ Kept(r, Tuple) \in Seq(T)
          /\ \A k \in 1 .. Len(Kept(r, Tuple)) : Kept(r, Tuple)[k] \in Tuple
      BY <2>2, KeptElements
    <2>4. Kept(r, Tuple) \in Seq(Tuple)
      BY <2>3
    <2> QED
      BY <1>2, <2>1, <2>4 DEF Listed
  <1>4. PICK n \in Nat : n = Len(s)
    OBVIOUS
  <1>5. PICK l : l = Listed(n)
    OBVIOUS
  <1>6. l = Kept(s, Tuple)
    <2>1. SubSeq(s, 1, n) = s
      BY <1>4
    <2> QED
      BY <1>2, <1>5, <2>1 DEF Listed
  <1>7. \A i \in 1 .. n : s[i] \in Tuple => \E k \in 1 .. Len(l) : l[k] = s[i]
    <2>1. \A i \in 1 .. Len(s) : s[i] \in Tuple =>
             \E k \in 1 .. Len(Kept(s, Tuple)) : Kept(s, Tuple)[k] = s[i]
      BY KeptElements
    <2> QED
      BY <1>4, <1>6, <2>1, Zenon
  <1>8. \A w \in DOMAIN s : w \in 0 .. Len(s)
    OBVIOUS
  <1>9. \A w \in DOMAIN s : Listed(w) \in Seq(Tuple)
    BY <1>3, <1>8
  <1>10. l \in Seq(Tuple)
    BY <1>3, <1>4, <1>5
  <1> QED
    BY <1>2, <1>4, <1>5, <1>7, <1>9, <1>10, Zenon

\* Two sequences one after the other.
LEMMA Joined ==
  ASSUME NEW S, NEW s \in Seq(S), NEW t \in Seq(S)
  PROVE  /\ s \o t \in Seq(S) /\ Len(s \o t) = Len(s) + Len(t)
         /\ \A b \in 1 .. Len(s) : (s \o t)[b] = s[b]
         /\ \A b \in 1 .. Len(t) : (s \o t)[Len(s) + b] = t[b]
  <1>1. /\ s \o t \in Seq(S) /\ Len(s \o t) = Len(s) + Len(t)
        /\ \A i \in 1 .. Len(s) + Len(t) :
              (s \o t)[i] = IF i <= Len(s) THEN s[i] ELSE t[i - Len(s)]
    BY ConcatProperties
  <1>2. \A b \in 1 .. Len(s) : (s \o t)[b] = s[b]
    BY <1>1
  <1>3. ASSUME NEW b \in 1 .. Len(t) PROVE (s \o t)[Len(s) + b] = t[b]
    <2>1. /\ Len(s) + b \in 1 .. Len(s) + Len(t) /\ ~(Len(s) + b <= Len(s))
          /\ Len(s) + b - Len(s) = b
      OBVIOUS
    <2> QED
      BY <1>1, <2>1
  <1> QED
    BY <1>1, <1>2, <1>3

\* A read fills the front of the buffer.
LEMMA FilledTyped ==
  ASSUME NEW buf \in Seq(Byte), NEW bytes \in Seq(Byte), Len(bytes) <= Len(buf)
  PROVE  /\ Filled(buf, bytes) \in Seq(Byte) /\ Len(Filled(buf, bytes)) = Len(buf)
         /\ \A b \in 1 .. Len(bytes) : Filled(buf, bytes)[b] = bytes[b]
         /\ Len(bytes) = Len(buf) => Filled(buf, bytes) = bytes
  <1> DEFINE rest == SubSeq(buf, Len(bytes) + 1, Len(buf))
  <1>1. rest \in Seq(Byte) /\ Len(rest) = Len(buf) - Len(bytes)
    BY SubSeqProperties
  <1>2. Filled(buf, bytes) = bytes \o rest
    BY DEF Filled
  <1> HIDE DEF rest
  <1>3. /\ bytes \o rest \in Seq(Byte) /\ Len(bytes \o rest) = Len(buf)
        /\ \A b \in 1 .. Len(bytes) : (bytes \o rest)[b] = bytes[b]
    BY <1>1, ConcatProperties
  <1>4. Len(bytes) = Len(buf) => bytes \o rest = bytes
    <2>1. Len(bytes) = Len(buf) => rest = <<>>
      BY <1>1, EmptySeq
    <2> QED
      BY <2>1, ConcatEmptySeq
  <1> QED
    BY <1>2, <1>3, <1>4

\* Three pieces one after the other.
LEMMA Spliced ==
  ASSUME NEW front \in Seq(Byte), NEW mid \in Seq(Byte), NEW back \in Seq(Byte),
         NEW all, all = front \o mid \o back
  PROVE  /\ all \in Seq(Byte) /\ Len(all) = Len(front) + Len(mid) + Len(back)
         /\ \A b \in 1 .. Len(front) : all[b] = front[b]
         /\ \A b \in 1 .. Len(mid) : all[Len(front) + b] = mid[b]
  <1>1. /\ front \o mid \in Seq(Byte) /\ Len(front \o mid) = Len(front) + Len(mid)
        /\ \A b \in 1 .. Len(front) : (front \o mid)[b] = front[b]
        /\ \A b \in 1 .. Len(mid) : (front \o mid)[Len(front) + b] = mid[b]
    BY Joined
  <1>2. PICK both : both = front \o mid
    OBVIOUS
  <1>3. /\ both \o back \in Seq(Byte) /\ Len(both \o back) = Len(both) + Len(back)
        /\ \A b \in 1 .. Len(both) : (both \o back)[b] = both[b]
    BY <1>1, <1>2, Joined
  <1>4. ASSUME NEW b \in 1 .. Len(mid) PROVE (both \o back)[Len(front) + b] = mid[b]
    <2>1. Len(front) + b \in 1 .. Len(both)
      BY <1>1, <1>2
    <2> QED
      BY <1>1, <1>2, <1>3, <2>1
  <1>5. \A b \in 1 .. Len(front) : b \in 1 .. Len(both)
    BY <1>1, <1>2
  <1> QED
    BY <1>1, <1>2, <1>3, <1>4, <1>5

\* A write into the copy: the bytes before and after it stay.
LEMMA WrittenTyped ==
  ASSUME NEW s \in Seq(Byte), NEW offset \in 0 .. Len(s), NEW bytes \in Seq(Byte)
  PROVE  /\ Written(s, offset, bytes) \in Seq(Byte)
         /\ offset + Len(bytes) > Len(s) => Len(Written(s, offset, bytes)) = offset + Len(bytes)
         /\ offset + Len(bytes) <= Len(s) => Len(Written(s, offset, bytes)) = Len(s)
         /\ \A b \in 1 .. offset : Written(s, offset, bytes)[b] = s[b]
         /\ \A b \in 1 .. Len(bytes) : Written(s, offset, bytes)[offset + b] = bytes[b]
  <1>1. PICK front : front = SubSeq(s, 1, offset)
    OBVIOUS
  <1>2. PICK back : back = SubSeq(s, offset + Len(bytes) + 1, Len(s))
    OBVIOUS
  <1>3. /\ front \in Seq(Byte) /\ Len(front) = offset
        /\ \A b \in 1 .. offset : front[b] = s[b]
    <2>1. /\ front \in Seq(Byte) /\ Len(front) = offset
          /\ \A b \in 1 .. Len(front) : front[b] = s[1 - 1 + b]
      BY <1>1, PartOf
    <2> QED
      BY <2>1
  <1>4. /\ back \in Seq(Byte)
        /\ offset + Len(bytes) > Len(s) => Len(back) = 0
        /\ offset + Len(bytes) <= Len(s) => Len(back) = Len(s) - (offset + Len(bytes))
    <2>1. offset + Len(bytes) + 1 \in Nat \ {0} /\ Len(s) \in 0 .. Len(s)
      OBVIOUS
    <2>2. /\ back \in Seq(Byte)
          /\ offset + Len(bytes) + 1 <= Len(s) =>
                Len(back) = Len(s) - (offset + Len(bytes) + 1) + 1
          /\ Len(s) < offset + Len(bytes) + 1 => Len(back) = 0
      BY <1>2, <2>1, PartOf
    <2> QED
      BY <2>2
  <1>5. PICK new : new = front \o bytes \o back
    OBVIOUS
  <1>6. /\ new \in Seq(Byte) /\ Len(new) = Len(front) + Len(bytes) + Len(back)
        /\ \A b \in 1 .. Len(front) : new[b] = front[b]
        /\ \A b \in 1 .. Len(bytes) : new[Len(front) + b] = bytes[b]
    <2>1. front \in Seq(Byte) /\ back \in Seq(Byte)
      BY <1>3, <1>4
    <2> QED
      BY <1>5, <2>1, Spliced
  <1>7. /\ offset + Len(bytes) > Len(s) => Len(new) = offset + Len(bytes)
        /\ offset + Len(bytes) <= Len(s) => Len(new) = Len(s)
    <2>1. /\ Len(s) \in Nat /\ Len(bytes) \in Nat /\ offset \in Nat
          /\ Len(front) = offset /\ Len(new) = Len(front) + Len(bytes) + Len(back)
      BY <1>3, <1>6
    <2> QED
      BY <1>4, <2>1
  <1>8. Written(s, offset, bytes) = new
    BY <1>1, <1>2, <1>5 DEF Written
  <1> QED
    BY <1>3, <1>6, <1>7, <1>8

\* What the peer's read gives of its file: at most a chunk, and a whole one as
\* long as there is one.
LEMMA BlockTyped ==
  ASSUME file[pname] \in Seq(Byte), NEW offset \in Nat
  PROVE  /\ FileBlock(offset) \in Seq(Byte) /\ Len(FileBlock(offset)) <= Chunk
         /\ offset + Chunk <= Len(file[pname]) => Len(FileBlock(offset)) = Chunk
         /\ offset <= Len(file[pname]) /\ Len(file[pname]) < offset + Chunk =>
               Len(FileBlock(offset)) = Len(file[pname]) - offset
         /\ \A b \in 1 .. Len(FileBlock(offset)) : FileBlock(offset)[b] = file[pname][offset + b]
  <1> DEFINE s == file[pname]
             e == IF offset + Chunk < Len(s) THEN offset + Chunk ELSE Len(s)
  <1>0. Chunk \in Nat \ {0} /\ Len(s) \in Nat /\ s \in Seq(Byte)
    BY TransferAssumption
  <1>1. FileBlock(offset) = SubSeq(s, offset + 1, e)
    BY DEF FileBlock
  <1> HIDE DEF s
  <1>2. e \in 0 .. Len(s)
    BY <1>0
  <1>3. /\ SubSeq(s, offset + 1, e) \in Seq(Byte)
        /\ Len(SubSeq(s, offset + 1, e)) = IF offset + 1 <= e THEN e - offset ELSE 0
        /\ \A b \in 1 .. Len(SubSeq(s, offset + 1, e)) :
              SubSeq(s, offset + 1, e)[b] = s[offset + b]
    BY <1>0, <1>2, SubSeqProperties
  <1>4. Len(SubSeq(s, offset + 1, e)) <= Chunk
    BY <1>0, <1>3
  <1>5. /\ offset + Chunk <= Len(s) => Len(SubSeq(s, offset + 1, e)) = Chunk
        /\ offset <= Len(s) /\ Len(s) < offset + Chunk =>
              Len(SubSeq(s, offset + 1, e)) = Len(s) - offset
    BY <1>0, <1>3
  <1> HIDE DEF e
  <1> QED
    BY <1>1, <1>3, <1>4, <1>5 DEF s

\* The messages.
LEMMA MsgTyped ==
  ASSUME NEW tag \in {"OK", "IP_PORT_NOT_FOUND", "FILE_NOT_FOUND", "FILE_UP_TO_DATE"}
  PROVE  /\ Msg(tag) \in Seq(Messages) /\ Len(Msg(tag)) = 1
         /\ Msg(tag)[1].tag = tag /\ Msg(tag)[1] \in Answer
  BY DEF Msg, Messages, Answer

\* A message is the first and only one of its sequence.
LEMMA MsgHead ==
  ASSUME NEW tag
  PROVE  Msg(tag) # <<>> /\ Head(Msg(tag)).tag = tag /\ Tail(Msg(tag)) = <<>>
  BY DEF Msg

\* Bytes on the connection carry the bytes of the file, in order.
LEMMA BytesTyped ==
  ASSUME NEW s \in Seq(Byte)
  PROVE  /\ Bytes(s) \in Seq(Data) /\ Bytes(s) \in Seq(Messages) /\ Len(Bytes(s)) = Len(s)
         /\ \A b \in 1 .. Len(s) : Bytes(s)[b].val = s[b]
  <1>1. DOMAIN s = 1 .. Len(s) /\ Len(s) \in Nat /\ \A b \in 1 .. Len(s) : s[b] \in Byte
    OBVIOUS
  <1>2. Bytes(s) = [b \in 1 .. Len(s) |-> [tag |-> "byte", val |-> s[b]]]
    BY <1>1 DEF Bytes
  <1>3. \A b \in 1 .. Len(s) : [tag |-> "byte", val |-> s[b]] \in Data
    BY <1>1 DEF Data
  <1>4. Bytes(s) \in Seq(Data) /\ Len(Bytes(s)) = Len(s)
    BY <1>1, <1>2, <1>3
  <1>5. Seq(Data) \subseteq Seq(Messages)
    BY SeqMonotonic DEF Messages
  <1>6. \A b \in 1 .. Len(s) : Bytes(s)[b].val = s[b]
    BY <1>2
  <1> QED
    BY <1>4, <1>5, <1>6

--------------------------------------------------------------------------------
(* What happens to a connection, field by field. *)

\* No connection: nobody holds it and nothing is under way.
LEMMA NoLinkTyped ==
  /\ NoLink \in LinkType /\ ~NoLink.held /\ ~NoLink.open /\ ~NoLink.cut
  /\ NoLink.rst = "no" /\ NoLink.toP = <<>> /\ NoLink.toW = <<>>
  BY DEF NoLink, LinkType

\* A write of the peer: the message arrives if the worker holds its end, and
\* is answered by a reset otherwise.
LEMMA SentLink ==
  ASSUME NEW l \in LinkType, NEW msgs \in Seq(Messages)
  PROVE  /\ Sent(l, msgs) \in LinkType
         /\ Sent(l, msgs).held = l.held /\ Sent(l, msgs).open = l.open
         /\ Sent(l, msgs).cut = l.cut /\ Sent(l, msgs).toP = l.toP
         /\ l.held => Sent(l, msgs).rst = l.rst /\ Sent(l, msgs).toW = l.toW \o msgs
         /\ ~l.held => Sent(l, msgs).rst # "no" /\ Sent(l, msgs).toW = l.toW
  <1>1. CASE l.held
    <2>1. Sent(l, msgs) = [l EXCEPT !.toW = l.toW \o msgs]
      BY <1>1 DEF Sent
    <2>2. l.toW \o msgs \in Seq(Messages)
      BY ConcatProperties DEF LinkType
    <2> QED
      BY <1>1, <2>1, <2>2 DEF LinkType
  <1>2. CASE ~l.held
    <2>1. PICK r \in {"flying", "arrived"} : Sent(l, msgs) = [l EXCEPT !.rst = r]
      BY <1>2 DEF Sent, LinkType
    <2> QED
      BY <1>2, <2>1 DEF LinkType
  <1> QED
    BY <1>1, <1>2

\* The peer closes its end: what it has written can still be read.
LEMMA PeerClosedLink ==
  ASSUME NEW l \in LinkType
  PROVE  /\ PeerClosed(l) \in LinkType /\ ~PeerClosed(l).open
         /\ ~l.held => PeerClosed(l) = NoLink
         /\ l.held => /\ PeerClosed(l).held /\ PeerClosed(l).cut = l.cut
                      /\ PeerClosed(l).rst = l.rst /\ PeerClosed(l).toP = l.toP
                      /\ PeerClosed(l).toW = l.toW
  BY NoLinkTyped DEF PeerClosed, LinkType

\* The worker closes its end, which resets the connection when it has unread
\* data.
LEMMA WorkerClosedLink ==
  ASSUME NEW l \in LinkType, NEW unread
  PROVE  /\ WorkerClosed(l, unread) \in LinkType /\ ~WorkerClosed(l, unread).held
         /\ WorkerClosed(l, unread).toW = <<>>
         /\ ~l.open => WorkerClosed(l, unread) = NoLink
         /\ l.open => /\ WorkerClosed(l, unread).open /\ WorkerClosed(l, unread).cut = l.cut
                      /\ WorkerClosed(l, unread).toP = l.toP
  <1>1. <<>> \in Seq(Messages)
    OBVIOUS
  <1>2. CASE ~l.open
    BY <1>2, NoLinkTyped DEF WorkerClosed
  <1>3. CASE l.open
    <2>1. PICK r \in {"flying", "no"} :
             WorkerClosed(l, unread) = [l EXCEPT !.held = FALSE, !.toW = <<>>, !.rst = r]
      BY <1>3 DEF WorkerClosed
    <2> QED
      BY <1>1, <1>3, <2>1 DEF LinkType
  <1> QED
    BY <1>2, <1>3

--------------------------------------------------------------------------------
(* Where the two ends of the connection are. *)

Serving == ppc \in {"listing", "tuple", "compare", "send"}

\* A worker hung up on a peer that was still sending.
HangUp == ill \cap {"quit", "open", "short"} # {} \/ ~ Room(2)

\* Only whole chunks are sent before the last bytes.
IsMultiple(n) == \E q \in Nat : n = q * Chunk

\* From the n-th message on there are only bytes in the worker's socket.
BytesFrom(n) == \A b \in n .. Len(link.toW) : link.toW[b] \in Data

SizeFirst == link.toW # <<>> /\ link.toW[1] \in Size /\ BytesFrom(2)

\* Who holds which end, and what that says about the other.
Ends ==
    /\ link.open <=> Serving
    /\ link.held => /\ wpc \in {"list", "approve", "reply", "data"}
                    /\ knock = NoRequest /\ link.rst = "no"
    /\ wpc \in {"reply", "data"} => link.held
    /\ knock = "list" => wpc \in {"list", "gone"}
    /\ knock = "file" => wpc \in {"approve", "gone"}
    /\ wpc \in {"list", "approve"} /\ knock = NoRequest => link.held
    /\ ppc = "dead" => knock = NoRequest
    /\ ~ link.held => link.toW = <<>>
    /\ ~ link.held /\ ~ link.open => link = NoLink
    /\ link.cut => link.held /\ ~ link.open /\ "peer" \in ill
    /\ link.toP # <<>> => /\ link.toP = <<[name |-> want, version |-> wver]>>
                          /\ \/ ppc = "tuple" /\ wpc \in {"reply", "gone"}
                             \/ link.cut

\* What is in the socket of a worker that waits for the approval or the list.
Asked ==
    wpc \in {"list", "approve"} /\ link.held =>
      /\ link.open => /\ wpc = "list" => ppc = "listing"
                      /\ wpc = "approve" => ppc = "tuple"
                      /\ link.toW = Msg("OK") /\ link.toP = <<>>
      /\ ~ link.open =>
           \/ link.toW \in {<<>>, Msg("OK")} /\ (wpc = "approve" => "peer" \in ill)
           \/ link.toW = Msg("IP_PORT_NOT_FOUND")
           \/ wpc = "list" /\ Len(link.toW) = 2 /\ link.toW[2] \in Listing

\* ... for the answer: the size announces the bytes that follow.
Replied ==
    wpc = "reply" =>
      /\ link.open =>
           \/ ppc = "tuple" /\ link.toW = <<>> /\ link.toP # <<>>
           \/ ppc = "compare" /\ link.toW = <<>> /\ link.toP = <<>> /\ pname = want /\ pver = wver
           \/ /\ ppc = "send" /\ SizeFirst /\ pname = want /\ link.toP = <<>>
              /\ link.toW[1].val # 0 /\ link.toW[1].val = Len(link.toW) - 1 + pleft
              /\ IsMultiple(Len(link.toW) - 1)
      /\ ~ link.open =>
           \/ link.toW \in {<<>>, Msg("FILE_NOT_FOUND"), Msg("FILE_UP_TO_DATE")}
           \/ SizeFirst /\ ("peer" \in ill \/ link.toW[1].val = Len(link.toW) - 1)

\* ... and for the bytes: no fewer come than it waits for, and without a short
\* read no more either.
Arriving ==
    wpc = "data" =>
      /\ BytesFrom(1)
      /\ link.open => /\ ppc = "send" /\ pname = want /\ link.toP = <<>>
                      /\ left <= Len(link.toW) + pleft
                      /\ "short" \notin ill => /\ left = Len(link.toW) + pleft
                                               /\ IsMultiple(Len(link.toW))
      /\ ~ link.open => "peer" \in ill \/ left <= Len(link.toW)

\* Who is to blame for a reset and for a thread that is lost.
Hanging ==
    /\ link.rst # "no" \/ (link.open /\ ~ link.held) \/ ppc = "spin" => HangUp
    /\ wpc = "gone" => "quit" \in ill
    /\ wpc \in {"dead", "stuck"} => "peer" \in ill

Control == link \in LinkType /\ Ends /\ Asked /\ Replied /\ Arriving /\ Hanging

--------------------------------------------------------------------------------
(* Steps of the worker. *)

\* Faults and leaked descriptors only add up.
LEMMA HangUpStays ==
  ASSUME ill \subseteq ill', fds \in Nat, fds' \in Nat, fds <= fds', HangUp
  PROVE  HangUp'
  <1>1. CASE ~ Room(2)
    <2>1. FdLimit \in Nat
      BY TransferAssumption
    <2>2. ~ (fds + 2 <= FdLimit)
      BY <1>1, Zenon DEF Room
    <2>3. \A m, n \in Nat : m <= n /\ ~ (m + 2 <= FdLimit) => ~ (n + 2 <= FdLimit)
      BY <2>1
    <2>4. ~ (fds' + 2 <= FdLimit)
      BY <2>2, <2>3
    <2> QED
      BY <2>4 DEF HangUp, Room
  <1>2. CASE ill \cap {"quit", "open", "short"} # {}
    BY <1>2 DEF HangUp
  <1> QED
    BY <1>1, <1>2 DEF HangUp

\* It closes its end after the peer has: nothing is left.
LEMMA LetsGo ==
  ASSUME Control, link.held, ~link.open, link' = NoLink,
         wpc' \in {"idle", "next", "dead", "stuck", "gone"}, ppc' = ppc, knock' = knock,
         ill \subseteq ill', fds \in Nat, fds' \in Nat, fds <= fds',
         wpc' \in {"dead", "stuck"} => "peer" \in ill', wpc' = "gone" => "quit" \in ill'
  PROVE  Control'
  <1>0. ~Serving /\ knock = NoRequest
    BY DEF Control, Ends
  <1>1. Ends'
    BY <1>0, NoLinkTyped DEF Ends, Serving, NoRequest
  <1>2. Asked' /\ Replied' /\ Arriving'
    BY DEF Asked, Replied, Arriving
  <1>3. Hanging'
    BY NoLinkTyped, HangUpStays DEF Control, Hanging
  <1> QED
    BY <1>1, <1>2, <1>3, NoLinkTyped DEF Control

\* It closes its end on a peer that goes on.
LEMMA HangsUp ==
  ASSUME Control, link.held, link.open, NEW unread, link' = WorkerClosed(link, unread),
         wpc' \in {"next", "gone"}, ppc' = ppc, knock' = knock, ill \subseteq ill', HangUp',
         wpc' = "gone" => "quit" \in ill' /\ want' = want /\ wver' = wver,
         wpc' = "next" => link.toP = <<>>
  PROVE  Control'
  <1>0. /\ link' \in LinkType /\ ~link'.held /\ link'.toW = <<>> /\ link'.open
        /\ link'.cut = link.cut /\ link'.toP = link.toP
    BY WorkerClosedLink DEF Control
  <1>a. /\ Serving /\ knock = NoRequest /\ ~link.cut /\ Ends
        /\ link.toP # <<>> => ppc = "tuple" /\ wpc \in {"reply", "gone"}
    BY DEF Control, Ends
  <1>1. Ends'
    <2>1. Serving' /\ ~link'.cut /\ ppc' # "dead"
      BY <1>0, <1>a DEF Serving
    <2>2. link'.toP # <<>> => /\ link'.toP = <<[name |-> want', version |-> wver']>>
                              /\ ppc' = "tuple" /\ wpc' \in {"reply", "gone"}
      BY <1>0, <1>a DEF Ends
    <2> QED
      BY <1>0, <1>a, <2>1, <2>2 DEF Ends, NoRequest
  <1>2. Asked' /\ Replied' /\ Arriving'
    BY DEF Asked, Replied, Arriving
  <1>3. Hanging'
    BY DEF Hanging
  <1> QED
    BY <1>0, <1>1, <1>2, <1>3 DEF Control

\* It goes on without a connection.
LEMMA MovesOn ==
  ASSUME Control, wpc \in {"idle", "next"}, wpc' \in {"idle", "next"},
         link' = link, ppc' = ppc, knock' = knock, ill' = ill,
         fds \in Nat, fds' \in Nat, fds <= fds'
  PROVE  Control'
  <1>1. Ends'
    BY DEF Control, Ends, Serving
  <1>2. Asked' /\ Replied' /\ Arriving'
    BY DEF Asked, Replied, Arriving
  <1>3. Hanging'
    BY HangUpStays DEF Control, Hanging
  <1> QED
    BY <1>1, <1>2, <1>3 DEF Control

\* It connects: the request waits in the backlog.
LEMMA Knocks ==
  ASSUME Control, wpc \in {"idle", "next"}, ppc # "dead",
         \/ wpc' = "list" /\ knock' = "list"
         \/ wpc' = "approve" /\ knock' = "file",
         link' = link, ppc' = ppc, ill' = ill, fds \in Nat, fds' \in Nat, fds <= fds'
  PROVE  Control'
  <1>1. Ends'
    BY DEF Control, Ends, Serving, NoRequest
  <1>2. Asked' /\ Replied' /\ Arriving'
    BY DEF Asked, Replied, Arriving, Control, Ends
  <1>3. Hanging'
    BY HangUpStays DEF Control, Hanging
  <1> QED
    BY <1>1, <1>2, <1>3 DEF Control

\* It leaves without a connection, or with a request that is still waiting.
LEMMA Leaves ==
  ASSUME Control, ~link.held, wpc # "gone", wpc' = "gone", link' = link, ppc' = ppc,
         knock' = knock, ill \subseteq ill', "quit" \in ill', fds \in Nat, fds' = fds
  PROVE  Control'
  <1>0. link.toP = <<>> /\ Ends
    BY DEF Control, Ends
  <1>1. Ends'
    BY <1>0 DEF Ends, Serving
  <1>2. Asked' /\ Replied' /\ Arriving'
    BY DEF Asked, Replied, Arriving
  <1>3. Hanging'
    <2>1. HangUp => HangUp'
      BY HangUpStays
    <2> QED
      BY <2>1 DEF Control, Hanging
  <1> QED
    BY <1>1, <1>2, <1>3 DEF Control

\* What a worker that waits can read, by the tag it finds.
LEMMA ReadsAnswer ==
  ASSUME Control
  PROVE  /\ wpc \in {"list", "approve"} /\ Incoming("IP_PORT_NOT_FOUND") => ~link.open
         /\ wpc = "approve" /\ Incoming("OK") =>
               link.toW = Msg("OK") /\ (~link.open => "peer" \in ill)
         /\ wpc = "reply" /\ (Incoming("FILE_NOT_FOUND") \/ Incoming("FILE_UP_TO_DATE")) =>
               ~link.open
         /\ wpc = "reply" /\ Incoming("FILE_SIZE") =>
               SizeFirst /\ (link.open => ppc = "send")
         /\ wpc = "list" /\ Incoming("OK") /\ Len(link.toW) = 2 =>
               ~link.open /\ link.toW[2] \in Listing
  <1>0. link.toW \in Seq(Messages)
    BY DEF Control, LinkType
  <1>1. SizeFirst => link.toW # <<>> /\ Head(link.toW) = link.toW[1] /\ Head(link.toW).tag = "FILE_SIZE"
    BY <1>0 DEF SizeFirst, Size
  <1>2. Len(Msg("OK")) = 1 /\ Len(Msg("IP_PORT_NOT_FOUND")) = 1
    BY MsgTyped
  <1>3. \A t : Incoming(t) => link.toW # <<>> /\ Head(link.toW).tag = t /\ link.held
    BY DEF Incoming, Readable
  <1>4. Asked /\ Replied
    BY DEF Control
  <1>5. wpc \in {"list", "approve"} /\ Incoming("IP_PORT_NOT_FOUND") => ~link.open
    BY <1>3, <1>4, MsgHead DEF Asked
  <1>6. wpc = "approve" /\ Incoming("OK") =>
               link.toW = Msg("OK") /\ (~link.open => "peer" \in ill)
    BY <1>3, <1>4, MsgHead DEF Asked
  <1>7. wpc = "reply" /\ (Incoming("FILE_NOT_FOUND") \/ Incoming("FILE_UP_TO_DATE")) => ~link.open
    BY <1>1, <1>3, <1>4 DEF Replied
  <1>8. wpc = "reply" /\ Incoming("FILE_SIZE") => SizeFirst /\ (link.open => ppc = "send")
    BY <1>1, <1>3, <1>4, MsgHead DEF Replied
  <1>9. wpc = "list" /\ Incoming("OK") /\ Len(link.toW) = 2 => ~link.open /\ link.toW[2] \in Listing
    BY <1>2, <1>3, <1>4 DEF Asked
  <1> QED
    BY <1>5, <1>6, <1>7, <1>8, <1>9

\* It sends its tuple.
LEMMA SendTupleControl ==
  ASSUME Control, WorkerTyped, FilesTyped, SendTuple
  PROVE  Control'
  <1>0. /\ wpc = "approve" /\ Incoming("OK") /\ link.held /\ ~link.cut /\ link \in LinkType
        /\ ppc' = ppc /\ want' = want /\ wver' = wver /\ knock' = knock /\ ill' = ill /\ fds' = fds
        /\ wpc' = "reply" /\ want \in Files /\ wver \in Version
    BY DEF SendTuple, Incoming, Readable, peer, hist, env, local, Control, WorkerTyped
  <1>1. link.toW = Msg("OK") /\ (~link.open => "peer" \in ill) /\ Tail(link.toW) = <<>>
    BY <1>0, ReadsAnswer, MsgHead
  <1>2. PICK c \in BOOLEAN :
          /\ c => ~ link.open
          /\ link' = [link EXCEPT !.toW = Tail(@), !.cut = c,
                        !.toP = IF link.open THEN <<[name |-> want, version |-> wver]>>
                                ELSE <<>>]
    BY DEF SendTuple
  <1> DEFINE ask == <<[name |-> want, version |-> wver]>>
  <1>3. ask \in Seq([name : Files, version : Version]) /\ ask # <<>>
    BY <1>0
  <1>4. PICK toP \in {ask, <<>>} : /\ link' = [link EXCEPT !.toW = <<>>, !.cut = c, !.toP = toP]
                                   /\ link.open => toP = ask
                                   /\ ~link.open => toP = <<>>
    BY <1>1, <1>2
  <1> HIDE DEF ask
  <1>5. toP \in Seq([name : Files, version : Version]) /\ <<>> \in Seq(Messages)
    <2>1. \A S : <<>> \in Seq(S)
      OBVIOUS
    <2> QED
      BY <1>3, <1>4, <2>1, Zenon
  <1>6. /\ link' \in LinkType /\ link'.held = link.held /\ link'.open = link.open
        /\ link'.rst = link.rst /\ link'.cut = c /\ link'.toP = toP /\ link'.toW = <<>>
    BY <1>0, <1>4, <1>5 DEF LinkType
  <1>a. /\ link'.toP # <<>> => link'.open /\ link'.toP = ask
        /\ link'.open => link'.toP # <<>>
    BY <1>3, <1>4, <1>6
  <1>b. /\ knock = NoRequest /\ link.rst = "no" /\ (link.open <=> Serving)
        /\ link.open => ppc = "tuple"
    BY <1>0 DEF Control, Ends, Asked
  <1>7. Ends'
    <2>1. link'.open <=> Serving'
      BY <1>0, <1>6, <1>b DEF Serving
    <2>2. link'.toP # <<>> => /\ link'.toP = <<[name |-> want', version |-> wver']>>
                              /\ ppc' = "tuple" /\ wpc' \in {"reply", "gone"}
      BY <1>0, <1>a, <1>6, <1>b DEF ask
    <2>3. link'.cut => link'.held /\ ~ link'.open /\ "peer" \in ill'
      BY <1>0, <1>1, <1>2, <1>6
    <2>4. link'.held /\ link'.rst = "no" /\ knock' = NoRequest /\ wpc' = "reply"
      BY <1>0, <1>6, <1>b
    <2> QED
      BY <2>1, <2>2, <2>3, <2>4 DEF Ends, NoRequest
  <1>8. Asked' /\ Arriving'
    BY <1>0 DEF Asked, Arriving
  <1>9. Replied'
    BY <1>0, <1>6, <1>a, <1>b DEF Replied
  <1>10. Hanging'
    BY <1>0, <1>6, <1>b DEF Control, Hanging, HangUp, Room
  <1> QED
    BY <1>6, <1>7, <1>8, <1>9, <1>10 DEF Control

\* Whole chunks.
LEMMA Multiples ==
  /\ IsMultiple(0)
  /\ \A n \in Nat : IsMultiple(n) => IsMultiple(n + Chunk)
  /\ \A n \in Nat : IsMultiple(n) /\ n # 0 => Chunk <= n /\ IsMultiple(n - Chunk)
  <1>0. Chunk \in Nat /\ Chunk # 0
    BY TransferAssumption
  <1>1. IsMultiple(0)
    <2>1. 0 = 0 * Chunk /\ 0 \in Nat
      BY <1>0
    <2> QED
      BY <2>1 DEF IsMultiple
  <1>2. ASSUME NEW n \in Nat, IsMultiple(n) PROVE IsMultiple(n + Chunk)
    <2>1. PICK q \in Nat : n = q * Chunk
      BY <1>2 DEF IsMultiple
    <2>2. n + Chunk = (q + 1) * Chunk /\ q + 1 \in Nat
      BY <1>0, <2>1
    <2> QED
      BY <2>2 DEF IsMultiple
  <1>3. ASSUME NEW n \in Nat, IsMultiple(n), n # 0 PROVE Chunk <= n /\ IsMultiple(n - Chunk)
    <2>1. PICK q \in Nat : n = q * Chunk
      BY <1>3 DEF IsMultiple
    <2>2. q # 0
      BY <1>0, <1>3, <2>1
    <2>3. q - 1 \in Nat /\ n - Chunk = (q - 1) * Chunk
      BY <1>0, <2>1, <2>2
    <2>4. (q - 1) * Chunk \in Nat
      BY <1>0, <2>3
    <2>5. Chunk <= n
      BY <1>0, <2>3, <2>4
    <2> QED
      BY <2>3, <2>5 DEF IsMultiple
  <1> QED
    BY <1>1, <1>2, <1>3

\* What Short says of the number of bytes read.
LEMMA ShortRead ==
  ASSUME NEW n \in Nat, NEW k \in 0 .. n, link.toW \in Seq(Messages), Short(n, k)
  PROVE  /\ k <= Len(link.toW)
         /\ ill' = ill \/ ill' = ill \cup {"short"}
         /\ "short" \notin ill' => /\ Len(link.toW) < n => k = Len(link.toW)
                                   /\ n <= Len(link.toW) => k = n
  <1>0. Len(link.toW) \in Nat
    OBVIOUS
  <1>1. CASE Len(link.toW) < n
    <2>1. \/ k = Len(link.toW) /\ ill' = ill
          \/ k \in 1 .. Len(link.toW) - 1 /\ Fault("short")
      BY <1>1 DEF Short
    <2> QED
      BY <1>0, <1>1, <2>1 DEF Fault
  <1>2. CASE n <= Len(link.toW)
    <2>1. \/ k = n /\ ill' = ill
          \/ k \in 1 .. n - 1 /\ Fault("short")
      BY <1>0, <1>2 DEF Short
    <2> QED
      BY <1>0, <1>2, <2>1 DEF Fault
  <1> QED
    BY <1>0, <1>1, <1>2

\* It takes bytes out of its socket and goes on waiting for more.
LEMMA TakesControl ==
  ASSUME Control, link.held, NEW k \in 1 .. Len(link.toW),
         link' = [link EXCEPT !.toW = SubSeq(@, k + 1, Len(@))],
         wpc \in {"reply", "data"}, wpc' = "data",
         ppc' = ppc, knock' = knock, ill \subseteq ill', fds \in Nat, fds' = fds,
         link.toP = <<>> \/ (want' = want /\ wver' = wver /\ link.cut),
         Arriving'
  PROVE  Control'
  <1>0. /\ link \in LinkType /\ link.toW \in Seq(Messages) /\ Len(link.toW) \in Nat
    BY DEF Control, LinkType
  <1>1. SubSeq(link.toW, k + 1, Len(link.toW)) \in Seq(Messages)
    <2>1. k + 1 \in Nat \ {0} /\ Len(link.toW) \in 0 .. Len(link.toW)
      BY <1>0
    <2> QED
      BY <1>0, <2>1, PartOf
  <1>2. /\ link' \in LinkType /\ link'.held = link.held /\ link'.open = link.open
        /\ link'.rst = link.rst /\ link'.cut = link.cut /\ link'.toP = link.toP
    BY <1>0, <1>1 DEF LinkType
  <1>3. /\ knock = NoRequest /\ link.rst = "no" /\ (link.open <=> Serving)
        /\ link.cut => ~link.open /\ "peer" \in ill
        /\ link.toP # <<>> => link.toP = <<[name |-> want, version |-> wver]>> /\ link.cut
    BY DEF Control, Ends
  <1>4. Ends'
    <2>1. link'.open <=> Serving'
      BY <1>2, <1>3 DEF Serving
    <2>2. link'.toP # <<>> => /\ link'.toP = <<[name |-> want', version |-> wver']>>
                              /\ link'.cut
      BY <1>2, <1>3
    <2>3. link'.cut => link'.held /\ ~ link'.open /\ "peer" \in ill'
      BY <1>2, <1>3
    <2>4. link'.held /\ link'.rst = "no" /\ knock' = NoRequest /\ wpc' = "data"
      BY <1>2, <1>3
    <2> QED
      BY <2>1, <2>2, <2>3, <2>4 DEF Ends, NoRequest
  <1>5. Asked' /\ Replied'
    BY DEF Asked, Replied
  <1>6. Hanging'
    <2>1. HangUp => HangUp'
      BY HangUpStays
    <2>2. link'.rst = "no" /\ link'.held
      BY <1>2, <1>3
    <2> QED
      BY <2>1, <2>2 DEF Control, Hanging
  <1> QED
    BY <1>2, <1>4, <1>5, <1>6 DEF Control

\* The size is read: as many bytes are on their way.
LEMMA OpenCopyControl ==
  ASSUME Control, WorkerTyped, PeerTyped, FilesTyped, wpc = "reply", Incoming("FILE_SIZE"),
         file_size(Head(link.toW)) # 0, wpc' = "data", left' = file_size(Head(link.toW)),
         link' = [link EXCEPT !.toW = Tail(@)], ppc' = ppc, knock' = knock, ill' = ill,
         fds' = fds, want' = want, wver' = wver, pname' = pname, pleft' = pleft
  PROVE  Control'
  <1>0. /\ link.held /\ ~link.cut /\ link \in LinkType /\ link.toW \in Seq(Messages)
        /\ link.toW # <<>> /\ fds \in Nat /\ pleft \in Nat /\ Len(link.toW) \in Nat
    BY DEF Incoming, Readable, Control, LinkType, FilesTyped, PeerTyped
  <1>1. SizeFirst /\ (link.open => ppc = "send")
    BY ReadsAnswer
  <1>2. /\ Tail(link.toW) = SubSeq(link.toW, 2, Len(link.toW)) /\ Len(link.toW) >= 1
        /\ Tail(link.toW) \in Seq(Messages) /\ Len(Tail(link.toW)) = Len(link.toW) - 1
        /\ \A b \in 1 .. Len(Tail(link.toW)) : Tail(link.toW)[b] = link.toW[b + 1]
    BY <1>0, HeadTailProperties, TailIsSubSeq
  <1>3. link'.toW = Tail(link.toW) /\ link'.open = link.open /\ link'.toP = link.toP
    BY <1>0 DEF LinkType
  <1>4. /\ left' = link.toW[1].val /\ left' \in Nat
    <2>1. Head(link.toW) = link.toW[1]
      BY <1>0
    <2> QED
      BY <1>1, <2>1 DEF file_size, SizeFirst, Size
  <1>5. ASSUME NEW b \in 1 .. Len(link'.toW) PROVE link'.toW[b] \in Data
    <2>1. b + 1 \in 2 .. Len(link.toW) /\ link'.toW[b] = link.toW[b + 1]
      BY <1>0, <1>2, <1>3
    <2> QED
      BY <1>1, <2>1 DEF SizeFirst, BytesFrom
  <1>6. ASSUME link'.open
        PROVE  /\ ppc' = "send" /\ pname' = want' /\ link'.toP = <<>>
               /\ left' = Len(link'.toW) + pleft' /\ IsMultiple(Len(link'.toW))
    <2>1. link.open /\ ppc = "send"
      BY <1>1, <1>3, <1>6
    <2>2. /\ pname = want /\ link.toP = <<>> /\ link.toW[1].val = Len(link.toW) - 1 + pleft
          /\ IsMultiple(Len(link.toW) - 1)
      BY <2>1 DEF Control, Replied
    <2> QED
      BY <1>0, <1>2, <1>3, <1>4, <2>1, <2>2
  <1>7. ASSUME ~link'.open PROVE "peer" \in ill' \/ left' <= Len(link'.toW)
    <2>1. ~link.open /\ Len(link'.toW) = Len(link.toW) - 1
      BY <1>2, <1>3, <1>7
    <2>2. "peer" \in ill \/ link.toW[1].val = Len(link.toW) - 1
      <3>1. link.toW \notin {<<>>, Msg("FILE_NOT_FOUND"), Msg("FILE_UP_TO_DATE")}
        BY MsgHead DEF Incoming
      <3> QED
        BY <2>1, <3>1 DEF Control, Replied
    <2> QED
      BY <1>0, <1>4, <2>1, <2>2
  <1>8. Arriving'
    <2>1. BytesFrom(1)'
      BY <1>5 DEF BytesFrom
    <2>2. link'.open => /\ ppc' = "send" /\ pname' = want' /\ link'.toP = <<>>
                        /\ left' <= Len(link'.toW) + pleft'
                        /\ "short" \notin ill' => /\ left' = Len(link'.toW) + pleft'
                                                  /\ IsMultiple(Len(link'.toW))
      BY <1>4, <1>6
    <2> QED
      BY <1>7, <2>1, <2>2 DEF Arriving, IsMultiple
  <1>9. link' = [link EXCEPT !.toW = SubSeq(@, 1 + 1, Len(@))] /\ 1 \in 1 .. Len(link.toW)
    <2>1. 1 + 1 = 2 /\ 1 \in 1 .. Len(link.toW)
      BY <1>0, <1>2
    <2> QED
      BY <1>2, <2>1
  <1>10. link.toP = <<>>
    <2>1. ppc # "tuple"
      BY <1>1 DEF Control, Ends, Serving
    <2> QED
      BY <1>0, <2>1 DEF Control, Ends
  <1> QED
    BY <1>0, <1>8, <1>9, <1>10, TakesControl

\* A chunk is read: what is still to come is no less than what it waits for.
LEMMA ReadChunkControl ==
  ASSUME Control, WorkerTyped, PeerTyped, FilesTyped, ReadChunk
  PROVE  Control'
  <1>0. /\ wpc = "data" /\ left >= Chunk /\ Readable /\ link.toW # <<>> /\ link.held /\ ~link.cut
        /\ link \in LinkType /\ link.toW \in Seq(Messages) /\ Len(link.toW) \in Nat
        /\ fds \in Nat /\ pleft \in Nat /\ left \in Nat /\ Chunk \in Nat /\ Chunk # 0
    BY TransferAssumption DEF ReadChunk, Readable, Control, LinkType, FilesTyped, PeerTyped,
                              WorkerTyped
  <1>1. /\ wpc' = wpc /\ ppc' = ppc /\ pname' = pname /\ pleft' = pleft /\ knock' = knock
        /\ want' = want /\ wver' = wver /\ fds' = fds /\ left' = left - Chunk
    BY DEF ReadChunk, peer
  <1>2. PICK k \in 1 .. Chunk :
           Short(Chunk, k) /\ link' = [link EXCEPT !.toW = SubSeq(@, k + 1, Len(@))]
    BY DEF ReadChunk
  <1>3. /\ k <= Len(link.toW) /\ ill \subseteq ill'
        /\ "short" \notin ill' => /\ Len(link.toW) < Chunk => k = Len(link.toW)
                                  /\ Chunk <= Len(link.toW) => k = Chunk
    BY <1>0, <1>2, ShortRead
  <1>4. /\ link'.toW = SubSeq(link.toW, k + 1, Len(link.toW))
        /\ link'.open = link.open /\ link'.toP = link.toP
    BY <1>0, <1>2 DEF LinkType
  <1>5. /\ Len(link'.toW) = Len(link.toW) - k
        /\ \A b \in 1 .. Len(link'.toW) : link'.toW[b] = link.toW[k + b]
    <2>1. k + 1 \in Nat \ {0} /\ Len(link.toW) \in 0 .. Len(link.toW) /\ k + 1 - 1 = k
      BY <1>0, <1>2
    <2>2. /\ k + 1 <= Len(link.toW) => Len(link'.toW) = Len(link.toW) - (k + 1) + 1
          /\ Len(link.toW) < k + 1 => Len(link'.toW) = 0
          /\ \A b \in 1 .. Len(link'.toW) : link'.toW[b] = link.toW[k + 1 - 1 + b]
      BY <1>0, <1>4, <2>1, PartOf, SMTT(30)
    <2> QED
      BY <1>0, <1>3, <2>1, <2>2
  <1>6. BytesFrom(1)'
    <2> SUFFICES ASSUME NEW b \in 1 .. Len(link'.toW) PROVE link'.toW[b] \in Data
      BY DEF BytesFrom
    <2>1. k + b \in 1 .. Len(link.toW) /\ link'.toW[b] = link.toW[k + b]
      BY <1>0, <1>5
    <2> QED
      BY <1>0, <2>1 DEF Control, Arriving, BytesFrom
  <1>7. ASSUME link.open
        PROVE  /\ ppc = "send" /\ pname = want /\ link.toP = <<>>
               /\ left - Chunk <= Len(link'.toW) + pleft
               /\ "short" \notin ill' => /\ left - Chunk = Len(link'.toW) + pleft
                                         /\ IsMultiple(Len(link'.toW))
    <2>1. /\ ppc = "send" /\ pname = want /\ link.toP = <<>> /\ left <= Len(link.toW) + pleft
          /\ "short" \notin ill => left = Len(link.toW) + pleft /\ IsMultiple(Len(link.toW))
      BY <1>0, <1>7 DEF Control, Arriving
    <2>2. left - Chunk <= Len(link'.toW) + pleft
      <3>1. PICK n, j : n = Len(link.toW) /\ j = Len(link'.toW)
        OBVIOUS
      <3>2. n \in Nat /\ k \in Nat /\ j = n - k
        BY <1>0, <1>2, <1>5, <3>1
      <3>3. k <= Chunk /\ left <= n + pleft
        BY <1>0, <1>2, <2>1, <3>1
      <3>4. left - Chunk <= j + pleft
        BY <1>0, <3>2, <3>3
      <3> QED
        BY <3>1, <3>4
    <2>3. ASSUME "short" \notin ill'
          PROVE  left - Chunk = Len(link'.toW) + pleft /\ IsMultiple(Len(link'.toW))
      <3>1. left = Len(link.toW) + pleft /\ IsMultiple(Len(link.toW))
        BY <1>3, <2>1, <2>3
      <3>2. Chunk <= Len(link.toW) /\ IsMultiple(Len(link.toW) - Chunk)
        <4>1. Len(link.toW) # 0
          BY <1>0
        <4> QED
          BY <1>0, <3>1, <4>1, Multiples
      <3>3. k = Chunk
        BY <1>3, <2>3, <3>2
      <3> QED
        BY <1>0, <1>5, <3>1, <3>2, <3>3
    <2> QED
      BY <2>1, <2>2, <2>3
  <1>8. ASSUME ~link.open PROVE "peer" \in ill' \/ left - Chunk <= Len(link'.toW)
    <2>1. "peer" \in ill \/ left <= Len(link.toW)
      BY <1>0, <1>8 DEF Control, Arriving
    <2> QED
      BY <1>0, <1>2, <1>3, <1>5, <2>1
  <1>9. Arriving'
    BY <1>1, <1>4, <1>6, <1>7, <1>8 DEF Arriving, IsMultiple
  <1>10. link.toP = <<>>
    <2>1. wpc = "data" => ppc # "tuple"
      BY DEF Control, Ends, Serving, Arriving
    <2> QED
      BY <1>0, <2>1 DEF Control, Ends
  <1>11. k \in 1 .. Len(link.toW)
    BY <1>0, <1>2, <1>3
  <1> QED
    BY <1>0, <1>1, <1>2, <1>3, <1>9, <1>10, <1>11, TakesControl

\* The last read: without a short read the peer has closed by then.
LEMMA ReadRestControl ==
  ASSUME Control, WorkerTyped, PeerTyped, FilesTyped, ReadRest
  PROVE  Control'
  <1>0. /\ wpc = "data" /\ left < Chunk /\ Readable /\ link.held /\ ~link.cut
        /\ link \in LinkType /\ link.toW \in Seq(Messages) /\ Len(link.toW) \in Nat
        /\ fds \in Nat /\ pleft \in Nat /\ left \in Nat /\ Chunk \in Nat /\ Chunk # 0
    BY TransferAssumption DEF ReadRest, Readable, Control, LinkType, FilesTyped, PeerTyped,
                              WorkerTyped
  <1>1. wpc' = "next" /\ ppc' = ppc /\ knock' = knock /\ fds' = fds
    BY DEF ReadRest, peer
  <1>2. PICK k \in 0 .. left :
           /\ Short(left, k)
           /\ link' = WorkerClosed(link, SubSeq(link.toW, k + 1, Len(link.toW)))
    BY DEF ReadRest
  <1>3. ill \subseteq ill'
    BY <1>0, <1>2, ShortRead
  <1>4. CASE ~link.open
    <2>1. link' = NoLink
      BY <1>0, <1>2, <1>4, WorkerClosedLink
    <2> QED
      BY <1>0, <1>1, <1>3, <1>4, <2>1, LetsGo
  <1>5. CASE link.open
    <2>1. /\ link.toP = <<>>
          /\ "short" \notin ill => left = Len(link.toW) + pleft /\ IsMultiple(Len(link.toW))
      BY <1>0, <1>5 DEF Control, Arriving
    <2>2. "short" \in ill
      <3> SUFFICES ASSUME "short" \notin ill PROVE FALSE
        OBVIOUS
      <3>1. Len(link.toW) # 0
        BY <1>0, <1>5 DEF Readable
      <3>2. Chunk <= Len(link.toW)
        BY <1>0, <2>1, <3>1, Multiples
      <3> QED
        BY <1>0, <2>1, <3>2
    <2>3. HangUp'
      BY <1>3, <2>2 DEF HangUp
    <2> QED
      BY <1>0, <1>1, <1>2, <1>3, <1>5, <2>1, <2>3, HangsUp
  <1> QED
    BY <1>4, <1>5

\* A request is over, and the connection with it.
LEMMA FinishControl ==
  ASSUME Control, FilesTyped, NEW fate, Finish(fate), link.held,
         ppc' = ppc, knock' = knock, ill \subseteq ill', fds' = fds,
         link.open => HangUp' /\ link.toP = <<>>
  PROVE  Control'
  <1>1. wpc' = "next" /\ fds \in Nat /\ link \in LinkType
    BY DEF Finish, Continue, FilesTyped, Control
  <1>2. PICK unread : link' = WorkerClosed(link, unread)
    BY DEF Finish
  <1>3. CASE ~link.open
    <2>1. link' = NoLink
      BY <1>1, <1>2, <1>3, WorkerClosedLink
    <2> QED
      BY <1>1, <1>3, <2>1, LetsGo
  <1>4. CASE link.open
    BY <1>1, <1>2, <1>4, HangsUp
  <1> QED
    BY <1>3, <1>4

\* Every step of the worker keeps the two ends together.
LEMMA WorkerControl ==
  ASSUME Control, WorkerTyped, PeerTyped, FilesTyped, FilesTyped',
         WorkerNext \/ NotWritable \/ WorkerQuits
  PROVE  Control'
  <1> USE DEF peer, local, hist, env
  <1>0. fds \in Nat /\ fds' \in Nat /\ link \in LinkType /\ ill \subseteq ill
    BY DEF FilesTyped, Control
  <1>1. CASE AskList
    <2>1. CASE ppc = "dead" \/ ~ Room(1)
      <3>1. wpc = "idle" /\ wpc' = wpc /\ knock' = knock /\ link' = link /\ ppc' = ppc
            /\ ill' = ill /\ fds' = fds
        BY <1>1, <2>1 DEF AskList
      <3> QED
        BY <1>0, <3>1, MovesOn
    <2>2. CASE ~(ppc = "dead" \/ ~ Room(1))
      <3>1. /\ wpc = "idle" /\ wpc' = "list" /\ knock' = "list" /\ link' = link /\ ppc' = ppc
            /\ ill' = ill /\ fds' = fds
        BY <1>1, <2>2 DEF AskList
      <3> QED
        BY <1>0, <2>2, <3>1, Knocks
    <2> QED
      BY <2>1, <2>2
  <1>2. CASE GetList \/ NoList
    <2>1. /\ wpc = "list" /\ wpc' \in {"next", "idle"} /\ link' = WorkerClosed(link, <<>>)
          /\ ppc' = ppc /\ knock' = knock /\ ill' = ill /\ fds' = fds /\ link.held
      BY <1>2 DEF GetList, NoList, Incoming, AtEOF, Readable
    <2>2. ~link.open
      <3>1. CASE GetList
        BY <3>1, ReadsAnswer DEF GetList
      <3>2. CASE NoList
        BY <2>1, <3>2, ReadsAnswer DEF NoList, AtEOF, Readable
      <3> QED
        BY <1>2, <3>1, <3>2
    <2>3. link' = NoLink
      BY <1>0, <2>1, <2>2, WorkerClosedLink
    <2> QED
      BY <1>0, <2>1, <2>2, <2>3, LetsGo
  <1>3. CASE ListDone
    <2>1. wpc = "next" /\ wpc' = "idle" /\ knock' = knock /\ link' = link /\ ppc' = ppc
          /\ ill' = ill /\ fds' = fds
      BY <1>3 DEF ListDone
    <2> QED
      BY <1>0, <2>1, MovesOn
  <1>4. CASE MakeDir
    <2>1. wpc = "next" /\ wpc' = wpc /\ knock' = knock /\ link' = link /\ ppc' = ppc
          /\ ill' = ill
      BY <1>4 DEF MakeDir
    <2>2. fds <= fds'
      BY <1>0, <1>4 DEF MakeDir
    <2> QED
      BY <1>0, <2>1, <2>2, MovesOn
  <1>5. CASE AskFile
    <2> DEFINE connected == ppc # "dead" /\ Room(1)
    <2>1. /\ wpc = "next" /\ link' = link /\ ppc' = ppc /\ ill' = ill
          /\ wpc' = IF connected THEN "approve" ELSE "next"
          /\ knock' = IF connected THEN "file" ELSE knock
      BY <1>5 DEF AskFile
    <2>2. fds <= fds'
      BY <1>0, <1>5 DEF AskFile
    <2>3. CASE connected
      BY <1>0, <2>1, <2>2, <2>3, Knocks
    <2>4. CASE ~connected
      BY <1>0, <2>1, <2>2, <2>4, MovesOn
    <2> QED
      BY <2>3, <2>4
  <1>6. CASE SendTuple
    BY <1>6, SendTupleControl
  <1>7. CASE WorkerEnds
    <2>1. /\ wpc = "approve" /\ wpc' = "dead" /\ link' = WorkerClosed(link, <<>>)
          /\ ppc' = ppc /\ knock' = knock /\ ill' = ill /\ fds' = fds
          /\ link.held /\ ~link.open /\ link.toW = <<>>
      BY <1>7 DEF WorkerEnds, AtEOF, Readable
    <2>2. link' = NoLink
      BY <1>0, <2>1, WorkerClosedLink
    <2>3. "peer" \in ill
      BY <2>1, MsgHead DEF Control, Asked
    <2> QED
      BY <1>0, <2>1, <2>2, <2>3, LetsGo
  <1>8. CASE GetNothing
    <2>1. PICK fate : Finish(fate)
      BY <1>8 DEF GetNothing
    <2>2. ppc' = ppc /\ knock' = knock /\ ill' = ill /\ fds' = fds /\ link.held
      BY <1>8 DEF GetNothing, Incoming, AtEOF, Readable
    <2>3. ~link.open
      BY <1>8, ReadsAnswer DEF GetNothing, AtEOF, Readable
    <2> QED
      BY <1>0, <2>1, <2>2, <2>3, FinishControl
  <1>9. CASE OpenCopy
    <2>0. /\ wpc = "reply" /\ Incoming("FILE_SIZE") /\ link.held
          /\ ppc' = ppc /\ knock' = knock /\ ill' = ill /\ fds' = fds
          /\ pname' = pname /\ pleft' = pleft
      BY <1>9 DEF OpenCopy, Incoming, Readable
    <2>1. CASE file_size(Head(link.toW)) = 0
      <3>1. Finish("copied")
        BY <1>9, <2>1 DEF OpenCopy
      <3>2. ~link.open
        <4> SUFFICES ASSUME link.open PROVE FALSE
          OBVIOUS
        <4>1. ppc = "send" /\ SizeFirst
          BY <2>0, ReadsAnswer
        <4>2. link.toW[1].val # 0
          BY <2>0, <4>1 DEF Control, Replied
        <4>3. Head(link.toW) = link.toW[1]
          BY <1>0, <4>1 DEF SizeFirst, LinkType
        <4> QED
          BY <2>1, <4>2, <4>3 DEF file_size
      <3> QED
        BY <1>0, <2>0, <3>1, <3>2, FinishControl
    <2>2. CASE file_size(Head(link.toW)) # 0
      <3>1. /\ wpc' = "data" /\ left' = file_size(Head(link.toW)) /\ want' = want /\ wver' = wver
            /\ link' = [link EXCEPT !.toW = Tail(@)]
        BY <1>9, <2>2 DEF OpenCopy
      <3> QED
        BY <2>0, <2>2, <3>1, OpenCopyControl
    <2> QED
      BY <2>1, <2>2
  <1>10. CASE ReadChunk
    BY <1>10, ReadChunkControl
  <1>11. CASE ReadRest
    BY <1>11, ReadRestControl
  <1>12. CASE WorkerStuck
    <2>1. /\ link' = NoLink /\ wpc' = "stuck" /\ link.held
          /\ ppc' = ppc /\ knock' = knock /\ ill' = ill /\ fds' = fds
      BY <1>12 DEF WorkerStuck, AtEOF, Readable
    <2>2. ~link.open /\ "peer" \in ill
      <3>1. CASE link.cut
        BY <3>1 DEF Control, Ends
      <3>2. CASE wpc = "data" /\ left >= Chunk /\ AtEOF
        <4>1. ~link.open /\ Len(link.toW) = 0 /\ Chunk \in Nat /\ Chunk # 0 /\ left \in Nat
          BY <3>2, TransferAssumption DEF AtEOF, Readable, WorkerTyped
        <4> QED
          BY <3>2, <4>1 DEF Control, Arriving
      <3> QED
        BY <1>12, <3>1, <3>2 DEF WorkerStuck
    <2> QED
      BY <1>0, <2>1, <2>2, LetsGo
  <1>13. CASE OutOfDescriptors \/ NotWritable
    <2>1. /\ wpc = "reply" /\ Incoming("FILE_SIZE") /\ link.held /\ Finish("failed")
          /\ ppc' = ppc /\ knock' = knock /\ fds' = fds
      BY <1>13 DEF OutOfDescriptors, NotWritable, OpenFails, Incoming, Readable
    <2>2. ill \subseteq ill' /\ HangUp'
      <3>1. CASE OutOfDescriptors
        BY <2>1, <3>1 DEF OutOfDescriptors, HangUp, Room
      <3>2. CASE NotWritable
        BY <3>2 DEF NotWritable, Fault, HangUp
      <3> QED
        BY <1>13, <3>1, <3>2
    <2>3. link.open => link.toP = <<>>
      <3>1. link.open => ppc = "send"
        BY <2>1, ReadsAnswer
      <3> QED
        BY <2>1, <3>1 DEF Control, Replied
    <2> QED
      BY <1>0, <2>1, <2>2, <2>3, FinishControl
  <1>14. CASE WorkerQuits
    <2>1. /\ wpc # "gone" /\ wpc' = "gone" /\ ppc' = ppc /\ knock' = knock /\ fds' = fds
          /\ want' = want /\ wver' = wver /\ ill \subseteq ill' /\ "quit" \in ill'
          /\ link' = IF link.held THEN WorkerClosed(link, link.toW) ELSE link
      BY <1>14 DEF WorkerQuits, Fault
    <2>2. HangUp'
      BY <2>1 DEF HangUp
    <2>3. CASE ~link.held
      BY <1>0, <2>1, <2>3, Leaves
    <2>4. CASE link.held /\ link.open
      BY <1>0, <2>1, <2>2, <2>4, HangsUp
    <2>5. CASE link.held /\ ~link.open
      <3>1. link' = NoLink
        BY <1>0, <2>1, <2>5, WorkerClosedLink
      <3> QED
        BY <1>0, <2>1, <2>5, <3>1, LetsGo
    <2> QED
      BY <2>3, <2>4, <2>5
  <1> QED
    BY <1>1, <1>2, <1>3, <1>4, <1>5, <1>6, <1>7, <1>8, <1>9, <1>10, <1>11, <1>12, <1>13, <1>14
       DEF WorkerNext

--------------------------------------------------------------------------------
(* Steps of the peer. *)

\* What the connection depends on at the worker's side.
WorkerStays == /\ wpc' = wpc /\ want' = want /\ wver' = wver /\ left' = left
               /\ fds' = fds /\ fds \in Nat /\ ill \subseteq ill'

\* It is through with a connection the worker has closed.
LEMMA ClosesLost ==
  ASSUME Control, WorkerStays, ~link.held, link' = NoLink, knock' = knock,
         ppc' \in {"idle", "spin"}, ppc # "dead", ppc' = "spin" => HangUp
  PROVE  Control'
  <1>0. HangUp => HangUp'
    BY HangUpStays DEF WorkerStays
  <1>1. Ends'
    BY NoLinkTyped DEF Control, Ends, Serving, WorkerStays
  <1>2. Asked' /\ Replied' /\ Arriving'
    <2>1. wpc \notin {"reply", "data"} /\ ~link'.held
      BY NoLinkTyped DEF Control, Ends
    <2> QED
      BY <2>1 DEF Asked, Replied, Arriving, WorkerStays
  <1>3. Hanging'
    BY <1>0, NoLinkTyped DEF Control, Hanging, WorkerStays
  <1> QED
    BY <1>1, <1>2, <1>3, NoLinkTyped DEF Control

\* It closes a connection the worker still holds, with its tuple read.
LEMMA ClosesHeld ==
  ASSUME Control, WorkerStays, wpc \in {"list", "approve", "reply", "data"},
         link' \in LinkType, link'.held, ~link'.open, ~link'.cut, link'.rst = "no",
         link'.toP = <<>>, knock' = NoRequest, ppc' \in {"idle", "dead"},
         Asked', Replied', Arriving'
  PROVE  Control'
  <1>1. Ends'
    BY DEF Ends, Serving, WorkerStays, NoRequest
  <1>2. Hanging'
    BY DEF Hanging, WorkerStays
  <1> QED
    BY <1>1, <1>2 DEF Control

\* It goes on with a connection.
LEMMA GoesOn ==
  ASSUME Control, WorkerStays, link.open, ~link.cut,
         link' \in LinkType, link'.held = link.held, link'.open, ~link'.cut,
         link.held => link'.rst = link.rst, ~link.held => link'.toW = <<>>,
         link'.toP = <<>>, knock' = knock, ppc' \in {"compare", "send"},
         Asked', Replied', Arriving'
  PROVE  Control'
  <1>0. HangUp => HangUp'
    BY HangUpStays DEF WorkerStays
  <1>1. Ends'
    <2>1. link'.held <=> link.held
      OBVIOUS
    <2>2. Serving' /\ ppc' # "dead"
      BY DEF Serving
    <2> QED
      BY <2>1, <2>2 DEF Ends, WorkerStays, Control
  <1>2. Hanging'
    <2>1. link'.held <=> link.held
      OBVIOUS
    <2> QED
      BY <1>0, <2>1 DEF Hanging, WorkerStays, Control, Ends
  <1> QED
    BY <1>1, <1>2 DEF Control

\* A connection on which nothing but one answer has been written.
Answered(m, l, msgs) ==
    /\ m \in LinkType /\ (m.held <=> l.held) /\ m.open /\ ~m.cut /\ m.toP = <<>>
    /\ l.held => m.rst = "no" /\ m.toW = msgs
    /\ ~l.held => m.toW = <<>>

LEMMA FirstAnswer ==
  ASSUME NEW l \in LinkType, NEW msgs \in Seq(Messages),
         l.open /\ ~l.cut /\ l.rst = "no" /\ l.toP = <<>> /\ l.toW = <<>>
  PROVE  Answered(Sent(l, msgs), l, msgs)
  <1>1. <<>> \o msgs = msgs
    BY ConcatEmptySeq
  <1>2. PICK m : m = Sent(l, msgs)
    OBVIOUS
  <1>3. /\ m \in LinkType /\ m.held = l.held /\ m.open = l.open /\ m.cut = l.cut
        /\ m.toP = l.toP
        /\ l.held => m.rst = l.rst /\ m.toW = l.toW \o msgs
        /\ ~l.held => m.toW = l.toW
    BY <1>2, SentLink
  <1>4. l.held => m.toW = msgs
    BY <1>1, <1>3
  <1> QED
    BY <1>2, <1>3, <1>4 DEF Answered

\* accept.
LEMMA AcceptControl ==
  ASSUME Control, FilesTyped, Accept
  PROVE  Control'
  <1> DEFINE l == [NoLink EXCEPT !.open = TRUE, !.held = wpc \in {"list", "approve"}]
  <1>0. /\ ppc = "idle" /\ knock # NoRequest /\ knock' = NoRequest /\ WorkerStays
        /\ \/ /\ link' = Sent(l, Msg("OK"))
              /\ ppc' = IF knock = "list" THEN "listing" ELSE "tuple"
           \/ ppc' = "idle" /\ link' = PeerClosed(Sent(l, Msg("IP_PORT_NOT_FOUND")))
    BY DEF Accept, WorkerStays, worker, local, Served, FilesTyped, Fault, hist
  <1>1. ~link.open /\ ~link.held /\ link = NoLink /\ link.toP = <<>>
    BY <1>0, NoLinkTyped DEF Control, Ends, Serving
  <1>2. /\ l \in LinkType /\ l.open /\ ~l.cut /\ l.rst = "no" /\ l.toP = <<>> /\ l.toW = <<>>
        /\ l.held <=> wpc \in {"list", "approve"}
    <2>0. (wpc \in {"list", "approve"}) \in BOOLEAN
      OBVIOUS
    <2>1. PICK h \in BOOLEAN : h = (wpc \in {"list", "approve"})
      BY <2>0, Zenon
    <2>2. l = [NoLink EXCEPT !.open = TRUE, !.held = h]
      BY <2>1, Zenon
    <2>3. /\ l \in LinkType /\ l.open /\ ~l.cut /\ l.rst = "no" /\ l.toP = <<>> /\ l.toW = <<>>
          /\ l.held = h
      BY <2>2, NoLinkTyped DEF LinkType
    <2> QED
      BY <2>1, <2>3
  <1>3. knock \in {"list", "file"} /\ wpc \in {"list", "approve", "gone"}
    BY <1>0 DEF FilesTyped, Control, Ends
  <1>4. Msg("OK") \in Seq(Messages) /\ Msg("IP_PORT_NOT_FOUND") \in Seq(Messages)
    BY MsgTyped
  <1> HIDE DEF l
  <1>5. CASE /\ link' = Sent(l, Msg("OK"))
             /\ ppc' = IF knock = "list" THEN "listing" ELSE "tuple"
    <2>1. /\ link' \in LinkType /\ (link'.held <=> l.held) /\ link'.open /\ ~link'.cut
          /\ link'.toP = <<>>
          /\ l.held => link'.rst = "no" /\ link'.toW = Msg("OK")
          /\ ~l.held => link'.toW = <<>>
      <3>1. Answered(Sent(l, Msg("OK")), l, Msg("OK"))
        BY <1>2, <1>4, FirstAnswer
      <3> QED
        BY <1>5, <3>1 DEF Answered
    <2>2. ppc' \in {"listing", "tuple"} /\ (wpc = "list" => ppc' = "listing")
          /\ (wpc = "approve" => ppc' = "tuple")
      BY <1>3, <1>5 DEF Control, Ends
    <2>3. Ends'
      BY <1>0, <1>2, <1>3, <2>1, <2>2 DEF Ends, WorkerStays, Serving, NoRequest
    <2>4. Asked' /\ Replied' /\ Arriving'
      BY <1>0, <1>2, <1>3, <2>1, <2>2 DEF Asked, Replied, Arriving, WorkerStays
    <2>5. Hanging'
      <3>1. wpc = "gone" => HangUp'
        BY <1>0 DEF Control, Hanging, HangUp, WorkerStays
      <3> QED
        BY <1>0, <1>2, <1>3, <2>1, <2>2, <3>1 DEF Hanging, WorkerStays, Control
    <2> QED
      BY <2>1, <2>3, <2>4, <2>5 DEF Control
  <1>6. CASE ppc' = "idle" /\ link' = PeerClosed(Sent(l, Msg("IP_PORT_NOT_FOUND")))
    <2>0. PICK m : m = Sent(l, Msg("IP_PORT_NOT_FOUND"))
      OBVIOUS
    <2>1. /\ m \in LinkType /\ (m.held <=> l.held) /\ ~m.cut /\ m.toP = <<>>
          /\ l.held => m.rst = "no" /\ m.toW = Msg("IP_PORT_NOT_FOUND")
          /\ link' = PeerClosed(m)
      <3>1. Answered(m, l, Msg("IP_PORT_NOT_FOUND"))
        BY <1>2, <1>4, <2>0, FirstAnswer
      <3> QED
        BY <1>6, <2>0, <3>1 DEF Answered
    <2>2. CASE wpc = "gone"
      <3>1. link' = NoLink
        BY <1>2, <1>6, <2>1, <2>2, PeerClosedLink
      <3>2. Ends'
        BY <1>0, <1>6, <2>2, <3>1, NoLinkTyped DEF Ends, Serving, WorkerStays, NoRequest
      <3>3. Asked' /\ Replied' /\ Arriving'
        BY <1>0, <2>2 DEF Asked, Replied, Arriving, WorkerStays
      <3>4. Hanging'
        BY <1>0, <1>6, <2>2, <3>1, NoLinkTyped DEF Control, Hanging, WorkerStays
      <3> QED
        BY <3>1, <3>2, <3>3, <3>4, NoLinkTyped DEF Control
    <2>3. CASE wpc # "gone"
      <3>1. /\ link' \in LinkType /\ link'.held /\ ~link'.open /\ ~link'.cut /\ link'.rst = "no"
            /\ link'.toP = <<>> /\ link'.toW = Msg("IP_PORT_NOT_FOUND")
        BY <1>2, <1>3, <1>6, <2>1, <2>3, PeerClosedLink
      <3>2. Asked' /\ Replied' /\ Arriving'
        BY <1>0, <1>3, <2>3, <3>1 DEF Asked, Replied, Arriving, WorkerStays
      <3> QED
        BY <1>0, <1>3, <1>6, <2>3, <3>1, <3>2, ClosesHeld
    <2> QED
      BY <2>2, <2>3
  <1> QED
    BY <1>0, <1>5, <1>6

\* The last messages, and close.
LEMMA ServedLink ==
  ASSUME NEW l \in LinkType, NEW msgs \in Seq(Messages), link' = PeerClosed(Sent(l, msgs))
  PROVE  /\ ~l.held => link' = NoLink
         /\ l.held => /\ link' \in LinkType /\ link'.held /\ ~link'.open /\ link'.cut = l.cut
                      /\ link'.rst = l.rst /\ link'.toP = l.toP /\ link'.toW = l.toW \o msgs
  <1>1. PICK m : m = Sent(l, msgs)
    OBVIOUS
  <1>2. /\ m \in LinkType /\ m.held = l.held /\ m.cut = l.cut /\ m.toP = l.toP
        /\ l.held => m.rst = l.rst /\ m.toW = l.toW \o msgs
    BY <1>1, SentLink
  <1> QED
    BY <1>1, <1>2, PeerClosedLink

\* What the peer serves, by what it is doing.
LEMMA ServingWhat ==
  ASSUME Control, Serving
  PROVE  /\ link.open /\ ~link.cut /\ ppc # "dead"
         /\ link.toP # <<>> => /\ link.toP = <<[name |-> want, version |-> wver]>>
                               /\ ppc = "tuple" /\ wpc \in {"reply", "gone"}
         /\ link.held => link.rst = "no" /\ knock = NoRequest
         /\ ~link.held => link.toW = <<>>
         /\ ppc = "listing" /\ link.held => wpc = "list" /\ link.toW = Msg("OK")
         /\ ppc = "tuple" /\ link.toP # <<>> /\ link.held => wpc = "reply" /\ link.toW = <<>>
         /\ ppc = "compare" /\ link.held =>
               wpc = "reply" /\ link.toW = <<>> /\ pname = want /\ pver = wver
         /\ ppc = "send" /\ link.held => wpc \in {"reply", "data"} /\ pname = want
  <1>1. Ends /\ Asked /\ Replied /\ Arriving /\ link.open
    BY DEF Control, Ends
  <1>2. /\ ~link.cut /\ ppc # "dead"
        /\ link.held => wpc \in {"list", "approve", "reply", "data"}
        /\ link.toP # <<>> => /\ link.toP = <<[name |-> want, version |-> wver]>>
                              /\ ppc = "tuple" /\ wpc \in {"reply", "gone"}
    BY <1>1 DEF Ends, Serving
  <1>3. /\ link.held => link.rst = "no" /\ knock = NoRequest
        /\ ~link.held => link.toW = <<>>
    BY <1>1 DEF Ends
  <1>4. ppc = "listing" /\ link.held => wpc = "list" /\ link.toW = Msg("OK")
    BY <1>1, <1>2 DEF Asked, Replied, Arriving
  <1>5. ppc = "tuple" /\ link.toP # <<>> /\ link.held => wpc = "reply" /\ link.toW = <<>>
    BY <1>1, <1>2 DEF Asked, Replied, Arriving
  <1>6. ppc = "compare" /\ link.held =>
           wpc = "reply" /\ link.toW = <<>> /\ pname = want /\ pver = wver
    BY <1>1, <1>2 DEF Asked, Replied, Arriving
  <1>7. ppc = "send" /\ link.held => wpc \in {"reply", "data"} /\ pname = want
    BY <1>1, <1>2 DEF Asked, Replied, Arriving
  <1> QED
    BY <1>1, <1>2, <1>3, <1>4, <1>5, <1>6, <1>7

\* It sends its last messages and closes.
LEMMA ServedControl ==
  ASSUME Control, Serving, WorkerStays, NEW l \in LinkType, NEW msgs \in Seq(Messages),
         link' = PeerClosed(Sent(l, msgs)), l.held = link.held, l.cut = link.cut,
         l.rst = link.rst, l.toP = <<>>, ppc' = "idle", knock' = knock,
         link.held => Asked' /\ Replied' /\ Arriving'
  PROVE  Control'
  <1>0. /\ ~link.cut /\ ppc # "dead" /\ (link.held => link.rst = "no" /\ knock = NoRequest)
        /\ link.held => wpc \in {"list", "approve", "reply", "data"}
    BY ServingWhat DEF Control, Ends
  <1>1. CASE ~link.held
    <2>1. link' = NoLink
      BY <1>1, ServedLink
    <2> QED
      BY <1>0, <1>1, <2>1, ClosesLost
  <1>2. CASE link.held
    <2>1. /\ link' \in LinkType /\ link'.held /\ ~link'.open /\ ~link'.cut
          /\ link'.rst = "no" /\ link'.toP = <<>>
      BY <1>0, <1>2, ServedLink
    <2> QED
      BY <1>0, <1>2, <2>1, ClosesHeld
  <1> QED
    BY <1>1, <1>2

\* The list.
LEMMA SendListControl ==
  ASSUME Control, PeerTyped, FilesTyped, send_file_list
  PROVE  Control'
  <1> DEFINE list == [tag |-> "FILE_LIST", val |-> f_list \o Listed(Len(Walk[Root]))]
  <1>0. /\ ppc = "listing" /\ Serving /\ WorkerStays /\ knock' = knock /\ ppc' = "idle"
        /\ link' = PeerClosed(Sent(link, <<list>>)) /\ link \in LinkType
    BY DEF send_file_list, Serving, WorkerStays, Served, FilesTyped, worker, local, hist, env,
           Control
  <1>1. list \in Listing
    <2>1. Listed(Len(Walk[Root])) \in Seq(Tuple) /\ f_list \in Seq(Tuple)
      BY ListedTyped DEF PeerTyped
    <2>2. f_list \o Listed(Len(Walk[Root])) \in Seq(Tuple)
      BY <2>1, ConcatProperties
    <2> QED
      BY <2>2 DEF Listing
  <1> HIDE DEF list
  <1>2. <<list>> \in Seq(Messages) /\ Len(<<list>>) = 1 /\ <<list>>[1] = list
    BY <1>1 DEF Messages
  <1>3. ASSUME link.held PROVE Asked' /\ Replied' /\ Arriving'
    <2>1. wpc = "list" /\ link.toW = Msg("OK") /\ ~link'.open /\ link'.toW = Msg("OK") \o <<list>>
      BY <1>0, <1>2, <1>3, ServingWhat, ServedLink
    <2>2. Len(link'.toW) = 2 /\ link'.toW[2] = list
      BY <2>1 DEF Msg
    <2> QED
      BY <1>0, <1>1, <2>1, <2>2 DEF Asked, Replied, Arriving, WorkerStays
  <1>4. link.toP = <<>>
    BY <1>0, ServingWhat
  <1> QED
    BY <1>0, <1>2, <1>3, <1>4, ServedControl

\* The tuple.
LEMMA ReadTupleControl ==
  ASSUME Control, FilesTyped, ReadTuple
  PROVE  Control'
  <1> DEFINE l == [link EXCEPT !.toP = <<>>]
  <1>0. /\ ppc = "tuple" /\ link.toP # <<>> /\ Serving /\ WorkerStays /\ knock' = knock
        /\ link \in LinkType
    BY DEF ReadTuple, Serving, WorkerStays, FilesTyped, worker, local, hist, env, Control
  <1>1. /\ link.open /\ ~link.cut /\ link.toP = <<[name |-> want, version |-> wver]>>
        /\ wpc \in {"reply", "gone"} /\ (link.held => wpc = "reply" /\ link.toW = <<>>)
        /\ ~link.held => link.toW = <<>>
    BY <1>0, ServingWhat
  <1>2. Head(link.toP) = [name |-> want, version |-> wver]
    BY <1>1
  <1>3. /\ l \in LinkType /\ l.held = link.held /\ l.open = link.open /\ l.cut = link.cut
        /\ l.rst = link.rst /\ l.toP = <<>> /\ l.toW = link.toW
    <2>1. <<>> \in Seq([name : Files, version : Version])
      OBVIOUS
    <2> QED
      BY <1>0, <2>1 DEF LinkType
  <1>4. \/ ppc' = "idle" /\ link' = PeerClosed(Sent(l, Msg("FILE_NOT_FOUND")))
        \/ pname' = want /\ pver' = wver /\ ppc' = "compare" /\ link' = l
    BY <1>2 DEF ReadTuple, Served
  <1> HIDE DEF l
  <1>5. CASE ppc' = "idle" /\ link' = PeerClosed(Sent(l, Msg("FILE_NOT_FOUND")))
    <2>1. Msg("FILE_NOT_FOUND") \in Seq(Messages)
      BY MsgTyped
    <2>2. ASSUME link.held PROVE Asked' /\ Replied' /\ Arriving'
      <3>1. <<>> \o Msg("FILE_NOT_FOUND") = Msg("FILE_NOT_FOUND")
        BY <2>1, ConcatEmptySeq
      <3>2. wpc = "reply" /\ ~link'.open /\ link'.toW = Msg("FILE_NOT_FOUND")
        BY <1>1, <1>3, <1>5, <2>1, <2>2, <3>1, ServedLink
      <3> QED
        BY <1>0, <3>2 DEF Asked, Replied, Arriving, WorkerStays
    <2> QED
      BY <1>0, <1>3, <1>5, <2>1, <2>2, ServedControl
  <1>6. CASE pname' = want /\ pver' = wver /\ ppc' = "compare" /\ link' = l
    <2>1. Asked' /\ Replied' /\ Arriving'
      <3>1. /\ wpc' = wpc /\ want' = want /\ wver' = wver /\ wpc \in {"reply", "gone"}
            /\ wpc = "reply" => link.held
        BY <1>0, <1>1 DEF WorkerStays, Control, Ends
      <3>2. link'.toP = <<>> /\ link'.open /\ (wpc = "reply" => link'.toW = <<>>)
        BY <1>1, <1>3, <1>6, <3>1
      <3> QED
        BY <1>6, <3>1, <3>2 DEF Asked, Replied, Arriving
    <2> QED
      BY <1>0, <1>1, <1>3, <1>6, <2>1, GoesOn
  <1> QED
    BY <1>4, <1>5, <1>6

\* The comparison.
LEMMA CompareControl ==
  ASSUME Control, PeerTyped, FilesTyped, Compare
  PROVE  Control'
  <1>0. /\ ppc = "compare" /\ Serving /\ WorkerStays /\ knock' = knock /\ link \in LinkType
        /\ pname \in Files
    BY DEF Compare, Serving, WorkerStays, FilesTyped, PeerTyped, worker, local, hist, env, Control
  <1>1. /\ link.open /\ ~link.cut /\ link.toP = <<>> /\ link.toW = <<>>
        /\ link.held => wpc = "reply" /\ pname = want /\ pver = wver
    BY <1>0, ServingWhat
  <1>2. PICK size : size = FileSize(pname)
    OBVIOUS
  <1>3. size \in Nat
    <2>1. file[pname] # Absent => file[pname] \in Seq(Byte)
      BY <1>0, ContentsBytes DEF FilesTyped
    <2> QED
      BY <1>2, <2>1 DEF FileSize
  <1>4. PICK head : head = <<[tag |-> "FILE_SIZE", val |-> size]>>
    OBVIOUS
  <1>5. /\ head \in Seq(Messages) /\ Len(head) = 1 /\ head[1] \in Size /\ head[1].val = size
    BY <1>3, <1>4 DEF Messages, Size
  <1>6. \/ ppc' = "idle" /\ link' = PeerClosed(Sent(link, Msg("FILE_UP_TO_DATE")))
        \/ size = 0 /\ ppc' = "idle" /\ link' = PeerClosed(Sent(link, head))
        \/ /\ size # 0 /\ ppc' = "send" /\ link' = Sent(link, head)
           /\ pleft' = size /\ pname' = pname
    BY <1>2, <1>4 DEF Compare, Served
  <1>7. CASE ppc' = "idle" /\ link' = PeerClosed(Sent(link, Msg("FILE_UP_TO_DATE")))
    <2>1. Msg("FILE_UP_TO_DATE") \in Seq(Messages)
      BY MsgTyped
    <2>2. ASSUME link.held PROVE Asked' /\ Replied' /\ Arriving'
      <3>1. <<>> \o Msg("FILE_UP_TO_DATE") = Msg("FILE_UP_TO_DATE")
        BY <2>1, ConcatEmptySeq
      <3>2. wpc = "reply" /\ ~link'.open /\ link'.toW = Msg("FILE_UP_TO_DATE")
        BY <1>0, <1>1, <1>7, <2>1, <2>2, <3>1, ServedLink
      <3> QED
        BY <1>0, <3>2 DEF Asked, Replied, Arriving, WorkerStays
    <2> QED
      BY <1>0, <1>1, <1>7, <2>1, <2>2, ServedControl
  <1>8. <<>> \o head = head
    BY <1>5, ConcatEmptySeq
  <1>9. ASSUME link'.toW = head PROVE SizeFirst' /\ link'.toW[1].val = size /\ Len(link'.toW) = 1
    <2>1. Len(link'.toW) = 1
      BY <1>5, <1>9, Zenon
    <2>2. head # <<>>
      BY <1>4
    <2>4. \A b \in 2 .. 1 : FALSE
      OBVIOUS
    <2>3. BytesFrom(2)'
      BY <2>1, <2>4, Zenon DEF BytesFrom
    <2> QED
      BY <1>5, <1>9, <2>1, <2>2, <2>3, Zenon DEF SizeFirst
  <1>10. CASE size = 0 /\ ppc' = "idle" /\ link' = PeerClosed(Sent(link, head))
    <2>1. ASSUME link.held PROVE Asked' /\ Replied' /\ Arriving'
      <3>1. wpc = "reply" /\ ~link'.open /\ link'.toW = head
        BY <1>0, <1>1, <1>5, <1>8, <1>10, <2>1, ServedLink
      <3>2. SizeFirst' /\ link'.toW[1].val = 0 /\ Len(link'.toW) = 1
        BY <1>9, <1>10, <3>1, Zenon
      <3>3. link'.toW[1].val = Len(link'.toW) - 1
        BY <3>2
      <3> QED
        BY <1>0, <3>1, <3>2, <3>3 DEF Asked, Replied, Arriving, WorkerStays
    <2> QED
      BY <1>0, <1>1, <1>5, <1>10, <2>1, ServedControl
  <1>11. CASE /\ size # 0 /\ ppc' = "send" /\ link' = Sent(link, head)
              /\ pleft' = size /\ pname' = pname
    <2>1. /\ link' \in LinkType /\ link'.held = link.held /\ link'.open = link.open
          /\ link'.cut = link.cut /\ link'.toP = <<>>
          /\ link.held => link'.rst = link.rst /\ link'.toW = head
          /\ ~link.held => link'.toW = <<>>
      <3>1. PICK m : m = Sent(link, head)
        OBVIOUS
      <3>2. /\ m \in LinkType /\ m.held = link.held /\ m.open = link.open
            /\ m.cut = link.cut /\ m.toP = link.toP
            /\ link.held => m.rst = link.rst /\ m.toW = link.toW \o head
            /\ ~link.held => m.toW = link.toW
        BY <1>0, <1>5, <3>1, SentLink
      <3>3. link.toP = <<>> /\ link.toW = <<>>
        BY <1>0, <1>1
      <3> QED
        BY <1>8, <1>11, <3>1, <3>2, <3>3, Zenon
    <2>2. Asked' /\ Replied' /\ Arriving'
      <3>1. /\ wpc' = wpc /\ want' = want /\ wver' = wver /\ left' = left
            /\ wpc \in {"reply", "data"} => link.held
            /\ link.held => wpc = "reply"
            /\ link'.held => wpc = "reply"
        BY <1>0, <1>1, <2>1 DEF WorkerStays, Control, Ends
      <3>2. Asked' /\ Arriving'
        BY <3>1 DEF Asked, Arriving
      <3>3. Replied'
        <4> SUFFICES ASSUME wpc = "reply" PROVE Replied'
          BY <3>1 DEF Replied
        <4>1. link.held /\ pname = want /\ link'.toW = head /\ link'.open /\ link'.toP = <<>>
          BY <1>1, <2>1, <3>1
        <4>2. SizeFirst' /\ link'.toW[1].val = size /\ Len(link'.toW) = 1
          BY <1>9, <4>1
        <4>3. Len(link'.toW) - 1 = 0 /\ Len(link'.toW) - 1 + pleft' = size
          BY <1>3, <1>11, <4>2
        <4>4. IsMultiple(Len(link'.toW) - 1)
          BY <4>3, Multiples
        <4> QED
          BY <1>11, <3>1, <4>1, <4>2, <4>3, <4>4 DEF Replied, IsMultiple
      <3> QED
        BY <3>2, <3>3
    <2> QED
      BY <1>0, <1>1, <1>11, <2>1, <2>2, GoesOn
  <1> QED
    BY <1>6, <1>7, <1>10, <1>11

\* Bytes put after what is in the worker's socket.
LEMMA BytesAfter ==
  ASSUME link.toW \in Seq(Messages), NEW s \in Seq(Byte), link'.toW = link.toW \o Bytes(s)
  PROVE  /\ Len(link'.toW) = Len(link.toW) + Len(s)
         /\ \A b \in 1 .. Len(link.toW) : link'.toW[b] = link.toW[b]
         /\ \A b \in 1 .. Len(s) : link'.toW[Len(link.toW) + b].val = s[b]
         /\ BytesFrom(1) => BytesFrom(1)'
         /\ SizeFirst => SizeFirst' /\ link'.toW[1] = link.toW[1]
  <1>1. PICK t : t = Bytes(s)
    OBVIOUS
  <1>2. /\ t \in Seq(Data) /\ t \in Seq(Messages) /\ Len(t) = Len(s)
        /\ \A b \in 1 .. Len(s) : t[b].val = s[b]
    BY <1>1, BytesTyped
  <1>3. PICK n \in Nat : n = Len(link.toW)
    OBVIOUS
  <1>4. /\ Len(link'.toW) = n + Len(t) /\ Len(t) \in Nat
        /\ \A b \in 1 .. n : link'.toW[b] = link.toW[b]
        /\ \A b \in 1 .. Len(t) : link'.toW[n + b] = t[b]
    <2>0. PICK w \in Seq(Messages) : w = link.toW
      OBVIOUS
    <2>1. /\ Len(w \o t) = Len(w) + Len(t)
          /\ \A b \in 1 .. Len(w) : (w \o t)[b] = w[b]
          /\ \A b \in 1 .. Len(t) : (w \o t)[Len(w) + b] = t[b]
      <3>1. ASSUME NEW u \in Seq(Messages), NEW v \in Seq(Messages)
            PROVE  /\ Len(u \o v) = Len(u) + Len(v)
                   /\ \A b \in 1 .. Len(u) : (u \o v)[b] = u[b]
                   /\ \A b \in 1 .. Len(v) : (u \o v)[Len(u) + b] = v[b]
        BY Joined
      <3> QED
        BY <1>2, <3>1, Zenon
    <2>2. link'.toW = w \o t /\ Len(t) \in Nat
      BY <1>1, <1>2, <2>0
    <2> QED
      BY <1>3, <2>0, <2>1, <2>2, Zenon
  <1>5. \A b \in 1 .. Len(t) : link'.toW[n + b] \in Data
    <2>1. \A b \in 1 .. Len(t) : t[b] \in Data
      BY <1>2
    <2> QED
      BY <1>4, <2>1
  <1>6. ASSUME NEW b \in 1 .. n + Len(t), b \notin 1 .. n PROVE link'.toW[b] \in Data
    <2>1. b - n \in 1 .. Len(t) /\ n + (b - n) = b
      BY <1>4, <1>6
    <2> QED
      BY <1>5, <2>1
  <1>7. ASSUME NEW m \in {1, 2}, BytesFrom(m) PROVE BytesFrom(m)'
    <2> SUFFICES ASSUME NEW b \in m .. Len(link'.toW) PROVE link'.toW[b] \in Data
      BY DEF BytesFrom
    <2>1. CASE b \in 1 .. n
      <3>1. b \in m .. Len(link.toW)
        BY <1>3, <2>1
      <3> QED
        BY <1>4, <1>7, <2>1, <3>1 DEF BytesFrom
    <2>2. CASE b \notin 1 .. n
      <3>1. b \in 1 .. n + Len(t)
        BY <1>4
      <3> QED
        BY <1>6, <2>2, <3>1
    <2> QED
      BY <2>1, <2>2
  <1>8. ASSUME SizeFirst PROVE SizeFirst' /\ link'.toW[1] = link.toW[1]
    <2>1. n # 0
      BY <1>3, <1>8 DEF SizeFirst
    <2>2. 1 \in 1 .. n
      BY <2>1
    <2>3. link'.toW[1] = link.toW[1]
      BY <1>4, <2>2, Zenon
    <2>4. link'.toW # <<>>
      <3>1. \A m \in Nat : n + m # 0
        BY <2>1
      <3>2. Len(link'.toW) # 0
        BY <1>4, <3>1, Zenon
      <3> QED
        BY <3>2
    <2>5. BytesFrom(2)'
      BY <1>7, <1>8 DEF SizeFirst
    <2> QED
      BY <1>8, <2>3, <2>4, <2>5, Zenon DEF SizeFirst
  <1> QED
    BY <1>2, <1>3, <1>4, <1>7, <1>8

\* What the peer puts into its buffer.
LEMMA PeerReads ==
  ASSUME PeerTyped, FilesTyped, ppc = "send"
  PROVE  /\ Filled(pbuf, FileBlock(pat)) \in Seq(Byte) /\ Len(Filled(pbuf, FileBlock(pat))) = Chunk
         /\ file[pname] \in Contents /\ file[pname] \in Seq(Byte) /\ Len(file[pname]) \in Nat
         /\ pat + Chunk <= Len(file[pname]) =>
               /\ Len(FileBlock(pat)) = Chunk
               /\ \A b \in 1 .. Chunk : Filled(pbuf, FileBlock(pat))[b] = file[pname][pat + b]
         /\ pat <= Len(file[pname]) /\ Len(file[pname]) < pat + Chunk =>
               \A b \in 1 .. Len(file[pname]) - pat :
                  Filled(pbuf, FileBlock(pat))[b] = file[pname][pat + b]
  <1>0. /\ file[pname] \in Contents /\ file[pname] \in Seq(Byte) /\ pat \in Nat /\ pbuf \in Seq(Byte)
        /\ Len(pbuf) = Chunk
    BY ContentsBytes DEF PeerTyped
  <1>1. PICK blk : blk = FileBlock(pat)
    OBVIOUS
  <1>2. PICK f : f = file[pname]
    OBVIOUS
  <1>3. /\ blk \in Seq(Byte) /\ Len(blk) <= Chunk
        /\ pat + Chunk <= Len(f) => Len(blk) = Chunk
        /\ pat <= Len(f) /\ Len(f) < pat + Chunk => Len(blk) = Len(f) - pat
        /\ \A b \in 1 .. Len(blk) : blk[b] = f[pat + b]
    BY <1>0, <1>1, <1>2, BlockTyped
  <1>4. PICK buf : buf = Filled(pbuf, blk)
    OBVIOUS
  <1>5. /\ buf \in Seq(Byte) /\ Len(buf) = Chunk
        /\ \A b \in 1 .. Len(blk) : buf[b] = blk[b]
    BY <1>0, <1>3, <1>4, FilledTyped
  <1>6. \A b \in 1 .. Len(blk) : buf[b] = f[pat + b]
    BY <1>3, <1>5
  <1>7. /\ pat + Chunk <= Len(f) =>
              Len(blk) = Chunk /\ \A b \in 1 .. Chunk : buf[b] = f[pat + b]
        /\ pat <= Len(f) /\ Len(f) < pat + Chunk =>
              \A b \in 1 .. Len(f) - pat : buf[b] = f[pat + b]
    BY <1>3, <1>6, Zenon
  <1>8. Len(f) \in Nat
    BY <1>0, <1>2
  <1> QED
    BY <1>0, <1>1, <1>2, <1>4, <1>5, <1>7, <1>8, Zenon

\* A chunk of the file.
LEMMA SendChunkControl ==
  ASSUME Control, PeerTyped, FilesTyped, WorkerTyped, SendChunk
  PROVE  Control'
  <1>0. /\ ppc = "send" /\ pleft >= Chunk /\ Serving /\ WorkerStays /\ knock' = knock
        /\ link \in LinkType /\ ppc' = ppc /\ pname' = pname /\ pleft' = pleft - Chunk
        /\ link' = Sent(link, Bytes(pbuf')) /\ pbuf' = Filled(pbuf, FileBlock(pat))
        /\ link.toW \in Seq(Messages) /\ Len(link.toW) \in Nat /\ pleft \in Nat /\ left \in Nat
    BY DEF SendChunk, Serving, WorkerStays, FilesTyped, PeerTyped, WorkerTyped, worker, local, hist,
           env, Control, LinkType
  <1>1. /\ link.open /\ ~link.cut /\ link.toP = <<>> /\ (~link.held => link.toW = <<>>)
        /\ link.held => wpc \in {"reply", "data"} /\ pname = want
    BY <1>0, ServingWhat
  <1>2. pbuf' \in Seq(Byte) /\ Len(pbuf') = Chunk /\ Bytes(pbuf') \in Seq(Messages)
    BY <1>0, PeerReads, BytesTyped
  <1>3. /\ link' \in LinkType /\ link'.held = link.held /\ link'.open = link.open
        /\ link'.cut = link.cut /\ link'.toP = <<>>
        /\ link.held => link'.rst = link.rst /\ link'.toW = link.toW \o Bytes(pbuf')
        /\ ~link.held => link'.toW = <<>>
    BY <1>0, <1>1, <1>2, SentLink
  <1>4. Chunk \in Nat /\ Chunk # 0
    BY TransferAssumption
  <1>5. Asked' /\ Replied' /\ Arriving'
    <2>1. /\ wpc' = wpc /\ want' = want /\ wver' = wver /\ left' = left /\ ill \subseteq ill'
          /\ wpc \in {"reply", "data"} => link.held
          /\ link'.held => wpc \in {"reply", "data"}
      BY <1>0, <1>1, <1>3 DEF WorkerStays, Control, Ends
    <2>2. Asked'
      BY <2>1 DEF Asked
    <2>3. ASSUME link.held
          PROVE  /\ Len(link'.toW) = Len(link.toW) + Chunk
                 /\ BytesFrom(1) => BytesFrom(1)'
                 /\ SizeFirst => SizeFirst' /\ link'.toW[1] = link.toW[1]
      BY <1>0, <1>2, <1>3, <2>3, BytesAfter
    <2>4. Replied'
      <3> SUFFICES ASSUME wpc = "reply" PROVE Replied'
        BY <2>1 DEF Replied
      <3>1. /\ SizeFirst /\ link.toW[1].val # 0 /\ link.toW[1].val = Len(link.toW) - 1 + pleft
            /\ IsMultiple(Len(link.toW) - 1) /\ link.held /\ Len(link.toW) # 0
        BY <1>0, <1>1, <2>1 DEF Control, Replied, SizeFirst
      <3>2. /\ SizeFirst' /\ link'.toW[1] = link.toW[1] /\ Len(link'.toW) = Len(link.toW) + Chunk
        BY <2>3, <3>1
      <3>3. /\ Len(link'.toW) - 1 + pleft' = Len(link.toW) - 1 + pleft
            /\ Len(link'.toW) - 1 = (Len(link.toW) - 1) + Chunk /\ Len(link.toW) - 1 \in Nat
        BY <1>0, <1>4, <3>1, <3>2, SMTT(30)
      <3>4. IsMultiple(Len(link'.toW) - 1)
        BY <3>1, <3>3, Multiples
      <3> QED
        BY <1>0, <1>1, <1>3, <2>1, <3>1, <3>2, <3>3, <3>4 DEF Replied, IsMultiple
    <2>5. Arriving'
      <3> SUFFICES ASSUME wpc = "data" PROVE Arriving'
        BY <2>1 DEF Arriving
      <3>1. /\ BytesFrom(1) /\ left <= Len(link.toW) + pleft /\ link.held
            /\ "short" \notin ill => left = Len(link.toW) + pleft /\ IsMultiple(Len(link.toW))
        BY <1>1, <2>1 DEF Control, Arriving
      <3>2. BytesFrom(1)' /\ Len(link'.toW) = Len(link.toW) + Chunk
        BY <2>3, <3>1
      <3>3. Len(link'.toW) + pleft' = Len(link.toW) + pleft
        BY <1>0, <1>4, <3>2
      <3>4. IsMultiple(Len(link.toW)) => IsMultiple(Len(link'.toW))
        BY <1>0, <3>2, Multiples
      <3> QED
        BY <1>0, <1>1, <1>3, <2>1, <3>1, <3>2, <3>3, <3>4 DEF Arriving, IsMultiple
    <2> QED
      BY <2>2, <2>4, <2>5
  <1> QED
    BY <1>0, <1>1, <1>3, <1>5, GoesOn

\* The last bytes of the file.
LEMMA SendRestControl ==
  ASSUME Control, PeerTyped, FilesTyped, WorkerTyped, SendRest
  PROVE  Control'
  <1>1. PICK s : s = SubSeq(Filled(pbuf, FileBlock(pat)), 1, pleft)
    OBVIOUS
  <1>0. /\ ppc = "send" /\ pleft < Chunk /\ Serving /\ WorkerStays /\ knock' = knock
        /\ link \in LinkType /\ ppc' = "idle" /\ link' = PeerClosed(Sent(link, Bytes(s)))
        /\ link.toW \in Seq(Messages) /\ Len(link.toW) \in Nat /\ pleft \in Nat /\ left \in Nat
        /\ Chunk \in Nat
    BY <1>1, TransferAssumption
       DEF SendRest, Served, Serving, WorkerStays, FilesTyped, PeerTyped, WorkerTyped, worker,
           local, hist, env, Control, LinkType
  <1>2. /\ link.open /\ ~link.cut /\ link.toP = <<>>
        /\ link.held => wpc \in {"reply", "data"} /\ pname = want
    BY <1>0, ServingWhat
  <1>3. s \in Seq(Byte) /\ Len(s) = pleft /\ Bytes(s) \in Seq(Messages)
    <2>1. PICK buf \in Seq(Byte) : buf = Filled(pbuf, FileBlock(pat)) /\ Len(buf) = Chunk
      BY <1>0, PeerReads
    <2>2. pleft \in 0 .. Len(buf) /\ 1 \in Nat \ {0} /\ s = SubSeq(buf, 1, pleft)
      BY <1>0, <1>1, <2>1
    <2>3. /\ s \in Seq(Byte) /\ (1 <= pleft => Len(s) = pleft - 1 + 1)
          /\ pleft < 1 => Len(s) = 0
      BY <2>2, PartOf
    <2>4. Len(s) = pleft
      BY <1>0, <2>3
    <2> QED
      BY <2>3, <2>4, BytesTyped
  <1>4. ASSUME link.held PROVE Asked' /\ Replied' /\ Arriving'
    <2>1. wpc' = wpc /\ left' = left /\ wpc \in {"reply", "data"}
      BY <1>0, <1>2, <1>4 DEF WorkerStays
    <2>2. ~link'.open /\ link'.toW = link.toW \o Bytes(s)
      BY <1>0, <1>3, <1>4, ServedLink
    <2>3. /\ Len(link'.toW) = Len(link.toW) + pleft
          /\ BytesFrom(1) => BytesFrom(1)'
          /\ SizeFirst => SizeFirst' /\ link'.toW[1] = link.toW[1]
      BY <1>0, <1>3, <2>2, BytesAfter
    <2>4. Asked'
      BY <2>1 DEF Asked
    <2>5. CASE wpc = "reply"
      <3>1. SizeFirst /\ link.toW[1].val = Len(link.toW) - 1 + pleft
        BY <1>0, <1>2, <2>5 DEF Control, Replied
      <3>2. SizeFirst' /\ link'.toW[1].val = Len(link'.toW) - 1
        BY <1>0, <2>3, <3>1
      <3> QED
        BY <2>1, <2>2, <2>4, <2>5, <3>2 DEF Replied, Arriving
    <2>6. CASE wpc = "data"
      <3>1. BytesFrom(1) /\ left <= Len(link.toW) + pleft
        BY <1>2, <2>6 DEF Control, Arriving
      <3> QED
        BY <2>1, <2>2, <2>3, <2>4, <2>6, <3>1 DEF Replied, Arriving
    <2> QED
      BY <2>1, <2>5, <2>6
  <1> QED
    BY <1>0, <1>2, <1>3, <1>4, ServedControl

\* The list is made again, or a file is edited: nothing on the connection.
LEMMA QuietControl ==
  ASSUME Control, WorkerStays, link' = link, knock' = knock, ppc' = ppc, pname' = pname,
         pver' = pver, pleft' = pleft
  PROVE  Control'
  <1>0. HangUp => HangUp'
    BY HangUpStays DEF WorkerStays
  <1>1. Ends'
    BY DEF Control, Ends, Serving, WorkerStays
  <1>2. Asked' /\ Replied' /\ Arriving'
    <2>1. Asked'
      BY DEF Control, Asked, WorkerStays
    <2>2. Replied'
      BY DEF Control, Replied, WorkerStays, SizeFirst, BytesFrom, IsMultiple
    <2>3. Arriving'
      BY DEF Control, Arriving, WorkerStays, BytesFrom, IsMultiple
    <2> QED
      BY <2>1, <2>2, <2>3
  <1>3. Hanging'
    BY <1>0 DEF Control, Hanging, WorkerStays
  <1> QED
    BY <1>1, <1>2, <1>3 DEF Control

\* A reset reaches the peer.
LEMMA ResetControl ==
  ASSUME Control, FilesTyped, ResetArrives
  PROVE  Control'
  <1>0. /\ link.rst = "flying" /\ link' = [link EXCEPT !.rst = "arrived"] /\ link \in LinkType
        /\ WorkerStays /\ knock' = knock /\ ppc' = ppc /\ ill' = ill
    BY DEF ResetArrives, WorkerStays, FilesTyped, worker, local, peer, env, hist, Control
  <1>1. /\ link' \in LinkType /\ link'.held = link.held /\ link'.open = link.open
        /\ link'.cut = link.cut /\ link'.toP = link.toP /\ link'.toW = link.toW
        /\ link'.rst = "arrived"
    BY <1>0 DEF LinkType
  <1>2. ~link.held /\ link.open /\ HangUp
    BY <1>0, NoLinkTyped DEF Control, Ends, Hanging
  <1>3. Ends'
    BY <1>0, <1>1, <1>2 DEF Control, Ends, Serving, WorkerStays
  <1>4. Asked' /\ Replied' /\ Arriving'
    <2>1. wpc \notin {"reply", "data"} /\ ~link'.held
      BY <1>1, <1>2 DEF Control, Ends
    <2> QED
      BY <1>0, <2>1 DEF Asked, Replied, Arriving, WorkerStays
  <1>5. Hanging'
    <2>1. HangUp'
      BY <1>0, <1>2, HangUpStays DEF WorkerStays
    <2> QED
      BY <1>0, <2>1 DEF Control, Hanging, WorkerStays
  <1> QED
    BY <1>1, <1>3, <1>4, <1>5 DEF Control

\* The peer leaves with a request in its backlog.
LEMMA UnansweredControl ==
  ASSUME Control, FilesTyped, WorkerStays, knock # NoRequest, NEW reset \in BOOLEAN,
         link' = Unanswered(reset), ppc' = "dead", knock' = NoRequest, "peer" \in ill'
  PROVE  Control'
  <1>0. wpc \in {"list", "approve", "gone"}
    BY DEF FilesTyped, Control, Ends
  <1>1. CASE wpc = "gone"
    <2>1. link' = NoLink
      BY <1>1 DEF Unanswered
    <2>2. Ends'
      BY <1>1, <2>1, NoLinkTyped DEF Ends, Serving, WorkerStays, NoRequest
    <2>3. Asked' /\ Replied' /\ Arriving'
      BY <1>1 DEF Asked, Replied, Arriving, WorkerStays
    <2>4. Hanging'
      BY <1>1, <2>1, NoLinkTyped DEF Control, Hanging, WorkerStays
    <2> QED
      BY <2>1, <2>2, <2>3, <2>4, NoLinkTyped DEF Control
  <1>2. CASE wpc # "gone"
    <2>1. link' = [NoLink EXCEPT !.held = TRUE, !.cut = reset]
      BY <1>2 DEF Unanswered
    <2>2. /\ link' \in LinkType /\ link'.held /\ ~link'.open /\ link'.rst = "no"
          /\ link'.toP = <<>> /\ link'.toW = <<>>
      BY <2>1, NoLinkTyped DEF LinkType
    <2>3. Ends'
      BY <1>0, <1>2, <2>2 DEF Ends, Serving, WorkerStays, NoRequest
    <2>4. Asked' /\ Replied' /\ Arriving'
      BY <1>0, <1>2, <2>2 DEF Asked, Replied, Arriving, WorkerStays
    <2>5. Hanging'
      BY <1>0, <1>2, <2>2 DEF Hanging, WorkerStays
    <2> QED
      BY <2>2, <2>3, <2>4, <2>5 DEF Control
  <1> QED
    BY <1>1, <1>2

\* ... or in the middle of a connection, or without one.
LEMMA LeavesControl ==
  ASSUME Control, WorkerStays, knock = NoRequest, ppc' = "dead", knock' = NoRequest,
         "peer" \in ill',
         link' = IF link.open THEN PeerClosed([link EXCEPT !.cut = link.toP # <<>>]) ELSE link
  PROVE  Control'
  <1>0. /\ link \in LinkType /\ wpc' = wpc /\ want' = want /\ wver' = wver /\ left' = left
        /\ ill \subseteq ill'
    BY DEF Control, WorkerStays
  <1>a. HangUp => HangUp'
    BY HangUpStays DEF WorkerStays
  <1>1. CASE ~link.open
    <2>1. link' = link
      BY <1>1
    <2>2. Ends'
      BY <1>0, <1>1, <2>1 DEF Control, Ends, Serving, NoRequest
    <2>3. Asked'
      BY <1>0, <1>1, <2>1 DEF Control, Asked
    <2>4. Replied' /\ Arriving'
      BY <1>0, <1>1, <2>1 DEF Control, Replied, Arriving, SizeFirst, BytesFrom
    <2>5. Hanging'
      BY <1>0, <1>1, <1>a, <2>1 DEF Control, Hanging
    <2> QED
      BY <1>0, <2>1, <2>2, <2>3, <2>4, <2>5 DEF Control
  <1>2. CASE link.open
    <2>0. (link.toP # <<>>) \in BOOLEAN
      OBVIOUS
    <2>1. PICK c \in BOOLEAN : c = (link.toP # <<>>)
      BY <2>0, Zenon
    <2>2. PICK l : l = [link EXCEPT !.cut = c]
      OBVIOUS
    <2>3. /\ l \in LinkType /\ l.held = link.held /\ l.open = link.open /\ l.cut = c
          /\ l.rst = link.rst /\ l.toP = link.toP /\ l.toW = link.toW
      BY <1>0, <2>2 DEF LinkType
    <2>4. link' = PeerClosed(l)
      BY <1>2, <2>1, <2>2, Zenon
    <2>5. CASE ~link.held
      <3>1. link' = NoLink
        BY <2>3, <2>4, <2>5, PeerClosedLink
      <3>2. wpc \notin {"list", "approve", "reply", "data"}
        BY <2>5 DEF Control, Ends
      <3>3. Ends'
        BY <1>0, <3>1, <3>2, NoLinkTyped DEF Ends, Serving, NoRequest
      <3>4. Asked' /\ Replied' /\ Arriving'
        BY <1>0, <3>2 DEF Asked, Replied, Arriving
      <3>5. Hanging'
        BY <1>0, <3>1, NoLinkTyped DEF Control, Hanging
      <3> QED
        BY <3>1, <3>3, <3>4, <3>5, NoLinkTyped DEF Control
    <2>6. CASE link.held
      <3>1. /\ link' \in LinkType /\ link'.held /\ ~link'.open /\ link'.cut = c
            /\ link'.rst = link.rst /\ link'.toP = link.toP /\ link'.toW = link.toW
        BY <2>3, <2>4, <2>6, PeerClosedLink
      <3>2. /\ wpc \in {"list", "approve", "reply", "data"} /\ link.rst = "no"
            /\ link.toP # <<>> => link.toP = <<[name |-> want, version |-> wver]>>
        BY <2>6 DEF Control, Ends
      <3>3. link'.toP # <<>> => /\ link'.toP = <<[name |-> want', version |-> wver']>>
                                /\ link'.cut
        BY <1>0, <2>1, <3>1, <3>2
      <3>4. Ends'
        BY <1>0, <3>1, <3>2, <3>3 DEF Ends, Serving, NoRequest
      <3>5. Asked'
        BY <1>0, <1>2, <2>6, <3>1 DEF Control, Asked
      <3>6. Replied'
        BY <1>0, <1>2, <2>6, <3>1 DEF Control, Replied, SizeFirst, BytesFrom
      <3>7. Arriving'
        BY <1>0, <1>2, <2>6, <3>1 DEF Control, Arriving, BytesFrom
      <3>8. Hanging'
        BY <1>0, <3>1, <3>2 DEF Hanging
      <3> QED
        BY <3>1, <3>4, <3>5, <3>6, <3>7, <3>8 DEF Control
    <2> QED
      BY <2>5, <2>6
  <1> QED
    BY <1>1, <1>2

\* Every step of the peer and of the environment keeps the two ends together.
LEMMA PeerControl ==
  ASSUME Control, WorkerTyped, PeerTyped, FilesTyped,
         PeerNext \/ ListAgain \/ PeerQuits \/ ResetArrives \/ EditFile
  PROVE  Control'
  <1> USE DEF worker, peer, local, hist, env
  <1>0. fds \in Nat
    BY DEF FilesTyped
  <1>1. CASE Accept
    BY <1>1, AcceptControl
  <1>2. CASE send_file_list
    BY <1>2, SendListControl
  <1>3. CASE ReadTuple
    BY <1>3, ReadTupleControl
  <1>4. CASE NoTuple
    <2>1. /\ ppc = "tuple" /\ ~link.held /\ WorkerStays /\ ppc' = "idle" /\ knock' = knock
          /\ link' = PeerClosed(link) /\ link \in LinkType
      BY <1>0, <1>4 DEF NoTuple, Served, WorkerStays, Control
    <2>2. link' = NoLink
      BY <2>1, PeerClosedLink
    <2> QED
      BY <2>1, <2>2, ClosesLost
  <1>5. CASE Compare
    BY <1>5, CompareControl
  <1>6. CASE SendChunk
    BY <1>6, SendChunkControl
  <1>7. CASE SendRest
    BY <1>7, SendRestControl
  <1>8. CASE PeerCut
    <2>1. /\ ppc \in {"compare", "send"} /\ WorkerStays /\ ppc' \in {"idle", "spin"}
          /\ knock' = knock /\ link' = NoLink /\ link.rst = "arrived"
      BY <1>0, <1>8 DEF PeerCut, WorkerStays
    <2>2. ~link.held /\ HangUp
      BY <2>1 DEF Control, Ends, Hanging
    <2> QED
      BY <2>1, <2>2, ClosesLost
  <1>9. CASE ListAgain \/ EditFile
    <2>1. /\ WorkerStays /\ link' = link /\ knock' = knock /\ ppc' = ppc /\ pname' = pname
          /\ pver' = pver /\ pleft' = pleft
      BY <1>0, <1>9 DEF ListAgain, EditFile, Fault, WorkerStays
    <2> QED
      BY <2>1, QuietControl
  <1>10. CASE PeerQuits
    <2>1. /\ WorkerStays /\ ppc' = "dead" /\ knock' = NoRequest /\ "peer" \in ill'
          /\ \/ knock # NoRequest /\ \E reset \in BOOLEAN : link' = Unanswered(reset)
             \/ /\ knock = NoRequest
                /\ link' = IF link.open THEN PeerClosed([link EXCEPT !.cut = link.toP # <<>>])
                                        ELSE link
      BY <1>0, <1>10 DEF PeerQuits, Fault, WorkerStays
    <2> QED
      BY <2>1, UnansweredControl, LeavesControl
  <1>11. CASE ResetArrives
    BY <1>11, ResetControl
  <1> QED
    BY <1>1, <1>2, <1>3, <1>4, <1>5, <1>6, <1>7, <1>8, <1>9, <1>10, <1>11 DEF PeerNext

--------------------------------------------------------------------------------
(* Types are kept. *)

\* The bytes a read gives.
LEMMA ReadTyped ==
  ASSUME link.toW \in Seq(Messages), BytesFrom(1), NEW k \in 0 .. Len(link.toW)
  PROVE  /\ Read(k) \in Seq(Byte) /\ Len(Read(k)) = k
         /\ \A b \in 1 .. k : Read(k)[b] = link.toW[b].val
  <1>1. ASSUME NEW b \in 1 .. k PROVE link.toW[b].val \in Byte
    <2>1. b \in 1 .. Len(link.toW)
      OBVIOUS
    <2> QED
      BY <2>1 DEF BytesFrom, Data
  <1>2. PICK w : w = link.toW
    OBVIOUS
  <1>3. /\ [b \in 1 .. k |-> w[b].val] \in Seq(Byte) /\ Len([b \in 1 .. k |-> w[b].val]) = k
        /\ \A b \in 1 .. k : [c \in 1 .. k |-> w[c].val][b] = w[b].val
    BY <1>1, <1>2
  <1> QED
    BY <1>2, <1>3, Zenon DEF Read

\* A chunk in the copy.
LEMMA ReadChunkCopy ==
  ASSUME Control, WorkerTyped, FilesTyped, ReadChunk
  PROVE  /\ wbuf' \in Seq(Byte) /\ Len(wbuf') = Chunk
         /\ copy' = [copy EXCEPT ![want] = Written(copy[want], at, wbuf')]
         /\ Written(copy[want], at, wbuf') \in Seq(Byte)
         /\ at + Chunk <= Len(Written(copy[want], at, wbuf'))
         /\ copy[want] \in Seq(Byte) /\ at \in 0 .. Len(copy[want]) /\ want \in Files
  <1>0. /\ wpc = "data" /\ wbuf \in Seq(Byte) /\ Len(wbuf) = Chunk /\ want \in Files
        /\ copy[want] \in Seq(Byte) /\ at \in Nat /\ at <= Len(copy[want])
        /\ Chunk \in Nat /\ link.toW \in Seq(Messages) /\ Len(link.toW) \in Nat /\ BytesFrom(1)
    BY TransferAssumption DEF ReadChunk, WorkerTyped, Control, LinkType, Arriving
  <1>1. PICK k \in 1 .. Chunk : Short(Chunk, k) /\ wbuf' = Filled(wbuf, Read(k))
    BY DEF ReadChunk
  <1>2. k \in 0 .. Len(link.toW)
    <2>1. k \in 0 .. Chunk /\ Chunk \in Nat
      BY <1>0, <1>1
    <2>2. k <= Len(link.toW)
      BY <1>0, <1>1, <2>1, ShortRead
    <2> QED
      BY <1>0, <1>1, <2>2
  <1>3. Read(k) \in Seq(Byte) /\ Len(Read(k)) = k
    BY <1>0, <1>2, ReadTyped
  <1>4. wbuf' \in Seq(Byte) /\ Len(wbuf') = Chunk
    <2>1. Len(Read(k)) <= Len(wbuf)
      BY <1>0, <1>1, <1>3
    <2> QED
      BY <1>0, <1>1, <1>3, <2>1, FilledTyped
  <1>5. copy' = [copy EXCEPT ![want] = Written(copy[want], at, wbuf')]
    BY DEF ReadChunk, Put
  <1>6. at \in 0 .. Len(copy[want])
    BY <1>0
  <1>7. /\ Written(copy[want], at, wbuf') \in Seq(Byte)
        /\ at + Chunk <= Len(Written(copy[want], at, wbuf'))
    <2>1. PICK s \in Seq(Byte) : s = wbuf'
      BY <1>4
    <2>2. PICK w : w = Written(copy[want], at, s)
      OBVIOUS
    <2>3. /\ w \in Seq(Byte)
          /\ at + Len(s) > Len(copy[want]) => Len(w) = at + Len(s)
          /\ at + Len(s) <= Len(copy[want]) => Len(w) = Len(copy[want])
      BY <1>0, <1>6, <2>2, WrittenTyped
    <2>4. at + Chunk <= Len(w)
      BY <1>0, <1>4, <2>1, <2>3
    <2> QED
      BY <2>1, <2>2, <2>3, <2>4, Zenon
  <1> QED
    BY <1>0, <1>4, <1>5, <1>6, <1>7

\* The last bytes in the copy.
LEMMA ReadRestCopy ==
  ASSUME Control, WorkerTyped, FilesTyped, ReadRest
  PROVE  \E k \in 0 .. left : \E s \in Seq(Byte) :
            /\ Short(left, k) /\ k <= Len(link.toW) /\ clean' = (clean /\ k = left)
            /\ Len(s) = left /\ \A b \in 1 .. k : s[b] = link.toW[b].val
            /\ copy' = [copy EXCEPT ![want] = Written(copy[want], at, s)]
            /\ Written(copy[want], at, s) \in Seq(Byte)
  <1>0. /\ wpc = "data" /\ wbuf \in Seq(Byte) /\ Len(wbuf) = Chunk /\ want \in Files
        /\ copy[want] \in Seq(Byte) /\ at \in Nat /\ at <= Len(copy[want]) /\ left \in Nat
        /\ left < Chunk
        /\ Chunk \in Nat /\ link.toW \in Seq(Messages) /\ Len(link.toW) \in Nat /\ BytesFrom(1)
    BY TransferAssumption DEF ReadRest, WorkerTyped, Control, LinkType, Arriving
  <1>1. PICK k \in 0 .. left :
           /\ Short(left, k) /\ clean' = (clean /\ k = left)
           /\ copy' = [copy EXCEPT ![want] = Put(SubSeq(Filled(wbuf, Read(k)), 1, left))]
    BY DEF ReadRest
  <1>2. k \in 0 .. Len(link.toW) /\ k <= Len(link.toW)
    <2>1. k <= Len(link.toW)
      BY <1>0, <1>1, ShortRead
    <2> QED
      BY <1>0, <1>1, <2>1
  <1>3. Read(k) \in Seq(Byte) /\ Len(Read(k)) = k /\ \A b \in 1 .. k : Read(k)[b] = link.toW[b].val
    BY <1>0, <1>2, ReadTyped
  <1>4. PICK buf : buf = Filled(wbuf, Read(k))
    OBVIOUS
  <1>5. buf \in Seq(Byte) /\ Len(buf) = Chunk /\ \A b \in 1 .. k : buf[b] = link.toW[b].val
    <2>1. Len(Read(k)) <= Len(wbuf)
      BY <1>0, <1>1, <1>3
    <2>2. /\ buf \in Seq(Byte) /\ Len(buf) = Len(wbuf)
          /\ \A b \in 1 .. Len(Read(k)) : buf[b] = Read(k)[b]
      BY <1>0, <1>3, <1>4, <2>1, FilledTyped
    <2> QED
      BY <1>0, <1>3, <2>2
  <1>6. PICK s : s = SubSeq(buf, 1, left)
    OBVIOUS
  <1>7. s \in Seq(Byte) /\ Len(s) = left /\ \A b \in 1 .. k : s[b] = link.toW[b].val
    <2>1. left \in 0 .. Len(buf) /\ 1 \in Nat \ {0}
      BY <1>0, <1>5
    <2>2. /\ s \in Seq(Byte) /\ (1 <= left => Len(s) = left - 1 + 1) /\ (left < 1 => Len(s) = 0)
          /\ \A b \in 1 .. Len(s) : s[b] = buf[1 - 1 + b]
      BY <1>5, <1>6, <2>1, PartOf
    <2>3. Len(s) = left
      BY <1>0, <2>2
    <2>4. ASSUME NEW b \in 1 .. k PROVE s[b] = link.toW[b].val
      <3>1. b \in 1 .. Len(s) /\ 1 - 1 + b = b
        BY <1>0, <1>1, <2>3
      <3> QED
        BY <1>5, <2>2, <3>1
    <2> QED
      BY <2>2, <2>3, <2>4
  <1>8. copy' = [copy EXCEPT ![want] = Written(copy[want], at, s)]
    BY <1>1, <1>4, <1>6 DEF Put
  <1>9. Written(copy[want], at, s) \in Seq(Byte)
    <2>1. at \in 0 .. Len(copy[want])
      BY <1>0
    <2> QED
      BY <1>0, <1>7, <2>1, WrittenTyped
  <1> QED
    BY <1>1, <1>2, <1>7, <1>8, <1>9

\* The tuple at the head of the list, by its kind.
LEMMA HeadTuple ==
  ASSUME WorkerTyped, todo # <<>>
  PROVE  /\ Tail(todo) \in Seq(Tuple)
         /\ Head(todo).at = "dir" => Head(todo).name \in Dirs
         /\ Head(todo).at = "file" => Head(todo).name \in Files
  <1>1. Head(todo) \in Tuple /\ Tail(todo) \in Seq(Tuple)
    BY DEF WorkerTyped
  <1> QED
    BY <1>1 DEF Tuple

\* Every step keeps the types of files, copies and descriptors.
LEMMA FilesKept ==
  ASSUME Control, FilesTyped, WorkerTyped, PeerTyped, [Next]_vars
  PROVE  FilesTyped'
  <1> USE DEF worker, peer, local, hist, env
  <1>0. /\ file \in [Files -> Contents \cup {Absent}] /\ dirs \subseteq Dirs /\ fds \in 0 .. FdLimit
        /\ copy \in [Files -> Seq(Byte) \cup {Absent}] /\ knock \in {NoRequest, "list", "file"}
        /\ FdLimit \in Nat
    BY TransferAssumption DEF FilesTyped
  <1>1. CASE AskList
    BY <1>0, <1>1 DEF AskList, FilesTyped
  <1>2. CASE MakeDir
    <2>1. Head(todo).name \in Dirs /\ Above(Head(todo).name) \subseteq Dirs
      BY <1>2, HeadTuple DEF MakeDir, Above
    <2>2. dirs' \subseteq Dirs
      BY <1>0, <1>2, <2>1 DEF MakeDir
    <2>3. fds' \in 0 .. FdLimit
      <3>1. CASE Room(1)
        BY <1>0, <1>2, <3>1 DEF MakeDir, Room
      <3>2. CASE ~Room(1)
        BY <1>0, <1>2, <3>2 DEF MakeDir
      <3> QED
        BY <3>1, <3>2
    <2> QED
      BY <1>0, <1>2, <2>2, <2>3 DEF MakeDir, FilesTyped
  <1>3. CASE AskFile
    <2>1. Above(Head(todo).name) \subseteq Dirs
      BY DEF Above
    <2>2. dirs' \subseteq Dirs
      BY <1>0, <1>3, <2>1 DEF AskFile
    <2>3. fds' \in 0 .. FdLimit
      <3>1. CASE Room(2) /\ copy[Head(todo).name] # Absent
        <4>1. fds' = fds + 1 /\ fds + 2 <= FdLimit
          BY <1>3, <3>1 DEF AskFile, Room
        <4> QED
          BY <1>0, <4>1
      <3>2. CASE ~(Room(2) /\ copy[Head(todo).name] # Absent)
        <4>1. fds' = fds + 0
          BY <1>3, <3>2 DEF AskFile
        <4> QED
          BY <1>0, <4>1
      <3> QED
        BY <3>1, <3>2
    <2>4. knock' \in {NoRequest, "list", "file"}
      BY <1>0, <1>3 DEF AskFile
    <2> QED
      BY <1>0, <1>3, <2>2, <2>3, <2>4 DEF AskFile, FilesTyped
  <1>4. CASE OpenCopy
    <2>1. want \in Files /\ <<>> \in Seq(Byte)
      BY <1>4 DEF OpenCopy, WorkerTyped
    <2>2. copy' \in [Files -> Seq(Byte) \cup {Absent}]
      BY <1>0, <1>4, <2>1 DEF OpenCopy
    <2> QED
      BY <1>0, <1>4, <2>2 DEF OpenCopy, FilesTyped
  <1>5. CASE ReadChunk
    <2>1. copy' \in [Files -> Seq(Byte) \cup {Absent}]
      BY <1>0, <1>5, ReadChunkCopy
    <2> QED
      BY <1>0, <1>5, <2>1 DEF ReadChunk, FilesTyped
  <1>6. CASE ReadRest
    <2>1. copy' \in [Files -> Seq(Byte) \cup {Absent}]
      BY <1>0, <1>6, ReadRestCopy
    <2> QED
      BY <1>0, <1>6, <2>1 DEF ReadRest, FilesTyped
  <1>7. CASE EditFile
    <2>1. file' \in [Files -> Contents \cup {Absent}]
      BY <1>0, <1>7 DEF EditFile
    <2> QED
      BY <1>0, <1>7, <2>1 DEF EditFile, FilesTyped
  <1>8. CASE Accept
    BY <1>0, <1>8 DEF Accept, FilesTyped
  <1>9. CASE PeerQuits
    BY <1>0, <1>9 DEF PeerQuits, FilesTyped
  <1>10. CASE \/ GetList \/ NoList \/ ListDone \/ SendTuple \/ WorkerEnds \/ GetNothing
              \/ WorkerStuck \/ OutOfDescriptors \/ NotWritable \/ WorkerQuits
    BY <1>0, <1>10
       DEF GetList, NoList, ListDone, SendTuple, WorkerEnds, GetNothing, WorkerStuck,
           OutOfDescriptors, NotWritable, OpenFails, WorkerQuits, FilesTyped
  <1>11. CASE \/ send_file_list \/ ReadTuple \/ NoTuple \/ Compare \/ SendChunk \/ SendRest
              \/ PeerCut \/ ResetArrives \/ ListAgain
    BY <1>0, <1>11
       DEF send_file_list, ReadTuple, NoTuple, Compare, SendChunk, SendRest, PeerCut,
           ResetArrives, ListAgain, FilesTyped
  <1>12. CASE UNCHANGED vars
    BY <1>0, <1>12 DEF vars, FilesTyped
  <1> QED
    BY <1>1, <1>2, <1>3, <1>4, <1>5, <1>6, <1>7, <1>8, <1>9, <1>10, <1>11, <1>12
       DEF Next, WorkerNext, PeerNext

\* The state of a worker that a step of its own leaves with nothing in hand.
LEMMA WorkerRests ==
  ASSUME WorkerTyped, wpc' \in {"idle", "list", "next", "dead", "stuck", "gone"},
         want' = want, todo' = todo, wver' = wver, wbuf' = wbuf, left' = left, at' = at
  PROVE  WorkerTyped'
  BY DEF WorkerTyped

\* Every step keeps the types of the worker's variables.
LEMMA WorkerKept ==
  ASSUME Control, FilesTyped, FilesTyped', WorkerTyped, PeerTyped, [Next]_vars
  PROVE  WorkerTyped'
  <1> USE DEF worker, peer, local, hist, env
  <1>0. /\ <<>> \in Version /\ <<>> \in Seq(Byte) /\ Len(<<>>) = 0 /\ 0 \in Nat
        /\ Chunk \in Nat
    <2>1. <<>> \in Version
      BY DEF Version
    <2> QED
      BY <2>1, TransferAssumption
  <1>a. \A fate : Finish(fate) => WorkerTyped'
    BY <1>0 DEF Finish, Continue, WorkerTyped
  <1>1. CASE GetList
    <2>1. link.toW[2].val \in Seq(Tuple)
      BY <1>1, ReadsAnswer DEF GetList, Listing
    <2> QED
      BY <1>1, <2>1 DEF GetList, WorkerTyped
  <1>2. CASE AskList \/ NoList \/ ListDone \/ WorkerEnds \/ WorkerStuck \/ WorkerQuits
    <2>1. /\ want' = want /\ todo' = todo /\ wver' = wver /\ wbuf' = wbuf /\ left' = left
          /\ at' = at /\ wpc' \in {"idle", "list", "next", "dead", "stuck", "gone"}
      BY <1>2 DEF AskList, NoList, ListDone, WorkerEnds, WorkerStuck, WorkerQuits
    <2> QED
      BY <2>1, WorkerRests
  <1>3. CASE MakeDir
    <2>1. Tail(todo) \in Seq(Tuple)
      BY <1>3, HeadTuple DEF MakeDir
    <2> QED
      BY <1>3, <2>1 DEF MakeDir, WorkerTyped
  <1>4. CASE AskFile
    <2>1. Tail(todo) \in Seq(Tuple) /\ Head(todo).name \in Files
      BY <1>4, HeadTuple DEF AskFile
    <2>2. get_version(Head(todo).name) \in Version
      <3>1. copy[Head(todo).name] = Absent \/ copy[Head(todo).name] \in Seq(Byte)
        BY <2>1 DEF FilesTyped
      <3> QED
        BY <1>0, <3>1 DEF get_version, Version
    <2>3. /\ wver' \in Version /\ want' \in Files /\ todo' \in Seq(Tuple)
          /\ wpc' \in {"approve", "next"}
      BY <1>0, <1>4, <2>1, <2>2 DEF AskFile
    <2> QED
      BY <1>4, <2>3 DEF AskFile, WorkerTyped
  <1>5. CASE SendTuple
    BY <1>5 DEF SendTuple, WorkerTyped
  <1>6. CASE GetNothing \/ OutOfDescriptors \/ NotWritable
    BY <1>6, <1>a DEF GetNothing, OutOfDescriptors, NotWritable, OpenFails
  <1>7. CASE OpenCopy
    <2>1. CASE file_size(Head(link.toW)) = 0
      BY <1>7, <1>a, <2>1 DEF OpenCopy
    <2>2. CASE file_size(Head(link.toW)) # 0
      <3>1. /\ wpc = "reply" /\ want \in Files /\ link.toW \in Seq(Messages) /\ SizeFirst
        BY <1>7, ReadsAnswer DEF OpenCopy, WorkerTyped, Control, LinkType
      <3>2. file_size(Head(link.toW)) \in Nat
        <4>1. Head(link.toW) = link.toW[1]
          BY <3>1
        <4> QED
          BY <3>1, <4>1 DEF file_size, SizeFirst, Size
      <3>3. copy'[want] \in Seq(Byte)
        BY <1>0, <1>7, <3>1 DEF OpenCopy, FilesTyped
      <3>4. /\ wpc' = "data" /\ left' \in Nat /\ at' = 0 /\ wbuf' = Fresh /\ want' = want
            /\ wver' = wver /\ todo' = todo
        BY <1>7, <2>2, <3>2 DEF OpenCopy
      <3>5. 0 <= Len(copy'[want])
        BY <3>3
      <3> QED
        BY <1>0, <3>1, <3>3, <3>4, <3>5, FreshTyped DEF WorkerTyped
    <2> QED
      BY <2>1, <2>2
  <1>8. CASE ReadChunk
    <2>1. /\ wbuf' \in Seq(Byte) /\ Len(wbuf') = Chunk /\ want \in Files
          /\ copy' = [copy EXCEPT ![want] = Written(copy[want], at, wbuf')]
          /\ Written(copy[want], at, wbuf') \in Seq(Byte)
          /\ at + Chunk <= Len(Written(copy[want], at, wbuf'))
      BY <1>8, ReadChunkCopy
    <2>2. copy'[want] = Written(copy[want], at, wbuf')
      BY <2>1 DEF FilesTyped
    <2>3. /\ wpc' = wpc /\ todo' = todo /\ want' = want /\ wver' = wver
          /\ left' = left - Chunk /\ at' = at + Chunk /\ left >= Chunk
      BY <1>8 DEF ReadChunk
    <2>4. left' \in Nat /\ at' \in Nat
      BY <1>0, <2>3 DEF WorkerTyped
    <2>5. copy'[want'] \in Seq(Byte) /\ at' <= Len(copy'[want'])
      BY <2>1, <2>2, <2>3, Zenon
    <2> QED
      BY <2>1, <2>3, <2>4, <2>5 DEF WorkerTyped
  <1>9. CASE ReadRest
    BY <1>0, <1>9 DEF ReadRest, WorkerTyped
  <1>10. CASE PeerNext \/ ListAgain \/ PeerQuits \/ ResetArrives \/ EditFile \/ UNCHANGED vars
    <2>1. /\ wpc' = wpc /\ todo' = todo /\ want' = want /\ wver' = wver /\ wbuf' = wbuf
          /\ left' = left /\ at' = at /\ copy' = copy
      BY <1>10 DEF PeerNext, Accept, send_file_list, ReadTuple, NoTuple, Compare, SendChunk,
                   SendRest, PeerCut, ListAgain, PeerQuits, ResetArrives, EditFile, vars
    <2> QED
      BY <2>1 DEF WorkerTyped
  <1> QED
    BY <1>1, <1>2, <1>3, <1>4, <1>5, <1>6, <1>7, <1>8, <1>9, <1>10 DEF Next, WorkerNext

\* Every step keeps the types of the peer's variables.
LEMMA PeerKept ==
  ASSUME Control, FilesTyped, WorkerTyped, PeerTyped, [Next]_vars
  PROVE  PeerTyped'
  <1> USE DEF worker, peer, local, hist, env
  <1>0. <<>> \in Seq(Byte) /\ <<>> \in Seq(Tuple) /\ Len(<<>>) = 0 /\ Chunk \in Nat
    BY TransferAssumption
  <1>a. ASSUME Returned, ppc' \in {"idle", "spin", "dead"} PROVE PeerTyped'
    BY <1>0, <1>a DEF Returned, PeerTyped
  <1>1. CASE Accept
    <2>1. CASE \E l : Served(l)
      BY <1>a, <2>1 DEF Served
    <2>2. CASE /\ ppc' \in {"listing", "tuple"}
               /\ UNCHANGED <<f_list, pname, pver, pown, pbuf, pleft, pat>>
      BY <2>2 DEF PeerTyped
    <2> QED
      BY <1>1, <2>1, <2>2 DEF Accept
  <1>2. CASE send_file_list \/ NoTuple \/ SendRest \/ PeerCut \/ PeerQuits
    BY <1>2, <1>a DEF send_file_list, NoTuple, SendRest, PeerCut, PeerQuits, Served
  <1>3. CASE ReadTuple
    <2>1. CASE \E l : Served(l)
      BY <1>a, <2>1 DEF Served
    <2>2. CASE ~\E l : Served(l)
      <3>1. /\ ppc' = "compare" /\ pname' = Head(link.toP).name /\ f_list' = f_list /\ pbuf' = pbuf
            /\ pleft' = pleft /\ pat' = pat
        BY <1>3, <2>2 DEF ReadTuple
      <3>2. Head(link.toP).name \in Files
        <4>1. link.toP \in Seq([name : Files, version : Version]) /\ link.toP # <<>>
          BY <1>3 DEF ReadTuple, Control, LinkType
        <4>2. Head(link.toP) \in [name : Files, version : Version]
          BY <4>1, HeadTailProperties
        <4> QED
          BY <4>2
      <3> QED
        BY <3>1, <3>2 DEF PeerTyped
    <2> QED
      BY <2>1, <2>2
  <1>4. CASE Compare
    <2>1. CASE \E l : Served(l)
      BY <1>a, <2>1 DEF Served
    <2>2. CASE ~\E l : Served(l)
      <3>1. /\ ppc' = "send" /\ pname' = pname /\ f_list' = f_list /\ pbuf' = Fresh
            /\ pleft' = FileSize(pname) /\ pat' = 0 /\ FileSize(pname) # 0 /\ file' = file
            /\ ppc = "compare"
        BY <1>4, <2>2 DEF Compare
      <3>2. pname \in Files /\ file[pname] \in Contents /\ FileSize(pname) = Len(file[pname])
        BY <3>1 DEF FileSize, PeerTyped, FilesTyped
      <3>3. FileSize(pname) \in Nat
        BY <3>2, ContentsBytes
      <3> QED
        BY <3>1, <3>2, <3>3, FreshTyped DEF PeerTyped
    <2> QED
      BY <2>1, <2>2
  <1>5. CASE SendChunk
    <2>1. /\ ppc = "send" /\ ppc' = ppc /\ pbuf' = Filled(pbuf, FileBlock(pat)) /\ pname' = pname
          /\ pat' = pat + Len(FileBlock(pat)) /\ pleft' = pleft - Chunk /\ pleft >= Chunk
          /\ f_list' = f_list /\ file' = file
      BY <1>5 DEF SendChunk
    <2>2. pbuf' \in Seq(Byte) /\ Len(pbuf') = Chunk
      BY <2>1, PeerReads
    <2>3. FileBlock(pat) \in Seq(Byte)
      BY <2>1, PeerReads, BlockTyped DEF PeerTyped
    <2>4. pat' \in Nat /\ pleft' \in Nat
      BY <1>0, <2>1, <2>3 DEF PeerTyped
    <2> QED
      BY <2>1, <2>2, <2>4 DEF PeerTyped
  <1>6. CASE ListAgain
    <2>1. PICK w \in DOMAIN Walk[Root] : f_list' = f_list \o Listed(w)
      BY <1>6 DEF ListAgain
    <2>2. f_list \in Seq(Tuple) /\ Listed(w) \in Seq(Tuple)
      BY ListedTyped DEF PeerTyped
    <2>3. f_list' \in Seq(Tuple)
      BY <2>1, <2>2, ConcatProperties
    <2> QED
      BY <1>6, <2>3 DEF ListAgain, PeerTyped
  <1>7. CASE EditFile
    <2>1. PICK f \in Files, c \in Contents \cup {Absent} :
             (ppc = "send" => c # Absent) /\ file' = [file EXCEPT ![f] = c]
      BY <1>7 DEF EditFile
    <2>2. ppc = "send" => file'[pname] \in Contents
      BY <2>1 DEF PeerTyped, FilesTyped
    <2> QED
      BY <1>7, <2>2 DEF EditFile, PeerTyped
  <1>8. CASE WorkerNext \/ NotWritable \/ WorkerQuits \/ ResetArrives \/ UNCHANGED vars
    <2>1. /\ ppc' = ppc /\ f_list' = f_list /\ pname' = pname /\ pbuf' = pbuf /\ pleft' = pleft
          /\ pat' = pat /\ file' = file
      BY <1>8 DEF WorkerNext, AskList, GetList, NoList, ListDone, MakeDir, AskFile, SendTuple,
                  WorkerEnds, GetNothing, OpenCopy, ReadChunk, ReadRest, WorkerStuck,
                  OutOfDescriptors, NotWritable, OpenFails, WorkerQuits, ResetArrives, vars
    <2> QED
      BY <2>1 DEF PeerTyped
  <1> QED
    BY <1>1, <1>2, <1>3, <1>4, <1>5, <1>6, <1>7, <1>8 DEF Next, PeerNext

--------------------------------------------------------------------------------
(* The theorems. *)

\* The inductive invariant: the types, and the two ends of the connection.
TransferInv == FilesTyped /\ WorkerTyped /\ PeerTyped /\ Control

\* TransferInv holds at the start.
LEMMA TransferInit ==
  ASSUME Init
  PROVE  TransferInv
  <1>0. <<>> \in Seq(Tuple) /\ <<>> \in Seq(Byte) /\ Len(<<>>) = 0 /\ <<>> \in Version
    BY DEF Version
  <1>1. FilesTyped
    <2>1. file \in [Files -> Contents \cup {Absent}]
      BY TransferAssumption DEF Init
    <2>2. copy \in [Files -> Seq(Byte) \cup {Absent}]
      <3>1. copy \in [Files -> Contents \cup {Absent}]
        BY TransferAssumption DEF Init
      <3> QED
        BY <3>1, ContentsBytes
    <2> QED
      BY <2>1, <2>2, TransferAssumption DEF Init, FilesTyped
  <1>2. WorkerTyped
    BY <1>0 DEF Init, WorkerTyped
  <1>3. PeerTyped
    BY <1>0 DEF Init, PeerTyped
  <1>4. Control
    <2>1. Ends
      BY NoLinkTyped DEF Init, Ends, Serving, NoRequest
    <2>2. Asked /\ Replied /\ Arriving
      BY DEF Init, Asked, Replied, Arriving
    <2>3. Hanging
      BY NoLinkTyped DEF Init, Hanging
    <2> QED
      BY <2>1, <2>2, <2>3, NoLinkTyped DEF Init, Control
  <1> QED
    BY <1>1, <1>2, <1>3, <1>4 DEF TransferInv

\* TransferInv is inductive.
LEMMA TransferStep ==
  ASSUME TransferInv, [Next]_vars
  PROVE  TransferInv'
  <1>0. Control /\ FilesTyped /\ WorkerTyped /\ PeerTyped
    BY DEF TransferInv
  <1>1. FilesTyped'
    BY <1>0, FilesKept
  <1>2. WorkerTyped'
    BY <1>0, <1>1, WorkerKept
  <1>3. PeerTyped'
    BY <1>0, PeerKept
  <1>4. Control'
    <2>1. CASE WorkerNext \/ NotWritable \/ WorkerQuits
      BY <1>0, <1>1, <2>1, WorkerControl
    <2>2. CASE PeerNext \/ ListAgain \/ PeerQuits \/ ResetArrives \/ EditFile
      BY <1>0, <2>2, PeerControl
    <2>3. CASE UNCHANGED vars
      <3>1. /\ WorkerStays /\ link' = link /\ knock' = knock /\ ppc' = ppc /\ pname' = pname
            /\ pver' = pver /\ pleft' = pleft
        BY <1>0, <2>3 DEF vars, local, worker, peer, env, WorkerStays, FilesTyped
      <3> QED
        BY <1>0, <3>1, QuietControl
    <2> QED
      BY <2>1, <2>2, <2>3 DEF Next
  <1> QED
    BY <1>1, <1>2, <1>3, <1>4 DEF TransferInv

\* The inductive invariant holds of every transfer.
THEOREM TransferInvariance == Spec => []TransferInv
  <1>1. Init => TransferInv
    BY TransferInit
  <1>2. TransferInv /\ [Next]_vars => TransferInv'
    BY TransferStep
  <1> QED
    BY <1>1, <1>2, PTL DEF Spec

\* Type correctness of the transfer, for any tree, contents and chunk size.
THEOREM TransferTypes == Spec => []TypeOK
  <1>1. TransferInv => TypeOK
    <2> SUFFICES ASSUME TransferInv PROVE TypeOK
      OBVIOUS
    <2>0. FilesTyped /\ WorkerTyped /\ PeerTyped /\ link \in LinkType
      BY DEF TransferInv, Control
    <2>1. ASSUME NEW f \in Files PROVE copy[f] = Absent \/ Range(copy[f]) \subseteq Byte
      <3>1. CASE copy[f] \in Seq(Byte)
        <4>1. \A b \in DOMAIN copy[f] : copy[f][b] \in Byte
          BY <3>1
        <4> QED
          BY <4>1 DEF Range
      <3> QED
        BY <2>0, <3>1 DEF FilesTyped
    <2>2. ASSUME NEW m \in Range(link.toW) PROVE m.tag \in Message
      <3>1. link.toW \in Seq(Messages)
        BY <2>0 DEF LinkType
      <3>2. PICK b \in DOMAIN link.toW : m = link.toW[b]
        BY <2>2 DEF Range
      <3>3. m \in Messages
        BY <3>1, <3>2
      <3> QED
        BY <3>3 DEF Messages, Answer, Listing, Size, Data, Message
    <2>3. \A f \in Files : file[f] \in Contents \cup {Absent}
      BY <2>0 DEF FilesTyped
    <2>4. link.rst \in {"no", "flying", "arrived"}
      BY <2>0 DEF LinkType
    <2> QED
      BY <2>0, <2>1, <2>2, <2>3, <2>4 DEF TypeOK, FilesTyped, WorkerTyped, PeerTyped
  <1> QED
    BY <1>1, TransferInvariance, PTL

\* No wait of work() and send_file is for ever unless somebody hung up in the
\* middle: a worker's thread is lost only when the peer left, the peer's main
\* thread only when a worker hung up on data it had not read.
THEOREM ThreadsSurvive == Spec => []LostOnlyByHangup
  <1>1. TransferInv => LostOnlyByHangup
    BY DEF TransferInv, Control, Hanging, HangUp, LostOnlyByHangup
  <1> QED
    BY <1>1, TransferInvariance, PTL

--------------------------------------------------------------------------------
(* What the peer does to a worker that waits for its answer. *)

WorkerStill ==
    /\ wpc' = wpc /\ want' = want /\ wver' = wver /\ left' = left /\ at' = at
    /\ copy' = copy /\ file' = file /\ old' = old /\ last' = last /\ clean' = clean

SaysNotFound == /\ wpc = "reply" /\ ~ link'.open /\ link'.toW = Msg("FILE_NOT_FOUND")
                /\ file[want] = Absent

Looks == /\ wpc = "reply" /\ ppc' = "compare" /\ link'.toW = <<>>
         /\ file[want] \in Contents /\ pown' = find_version(file[want])

SaysUpToDate == /\ wpc = "reply" /\ ppc = "compare" /\ link.open /\ pown = wver
                /\ ~ link'.open /\ link'.toW = Msg("FILE_UP_TO_DATE")

SaysSize ==
    /\ wpc = "reply" /\ ppc = "compare" /\ link.open
    /\ link'.toW = <<[tag |-> "FILE_SIZE", val |-> FileSize(want)]>>
    /\ link'.open => ppc' = "send" /\ pat' = 0

SendsChunk ==
    /\ ppc = "send" /\ link.open /\ link'.open /\ ppc' = "send" /\ pname = want
    /\ pleft >= Chunk /\ pleft' = pleft - Chunk
    /\ pbuf' = Filled(pbuf, FileBlock(pat)) /\ pat' = pat + Len(FileBlock(pat))
    /\ link'.toW = link.toW \o Bytes(pbuf')

SendsRest ==
    /\ ppc = "send" /\ link.open /\ ~ link'.open /\ ppc' = "idle" /\ pname = want
    /\ pleft < Chunk
    /\ link'.toW = link.toW \o Bytes(SubSeq(Filled(pbuf, FileBlock(pat)), 1, pleft))

HangsUpOn == ~ link'.open /\ ppc' = "dead" /\ link'.toW = link.toW

\* The worker itself stays where it is.
LEMMA StaysStill ==
  ASSUME PeerNext \/ ListAgain \/ PeerQuits \/ ResetArrives
  PROVE  WorkerStill
  BY DEF PeerNext, Accept, send_file_list, ReadTuple, NoTuple, Compare, SendChunk, SendRest, PeerCut,
         ListAgain, PeerQuits, ResetArrives, worker, local, hist, WorkerStill

\* Every step of the peer while the worker waits for an answer is one of these.
LEMMA Answers ==
  ASSUME TransferInv, wpc \in {"reply", "data"},
         PeerNext \/ ListAgain \/ PeerQuits \/ ResetArrives
  PROVE  \/ SaysNotFound \/ Looks \/ SaysUpToDate \/ SaysSize \/ SendsChunk \/ SendsRest
         \/ HangsUpOn
  <1>1. link \in LinkType /\ link.held /\ link.toW \in Seq(Messages) /\ link.rst = "no"
        /\ knock = NoRequest /\ want \in Files /\ Control /\ PeerTyped /\ FilesTyped
    BY DEF TransferInv, Control, Ends, LinkType, WorkerTyped
  <1>2. ~Accept /\ ~send_file_list /\ ~NoTuple /\ ~PeerCut /\ ~ResetArrives /\ ~ListAgain
    <2>1. ppc = "listing" => FALSE
      BY <1>1, ServingWhat DEF Serving
    <2> QED
      BY <1>1, <2>1 DEF Accept, send_file_list, NoTuple, PeerCut, ResetArrives, ListAgain
  <1>3. CASE ReadTuple
    <2>1. /\ ppc = "tuple" /\ wpc = "reply" /\ link.toW = <<>>
          /\ link.toP = <<[name |-> want, version |-> wver]>>
      BY <1>1, <1>3, ServingWhat DEF Serving, ReadTuple
    <2>2. Head(link.toP).name = want
      BY <2>1
    <2>3. PICK l : l = [link EXCEPT !.toP = <<>>]
      OBVIOUS
    <2>4. l \in LinkType /\ l.held /\ l.toW = link.toW
      <3>1. <<>> \in Seq([name : Files, version : Version])
        OBVIOUS
      <3> QED
        BY <1>1, <2>3, <3>1 DEF LinkType
    <2>5. CASE file[want] = Absent
      <3>1. link' = PeerClosed(Sent(l, Msg("FILE_NOT_FOUND")))
        BY <1>3, <2>2, <2>3, <2>5 DEF ReadTuple, Served
      <3>2. Msg("FILE_NOT_FOUND") \in Seq(Messages)
        BY MsgTyped
      <3>3. ~link'.open /\ link'.toW = <<>> \o Msg("FILE_NOT_FOUND")
        BY <2>1, <2>4, <3>1, <3>2, ServedLink
      <3>4. <<>> \o Msg("FILE_NOT_FOUND") = Msg("FILE_NOT_FOUND")
        BY <3>2, ConcatEmptySeq
      <3> QED
        BY <2>1, <2>5, <3>3, <3>4 DEF SaysNotFound
    <2>6. CASE file[want] # Absent
      <3>1. ppc' = "compare" /\ link' = l /\ pown' = find_version(file[want])
        BY <1>3, <2>2, <2>3, <2>6 DEF ReadTuple
      <3>2. file[want] \in Contents
        BY <1>1, <2>6 DEF FilesTyped
      <3> QED
        BY <2>1, <2>4, <3>1, <3>2 DEF Looks
    <2> QED
      BY <2>5, <2>6
  <1>4. CASE Compare
    <2>1. /\ ppc = "compare" /\ wpc = "reply" /\ link.toW = <<>> /\ link.open
          /\ pname = want /\ pver = wver
      BY <1>1, <1>4, ServingWhat DEF Serving, Compare
    <2>2. PICK head : head = <<[tag |-> "FILE_SIZE", val |-> FileSize(want)]>>
      OBVIOUS
    <2>3. head \in Seq(Messages) /\ <<>> \o head = head
      <3>1. file[want] # Absent => file[want] \in Seq(Byte)
        BY <1>1, ContentsBytes DEF FilesTyped
      <3>2. FileSize(want) \in Nat
        BY <3>1 DEF FileSize
      <3>3. head \in Seq(Messages)
        BY <2>2, <3>2 DEF Messages, Size
      <3> QED
        BY <3>3, ConcatEmptySeq
    <2>4. Msg("FILE_UP_TO_DATE") \in Seq(Messages) /\ <<>> \o Msg("FILE_UP_TO_DATE") = Msg("FILE_UP_TO_DATE")
      <3>1. Msg("FILE_UP_TO_DATE") \in Seq(Messages)
        BY MsgTyped
      <3> QED
        BY <3>1, ConcatEmptySeq
    <2>5. \/ pown = pver /\ link' = PeerClosed(Sent(link, Msg("FILE_UP_TO_DATE")))
          \/ link' = PeerClosed(Sent(link, head))
          \/ ppc' = "send" /\ link' = Sent(link, head) /\ pat' = 0
      BY <1>4, <2>1, <2>2 DEF Compare, Served, SameVersion
    <2>6. CASE pown = pver /\ link' = PeerClosed(Sent(link, Msg("FILE_UP_TO_DATE")))
      <3>1. ~link'.open /\ link'.toW = <<>> \o Msg("FILE_UP_TO_DATE")
        BY <1>1, <2>1, <2>4, <2>6, ServedLink
      <3> QED
        BY <2>1, <2>4, <2>6, <3>1 DEF SaysUpToDate
    <2>7. CASE link' = PeerClosed(Sent(link, head))
      <3>1. ~link'.open /\ link'.toW = <<>> \o head
        BY <1>1, <2>1, <2>3, <2>7, ServedLink
      <3> QED
        BY <2>1, <2>2, <2>3, <3>1 DEF SaysSize
    <2>8. CASE ppc' = "send" /\ link' = Sent(link, head) /\ pat' = 0
      <3>1. link'.toW = link.toW \o head
        BY <1>1, <2>3, <2>8, SentLink
      <3>2. link'.toW = head
        BY <2>1, <2>3, <3>1, Zenon
      <3> QED
        BY <2>1, <2>2, <2>8, <3>2 DEF SaysSize
    <2> QED
      BY <2>5, <2>6, <2>7, <2>8
  <1>5. CASE SendChunk
    <2>1. /\ ppc = "send" /\ link' = Sent(link, Bytes(pbuf')) /\ ppc' = ppc
          /\ pleft >= Chunk /\ pleft' = pleft - Chunk
          /\ pbuf' = Filled(pbuf, FileBlock(pat)) /\ pat' = pat + Len(FileBlock(pat))
      BY <1>5 DEF SendChunk
    <2>2. link.open /\ pname = want
      BY <1>1, <2>1, ServingWhat DEF Serving
    <2>3. Bytes(pbuf') \in Seq(Messages)
      BY <1>1, <2>1, PeerReads, BytesTyped
    <2>4. link'.open /\ link'.toW = link.toW \o Bytes(pbuf')
      BY <1>1, <2>1, <2>2, <2>3, SentLink
    <2> QED
      BY <2>1, <2>2, <2>4 DEF SendsChunk
  <1>6. CASE SendRest
    <2>0. PICK s : s = SubSeq(Filled(pbuf, FileBlock(pat)), 1, pleft)
      OBVIOUS
    <2>1. /\ ppc = "send" /\ link' = PeerClosed(Sent(link, Bytes(s))) /\ ppc' = "idle"
          /\ pleft < Chunk
      BY <1>6, <2>0 DEF SendRest, Served
    <2>2. link.open /\ pname = want
      BY <1>1, <2>1, ServingWhat DEF Serving
    <2>3. Bytes(s) \in Seq(Messages)
      <3>1. PICK buf \in Seq(Byte) : buf = Filled(pbuf, FileBlock(pat)) /\ Len(buf) = Chunk
        BY <1>1, <2>1, PeerReads
      <3>2. pleft \in 0 .. Len(buf) /\ 1 \in Nat \ {0} /\ s = SubSeq(buf, 1, pleft)
        BY <1>1, <2>0, <2>1, <3>1, TransferAssumption DEF PeerTyped
      <3>3. s \in Seq(Byte)
        BY <3>2, PartOf
      <3> QED
        BY <3>3, BytesTyped
    <2>4. ~link'.open /\ link'.toW = link.toW \o Bytes(s)
      BY <1>1, <2>1, <2>3, ServedLink
    <2> QED
      BY <2>0, <2>1, <2>2, <2>4 DEF SendsRest
  <1>7. CASE PeerQuits
    <2>1. /\ ppc' = "dead"
          /\ link' = IF link.open THEN PeerClosed([link EXCEPT !.cut = link.toP # <<>>]) ELSE link
      BY <1>1, <1>7 DEF PeerQuits
    <2>2. CASE ~link.open
      BY <2>1, <2>2 DEF HangsUpOn
    <2>3. CASE link.open
      <3>1. link' = [[link EXCEPT !.cut = link.toP # <<>>] EXCEPT !.open = FALSE]
        BY <1>1, <2>1, <2>3 DEF PeerClosed, LinkType
      <3>2. ~link'.open /\ link'.toW = link.toW
        BY <1>1, <3>1 DEF LinkType
      <3> QED
        BY <2>1, <3>2 DEF HangsUpOn
    <2> QED
      BY <2>2, <2>3
  <1> QED
    BY <1>2, <1>3, <1>4, <1>5, <1>6, <1>7 DEF PeerNext

--------------------------------------------------------------------------------
(* FILE_UP_TO_DATE. *)

SameVersions == /\ want \in Files /\ copy[want] # Absent /\ file[want] \in Contents
                /\ find_version(copy[want]) = find_version(file[want])

\* The request in hand, and the version that goes out with it.
InHand ==
    /\ last[1] = want
    /\ wpc \in {"approve", "reply", "data"} => last[2] = "none"
    /\ wpc \in {"approve", "reply"} =>
          wver = <<>> \/ (copy[want] # Absent /\ wver = find_version(copy[want]))

\* The version the peer has computed is that of the file, unless it was edited.
Looked ==
    wpc = "reply" /\ ppc = "compare" /\ link.open /\ clean =>
        file[want] \in Contents /\ pown = find_version(file[want])

Told ==
    /\ wpc = "reply" /\ link.toW = Msg("FILE_UP_TO_DATE") /\ clean => SameVersions
    /\ last[2] = "up to date" /\ clean => SameVersions

Versions == InHand /\ Looked /\ Told

\* The messages that are not FILE_UP_TO_DATE.
LEMMA NotUpToDate ==
  /\ <<>> # Msg("FILE_UP_TO_DATE")
  /\ Msg("FILE_NOT_FOUND") # Msg("FILE_UP_TO_DATE")
  /\ SizeFirst => link.toW # Msg("FILE_UP_TO_DATE")
  <1>1. <<>> # Msg("FILE_UP_TO_DATE")
    BY DEF Msg
  <1>2. Msg("FILE_NOT_FOUND") # Msg("FILE_UP_TO_DATE")
    BY MsgTyped
  <1>3. SizeFirst => link.toW # Msg("FILE_UP_TO_DATE")
    BY MsgTyped DEF SizeFirst, Size
  <1> QED
    BY <1>1, <1>2, <1>3

\* A worker with no answer to wait for.
LEMMA VersionsRest ==
  ASSUME Versions, want' = want, copy' = copy, file' = file, clean' = clean, last' = last,
         wpc' \notin {"approve", "reply", "data"}
  PROVE  Versions'
  BY DEF Versions, InHand, Looked, Told, SameVersions, find_version

\* A request that ends, and not with FILE_UP_TO_DATE.
LEMMA VersionsEnd ==
  ASSUME want' = want, NEW fate, fate # "up to date", last' = <<want, fate>>, wpc' = "next"
  PROVE  Versions'
  BY DEF Versions, InHand, Looked, Told

\* A step of the peer gives an answer that its files justify.
LEMMA VersionsPeer ==
  ASSUME TransferInv, Versions, PeerNext \/ ListAgain \/ PeerQuits \/ ResetArrives
  PROVE  Versions'
  <1>0. WorkerStill
    BY StaysStill
  <1>1. InHand'
    BY <1>0 DEF WorkerStill, Versions, InHand, find_version
  <1>2. (last[2] = "up to date" /\ clean => SameVersions)'
    BY <1>0 DEF WorkerStill, Versions, Told, SameVersions, find_version
  <1>3. CASE wpc # "reply"
    BY <1>0, <1>1, <1>2, <1>3 DEF Versions, Looked, Told, WorkerStill
  <1>4. CASE wpc = "reply"
    <2> SUFFICES Looked' /\ (link'.toW = Msg("FILE_UP_TO_DATE") /\ clean => SameVersions)
      <3>1. SameVersions => SameVersions'
        BY <1>0 DEF WorkerStill, SameVersions, find_version
      <3> QED
        BY <1>0, <1>1, <1>2, <3>1 DEF Versions, Told, WorkerStill
    <2>0. link.toW \in Seq(Messages)
      BY DEF TransferInv, Control, LinkType
    <2>1. CASE SaysNotFound
      BY <2>1, NotUpToDate DEF SaysNotFound, Looked
    <2>2. CASE Looks
      BY <1>0, <2>2, NotUpToDate DEF Looks, Looked, WorkerStill, find_version
    <2>3. CASE SaysUpToDate
      <3>1. Looked'
        BY <2>3 DEF SaysUpToDate, Looked
      <3>2. ASSUME clean PROVE SameVersions
        <4>1. /\ file[want] \in Contents /\ wver = find_version(file[want])
              /\ want \in Files
          BY <1>4, <2>3, <3>2 DEF SaysUpToDate, Versions, Looked, TransferInv, WorkerTyped
        <4>2. find_version(file[want]) # <<>>
          BY <4>1, TransferAssumption DEF find_version
        <4> QED
          BY <1>4, <4>1, <4>2 DEF Versions, InHand, SameVersions
      <3> QED
        BY <3>1, <3>2
    <2>4. CASE SaysSize
      <3>1. ppc' # "compare" \/ ~link'.open
        BY <2>4 DEF SaysSize
      <3>2. link'.toW # Msg("FILE_UP_TO_DATE")
        BY <2>4 DEF SaysSize, Msg
      <3> QED
        BY <3>1, <3>2 DEF Looked
    <2>5. CASE SendsChunk \/ SendsRest
      <3>1. ppc = "send" /\ link.open /\ SizeFirst
        BY <1>4, <2>5 DEF SendsChunk, SendsRest, TransferInv, Control, Replied
      <3>2. Looked'
        BY <2>5 DEF SendsChunk, SendsRest, Looked
      <3>3. \E s \in Seq(Byte) : link'.toW = link.toW \o Bytes(s)
        <4>1. Filled(pbuf, FileBlock(pat)) \in Seq(Byte) /\ Len(Filled(pbuf, FileBlock(pat))) = Chunk
          BY <3>1, PeerReads DEF TransferInv
        <4>2. CASE SendsChunk
          BY <4>1, <4>2 DEF SendsChunk
        <4>3. CASE SendsRest
          <5>1. PICK buf \in Seq(Byte) : buf = Filled(pbuf, FileBlock(pat)) /\ Len(buf) = Chunk
            BY <4>1
          <5>2. pleft \in 0 .. Len(buf) /\ 1 \in Nat \ {0}
            BY <4>3, <5>1, TransferAssumption DEF SendsRest, TransferInv, PeerTyped
          <5>3. SubSeq(buf, 1, pleft) \in Seq(Byte)
            BY <5>2, PartOf
          <5> QED
            BY <4>3, <5>1, <5>3 DEF SendsRest
        <4> QED
          BY <2>5, <4>2, <4>3
      <3>4. link'.toW # Msg("FILE_UP_TO_DATE")
        <4>1. link'.toW[1] = link.toW[1] /\ link.toW[1] \in Size
          BY <2>0, <3>1, <3>3, BytesAfter DEF SizeFirst
        <4>2. link'.toW[1].tag = "FILE_SIZE"
          BY <4>1 DEF Size
        <4> QED
          BY <4>2, MsgTyped
      <3> QED
        BY <3>2, <3>4
    <2>6. CASE HangsUpOn
      BY <1>4, <2>6 DEF HangsUpOn, Looked, Versions, Told
    <2> QED
      BY <1>4, <2>1, <2>2, <2>3, <2>4, <2>5, <2>6, Answers
  <1> QED
    BY <1>3, <1>4

\* An edit that leaves the transfer clean is of another file.
LEMMA EditSpares ==
  ASSUME FilesTyped, EditFile
  PROVE  clean' => clean /\ (want \in Files => file'[want] = file[want])
  <1>1. PICK f \in Files, c \in Contents \cup {Absent} :
           file' = [file EXCEPT ![f] = c] /\ clean' = (clean /\ f # want)
    BY DEF EditFile
  <1>2. clean' => clean /\ f # want
    BY <1>1, Zenon
  <1>3. f # want /\ want \in Files => file'[want] = file[want]
    BY <1>1 DEF FilesTyped
  <1> QED
    BY <1>2, <1>3

\* Versions is inductive, given TransferInv.
LEMMA VersionsStep ==
  ASSUME TransferInv, Versions, [Next]_vars
  PROVE  Versions'
  <1> USE DEF worker, peer, local, hist, env
  <1>0. WorkerTyped /\ Control /\ FilesTyped
    BY DEF TransferInv
  <1>1. CASE \/ AskList \/ GetList \/ NoList \/ ListDone \/ MakeDir \/ WorkerEnds \/ WorkerStuck
             \/ WorkerQuits
    <2>1. /\ want' = want /\ copy' = copy /\ file' = file /\ clean' = clean /\ last' = last
          /\ wpc' \notin {"approve", "reply", "data"}
      BY <1>1 DEF AskList, GetList, NoList, ListDone, MakeDir, WorkerEnds, WorkerStuck, WorkerQuits
    <2> QED
      BY <2>1, VersionsRest
  <1>2. CASE AskFile
    <2>1. PICK f : f = Head(todo).name
      OBVIOUS
    <2>2. /\ want' = f /\ wpc' \in {"approve", "next"} /\ copy' = copy
          /\ \/ last' = <<f, "none">>
             \/ last' = <<f, "failed">> /\ wpc' = "next"
          /\ wver' = get_version(f) \/ wver' = <<>>
      BY <1>2, <2>1 DEF AskFile
    <2>3. wver' = <<>> \/ (copy'[want'] # Absent /\ wver' = find_version(copy[f]))
      BY <2>2 DEF get_version
    <2>4. wver' = <<>> \/ (copy'[want'] # Absent /\ wver' = find_version(copy'[want']))
      BY <2>2, <2>3
    <2>5. InHand'
      <3>1. last'[1] = want' /\ (last'[2] = "none" \/ wpc' = "next")
        BY <2>2
      <3> QED
        BY <2>4, <3>1, Zenon DEF InHand
    <2>6. Looked' /\ Told'
      <3>1. last'[2] = "none" \/ last'[2] = "failed"
        BY <2>2
      <3>2. wpc' # "reply" /\ "none" # "up to date" /\ "failed" # "up to date"
        BY <2>2
      <3> QED
        BY <3>1, <3>2, Zenon DEF Looked, Told
    <2> QED
      BY <2>5, <2>6 DEF Versions
  <1>3. CASE SendTuple
    <2>1. /\ wpc = "approve" /\ wpc' = "reply" /\ want' = want /\ wver' = wver /\ copy' = copy
          /\ file' = file /\ last' = last /\ clean' = clean /\ ppc' = ppc /\ Incoming("OK")
      BY <1>3 DEF SendTuple
    <2>2. link'.toW = <<>> /\ (link'.open => ppc = "tuple")
      <3>1. link.toW = Msg("OK") /\ link \in LinkType /\ link.held /\ Tail(link.toW) = <<>>
        BY <1>0, <2>1, ReadsAnswer, MsgHead DEF Incoming, Readable, Control
      <3>2. link'.toW = Tail(link.toW) /\ link'.open = link.open
        BY <1>3, <3>1 DEF SendTuple, LinkType
      <3>3. link.open => ppc = "tuple"
        BY <1>0, <2>1, <3>1 DEF Control, Asked
      <3> QED
        BY <3>1, <3>2, <3>3
    <2>3. link'.toW # Msg("FILE_UP_TO_DATE")
      BY <2>2, NotUpToDate
    <2>4. last[1] = want /\ last[2] = "none"
          /\ (wver = <<>> \/ (copy[want] # Absent /\ wver = find_version(copy[want])))
      BY <2>1 DEF Versions, InHand
    <2> QED
      BY <2>1, <2>2, <2>3, <2>4 DEF Versions, InHand, Looked, Told, find_version
  <1>4. CASE GetNothing
    <2>1. CASE \E fate \in {"failed", "not found"} : Finish(fate)
      BY <2>1, VersionsEnd DEF Finish, Continue
    <2>2. CASE wpc = "reply" /\ Incoming("FILE_UP_TO_DATE") /\ Finish("up to date")
      <3>1. link.toW = Msg("FILE_UP_TO_DATE")
        <4>1. link.toW # <<>> /\ Head(link.toW).tag = "FILE_UP_TO_DATE" /\ link.held
              /\ link.toW \in Seq(Messages)
          BY <1>0, <2>2 DEF Incoming, Readable, Control, LinkType
        <4>2. ~SizeFirst
          <5>1. Head(link.toW) = link.toW[1]
            BY <4>1
          <5> QED
            BY <4>1, <5>1 DEF SizeFirst, Size
        <4>3. ~link.open
          BY <1>0, <2>2, ReadsAnswer
        <4> QED
          BY <1>0, <2>2, <4>1, <4>2, <4>3, MsgHead DEF Control, Replied
      <3>2. clean => SameVersions
        BY <2>2, <3>1 DEF Versions, Told
      <3>3. /\ want' = want /\ copy' = copy /\ file' = file /\ clean' = clean
            /\ last' = <<want, "up to date">> /\ wpc' = "next"
        BY <1>4, <2>2 DEF GetNothing, Finish, Continue
      <3> QED
        BY <3>2, <3>3 DEF Versions, InHand, Looked, Told, SameVersions, find_version
    <2> QED
      BY <1>4, <2>1, <2>2 DEF GetNothing
  <1>5. CASE OutOfDescriptors \/ NotWritable
    BY <1>5, VersionsEnd DEF OutOfDescriptors, NotWritable, OpenFails, Finish, Continue
  <1>6. CASE OpenCopy
    <2>1. CASE Finish("copied")
      BY <2>1, VersionsEnd DEF Finish, Continue
    <2>2. CASE ~Finish("copied")
      <3>1. wpc = "reply" /\ wpc' = "data" /\ want' = want /\ last' = last
        BY <1>6, <2>2 DEF OpenCopy
      <3> QED
        BY <3>1 DEF Versions, InHand, Looked, Told
    <2> QED
      BY <2>1, <2>2
  <1>7. CASE ReadChunk
    <2>1. wpc = "data" /\ wpc' = "data" /\ want' = want /\ last' = last
      BY <1>7 DEF ReadChunk
    <2> QED
      BY <2>1 DEF Versions, InHand, Looked, Told
  <1>8. CASE ReadRest
    BY <1>8, VersionsEnd DEF ReadRest
  <1>9. CASE PeerNext \/ ListAgain \/ PeerQuits \/ ResetArrives
    BY <1>9, VersionsPeer
  <1>10. CASE EditFile
    <2>1. /\ wpc' = wpc /\ want' = want /\ wver' = wver /\ copy' = copy /\ last' = last
          /\ ppc' = ppc /\ pown' = pown /\ link' = link
      BY <1>10 DEF EditFile
    <2>2. clean' => clean /\ (want \in Files => file'[want] = file[want])
      BY <1>0, <1>10, EditSpares
    <2>a. wpc = "reply" => want \in Files
      BY <1>0 DEF WorkerTyped
    <2>3. InHand'
      BY <2>1 DEF Versions, InHand, find_version
    <2>4. Looked'
      BY <2>1, <2>2, <2>a DEF Versions, Looked, find_version
    <2>5. Told'
      BY <2>1, <2>2 DEF Versions, Told, SameVersions, find_version
    <2> QED
      BY <2>3, <2>4, <2>5 DEF Versions
  <1>11. CASE UNCHANGED vars
    BY <1>11 DEF vars, Versions, InHand, Looked, Told, SameVersions, find_version
  <1> QED
    BY <1>1, <1>2, <1>3, <1>4, <1>5, <1>6, <1>7, <1>8, <1>9, <1>10, <1>11 DEF Next, WorkerNext

\* The bytes of a file and of its copy may differ and have the same version:
\* find_version looks at one byte of the digest only.
Collision == \E f \in Files : /\ copy[f] # Absent /\ file[f] # Absent /\ copy[f] # file[f]
                              /\ find_version(copy[f]) = find_version(file[f])

\* The answer FILE_UP_TO_DATE of send_file is right as long as no copy has the
\* version of a file it differs from.
THEOREM UpToDateIsEqual == Spec => [](UpToDateMeansEqual \/ Collision)
  <1>1. Init => Versions
    BY NotUpToDate DEF Init, Versions, InHand, Looked, Told
  <1>2. TransferInv /\ Versions /\ [Next]_vars => Versions'
    BY VersionsStep
  <1>3. Versions => UpToDateMeansEqual \/ Collision
    <2> SUFFICES ASSUME Versions, last[2] = "up to date", clean, copy[last[1]] # file[last[1]]
                 PROVE  Collision
      BY DEF UpToDateMeansEqual
    <2>1. last[1] = want /\ SameVersions
      BY DEF Versions, InHand, Told
    <2>2. file[want] # Absent
      BY <2>1, ContentsBytes DEF SameVersions
    <2> QED
      BY <2>1, <2>2 DEF Collision, SameVersions
  <1> QED
    BY <1>1, <1>2, <1>3, TransferInvariance, PTL DEF Spec

--------------------------------------------------------------------------------
(* The copy, byte for byte. *)

\* The length of a copy with n bytes written over it.
Grown(n) == /\ copy[want] \in Seq(Byte)
            /\ old = Absent \/ Len(old) < n => Len(copy[want]) = n
            /\ ~ (old = Absent \/ Len(old) < n) => Len(copy[want]) = Len(old)

OldTyped == old = Absent \/ old \in Seq(Byte)

\* After the size come the bytes of the file, from the first on.
Announced ==
    /\ file[want] \in Contents /\ link.toW[1].val = Len(file[want])
    /\ Len(link.toW) - 1 <= Len(file[want])
    /\ \A b \in 1 .. Len(link.toW) - 1 : link.toW[1 + b].val = file[want][b]
    /\ link.open => pat = Len(link.toW) - 1

\* The bytes in the copy, in the socket and still in the file make the file.
Flowing ==
    /\ file[want] \in Contents /\ at + left = Len(file[want])
    /\ at + Len(link.toW) <= Len(file[want])
    /\ link.open => left = Len(link.toW) + pleft /\ pat = at + Len(link.toW)
    /\ \A b \in 1 .. Len(link.toW) : link.toW[b].val = file[want][at + b]
    /\ \A b \in 1 .. at : copy[want][b] = file[want][b]
    /\ Grown(at)

Copied ==
    /\ want \in Files /\ file[want] \in Contents /\ Grown(Len(file[want]))
    /\ \A b \in 1 .. Len(file[want]) : copy[want][b] = file[want][b]

Coming ==
    /\ OldTyped
    /\ clean => /\ wpc = "reply" /\ SizeFirst => Announced
                /\ wpc = "data" => Flowing
                /\ last[2] = "copied" => Copied

\* The size is the first message in the socket.
LEMMA SizeSaid ==
  ASSUME link'.toW = <<[tag |-> "FILE_SIZE", val |-> FileSize(want)]>>,
         file[want] \in Contents, file' = file, want' = want, link'.open => pat' = 0
  PROVE  Announced'
  <1>1. Len(link'.toW) = 1 /\ link'.toW[1].val = FileSize(want)
    OBVIOUS
  <1>2. FileSize(want) = Len(file[want]) /\ Len(file[want]) \in Nat
    BY TransferAssumption, ContentsBytes DEF FileSize
  <1>3. Len(link'.toW) - 1 = 0 /\ 0 <= Len(file[want])
    BY <1>1, <1>2
  <1>4. \A b \in 1 .. 0 : FALSE
    OBVIOUS
  <1> QED
    BY <1>1, <1>2, <1>3, <1>4, Zenon DEF Announced

\* The bytes the peer sends are the next ones of the file.
LEMMA NextBytes ==
  ASSUME TransferInv, SendsChunk \/ SendsRest, pat + pleft = Len(file[want])
  PROVE  \E s \in Seq(Byte) :
            /\ link'.toW = link.toW \o Bytes(s) /\ pat + Len(s) <= Len(file[want])
            /\ \A b \in 1 .. Len(s) : s[b] = file[want][pat + b]
            /\ SendsChunk => Len(s) = Chunk /\ pat' = pat + Chunk
  <1>0. /\ ppc = "send" /\ pname = want /\ pat \in Nat /\ pleft \in Nat /\ Chunk \in Nat
        /\ FilesTyped /\ PeerTyped
    BY TransferAssumption DEF SendsChunk, SendsRest, TransferInv, PeerTyped
  <1>1. PICK buf : buf = Filled(pbuf, FileBlock(pat))
    OBVIOUS
  <1>2. PICK f : f = file[want]
    OBVIOUS
  <1>3. /\ buf \in Seq(Byte) /\ Len(buf) = Chunk /\ Len(f) \in Nat
        /\ pat + Chunk <= Len(f) =>
              Len(FileBlock(pat)) = Chunk /\ \A b \in 1 .. Chunk : buf[b] = f[pat + b]
        /\ pat <= Len(f) /\ Len(f) < pat + Chunk =>
              \A b \in 1 .. Len(f) - pat : buf[b] = f[pat + b]
    BY <1>0, <1>1, <1>2, PeerReads
  <1>4. CASE SendsChunk
    <2>1. /\ pleft >= Chunk /\ pat' = pat + Len(FileBlock(pat))
          /\ link'.toW = link.toW \o Bytes(buf)
      BY <1>1, <1>4 DEF SendsChunk
    <2>2. pat + Chunk <= Len(f)
      BY <1>0, <1>2, <2>1
    <2>3. pat' = pat + Chunk /\ \A b \in 1 .. Len(buf) : buf[b] = f[pat + b]
      BY <1>3, <2>1, <2>2
    <2> QED
      BY <1>2, <1>3, <2>1, <2>2, <2>3
  <1>5. CASE SendsRest
    <2>1. pleft < Chunk /\ link'.toW = link.toW \o Bytes(SubSeq(buf, 1, pleft)) /\ ~SendsChunk
      BY <1>0, <1>1, <1>5 DEF SendsRest, SendsChunk
    <2>2. PICK s : s = SubSeq(buf, 1, pleft)
      OBVIOUS
    <2>3. pleft \in 0 .. Len(buf) /\ 1 \in Nat \ {0}
      BY <1>0, <1>3, <2>1
    <2>4. /\ s \in Seq(Byte) /\ (1 <= pleft => Len(s) = pleft - 1 + 1) /\ (pleft < 1 => Len(s) = 0)
          /\ \A b \in 1 .. Len(s) : s[b] = buf[1 - 1 + b]
      BY <1>3, <2>2, <2>3, PartOf
    <2>5. Len(s) = pleft
      BY <1>0, <2>4
    <2>6. pat <= Len(f) /\ Len(f) < pat + Chunk /\ Len(f) - pat = pleft
      BY <1>0, <1>2, <1>3, <2>1
    <2>7. ASSUME NEW b \in 1 .. Len(s) PROVE s[b] = f[pat + b]
      <3>1. b \in 1 .. Len(f) - pat /\ 1 - 1 + b = b
        BY <2>5, <2>6
      <3> QED
        BY <1>3, <2>4, <2>6, <3>1
    <2>8. pat + Len(s) <= Len(f)
      BY <1>0, <1>2, <1>3, <2>5
    <2> QED
      BY <1>2, <2>1, <2>2, <2>4, <2>7, <2>8
  <1> QED
    BY <1>4, <1>5

\* A step of the peer sends what continues the copy, in order.
LEMMA ComingPeer ==
  ASSUME TransferInv, TransferInv', Versions, Coming,
         PeerNext \/ ListAgain \/ PeerQuits \/ ResetArrives
  PROVE  Coming'
  <1>0. WorkerStill
    BY StaysStill
  <1>1. OldTyped' /\ (clean /\ last[2] = "copied" => Copied)'
    BY <1>0 DEF WorkerStill, Coming, OldTyped, Copied, Grown
  <1>2. SUFFICES ASSUME clean, wpc \in {"reply", "data"}
                 PROVE  /\ wpc = "reply" /\ SizeFirst' => Announced'
                        /\ wpc = "data" => Flowing'
    BY <1>0, <1>1 DEF Coming, WorkerStill
  <1>3. /\ link.toW \in Seq(Messages) /\ Len(link.toW) \in Nat /\ pleft \in Nat /\ pat \in Nat
        /\ Control /\ at \in Nat /\ left \in Nat /\ Chunk \in Nat
        /\ link'.toW \in Seq(Messages)
    BY TransferAssumption DEF TransferInv, Control, LinkType, PeerTyped, WorkerTyped
  <1>4. CASE SaysNotFound \/ SaysUpToDate \/ Looks
    <2>1. wpc = "reply" /\ (link'.toW = <<>> \/ link'.toW[1].tag # "FILE_SIZE")
      BY <1>4, MsgTyped DEF SaysNotFound, SaysUpToDate, Looks
    <2>2. ~SizeFirst'
      BY <2>1 DEF SizeFirst, Size
    <2> QED
      BY <2>1, <2>2
  <1>5. CASE SaysSize
    <2>1. /\ wpc = "reply" /\ ppc = "compare" /\ link.open
          /\ link'.toW = <<[tag |-> "FILE_SIZE", val |-> FileSize(want)]>>
          /\ link'.open => pat' = 0
      BY <1>5 DEF SaysSize
    <2>2. file[want] \in Contents
      BY <1>2, <2>1 DEF Versions, Looked
    <2>3. file' = file /\ want' = want
      BY <1>0 DEF WorkerStill
    <2>4. Announced'
      BY <2>1, <2>2, <2>3, SizeSaid
    <2> QED
      BY <2>1, <2>4
  <1>6. CASE SendsChunk \/ SendsRest
    <2>0. ppc = "send" /\ link.open /\ (link'.open => SendsChunk)
      BY <1>6 DEF SendsChunk, SendsRest
    <2>1. PICK n \in Nat : n = Len(file[want])
      <3>1. file[want] \in Seq(Byte)
        BY <2>0, <1>6, ContentsBytes DEF SendsChunk, SendsRest, TransferInv, PeerTyped
      <3> QED
        BY <3>1
    <2>2. CASE wpc = "reply"
      <3>1. /\ SizeFirst /\ link.toW[1].val = Len(link.toW) - 1 + pleft /\ link.toW # <<>>
        BY <1>3, <2>0, <2>2 DEF Control, Replied, SizeFirst
      <3>2. Announced /\ Len(link.toW) >= 1
        BY <1>2, <1>3, <2>2, <3>1 DEF Coming
      <3>3. pat = Len(link.toW) - 1 /\ pat + pleft = n
        BY <1>3, <2>0, <2>1, <3>1, <3>2 DEF Announced
      <3>4. PICK s \in Seq(Byte) :
              /\ link'.toW = link.toW \o Bytes(s) /\ pat + Len(s) <= n
              /\ \A b \in 1 .. Len(s) : s[b] = file[want][pat + b]
              /\ SendsChunk => Len(s) = Chunk /\ pat' = pat + Chunk
        BY <1>6, <2>1, <3>3, NextBytes
      <3>5. /\ Len(link'.toW) = Len(link.toW) + Len(s)
            /\ \A b \in 1 .. Len(link.toW) : link'.toW[b] = link.toW[b]
            /\ \A b \in 1 .. Len(s) : link'.toW[Len(link.toW) + b].val = s[b]
            /\ link'.toW[1] = link.toW[1]
        BY <1>3, <3>1, <3>4, BytesAfter
      <3>a. PICK m \in Nat, k \in Nat :
              /\ m = Len(link.toW) /\ m >= 1 /\ k = Len(s) /\ Len(link'.toW) = m + k /\ pat = m - 1
              /\ pat + k <= n
        <4>1. Len(s) \in Nat
          OBVIOUS
        <4> QED
          BY <1>3, <3>2, <3>3, <3>4, <3>5, <4>1, Zenon
      <3>6. ASSUME NEW b \in 1 .. Len(link'.toW) - 1 PROVE link'.toW[1 + b].val = file[want][b]
        <4>1. CASE b \in 1 .. Len(link.toW) - 1
          <5>1. 1 + b \in 1 .. Len(link.toW)
            BY <1>3, <4>1
          <5> QED
            BY <3>2, <3>5, <4>1, <5>1 DEF Announced
        <4>2. CASE b \notin 1 .. Len(link.toW) - 1
          <5>1. PICK c \in 1 .. Len(s) : b = pat + c
            <6>1. b \in 1 .. (m + k) - 1 /\ b \notin 1 .. m - 1
              BY <3>a, <4>2, Zenon
            <6>2. b - (m - 1) \in 1 .. k /\ b = (m - 1) + (b - (m - 1))
              BY <6>1
            <6> QED
              BY <3>a, <6>2, Zenon
          <5>2. 1 + b = Len(link.toW) + c
            BY <1>3, <3>3, <5>1
          <5> QED
            BY <3>4, <3>5, <5>1, <5>2
        <4> QED
          BY <4>1, <4>2
      <3>7. /\ Len(link'.toW) - 1 <= n /\ (link'.open => pat' = Len(link'.toW) - 1)
        <4>1. Len(link'.toW) - 1 <= n
          BY <3>a
        <4>2. link'.open => pat' = pat + Chunk /\ k = Chunk
          BY <2>0, <3>4, <3>a, Zenon
        <4>3. link'.open => pat' = Len(link'.toW) - 1
          BY <3>a, <4>2
        <4> QED
          BY <4>1, <4>3
      <3>8. Announced'
        <4>1. file' = file /\ want' = want
          BY <1>0 DEF WorkerStill
        <4>2. file[want] \in Contents /\ link.toW[1].val = n
          BY <2>1, <3>2 DEF Announced
        <4> QED
          BY <2>1, <3>5, <3>6, <3>7, <4>1, <4>2 DEF Announced
      <3> QED
        BY <2>2, <3>8
    <2>3. CASE wpc = "data"
      <3>1. /\ Flowing /\ left = Len(link.toW) + pleft /\ pat = at + Len(link.toW) /\ at + left = n
        BY <1>2, <2>0, <2>1, <2>3 DEF Coming, Flowing
      <3>2. pat + pleft = n
        BY <1>3, <3>1
      <3>3. PICK s \in Seq(Byte) :
              /\ link'.toW = link.toW \o Bytes(s) /\ pat + Len(s) <= n
              /\ \A b \in 1 .. Len(s) : s[b] = file[want][pat + b]
              /\ SendsChunk => Len(s) = Chunk /\ pat' = pat + Chunk
        BY <1>6, <2>1, <3>2, NextBytes
      <3>4. /\ Len(link'.toW) = Len(link.toW) + Len(s) /\ Len(s) \in Nat
            /\ \A b \in 1 .. Len(link.toW) : link'.toW[b] = link.toW[b]
            /\ \A b \in 1 .. Len(s) : link'.toW[Len(link.toW) + b].val = s[b]
        <4>1. Len(s) \in Nat
          OBVIOUS
        <4> QED
          BY <1>3, <3>3, <4>1, BytesAfter
      <3>a. PICK m \in Nat, k \in Nat :
              /\ m = Len(link.toW) /\ k = Len(s) /\ Len(link'.toW) = m + k /\ pat = at + m
              /\ left = m + pleft
        BY <1>3, <3>1, <3>4, Zenon
      <3>5. ASSUME NEW b \in 1 .. Len(link'.toW) PROVE link'.toW[b].val = file[want][at + b]
        <4>1. CASE b \in 1 .. Len(link.toW)
          BY <3>1, <3>4, <4>1 DEF Flowing
        <4>2. CASE b \notin 1 .. Len(link.toW)
          <5>1. PICK c \in 1 .. Len(s) : b = Len(link.toW) + c
            <6>1. b - Len(link.toW) \in 1 .. Len(s) /\ b = Len(link.toW) + (b - Len(link.toW))
              BY <1>3, <3>4, <4>2
            <6> QED
              BY <6>1
          <5>2. at + b = pat + c
            BY <1>3, <3>1, <5>1
          <5> QED
            BY <3>3, <3>4, <5>1, <5>2
        <4> QED
          BY <4>1, <4>2
      <3>6. at + Len(link'.toW) <= n
        BY <1>3, <3>1, <3>3, <3>4
      <3>7. link'.open => left = Len(link'.toW) + pleft' /\ pat' = at + Len(link'.toW)
        <4>1. link'.open => pleft' = pleft - Chunk /\ pat' = pat + Chunk /\ k = Chunk
          BY <2>0, <3>3, <3>a, Zenon DEF SendsChunk
        <4>2. /\ m + pleft = (m + Chunk) + (pleft - Chunk)
              /\ (at + m) + Chunk = at + (m + Chunk)
          BY <1>3
        <4> QED
          BY <3>a, <4>1, <4>2, Zenon
      <3>8. Flowing'
        <4>1. /\ file' = file /\ want' = want /\ at' = at /\ left' = left /\ copy' = copy /\ old' = old
          BY <1>0 DEF WorkerStill
        <4>2. /\ file[want] \in Contents /\ Grown(at)
              /\ \A b \in 1 .. at : copy[want][b] = file[want][b]
          BY <3>1 DEF Flowing
        <4>3. Grown(at)'
          BY <4>1, <4>2 DEF Grown
        <4> QED
          BY <2>1, <3>1, <3>5, <3>6, <3>7, <4>1, <4>2, <4>3 DEF Flowing
      <3> QED
        BY <2>3, <3>8
    <2> QED
      BY <1>2, <2>2, <2>3
  <1>7. CASE HangsUpOn
    <2>1. /\ ~link'.open /\ link'.toW = link.toW /\ file' = file /\ want' = want /\ at' = at
          /\ left' = left /\ copy' = copy /\ old' = old
      BY <1>0, <1>7 DEF HangsUpOn, WorkerStill
    <2>2. wpc = "reply" /\ SizeFirst' => Announced'
      BY <1>2, <2>1 DEF Coming, SizeFirst, BytesFrom, Announced
    <2>3. wpc = "data" => Flowing'
      BY <1>2, <2>1 DEF Coming, Flowing, Grown
    <2> QED
      BY <2>2, <2>3
  <1> QED
    BY <1>2, <1>4, <1>5, <1>6, <1>7, Answers

\* A worker with no answer to wait for, and a request that ends without a copy.
LEMMA ComingRest ==
  ASSUME Coming, want' = want, copy' = copy, file' = file, clean' = clean, last' = last,
         old' = old, wpc' \notin {"reply", "data"}
  PROVE  Coming'
  BY DEF Coming, OldTyped, Copied, Grown

\* A request that ends otherwise than with a copy asks for nothing.
LEMMA ComingEnd ==
  ASSUME Coming, old' = old, last'[2] # "copied", wpc' \notin {"reply", "data"}
  PROVE  Coming'
  BY DEF Coming, OldTyped

\* The size is read.
LEMMA ComingOpen ==
  ASSUME TransferInv, Versions, Coming, OpenCopy
  PROVE  Coming'
  <1>0. /\ wpc = "reply" /\ Incoming("FILE_SIZE") /\ old' = copy[want] /\ clean' = clean
        /\ file' = file /\ pat' = pat /\ pleft' = pleft /\ want' = want
        /\ copy' = [copy EXCEPT ![want] = IF @ = Absent THEN <<>> ELSE @]
    BY DEF OpenCopy, peer, Finish
  <1>1. /\ want \in Files /\ copy \in [Files -> Seq(Byte) \cup {Absent}] /\ Control
        /\ link \in LinkType /\ link.toW \in Seq(Messages) /\ Len(link.toW) \in Nat /\ PeerTyped
        /\ <<>> \in Seq(Byte) /\ Len(<<>>) = 0 /\ pleft \in Nat
    BY <1>0 DEF TransferInv, FilesTyped, WorkerTyped, Control, LinkType, PeerTyped
  <1>2. SizeFirst /\ link.toW # <<>> /\ Head(link.toW) = link.toW[1]
    BY <1>0, <1>1, ReadsAnswer DEF SizeFirst
  <1>3. OldTyped'
    BY <1>0, <1>1 DEF OldTyped
  <1>4. Grown(0)'
    <2>1. copy'[want] = IF copy[want] = Absent THEN <<>> ELSE copy[want]
      BY <1>0, <1>1
    <2>2. CASE copy[want] = Absent
      <3>1. copy'[want'] = <<>> /\ old' = Absent
        BY <1>0, <2>1, <2>2
      <3> QED
        BY <1>1, <3>1, Zenon DEF Grown
    <2>3. CASE copy[want] # Absent
      <3>1. copy'[want'] = old' /\ old' \in Seq(Byte) /\ old' # Absent
        BY <1>0, <1>1, <2>1, <2>3
      <3>2. ~(Len(old') < 0)
        BY <3>1
      <3> QED
        BY <3>1, <3>2, Zenon DEF Grown
    <2> QED
      BY <2>2, <2>3
  <1>5. ASSUME clean PROVE Announced /\ file[want] \in Contents /\ Len(file[want]) \in Nat
    <2>1. Announced
      BY <1>0, <1>2, <1>5 DEF Coming
    <2> QED
      BY <2>1, ContentsBytes DEF Announced
  <1>6. CASE file_size(Head(link.toW)) = 0
    <2>1. wpc' = "next" /\ want' = want
      BY <1>6 DEF OpenCopy, Finish, Continue
    <2>2. ASSUME clean PROVE Copied'
      <3>1. Len(file[want]) = 0
        BY <1>2, <1>5, <1>6, <2>2 DEF Announced, file_size
      <3>2. \A b \in 1 .. 0 : FALSE
        OBVIOUS
      <3> QED
        BY <1>0, <1>1, <1>4, <1>5, <2>2, <3>1, <3>2, Zenon DEF Copied
    <2> QED
      BY <1>0, <1>3, <2>1, <2>2 DEF Coming
  <1>7. CASE file_size(Head(link.toW)) # 0
    <2>1. /\ wpc' = "data" /\ left' = link.toW[1].val /\ at' = 0 /\ last' = last
          /\ link' = [link EXCEPT !.toW = Tail(@)]
      BY <1>2, <1>7 DEF OpenCopy, file_size
    <2>2. link'.toW = Tail(link.toW) /\ link'.open = link.open
      BY <1>1, <2>1 DEF LinkType
    <2>3. PICK m \in Nat : m = Len(link.toW) - 1 /\ Len(link'.toW) = m
      <3>1. Len(Tail(link.toW)) = Len(link.toW) - 1 /\ Tail(link.toW) \in Seq(Messages)
        BY <1>1, <1>2, HeadTailProperties
      <3>2. Len(Tail(link.toW)) \in Nat
        BY <3>1
      <3> QED
        BY <2>2, <3>1, <3>2, Zenon
    <2>4. \A b \in 1 .. m : link'.toW[b] = link.toW[1 + b]
      <3>1. /\ Len(Tail(link.toW)) = Len(link.toW) - 1
            /\ \A b \in 1 .. Len(Tail(link.toW)) : Tail(link.toW)[b] = link.toW[b + 1]
        BY <1>1, <1>2, HeadTailProperties
      <3>2. ASSUME NEW b \in 1 .. m PROVE link'.toW[b] = link.toW[1 + b]
        <4>1. b \in 1 .. Len(Tail(link.toW)) /\ b + 1 = 1 + b
          BY <2>3, <3>1
        <4> QED
          BY <2>2, <3>1, <4>1
      <3> QED
        BY <3>2
    <2>5. ASSUME clean PROVE Flowing'
      <3>0. PICK n \in Nat : n = Len(file[want])
        BY <1>5, <2>5
      <3>1. left' = n /\ m <= n /\ (link.open => pat = m)
            /\ \A b \in 1 .. m : link.toW[1 + b].val = file[want][b]
        BY <1>5, <2>1, <2>3, <2>5, <3>0, Zenon DEF Announced
      <3>2. link.open => left' = m + pleft
        <4> SUFFICES ASSUME link.open PROVE left' = m + pleft
          OBVIOUS
        <4>1. ppc = "send"
          BY <1>0, <1>1, ReadsAnswer
        <4>2. link.toW[1].val = Len(link.toW) - 1 + pleft
          BY <1>0, <1>1, <4>1 DEF Control, Replied
        <4> QED
          BY <2>1, <2>3, <4>2, Zenon
      <3>3. 0 + n = n /\ 0 + m = m /\ \A b \in 1 .. m : 0 + b = b
        OBVIOUS
      <3>4. \A b \in 1 .. m : link'.toW[b].val = file[want][0 + b]
        BY <2>4, <3>1, <3>3, Zenon
      <3>5. \A b \in 1 .. 0 : FALSE
        OBVIOUS
      <3>6. /\ file'[want'] \in Contents /\ at' + left' = Len(file'[want'])
            /\ at' + Len(link'.toW) <= Len(file'[want'])
        BY <1>0, <1>5, <2>1, <2>3, <2>5, <3>0, <3>1, <3>3, Zenon
      <3>7. link'.open => left' = Len(link'.toW) + pleft' /\ pat' = at' + Len(link'.toW)
        BY <1>0, <2>1, <2>2, <2>3, <3>1, <3>2, <3>3, Zenon
      <3>8. \A b \in 1 .. Len(link'.toW) : link'.toW[b].val = file'[want'][at' + b]
        BY <1>0, <2>1, <2>3, <3>4, Zenon
      <3>9. \A b \in 1 .. at' : copy'[want'][b] = file'[want'][b]
        BY <2>1, <3>5, Zenon
      <3>10. Grown(at)'
        BY <1>4, <2>1, Zenon DEF Grown
      <3> QED
        BY <3>6, <3>7, <3>8, <3>9, <3>10, Zenon DEF Flowing
    <2>6. last'[2] # "copied"
      BY <1>0, <2>1 DEF Versions, InHand
    <2> QED
      BY <1>0, <1>3, <2>1, <2>5, <2>6 DEF Coming
  <1> QED
    BY <1>6, <1>7

\* A copy that has grown to an offset, after a write there.
LEMMA GrowsOn ==
  ASSUME OldTyped, want \in Files, copy \in [Files -> Seq(Byte) \cup {Absent}],
         at \in Nat, Grown(at), at <= Len(copy[want]), NEW s \in Seq(Byte),
         copy' = [copy EXCEPT ![want] = Written(copy[want], at, s)], want' = want, old' = old,
         NEW n \in Nat, n = at + Len(s)
  PROVE  /\ copy'[want] \in Seq(Byte)
         /\ old = Absent \/ Len(old) < n => Len(copy'[want]) = n
         /\ ~ (old = Absent \/ Len(old) < n) => Len(copy'[want]) = Len(old)
         /\ \A b \in 1 .. at : copy'[want][b] = copy[want][b]
         /\ \A b \in 1 .. Len(s) : copy'[want][at + b] = s[b]
  <1>0. PICK c \in Seq(Byte) : c = copy[want]
    BY DEF Grown
  <1>1. PICK w : w = Written(c, at, s)
    OBVIOUS
  <1>2. copy'[want] = w
    BY <1>0, <1>1
  <1>3. at \in 0 .. Len(c)
    BY <1>0
  <1>4. /\ w \in Seq(Byte)
        /\ at + Len(s) > Len(c) => Len(w) = at + Len(s)
        /\ at + Len(s) <= Len(c) => Len(w) = Len(c)
        /\ \A b \in 1 .. at : w[b] = c[b]
        /\ \A b \in 1 .. Len(s) : w[at + b] = s[b]
    BY <1>1, <1>3, WrittenTyped
  <1>5. PICK k \in Nat, m \in Nat : k = Len(c) /\ m = Len(w)
    BY <1>4
  <1>6. /\ n > k => m = n
        /\ n <= k => m = k
    BY <1>4, <1>5, Zenon
  <1>7. n >= at
    <2>1. Len(s) \in Nat
      OBVIOUS
    <2> QED
      BY <2>1
  <1>8. CASE old = Absent
    <2>1. k = at
      BY <1>0, <1>5, <1>8, Zenon DEF Grown
    <2>2. m = n
      BY <1>6, <1>7, <2>1
    <2> QED
      BY <1>0, <1>2, <1>4, <1>5, <1>8, <2>2, Zenon
  <1>9. CASE old # Absent
    <2>1. PICK o \in Nat : o = Len(old)
      BY <1>9 DEF OldTyped
    <2>2. (o < at => k = at) /\ (~(o < at) => k = o)
      BY <1>0, <1>5, <1>9, <2>1, Zenon DEF Grown
    <2>3. (o < n => m = n) /\ (~(o < n) => m = o)
      BY <1>6, <1>7, <2>2
    <2> QED
      BY <1>0, <1>2, <1>4, <1>5, <1>9, <2>1, <2>3, Zenon
  <1> QED
    BY <1>8, <1>9

\* A chunk is written.
LEMMA ComingChunk ==
  ASSUME TransferInv, Versions, Coming, ReadChunk
  PROVE  Coming'
  <1>0. /\ wpc = "data" /\ wpc' = "data" /\ file' = file /\ want' = want /\ old' = old
        /\ last' = last /\ pat' = pat /\ pleft' = pleft /\ left' = left - Chunk
        /\ at' = at + Chunk /\ left >= Chunk
    BY DEF ReadChunk, peer
  <1>1. /\ want \in Files /\ copy \in [Files -> Seq(Byte) \cup {Absent}] /\ Control
        /\ link \in LinkType /\ link.toW \in Seq(Messages) /\ Len(link.toW) \in Nat
        /\ pleft \in Nat /\ at \in Nat /\ left \in Nat /\ Chunk \in Nat
        /\ WorkerTyped /\ FilesTyped /\ BytesFrom(1) /\ wbuf \in Seq(Byte) /\ Len(wbuf) = Chunk
        /\ at <= Len(copy[want])
    BY <1>0, TransferAssumption
       DEF TransferInv, FilesTyped, WorkerTyped, Control, LinkType, PeerTyped, Arriving
  <1>2. last'[2] # "copied" /\ OldTyped /\ OldTyped'
    BY <1>0 DEF Versions, InHand, Coming, OldTyped
  <1>3. SUFFICES ASSUME clean' PROVE Flowing'
    BY <1>0, <1>2 DEF Coming
  <1>4. PICK k \in 1 .. Chunk :
          /\ Short(Chunk, k) /\ wbuf' = Filled(wbuf, Read(k)) /\ clean' = (clean /\ k = Chunk)
          /\ link' = [link EXCEPT !.toW = SubSeq(@, k + 1, Len(@))]
    BY DEF ReadChunk
  <1>5. clean /\ k = Chunk
    BY <1>3, <1>4, Zenon
  <1>6. Flowing
    BY <1>0, <1>5 DEF Coming
  <1>7. Chunk \in 0 .. Chunk /\ Chunk <= Len(link.toW)
    <2>1. Chunk \in 0 .. Chunk
      BY <1>1
    <2> QED
      BY <1>1, <1>4, <1>5, <2>1, ShortRead
  <1>8. wbuf' \in Seq(Byte) /\ Len(wbuf') = Chunk /\ \A b \in 1 .. Chunk : wbuf'[b] = link.toW[b].val
    <2>1. Chunk \in 0 .. Len(link.toW)
      BY <1>1, <1>7
    <2>2. /\ Read(Chunk) \in Seq(Byte) /\ Len(Read(Chunk)) = Chunk
          /\ \A b \in 1 .. Chunk : Read(Chunk)[b] = link.toW[b].val
      BY <1>1, <2>1, ReadTyped
    <2>3. Len(Read(Chunk)) <= Len(wbuf)
      BY <1>1, <2>2
    <2>4. Filled(wbuf, Read(Chunk)) = Read(Chunk)
      BY <1>1, <2>2, <2>3, FilledTyped
    <2> QED
      BY <1>4, <1>5, <2>2, <2>4, Zenon
  <1>9. copy' = [copy EXCEPT ![want] = Written(copy[want], at, wbuf')]
    BY <1>1, ReadChunkCopy
  <1>10. PICK n \in Nat : n = at + Chunk
    BY <1>1
  <1>11. /\ copy'[want] \in Seq(Byte)
         /\ old = Absent \/ Len(old) < n => Len(copy'[want]) = n
         /\ ~ (old = Absent \/ Len(old) < n) => Len(copy'[want]) = Len(old)
         /\ \A b \in 1 .. at : copy'[want][b] = copy[want][b]
         /\ \A b \in 1 .. Chunk : copy'[want][at + b] = wbuf'[b]
    <2>1. PICK s \in Seq(Byte) : s = wbuf' /\ Len(s) = Chunk
      BY <1>8
    <2>2. copy' = [copy EXCEPT ![want] = Written(copy[want], at, s)] /\ n = at + Len(s)
      BY <1>9, <1>10, <2>1, Zenon
    <2>3. Grown(at)
      BY <1>6 DEF Flowing
    <2>4. /\ copy'[want] \in Seq(Byte)
          /\ old = Absent \/ Len(old) < n => Len(copy'[want]) = n
          /\ ~ (old = Absent \/ Len(old) < n) => Len(copy'[want]) = Len(old)
          /\ \A b \in 1 .. at : copy'[want][b] = copy[want][b]
          /\ \A b \in 1 .. Len(s) : copy'[want][at + b] = s[b]
      BY <1>0, <1>1, <1>2, <2>2, <2>3, GrowsOn
    <2> QED
      BY <2>1, <2>4, Zenon
  <1>a. PICK m \in Nat : m = Len(link.toW) /\ Chunk <= m
    BY <1>1, <1>7
  <1>b. PICK r \in Nat : r = m - Chunk
    <2>1. m - Chunk \in Nat
      BY <1>1, <1>a
    <2> QED
      BY <2>1, Zenon
  <1>12. /\ m = Len(link.toW) /\ r = m - Chunk /\ Len(link'.toW) = r /\ Chunk <= m
         /\ \A b \in 1 .. r : link'.toW[b] = link.toW[Chunk + b]
    <2>1. link'.toW = SubSeq(link.toW, Chunk + 1, Len(link.toW))
      BY <1>1, <1>4, <1>5 DEF LinkType
    <2>2. Chunk + 1 \in Nat \ {0} /\ Len(link.toW) \in 0 .. Len(link.toW) /\ Chunk + 1 - 1 = Chunk
      BY <1>1
    <2>3. PICK t : t = SubSeq(link.toW, Chunk + 1, Len(link.toW))
      OBVIOUS
    <2>4. /\ Chunk + 1 <= Len(link.toW) => Len(t) = Len(link.toW) - (Chunk + 1) + 1
          /\ Len(link.toW) < Chunk + 1 => Len(t) = 0
          /\ \A b \in 1 .. Len(t) : t[b] = link.toW[Chunk + 1 - 1 + b]
      BY <1>1, <2>2, <2>3, PartOf
    <2>5. Len(t) = r
      BY <1>1, <1>a, <1>b, <2>4
    <2> QED
      BY <1>a, <1>b, <2>1, <2>2, <2>3, <2>4, <2>5, Zenon
  <1>13. /\ file[want] \in Contents /\ at + left = Len(file[want]) /\ at + m <= Len(file[want])
         /\ link.open => left = m + pleft /\ pat = at + m
         /\ \A b \in 1 .. m : link.toW[b].val = file[want][at + b]
         /\ \A b \in 1 .. at : copy[want][b] = file[want][b]
    BY <1>6, <1>12, Zenon DEF Flowing
  <1>14. /\ at' + left' = at + left /\ at' + r = at + m
         /\ left - Chunk = r + pleft <=> left = m + pleft
    <2>1. (at + Chunk) + (left - Chunk) = at + left /\ (at + Chunk) + r = at + m
      BY <1>1, <1>b
    <2>2. left - Chunk = r + pleft <=> left = m + pleft
      BY <1>1, <1>b
    <2> QED
      BY <1>0, <2>1, <2>2, Zenon
  <1>15. ASSUME NEW b \in 1 .. r PROVE link'.toW[b].val = file[want][at' + b]
    <2>1. Chunk + b \in 1 .. m /\ at' + b = at + (Chunk + b)
      BY <1>0, <1>1, <1>12
    <2> QED
      BY <1>12, <1>13, <2>1, Zenon
  <1>16. ASSUME NEW b \in 1 .. at' PROVE copy'[want][b] = file[want][b]
    <2>1. CASE b \in 1 .. at
      BY <1>11, <1>13, <2>1, Zenon
    <2>2. CASE b \notin 1 .. at
      <3>1. PICK c \in 1 .. Chunk : b = at + c
        <4>1. b - at \in 1 .. Chunk /\ b = at + (b - at)
          BY <1>0, <1>1, <2>2
        <4> QED
          BY <4>1, Zenon
      <3>2. c \in 1 .. m
        BY <1>1, <1>12
      <3> QED
        BY <1>8, <1>11, <1>13, <3>1, <3>2, Zenon
    <2> QED
      BY <2>1, <2>2
  <1>17. link'.open <=> link.open
    BY <1>1, <1>4 DEF LinkType
  <1>18. Grown(at)'
    BY <1>0, <1>10, <1>11, Zenon DEF Grown
  <1>19. /\ at' + left' = Len(file'[want']) /\ at' + Len(link'.toW) <= Len(file'[want'])
         /\ file'[want'] \in Contents
    BY <1>0, <1>12, <1>13, <1>14, Zenon
  <1>20. link'.open => left' = Len(link'.toW) + pleft' /\ pat' = at' + Len(link'.toW)
    BY <1>0, <1>12, <1>13, <1>14, <1>17, Zenon
  <1>21. /\ \A b \in 1 .. Len(link'.toW) : link'.toW[b].val = file'[want'][at' + b]
         /\ \A b \in 1 .. at' : copy'[want'][b] = file'[want'][b]
    BY <1>0, <1>12, <1>15, <1>16, Zenon
  <1> QED
    BY <1>18, <1>19, <1>20, <1>21, Zenon DEF Flowing

\* The last bytes are written.
LEMMA ComingRestOf ==
  ASSUME TransferInv, Versions, Coming, ReadRest
  PROVE  Coming'
  <1>0. /\ wpc = "data" /\ wpc' = "next" /\ file' = file /\ want' = want /\ old' = old
    BY DEF ReadRest
  <1>1. /\ want \in Files /\ copy \in [Files -> Seq(Byte) \cup {Absent}] /\ Control
        /\ at \in Nat /\ left \in Nat /\ WorkerTyped /\ FilesTyped /\ at <= Len(copy[want])
    BY <1>0 DEF TransferInv, FilesTyped, WorkerTyped
  <1>2. OldTyped /\ OldTyped'
    BY <1>0 DEF Coming, OldTyped
  <1>3. SUFFICES ASSUME clean' PROVE Copied'
    BY <1>0, <1>2 DEF Coming
  <1>4. PICK k \in 0 .. left, s \in Seq(Byte) :
          /\ k <= Len(link.toW) /\ clean' = (clean /\ k = left)
          /\ Len(s) = left /\ \A b \in 1 .. k : s[b] = link.toW[b].val
          /\ copy' = [copy EXCEPT ![want] = Written(copy[want], at, s)]
    BY <1>1, ReadRestCopy
  <1>5. clean /\ k = left
    BY <1>3, <1>4, Zenon
  <1>6. Flowing
    BY <1>0, <1>5 DEF Coming
  <1>7. PICK n \in Nat : n = at + left
    BY <1>1
  <1>8. /\ copy'[want] \in Seq(Byte)
        /\ old = Absent \/ Len(old) < n => Len(copy'[want]) = n
        /\ ~ (old = Absent \/ Len(old) < n) => Len(copy'[want]) = Len(old)
        /\ \A b \in 1 .. at : copy'[want][b] = copy[want][b]
        /\ \A b \in 1 .. Len(s) : copy'[want][at + b] = s[b]
    <2>1. Grown(at) /\ n = at + Len(s)
      BY <1>4, <1>6, <1>7 DEF Flowing
    <2> QED
      BY <1>0, <1>1, <1>2, <1>4, <2>1, GrowsOn
  <1>9. /\ file[want] \in Contents /\ n = Len(file[want])
        /\ \A b \in 1 .. Len(link.toW) : link.toW[b].val = file[want][at + b]
        /\ \A b \in 1 .. at : copy[want][b] = file[want][b]
    BY <1>6, <1>7, Zenon DEF Flowing
  <1>10. Len(link.toW) \in Nat
    BY <1>1 DEF Control, LinkType
  <1>11. ASSUME NEW b \in 1 .. n PROVE copy'[want][b] = file[want][b]
    <2>1. CASE b \in 1 .. at
      BY <1>8, <1>9, <2>1, Zenon
    <2>2. CASE b \notin 1 .. at
      <3>1. PICK c \in 1 .. left : b = at + c
        <4>1. b - at \in 1 .. left /\ b = at + (b - at)
          BY <1>1, <1>7, <2>2
        <4> QED
          BY <4>1, Zenon
      <3>2. c \in 1 .. Len(link.toW)
        BY <1>1, <1>4, <1>5, <1>10
      <3> QED
        BY <1>4, <1>5, <1>8, <1>9, <3>1, <3>2, Zenon
    <2> QED
      BY <2>1, <2>2
  <1>12. Grown(n)'
    BY <1>0, <1>8, Zenon DEF Grown
  <1> QED
    BY <1>0, <1>1, <1>9, <1>11, <1>12, Zenon DEF Copied, Grown

\* Coming is inductive, given TransferInv and Versions.
LEMMA ComingStep ==
  ASSUME TransferInv, TransferInv', Versions, Coming, [Next]_vars
  PROVE  Coming'
  <1> USE DEF worker, peer, local, hist, env
  <1>0. WorkerTyped /\ Control /\ FilesTyped
    BY DEF TransferInv
  <1>1. CASE \/ AskList \/ GetList \/ NoList \/ ListDone \/ MakeDir \/ WorkerEnds \/ WorkerStuck
             \/ WorkerQuits
    <2>1. /\ want' = want /\ copy' = copy /\ file' = file /\ clean' = clean /\ last' = last
          /\ old' = old /\ wpc' \notin {"reply", "data"}
      BY <1>1 DEF AskList, GetList, NoList, ListDone, MakeDir, WorkerEnds, WorkerStuck, WorkerQuits
    <2> QED
      BY <2>1, ComingRest
  <1>2. CASE AskFile
    <2>1. /\ old' = old /\ wpc' \in {"approve", "next"}
          /\ \E f : last' = <<f, "none">> \/ last' = <<f, "failed">>
      BY <1>2 DEF AskFile
    <2>2. last'[2] = "none" \/ last'[2] = "failed"
      BY <2>1
    <2>3. last'[2] # "copied"
      BY <2>2
    <2> QED
      BY <2>1, <2>3, ComingEnd
  <1>3. CASE SendTuple
    <2>1. /\ wpc = "approve" /\ wpc' = "reply" /\ last' = last /\ old' = old /\ Incoming("OK")
      BY <1>3 DEF SendTuple
    <2>2. link'.toW = <<>>
      <3>1. link.toW = Msg("OK") /\ link \in LinkType /\ Tail(link.toW) = <<>>
        BY <1>0, <2>1, ReadsAnswer, MsgHead DEF Control
      <3> QED
        BY <1>3, <3>1 DEF SendTuple, LinkType
    <2>3. ~SizeFirst' /\ last'[2] # "copied"
      BY <2>1, <2>2 DEF SizeFirst, Versions, InHand
    <2> QED
      BY <2>1, <2>3 DEF Coming, OldTyped
  <1>4. CASE GetNothing \/ OutOfDescriptors \/ NotWritable
    <2>1. PICK fate \in {"failed", "not found", "up to date"} : Finish(fate)
      BY <1>4 DEF GetNothing, OutOfDescriptors, NotWritable, OpenFails
    <2>2. old' = old /\ wpc' = "next" /\ last' = <<want, fate>>
      BY <1>4, <2>1 DEF GetNothing, OutOfDescriptors, NotWritable, OpenFails, Finish, Continue
    <2>3. last'[2] = fate
      BY <2>2
    <2>4. last'[2] # "copied"
      BY <2>1, <2>3
    <2> QED
      BY <2>2, <2>4, ComingEnd
  <1>5. CASE OpenCopy
    BY <1>5, ComingOpen
  <1>6. CASE ReadChunk
    BY <1>6, ComingChunk
  <1>7. CASE ReadRest
    BY <1>7, ComingRestOf
  <1>8. CASE PeerNext \/ ListAgain \/ PeerQuits \/ ResetArrives
    BY <1>8, ComingPeer
  <1>9. CASE EditFile
    <2>1. /\ wpc' = wpc /\ want' = want /\ copy' = copy /\ last' = last /\ old' = old
          /\ link' = link /\ at' = at /\ left' = left /\ pleft' = pleft /\ pat' = pat
      BY <1>9 DEF EditFile
    <2>2. clean' => clean /\ (want \in Files => file'[want] = file[want])
      BY <1>0, <1>9, EditSpares
    <2>a. wpc \in {"reply", "data"} => want \in Files
      BY <1>0 DEF WorkerTyped
    <2>3. clean' /\ wpc = "reply" /\ SizeFirst' => Announced'
      BY <2>1, <2>2, <2>a DEF Coming, SizeFirst, BytesFrom, Announced
    <2>4. clean' /\ wpc = "data" => Flowing'
      BY <2>1, <2>2, <2>a DEF Coming, Flowing, Grown
    <2>5. clean' /\ last[2] = "copied" => Copied'
      BY <2>1, <2>2 DEF Coming, Copied, Grown
    <2> QED
      BY <2>1, <2>3, <2>4, <2>5 DEF Coming, OldTyped
  <1>10. CASE UNCHANGED vars
    BY <1>10 DEF vars, Coming, OldTyped, SizeFirst, BytesFrom, Announced, Flowing, Copied, Grown
  <1> QED
    BY <1>1, <1>2, <1>3, <1>4, <1>5, <1>6, <1>7, <1>8, <1>9, <1>10 DEF Next, WorkerNext

\* A copy of the whole file, with whatever follows it.
LEMMA BeginsWith ==
  ASSUME Copied, OldTyped
  PROVE  /\ file[want] \in Seq(Byte) /\ copy[want] \in Seq(Byte)
         /\ Len(copy[want]) = IF old = Absent \/ Len(old) < Len(file[want])
                              THEN Len(file[want]) ELSE Len(old)
         /\ IsPrefix(file[want], copy[want])
  <1>1. PICK f \in Seq(Byte), c \in Seq(Byte) : f = file[want] /\ c = copy[want]
    BY ContentsBytes DEF Copied, Grown
  <1>2. PICK n \in Nat, m \in Nat : n = Len(f) /\ m = Len(c)
    OBVIOUS
  <1>3. /\ old = Absent \/ Len(old) < n => m = n
        /\ ~ (old = Absent \/ Len(old) < n) => m = Len(old)
        /\ \A b \in 1 .. n : c[b] = f[b]
    BY <1>1, <1>2, Zenon DEF Copied, Grown
  <1>4. n <= m
    <2>1. CASE old = Absent
      BY <1>3, <2>1
    <2>2. CASE old # Absent
      <3>1. PICK o \in Nat : o = Len(old)
        BY <2>2 DEF OldTyped
      <3> QED
        BY <1>3, <2>2, <3>1
    <2> QED
      BY <2>1, <2>2
  <1>5. IsPrefix(f, c)
    <2>1. n \in 0 .. Len(f) /\ n \in 0 .. Len(c) /\ 1 \in Nat \ {0}
      BY <1>2, <1>4
    <2>2. PICK s, t : s = SubSeq(f, 1, n) /\ t = SubSeq(c, 1, n)
      OBVIOUS
    <2>3. /\ s \in Seq(Byte) /\ (1 <= n => Len(s) = n - 1 + 1) /\ (n < 1 => Len(s) = 0)
          /\ \A b \in 1 .. Len(s) : s[b] = f[1 - 1 + b]
      BY <2>1, <2>2, PartOf
    <2>4. /\ t \in Seq(Byte) /\ (1 <= n => Len(t) = n - 1 + 1) /\ (n < 1 => Len(t) = 0)
          /\ \A b \in 1 .. Len(t) : t[b] = c[1 - 1 + b]
      BY <2>1, <2>2, PartOf
    <2>5. Len(s) = n /\ Len(t) = n
      BY <2>3, <2>4
    <2>6. ASSUME NEW b \in 1 .. n PROVE s[b] = t[b]
      <3>1. 1 - 1 + b = b
        OBVIOUS
      <3> QED
        BY <1>3, <2>3, <2>4, <2>5, <3>1, Zenon
    <2>7. s = t
      BY <2>3, <2>4, <2>5, <2>6, SeqEqual
    <2> QED
      BY <1>2, <1>4, <2>2, <2>7, Zenon DEF IsPrefix
  <1>6. Len(c) = IF old = Absent \/ Len(old) < n THEN n ELSE Len(old)
    BY <1>2, <1>3, Zenon
  <1> QED
    BY <1>1, <1>2, <1>5, <1>6, Zenon

\* A file that was read whole and left alone by its owner is in the copy byte
\* for byte, and the copy ends with it unless it was longer before.
THEOREM CopyIsTheFile == Spec => []CleanCopy
  <1>1. Init => Versions /\ Coming
    BY NotUpToDate DEF Init, Versions, InHand, Looked, Told, Coming, OldTyped
  <1>2. TransferInv /\ TransferInv' /\ Versions /\ Coming /\ [Next]_vars => Versions' /\ Coming'
    BY VersionsStep, ComingStep
  <1>3. Versions /\ Coming => CleanCopy
    <2> SUFFICES ASSUME Versions, Coming, last[2] = "copied", clean
                 PROVE  CleanCopy
      BY DEF CleanCopy
    <2>1. last[1] = want /\ Copied
      BY DEF Versions, InHand, Coming
    <2>2. /\ IsPrefix(file[want], copy[want])
          /\ Len(copy[want]) = IF old = Absent \/ Len(old) < Len(file[want])
                               THEN Len(file[want]) ELSE Len(old)
      BY <2>1, BeginsWith DEF Coming
    <2>3. file[want] # Absent
      BY <2>1, ContentsBytes DEF Copied
    <2> QED
      BY <2>1, <2>2, <2>3, Zenon DEF CleanCopy
  <1> QED
    BY <1>1, <1>2, <1>3, TransferInvariance, PTL DEF Spec

--------------------------------------------------------------------------------
(* A round. *)

\* A time in which nothing goes wrong: no fault, no edit, and descriptors left
\* for the copy and for the connection.
Undisturbed == ill = {} /\ edits = 0 /\ Room(2)

\* The copy is there, and it begins with the file or passes for it.
Brought(f) ==
    /\ copy[f] # Absent
    /\ IsPrefix(file[f], copy[f]) \/ find_version(copy[f]) = find_version(file[f])

\* A tuple that is still to do.
Waits(x) == \E k \in 1 .. Len(todo) : todo[k] = x

\* The answer of a peer that nobody disturbs: the whole list, the file, or that
\* the copy is as good.
Answering ==
    /\ f_list = <<>> /\ ppc # "dead"
    /\ wpc = "list" /\ link.held /\ ~ link.open =>
          /\ Len(link.toW) = 2 /\ Head(link.toW).tag = "OK"
          /\ link.toW[2].val = Listed(Len(Walk[Root]))
    /\ wpc = "approve" /\ link.held => link.open
    /\ wpc = "reply" /\ ~ link.open => SizeFirst \/ link.toW = Msg("FILE_UP_TO_DATE")

\* Every file is copied, is being copied or is still to do; every empty
\* directory is made or still to do.
FileReached(f) == \/ Brought(f)
                  \/ Waits([at |-> "file", name |-> f])
                  \/ wpc \in {"approve", "reply", "data"} /\ f = want
DirReached(d) == d \in dirs \/ Waits([at |-> "dir", name |-> d])

Progress ==
    /\ wpc = "idle" => todo = <<>>
    /\ wpc \in {"next", "approve", "reply", "data"} \/ (wpc = "idle" /\ rounds > 0) =>
          /\ \A f \in Files : FileReached(f)
          /\ \A d \in Dirs \ {Root} : Entries[d] = <<>> => DirReached(d)

Unspoilt == /\ file \in [Files -> Contents]
            /\ wpc \in {"approve", "reply", "data"} => clean

Round == Undisturbed => Unspoilt /\ Answering /\ Progress

\* What leaves a round undisturbed found it so, and is neither a fault nor an
\* edit.
LEMMA Calm ==
  ASSUME TransferInv, TransferInv', edits \in Nat, [Next]_vars, Undisturbed'
  PROVE  /\ Undisturbed /\ file' = file /\ edits' = edits
         /\ \/ AskList \/ GetList \/ NoList \/ ListDone \/ MakeDir \/ AskFile \/ SendTuple
            \/ GetNothing \/ OpenCopy \/ ReadChunk \/ ReadRest
            \/ PeerNext \/ ResetArrives \/ UNCHANGED vars
  <1> USE DEF worker, peer, local, hist, env
  <1>0. ill' = {} /\ edits' = 0 /\ Room(2)'
    BY DEF Undisturbed
  <1>1. wpc' \notin {"dead", "stuck"}
    BY <1>0 DEF TransferInv, Control, Hanging
  <1>2. \A kind : ~Fault(kind)
    BY <1>0 DEF Fault
  <1>3. ~WorkerEnds /\ ~WorkerStuck
    BY <1>1 DEF WorkerEnds, WorkerStuck
  <1>4. ~OutOfDescriptors
    BY <1>0 DEF OutOfDescriptors, OpenFails, Room
  <1>5. ~NotWritable /\ ~ListAgain /\ ~WorkerQuits /\ ~PeerQuits
    BY <1>2 DEF NotWritable, ListAgain, WorkerQuits, PeerQuits
  <1>6. ~EditFile
    <2>1. ASSUME EditFile PROVE FALSE
      <3>1. edits' = edits + 1
        BY <2>1 DEF EditFile
      <3> QED
        BY <1>0, <3>1
    <2> QED
      BY <2>1
  <1>7. \/ AskList \/ GetList \/ NoList \/ ListDone \/ MakeDir \/ AskFile \/ SendTuple
        \/ GetNothing \/ OpenCopy \/ ReadChunk \/ ReadRest
        \/ PeerNext \/ ResetArrives \/ UNCHANGED vars
    BY <1>3, <1>4, <1>5, <1>6 DEF Next, WorkerNext
  <1>8. file' = file /\ edits' = edits
    BY <1>7 DEF AskList, GetList, NoList, ListDone, MakeDir, AskFile, SendTuple, GetNothing,
                OpenCopy, ReadChunk, ReadRest, PeerNext, Accept, send_file_list, ReadTuple, NoTuple,
                Compare, SendChunk, SendRest, PeerCut, ResetArrives, vars
  <1>9. ill = {}
    <2>1. ill' = ill \/ \E kind : Fault(kind)
      BY <1>7 DEF AskList, GetList, NoList, ListDone, MakeDir, AskFile, SendTuple, GetNothing,
                  OpenCopy, ReadChunk, ReadRest, Short, PeerNext, Accept, send_file_list, ReadTuple,
                  NoTuple, Compare, SendChunk, SendRest, PeerCut, ResetArrives, vars
    <2> QED
      BY <1>0, <1>2, <2>1
  <1>10. Room(2)
    <2>1. fds \in Nat /\ fds' \in Nat /\ FdLimit \in Nat
      BY TransferAssumption DEF TransferInv, FilesTyped
    <2>2. CASE MakeDir
      BY <1>0, <2>1, <2>2 DEF MakeDir, Room
    <2>3. CASE AskFile
      BY <1>0, <2>1, <2>3 DEF AskFile, Room
    <2>4. CASE ~MakeDir /\ ~AskFile
      <3>1. fds' = fds
        BY <1>7, <2>4 DEF AskList, GetList, NoList, ListDone, SendTuple, GetNothing,
                OpenCopy, ReadChunk, ReadRest, PeerNext, Accept, send_file_list, ReadTuple, NoTuple,
                Compare, SendChunk, SendRest, PeerCut, ResetArrives, vars
      <3> QED
        BY <1>0, <3>1 DEF Room
    <2> QED
      BY <2>2, <2>3, <2>4
  <1> QED
    BY <1>0, <1>7, <1>8, <1>9, <1>10 DEF Undisturbed

\* What is brought stays so while the file and the copy are left alone.
LEMMA StaysBrought ==
  ASSUME NEW f \in Files, file' = file, copy'[f] = copy[f], Brought(f)
  PROVE  Brought(f)'
  BY DEF Brought, find_version

\* The request for one file goes on or ends with the file brought: the others
\* stay as they were.
LEMMA AfterCopy ==
  ASSUME Progress, wpc \in {"approve", "reply", "data"}, file' = file, todo' = todo,
         dirs' = dirs, want' = want, \A f \in Files : f # want => copy'[f] = copy[f],
         \/ wpc' \in {"reply", "data"}
         \/ wpc' = "next" /\ Brought(want)'
  PROVE  Progress'
  <1>1. ASSUME NEW f \in Files PROVE FileReached(f)'
    <2>1. FileReached(f)
      BY DEF Progress
    <2>2. CASE f = want
      BY <2>2 DEF FileReached
    <2>3. CASE f # want
      <3>1. Brought(f) => Brought(f)'
        BY <2>3, StaysBrought
      <3> QED
        BY <2>1, <2>3, <3>1 DEF FileReached, Waits
    <2> QED
      BY <2>2, <2>3
  <1>2. ASSUME NEW d \in Dirs \ {Root}, Entries[d] = <<>> PROVE DirReached(d)'
    BY <1>2 DEF Progress, DirReached, Waits
  <1> QED
    BY <1>1, <1>2 DEF Progress

\* The tuples that wait behind the one that is taken.
LEMMA WaitsBehind ==
  ASSUME WorkerTyped, todo # <<>>, todo' = Tail(todo), NEW x, Waits(x)
  PROVE  x = Head(todo) \/ Waits(x)'
  <1>1. PICK k \in 1 .. Len(todo) : todo[k] = x
    BY DEF Waits
  <1>2. todo \in Seq(Tuple)
    BY DEF WorkerTyped
  <1>3. CASE k = 1
    BY <1>1, <1>2, <1>3
  <1>4. CASE k # 1
    <2>1. k - 1 \in 1 .. Len(Tail(todo)) /\ Tail(todo)[k - 1] = todo[k]
      BY <1>2, <1>4
    <2> QED
      BY <1>1, <2>1 DEF Waits
  <1> QED
    BY <1>3, <1>4

\* The next tuple: a directory is made, a file asked for.
LEMMA AfterTuple ==
  ASSUME WorkerTyped, Progress, wpc = "next", todo # <<>>, todo' = Tail(todo), file' = file,
         copy' = copy, dirs \subseteq dirs',
         \/ Head(todo).at = "dir" /\ wpc' = "next" /\ Head(todo).name \in dirs'
         \/ Head(todo).at = "file" /\ wpc' = "approve" /\ want' = Head(todo).name
  PROVE  Progress'
  <1>1. ASSUME NEW f \in Files PROVE FileReached(f)'
    <2>1. Brought(f) \/ Waits([at |-> "file", name |-> f])
      BY DEF Progress, FileReached
    <2>2. CASE Brought(f)
      BY <2>2, StaysBrought DEF FileReached
    <2>3. CASE Waits([at |-> "file", name |-> f])
      <3>1. [at |-> "file", name |-> f] = Head(todo) \/ Waits([at |-> "file", name |-> f])'
        BY <2>3, WaitsBehind
      <3>2. [at |-> "file", name |-> f] = Head(todo) => wpc' = "approve" /\ want' = f
        OBVIOUS
      <3> QED
        BY <3>1, <3>2, Zenon DEF FileReached
    <2> QED
      BY <2>1, <2>2, <2>3
  <1>2. ASSUME NEW d \in Dirs \ {Root}, Entries[d] = <<>> PROVE DirReached(d)'
    <2>1. d \in dirs \/ Waits([at |-> "dir", name |-> d])
      BY <1>2 DEF Progress, DirReached
    <2>2. CASE d \in dirs
      BY <2>2 DEF DirReached
    <2>3. CASE Waits([at |-> "dir", name |-> d])
      <3>1. [at |-> "dir", name |-> d] = Head(todo) \/ Waits([at |-> "dir", name |-> d])'
        BY <2>3, WaitsBehind
      <3>2. [at |-> "dir", name |-> d] = Head(todo) => d \in dirs'
        OBVIOUS
      <3> QED
        BY <3>1, <3>2, Zenon DEF DirReached
    <2> QED
      BY <2>1, <2>2, <2>3
  <1> QED
    BY <1>1, <1>2 DEF Progress

\* The list that was read names every file and every empty directory.
LEMMA WholeList ==
  ASSUME todo' = Listed(Len(Walk[Root]))
  PROVE  /\ \A f \in Files : Waits([at |-> "file", name |-> f])'
         /\ \A d \in Dirs \ {Root} : Entries[d] = <<>> => Waits([at |-> "dir", name |-> d])'
  <1>1. PICK s \in Seq([at : {"open", "file", "dir"}, name : Files \cup Dirs]) : s = Walk[Root]
    BY ListAssumption
  <1>2. PICK l : l = Listed(Len(s))
    OBVIOUS
  <1>3. \A i \in 1 .. Len(s) : s[i] \in Tuple => \E k \in 1 .. Len(l) : l[k] = s[i]
    <2>1. \A i \in 1 .. Len(Walk[Root]) : Walk[Root][i] \in Tuple =>
             \E k \in 1 .. Len(Listed(Len(Walk[Root]))) :
                Listed(Len(Walk[Root]))[k] = Walk[Root][i]
      BY ListedTyped
    <2> QED
      BY <1>1, <1>2, <2>1, Zenon
  <1>4. ASSUME NEW x \in Tuple, x \in Range(s) PROVE Waits(x)'
    <2>1. PICK i \in 1 .. Len(s) : x = s[i]
      BY <1>4 DEF Range
    <2>2. \E k \in 1 .. Len(l) : l[k] = x
      BY <1>3, <2>1
    <2>3. todo' = l
      BY <1>1, <1>2
    <2> QED
      BY <2>2, <2>3, Zenon DEF Waits
  <1>5. ASSUME NEW f \in Files PROVE Waits([at |-> "file", name |-> f])'
    <2>1. [at |-> "file", name |-> f] \in Tuple
      BY DEF Tuple
    <2>2. [at |-> "file", name |-> f] \in Range(s)
      BY <1>1, ListAssumption
    <2> QED
      BY <1>4, <2>1, <2>2
  <1>6. ASSUME NEW d \in Dirs \ {Root}, Entries[d] = <<>> PROVE Waits([at |-> "dir", name |-> d])'
    <2>1. [at |-> "dir", name |-> d] \in Tuple
      BY DEF Tuple
    <2>2. [at |-> "dir", name |-> d] \in Range(s)
      BY <1>1, <1>6, ListAssumption
    <2> QED
      BY <1>4, <2>1, <2>2
  <1> QED
    BY <1>5, <1>6

\* The conjunction that a quiet step of the worker keeps.
InRound == Unspoilt /\ Answering /\ Progress

\* Before a request: nothing has been answered.
LEMMA RoundAsks ==
  ASSUME TransferInv, Undisturbed, Undisturbed', InRound, file' = file,
         AskList \/ GetList \/ NoList \/ ListDone \/ MakeDir \/ AskFile
  PROVE  InRound'
  <1> USE DEF worker, peer, local, hist, env
  <1>0. /\ WorkerTyped /\ Control /\ FilesTyped /\ Ends /\ Asked
        /\ f_list = <<>> /\ ppc # "dead" /\ file' \in [Files -> Contents]
        /\ fds \in Nat /\ fds' \in Nat /\ FdLimit \in Nat
    <2>1. fds' \in Nat
      BY TransferAssumption DEF TransferInv, FilesTyped, AskList, GetList, NoList, ListDone, MakeDir, AskFile
    <2> QED
      BY <2>1, TransferAssumption DEF TransferInv, Control, InRound, Unspoilt, Answering, FilesTyped
  <1>1. CASE AskList
    <2>1. Room(1)
      BY <1>0 DEF Undisturbed, Room
    <2>2. /\ wpc = "idle" /\ wpc' = "list" /\ link' = link /\ ppc' = ppc /\ f_list' = f_list
      BY <1>0, <1>1, <2>1 DEF AskList
    <2>3. ~link.held
      BY <1>0, <2>2 DEF Ends
    <2> QED
      BY <1>0, <2>2, <2>3 DEF InRound, Unspoilt, Answering, Progress
  <1>2. CASE GetList
    <2>1. /\ wpc = "list" /\ Incoming("OK") /\ Len(link.toW) = 2 /\ todo' = link.toW[2].val
          /\ wpc' = "next" /\ ppc' = ppc /\ f_list' = f_list
      BY <1>2 DEF GetList
    <2>2. ~link.open /\ link.held
      BY <1>0, <2>1, ReadsAnswer DEF Incoming, Readable
    <2>3. todo' = Listed(Len(Walk[Root]))
      BY <2>1, <2>2 DEF InRound, Answering
    <2>4. Progress'
      BY <2>1, <2>3, WholeList DEF Progress, FileReached, DirReached
    <2> QED
      BY <1>0, <2>1, <2>4 DEF InRound, Unspoilt, Answering
  <1>3. CASE NoList
    <2>1. /\ wpc = "list" /\ link.held
          /\ \/ AtEOF \/ Incoming("IP_PORT_NOT_FOUND")
             \/ Incoming("OK") /\ Len(link.toW) = 1 /\ ~ link.open
      BY <1>3 DEF NoList, AtEOF, Incoming, Readable
    <2>2. CASE link.open
      <3>1. link.toW = Msg("OK")
        BY <1>0, <2>1, <2>2 DEF Asked
      <3> QED
        BY <2>1, <2>2, <3>1, MsgHead DEF AtEOF, Incoming, Readable
    <2>3. CASE ~link.open
      <3>1. Len(link.toW) = 2 /\ Head(link.toW).tag = "OK" /\ link.toW # <<>>
        BY <2>1, <2>3 DEF InRound, Answering
      <3> QED
        BY <2>1, <3>1 DEF AtEOF, Incoming
    <2> QED
      BY <2>2, <2>3
  <1>4. CASE ListDone
    <2>1. /\ wpc = "next" /\ wpc' = "idle" /\ todo = <<>> /\ todo' = todo /\ dirs' = dirs
          /\ copy' = copy /\ ppc' = ppc /\ f_list' = f_list
      BY <1>4 DEF ListDone
    <2>2. ASSUME NEW f \in Files PROVE FileReached(f)'
      <3>1. Brought(f)
        BY <2>1 DEF InRound, Progress, FileReached, Waits
      <3> QED
        BY <2>1, <3>1, StaysBrought DEF FileReached
    <2>3. ASSUME NEW d \in Dirs \ {Root}, Entries[d] = <<>> PROVE DirReached(d)'
      BY <2>1, <2>3 DEF InRound, Progress, DirReached, Waits
    <2>4. Progress'
      BY <2>1, <2>2, <2>3 DEF Progress
    <2> QED
      BY <1>0, <2>1, <2>4 DEF InRound, Unspoilt, Answering
  <1>5. CASE MakeDir
    <2>1. /\ wpc = "next" /\ todo # <<>> /\ todo' = Tail(todo) /\ copy' = copy /\ wpc' = wpc
          /\ dirs \subseteq dirs' /\ Head(todo).at = "dir" /\ Head(todo).name \in dirs'
          /\ ppc' = ppc /\ f_list' = f_list
      BY <1>5 DEF MakeDir
    <2>2. Progress'
      BY <1>0, <2>1, AfterTuple DEF InRound
    <2> QED
      BY <1>0, <2>1, <2>2 DEF InRound, Unspoilt, Answering
  <1>6. CASE AskFile
    <2>1. Room(1)
      BY <1>0 DEF Undisturbed, Room
    <2>2. /\ wpc = "next" /\ todo # <<>> /\ todo' = Tail(todo) /\ copy' = copy
          /\ wpc' = "approve" /\ want' = Head(todo).name /\ clean' = TRUE
          /\ dirs \subseteq dirs' /\ Head(todo).at = "file"
          /\ ppc' = ppc /\ f_list' = f_list /\ link' = link
      BY <1>0, <1>6, <2>1 DEF AskFile
    <2>3. Progress'
      BY <1>0, <2>2, AfterTuple DEF InRound
    <2>4. ~link.held
      BY <1>0, <2>2 DEF Ends
    <2> QED
      BY <1>0, <2>2, <2>3, <2>4 DEF InRound, Unspoilt, Answering
  <1> QED
    BY <1>1, <1>2, <1>3, <1>4, <1>5, <1>6

\* A copy that is whole, or that passes for the file, is brought.
LEMMA ThenBrought == (SameVersions => Brought(want)) /\ (Copied /\ OldTyped => Brought(want))
  <1>1. SameVersions => Brought(want)
    BY DEF SameVersions, Brought
  <1>2. Copied /\ OldTyped => Brought(want)
    <2> SUFFICES ASSUME Copied, OldTyped PROVE Brought(want)
      OBVIOUS
    <2>1. copy[want] \in Seq(Byte) /\ IsPrefix(file[want], copy[want])
      BY BeginsWith
    <2> QED
      BY <2>1, ContentsBytes DEF Brought
  <1> QED
    BY <1>1, <1>2

\* ... after a step as well.
LEMMA ThenBroughtNext ==
  (SameVersions => Brought(want))' /\ (Copied /\ OldTyped => Brought(want))'
  BY ThenBrought, PTL

\* Nobody disturbed: a read gives whole chunks, and all the rest at the end.
LEMMA NoShortRead ==
  ASSUME TransferInv, Undisturbed, Undisturbed', clean
  PROVE  (ReadChunk => clean') /\ (ReadRest => clean')
  <1>0. /\ Control /\ Arriving /\ link \in LinkType /\ link.toW \in Seq(Messages)
        /\ Len(link.toW) \in Nat /\ left \in Nat /\ pleft \in Nat /\ Chunk \in Nat \ {0}
        /\ ill = {} /\ ill' = {}
    BY TransferAssumption
       DEF TransferInv, Control, LinkType, WorkerTyped, PeerTyped, Undisturbed
  <1>1. \A kind : ~Fault(kind)
    BY <1>0 DEF Fault
  <1>2. wpc = "data" /\ link.open =>
           left = Len(link.toW) + pleft /\ IsMultiple(Len(link.toW))
    BY <1>0 DEF Arriving
  <1>3. wpc = "data" /\ ~link.open => left <= Len(link.toW)
    BY <1>0 DEF Arriving
  <1>4. IsMultiple(Len(link.toW)) /\ Len(link.toW) # 0 => Chunk <= Len(link.toW)
    BY <1>0, Multiples
  <1>5. ASSUME ReadChunk PROVE clean'
    <2>1. PICK k \in 1 .. Chunk : Short(Chunk, k) /\ clean' = (clean /\ k = Chunk)
      BY <1>5 DEF ReadChunk
    <2>2. wpc = "data" /\ left >= Chunk /\ link.toW # <<>>
      BY <1>5 DEF ReadChunk
    <2>3. Len(link.toW) # 0
      BY <1>0, <2>2
    <2>4. Chunk <= Len(link.toW)
      BY <1>0, <1>2, <1>3, <1>4, <2>2, <2>3
    <2>5. k = Chunk
      BY <1>0, <2>1, <2>4, ShortRead
    <2> QED
      BY <2>1, <2>5
  <1>6. ASSUME ReadRest PROVE clean'
    <2>1. PICK k \in 0 .. left : Short(left, k) /\ clean' = (clean /\ k = left)
      BY <1>6 DEF ReadRest
    <2>2. wpc = "data" /\ left < Chunk /\ (link.open => link.toW # <<>>)
      BY <1>6 DEF ReadRest, Readable
    <2>3. left <= Len(link.toW)
      <3>1. CASE ~link.open
        BY <1>3, <2>2, <3>1
      <3>2. CASE link.open
        <4>1. Len(link.toW) # 0
          BY <1>0, <2>2, <3>2
        <4> QED
          BY <1>0, <1>2, <1>4, <2>2, <3>2, <4>1
      <3> QED
        BY <3>1, <3>2
    <2>4. k = left
      BY <1>0, <2>1, <2>3, ShortRead
    <2> QED
      BY <2>1, <2>4
  <1> QED
    BY <1>5, <1>6

\* A request: its answer is the file, or that the copy is as good.
LEMMA RoundCopies ==
  ASSUME TransferInv, TransferInv', Versions', Coming', Undisturbed, Undisturbed', InRound,
         file' = file, SendTuple \/ GetNothing \/ OpenCopy \/ ReadChunk \/ ReadRest
  PROVE  InRound'
  <1> USE DEF worker, peer, local, hist, env
  <1>0. /\ WorkerTyped /\ Control /\ FilesTyped /\ Ends /\ Asked /\ Replied /\ Arriving
        /\ f_list = <<>> /\ ppc # "dead" /\ file' \in [Files -> Contents] /\ link \in LinkType
        /\ wpc \in {"approve", "reply", "data"} => clean /\ want \in Files
        /\ f_list' = f_list /\ ppc' = ppc /\ todo' = todo /\ dirs' = dirs /\ want' = want
    BY DEF TransferInv, Control, InRound, Unspoilt, Answering, WorkerTyped, SendTuple, GetNothing,
           OpenCopy, ReadChunk, ReadRest, Finish
  <1>1. CASE SendTuple
    <2>1. /\ wpc = "approve" /\ wpc' = "reply" /\ copy' = copy /\ clean' = clean /\ Incoming("OK")
      BY <1>1 DEF SendTuple
    <2>2. link.open
      BY <2>1 DEF InRound, Answering, Incoming, Readable
    <2>3. link'.open
      BY <1>0, <1>1, <2>2 DEF SendTuple, LinkType
    <2>4. Progress'
      BY <1>0, <2>1, AfterCopy DEF InRound
    <2> QED
      BY <1>0, <2>1, <2>3, <2>4 DEF InRound, Unspoilt, Answering
  <1>2. CASE GetNothing
    <2>1. ~(wpc = "approve" /\ Incoming("IP_PORT_NOT_FOUND"))
      BY <1>0, ReadsAnswer DEF InRound, Answering, Incoming, Readable
    <2>2. ~(wpc = "reply" /\ Incoming("FILE_NOT_FOUND"))
      <3> SUFFICES ASSUME wpc = "reply", Incoming("FILE_NOT_FOUND") PROVE FALSE
        OBVIOUS
      <3>1. ~link.open /\ link.toW # <<>> /\ Head(link.toW).tag = "FILE_NOT_FOUND"
        BY <1>0, ReadsAnswer DEF Incoming
      <3>2. SizeFirst \/ link.toW = Msg("FILE_UP_TO_DATE")
        BY <3>1 DEF InRound, Answering
      <3>3. SizeFirst => Head(link.toW).tag = "FILE_SIZE"
        <4>1. link.toW \in Seq(Messages) /\ (SizeFirst => link.toW[1] \in Size)
          BY <1>0 DEF LinkType, SizeFirst
        <4>2. Head(link.toW) = link.toW[1]
          BY <3>1, <4>1
        <4> QED
          BY <4>1, <4>2 DEF Size
      <3> QED
        BY <3>1, <3>2, <3>3, MsgHead
    <2>3. ~(wpc = "reply" /\ AtEOF)
      BY MsgHead DEF InRound, Answering, AtEOF, Readable, SizeFirst
    <2>4. wpc = "reply" /\ Finish("up to date") /\ copy' = copy /\ clean' = clean
      BY <1>2, <2>1, <2>2, <2>3 DEF GetNothing
    <2>5. wpc' = "next" /\ last' = <<want, "up to date">>
      BY <2>4 DEF Finish, Continue
    <2>6. SameVersions'
      BY <1>0, <2>4, <2>5 DEF Versions, Told
    <2>7. Brought(want)'
      BY <2>6, ThenBroughtNext
    <2>8. Progress'
      BY <1>0, <2>4, <2>5, <2>7, AfterCopy DEF InRound
    <2> QED
      BY <1>0, <2>5, <2>8 DEF InRound, Unspoilt, Answering
  <1>3. CASE OpenCopy
    <2>1. /\ wpc = "reply" /\ clean' = clean
          /\ copy' = [copy EXCEPT ![want] = IF @ = Absent THEN <<>> ELSE @]
          /\ \/ wpc' = "data"
             \/ wpc' = "next" /\ last' = <<want, "copied">>
      BY <1>3 DEF OpenCopy, Finish, Continue
    <2>2. \A f \in Files : f # want => copy'[f] = copy[f]
      BY <1>0, <2>1 DEF FilesTyped
    <2>3. wpc' = "next" => Brought(want)'
      BY <1>0, <2>1, ThenBroughtNext DEF Coming
    <2>4. Progress'
      BY <1>0, <2>1, <2>2, <2>3, AfterCopy DEF InRound
    <2> QED
      BY <1>0, <2>1, <2>4 DEF InRound, Unspoilt, Answering
  <1>4. CASE ReadChunk
    <2>1. wpc = "data" /\ wpc' = "data"
      BY <1>4 DEF ReadChunk
    <2>2. clean'
      BY <1>0, <1>4, <2>1, NoShortRead
    <2>3. \A f \in Files : f # want => copy'[f] = copy[f]
      BY <1>0, <1>4 DEF FilesTyped, ReadChunk
    <2>4. Progress'
      BY <1>0, <2>1, <2>3, AfterCopy DEF InRound
    <2> QED
      BY <1>0, <2>1, <2>2, <2>4 DEF InRound, Unspoilt, Answering
  <1>5. CASE ReadRest
    <2>1. wpc = "data" /\ wpc' = "next" /\ last' = <<want, "copied">>
      BY <1>5 DEF ReadRest
    <2>2. clean'
      BY <1>0, <1>5, <2>1, NoShortRead
    <2>3. \A f \in Files : f # want => copy'[f] = copy[f]
      BY <1>0, <1>5 DEF FilesTyped, ReadRest
    <2>4. Brought(want)'
      BY <2>1, <2>2, ThenBroughtNext DEF Coming
    <2>5. Progress'
      BY <1>0, <2>1, <2>3, <2>4, AfterCopy DEF InRound
    <2> QED
      BY <1>0, <2>1, <2>5 DEF InRound, Unspoilt, Answering
  <1> QED
    BY <1>1, <1>2, <1>3, <1>4, <1>5

\* What the peer has begun to write stays the first message.
LEMMA SizeStaysFirst ==
  ASSUME TransferInv, wpc = "reply", SendsRest
  PROVE  link'.toW # <<>> /\ link'.toW # Msg("FILE_NOT_FOUND")
  <1>0. ppc = "send" /\ link.open /\ SizeFirst /\ link.toW \in Seq(Messages)
    BY DEF SendsRest, TransferInv, Control, Replied, LinkType
  <1>1. PICK buf \in Seq(Byte) : buf = Filled(pbuf, FileBlock(pat)) /\ Len(buf) = Chunk
    BY <1>0, PeerReads DEF TransferInv
  <1>2. pleft \in 0 .. Len(buf) /\ 1 \in Nat \ {0}
    BY <1>1, TransferAssumption DEF SendsRest, TransferInv, PeerTyped
  <1>3. PICK s \in Seq(Byte) : link'.toW = link.toW \o Bytes(s)
    <2>1. SubSeq(buf, 1, pleft) \in Seq(Byte)
      BY <1>2, PartOf
    <2> QED
      BY <1>1, <2>1 DEF SendsRest
  <1>4. /\ link'.toW[1] = link.toW[1] /\ link.toW[1] \in Size
        /\ Len(link'.toW) = Len(link.toW) + Len(s)
    BY <1>0, <1>3, BytesAfter DEF SizeFirst
  <1>5. link'.toW[1].tag = "FILE_SIZE"
    BY <1>4 DEF Size
  <1>6. Len(link'.toW) # 0
    <2>1. Len(link.toW) \in Nat /\ Len(link.toW) # 0 /\ Len(s) \in Nat
      BY <1>0 DEF SizeFirst
    <2> QED
      BY <1>4, <2>1
  <1> QED
    BY <1>5, <1>6, MsgTyped

\* A connection the worker has let go of stays so until the peer takes the
\* next request.
LEMMA StaysLost ==
  ASSUME link \in LinkType, ~link.held, PeerNext \/ ResetArrives, ~Accept
  PROVE  ~link'.held
  <1>0. ~NoLink.held
    BY NoLinkTyped
  <1>1. \A l, msgs : ~l.held => PeerClosed(l) = NoLink
    BY DEF PeerClosed
  <1>a. ASSUME NEW l \in LinkType, NEW msgs, ~l.held PROVE ~Sent(l, msgs).held
    BY <1>a DEF Sent, LinkType
  <1>b. ASSUME NEW l \in LinkType, NEW msgs, ~l.held PROVE ~PeerClosed(Sent(l, msgs)).held
    <2>1. ~Sent(l, msgs).held
      BY <1>a, <1>b
    <2> QED
      BY <1>0, <1>1, <2>1
  <1>2. CASE send_file_list
    BY <1>b, <1>2 DEF send_file_list, Served
  <1>3. CASE ReadTuple
    <2>1. PICK l : l = [link EXCEPT !.toP = <<>>]
      OBVIOUS
    <2>2. l \in LinkType /\ ~l.held
      <3>1. <<>> \in Seq([name : Files, version : Version])
        OBVIOUS
      <3> QED
        BY <2>1, <3>1 DEF LinkType
    <2>3. link' = l \/ link' = PeerClosed(Sent(l, Msg("FILE_NOT_FOUND")))
      BY <1>3, <2>1 DEF ReadTuple, Served
    <2> QED
      BY <1>b, <2>2, <2>3
  <1>4. CASE NoTuple
    BY <1>0, <1>1, <1>4 DEF NoTuple, Served
  <1>5. CASE Compare
    <2>1. PICK msgs : link' = Sent(link, msgs) \/ link' = PeerClosed(Sent(link, msgs))
      BY <1>5 DEF Compare, Served
    <2> QED
      BY <1>a, <1>b, <2>1
  <1>6. CASE SendChunk
    BY <1>a, <1>6 DEF SendChunk
  <1>7. CASE SendRest
    BY <1>b, <1>7 DEF SendRest, Served
  <1>8. CASE PeerCut
    BY <1>0, <1>8 DEF PeerCut
  <1>9. CASE ResetArrives
    BY <1>9 DEF ResetArrives, LinkType
  <1> QED
    BY <1>2, <1>3, <1>4, <1>5, <1>6, <1>7, <1>8, <1>9 DEF PeerNext

\* The peer answers with the list, with the file, or that the copy is as good.
LEMMA AnswersWell ==
  ASSUME TransferInv, TransferInv', Undisturbed', InRound, PeerNext \/ ResetArrives
  PROVE  Answering'
  <1> USE DEF worker, peer, local, hist, env
  <1>0. /\ Control /\ Ends /\ Asked /\ link \in LinkType /\ f_list = <<>> /\ ppc # "dead"
        /\ WorkerTyped /\ Control' /\ Ends' /\ Replied' /\ link'.toW \in Seq(Messages)
    BY DEF TransferInv, Control, LinkType, InRound, Answering
  <1>1. WorkerStill
    BY StaysStill
  <1>2. todo' = todo /\ dirs' = dirs /\ rounds' = rounds /\ f_list' = <<>> /\ ppc' # "dead"
    BY <1>0 DEF PeerNext, Accept, send_file_list, ReadTuple, NoTuple, Compare, SendChunk, SendRest,
                PeerCut, ResetArrives, Served, Returned
  <1>3. \A kind : ~Fault(kind)
    BY DEF Undisturbed, Fault
  <1>6. CASE wpc \in {"list", "approve"} /\ ~link.held
    <2>1. CASE Accept
      <3>1. PICK l \in LinkType : l.open /\ link' = Sent(l, Msg("OK"))
        <4>1. PICK l : /\ l = [NoLink EXCEPT !.open = TRUE, !.held = wpc \in {"list", "approve"}]
                       /\ link' = Sent(l, Msg("OK"))
          BY <1>3, <2>1 DEF Accept
        <4>2. l = [NoLink EXCEPT !.open = TRUE, !.held = TRUE]
          BY <1>6, <4>1
        <4>3. l \in LinkType /\ l.open
          BY <4>2, NoLinkTyped DEF LinkType
        <4> QED
          BY <4>1, <4>3
      <3>2. link'.open
        BY <3>1, MsgTyped, SentLink
      <3> QED
        BY <1>1, <1>2, <1>6, <3>2 DEF Answering, WorkerStill
    <2>2. CASE ~Accept
      <3>1. ~link'.held
        BY <1>0, <1>6, <2>2, StaysLost
      <3> QED
        BY <1>1, <1>2, <1>6, <3>1 DEF Answering, WorkerStill
    <2> QED
      BY <2>1, <2>2
  <1>7. CASE wpc \in {"list", "approve"} /\ link.held
    <2>0. knock = NoRequest /\ link.rst = "no"
      BY <1>0, <1>7 DEF Ends
    <2>1. ~Accept /\ ~ResetArrives
      BY <2>0 DEF Accept, ResetArrives
    <2>2. CASE ~link.open
      <3>1. ~Serving
        BY <1>0, <2>2 DEF Ends
      <3> QED
        BY <2>1, <3>1 DEF Serving, PeerNext, send_file_list, ReadTuple, NoTuple, Compare, SendChunk,
                          SendRest, PeerCut
    <2>3. CASE link.open /\ wpc = "approve"
      <3>1. ppc = "tuple" /\ link.toP = <<>>
        BY <1>0, <1>7, <2>3 DEF Asked
      <3> QED
        BY <1>7, <2>1, <3>1 DEF PeerNext, send_file_list, ReadTuple, NoTuple, Compare, SendChunk,
                          SendRest, PeerCut
    <2>4. CASE link.open /\ wpc = "list"
      <3>1. ppc = "listing" /\ link.toW = Msg("OK")
        BY <1>0, <1>7, <2>4 DEF Asked
      <3>2. send_file_list
        BY <2>1, <3>1 DEF PeerNext, ReadTuple, NoTuple, Compare, SendChunk, SendRest, PeerCut
      <3>3. PICK w : w = Listed(Len(Walk[Root]))
        OBVIOUS
      <3>4. w \in Seq(Tuple) /\ <<>> \o w = w
        BY <3>3, ListedTyped, ConcatEmptySeq
      <3>5. PICK msg : msg = [tag |-> "FILE_LIST", val |-> w]
        OBVIOUS
      <3>6. link' = PeerClosed(Sent(link, <<msg>>))
        BY <1>0, <3>2, <3>3, <3>4, <3>5 DEF send_file_list, Served
      <3>7. <<msg>> \in Seq(Messages)
        BY <3>4, <3>5 DEF Messages, Listing
      <3>8. link'.toW = Msg("OK") \o <<msg>>
        BY <1>0, <1>7, <3>1, <3>6, <3>7, ServedLink
      <3>9. PICK t : t = <<msg>>
        OBVIOUS
      <3>10. t \in Seq(Messages) /\ Len(t) = 1 /\ t[1] = msg
        BY <3>7, <3>9
      <3>11. PICK s : s = Msg("OK")
        OBVIOUS
      <3>12. s \in Seq(Messages) /\ Len(s) = 1 /\ s[1].tag = "OK"
        BY <3>11, MsgTyped
      <3>13. /\ Len(s \o t) = Len(s) + Len(t)
             /\ \A b \in 1 .. Len(s) : (s \o t)[b] = s[b]
             /\ \A b \in 1 .. Len(t) : (s \o t)[Len(s) + b] = t[b]
        BY <3>10, <3>12, Joined
      <3>14. link'.toW = s \o t
        BY <3>8, <3>9, <3>11
      <3>15. Len(link'.toW) = 2 /\ link'.toW[1] = s[1] /\ link'.toW[2] = t[1]
        <4>1. 1 \in 1 .. Len(s) /\ 1 \in 1 .. Len(t) /\ Len(s) + 1 = 2 /\ Len(s) + Len(t) = 2
          BY <3>10, <3>12
        <4> QED
          BY <3>13, <3>14, <4>1
      <3>16. /\ Len(link'.toW) = 2 /\ Head(link'.toW).tag = "OK"
             /\ link'.toW[2].val = w
        <4>1. Head(link'.toW) = link'.toW[1]
          BY <1>0, <3>15
        <4> QED
          BY <3>5, <3>10, <3>12, <3>15, <4>1
      <3> QED
        BY <1>1, <1>2, <2>4, <3>3, <3>16 DEF Answering, WorkerStill
    <2> QED
      BY <1>7, <2>2, <2>3, <2>4
  <1>8. CASE wpc = "reply"
    <2> SUFFICES ASSUME ~link'.open PROVE SizeFirst' \/ link'.toW = Msg("FILE_UP_TO_DATE")
      BY <1>1, <1>2, <1>8 DEF Answering, WorkerStill
    <2>1. link'.toW \in {<<>>, Msg("FILE_NOT_FOUND"), Msg("FILE_UP_TO_DATE")} \/ SizeFirst'
      BY <1>0, <1>1, <1>8 DEF Replied, WorkerStill
    <2>2. want \in Files /\ file[want] # Absent
      BY <1>0, <1>8, ContentsBytes DEF WorkerTyped, InRound, Unspoilt
    <2>3. ~SaysNotFound /\ ~HangsUpOn
      BY <1>2, <2>2 DEF SaysNotFound, HangsUpOn
    <2>4. ~Looks
      <3>1. ppc' = "compare" => link'.open
        BY <1>0 DEF Ends, Serving
      <3> QED
        BY <3>1 DEF Looks
    <2>5. ~SendsChunk
      BY DEF SendsChunk
    <2>6. CASE SaysUpToDate
      BY <2>6 DEF SaysUpToDate
    <2>7. CASE SaysSize
      <3>1. link'.toW[1].tag = "FILE_SIZE" /\ link'.toW # <<>>
        BY <2>7 DEF SaysSize
      <3> QED
        BY <2>1, <3>1, MsgTyped
    <2>8. CASE SendsRest
      <3>1. link'.toW # <<>> /\ link'.toW # Msg("FILE_NOT_FOUND")
        BY <1>8, <2>8, SizeStaysFirst
      <3> QED
        BY <2>1, <3>1
    <2> QED
      BY <1>8, <2>3, <2>4, <2>5, <2>6, <2>7, <2>8, Answers
  <1>9. CASE wpc \notin {"list", "approve", "reply"}
    BY <1>1, <1>2, <1>9 DEF Answering, WorkerStill
  <1> QED
    BY <1>6, <1>7, <1>8, <1>9

\* A step of the peer leaves the worker's part of the round as it is.
LEMMA RoundServes ==
  ASSUME TransferInv, TransferInv', Undisturbed', InRound, PeerNext \/ ResetArrives
  PROVE  InRound'
  <1> USE DEF worker, peer, local, hist, env
  <1>1. WorkerStill
    BY StaysStill
  <1>2. todo' = todo /\ dirs' = dirs /\ rounds' = rounds
    BY DEF PeerNext, Accept, send_file_list, ReadTuple, NoTuple, Compare, SendChunk, SendRest,
           PeerCut, ResetArrives, Served, Returned
  <1>3. Answering'
    BY AnswersWell
  <1>4. Unspoilt'
    BY <1>1 DEF WorkerStill, InRound, Unspoilt
  <1>5. Progress'
    <2>1. \A f \in Files : Brought(f) => Brought(f)'
      BY <1>1, StaysBrought DEF WorkerStill
    <2>2. ASSUME NEW f \in Files, FileReached(f) PROVE FileReached(f)'
      BY <1>1, <1>2, <2>1, <2>2 DEF FileReached, Waits, WorkerStill
    <2>3. ASSUME NEW d \in Dirs, DirReached(d) PROVE DirReached(d)'
      BY <1>2, <2>3 DEF DirReached, Waits
    <2> QED
      BY <1>1, <1>2, <2>2, <2>3 DEF InRound, Progress, WorkerStill
  <1> QED
    BY <1>3, <1>4, <1>5 DEF InRound

\* Round is inductive, given what is known of both ends and of the copy.
LEMMA RoundStep ==
  ASSUME TransferInv, TransferInv', Versions', Coming', edits \in Nat, Round, [Next]_vars
  PROVE  edits' \in Nat /\ Round'
  <1> USE DEF worker, peer, local, hist, env
  <1>1. edits' \in Nat
    <2>1. edits' = edits \/ edits' = edits + 1
      BY DEF Next, WorkerNext, AskList, GetList, NoList, ListDone, MakeDir, AskFile, SendTuple,
             WorkerEnds, GetNothing, OpenCopy, ReadChunk, ReadRest, WorkerStuck, OutOfDescriptors,
             NotWritable, OpenFails, WorkerQuits, PeerNext, Accept, send_file_list, ReadTuple,
             NoTuple, Compare, SendChunk, SendRest, PeerCut, ListAgain, PeerQuits, ResetArrives,
             EditFile, vars
    <2> QED
      BY <2>1
  <1>2. SUFFICES ASSUME Undisturbed' PROVE InRound'
    BY <1>1 DEF Round, InRound
  <1>3. /\ Undisturbed /\ file' = file
        /\ \/ AskList \/ GetList \/ NoList \/ ListDone \/ MakeDir \/ AskFile \/ SendTuple
           \/ GetNothing \/ OpenCopy \/ ReadChunk \/ ReadRest
           \/ PeerNext \/ ResetArrives \/ UNCHANGED vars
    BY <1>2, Calm
  <1>4. InRound
    BY <1>3 DEF Round, InRound
  <1>5. CASE AskList \/ GetList \/ NoList \/ ListDone \/ MakeDir \/ AskFile
    BY <1>2, <1>3, <1>4, <1>5, RoundAsks
  <1>6. CASE SendTuple \/ GetNothing \/ OpenCopy \/ ReadChunk \/ ReadRest
    BY <1>2, <1>3, <1>4, <1>6, RoundCopies
  <1>7. CASE PeerNext \/ ResetArrives
    BY <1>2, <1>4, <1>7, RoundServes
  <1>8. CASE UNCHANGED vars
    BY <1>4, <1>8 DEF vars, InRound, Unspoilt, Answering, Progress, FileReached, DirReached, Brought,
                      Waits, SizeFirst, BytesFrom, find_version
  <1> QED
    BY <1>3, <1>5, <1>6, <1>7, <1>8

\* A round of work(), send_file_list and send_file in which nothing goes wrong
\* mirrors the tree, for any tree, any contents, any chunk size: every empty
\* directory is made and every file is there from its first byte to its last,
\* as long as no copy passes for a file it differs from.
THEOREM RoundsMirror == Spec => [](RoundMirrors \/ Collision)
  <1>1. Init => Versions /\ Coming /\ edits \in Nat /\ Round
    <2> SUFFICES ASSUME Init PROVE Versions /\ Coming /\ edits \in Nat /\ Round
      OBVIOUS
    <2>1. Versions /\ Coming /\ edits \in Nat
      BY NotUpToDate DEF Init, Versions, InHand, Looked, Told, Coming, OldTyped
    <2>2. file \in [Files -> Contents]
      BY TransferAssumption DEF Init
    <2> QED
      BY <2>1, <2>2 DEF Init, Round, Unspoilt, Answering, Progress
  <1>2. /\ TransferInv /\ TransferInv' /\ Versions /\ Coming /\ edits \in Nat /\ Round /\ [Next]_vars
        => Versions' /\ Coming' /\ (edits \in Nat)' /\ Round'
    BY VersionsStep, ComingStep, RoundStep
  <1>3. Round => RoundMirrors \/ Collision
    <2> SUFFICES ASSUME Round, wpc = "idle", rounds > 0, Undisturbed, ~Collision
                 PROVE  /\ \A d \in Dirs \ {Root} : Entries[d] = <<>> => d \in dirs
                        /\ \A f \in Files : copy[f] # Absent /\ IsPrefix(file[f], copy[f])
      BY DEF RoundMirrors, Undisturbed
    <2>1. Progress /\ todo = <<>> /\ file \in [Files -> Contents]
      BY DEF Round, Progress, Unspoilt
    <2>2. ASSUME NEW d \in Dirs \ {Root}, Entries[d] = <<>> PROVE d \in dirs
      BY <2>1, <2>2 DEF Progress, DirReached, Waits
    <2>3. ASSUME NEW f \in Files PROVE copy[f] # Absent /\ IsPrefix(file[f], copy[f])
      <3>1. Brought(f)
        BY <2>1 DEF Progress, FileReached, Waits
      <3>2. file[f] \in Seq(Byte) /\ file[f] # Absent
        BY <2>1, ContentsBytes
      <3>3. copy[f] = file[f] => IsPrefix(file[f], copy[f])
        BY <3>2 DEF IsPrefix
      <3> QED
        BY <3>1, <3>2, <3>3 DEF Brought, Collision
    <2> QED
      BY <2>2, <2>3
  <1> QED
    BY <1>1, <1>2, <1>3, TransferInvariance, PTL DEF Spec

================================================================================
