------------------------------ MODULE LedgerProofs -----------------------------
(***************************************************************************)
(* What holds of the tables of transactions, of the books, of the lookup   *)
(* of wallets and of the reports, for any wallets, coins and balances, any *)
(* file of transactions and any commands.                                  *)
(***************************************************************************)
EXTENDS LedgerReports, SumProofs, SequenceTheorems, TLAPS

Entries == [id : Nat, from : Wallets, to : Wallets, value : Int, date : Int]

\* Both tables are lists of transactions.
TablesTyped == /\ senderHT \in [Wallets -> Seq(Entries)]
               /\ receiverHT \in [Wallets -> Seq(Entries)]
               /\ maxID \in Nat

\* newID stays above every ID in use, those of the file included, which come
\* in any order.
IDsBelow == \A t \in Recorded : t.id <= maxID

\* The inductive invariant.
IDInv == TablesTyped /\ IDsBelow /\ IDsUnique

--------------------------------------------------------------------------------

\* The dates of commands are numbers, also those that ReadDates shifts.
LEMMA DatesTyped == TypedDates \subseteq Int /\ ReadDates \subseteq Int
  <1>1. DayLength \in Nat \ {0}
    BY LedgerAssumption DEF DayLength
  <1>2. ASSUME NEW date \in Dates PROVE date - tm_mday(date) * DayLength \in Int
    <2>1. date \in Nat /\ DaysPerMonth \in Nat \ {0}
      BY LedgerAssumption
    <2>2. date \div DayLength \in Int
      BY <1>1, <2>1
    <2>3. tm_mday(date) \in Int
      BY <2>1, <2>2 DEF tm_mday
    <2> QED
      BY <1>1, <2>1, <2>3
  <1> QED
    BY <1>2, LedgerAssumption DEF TypedDates, ReadDates, NoDate

\* One more transaction in a list.
LEMMA AppendEntries ==
  ASSUME NEW s \in Seq(Entries), NEW t \in Entries
  PROVE  /\ Append(s, t) \in Seq(Entries)
         /\ ToSet(Append(s, t)) = ToSet(s) \cup {t}
         /\ Len(Append(s, t)) = Len(s) + 1
         /\ \A k \in 1 .. Len(s) : Append(s, t)[k] = s[k]
         /\ Append(s, t)[Len(s) + 1] = t
  <1>1. /\ Append(s, t) \in Seq(Entries)
        /\ Len(Append(s, t)) = Len(s) + 1
        /\ \A k \in 1 .. Len(s) : Append(s, t)[k] = s[k]
        /\ Append(s, t)[Len(s) + 1] = t
    OBVIOUS
  <1>2. /\ DOMAIN Append(s, t) = 1 .. Len(s) + 1 /\ DOMAIN s = 1 .. Len(s)
        /\ Len(s) \in Nat
    BY <1>1
  <1>3. ToSet(Append(s, t)) = ToSet(s) \cup {t}
    BY <1>1, <1>2 DEF ToSet
  <1> QED
    BY <1>1, <1>3

\* All transactions of a table.
AllOf(table) == UNION {ToSet(table[w]) : w \in Wallets}

\* One more transaction in one of the lists of a table.
LEMMA TableGrows ==
  ASSUME NEW table \in [Wallets -> Seq(Entries)], NEW w \in Wallets, NEW t \in Entries,
         NEW new, new = [table EXCEPT ![w] = Append(@, t)]
  PROVE  new \in [Wallets -> Seq(Entries)] /\ AllOf(new) = AllOf(table) \cup {t}
  <1>1. new \in [Wallets -> Seq(Entries)]
    BY AppendEntries
  <1>2. new[w] = Append(table[w], t) /\ \A v \in Wallets \ {w} : new[v] = table[v]
    OBVIOUS
  <1>3. ToSet(new[w]) = ToSet(table[w]) \cup {t}
    BY <1>2, AppendEntries
  <1>4. ASSUME NEW e
        PROVE  (\E v \in Wallets : e \in ToSet(new[v]))
               <=> (\E v \in Wallets : e \in ToSet(table[v])) \/ e = t
    BY <1>2, <1>3
  <1>5. AllOf(new) = AllOf(table) \cup {t}
    BY <1>4, Zenon DEF AllOf
  <1> QED
    BY <1>1, <1>5

\* A transaction with an ID of its own keeps the tables in order.
LEMMA RecordKeeps ==
  ASSUME IDInv, NEW id \in Nat, NEW s \in Wallets, NEW r \in Wallets,
         NEW value \in Int, NEW date \in Int,
         Record(id, s, r, value, date),
         \A t \in Recorded : t.id # id,
         maxID' \in Nat, maxID' >= maxID, maxID' >= id
  PROVE  IDInv'
  <1> DEFINE t == [id |-> id, from |-> s, to |-> r, value |-> value, date |-> date]
  <1>1. t \in Entries /\ t.id = id
    BY DEF Entries
  <1>2. /\ senderHT' = [senderHT EXCEPT ![s] = Append(@, t)]
        /\ receiverHT' = [receiverHT EXCEPT ![r] = Append(@, t)]
    BY DEF Record
  <1> HIDE DEF t
  <1>3. TablesTyped'
    BY <1>1, <1>2, TableGrows DEF TablesTyped, IDInv
  <1>4. /\ AllOf(senderHT') = AllOf(senderHT) \cup {t}
        /\ AllOf(receiverHT') = AllOf(receiverHT) \cup {t}
        /\ Recorded' = Recorded \cup {t}
    <2>0. /\ senderHT \in [Wallets -> Seq(Entries)]
          /\ receiverHT \in [Wallets -> Seq(Entries)]
      BY DEF TablesTyped, IDInv
    <2>1. /\ AllOf(senderHT') = AllOf(senderHT) \cup {t}
          /\ AllOf(receiverHT') = AllOf(receiverHT) \cup {t}
      <3>1. \A table \in [Wallets -> Seq(Entries)] : \A w \in Wallets : \A new :
               new = [table EXCEPT ![w] = Append(@, t)] => AllOf(new) = AllOf(table) \cup {t}
        BY <1>1, TableGrows
      <3>2. AllOf(senderHT') = AllOf(senderHT) \cup {t}
        BY <1>2, <2>0, <3>1, Zenon
      <3>3. AllOf(receiverHT') = AllOf(receiverHT) \cup {t}
        BY <1>2, <2>0, <3>1, Zenon
      <3> QED
        BY <3>2, <3>3
    <2>2. Recorded = AllOf(senderHT) /\ Recorded' = AllOf(senderHT')
      BY Zenon DEF Recorded, AllOf
    <2> QED
      BY <2>1, <2>2
  <1>5. IDsBelow'
    <2>1. ASSUME NEW e \in Recorded PROVE e.id <= maxID'
      <3>1. e \in Entries
        BY DEF Recorded, ToSet, IDInv, TablesTyped
      <3> QED
        BY <3>1 DEF IDInv, IDsBelow, TablesTyped, Entries
    <2> QED
      BY <1>1, <1>4, <2>1 DEF IDsBelow
  <1>6. ASSUME NEW v \in Wallets, NEW w \in Wallets,
               NEW k \in 1 .. Len(senderHT'[v]), NEW m \in 1 .. Len(senderHT'[w]),
               senderHT'[v][k].id = senderHT'[w][m].id
        PROVE  v = w /\ k = m
    <2> DEFINE Old(x, i) == x \in Wallets /\ i \in 1 .. Len(senderHT[x])
                            /\ senderHT'[x][i] = senderHT[x][i]
               New(x, i) == x = s /\ i = Len(senderHT[s]) + 1 /\ senderHT'[x][i] = t
    <2>1. ASSUME NEW x \in Wallets, NEW i \in 1 .. Len(senderHT'[x])
          PROVE  Old(x, i) \/ New(x, i)
      <3>1. CASE x = s
        <4>1. senderHT'[x] = Append(senderHT[s], t) /\ senderHT[s] \in Seq(Entries)
          BY <1>2, <3>1 DEF IDInv, TablesTyped
        <4> QED
          BY <1>1, <3>1, <4>1, AppendEntries
      <3>2. CASE x # s
        BY <1>2, <3>2 DEF IDInv, TablesTyped
      <3> QED
        BY <3>1, <3>2
    <2>2. ASSUME NEW x, NEW i, Old(x, i) PROVE senderHT[x][i].id # id
      <3>1. senderHT[x][i] \in ToSet(senderHT[x])
        BY <2>2 DEF ToSet, IDInv, TablesTyped
      <3> QED
        BY <2>2, <3>1 DEF Recorded
    <2>3. (Old(v, k) \/ New(v, k)) /\ (Old(w, m) \/ New(w, m))
      BY <2>1
    <2>4. CASE Old(v, k) /\ Old(w, m)
      BY <1>6, <2>4 DEF IDInv, IDsUnique
    <2>5. CASE New(v, k) /\ New(w, m)
      BY <2>5
    <2>6. CASE Old(v, k) /\ New(w, m)
      BY <1>1, <1>6, <2>2, <2>6
    <2>7. CASE New(v, k) /\ Old(w, m)
      BY <1>1, <1>6, <2>2, <2>7
    <2> QED
      BY <2>3, <2>4, <2>5, <2>6, <2>7
  <1>7. Recorded = AllOf(receiverHT)
    BY Zenon DEF IDsUnique, IDInv, AllOf
  <1>8. IDsUnique'
    <2>1. Recorded' = AllOf(receiverHT')
      BY <1>4, <1>7
    <2> QED
      BY <1>6, <2>1, Zenon DEF IDsUnique, AllOf
  <1> QED
    BY <1>3, <1>5, <1>8 DEF IDInv

--------------------------------------------------------------------------------

\* IDInv is an invariant: whatever the file holds, and in whatever order.
THEOREM IDInvariance == Spec => []IDInv
  <1>1. Init => IDInv
    <2> SUFFICES ASSUME Init PROVE IDInv
      OBVIOUS
    <2>1. /\ \A w \in Wallets : senderHT[w] = <<>> /\ receiverHT[w] = <<>>
          /\ TablesTyped
      BY DEF Init, TablesTyped, NoTrans
    <2>2. Recorded = {} /\ UNION {ToSet(receiverHT[w]) : w \in Wallets} = {}
      BY <2>1 DEF Recorded, ToSet
    <2> QED
      BY <2>1, <2>2 DEF IDInv, IDsBelow, IDsUnique
  <1>2. IDInv /\ [Next]_vars => IDInv'
    <2> SUFFICES ASSUME IDInv, [Next]_vars PROVE IDInv'
      OBVIOUS
    <2>1. CASE FileTransaction
      <3>1. PICK s \in Wallets, r \in Wallets, id \in 1 .. MaxID, date \in Dates :
               \E value \in 0 .. amount[s] + 1 :
                  /\ \A t \in Recorded : t.id # id
                  /\ Record(id, s, r, value, date)
                  /\ maxID' = IF id > maxID THEN id ELSE maxID
        BY <2>1 DEF FileTransaction
      <3>2. PICK value \in 0 .. amount[s] + 1 :
                  /\ \A t \in Recorded : t.id # id
                  /\ Record(id, s, r, value, date)
                  /\ maxID' = IF id > maxID THEN id ELSE maxID
        BY <3>1
      <3>3. id \in Nat /\ date \in Int /\ value \in Int /\ maxID \in Nat
        BY LedgerAssumption DEF IDInv, TablesTyped
      <3>4. maxID' \in Nat /\ maxID' >= maxID /\ maxID' >= id
        BY <3>2, <3>3
      <3> QED
        BY <3>2, <3>3, <3>4, RecordKeeps
    <2>2. CASE requestTransaction
      <3>1. PICK s \in Wallets, r \in Wallets, given \in TypedDates \cup ReadDates,
                 clock \in Dates :
               \E value \in 1 .. amount[s] + 1, id \in 1 .. MaxID :
                  /\ newID(id)
                  /\ Record(id, s, r, value, IF given = NoDate THEN clock ELSE given)
        BY <2>2 DEF requestTransaction
      <3>2. PICK value \in 1 .. amount[s] + 1, id \in 1 .. MaxID :
                  /\ newID(id)
                  /\ Record(id, s, r, value, IF given = NoDate THEN clock ELSE given)
        BY <3>1
      <3> DEFINE date == IF given = NoDate THEN clock ELSE given
      <3>3. id \in Nat /\ date \in Int /\ value \in Int /\ maxID \in Nat
        BY LedgerAssumption, DatesTyped DEF IDInv, TablesTyped
      <3>4. id = maxID + 1 /\ maxID' = id
        BY <3>2 DEF newID
      <3>5. ASSUME NEW t \in Recorded PROVE t.id # id
        <4>1. t \in Entries /\ t.id <= maxID
          BY DEF Recorded, ToSet, IDInv, TablesTyped, IDsBelow
        <4> QED
          BY <3>3, <3>4, <4>1 DEF Entries
      <3>6. maxID' \in Nat /\ maxID' >= maxID /\ maxID' >= id
        BY <3>3, <3>4
      <3> HIDE DEF date
      <3>7. Record(id, s, r, value, date)
        BY <3>2 DEF date
      <3> QED
        BY <3>3, <3>5, <3>6, <3>7, RecordKeeps
    <2>3. CASE EndOfFile \/ makeTransaction \/ UNCHANGED vars
      <3>1. senderHT' = senderHT /\ receiverHT' = receiverHT /\ maxID' = maxID
        BY <2>3 DEF EndOfFile, makeTransaction, makeBCTransaction, AskCoin, FirstUse,
              EnterTree, Descend, VisitLeaf, WalkEnds, CoinSuffices, CoinUsedUp,
              TransactionDone, vars, htVars, idVars
      <3>2. Recorded' = Recorded
        BY <3>1, Zenon DEF Recorded
      <3>3. TablesTyped' /\ IDsBelow'
        BY <3>1, <3>2 DEF IDInv, TablesTyped, IDsBelow
      <3>4. IDsUnique'
        BY <3>1, <3>2 DEF IDInv, IDsUnique
      <3> QED
        BY <3>3, <3>4 DEF IDInv
    <2> QED
      BY <2>1, <2>2, <2>3 DEF Next
  <1> QED
    BY <1>1, <1>2, PTL DEF Spec

\* Two transactions never share an ID, and what the table of senders holds the
\* table of receivers holds as well (addTransaction, newID).
THEOREM IDsCorrect == Spec => []IDsUnique
  BY IDInvariance, PTL DEF IDInv

--------------------------------------------------------------------------------
(* The three books.  A tree is taken as a value here, so that the same can be  *)
(* said of the tree before and after a transaction has split a leaf.           *)

Paths == Seq({"L", "R"})

Items == [coin : Coins, amountOf : Nat]

\* What a tree is: with a node the way there, with a left child a right one.
Grown(tr) ==
    /\ DOMAIN tr \subseteq Paths /\ IsFiniteSet(DOMAIN tr) /\ Root \in DOMAIN tr
    /\ \A n \in DOMAIN tr :
          /\ tr[n] \in Nodes
          /\ \A k \in 0 .. Len(n) : SubSeq(n, 1, k) \in DOMAIN tr
          /\ Left(n) \in DOMAIN tr => Right(n) \in DOMAIN tr

\* The leaves among some nodes that belong to some wallets, and their sum.
Theirs(tr, A, W) == {n \in Leaves(tr) : n \in A /\ tr[n].owner \in W}

Held(tr, A, W) == SumFunction([n \in Theirs(tr, A, W) |-> tr[n].amount])

\* What a list of items says of a coin.
Said(items, c) == SumFunction([k \in {k \in 1 .. Len(items) : items[k].coin = c} |->
                                 items[k].amountOf])

\* A list has one item at most for a coin.
Once(items) == \A j, k \in 1 .. Len(items) : items[j].coin = items[k].coin => j = k

Wealth(w) == SumFunction([c \in Coins |-> Said(bcl[w], c)])

Running == call.pc # "idle"

\* A coin is at hand.
AtCoin == call.pc \in {"coin", "walk", "return"}

CallType == [pc : {"list", "coin", "walk", "return"}, sndr : Wallets, rcvr : Wallets,
             amount : Nat, id : 0 .. MaxID, tmpAmount : Nat, at : {1}, want : Nat,
             moved : Nat, node : Paths]

CallTyped ==
    IF Running
    THEN /\ call \in CallType
         /\ call.sndr # call.rcvr
         /\ call.tmpAmount <= call.amount /\ call.amount <= amount[call.sndr]
    ELSE call = NoCall

BooksTyped ==
    /\ amount \in [Wallets -> Nat]
    /\ bcl \in [Wallets -> Seq(Items)] /\ \A w \in Wallets : Once(bcl[w])
    /\ DOMAIN tree = Coins /\ tree = [c \in Coins |-> tree[c]]
    /\ \A c \in Coins : Grown(tree[c])
    /\ numOfTransactions \in [Coins -> Nat]

\* What the tree is ahead of the list with, for a wallet and a coin.
Ahead(w, c) == IF AtCoin /\ c = Coin
               THEN IF w = call.rcvr THEN call.moved
                    ELSE IF w = call.sndr THEN 0 - call.moved ELSE 0
               ELSE 0

\* What the lists are ahead of the balances with.
Booked(w) == IF w = call.rcvr THEN call.amount - call.tmpAmount
             ELSE IF w = call.sndr THEN call.tmpAmount - call.amount ELSE 0

\* The lists follow the trees, and the balances follow the lists.
Books ==
    /\ \A c \in Coins : Held(tree[c], Paths, Wallets) = bitCoinValue
    /\ \A w \in Wallets, c \in Coins :
          Held(tree[c], Paths, {w}) = Said(bcl[w], c) + Ahead(w, c)
    /\ \A w \in Wallets : Wealth(w) = amount[w] + Booked(w)
    /\ \A w \in Wallets : \A k \in 1 .. Len(bcl[w]) :
          bcl[w][k].amountOf = 0 => Right(Root) \in DOMAIN tree[bcl[w][k].coin]

\* The nodes that the walk has still to come to: those at and below its node,
\* and those to the right of the way there.
RightOf(node) == {n \in Paths : \E k \in 1 .. Len(node) :
                    /\ node[k] = "L" /\ k <= Len(n) /\ n[k] = "R"
                    /\ \A j \in 1 .. k - 1 : n[j] = node[j]}
AtOrBelow(node) == {n \in Paths : Len(node) <= Len(n) /\ \A j \in 1 .. Len(node) : n[j] = node[j]}
ToCome(node) == AtOrBelow(node) \cup RightOf(node)

\* The coin at hand is asked for no more than there is, and the walk finds it.
Walked ==
    AtCoin =>
      /\ bcl[call.sndr] # <<>> /\ call.tmpAmount > 0
      /\ call.want = IF Item.amountOf <= call.tmpAmount THEN Item.amountOf ELSE call.tmpAmount
      /\ call.pc = "coin" => call.moved = 0
      /\ call.pc # "coin" => Right(Root) \in DOMAIN Tree
      /\ call.pc = "return" => call.moved = call.want
      /\ call.pc = "walk" =>
            /\ call.node \in DOMAIN Tree /\ call.moved <= call.want
            /\ IF call.node = Root THEN call.moved = call.want
               ELSE call.want - call.moved <= Held(Tree, ToCome(call.node), {call.sndr})

\* The inductive invariant.
BooksInv == CallTyped /\ BooksTyped /\ Books /\ Walked

\* The children of a node.
LEMMA Children ==
  ASSUME NEW n \in Paths
  PROVE  /\ Left(n) \in Paths /\ Right(n) \in Paths /\ Left(n) # Right(n)
         /\ Len(Left(n)) = Len(n) + 1 /\ Len(Right(n)) = Len(n) + 1 /\ Len(n) \in Nat
         /\ Left(n)[Len(n) + 1] = "L" /\ Right(n)[Len(n) + 1] = "R"
         /\ \A j \in 1 .. Len(n) : Left(n)[j] = n[j] /\ Right(n)[j] = n[j]
         /\ Left(n) # n /\ Right(n) # n /\ Left(n) # Root /\ Right(n) # Root
  BY DEF Paths, Left, Right, Root

\* A child has one parent.
LEMMA OneParent ==
  ASSUME NEW m \in Paths, NEW n \in Paths
  PROVE  /\ Left(m) # Right(n)
         /\ Left(m) = Left(n) => m = n
         /\ Right(m) = Right(n) => m = n
  <1>1. Left(m) # Right(n)
    <2>1. SUFFICES ASSUME Left(m) = Right(n) PROVE FALSE
      OBVIOUS
    <2>2. Len(m) = Len(n) /\ Left(m)[Len(m) + 1] = "L" /\ Right(n)[Len(n) + 1] = "R"
      BY <2>1, Children
    <2> QED
      BY <2>1, <2>2
  <1>2. ASSUME NEW a \in Paths, NEW b \in Paths, Len(a) = Len(b),
               \A j \in 1 .. Len(a) : a[j] = b[j]
        PROVE  a = b
    BY <1>2 DEF Paths
  <1>3. Left(m) = Left(n) => m = n
    <2>1. SUFFICES ASSUME Left(m) = Left(n) PROVE m = n
      OBVIOUS
    <2>2. Len(m) = Len(n) /\ \A j \in 1 .. Len(m) : Left(m)[j] = m[j] /\ Left(n)[j] = n[j]
      BY <2>1, Children
    <2> QED
      BY <1>2, <2>1, <2>2
  <1>4. Right(m) = Right(n) => m = n
    <2>1. SUFFICES ASSUME Right(m) = Right(n) PROVE m = n
      OBVIOUS
    <2>2. Len(m) = Len(n) /\ \A j \in 1 .. Len(m) : Right(m)[j] = m[j] /\ Right(n)[j] = n[j]
      BY <2>1, Children
    <2> QED
      BY <1>2, <2>1, <2>2
  <1> QED
    BY <1>1, <1>3, <1>4

\* The way to a child leads through its parent.
LEMMA WayThere ==
  ASSUME NEW n \in Paths, NEW e \in {"L", "R"}, NEW k \in 0 .. Len(n) + 1
  PROVE  SubSeq(Append(n, e), 1, k) = IF k = Len(n) + 1 THEN Append(n, e) ELSE SubSeq(n, 1, k)
  BY DEF Paths

HasSplit(tr, node, take, new) ==
    /\ DOMAIN new = DOMAIN tr \cup {Right(node)} \cup
                    (IF tr[node].amount > take THEN {Left(node)} ELSE {})
    /\ \A n \in DOMAIN tr : new[n] = tr[n]
    /\ new[Right(node)] = [owner |-> call.rcvr, amount |-> take, trans |-> call.id]
    /\ tr[node].amount > take =>
          new[Left(node)] = [owner |-> tr[node].owner, amount |-> tr[node].amount - take,
                             trans |-> call.id]

\* What Split makes of a leaf: one or two children.
LEMMA SplitShape ==
  ASSUME NEW tr, NEW node, NEW take, NEW new, new = Split(tr, node, take),
         tr[node].amount \in Nat, take \in Nat,
         Right(node) \notin DOMAIN tr, Left(node) \notin DOMAIN tr, Left(node) # Right(node)
  PROVE  HasSplit(tr, node, take, new)
  <1>1. PICK l, r, lv, rv :
           /\ l = Left(node) /\ r = Right(node)
           /\ rv = [owner |-> call.rcvr, amount |-> take, trans |-> call.id]
           /\ lv = [owner |-> tr[node].owner, amount |-> tr[node].amount - take,
                    trans |-> call.id]
    OBVIOUS
  <1>2. tr[node].amount - take > 0 <=> tr[node].amount > take
    OBVIOUS
  <1>3. PICK D : D = DOMAIN tr \cup {r} \cup (IF tr[node].amount > take THEN {l} ELSE {})
    OBVIOUS
  <1>4. new = [n \in D |-> IF n = r THEN rv ELSE IF n = l THEN lv ELSE tr[n]]
    BY <1>1, <1>2, <1>3 DEF Split
  <1>5. l # r /\ l \notin DOMAIN tr /\ r \notin DOMAIN tr
    BY <1>1
  <1>6. DOMAIN new = D /\ new[r] = rv /\ \A n \in DOMAIN tr : new[n] = tr[n]
    BY <1>3, <1>4, <1>5
  <1>7. tr[node].amount > take => new[l] = lv
    BY <1>3, <1>4, <1>5
  <1> QED
    BY <1>1, <1>3, <1>6, <1>7 DEF HasSplit

\* A leaf has no children and nothing below it.
LEMMA LeafFacts ==
  ASSUME NEW tr, Grown(tr), NEW node \in Leaves(tr)
  PROVE  /\ node \in DOMAIN tr /\ node \in Paths /\ tr[node] \in Nodes
         /\ Left(node) \notin DOMAIN tr /\ Right(node) \notin DOMAIN tr
         /\ Left(node) \in Paths /\ Right(node) \in Paths /\ Left(node) # Right(node)
  BY Children DEF Grown, Leaves, IsLeaf

\* The tree after a leaf was split is a tree, and these are its leaves.
LEMMA SplitGrown ==
  ASSUME NEW tr, Grown(tr), NEW node \in Leaves(tr), NEW take \in Nat \ {0},
         take <= tr[node].amount, call.rcvr \in Wallets, call.id \in 0 .. MaxID,
         NEW new, new = Split(tr, node, take)
  PROVE  /\ Grown(new)
         /\ Leaves(new) = (Leaves(tr) \ {node}) \cup {Right(node)} \cup
                          (IF tr[node].amount > take THEN {Left(node)} ELSE {})
  <1>1. /\ node \in DOMAIN tr /\ node \in Paths /\ tr[node] \in Nodes
        /\ Left(node) \notin DOMAIN tr /\ Right(node) \notin DOMAIN tr
        /\ Left(node) \in Paths /\ Right(node) \in Paths /\ Left(node) # Right(node)
    BY LeafFacts
  <1>2. PICK l, r : l = Left(node) /\ r = Right(node)
    OBVIOUS
  <1>3. PICK more : more = IF tr[node].amount > take THEN {l} ELSE {}
    OBVIOUS
  <1>4. tr[node].amount \in Nat /\ tr[node].owner \in Wallets
    BY <1>1 DEF Nodes
  <1>5. /\ DOMAIN new = DOMAIN tr \cup {r} \cup more
        /\ \A n \in DOMAIN tr : new[n] = tr[n]
        /\ new[r] = [owner |-> call.rcvr, amount |-> take, trans |-> call.id]
        /\ l \in more => new[l] = [owner |-> tr[node].owner, amount |-> tr[node].amount - take,
                                   trans |-> call.id]
    <2>1. HasSplit(tr, node, take, new)
      BY <1>1, <1>4, SplitShape
    <2> QED
      BY <1>2, <1>3, <2>1 DEF HasSplit
  <1>6. l \in Paths /\ r \in Paths /\ more \subseteq {l} /\ l \notin DOMAIN tr /\ r \notin DOMAIN tr
    BY <1>1, <1>2, <1>3
  <1>7. new[r] \in Nodes /\ (l \in more => new[l] \in Nodes)
    BY <1>1, <1>3, <1>4, <1>5, LedgerAssumption DEF Nodes
  <1>8. IsFiniteSet(DOMAIN new)
    <2>1. IsFiniteSet(DOMAIN tr)
      BY DEF Grown
    <2>2. IsFiniteSet(DOMAIN tr \cup {r})
      BY <2>1, FS_AddElement
    <2>3. IsFiniteSet((DOMAIN tr \cup {r}) \cup {l})
      BY <2>2, FS_AddElement
    <2>4. DOMAIN new \in SUBSET ((DOMAIN tr \cup {r}) \cup {l})
      BY <1>5, <1>6
    <2> QED
      BY <2>3, <2>4, FS_Subset
  <1>9. ASSUME NEW n \in DOMAIN new, NEW k \in 0 .. Len(n) PROVE SubSeq(n, 1, k) \in DOMAIN new
    <2>1. CASE n \in DOMAIN tr
      BY <1>5, <2>1 DEF Grown
    <2>2. CASE n \notin DOMAIN tr
      <3>1. PICK e \in {"L", "R"} : n = Append(node, e)
        BY <1>2, <1>3, <1>5, <2>2 DEF Left, Right
      <3>2. Len(n) = Len(node) + 1 /\ Len(node) \in Nat
        BY <1>1, <3>1 DEF Paths
      <3>3. SubSeq(n, 1, k) = IF k = Len(node) + 1 THEN n ELSE SubSeq(node, 1, k)
        BY <1>1, <3>1, <3>2, WayThere
      <3>4. CASE k = Len(node) + 1
        BY <3>3, <3>4
      <3>5. CASE k # Len(node) + 1
        <4>1. k \in 0 .. Len(node)
          BY <3>2, <3>5
        <4>2. SubSeq(node, 1, k) \in DOMAIN tr
          BY <1>1, <4>1 DEF Grown
        <4> QED
          BY <1>5, <3>3, <3>5, <4>2
      <3> QED
        BY <3>4, <3>5
    <2> QED
      BY <2>1, <2>2
  <1>10. ASSUME NEW n \in DOMAIN new
         PROVE  /\ n \in Paths /\ new[n] \in Nodes
                /\ Left(n) \in DOMAIN tr => n \in DOMAIN tr
                /\ Right(n) \in DOMAIN tr => n \in DOMAIN tr
    <2>1. n \in Paths
      BY <1>5, <1>6 DEF Grown
    <2>2. new[n] \in Nodes
      BY <1>5, <1>6, <1>7 DEF Grown
    <2>3. ASSUME NEW e \in {"L", "R"}, Append(n, e) \in DOMAIN tr PROVE n \in DOMAIN tr
      <3>1. Len(n) \in 0 .. Len(Append(n, e))
        BY <2>1 DEF Paths
      <3>2. SubSeq(Append(n, e), 1, Len(n)) = n
        BY <2>1 DEF Paths
      <3>3. SubSeq(Append(n, e), 1, Len(n)) \in DOMAIN tr
        BY <2>3, <3>1 DEF Grown
      <3> QED
        BY <3>2, <3>3
    <2> QED
      BY <2>1, <2>2, <2>3 DEF Left, Right
  <1>11. ASSUME NEW n \in DOMAIN new
         PROVE  /\ Right(n) \in DOMAIN new <=> Right(n) \in DOMAIN tr \/ n = node
                /\ Left(n) \in DOMAIN new <=> Left(n) \in DOMAIN tr \/ (n = node /\ l \in more)
    <2>1. n \in Paths
      BY <1>10
    <2>2. /\ Right(n) = r <=> n = node
          /\ Left(n) = l <=> n = node
          /\ Left(n) # r /\ Right(n) # l
      BY <1>1, <1>2, <2>1, OneParent
    <2> QED
      BY <1>5, <1>6, <2>2
  <1>12. ASSUME NEW n \in DOMAIN new, Left(n) \in DOMAIN new PROVE Right(n) \in DOMAIN new
    BY <1>1, <1>10, <1>11, <1>12 DEF Grown
  <1>13. Grown(new)
    BY <1>5, <1>8, <1>9, <1>10, <1>12 DEF Grown
  <1>14. ASSUME NEW n \in DOMAIN tr
         PROVE  IsLeaf(new, n) <=> IsLeaf(tr, n) /\ n # node
    BY <1>1, <1>5, <1>11 DEF IsLeaf
  <1>15. ASSUME NEW n \in DOMAIN new, n \notin DOMAIN tr PROVE IsLeaf(new, n)
    BY <1>1, <1>10, <1>11, <1>15 DEF IsLeaf
  <1>16. Leaves(new) = (Leaves(tr) \ {node}) \cup {r} \cup more
    BY <1>5, <1>6, <1>14, <1>15 DEF Leaves
  <1> QED
    BY <1>2, <1>3, <1>13, <1>16

\* The sum over leaves is a number, and each of the leaves is in it.
LEMMA HeldTyped ==
  ASSUME NEW tr, Grown(tr), NEW A, NEW W
  PROVE  /\ IsFiniteSet(Theirs(tr, A, W))
         /\ \A n \in Theirs(tr, A, W) : tr[n].amount \in Nat
         /\ Held(tr, A, W) \in Nat
         /\ Theirs(tr, A, W) = {} => Held(tr, A, W) = 0
         /\ \A n \in Theirs(tr, A, W) : tr[n].amount <= Held(tr, A, W)
  <1>1. PICK D : D = Theirs(tr, A, W)
    OBVIOUS
  <1>2. IsFiniteSet(D)
    BY <1>1, FS_Subset DEF Grown, Theirs, Leaves
  <1>3. \A n \in D : tr[n].amount \in Nat
    BY <1>1 DEF Grown, Theirs, Leaves, Nodes
  <1>4. PICK F : F = [n \in D |-> tr[n].amount]
    OBVIOUS
  <1>5. F \in [D -> Nat] /\ F \in [D -> Int] /\ \A n \in D : F[n] = tr[n].amount
    BY <1>3, <1>4
  <1>6. SumFunction(F) \in Nat /\ \A d \in D : F[d] <= SumFunction(F)
    BY <1>2, <1>5, SumIsNat
  <1>7. D = {} => SumFunction(F) = 0
    BY <1>2, <1>5, SumIsInt
  <1>8. Held(tr, A, W) = SumFunction(F)
    BY <1>1, <1>4 DEF Held
  <1> QED
    BY <1>1, <1>2, <1>3, <1>5, <1>6, <1>7, <1>8

\* What a leaf contributes to the sum.
Part(tr, n, A, W) == IF n \in A /\ tr[n].owner \in W THEN tr[n].amount ELSE 0

\* A leaf is taken out of the sum.
LEMMA HeldPeel ==
  ASSUME NEW tr, Grown(tr), NEW A, NEW W, NEW n \in Leaves(tr)
  PROVE  Held(tr, A, W) = Held(tr, A \ {n}, W) + Part(tr, n, A, W)
  <1>1. PICK D : D = Theirs(tr, A, W)
    OBVIOUS
  <1>2. D \ {n} = Theirs(tr, A \ {n}, W) /\ (n \in D <=> n \in A /\ tr[n].owner \in W)
    BY <1>1 DEF Theirs
  <1>3. IsFiniteSet(D) /\ \A m \in D : tr[m].amount \in Nat
    BY <1>1, HeldTyped
  <1>4. PICK F : F = [m \in D |-> tr[m].amount]
    OBVIOUS
  <1>5. PICK G : G = [m \in D \ {n} |-> tr[m].amount]
    OBVIOUS
  <1>6. Held(tr, A, W) = SumFunction(F) /\ Held(tr, A \ {n}, W) = SumFunction(G)
    BY <1>1, <1>2, <1>4, <1>5 DEF Held
  <1>7. CASE n \in D
    <2>1. F \in [D -> Int] /\ G \in [D \ {n} -> Int] /\ \A m \in D \ {n} : G[m] = F[m]
      BY <1>3, <1>4, <1>5
    <2>2. SumFunction(F) = SumFunction(G) + F[n]
      <3>1. IsFiniteSet(D)
        BY <1>3
      <3> QED
        BY <1>7, <2>1, <3>1, SumShrinks
    <2> QED
      BY <1>2, <1>4, <1>6, <1>7, <2>2 DEF Part
  <1>8. CASE n \notin D
    <2>1. D \ {n} = D
      BY <1>8
    <2>2. G = F
      BY <1>4, <1>5, <2>1
    <2>3. Held(tr, A, W) \in Nat
      BY HeldTyped
    <2> QED
      BY <1>2, <1>6, <1>8, <2>2, <2>3 DEF Part
  <1> QED
    BY <1>7, <1>8

\* The same leaves with the same amounts have the same sum.
LEMMA HeldSame ==
  ASSUME NEW tr, NEW new, NEW A, NEW B, NEW W, NEW V, Theirs(new, B, V) = Theirs(tr, A, W),
         \A n \in Theirs(tr, A, W) : new[n] = tr[n]
  PROVE  Held(new, B, V) = Held(tr, A, W)
  <1>1. [n \in Theirs(new, B, V) |-> new[n].amount] = [n \in Theirs(tr, A, W) |-> tr[n].amount]
    OBVIOUS
  <1> QED
    BY <1>1 DEF Held

\* The sum over any leaves after one was split.
LEMMA SplitHeld ==
  ASSUME NEW tr, Grown(tr), NEW node \in Leaves(tr), NEW take \in Nat \ {0},
         take <= tr[node].amount, call.rcvr \in Wallets, call.id \in 0 .. MaxID,
         NEW new, new = Split(tr, node, take), NEW A, NEW W
  PROVE  Held(new, A, W) =
            Held(tr, A, W) - Part(tr, node, A, W)
            + (IF Right(node) \in A /\ call.rcvr \in W THEN take ELSE 0)
            + (IF Left(node) \in A /\ tr[node].owner \in W THEN tr[node].amount - take ELSE 0)
  <1>1. /\ node \in DOMAIN tr /\ node \in Paths /\ tr[node] \in Nodes
        /\ Left(node) \notin DOMAIN tr /\ Right(node) \notin DOMAIN tr
        /\ Left(node) \in Paths /\ Right(node) \in Paths /\ Left(node) # Right(node)
    BY LeafFacts
  <1>2. tr[node].amount \in Nat /\ tr[node].owner \in Wallets
    BY <1>1 DEF Nodes
  <1>3. HasSplit(tr, node, take, new)
    BY <1>1, <1>2, SplitShape
  <1>4. /\ Grown(new)
        /\ Leaves(new) = (Leaves(tr) \ {node}) \cup {Right(node)} \cup
                          (IF tr[node].amount > take THEN {Left(node)} ELSE {})
    BY SplitGrown
  <1>5. PICK l, r : l = Left(node) /\ r = Right(node)
    OBVIOUS
  <1>6. PICK B : B = A \ {r}
    OBVIOUS
  <1>7. Held(new, A, W) = Held(new, B, W) + Part(new, r, A, W)
    BY <1>4, <1>5, <1>6, HeldPeel
  <1>8. Part(new, r, A, W) = IF r \in A /\ call.rcvr \in W THEN take ELSE 0
    BY <1>3, <1>5 DEF HasSplit, Part
  <1>9. PICK C : C = B \ {l}
    OBVIOUS
  <1>10. Held(new, B, W) = Held(new, C, W) + (IF l \in A /\ tr[node].owner \in W
                                              THEN tr[node].amount - take ELSE 0)
    <2>1. l \in B <=> l \in A
      BY <1>1, <1>5, <1>6
    <2>2. CASE tr[node].amount > take
      <3>1. l \in Leaves(new) /\ new[l].owner = tr[node].owner
            /\ new[l].amount = tr[node].amount - take
        BY <1>3, <1>4, <1>5, <2>2 DEF HasSplit
      <3>2. Held(new, B, W) = Held(new, C, W) + Part(new, l, B, W)
        BY <1>4, <1>9, <3>1, HeldPeel
      <3> QED
        BY <2>1, <3>1, <3>2 DEF Part
    <2>3. CASE ~(tr[node].amount > take)
      <3>1. tr[node].amount - take = 0
        BY <1>2, <2>3
      <3>2. l \notin Leaves(new)
        BY <1>1, <1>4, <1>5, <2>3 DEF Leaves
      <3>3. Theirs(new, C, W) = Theirs(new, B, W)
        BY <1>9, <3>2 DEF Theirs
      <3>4. Held(new, C, W) = Held(new, B, W)
        BY <3>3, HeldSame
      <3>5. Held(new, B, W) \in Nat
        BY <1>4, HeldTyped
      <3> QED
        BY <3>1, <3>4, <3>5
    <2> QED
      BY <2>2, <2>3
  <1>11. PICK E : E = A \ {node}
    OBVIOUS
  <1>12. Held(tr, A, W) = Held(tr, E, W) + Part(tr, node, A, W)
    BY <1>11, HeldPeel
  <1>13. Held(new, C, W) = Held(tr, E, W)
    <2>1. \A n \in DOMAIN tr : new[n] = tr[n]
      BY <1>3 DEF HasSplit
    <2>2. \A n : n \in Leaves(new) /\ n \in C <=> n \in Leaves(tr) /\ n \in E
      <3>1. l \notin Leaves(tr) /\ r \notin Leaves(tr) /\ l # node /\ r # node
        BY <1>1, <1>5 DEF Leaves
      <3>2. ASSUME NEW n, n # l, n # r PROVE n \in Leaves(new) <=> n \in Leaves(tr) /\ n # node
        BY <1>4, <1>5, <3>2
      <3> QED
        BY <1>6, <1>9, <1>11, <3>1, <3>2
    <2>3. \A n \in Leaves(tr) : n \in DOMAIN tr
      BY DEF Leaves
    <2>4. Theirs(new, C, W) = Theirs(tr, E, W) /\ \A n \in Theirs(tr, E, W) : new[n] = tr[n]
      BY <2>1, <2>2, <2>3 DEF Theirs
    <2> QED
      BY <2>4, HeldSame
  <1>14. PICK h \in Nat : h = Held(tr, E, W)
    BY HeldTyped
  <1>15. Part(tr, node, A, W) \in Nat
    BY <1>2 DEF Part
  <1> QED
    BY <1>2, <1>5, <1>7, <1>8, <1>10, <1>12, <1>13, <1>14, <1>15

\* A list with one item at most for a coin says of it what that item says.
LEMMA SaidIs ==
  ASSUME NEW items \in Seq(Items), Once(items), NEW c
  PROVE  /\ Said(items, c) \in Nat
         /\ \A k \in 1 .. Len(items) : items[k].coin = c => Said(items, c) = items[k].amountOf
         /\ (\A k \in 1 .. Len(items) : items[k].coin # c) => Said(items, c) = 0
  <1>1. PICK D : D = {k \in 1 .. Len(items) : items[k].coin = c}
    OBVIOUS
  <1>2. PICK F : F = [k \in D |-> items[k].amountOf]
    OBVIOUS
  <1>3. Said(items, c) = SumFunction(F)
    BY <1>1, <1>2 DEF Said
  <1>4. \A k \in D : items[k].amountOf \in Nat
    <2>1. \A k \in D : items[k] \in Items
      BY <1>1
    <2> QED
      BY <2>1 DEF Items
  <1>5. F \in [D -> Nat] /\ F \in [D -> Int] /\ \A k \in D : F[k] = items[k].amountOf
    BY <1>2, <1>4
  <1>6. IsFiniteSet({})
    BY FS_EmptySet
  <1>7. CASE D = {}
    <2>1. SumFunction(F) = 0
      BY <1>5, <1>6, <1>7, SumIsInt
    <2> QED
      BY <1>1, <1>3, <1>7, <2>1
  <1>8. ASSUME NEW k \in D PROVE SumFunction(F) = items[k].amountOf
    <2>1. D = {k}
      BY <1>1 DEF Once
    <2>2. F \in [{k} -> Int]
      BY <1>5, <2>1
    <2>3. SumFunction(F) = F[k]
      BY <2>2, SumSingle
    <2> QED
      BY <1>5, <2>3
  <1>9. CASE D # {}
    <2>1. PICK k \in D : TRUE
      BY <1>9
    <2> QED
      BY <1>1, <1>3, <1>4, <1>8, <2>1
  <1> QED
    BY <1>7, <1>9

\* The same for an item that is there.
LEMMA SaidItem ==
  ASSUME NEW items \in Seq(Items), Once(items), NEW k \in 1 .. Len(items), NEW c,
         items[k].coin = c
  PROVE  Said(items, c) = items[k].amountOf
  BY SaidIs

\* What addToBCList makes of a list.
MoreItem(items, c, value, new) ==
    /\ new \in Seq(Items) /\ Once(new)
    /\ Said(new, c) = Said(items, c) + value
    /\ \A d : d # c => Said(new, d) = Said(items, d)
    /\ \A k \in 1 .. Len(new) :
          new[k].coin = c \/ \E j \in 1 .. Len(items) : new[k] = items[j]

LEMMA AddedItem ==
  ASSUME NEW items \in Seq(Items), Once(items), NEW c \in Coins, NEW value \in Nat,
         NEW new, new = addToBCList(items, c, value)
  PROVE  MoreItem(items, c, value, new)
  <1> SUFFICES
         /\ new \in Seq(Items) /\ Once(new)
         /\ Said(new, c) = Said(items, c) + value
         /\ \A d : d # c => Said(new, d) = Said(items, d)
         /\ \A k \in 1 .. Len(new) :
               new[k].coin = c \/ \E j \in 1 .. Len(items) : new[k] = items[j]
    BY DEF MoreItem
  <1>1. CASE \E k \in 1 .. Len(items) : items[k].coin = c
    <2>1. PICK j \in 1 .. Len(items) : items[j].coin = c
      BY <1>1
    <2>2. \A k \in 1 .. Len(items) : items[k].coin = c <=> k = j
      BY <2>1 DEF Once
    <2>3. new = [k \in 1 .. Len(items) |->
                   IF items[k].coin = c THEN [items[k] EXCEPT !.amountOf = @ + value]
                   ELSE items[k]]
      BY <1>1 DEF addToBCList
    <2>4. PICK e \in Items : e = [items[j] EXCEPT !.amountOf = @ + value]
      <3>1. PICK i \in Items : i = items[j]
        OBVIOUS
      <3>2. i.amountOf + value \in Nat
        BY DEF Items
      <3>3. [i EXCEPT !.amountOf = @ + value] \in Items
        BY <3>2 DEF Items
      <3> QED
        BY <3>1, <3>3, Zenon
    <2>5. e.coin = c /\ e.amountOf = items[j].amountOf + value
      BY <2>1, <2>4 DEF Items
    <2>6. new = [k \in 1 .. Len(items) |-> IF k = j THEN e ELSE items[k]]
      BY <2>2, <2>3, <2>4
    <2>7. new \in Seq(Items) /\ Len(new) = Len(items) /\ new[j] = e
          /\ \A k \in 1 .. Len(items) : k # j => new[k] = items[k]
      BY <2>6
    <2>8. \A k \in 1 .. Len(items) : new[k].coin = items[k].coin
      BY <2>1, <2>5, <2>7
    <2>9. Once(new)
      BY <2>7, <2>8 DEF Once
    <2>10. Said(new, c) = Said(items, c) + value
      <3>1. Said(new, c) = e.amountOf
        BY <2>5, <2>7, <2>9, SaidIs
      <3>2. Said(items, c) = items[j].amountOf
        BY <2>1, SaidIs
      <3> QED
        BY <2>5, <3>1, <3>2
    <2>11. ASSUME NEW d, d # c PROVE Said(new, d) = Said(items, d)
      <3>1. CASE \E k \in 1 .. Len(items) : items[k].coin = d
        <4>1. PICK k \in 1 .. Len(items) : items[k].coin = d
          BY <3>1
        <4>2. new[k] = items[k] /\ k \in 1 .. Len(new)
          BY <2>1, <2>7, <2>11, <4>1
        <4>3. Said(new, d) = new[k].amountOf
          BY <2>7, <2>9, <4>1, <4>2, SaidIs
        <4>4. Said(items, d) = items[k].amountOf
          BY <4>1, SaidIs
        <4> QED
          BY <4>2, <4>3, <4>4
      <3>2. CASE ~ \E k \in 1 .. Len(items) : items[k].coin = d
        <4>1. \A k \in 1 .. Len(new) : new[k].coin # d
          BY <2>7, <2>8, <3>2
        <4>2. Said(new, d) = 0
          BY <2>7, <2>9, <4>1, SaidIs
        <4>3. Said(items, d) = 0
          BY <3>2, SaidIs
        <4> QED
          BY <4>2, <4>3
      <3> QED
        BY <3>1, <3>2
    <2> QED
      BY <2>5, <2>7, <2>9, <2>10, <2>11
  <1>2. CASE ~ \E k \in 1 .. Len(items) : items[k].coin = c
    <2>1. PICK e \in Items : e = [coin |-> c, amountOf |-> value]
      BY DEF Items
    <2>2. new = Append(items, e) /\ e.coin = c /\ e.amountOf = value
      BY <1>2, <2>1 DEF addToBCList
    <2>3. /\ new \in Seq(Items) /\ Len(new) = Len(items) + 1 /\ new[Len(items) + 1] = e
          /\ \A k \in 1 .. Len(items) : new[k] = items[k]
      BY <2>2
    <2>4. Len(items) \in Nat
      OBVIOUS
    <2>5. ASSUME NEW j \in 1 .. Len(new), NEW k \in 1 .. Len(new), new[j].coin = new[k].coin
          PROVE  j = k
      <3>1. (j \in 1 .. Len(items) \/ j = Len(items) + 1)
            /\ (k \in 1 .. Len(items) \/ k = Len(items) + 1)
        BY <2>3, <2>4
      <3> QED
        BY <1>2, <2>2, <2>3, <2>5, <3>1 DEF Once
    <2>6. Once(new)
      BY <2>5 DEF Once
    <2>7. Said(new, c) = Said(items, c) + value
      <3>1. Said(new, c) = value
        <4>1. Len(items) + 1 \in 1 .. Len(new) /\ new[Len(items) + 1].coin = c
          BY <2>2, <2>3, <2>4
        <4> QED
          BY <2>2, <2>3, <2>6, <4>1, SaidItem
      <3>2. Said(items, c) = 0
        BY <1>2, SaidIs
      <3> QED
        BY <3>1, <3>2
    <2>8. ASSUME NEW d, d # c PROVE Said(new, d) = Said(items, d)
      <3>1. CASE \E k \in 1 .. Len(items) : items[k].coin = d
        <4>1. PICK k \in 1 .. Len(items) : items[k].coin = d
          BY <3>1
        <4>2. new[k] = items[k] /\ k \in 1 .. Len(new)
          BY <2>3, <2>4
        <4>3. Said(new, d) = new[k].amountOf
          BY <2>3, <2>6, <4>1, <4>2, SaidIs
        <4>4. Said(items, d) = items[k].amountOf
          BY <4>1, SaidIs
        <4> QED
          BY <4>2, <4>3, <4>4
      <3>2. CASE ~ \E k \in 1 .. Len(items) : items[k].coin = d
        <4>1. \A k \in 1 .. Len(new) : new[k].coin # d
          BY <2>2, <2>3, <2>4, <2>8, <3>2
        <4>2. Said(new, d) = 0
          BY <2>3, <2>6, <4>1, SaidIs
        <4>3. Said(items, d) = 0
          BY <3>2, SaidIs
        <4> QED
          BY <4>2, <4>3
      <3> QED
        BY <3>1, <3>2
    <2>9. ASSUME NEW k \in 1 .. Len(new)
          PROVE  new[k].coin = c \/ \E j \in 1 .. Len(items) : new[k] = items[j]
      <3>1. k \in 1 .. Len(items) \/ k = Len(items) + 1
        BY <2>3, <2>4
      <3> QED
        BY <2>2, <2>3, <3>1
    <2> QED
      BY <2>3, <2>6, <2>7, <2>8, <2>9
  <1> QED
    BY <1>1, <1>2

\* The first item of a list is reduced.
LessItem(items, m, new) ==
    /\ new \in Seq(Items) /\ Once(new) /\ Len(new) = Len(items) /\ Len(items) >= 1
    /\ new[1].coin = items[1].coin /\ new[1].amountOf = items[1].amountOf - m
    /\ \A k \in 2 .. Len(items) : new[k] = items[k]
    /\ Said(new, items[1].coin) = Said(items, items[1].coin) - m
    /\ \A d : d # items[1].coin => Said(new, d) = Said(items, d)

LEMMA ReducedItem ==
  ASSUME NEW items \in Seq(Items), Once(items), items # <<>>, NEW m \in Nat,
         m <= items[1].amountOf, NEW new, new = [items EXCEPT ![1].amountOf = @ - m]
  PROVE  LessItem(items, m, new)
  <1>1. Len(items) \in Nat /\ Len(items) >= 1 /\ items[1] \in Items
    OBVIOUS
  <1>2. PICK e \in Items : e = [items[1] EXCEPT !.amountOf = @ - m]
    BY <1>1 DEF Items
  <1>3. e.coin = items[1].coin /\ e.amountOf = items[1].amountOf - m
    BY <1>1, <1>2 DEF Items
  <1>4. new = [items EXCEPT ![1] = e]
    BY <1>2
  <1>5. /\ new \in Seq(Items) /\ Len(new) = Len(items) /\ new[1] = e
        /\ \A k \in 2 .. Len(items) : new[k] = items[k]
    BY <1>1, <1>4
  <1>6. \A k \in 1 .. Len(items) : new[k].coin = items[k].coin
    BY <1>1, <1>3, <1>5
  <1>7. Once(new)
    BY <1>5, <1>6 DEF Once
  <1>8. Said(new, items[1].coin) = e.amountOf /\ Said(items, items[1].coin) = items[1].amountOf
    <2>1. 1 \in 1 .. Len(items) /\ 1 \in 1 .. Len(new) /\ new[1].coin = items[1].coin
      BY <1>1, <1>3, <1>5
    <2>2. PICK c, k : c = items[1].coin /\ k = 1
      OBVIOUS
    <2>3. k \in 1 .. Len(items) /\ k \in 1 .. Len(new) /\ items[k].coin = c /\ new[k].coin = c
      BY <2>1, <2>2
    <2>4. Said(new, c) = new[k].amountOf
      BY <1>5, <1>7, <2>3, SaidItem
    <2>5. Said(items, c) = items[k].amountOf
      BY <2>3, SaidItem
    <2> QED
      BY <1>5, <2>2, <2>4, <2>5
  <1>9. ASSUME NEW d, d # items[1].coin PROVE Said(new, d) = Said(items, d)
    <2>1. CASE \E k \in 1 .. Len(items) : items[k].coin = d
      <3>1. PICK k \in 1 .. Len(items) : items[k].coin = d
        BY <2>1
      <3>2. new[k] = items[k] /\ k \in 1 .. Len(new)
        BY <1>1, <1>5, <1>9, <3>1
      <3>3. Said(new, d) = new[k].amountOf
        BY <1>5, <1>7, <3>1, <3>2, SaidItem
      <3>4. Said(items, d) = items[k].amountOf
        BY <3>1, SaidIs
      <3> QED
        BY <3>2, <3>3, <3>4
    <2>2. CASE ~ \E k \in 1 .. Len(items) : items[k].coin = d
      <3>1. \A k \in 1 .. Len(new) : new[k].coin # d
        BY <1>5, <1>6, <2>2
      <3>2. Said(new, d) = 0
        BY <1>5, <1>7, <3>1, SaidIs
      <3>3. Said(items, d) = 0
        BY <2>2, SaidIs
      <3> QED
        BY <3>2, <3>3
    <2> QED
      BY <2>1, <2>2
  <1> QED
    BY <1>1, <1>3, <1>5, <1>7, <1>8, <1>9 DEF LessItem

\* The first item of a list, which says 0, is removed.
LEMMA RemovedItem ==
  ASSUME NEW items \in Seq(Items), Once(items), items # <<>>, items[1].amountOf = 0,
         NEW new, new = removeFromBCList(items, 1)
  PROVE  /\ new \in Seq(Items) /\ Once(new) /\ Len(new) = Len(items) - 1
         /\ \A k \in 1 .. Len(new) : k + 1 \in 2 .. Len(items) /\ new[k] = items[k + 1]
         /\ \A d : Said(new, d) = Said(items, d)
  <1>1. Len(items) \in Nat /\ Len(items) >= 1 /\ items[1] \in Items
    OBVIOUS
  <1>2. new = SubSeq(items, 1, 1 - 1) \o SubSeq(items, 1 + 1, Len(items))
    BY DEF removeFromBCList, RemoveAt
  <1>3. SubSeq(items, 1, 1 - 1) = <<>>
    BY <1>1
  <1>4. PICK t : t = SubSeq(items, 2, Len(items))
    OBVIOUS
  <1>5. t \in Seq(Items) /\ Len(t) = Len(items) - 1 /\ \A k \in 1 .. Len(t) : t[k] = items[k + 1]
    <2>1. CASE Len(items) = 1
      <3>1. t = <<>>
        BY <1>4, <2>1
      <3> QED
        BY <2>1, <3>1
    <2>2. CASE Len(items) > 1
      <3>1. t \in Seq(Items) /\ Len(t) = Len(items) - 1
        BY <1>1, <1>4, <2>2
      <3>2. \A k \in 1 .. Len(t) : t[k] = items[2 + k - 1]
        BY <1>1, <1>4, <2>2, <3>1
      <3>3. \A k \in 1 .. Len(t) : 2 + k - 1 = k + 1
        BY <3>1
      <3> QED
        BY <3>1, <3>2, <3>3
    <2>3. Len(items) = 1 \/ Len(items) > 1
      <3>1. PICK n \in Nat : n = Len(items)
        OBVIOUS
      <3>2. n >= 1
        BY <1>1, <3>1
      <3>3. n = 1 \/ n > 1
        BY <3>2
      <3> QED
        BY <3>1, <3>3
    <2> QED
      BY <2>1, <2>2, <2>3, Zenon
  <1>6. new = t
    BY <1>2, <1>3, <1>4, <1>5
  <1>7. \A k \in 1 .. Len(new) : k + 1 \in 2 .. Len(items) /\ new[k] = items[k + 1]
    BY <1>1, <1>5, <1>6
  <1>8. Once(new)
    BY <1>1, <1>5, <1>6, <1>7 DEF Once
  <1>9. ASSUME NEW d PROVE Said(new, d) = Said(items, d)
    <2>1. CASE \E k \in 1 .. Len(new) : new[k].coin = d
      <3>1. PICK k \in 1 .. Len(new) : new[k].coin = d
        BY <2>1
      <3>2. new[k] = items[k + 1] /\ k + 1 \in 1 .. Len(items)
        BY <1>1, <1>7
      <3>3. Said(new, d) = new[k].amountOf
        BY <1>5, <1>6, <1>8, <3>1, SaidIs
      <3>4. Said(items, d) = items[k + 1].amountOf
        BY <3>1, <3>2, SaidIs
      <3> QED
        BY <3>2, <3>3, <3>4
    <2>2. CASE ~ \E k \in 1 .. Len(new) : new[k].coin = d
      <3>1. Said(new, d) = 0
        BY <1>5, <1>6, <1>8, <2>2, SaidIs
      <3>2. CASE items[1].coin = d
        BY <1>1, <3>1, <3>2, SaidIs
      <3>3. CASE items[1].coin # d
        <4>1. ASSUME NEW k \in 1 .. Len(items) PROVE items[k].coin # d
          <5>1. CASE k = 1
            BY <3>3, <5>1
          <5>2. CASE k # 1
            <6>1. k - 1 \in 1 .. Len(new) /\ (k - 1) + 1 = k
              BY <1>1, <1>5, <1>6, <5>2
            <6>2. new[k - 1] = items[k]
              BY <1>7, <6>1
            <6> QED
              BY <2>2, <6>1, <6>2
          <5> QED
            BY <5>1, <5>2
        <4> QED
          BY <3>1, <4>1, SaidIs
      <3> QED
        BY <3>2, <3>3
    <2> QED
      BY <2>1, <2>2
  <1> QED
    BY <1>5, <1>6, <1>7, <1>8, <1>9

--------------------------------------------------------------------------------
(* The walk.  It goes from left to right and comes to every leaf. *)

\* What lies below a node lies below one of its children.
LEMMA BelowChild ==
  ASSUME NEW tr, Grown(tr), NEW node \in Paths, NEW n \in DOMAIN tr, n \in AtOrBelow(node),
         n # node
  PROVE  /\ n \in Paths /\ Len(node) \in Nat /\ Len(n) >= Len(node) + 1
         /\ n[Len(node) + 1] = "L" => Left(node) \in DOMAIN tr
         /\ n[Len(node) + 1] = "R" => Right(node) \in DOMAIN tr
         /\ n[Len(node) + 1] \in {"L", "R"}
  <1>1. n \in Paths /\ Len(n) \in Nat /\ Len(node) \in Nat /\ Len(node) <= Len(n)
        /\ \A j \in 1 .. Len(node) : n[j] = node[j]
    BY DEF Grown, AtOrBelow, Paths
  <1>2. Len(n) # Len(node)
    BY <1>1 DEF Paths
  <1>3. PICK k \in Nat : k = Len(node) + 1 /\ k <= Len(n) /\ k >= 1
    BY <1>1, <1>2
  <1>4. n[k] \in {"L", "R"}
    BY <1>1, <1>3 DEF Paths
  <1>5. SubSeq(n, 1, k) = Append(node, n[k])
    <2>1. SubSeq(n, 1, k) \in Paths /\ Len(SubSeq(n, 1, k)) = k
          /\ \A j \in 1 .. k : SubSeq(n, 1, k)[j] = n[j]
      BY <1>1, <1>3 DEF Paths
    <2>2. Append(node, n[k]) \in Paths /\ Len(Append(node, n[k])) = k
          /\ \A j \in 1 .. k : Append(node, n[k])[j] = n[j]
      BY <1>1, <1>3, <1>4 DEF Paths
    <2> QED
      BY <2>1, <2>2 DEF Paths
  <1>6. k \in 0 .. Len(n)
    BY <1>1, <1>3
  <1>7. Append(node, n[k]) \in DOMAIN tr
    BY <1>5, <1>6 DEF Grown
  <1> QED
    BY <1>1, <1>3, <1>4, <1>7 DEF Left, Right

\* The step down: nothing that is to come is passed over.
LEMMA StepDown ==
  ASSUME NEW tr, Grown(tr), NEW node \in DOMAIN tr, ~ IsLeaf(tr, node), NEW b,
         b = Below(tr, node), NEW W
  PROVE  /\ b \in DOMAIN tr /\ b \in Paths /\ b # Root
         /\ Held(tr, ToCome(b), W) = Held(tr, ToCome(node), W)
  <1>1. node \in Paths /\ Len(node) \in Nat
    BY DEF Grown, Paths
  <1>2. PICK e \in {"L", "R"} : /\ b = Append(node, e) /\ b \in DOMAIN tr
                                /\ e = "R" => Left(node) \notin DOMAIN tr
    BY DEF IsLeaf, Below, Left, Right
  <1>3. /\ b \in Paths /\ Len(b) = Len(node) + 1 /\ b[Len(node) + 1] = e
        /\ \A j \in 1 .. Len(node) : b[j] = node[j]
    BY <1>1, <1>2 DEF Paths
  <1>4. b # Root
    BY <1>1, <1>3 DEF Root
  <1>5. PICK k \in Nat : k = Len(node) + 1 /\ k >= 1
    BY <1>1
  <1>6. ASSUME NEW n \in Leaves(tr) PROVE n \in ToCome(b) <=> n \in ToCome(node)
    <2>1. n \in Paths /\ n \in DOMAIN tr /\ n # node /\ Len(n) \in Nat
      BY DEF Leaves, Grown, Paths
    <2>2. CASE n \in AtOrBelow(node)
      <3>1. /\ Len(n) >= k /\ n[k] \in {"L", "R"}
            /\ n[k] = "L" => Left(node) \in DOMAIN tr
        BY <1>1, <1>5, <2>1, <2>2, BelowChild
      <3>2. \A j \in 1 .. Len(node) : n[j] = node[j]
        BY <2>2 DEF AtOrBelow
      <3>3. CASE n[k] = e
        <4>1. \A j \in 1 .. Len(b) : n[j] = b[j]
          BY <1>1, <1>3, <1>5, <3>2, <3>3
        <4> QED
          BY <1>3, <1>5, <2>1, <2>2, <3>1, <4>1 DEF AtOrBelow, ToCome
      <3>4. CASE n[k] # e
        <4>1. n[k] = "R" /\ b[k] = "L"
          BY <1>2, <1>3, <1>5, <3>1, <3>4
        <4>2. \A j \in 1 .. k - 1 : n[j] = b[j]
          BY <1>1, <1>3, <1>5, <3>2
        <4>3. k \in 1 .. Len(b)
          BY <1>1, <1>3, <1>5
        <4> QED
          BY <2>1, <2>2, <3>1, <4>1, <4>2, <4>3 DEF RightOf, ToCome
      <3> QED
        BY <3>3, <3>4
    <2>3. CASE n \notin AtOrBelow(node)
      <3>1. n \notin AtOrBelow(b)
        <4>1. SUFFICES ASSUME n \in AtOrBelow(b) PROVE FALSE
          OBVIOUS
        <4>2. Len(node) <= Len(n) /\ \A j \in 1 .. Len(node) : n[j] = node[j]
          BY <1>1, <1>3, <2>1, <4>1 DEF AtOrBelow
        <4> QED
          BY <2>1, <2>3, <4>2 DEF AtOrBelow
      <3>2. ASSUME n \in RightOf(node) PROVE n \in RightOf(b)
        <4>1. PICK i \in 1 .. Len(node) :
                 /\ node[i] = "L" /\ i <= Len(n) /\ n[i] = "R"
                 /\ \A j \in 1 .. i - 1 : n[j] = node[j]
          BY <3>2 DEF RightOf
        <4>2. i \in 1 .. Len(b) /\ b[i] = "L" /\ \A j \in 1 .. i - 1 : n[j] = b[j]
          BY <1>1, <1>3, <4>1
        <4> QED
          BY <2>1, <4>1, <4>2 DEF RightOf
      <3>3. ASSUME n \in RightOf(b) PROVE n \in RightOf(node)
        <4>1. PICK i \in 1 .. Len(b) :
                 /\ b[i] = "L" /\ i <= Len(n) /\ n[i] = "R"
                 /\ \A j \in 1 .. i - 1 : n[j] = b[j]
          BY <3>3 DEF RightOf
        <4>2. CASE i \in 1 .. Len(node)
          <5>1. node[i] = "L" /\ \A j \in 1 .. i - 1 : n[j] = node[j]
            BY <1>1, <1>3, <4>1, <4>2
          <5> QED
            BY <2>1, <4>1, <4>2, <5>1 DEF RightOf
        <4>3. CASE i = k
          <5>1. Len(node) <= Len(n) /\ \A j \in 1 .. Len(node) : n[j] = node[j]
            BY <1>1, <1>3, <1>5, <2>1, <4>1, <4>3
          <5> QED
            BY <2>1, <2>3, <5>1 DEF AtOrBelow
        <4> QED
          BY <1>1, <1>3, <1>5, <4>2, <4>3
      <3> QED
        BY <2>3, <3>1, <3>2, <3>3 DEF ToCome
    <2> QED
      BY <2>2, <2>3
  <1>7. Theirs(tr, ToCome(b), W) = Theirs(tr, ToCome(node), W)
    BY <1>6 DEF Theirs
  <1> QED
    BY <1>2, <1>3, <1>4, <1>7, HeldSame

\* A set of numbers with a bound has a greatest element.
LEMMA Greatest ==
  ASSUME NEW b \in Nat, NEW S \in SUBSET (1 .. b), S # {}
  PROVE  Max(S) \in S /\ \A k \in S : k <= Max(S)
  <1>1. PICK T : T = {n \in Nat : b - n \in S}
    OBVIOUS
  <1>2. T \in SUBSET Nat /\ T # {}
    <2>1. PICK k \in S : TRUE
      OBVIOUS
    <2>2. b - k \in Nat /\ b - (b - k) = k
      BY <2>1
    <2> QED
      BY <1>1, <2>1, <2>2
  <1>3. PICK n \in T : \A m \in T : n <= m
    BY <1>2, Least
  <1>4. ASSUME NEW k \in S PROVE b - n >= k
    <2>1. b - k \in Nat /\ b - (b - k) = k
      OBVIOUS
    <2>2. b - k \in T
      BY <1>1, <2>1
    <2>3. n <= b - k
      BY <1>3, <2>2
    <2> QED
      BY <1>1, <1>3, <2>3
  <1>5. \E x \in S : \A y \in S : x >= y
    BY <1>1, <1>3, <1>4
  <1>6. Max(S) \in S /\ \A y \in S : Max(S) >= y
    BY <1>5 DEF Max
  <1> QED
    BY <1>6

\* The climb: what is to come next is all that lies to the right.
LEMMA StepUp ==
  ASSUME NEW tr, Grown(tr), NEW node \in DOMAIN tr, NEW x, x = NextSubtree(node)
  PROVE  /\ x \in DOMAIN tr /\ x \in Paths
         /\ x = Root => RightOf(node) = {}
         /\ x # Root => ToCome(x) = RightOf(node)
  <1>1. node \in Paths /\ Len(node) \in Nat
    BY DEF Grown, Paths
  <1>2. PICK lefts : lefts = {k \in 1 .. Len(node) : node[k] = "L"}
    OBVIOUS
  <1>3. CASE lefts = {}
    <2>1. x = Root
      BY <1>2, <1>3 DEF NextSubtree
    <2>2. RightOf(node) = {}
      BY <1>2, <1>3 DEF RightOf
    <2> QED
      BY <2>1, <2>2 DEF Grown
  <1>4. CASE lefts # {}
    <2>1. PICK m : m = Max(lefts)
      OBVIOUS
    <2>2. m \in lefts /\ \A k \in lefts : k <= m
      BY <1>1, <1>2, <1>4, <2>1, Greatest
    <2>3. m \in 1 .. Len(node) /\ node[m] = "L" /\ m \in Nat
      BY <1>1, <1>2, <2>2
    <2>4. PICK p : p = SubSeq(node, 1, m - 1)
      OBVIOUS
    <2>5. p \in Paths /\ Len(p) = m - 1 /\ \A j \in 1 .. m - 1 : p[j] = node[j]
      BY <1>1, <2>3, <2>4 DEF Paths
    <2>6. x = Right(p)
      BY <1>2, <1>4, <2>1, <2>4 DEF NextSubtree
    <2>7. /\ x \in Paths /\ x # Root /\ Len(x) = m /\ x[m] = "R"
          /\ \A j \in 1 .. m - 1 : x[j] = node[j]
      <3>1. Len(p) + 1 = m
        BY <2>3, <2>5
      <3>2. /\ Right(p) \in Paths /\ Right(p) # Root /\ Len(Right(p)) = m /\ Right(p)[m] = "R"
            /\ \A j \in 1 .. Len(p) : Right(p)[j] = p[j]
        BY <2>5, <3>1, Children
      <3> QED
        BY <2>5, <2>6, <3>2
    <2>8. x \in DOMAIN tr
      <3>1. m - 1 \in 0 .. Len(node) /\ m \in 0 .. Len(node)
        BY <1>1, <2>3
      <3>2. p \in DOMAIN tr /\ SubSeq(node, 1, m) \in DOMAIN tr
        BY <2>4, <3>1 DEF Grown
      <3>3. SubSeq(node, 1, m) = Left(p)
        <4>1. SubSeq(node, 1, m) \in Paths /\ Len(SubSeq(node, 1, m)) = m
              /\ \A j \in 1 .. m : SubSeq(node, 1, m)[j] = node[j]
          BY <1>1, <2>3 DEF Paths
        <4>2. Left(p) \in Paths /\ Len(Left(p)) = m /\ \A j \in 1 .. m : Left(p)[j] = node[j]
          <5>1. Len(p) + 1 = m
            BY <2>3, <2>5
          <5>2. /\ Left(p) \in Paths /\ Len(Left(p)) = m /\ Left(p)[m] = "L"
                /\ \A j \in 1 .. Len(p) : Left(p)[j] = p[j]
            BY <2>5, <5>1, Children
          <5>3. \A j \in 1 .. m : j \in 1 .. m - 1 \/ j = m
            BY <2>3
          <5> QED
            BY <2>3, <2>5, <5>2, <5>3
        <4> QED
          BY <4>1, <4>2 DEF Paths
      <3> QED
        BY <2>6, <3>2, <3>3 DEF Grown
    <2>9. ASSUME NEW n \in Paths PROVE n \in ToCome(x) <=> n \in RightOf(node)
      <3>0. Len(n) \in Nat
        BY DEF Paths
      <3>1. ASSUME n \in AtOrBelow(x) PROVE n \in RightOf(node)
        <4>1. Len(n) >= m /\ \A j \in 1 .. m : n[j] = x[j]
          BY <2>3, <2>7, <3>1, <3>0 DEF AtOrBelow
        <4>2. n[m] = "R" /\ \A j \in 1 .. m - 1 : n[j] = node[j]
          BY <2>3, <2>7, <4>1
        <4> QED
          BY <2>3, <3>0, <4>1, <4>2 DEF RightOf
      <3>2. ASSUME n \in RightOf(x) PROVE n \in RightOf(node)
        <4>1. PICK i \in 1 .. Len(x) :
                 /\ x[i] = "L" /\ i <= Len(n) /\ n[i] = "R"
                 /\ \A j \in 1 .. i - 1 : n[j] = x[j]
          BY <3>2 DEF RightOf
        <4>2. i # m
          BY <2>7, <4>1
        <4>3. i \in 1 .. m - 1 /\ i \in 1 .. Len(node)
          BY <1>1, <2>3, <2>7, <4>1, <4>2
        <4>4. node[i] = "L" /\ \A j \in 1 .. i - 1 : n[j] = node[j]
          BY <2>3, <2>7, <4>1, <4>3
        <4> QED
          BY <4>1, <4>3, <4>4 DEF RightOf
      <3>3. ASSUME n \in RightOf(node) PROVE n \in ToCome(x)
        <4>1. PICK i \in 1 .. Len(node) :
                 /\ node[i] = "L" /\ i <= Len(n) /\ n[i] = "R"
                 /\ \A j \in 1 .. i - 1 : n[j] = node[j]
          BY <3>3 DEF RightOf
        <4>2. i <= m
          BY <1>2, <2>2, <4>1
        <4>3. CASE i = m
          <5>1. Len(x) <= Len(n) /\ \A j \in 1 .. Len(x) : n[j] = x[j]
            BY <2>3, <2>7, <4>1, <4>3
          <5> QED
            BY <5>1 DEF AtOrBelow, ToCome
        <4>4. CASE i # m
          <5>1. i \in 1 .. m - 1 /\ i \in 1 .. Len(x)
            BY <2>3, <2>7, <4>1, <4>2, <4>4
          <5>2. x[i] = "L" /\ \A j \in 1 .. i - 1 : n[j] = x[j]
            BY <2>3, <2>7, <4>1, <5>1
          <5> QED
            BY <4>1, <5>1, <5>2 DEF RightOf, ToCome
        <4> QED
          BY <4>3, <4>4
      <3> QED
        BY <3>1, <3>2, <3>3 DEF ToCome
    <2>10. ToCome(x) = RightOf(node)
      <3>1. ToCome(x) \subseteq Paths /\ RightOf(node) \subseteq Paths
        BY DEF ToCome, AtOrBelow, RightOf
      <3> QED
        BY <2>9, <3>1
    <2> QED
      BY <2>7, <2>8, <2>10
  <1> QED
    BY <1>3, <1>4

\* Neither a node nor its children lie to the right of it.
LEMMA NotRightOfItself ==
  ASSUME NEW node \in Paths
  PROVE  node \notin RightOf(node) /\ Left(node) \notin RightOf(node)
         /\ Right(node) \notin RightOf(node) /\ node \in ToCome(node)
  <1>1. ASSUME NEW n \in Paths, \A j \in 1 .. Len(node) : n[j] = node[j]
        PROVE  n \notin RightOf(node)
    BY <1>1 DEF RightOf
  <1>2. node \in ToCome(node)
    BY DEF ToCome, AtOrBelow, Paths
  <1> QED
    BY <1>1, <1>2, Children

\* A leaf and what lies to the right of it are all that is to come.
LEMMA AtLeaf ==
  ASSUME NEW tr, Grown(tr), NEW node \in Leaves(tr), NEW W
  PROVE  Held(tr, ToCome(node), W) =
            Held(tr, RightOf(node), W) + (IF tr[node].owner \in W THEN tr[node].amount ELSE 0)
  <1>1. node \in Paths /\ Left(node) \notin DOMAIN tr /\ Right(node) \notin DOMAIN tr
    BY LeafFacts
  <1>2. PICK A : A = ToCome(node) \ {node}
    OBVIOUS
  <1>3. Held(tr, ToCome(node), W) = Held(tr, A, W) + Part(tr, node, ToCome(node), W)
    BY <1>2, HeldPeel
  <1>4. Part(tr, node, ToCome(node), W) = IF tr[node].owner \in W THEN tr[node].amount ELSE 0
    BY <1>1, NotRightOfItself DEF Part
  <1>5. ASSUME NEW n \in Leaves(tr) PROVE n \in A <=> n \in RightOf(node)
    <2>1. n \in DOMAIN tr
      BY DEF Leaves
    <2>2. ASSUME n \in AtOrBelow(node), n # node PROVE FALSE
      BY <1>1, <2>1, <2>2, BelowChild
    <2> QED
      BY <1>1, <1>2, <2>2, NotRightOfItself DEF ToCome
  <1>6. Theirs(tr, A, W) = Theirs(tr, RightOf(node), W)
    BY <1>5 DEF Theirs
  <1>7. Held(tr, A, W) = Held(tr, RightOf(node), W)
    BY <1>6, HeldSame
  <1> QED
    BY <1>3, <1>4, <1>7

--------------------------------------------------------------------------------
(* The steps of a transaction. *)

\* What a transaction in progress is made of.
LEMMA RunFacts ==
  ASSUME BooksInv, Running
  PROVE  /\ call.pc \in {"list", "coin", "walk", "return"}
         /\ call.sndr \in Wallets /\ call.rcvr \in Wallets /\ call.sndr # call.rcvr
         /\ call.amount \in Nat /\ call.tmpAmount \in Nat /\ call.id \in 0 .. MaxID
         /\ call.at = 1 /\ call.want \in Nat /\ call.moved \in Nat /\ call.node \in Paths
         /\ call.tmpAmount <= call.amount /\ call.amount <= amount[call.sndr]
  BY DEF BooksInv, CallTyped, CallType

\* The books as the invariant has them.
LEMMA BookFacts ==
  ASSUME BooksInv
  PROVE  /\ \A w \in Wallets : amount[w] \in Nat /\ bcl[w] \in Seq(Items) /\ Once(bcl[w])
         /\ \A w \in Wallets : \A c : Said(bcl[w], c) \in Nat
         /\ \A c \in Coins : Grown(tree[c])
         /\ \A c \in Coins : \A A, W : Held(tree[c], A, W) \in Nat
  <1>1. /\ \A w \in Wallets : amount[w] \in Nat /\ bcl[w] \in Seq(Items) /\ Once(bcl[w])
        /\ \A c \in Coins : Grown(tree[c])
    BY DEF BooksInv, BooksTyped
  <1>2. \A w \in Wallets : \A c : Said(bcl[w], c) \in Nat
    BY <1>1, SaidIs
  <1>3. \A c \in Coins : \A A, W : Held(tree[c], A, W) \in Nat
    BY <1>1, HeldTyped
  <1> QED
    BY <1>1, <1>2, <1>3

\* The coin at hand.
LEMMA CoinFacts ==
  ASSUME BooksInv, AtCoin
  PROVE  /\ Running /\ Len(bcl[call.sndr]) >= 1 /\ Item = bcl[call.sndr][1]
         /\ Item \in Items /\ Coin \in Coins /\ Item.amountOf \in Nat
         /\ Tree = tree[Coin] /\ Grown(Tree)
         /\ Said(bcl[call.sndr], Coin) = Item.amountOf
         /\ Held(Tree, Paths, {call.sndr}) = Item.amountOf - call.moved
         /\ call.want <= Item.amountOf /\ call.want <= call.tmpAmount /\ call.tmpAmount > 0
         /\ call.want = Item.amountOf \/ call.want = call.tmpAmount
         /\ call.moved <= call.want
  <1>1. Running
    BY DEF AtCoin, Running
  <1>2. /\ call.sndr \in Wallets /\ call.at = 1 /\ call.tmpAmount \in Nat /\ call.moved \in Nat
        /\ call.want \in Nat /\ call.sndr # call.rcvr
        /\ call.pc \in {"list", "coin", "walk", "return"}
    BY <1>1, RunFacts
  <1>3. bcl[call.sndr] # <<>> /\ bcl[call.sndr] \in Seq(Items) /\ Once(bcl[call.sndr])
    BY <1>2, BookFacts DEF BooksInv, Walked
  <1>4. Len(bcl[call.sndr]) >= 1 /\ Item = bcl[call.sndr][1] /\ Item \in Items
    BY <1>2, <1>3 DEF Item
  <1>5. Coin \in Coins /\ Item.amountOf \in Nat /\ Coin = bcl[call.sndr][1].coin
    BY <1>4 DEF Items, Coin
  <1>6. Tree = tree[Coin] /\ Grown(Tree)
    BY <1>5, BookFacts DEF Tree
  <1>7. Said(bcl[call.sndr], Coin) = Item.amountOf
    <2>1. 1 \in 1 .. Len(bcl[call.sndr])
      BY <1>3, <1>4
    <2> QED
      BY <1>3, <1>4, <1>5, <2>1, SaidItem
  <1>8. Held(Tree, Paths, {call.sndr}) = Item.amountOf - call.moved
    <2>1. Held(tree[Coin], Paths, {call.sndr}) = Said(bcl[call.sndr], Coin) + Ahead(call.sndr, Coin)
      BY <1>2, <1>5 DEF BooksInv, Books
    <2>2. Ahead(call.sndr, Coin) = 0 - call.moved
      BY <1>2 DEF Ahead
    <2> QED
      BY <1>2, <1>5, <1>6, <1>7, <2>1, <2>2
  <1>9. /\ call.want = IF Item.amountOf <= call.tmpAmount THEN Item.amountOf ELSE call.tmpAmount
        /\ call.tmpAmount > 0
    BY DEF BooksInv, Walked
  <1>10. call.moved <= call.want
    <2>1. CASE call.pc = "coin"
      BY <1>2, <2>1 DEF BooksInv, Walked
    <2>2. CASE call.pc = "walk"
      BY <2>2 DEF BooksInv, Walked
    <2>3. CASE call.pc = "return"
      BY <1>2, <2>3 DEF BooksInv, Walked
    <2> QED
      BY <2>1, <2>2, <2>3 DEF AtCoin
  <1> QED
    BY <1>1, <1>2, <1>4, <1>5, <1>6, <1>7, <1>8, <1>9, <1>10

\* Steps that change none of the books.
LEMMA BooksStay ==
  ASSUME BooksInv, amount' = amount, bcl' = bcl, tree' = tree,
         numOfTransactions' \in [Coins -> Nat],
         \A w \in Wallets : Booked(w)' = Booked(w),
         \A w \in Wallets, c \in Coins : Ahead(w, c)' = Ahead(w, c)
  PROVE  BooksTyped' /\ Books'
  <1>1. BooksTyped'
    BY DEF BooksInv, BooksTyped
  <1>2. \A w \in Wallets : Wealth(w)' = Wealth(w)
    BY DEF Wealth
  <1> QED
    BY <1>1, <1>2 DEF BooksInv, Books

\* What a list without items, or with one, makes of the sum over all coins.
LEMMA ShortLists ==
  ASSUME BooksInv, NEW w \in Wallets
  PROVE  /\ bcl[w] = <<>> => Wealth(w) = 0
         /\ Len(bcl[w]) = 1 => Wealth(w) = bcl[w][1].amountOf
  <1>1. IsFiniteSet(Coins)
    BY LedgerAssumption
  <1>2. bcl[w] \in Seq(Items) /\ Once(bcl[w])
    BY BookFacts
  <1>3. PICK F : F = [c \in Coins |-> Said(bcl[w], c)]
    OBVIOUS
  <1>4. F \in [Coins -> Int] /\ \A c \in Coins : F[c] = Said(bcl[w], c)
    <2>1. \A c \in Coins : Said(bcl[w], c) \in Nat
      BY BookFacts
    <2> QED
      BY <1>3, <2>1
  <1>5. Wealth(w) = SumFunction(F)
    BY <1>3 DEF Wealth
  <1>6. ASSUME bcl[w] = <<>> PROVE Wealth(w) = 0
    <2>1. Len(bcl[w]) = 0
      BY <1>6
    <2>2. \A c \in Coins : F[c] = 0
      BY <1>2, <1>4, <2>1, SaidIs
    <2> QED
      BY <1>1, <1>4, <1>5, <2>2, SumOfNone
  <1>7. ASSUME Len(bcl[w]) = 1 PROVE Wealth(w) = bcl[w][1].amountOf
    <2>1. bcl[w][1] \in Items
      BY <1>2, <1>7
    <2>2. PICK d \in Coins : d = bcl[w][1].coin
      BY <2>1 DEF Items
    <2>3. 1 \in 1 .. Len(bcl[w]) /\ \A k \in 1 .. Len(bcl[w]) : k = 1
      BY <1>7
    <2>4. F[d] = bcl[w][1].amountOf
      BY <1>2, <1>4, <2>2, <2>3, SaidItem
    <2>5. ASSUME NEW c \in Coins \ {d} PROVE F[c] = 0
      <3>1. \A k \in 1 .. Len(bcl[w]) : bcl[w][k].coin # c
        BY <2>2, <2>3
      <3>2. Said(bcl[w], c) = 0
        BY <1>2, <3>1, SaidIs
      <3> QED
        BY <1>4, <3>2
    <2>6. SumFunction(F) = F[d]
      BY <1>1, <1>4, <2>5, SumOfOne
    <2> QED
      BY <1>5, <2>4, <2>6
  <1> QED
    BY <1>6, <1>7

\* AskCoin finds an item: what is missing is still in the list.
LEMMA AskKeeps ==
  ASSUME BooksInv, AskCoin
  PROVE  BooksInv'
  <1>1. /\ call.pc = "list" /\ call.tmpAmount > 0 /\ Running
        /\ amount' = amount /\ bcl' = bcl /\ tree' = tree
        /\ numOfTransactions' = numOfTransactions
    BY DEF AskCoin, Running, bookVars
  <1>2. /\ call.sndr \in Wallets /\ call.rcvr \in Wallets /\ call.sndr # call.rcvr
        /\ call.amount \in Nat /\ call.tmpAmount \in Nat /\ call.at = 1
        /\ call.amount <= amount[call.sndr]
    BY <1>1, RunFacts
  <1>3. bcl[call.sndr] \in Seq(Items) /\ amount[call.sndr] \in Nat
    BY <1>2, BookFacts
  <1>4. bcl[call.sndr] # <<>>
    <2>1. SUFFICES ASSUME bcl[call.sndr] = <<>> PROVE FALSE
      OBVIOUS
    <2>2. Wealth(call.sndr) = 0
      BY <1>2, <2>1, ShortLists
    <2>3. Wealth(call.sndr) = amount[call.sndr] + Booked(call.sndr)
      BY <1>2 DEF BooksInv, Books
    <2>4. Booked(call.sndr) = call.tmpAmount - call.amount
      BY <1>2 DEF Booked
    <2> QED
      BY <1>1, <1>2, <1>3, <2>2, <2>3, <2>4
  <1>5. Len(bcl[call.sndr]) >= 1 /\ Item = bcl[call.sndr][1] /\ Item.amountOf \in Nat
    <2>1. Len(bcl[call.sndr]) >= 1 /\ bcl[call.sndr][1] \in Items
      BY <1>3, <1>4
    <2> QED
      BY <1>2, <2>1 DEF Item, Items
  <1>6. PICK m \in Nat : /\ m = Min({Item.amountOf, call.tmpAmount})
                         /\ m = IF Item.amountOf <= call.tmpAmount THEN Item.amountOf
                                ELSE call.tmpAmount
    BY <1>2, <1>5 DEF Min
  <1>7. call' = [call EXCEPT !.pc = "coin", !.moved = 0, !.want = m]
    BY <1>2, <1>3, <1>5, <1>6 DEF AskCoin
  <1>8. call \in CallType
    BY <1>1 DEF BooksInv, CallTyped
  <1>9. /\ call' \in CallType /\ call'.pc = "coin" /\ call'.moved = 0 /\ call'.want = m
        /\ call'.sndr = call.sndr /\ call'.rcvr = call.rcvr /\ call'.amount = call.amount
        /\ call'.tmpAmount = call.tmpAmount /\ call'.at = call.at
    BY <1>7, <1>8 DEF CallType
  <1>10. CallTyped'
    BY <1>1, <1>9 DEF BooksInv, CallTyped, Running
  <1>11. \A w \in Wallets : Booked(w)' = Booked(w)
    BY <1>9 DEF Booked
  <1>12. \A w \in Wallets, c \in Coins : Ahead(w, c)' = Ahead(w, c)
    BY <1>1, <1>9 DEF Ahead, AtCoin
  <1>13. BooksTyped' /\ Books'
    <2>1. numOfTransactions' \in [Coins -> Nat]
      BY <1>1 DEF BooksInv, BooksTyped
    <2> QED
      BY <1>1, <1>11, <1>12, <2>1, BooksStay
  <1>14. Item' = Item
    BY <1>1, <1>9 DEF Item
  <1>15. Walked'
    BY <1>1, <1>4, <1>6, <1>9, <1>14 DEF Walked, AtCoin
  <1> QED
    BY <1>10, <1>13, <1>15 DEF BooksInv

\* EnterTree, Descend and WalkEnds change nothing but the place in the tree.
LEMMA CallMoves ==
  ASSUME BooksInv, AtCoin, NEW p \in {"walk", "return"}, NEW n \in Paths,
         call' = [call EXCEPT !.pc = p, !.node = n],
         amount' = amount, bcl' = bcl, tree' = tree, numOfTransactions' \in [Coins -> Nat],
         n \in DOMAIN Tree, Right(Root) \in DOMAIN Tree,
         p = "return" => call.moved = call.want,
         p = "walk" => IF n = Root THEN call.moved = call.want
                       ELSE call.want - call.moved <= Held(Tree, ToCome(n), {call.sndr})
  PROVE  BooksInv'
  <1>1. Running /\ call \in CallType
    BY DEF AtCoin, Running, BooksInv, CallTyped
  <1>2. /\ call' \in CallType /\ call'.pc = p /\ call'.moved = call.moved
        /\ call'.want = call.want /\ call'.node = n
        /\ call'.sndr = call.sndr /\ call'.rcvr = call.rcvr /\ call'.amount = call.amount
        /\ call'.tmpAmount = call.tmpAmount /\ call'.at = call.at
    BY <1>1 DEF CallType
  <1>3. CallTyped'
    BY <1>1, <1>2 DEF BooksInv, CallTyped, Running
  <1>4. AtCoin' /\ Item' = Item /\ Coin' = Coin /\ Tree' = Tree
    BY <1>2 DEF AtCoin, Item, Coin, Tree
  <1>5. BooksTyped' /\ Books'
    <2>1. \A w \in Wallets : Booked(w)' = Booked(w)
      BY <1>2 DEF Booked
    <2>2. \A w \in Wallets, c \in Coins : Ahead(w, c)' = Ahead(w, c)
      BY <1>2, <1>4 DEF Ahead
    <2> QED
      BY <2>1, <2>2, BooksStay
  <1>6. call.moved <= call.want
    BY CoinFacts
  <1>7. Held(Tree', ToCome(call'.node), {call'.sndr}) = Held(Tree, ToCome(n), {call.sndr})
    BY <1>2, <1>4
  <1>8. Walked'
    BY <1>2, <1>4, <1>6, <1>7 DEF BooksInv, Walked
  <1> QED
    BY <1>3, <1>5, <1>8 DEF BooksInv

\* All leaves are at or below the root.
LEMMA AllBelowRoot ==
  ASSUME NEW tr, Grown(tr), NEW W
  PROVE  Held(tr, ToCome(Root), W) = Held(tr, Paths, W)
  <1>1. \A n \in Paths : n \in ToCome(Root)
    BY DEF ToCome, AtOrBelow, Root, Paths
  <1>2. Leaves(tr) \subseteq Paths
    BY DEF Grown, Leaves
  <1>3. Theirs(tr, ToCome(Root), W) = Theirs(tr, Paths, W)
    BY <1>1, <1>2 DEF Theirs
  <1> QED
    BY <1>3 DEF Held

LEMMA EnterKeeps ==
  ASSUME BooksInv, EnterTree
  PROVE  BooksInv'
  <1>1. AtCoin /\ Right(Root) \in DOMAIN Tree /\ call.pc = "coin"
    BY DEF AtCoin, EnterTree
  <1>2. PICK n : n = Below(Tree, Root)
    OBVIOUS
  <1>3. /\ Grown(Tree) /\ Root \in DOMAIN Tree /\ ~ IsLeaf(Tree, Root)
        /\ Held(Tree, Paths, {call.sndr}) = Item.amountOf - call.moved
        /\ call.want <= Item.amountOf /\ call.want \in Nat /\ call.moved \in Nat
        /\ Item.amountOf \in Nat
    BY <1>1, CoinFacts, RunFacts DEF Grown, IsLeaf
  <1>4. /\ n \in DOMAIN Tree /\ n \in Paths /\ n # Root
        /\ Held(Tree, ToCome(n), {call.sndr}) = Held(Tree, ToCome(Root), {call.sndr})
    BY <1>2, <1>3, StepDown
  <1>5. Held(Tree, ToCome(Root), {call.sndr}) = Held(Tree, Paths, {call.sndr})
    BY <1>3, AllBelowRoot
  <1>6. call.want - call.moved <= Held(Tree, ToCome(n), {call.sndr})
    BY <1>3, <1>4, <1>5
  <1>7. /\ call' = [call EXCEPT !.pc = "walk", !.node = n]
        /\ amount' = amount /\ bcl' = bcl /\ tree' = tree
        /\ numOfTransactions' = numOfTransactions
    BY <1>2 DEF EnterTree, bookVars
  <1>8. numOfTransactions' \in [Coins -> Nat]
    BY <1>7 DEF BooksInv, BooksTyped
  <1> QED
    BY <1>1, <1>4, <1>6, <1>7, <1>8, CallMoves

LEMMA DescendKeeps ==
  ASSUME BooksInv, Descend
  PROVE  BooksInv'
  <1>1. AtCoin /\ call.pc = "walk" /\ ~ IsLeaf(Tree, call.node) /\ call.node # Root
    BY DEF AtCoin, Descend, Walking
  <1>2. PICK n : n = Below(Tree, call.node)
    OBVIOUS
  <1>3. /\ Grown(Tree) /\ call.node \in DOMAIN Tree /\ Right(Root) \in DOMAIN Tree
        /\ call.want - call.moved <= Held(Tree, ToCome(call.node), {call.sndr})
    BY <1>1, CoinFacts DEF BooksInv, Walked
  <1>4. /\ n \in DOMAIN Tree /\ n \in Paths /\ n # Root
        /\ Held(Tree, ToCome(n), {call.sndr}) = Held(Tree, ToCome(call.node), {call.sndr})
    BY <1>1, <1>2, <1>3, StepDown
  <1>5. /\ call' = [call EXCEPT !.node = n]
        /\ amount' = amount /\ bcl' = bcl /\ tree' = tree
        /\ numOfTransactions' = numOfTransactions
    BY <1>2 DEF Descend, bookVars
  <1>6. call \in CallType
    BY <1>1 DEF BooksInv, CallTyped, Running
  <1>7. call' = [call EXCEPT !.pc = "walk", !.node = n]
    BY <1>1, <1>5, <1>6 DEF CallType
  <1>8. numOfTransactions' \in [Coins -> Nat]
    BY <1>5 DEF BooksInv, BooksTyped
  <1> QED
    BY <1>1, <1>3, <1>4, <1>5, <1>7, <1>8, CallMoves

\* The walk ends only with all that was asked for: had it come to its end
\* before, nothing of the sender's would be to the right of it.
LEMMA EndKeeps ==
  ASSUME BooksInv, WalkEnds
  PROVE  BooksInv'
  <1>1. AtCoin /\ call.pc = "walk" /\ ~ Walking
    BY DEF AtCoin, WalkEnds
  <1>2. /\ call.node \in DOMAIN Tree /\ Right(Root) \in DOMAIN Tree
        /\ call.node = Root => call.moved = call.want
        /\ call.moved <= call.want
    BY <1>1 DEF BooksInv, Walked
  <1>3. call.moved \in Nat /\ call.want \in Nat /\ call.node \in Paths
    BY <1>1, RunFacts DEF Running
  <1>4. call.moved = call.want
    BY <1>1, <1>2, <1>3 DEF Walking
  <1>5. /\ call' = [call EXCEPT !.pc = "return"]
        /\ amount' = amount /\ bcl' = bcl /\ tree' = tree
        /\ numOfTransactions' = [numOfTransactions EXCEPT ![Coin] = @ + 1]
    BY DEF WalkEnds
  <1>6. call \in CallType
    BY <1>1 DEF BooksInv, CallTyped, Running
  <1>7. call' = [call EXCEPT !.pc = "return", !.node = call.node]
    BY <1>5, <1>6 DEF CallType
  <1>8. numOfTransactions' \in [Coins -> Nat]
    <2>1. numOfTransactions \in [Coins -> Nat] /\ Coin \in Coins
      BY <1>1, CoinFacts DEF BooksInv, BooksTyped
    <2> QED
      BY <1>5, <2>1
  <1> QED
    BY <1>1, <1>2, <1>3, <1>4, <1>5, <1>7, <1>8, CallMoves

\* A leaf of the sender's is split: what the tree says changes by take, for
\* the sender and the receiver and for nobody else.
LEMMA LeafMoves ==
  ASSUME NEW tr, Grown(tr), NEW node \in Leaves(tr), NEW take \in Nat \ {0},
         take <= tr[node].amount, call.rcvr \in Wallets, call.id \in 0 .. MaxID,
         tr[node].owner = call.sndr, NEW new, new = Split(tr, node, take), NEW W
  PROVE  Held(new, Paths, W) = Held(tr, Paths, W)
                               - (IF call.sndr \in W THEN take ELSE 0)
                               + (IF call.rcvr \in W THEN take ELSE 0)
  <1>1. /\ node \in Paths /\ Left(node) \in Paths /\ Right(node) \in Paths /\ tr[node] \in Nodes
    BY LeafFacts
  <1>2. tr[node].amount \in Nat
    BY <1>1 DEF Nodes
  <1>3. Held(tr, Paths, W) \in Nat
    BY HeldTyped
  <1>4. Held(new, Paths, W) =
            Held(tr, Paths, W) - Part(tr, node, Paths, W)
            + (IF Right(node) \in Paths /\ call.rcvr \in W THEN take ELSE 0)
            + (IF Left(node) \in Paths /\ tr[node].owner \in W THEN tr[node].amount - take ELSE 0)
    BY SplitHeld
  <1>5. Part(tr, node, Paths, W) = IF call.sndr \in W THEN tr[node].amount ELSE 0
    BY <1>1 DEF Part
  <1> QED
    BY <1>1, <1>2, <1>3, <1>4, <1>5

\* What such a step leaves.
TreeMoved(node, take, p, n) ==
    /\ CallTyped' /\ BooksTyped' /\ Books' /\ AtCoin' /\ Item' = Item
    /\ Tree' = Split(Tree, node, take) /\ Grown(Tree')
    /\ call'.pc = p /\ call'.moved = call.moved + take /\ call'.node = n
    /\ call'.sndr = call.sndr /\ call'.rcvr = call.rcvr /\ call'.want = call.want
    /\ call'.tmpAmount = call.tmpAmount

\* FirstUse and VisitLeaf: the tree gets ahead of the lists.
LEMMA TreeMoves ==
  ASSUME BooksInv, AtCoin, NEW node \in Leaves(Tree), Tree[node].owner = call.sndr,
         NEW take \in Nat \ {0}, take <= Tree[node].amount,
         TreeGrows(node, take), amount' = amount, bcl' = bcl,
         numOfTransactions' = numOfTransactions,
         NEW p \in {"walk", "return"}, NEW n \in Paths,
         call' = [call EXCEPT !.pc = p, !.moved = call.moved + take, !.node = n]
  PROVE  TreeMoved(node, take, p, n)
  <1>1. Running /\ call \in CallType
    BY DEF AtCoin, Running, BooksInv, CallTyped
  <1>2. /\ call.sndr \in Wallets /\ call.rcvr \in Wallets /\ call.sndr # call.rcvr
        /\ call.moved \in Nat /\ call.id \in 0 .. MaxID
    BY <1>1, RunFacts
  <1>2a. PICK m \in Nat : m = call.moved + take
    BY <1>2
  <1>2b. call' = [call EXCEPT !.pc = p, !.moved = m, !.node = n]
    BY <1>2a
  <1>2c. /\ call' \in CallType /\ call'.pc = p /\ call'.moved = m
         /\ call'.want = call.want /\ call'.node = n
         /\ call'.sndr = call.sndr /\ call'.rcvr = call.rcvr /\ call'.amount = call.amount
         /\ call'.tmpAmount = call.tmpAmount /\ call'.at = call.at
    BY <1>1, <1>2b DEF CallType
  <1>3. /\ call' \in CallType /\ call'.pc = p /\ call'.moved = call.moved + take
        /\ call'.want = call.want /\ call'.node = n
        /\ call'.sndr = call.sndr /\ call'.rcvr = call.rcvr /\ call'.amount = call.amount
        /\ call'.tmpAmount = call.tmpAmount /\ call'.at = call.at
    BY <1>2a, <1>2c
  <1>4. CallTyped'
    BY <1>1, <1>3 DEF BooksInv, CallTyped, Running
  <1>5. AtCoin' /\ Item' = Item /\ Coin' = Coin
    BY <1>3 DEF AtCoin, Item, Coin
  <1>6. /\ Coin \in Coins /\ Tree = tree[Coin] /\ Grown(Tree)
        /\ DOMAIN tree = Coins /\ tree = [c \in Coins |-> tree[c]]
    BY CoinFacts DEF BooksInv, BooksTyped
  <1>7. PICK new : new = Split(Tree, node, take)
    OBVIOUS
  <1>8. tree' = [tree EXCEPT ![Coin] = new]
    BY <1>6, <1>7 DEF TreeGrows
  <1>9. /\ DOMAIN tree' = Coins /\ tree' = [c \in Coins |-> tree'[c]]
        /\ tree'[Coin] = new /\ \A c \in Coins \ {Coin} : tree'[c] = tree[c]
    BY <1>6, <1>8
  <1>10. Tree' = new
    BY <1>5, <1>9 DEF Tree
  <1>11. Grown(new)
    BY <1>2, <1>6, <1>7, SplitGrown
  <1>12. \A c \in Coins : Grown(tree'[c])
    BY <1>9, <1>11, BookFacts
  <1>13. BooksTyped'
    BY <1>9, <1>12 DEF BooksInv, BooksTyped
  <1>14. ASSUME NEW W
         PROVE  Held(new, Paths, W) = Held(Tree, Paths, W)
                                      - (IF call.sndr \in W THEN take ELSE 0)
                                      + (IF call.rcvr \in W THEN take ELSE 0)
    BY <1>2, <1>6, <1>7, LeafMoves
  <1>15. \A c \in Coins : Held(tree'[c], Paths, Wallets) = bitCoinValue
    <2>1. Held(Tree, Paths, Wallets) = bitCoinValue /\ bitCoinValue \in Nat
      BY <1>6, LedgerAssumption DEF BooksInv, Books
    <2>2. Held(new, Paths, Wallets) = bitCoinValue
      BY <1>2, <1>14, <2>1
    <2> QED
      BY <1>9, <2>2 DEF BooksInv, Books
  <1>16. ASSUME NEW w \in Wallets, NEW c \in Coins
         PROVE  Held(tree'[c], Paths, {w}) = Said(bcl'[w], c) + Ahead(w, c)'
    <2>1. Held(tree[c], Paths, {w}) = Said(bcl[w], c) + Ahead(w, c)
      BY DEF BooksInv, Books
    <2>2. CASE c # Coin
      <3>1. Ahead(w, c) = 0 /\ Ahead(w, c)' = 0
        BY <1>5, <2>2 DEF Ahead
      <3> QED
        BY <1>9, <2>1, <2>2, <3>1
    <2>3. CASE c = Coin
      <3>1. /\ Ahead(w, c) = IF w = call.rcvr THEN call.moved
                             ELSE IF w = call.sndr THEN 0 - call.moved ELSE 0
            /\ Ahead(w, c)' = IF w = call.rcvr THEN call.moved + take
                              ELSE IF w = call.sndr THEN 0 - (call.moved + take) ELSE 0
        BY <1>3, <1>5, <2>3 DEF Ahead
      <3>2. PICK s \in Nat : s = Said(bcl[w], c)
        BY BookFacts
      <3>3. Held(new, Paths, {w}) = Held(Tree, Paths, {w})
                                      - (IF call.sndr = w THEN take ELSE 0)
                                      + (IF call.rcvr = w THEN take ELSE 0)
        BY <1>14
      <3>4. Held(new, Paths, {w}) = s + Ahead(w, c)'
        BY <1>2, <1>6, <2>1, <2>3, <3>1, <3>2, <3>3
      <3> QED
        BY <1>9, <2>3, <3>2, <3>4
    <2> QED
      BY <2>2, <2>3
  <1>17. \A w \in Wallets : Wealth(w)' = amount'[w] + Booked(w)'
    <2>1. \A w \in Wallets : Wealth(w)' = Wealth(w) /\ Booked(w)' = Booked(w)
      BY <1>3 DEF Wealth, Booked
    <2> QED
      BY <2>1 DEF BooksInv, Books
  <1>18. \A w \in Wallets : \A k \in 1 .. Len(bcl'[w]) :
            bcl'[w][k].amountOf = 0 => Right(Root) \in DOMAIN tree'[bcl'[w][k].coin]
    <2>1. DOMAIN Tree \subseteq DOMAIN new
      <3>1. /\ Tree[node] \in Nodes /\ Left(node) \notin DOMAIN Tree
            /\ Right(node) \notin DOMAIN Tree /\ Left(node) # Right(node)
        BY <1>6, LeafFacts
      <3>2. Tree[node].amount \in Nat
        BY <3>1 DEF Nodes
      <3>3. HasSplit(Tree, node, take, new)
        BY <1>7, <3>1, <3>2, SplitShape
      <3> QED
        BY <3>3 DEF HasSplit
    <2>2. \A c \in Coins : DOMAIN tree[c] \subseteq DOMAIN tree'[c]
      BY <1>6, <1>9, <2>1
    <2>3. ASSUME NEW w \in Wallets, NEW k \in 1 .. Len(bcl[w]), bcl[w][k].amountOf = 0
          PROVE  Right(Root) \in DOMAIN tree'[bcl[w][k].coin]
      <3>1. bcl[w][k] \in Items
        BY BookFacts
      <3>2. bcl[w][k].coin \in Coins
        BY <3>1 DEF Items
      <3>3. Right(Root) \in DOMAIN tree[bcl[w][k].coin]
        BY <2>3 DEF BooksInv, Books
      <3> QED
        BY <2>2, <3>2, <3>3
    <2> QED
      BY <2>3
  <1>19. Books'
    BY <1>15, <1>16, <1>17, <1>18 DEF Books
  <1> QED
    BY <1>3, <1>4, <1>5, <1>7, <1>10, <1>11, <1>13, <1>19 DEF TreeMoved

\* A tree without the right child of its root is its root, and all there is
\* of the coin belongs to the one owner.
LEMMA Unused ==
  ASSUME NEW tr, Grown(tr), Right(Root) \notin DOMAIN tr, NEW w, Held(tr, Paths, {w}) > 0
  PROVE  /\ Root \in Leaves(tr) /\ tr[Root].owner = w
         /\ tr[Root].amount = Held(tr, Paths, {w})
  <1>1. Root \in DOMAIN tr /\ Root \in Paths /\ Left(Root) \notin DOMAIN tr
    BY DEF Grown, Paths
  <1>2. Root \in Leaves(tr)
    BY <1>1 DEF Leaves, IsLeaf
  <1>3. ASSUME NEW n \in DOMAIN tr PROVE n = Root
    <2>1. SUFFICES ASSUME n # Root PROVE FALSE
      OBVIOUS
    <2>2. n \in AtOrBelow(Root)
      BY <1>1 DEF Grown, AtOrBelow, Root, Paths
    <2> QED
      BY <1>1, <2>1, <2>2, BelowChild
  <1>4. Theirs(tr, Paths \ {Root}, {w}) = {}
    BY <1>3 DEF Theirs, Leaves
  <1>5. Held(tr, Paths \ {Root}, {w}) = 0
    BY <1>4, HeldTyped
  <1>6. Held(tr, Paths, {w}) = Held(tr, Paths \ {Root}, {w}) + Part(tr, Root, Paths, {w})
    BY <1>2, HeldPeel
  <1>7. tr[Root].amount \in Nat
    BY <1>1 DEF Grown, Nodes
  <1>8. CASE tr[Root].owner = w
    <2>1. Part(tr, Root, Paths, {w}) = tr[Root].amount
      BY <1>1, <1>8 DEF Part
    <2> QED
      BY <1>2, <1>5, <1>6, <1>7, <1>8, <2>1
  <1>9. CASE tr[Root].owner # w
    <2>1. Part(tr, Root, Paths, {w}) = 0
      BY <1>9 DEF Part
    <2> QED
      BY <1>5, <1>6, <2>1
  <1> QED
    BY <1>8, <1>9

LEMMA FirstKeeps ==
  ASSUME BooksInv, FirstUse
  PROVE  BooksInv'
  <1>1. AtCoin /\ call.pc = "coin" /\ Right(Root) \notin DOMAIN Tree
    BY DEF AtCoin, FirstUse
  <1>2. /\ Grown(Tree) /\ Item.amountOf \in Nat /\ Item = bcl[call.sndr][1]
        /\ Held(Tree, Paths, {call.sndr}) = Item.amountOf - call.moved
        /\ call.want <= Item.amountOf /\ (call.want = Item.amountOf \/ call.want = call.tmpAmount)
        /\ call.tmpAmount > 0 /\ Len(bcl[call.sndr]) >= 1 /\ Tree = tree[Coin] /\ Running
    BY <1>1, CoinFacts
  <1>3. /\ call.moved = 0 /\ call.want \in Nat /\ call.tmpAmount \in Nat /\ call.sndr \in Wallets
        /\ call.node \in Paths
    BY <1>1, <1>2, RunFacts DEF BooksInv, Walked
  <1>4. Item.amountOf # 0
    <2>1. 1 \in 1 .. Len(bcl[call.sndr])
      BY <1>2, <1>3, BookFacts
    <2>2. bcl[call.sndr][1].amountOf = 0 => Right(Root) \in DOMAIN tree[bcl[call.sndr][1].coin]
      BY <1>3, <2>1 DEF BooksInv, Books
    <2> QED
      BY <1>1, <1>2, <2>2 DEF Coin
  <1>5. /\ Root \in Leaves(Tree) /\ Tree[Root].owner = call.sndr
        /\ Tree[Root].amount = Held(Tree, Paths, {call.sndr})
    <2>1. Held(Tree, Paths, {call.sndr}) > 0
      BY <1>2, <1>3, <1>4
    <2> QED
      BY <1>1, <1>2, <2>1, Unused
  <1>6. PICK take \in Nat \ {0} : take = call.want /\ take <= Tree[Root].amount
    BY <1>2, <1>3, <1>4, <1>5
  <1>7. call \in CallType
    BY <1>2 DEF BooksInv, CallTyped
  <1>8. call' = [call EXCEPT !.pc = "return", !.moved = call.moved + take, !.node = call.node]
    <2>1. call.moved + take = take
      BY <1>3
    <2>2. call' = [call EXCEPT !.pc = "return", !.moved = take]
      BY <1>6 DEF FirstUse
    <2>3. call' = [call EXCEPT !.pc = "return", !.moved = take, !.node = call.node]
      BY <1>7, <2>2 DEF CallType
    <2> QED
      BY <2>1, <2>3
  <1>9. /\ TreeGrows(Root, take) /\ amount' = amount /\ bcl' = bcl
        /\ numOfTransactions' = numOfTransactions
    BY <1>6 DEF FirstUse
  <1>10. /\ CallTyped' /\ BooksTyped' /\ Books' /\ Item' = Item
         /\ Tree' = Split(Tree, Root, take)
         /\ call'.pc = "return" /\ call'.moved = call.moved + take
         /\ call'.sndr = call.sndr /\ call'.want = call.want
         /\ call'.tmpAmount = call.tmpAmount
    <2>1. TreeMoved(Root, take, "return", call.node)
      BY <1>1, <1>3, <1>5, <1>6, <1>8, <1>9, TreeMoves
    <2> QED
      BY <2>1 DEF TreeMoved
  <1>11. Right(Root) \in DOMAIN Tree'
    BY <1>10 DEF Split
  <1>12. call'.moved = call'.want
    BY <1>3, <1>6, <1>10
  <1>13. Walked'
    BY <1>1, <1>9, <1>10, <1>11, <1>12 DEF BooksInv, Walked, AtCoin
  <1> QED
    BY <1>10, <1>13 DEF BooksInv

\* The walk: what it has passed it has taken, if it was the sender's.
LEMMA VisitKeeps ==
  ASSUME BooksInv, VisitLeaf
  PROVE  BooksInv'
  <1>1. /\ AtCoin /\ call.pc = "walk" /\ call.node # Root /\ call.moved < call.want
        /\ IsLeaf(Tree, call.node)
    BY DEF AtCoin, VisitLeaf, Walking
  <1>2. /\ Grown(Tree) /\ call.node \in DOMAIN Tree /\ Right(Root) \in DOMAIN Tree /\ Running
        /\ call.want - call.moved <= Held(Tree, ToCome(call.node), {call.sndr})
        /\ call.want = IF Item.amountOf <= call.tmpAmount THEN Item.amountOf ELSE call.tmpAmount
        /\ bcl[call.sndr] # <<>> /\ call.tmpAmount > 0
    BY <1>1, CoinFacts DEF BooksInv, Walked
  <1>3. call.moved \in Nat /\ call.want \in Nat /\ call.rcvr \in Wallets /\ call.id \in 0 .. MaxID
    BY <1>2, RunFacts
  <1>4. PICK leaf \in Leaves(Tree) : leaf = call.node
    BY <1>1, <1>2 DEF Leaves
  <1>5. Tree[leaf] \in Nodes /\ leaf \in Paths /\ leaf \in DOMAIN Tree
    BY <1>2, LeafFacts
  <1>6. Tree[leaf].amount \in Nat \ {0}
    BY <1>5 DEF Nodes
  <1>7. PICK take \in Nat \ {0} :
           /\ take = Min({Tree[leaf].amount, call.want - call.moved})
           /\ take <= Tree[leaf].amount /\ take <= call.want - call.moved
           /\ take = Tree[leaf].amount \/ take = call.want - call.moved
    BY <1>1, <1>3, <1>6 DEF Min
  <1>8. PICK n : n = NextSubtree(leaf)
    OBVIOUS
  <1>9. /\ n \in DOMAIN Tree /\ n \in Paths
        /\ n = Root => RightOf(leaf) = {}
        /\ n # Root => ToCome(n) = RightOf(leaf)
    BY <1>2, <1>5, <1>8, StepUp
  <1>10. Held(Tree, ToCome(leaf), {call.sndr}) =
           Held(Tree, RightOf(leaf), {call.sndr})
           + (IF Tree[leaf].owner = call.sndr THEN Tree[leaf].amount ELSE 0)
    BY <1>2, AtLeaf
  <1>11. PICK h \in Nat : /\ h = Held(Tree, RightOf(leaf), {call.sndr})
                          /\ n = Root => h = 0
    <2>1. n = Root => Theirs(Tree, RightOf(leaf), {call.sndr}) = {}
      BY <1>9 DEF Theirs
    <2> QED
      BY <1>2, <2>1, HeldTyped
  <1>12. amount' = amount /\ bcl' = bcl /\ numOfTransactions' = numOfTransactions
    BY DEF VisitLeaf
  <1>13. call \in CallType
    BY <1>2 DEF BooksInv, CallTyped
  <1>14. CASE Tree[leaf].owner # call.sndr
    <2>1. tree' = tree /\ call' = [call EXCEPT !.moved = call.moved, !.node = n]
      BY <1>4, <1>8, <1>14 DEF VisitLeaf
    <2>2. call' = [call EXCEPT !.pc = "walk", !.node = n]
      BY <1>1, <1>13, <2>1 DEF CallType
    <2>3. call.want - call.moved <= h
      BY <1>2, <1>4, <1>10, <1>11, <1>14
    <2>4. n # Root
      BY <1>1, <1>3, <1>11, <2>3
    <2>5. call.want - call.moved <= Held(Tree, ToCome(n), {call.sndr})
      BY <1>9, <1>11, <2>3, <2>4
    <2>6. numOfTransactions' \in [Coins -> Nat]
      BY <1>12 DEF BooksInv, BooksTyped
    <2> QED
      BY <1>1, <1>2, <1>9, <1>12, <2>1, <2>2, <2>4, <2>5, <2>6, CallMoves
  <1>15. CASE Tree[leaf].owner = call.sndr
    <2>1. /\ TreeGrows(leaf, take)
          /\ call' = [call EXCEPT !.moved = call.moved + take, !.node = n]
      BY <1>4, <1>7, <1>8, <1>15 DEF VisitLeaf
    <2>2. call' = [call EXCEPT !.pc = "walk", !.moved = call.moved + take, !.node = n]
      <3>1. PICK m : m = call.moved + take
        OBVIOUS
      <3>2. call' = [call EXCEPT !.moved = m, !.node = n]
        BY <2>1, <3>1
      <3>3. call' = [call EXCEPT !.pc = "walk", !.moved = m, !.node = n]
        BY <1>1, <1>13, <3>2 DEF CallType
      <3> QED
        BY <3>1, <3>3
    <2>3. /\ CallTyped' /\ BooksTyped' /\ Books' /\ AtCoin' /\ Item' = Item
          /\ Tree' = Split(Tree, leaf, take) /\ Grown(Tree')
          /\ call'.pc = "walk" /\ call'.moved = call.moved + take /\ call'.node = n
          /\ call'.sndr = call.sndr /\ call'.rcvr = call.rcvr /\ call'.want = call.want
          /\ call'.tmpAmount = call.tmpAmount
      <3>1. AtCoin /\ take <= Tree[leaf].amount /\ n \in Paths /\ "walk" \in {"walk", "return"}
        BY <1>1, <1>7, <1>9
      <3>2. TreeMoved(leaf, take, "walk", n)
        BY <1>12, <1>15, <2>1, <2>2, <3>1, TreeMoves
      <3> QED
        BY <3>2 DEF TreeMoved
    <2>4. DOMAIN Tree \subseteq DOMAIN Tree'
      BY <2>3 DEF Split
    <2>5. Held(Tree', RightOf(leaf), {call.sndr}) = h
      <3>1. /\ leaf \notin RightOf(leaf) /\ Left(leaf) \notin RightOf(leaf)
            /\ Right(leaf) \notin RightOf(leaf)
        BY <1>5, NotRightOfItself
      <3>2. PICK new : new = Split(Tree, leaf, take)
        OBVIOUS
      <3>3. PICK A : A = RightOf(leaf)
        OBVIOUS
      <3>4. PICK W : W = {call.sndr}
        OBVIOUS
      <3>5. Held(new, A, W) =
               Held(Tree, A, W) - Part(Tree, leaf, A, W)
               + (IF Right(leaf) \in A /\ call.rcvr \in W THEN take ELSE 0)
               + (IF Left(leaf) \in A /\ Tree[leaf].owner \in W
                  THEN Tree[leaf].amount - take ELSE 0)
        BY <1>2, <1>3, <1>7, <3>2, SplitHeld
      <3>6. Part(Tree, leaf, A, W) = 0
        BY <3>1, <3>3 DEF Part
      <3> QED
        BY <1>11, <2>3, <3>1, <3>2, <3>3, <3>4, <3>5, <3>6
    <2>6. PICK rest \in Nat : rest = call.want - (call.moved + take) /\ rest <= h
      <3>1. call.want - call.moved <= h + Tree[leaf].amount
        BY <1>2, <1>4, <1>10, <1>11, <1>15
      <3>2. call.want - call.moved - take <= h /\ call.want - call.moved - take \in Nat
        BY <1>3, <1>6, <1>7, <3>1
      <3> QED
        BY <1>3, <3>2
    <2>7. call'.moved <= call'.want /\ call'.want - call'.moved = rest
      BY <1>3, <2>3, <2>6
    <2>8. n = Root => call'.moved = call'.want
      BY <1>3, <1>11, <2>3, <2>6
    <2>9. n # Root => call'.want - call'.moved <= Held(Tree', ToCome(call'.node), {call'.sndr})
      BY <1>9, <2>3, <2>5, <2>6, <2>7
    <2>10. Walked'
      BY <1>2, <1>9, <1>12, <2>3, <2>4, <2>7, <2>8, <2>9 DEF Walked
    <2> QED
      BY <2>3, <2>10 DEF BooksInv
  <1> QED
    BY <1>14, <1>15

\* The sum over all coins when the list changes by one.
Worth(items) == SumFunction([c \in Coins |-> Said(items, c)])

LEMMA WorthChanges ==
  ASSUME NEW items \in Seq(Items), Once(items), NEW new \in Seq(Items), Once(new),
         NEW c \in Coins, NEW m \in Int, Said(new, c) = Said(items, c) + m,
         \A d : d # c => Said(new, d) = Said(items, d)
  PROVE  Worth(new) = Worth(items) + m /\ Worth(items) \in Int
  <1>1. IsFiniteSet(Coins)
    BY LedgerAssumption
  <1>2. PICK F : F = [d \in Coins |-> Said(items, d)]
    OBVIOUS
  <1>3. PICK G : G = [d \in Coins |-> Said(new, d)]
    OBVIOUS
  <1>4. \A d \in Coins : Said(items, d) \in Nat /\ Said(new, d) \in Nat
    BY SaidIs
  <1>5. F \in [Coins -> Int] /\ G \in [Coins -> Int] /\ F[c] \in Int /\ G[c] = F[c] + m
    BY <1>2, <1>3, <1>4
  <1>6. \A d \in Coins \ {c} : G[d] = F[d]
    BY <1>2, <1>3
  <1>7. SumFunction(G) = SumFunction(F) - F[c] + G[c]
    <2>1. F \in [Coins -> Int] /\ G \in [Coins -> Int]
      BY <1>5
    <2> QED
      BY <1>1, <1>6, <2>1, SumChanges, SMTT(30)
  <1>8. SumFunction(F) \in Int
    <2>1. F \in [Coins -> Int]
      BY <1>5
    <2> QED
      BY <1>1, <2>1, SumIsInt
  <1>9. Worth(items) = SumFunction(F) /\ Worth(new) = SumFunction(G)
    BY <1>2, <1>3 DEF Worth
  <1>10. PICK a \in Int, f \in Int : a = SumFunction(F) /\ f = F[c]
    BY <1>5, <1>8
  <1>11. SumFunction(G) = a - f + (f + m)
    BY <1>5, <1>7, <1>10, Zenon
  <1>12. a - f + (f + m) = a + m
    OBVIOUS
  <1> QED
    BY <1>9, <1>10, <1>11, <1>12

\* The lists catch up with the tree.
LEMMA ListMoves ==
  ASSUME BooksInv, call.pc = "return", NEW items \in Seq(Items), Once(items),
         Said(items, Coin) = Said(bcl[call.sndr], Coin) - call.moved,
         \A d : d # Coin => Said(items, d) = Said(bcl[call.sndr], d),
         \A k \in 1 .. Len(items) :
            items[k].coin = Coin \/ \E j \in 1 .. Len(bcl[call.sndr]) : items[k] = bcl[call.sndr][j],
         MoveItems(items),
         call' = [call EXCEPT !.pc = "list", !.tmpAmount = @ - call.moved],
         amount' = amount, tree' = tree, numOfTransactions' \in [Coins -> Nat]
  PROVE  BooksInv'
  <1>1. AtCoin /\ Running /\ call \in CallType
    BY DEF AtCoin, Running, BooksInv, CallTyped
  <1>2. /\ call.sndr \in Wallets /\ call.rcvr \in Wallets /\ call.sndr # call.rcvr
        /\ call.moved \in Nat /\ call.tmpAmount \in Nat /\ call.amount \in Nat
        /\ call.tmpAmount <= call.amount
    BY <1>1, RunFacts
  <1>3. /\ Coin \in Coins /\ call.moved <= call.want /\ call.want <= call.tmpAmount
        /\ call.want \in Nat /\ Tree = tree[Coin]
    BY <1>1, CoinFacts, RunFacts
  <1>4. Right(Root) \in DOMAIN tree[Coin]
    BY <1>1, <1>3 DEF BooksInv, Walked
  <1>5. PICK rest \in Nat : rest = call.tmpAmount - call.moved /\ rest <= call.amount
    BY <1>2, <1>3
  <1>6. call' = [call EXCEPT !.pc = "list", !.tmpAmount = rest]
    BY <1>5
  <1>7. /\ call' \in CallType /\ call'.pc = "list" /\ call'.tmpAmount = rest
        /\ call'.sndr = call.sndr /\ call'.rcvr = call.rcvr /\ call'.amount = call.amount
    BY <1>1, <1>6 DEF CallType
  <1>8. CallTyped'
    BY <1>1, <1>5, <1>7 DEF BooksInv, CallTyped, Running
  <1>9. bcl \in [Wallets -> Seq(Items)] /\ \A w \in Wallets : Once(bcl[w])
    BY DEF BooksInv, BooksTyped
  <1>10. PICK got : got = addToBCList(bcl[call.rcvr], Coin, call.moved)
    OBVIOUS
  <1>11. bcl' = [bcl EXCEPT ![call.sndr] = items, ![call.rcvr] = got]
    BY <1>2, <1>9, <1>10 DEF MoveItems
  <1>12. /\ got \in Seq(Items) /\ Once(got)
         /\ Said(got, Coin) = Said(bcl[call.rcvr], Coin) + call.moved
         /\ \A d : d # Coin => Said(got, d) = Said(bcl[call.rcvr], d)
         /\ \A k \in 1 .. Len(got) :
               got[k].coin = Coin \/ \E j \in 1 .. Len(bcl[call.rcvr]) : got[k] = bcl[call.rcvr][j]
    <2>1. bcl[call.rcvr] \in Seq(Items) /\ Once(bcl[call.rcvr])
      BY <1>2, <1>9
    <2>2. MoreItem(bcl[call.rcvr], Coin, call.moved, got)
      BY <1>2, <1>3, <1>10, <2>1, AddedItem
    <2> QED
      BY <2>2 DEF MoreItem
  <1>13. /\ bcl' \in [Wallets -> Seq(Items)]
         /\ bcl'[call.sndr] = items /\ bcl'[call.rcvr] = got
         /\ \A w \in Wallets : w # call.sndr /\ w # call.rcvr => bcl'[w] = bcl[w]
    BY <1>2, <1>9, <1>11, <1>12
  <1>14. \A w \in Wallets : Once(bcl'[w])
    BY <1>9, <1>12, <1>13
  <1>15. BooksTyped'
    BY <1>13, <1>14 DEF BooksInv, BooksTyped
  <1>16. ASSUME NEW w \in Wallets, NEW c \in Coins
         PROVE  Held(tree'[c], Paths, {w}) = Said(bcl'[w], c) + Ahead(w, c)'
    <2>1. Held(tree[c], Paths, {w}) = Said(bcl[w], c) + Ahead(w, c) /\ Said(bcl[w], c) \in Nat
      BY BookFacts DEF BooksInv, Books
    <2>2. Ahead(w, c)' = 0
      BY <1>7 DEF Ahead, AtCoin
    <2>3. Said(bcl'[w], c) = Said(bcl[w], c) + Ahead(w, c)
      <3>1. CASE c # Coin
        <4>1. Ahead(w, c) = 0
          BY <3>1 DEF Ahead
        <4>2. Said(bcl'[w], c) = Said(bcl[w], c)
          BY <1>12, <1>13, <3>1
        <4> QED
          BY <2>1, <4>1, <4>2
      <3>2. CASE c = Coin /\ w = call.sndr
        <4>1. Ahead(w, c) = 0 - call.moved
          BY <1>1, <1>2, <3>2 DEF Ahead
        <4> QED
          BY <1>2, <1>13, <2>1, <3>2, <4>1
      <3>3. CASE c = Coin /\ w = call.rcvr
        <4>1. Ahead(w, c) = call.moved
          BY <1>1, <3>3 DEF Ahead
        <4> QED
          BY <1>12, <1>13, <3>3, <4>1
      <3>4. CASE w # call.sndr /\ w # call.rcvr
        <4>1. Ahead(w, c) = 0
          BY <3>4 DEF Ahead
        <4> QED
          BY <1>13, <2>1, <3>4, <4>1
      <3> QED
        BY <3>1, <3>2, <3>3, <3>4
    <2>4. Said(bcl'[w], c) \in Nat
      BY <1>13, <1>14, SaidIs
    <2> QED
      BY <2>1, <2>2, <2>3, <2>4
  <1>17. ASSUME NEW w \in Wallets PROVE Wealth(w)' = amount'[w] + Booked(w)'
    <2>1. /\ Wealth(w) = Worth(bcl[w]) /\ Wealth(w)' = Worth(bcl'[w])
          /\ Wealth(w) = amount[w] + Booked(w) /\ amount[w] \in Nat
      BY BookFacts DEF Wealth, Worth, BooksInv, Books
    <2>2. /\ Booked(w) = (IF w = call.rcvr THEN call.amount - call.tmpAmount
                          ELSE IF w = call.sndr THEN call.tmpAmount - call.amount ELSE 0)
          /\ Booked(w)' = (IF w = call.rcvr THEN call.amount - rest
                           ELSE IF w = call.sndr THEN rest - call.amount ELSE 0)
      BY <1>7 DEF Booked
    <2>3. CASE w = call.sndr
      <3>1. PICK m \in Int : m = 0 - call.moved
        BY <1>2
      <3>2. Said(items, Coin) = Said(bcl[w], Coin) + m
        <4>1. Said(bcl[w], Coin) \in Nat
          BY BookFacts
        <4> QED
          BY <1>2, <2>3, <3>1, <4>1
      <3>3. bcl[w] \in Seq(Items) /\ Once(bcl[w]) /\ \A d : d # Coin => Said(items, d) = Said(bcl[w], d)
        BY <1>9, <2>3
      <3>4. Worth(items) = Worth(bcl[w]) + m
        BY <1>3, <3>2, <3>3, WorthChanges
      <3>5. Wealth(w)' = Wealth(w) - call.moved /\ amount'[w] = amount[w]
        <4>1. Wealth(w) \in Int
          <5>1. Booked(w) \in Int
            BY <1>2, <2>2
          <5> QED
            BY <2>1, <5>1
        <4> QED
          BY <1>2, <1>13, <2>1, <2>3, <3>1, <3>4, <4>1
      <3>6. Booked(w) = call.tmpAmount - call.amount /\ Booked(w)' = rest - call.amount
        BY <1>2, <2>2, <2>3
      <3> QED
        BY <1>2, <1>5, <2>1, <3>5, <3>6
    <2>4. CASE w = call.rcvr
      <3>1. bcl[w] \in Seq(Items) /\ Once(bcl[w])
        BY <1>9
      <3>2. Worth(got) = Worth(bcl[w]) + call.moved
        BY <1>2, <1>3, <1>12, <2>4, <3>1, WorthChanges
      <3> QED
        BY <1>2, <1>5, <1>13, <2>1, <2>2, <2>4, <3>2
    <2>5. CASE w # call.sndr /\ w # call.rcvr
      BY <1>13, <2>1, <2>2, <2>5
    <2> QED
      BY <2>3, <2>4, <2>5
  <1>18. ASSUME NEW w \in Wallets, NEW k \in 1 .. Len(bcl'[w]), bcl'[w][k].amountOf = 0
         PROVE  Right(Root) \in DOMAIN tree[bcl'[w][k].coin]
    <2>1. bcl'[w][k].coin = Coin \/ \E j \in 1 .. Len(bcl[w]) : bcl'[w][k] = bcl[w][j]
      <3>1. CASE w = call.sndr
        BY <1>13, <3>1
      <3>2. CASE w = call.rcvr
        BY <1>12, <1>13, <3>2
      <3>3. CASE w # call.sndr /\ w # call.rcvr
        BY <1>13, <3>3
      <3> QED
        BY <3>1, <3>2, <3>3
    <2>2. \A j \in 1 .. Len(bcl[w]) :
            bcl[w][j].amountOf = 0 => Right(Root) \in DOMAIN tree[bcl[w][j].coin]
      BY DEF BooksInv, Books
    <2> QED
      BY <1>4, <1>18, <2>1, <2>2
  <1>19. Books'
    BY <1>16, <1>17, <1>18 DEF BooksInv, Books
  <1>20. Walked'
    BY <1>7 DEF Walked, AtCoin
  <1> QED
    BY <1>8, <1>15, <1>19, <1>20 DEF BooksInv

LEMMA SufficesKeeps ==
  ASSUME BooksInv, CoinSuffices
  PROVE  BooksInv'
  <1>1. AtCoin /\ call.pc = "return" /\ Item.amountOf >= call.tmpAmount
    BY DEF AtCoin, CoinSuffices
  <1>2. /\ call.moved = call.want /\ Running
        /\ call.want <= Item.amountOf /\ Item = bcl[call.sndr][1] /\ Coin = bcl[call.sndr][1].coin
    BY <1>1, CoinFacts DEF BooksInv, Walked, Coin
  <1>3. call.at = 1 /\ call.sndr \in Wallets /\ call.moved \in Nat
    BY <1>2, RunFacts
  <1>4. PICK old : old = bcl[call.sndr]
    OBVIOUS
  <1>5. old \in Seq(Items) /\ Once(old) /\ old # <<>> /\ call.moved <= old[1].amountOf
    BY <1>1, <1>2, <1>3, <1>4, BookFacts DEF BooksInv, Walked
  <1>6. PICK items : items = [old EXCEPT ![1].amountOf = @ - call.moved]
    OBVIOUS
  <1>7. /\ items \in Seq(Items) /\ Once(items) /\ Len(items) = Len(old) /\ Len(old) >= 1
        /\ items[1].coin = old[1].coin
        /\ \A k \in 2 .. Len(old) : items[k] = old[k]
        /\ Said(items, old[1].coin) = Said(old, old[1].coin) - call.moved
        /\ \A d : d # old[1].coin => Said(items, d) = Said(old, d)
    <2>1. LessItem(old, call.moved, items)
      BY <1>3, <1>5, <1>6, ReducedItem
    <2> QED
      BY <2>1 DEF LessItem
  <1>8. Reduced = items
    BY <1>3, <1>4, <1>6 DEF Reduced
  <1>9. MoveItems(items)
    BY <1>3, <1>8 DEF CoinSuffices
  <1>10. \A k \in 1 .. Len(items) :
            items[k].coin = Coin \/ \E j \in 1 .. Len(old) : items[k] = old[j]
    <2>1. Len(items) \in Nat /\ \A k \in 1 .. Len(items) : k = 1 \/ k \in 2 .. Len(old)
      BY <1>7
    <2> QED
      BY <1>2, <1>4, <1>7, <2>1
  <1>11. /\ call' = [call EXCEPT !.pc = "list", !.tmpAmount = @ - call.moved]
         /\ amount' = amount /\ tree' = tree /\ numOfTransactions' \in [Coins -> Nat]
    BY DEF CoinSuffices, BooksInv, BooksTyped
  <1> QED
    BY <1>1, <1>2, <1>4, <1>7, <1>9, <1>10, <1>11, ListMoves

\* The item that is removed is empty, and it is not the last one.
LEMMA UsedUpKeeps ==
  ASSUME BooksInv, CoinUsedUp
  PROVE  BooksInv'
  <1>1. AtCoin /\ call.pc = "return" /\ Item.amountOf < call.tmpAmount
    BY DEF AtCoin, CoinUsedUp
  <1>2. /\ call.moved = call.want /\ Running /\ Coin \in Coins
        /\ Item = bcl[call.sndr][1] /\ Coin = bcl[call.sndr][1].coin /\ Item.amountOf \in Nat
        /\ call.want = Item.amountOf
    <2>1. call.want = IF Item.amountOf <= call.tmpAmount THEN Item.amountOf ELSE call.tmpAmount
      BY <1>1 DEF BooksInv, Walked
    <2>2. Item.amountOf \in Nat /\ Running
      BY <1>1, CoinFacts
    <2>3. call.tmpAmount \in Nat
      BY <2>2, RunFacts
    <2> QED
      BY <1>1, <2>1, <2>2, <2>3, CoinFacts DEF BooksInv, Walked, Coin
  <1>3. /\ call.at = 1 /\ call.sndr \in Wallets /\ call.moved \in Nat /\ call.sndr # call.rcvr
        /\ call.tmpAmount \in Nat /\ call.amount \in Nat /\ call.amount <= amount[call.sndr]
    BY <1>2, RunFacts
  <1>4. PICK old : old = bcl[call.sndr]
    OBVIOUS
  <1>5. old \in Seq(Items) /\ Once(old) /\ old # <<>> /\ call.moved = old[1].amountOf
    BY <1>1, <1>2, <1>3, <1>4, BookFacts DEF BooksInv, Walked
  <1>6. PICK items : items = [old EXCEPT ![1].amountOf = @ - call.moved]
    OBVIOUS
  <1>7. /\ items \in Seq(Items) /\ Once(items) /\ Len(items) = Len(old) /\ Len(old) >= 1
        /\ items[1].amountOf = old[1].amountOf - call.moved
        /\ \A k \in 2 .. Len(old) : items[k] = old[k]
        /\ Said(items, old[1].coin) = Said(old, old[1].coin) - call.moved
        /\ \A d : d # old[1].coin => Said(items, d) = Said(old, d)
    <2>1. call.moved <= old[1].amountOf
      BY <1>3, <1>5
    <2>2. LessItem(old, call.moved, items)
      BY <1>3, <1>5, <1>6, <2>1, ReducedItem
    <2> QED
      BY <2>2 DEF LessItem
  <1>8. Reduced = items
    BY <1>3, <1>4, <1>6 DEF Reduced
  <1>9. items # <<>> /\ items[1].amountOf = 0
    BY <1>3, <1>5, <1>7
  <1>10. PICK new : new = removeFromBCList(items, 1)
    OBVIOUS
  <1>11. /\ new \in Seq(Items) /\ Once(new) /\ Len(new) = Len(items) - 1
         /\ \A k \in 1 .. Len(new) : k + 1 \in 2 .. Len(items) /\ new[k] = items[k + 1]
         /\ \A d : Said(new, d) = Said(items, d)
    BY <1>7, <1>9, <1>10, RemovedItem
  <1>12. Len(old) # 1
    <2>1. SUFFICES ASSUME Len(old) = 1 PROVE FALSE
      OBVIOUS
    <2>2. Wealth(call.sndr) = old[1].amountOf
      BY <1>3, <1>4, <2>1, ShortLists
    <2>3. Wealth(call.sndr) = amount[call.sndr] + Booked(call.sndr) /\ amount[call.sndr] \in Nat
      BY <1>3, BookFacts DEF BooksInv, Books
    <2>4. Booked(call.sndr) = call.tmpAmount - call.amount
      BY <1>3 DEF Booked
    <2> QED
      BY <1>1, <1>2, <1>3, <1>4, <2>2, <2>3, <2>4
  <1>13. /\ MoveItems(new) /\ amount' = amount /\ tree' = tree
         /\ call' = [call EXCEPT !.pc = "list", !.tmpAmount = @ - call.moved]
         /\ numOfTransactions' = [numOfTransactions EXCEPT ![Coin] = @ + 1]
    BY <1>3, <1>4, <1>8, <1>10, <1>12 DEF CoinUsedUp
  <1>14. numOfTransactions' \in [Coins -> Nat]
    <2>1. numOfTransactions \in [Coins -> Nat]
      BY DEF BooksInv, BooksTyped
    <2> QED
      BY <1>2, <1>13, <2>1
  <1>15. \A k \in 1 .. Len(new) :
            new[k].coin = Coin \/ \E j \in 1 .. Len(old) : new[k] = old[j]
    <2>1. ASSUME NEW k \in 1 .. Len(new) PROVE \E j \in 1 .. Len(old) : new[k] = old[j]
      <3>1. PICK j \in 2 .. Len(old) : j = k + 1
        BY <1>7, <1>11
      <3>2. new[k] = old[j] /\ j \in 1 .. Len(old)
        BY <1>7, <1>11, <3>1
      <3> QED
        BY <3>2
    <2> QED
      BY <2>1
  <1> QED
    <2>1. new \in Seq(Items) /\ Once(new)
      BY <1>11
    <2>2. Coin = old[1].coin
      BY <1>2, <1>4
    <2>3. Said(new, Coin) = Said(bcl[call.sndr], Coin) - call.moved
      BY <1>4, <1>7, <1>11, <2>2
    <2>4. \A d : d # Coin => Said(new, d) = Said(bcl[call.sndr], d)
      BY <1>4, <1>7, <1>11, <2>2
    <2>5. \A k \in 1 .. Len(new) :
             new[k].coin = Coin \/ \E j \in 1 .. Len(bcl[call.sndr]) : new[k] = bcl[call.sndr][j]
      BY <1>4, <1>15, Zenon
    <2> QED
      BY <1>1, <1>13, <1>14, <2>1, <2>3, <2>4, <2>5, ListMoves

\* The balances follow, and the books agree again.
LEMMA DoneKeeps ==
  ASSUME BooksInv, TransactionDone
  PROVE  BooksInv'
  <1>1. call.pc = "list" /\ Running /\ call.tmpAmount = 0
    BY DEF TransactionDone, Running
  <1>2. /\ call.sndr \in Wallets /\ call.rcvr \in Wallets /\ call.sndr # call.rcvr
        /\ call.amount \in Nat /\ call.amount <= amount[call.sndr]
    BY <1>1, RunFacts
  <1>3. /\ call' = NoCall /\ bcl' = bcl /\ tree' = tree /\ numOfTransactions' = numOfTransactions
        /\ amount' = [amount EXCEPT ![call.sndr] = @ - call.amount,
                                    ![call.rcvr] = @ + call.amount]
    BY DEF TransactionDone, changeAmountsOfWallets
  <1>4. NoCall.pc = "idle" /\ NoCall.amount = 0 /\ NoCall.tmpAmount = 0
    BY DEF NoCall
  <1>5. amount \in [Wallets -> Nat]
    BY DEF BooksInv, BooksTyped
  <1>6. PICK a \in Nat, b \in Nat : a = amount[call.sndr] - call.amount
                                    /\ b = amount[call.rcvr] + call.amount
    BY <1>2, <1>5
  <1>7. amount' = [amount EXCEPT ![call.sndr] = a, ![call.rcvr] = b]
    BY <1>2, <1>3, <1>5, <1>6
  <1>8. /\ amount' \in [Wallets -> Nat] /\ amount'[call.sndr] = a /\ amount'[call.rcvr] = b
        /\ \A w \in Wallets : w # call.sndr /\ w # call.rcvr => amount'[w] = amount[w]
    BY <1>2, <1>5, <1>7
  <1>9. CallTyped' /\ Walked'
    BY <1>3, <1>4 DEF CallTyped, Walked, Running, AtCoin
  <1>10. BooksTyped'
    BY <1>3, <1>8 DEF BooksInv, BooksTyped
  <1>11. \A w \in Wallets, c \in Coins : Ahead(w, c)' = Ahead(w, c)
    BY <1>1, <1>3, <1>4 DEF Ahead, AtCoin
  <1>12. ASSUME NEW w \in Wallets PROVE Wealth(w)' = amount'[w] + Booked(w)'
    <2>1. Wealth(w)' = Wealth(w)
      BY <1>3 DEF Wealth
    <2>2. Wealth(w) = amount[w] + Booked(w) /\ amount[w] \in Nat
      BY BookFacts DEF BooksInv, Books
    <2>3. Booked(w) = IF w = call.rcvr THEN call.amount - 0
                      ELSE IF w = call.sndr THEN 0 - call.amount ELSE 0
      BY <1>1 DEF Booked
    <2>4. Booked(w)' = 0
      BY <1>3, <1>4 DEF Booked
    <2>5. amount'[w] = amount[w] + Booked(w) /\ amount'[w] \in Nat
      BY <1>2, <1>6, <1>8, <2>2, <2>3
    <2> QED
      BY <2>1, <2>2, <2>4, <2>5
  <1>13. Books'
    BY <1>3, <1>11, <1>12 DEF BooksInv, Books
  <1> QED
    BY <1>9, <1>10, <1>13 DEF BooksInv

\* A transaction begins.
LEMMA RecordBegins ==
  ASSUME BooksInv, call.pc = "idle", NEW s \in Wallets, NEW r \in Wallets, s # r,
         NEW value \in Nat, senderHasEnough(s, value), NEW id \in 0 .. MaxID, NEW date,
         Record(id, s, r, value, date)
  PROVE  BooksInv'
  <1>1. call = NoCall
    BY DEF BooksInv, CallTyped, Running
  <1>2. PICK x \in Wallets : x = CHOOSE w \in Wallets : TRUE
    OBVIOUS
  <1>3. call' = [pc |-> "list", sndr |-> s, rcvr |-> r, amount |-> value, id |-> id,
                 tmpAmount |-> value, at |-> 1, want |-> 0, moved |-> 0, node |-> Root]
    BY DEF Record, NoCall
  <1>4. Root \in Paths
    BY DEF Root, Paths
  <1>5. /\ call' \in CallType /\ call'.pc = "list" /\ call'.sndr = s /\ call'.rcvr = r
        /\ call'.amount = value /\ call'.tmpAmount = value
    BY <1>3, <1>4 DEF CallType
  <1>6. amount' = amount /\ bcl' = bcl /\ tree' = tree /\ numOfTransactions' = numOfTransactions
    BY DEF Record, bookVars
  <1>7. CallTyped'
    BY <1>5, <1>6 DEF CallTyped, Running, senderHasEnough
  <1>8. Walked'
    BY <1>5 DEF Walked, AtCoin
  <1>9. call.amount = 0 /\ call.tmpAmount = 0
    BY <1>1 DEF NoCall
  <1>10. \A w \in Wallets : Booked(w)' = Booked(w)
    BY <1>5, <1>9 DEF Booked
  <1>11. \A w \in Wallets, c \in Coins : Ahead(w, c)' = Ahead(w, c)
    BY <1>5 DEF Ahead, AtCoin
  <1>12. numOfTransactions' \in [Coins -> Nat]
    BY <1>6 DEF BooksInv, BooksTyped
  <1> QED
    BY <1>6, <1>7, <1>8, <1>10, <1>11, <1>12, BooksStay DEF BooksInv

LEMMA FileKeeps ==
  ASSUME BooksInv, FileTransaction
  PROVE  BooksInv'
  <1>1. PICK s \in Wallets, r \in Wallets, id \in 1 .. MaxID, date \in Dates :
           \E value \in 0 .. amount[s] + 1 :
              s # r /\ senderHasEnough(s, value) /\ Record(id, s, r, value, date)
    BY DEF FileTransaction
  <1>2. PICK value \in 0 .. amount[s] + 1 :
              s # r /\ senderHasEnough(s, value) /\ Record(id, s, r, value, date)
    BY <1>1
  <1>3. call.pc = "idle" /\ value \in Nat /\ id \in 0 .. MaxID
    BY LedgerAssumption DEF FileTransaction
  <1> QED
    BY <1>2, <1>3, RecordBegins

LEMMA RequestKeeps ==
  ASSUME BooksInv, requestTransaction
  PROVE  BooksInv'
  <1>1. PICK s \in Wallets, r \in Wallets, given \in TypedDates \cup ReadDates,
             clock \in Dates :
           \E value \in 1 .. amount[s] + 1, id \in 1 .. MaxID :
              /\ s # r /\ senderHasEnough(s, value)
              /\ Record(id, s, r, value, IF given = NoDate THEN clock ELSE given)
    BY DEF requestTransaction
  <1>2. PICK value \in 1 .. amount[s] + 1, id \in 1 .. MaxID :
              /\ s # r /\ senderHasEnough(s, value)
              /\ Record(id, s, r, value, IF given = NoDate THEN clock ELSE given)
    BY <1>1
  <1>3. call.pc = "idle" /\ value \in Nat /\ id \in 0 .. MaxID
    BY LedgerAssumption DEF requestTransaction
  <1>4. PICK date : date = IF given = NoDate THEN clock ELSE given
    OBVIOUS
  <1>5. Record(id, s, r, value, date)
    BY <1>2, <1>4
  <1> QED
    BY <1>2, <1>3, <1>5, RecordBegins

\* Steps that leave the books and the transaction alone.
LEMMA NothingMoves ==
  ASSUME BooksInv, call' = call, amount' = amount, bcl' = bcl, tree' = tree,
         numOfTransactions' = numOfTransactions
  PROVE  BooksInv'
  <1>1. Item' = Item /\ Coin' = Coin /\ Tree' = Tree /\ AtCoin' = AtCoin /\ Running' = Running
    BY DEF Item, Coin, Tree, AtCoin, Running
  <1>2. CallTyped'
    BY <1>1 DEF BooksInv, CallTyped
  <1>3. Walked'
    BY <1>1 DEF BooksInv, Walked
  <1>4. \A w \in Wallets : Booked(w)' = Booked(w)
    BY DEF Booked
  <1>5. \A w \in Wallets, c \in Coins : Ahead(w, c)' = Ahead(w, c)
    BY <1>1 DEF Ahead
  <1>6. numOfTransactions' \in [Coins -> Nat]
    BY DEF BooksInv, BooksTyped
  <1> QED
    BY <1>2, <1>3, <1>4, <1>5, <1>6, BooksStay DEF BooksInv

--------------------------------------------------------------------------------
(* The balances file. *)

\* A coin stands in the line of one wallet, once.
LEMMA OneLine ==
  /\ \A w \in Wallets : Balances[w] \in Seq(Coins) /\ Len(Balances[w]) \in Nat
  /\ \A w \in Wallets, c \in Coins :
        c \in ToSet(Balances[w]) <=> \E k \in 1 .. Len(Balances[w]) : Balances[w][k] = c
  /\ \A c \in Coins : \E w \in Wallets : c \in ToSet(Balances[w])
  /\ \A v, w \in Wallets, c \in Coins :
        c \in ToSet(Balances[v]) /\ c \in ToSet(Balances[w]) => v = w
  /\ \A w \in Wallets : \A j, k \in 1 .. Len(Balances[w]) :
        Balances[w][j] = Balances[w][k] => j = k
  <1>1. \A w \in Wallets : Balances[w] \in Seq(Coins) /\ Len(Balances[w]) \in Nat
    BY LedgerAssumption
  <1>2. ASSUME NEW w \in Wallets, NEW c \in Coins
        PROVE  c \in ToSet(Balances[w]) <=> \E k \in 1 .. Len(Balances[w]) : Balances[w][k] = c
    <2>1. DOMAIN Balances[w] = 1 .. Len(Balances[w])
      BY <1>1
    <2> QED
      BY <2>1 DEF ToSet
  <1>3. \A c \in Coins : \E w \in Wallets : \E k \in 1 .. Len(Balances[w]) :
          /\ Balances[w][k] = c
          /\ \A v \in Wallets : \A m \in 1 .. Len(Balances[v]) :
                Balances[v][m] = c => v = w /\ m = k
    BY LedgerAssumption
  <1>4. \A w \in Wallets : \A j \in 1 .. Len(Balances[w]) : Balances[w][j] \in Coins
    BY <1>1
  <1>5. \A c \in Coins : \E w \in Wallets : c \in ToSet(Balances[w])
    BY <1>2, <1>3
  <1>6. \A v, w \in Wallets, c \in Coins :
           c \in ToSet(Balances[v]) /\ c \in ToSet(Balances[w]) => v = w
    BY <1>2, <1>3
  <1>7. ASSUME NEW w \in Wallets, NEW j \in 1 .. Len(Balances[w]), NEW k \in 1 .. Len(Balances[w]),
               Balances[w][j] = Balances[w][k]
        PROVE  j = k
    <2>1. PICK c \in Coins : c = Balances[w][j]
      BY <1>4
    <2>2. PICK v \in Wallets : \E m \in 1 .. Len(Balances[v]) :
             \A u \in Wallets : \A i \in 1 .. Len(Balances[u]) :
                Balances[u][i] = c => u = v /\ i = m
      BY <1>3
    <2> QED
      BY <1>7, <2>1, <2>2
  <1> QED
    BY <1>1, <1>2, <1>5, <1>6, <1>7

\* So a line has as many coins as it is long.
LEMMA LineCounts ==
  ASSUME NEW w \in Wallets
  PROVE  /\ ToSet(Balances[w]) \in SUBSET Coins
         /\ Cardinality(ToSet(Balances[w])) = Len(Balances[w])
  <1>1. PICK n \in Nat : n = Len(Balances[w])
    BY OneLine
  <1>2. PICK f : f = Balances[w]
    OBVIOUS
  <1>3. PICK E : E = ToSet(f)
    OBVIOUS
  <1>4. f \in Seq(Coins) /\ DOMAIN f = 1 .. n /\ \A k \in 1 .. n : f[k] \in Coins
    BY <1>1, <1>2, OneLine
  <1>5. E = {f[k] : k \in 1 .. n}
    BY <1>3, <1>4 DEF ToSet
  <1>6. E \in SUBSET Coins /\ f \in [1 .. n -> E]
    BY <1>4, <1>5
  <1>7. \A j, k \in 1 .. n : f[j] = f[k] => j = k
    BY <1>1, <1>2, OneLine
  <1>8. f \in Injection(1 .. n, E)
    BY <1>4, <1>6, <1>7 DEF Injection, IsInjective
  <1>9. f \in Surjection(1 .. n, E)
    BY <1>5, <1>6 DEF Surjection
  <1>10. ExistsBijection(1 .. n, E)
    BY <1>8, <1>9 DEF ExistsBijection, Bijection
  <1>11. IsFiniteSet(1 .. n) /\ Cardinality(1 .. n) = n
    BY FS_Interval
  <1>12. Cardinality(E) = n
    BY <1>10, <1>11, FS_Bijection
  <1> QED
    BY <1>1, <1>2, <1>3, <1>6, <1>12

\* A coin that was never used.
LEMMA NewTree ==
  ASSUME NEW w \in Wallets, NEW tr,
         tr = [node \in {Root} |-> [owner |-> w, amount |-> bitCoinValue, trans |-> NoTrans]]
  PROVE  /\ Grown(tr)
         /\ \A W : Held(tr, Paths, W) = IF w \in W THEN bitCoinValue ELSE 0
  <1>1. bitCoinValue \in Nat \ {0} /\ MaxID \in Nat
    BY LedgerAssumption
  <1>2. DOMAIN tr = {Root} /\ tr[Root] \in Nodes /\ tr[Root].owner = w
        /\ tr[Root].amount = bitCoinValue
    BY <1>1 DEF Nodes, NoTrans
  <1>3. Root \in Paths /\ Len(Root) = 0 /\ Left(Root) # Root /\ Right(Root) # Root
    <2>1. Root \in Paths /\ Len(Root) = 0
      BY DEF Root, Paths
    <2> QED
      BY <2>1, Children
  <1>4. \A k \in 0 .. Len(Root) : SubSeq(Root, 1, k) = Root
    BY <1>3 DEF Root
  <1>5. Grown(tr)
    BY <1>2, <1>3, <1>4, FS_Singleton DEF Grown
  <1>6. Leaves(tr) = {Root}
    BY <1>2, <1>3 DEF Leaves, IsLeaf
  <1>7. ASSUME NEW W PROVE Held(tr, Paths, W) = IF w \in W THEN bitCoinValue ELSE 0
    <2>1. Held(tr, Paths, W) = Held(tr, Paths \ {Root}, W) + Part(tr, Root, Paths, W)
      BY <1>5, <1>6, HeldPeel
    <2>2. Theirs(tr, Paths \ {Root}, W) = {}
      BY <1>6 DEF Theirs
    <2>3. Held(tr, Paths \ {Root}, W) = 0
      BY <1>5, <2>2, HeldTyped
    <2>4. Part(tr, Root, Paths, W) = IF w \in W THEN bitCoinValue ELSE 0
      BY <1>2, <1>3 DEF Part
    <2> QED
      BY <1>1, <2>1, <2>3, <2>4
  <1> QED
    BY <1>5, <1>7

\* The list of a wallet as bitCoinInitialization makes it.
LEMMA NewList ==
  ASSUME NEW w \in Wallets, NEW items,
         items = [k \in 1 .. Len(Balances[w]) |->
                    [coin |-> Balances[w][k], amountOf |-> bitCoinValue]]
  PROVE  /\ items \in Seq(Items) /\ Once(items)
         /\ \A k \in 1 .. Len(items) : items[k].amountOf # 0
         /\ \A c \in Coins : Said(items, c) = IF c \in ToSet(Balances[w]) THEN bitCoinValue ELSE 0
         /\ Worth(items) = Len(Balances[w]) * bitCoinValue
  <1>1. bitCoinValue \in Nat \ {0}
    BY LedgerAssumption
  <1>2. PICK n \in Nat : n = Len(Balances[w])
    BY OneLine
  <1>3. \A k \in 1 .. n : Balances[w][k] \in Coins
    BY <1>2, OneLine
  <1>4. \A k \in 1 .. n : items[k] \in Items /\ items[k].coin = Balances[w][k]
                          /\ items[k].amountOf = bitCoinValue
    BY <1>1, <1>2, <1>3 DEF Items
  <1>5. items \in [1 .. n -> Items]
    <2>1. items = [k \in 1 .. n |-> items[k]]
      BY <1>2
    <2> QED
      BY <1>4, <2>1
  <1>6. items \in Seq(Items) /\ Len(items) = n
    BY <1>5
  <1>7. Once(items)
    BY <1>2, <1>4, <1>6, OneLine DEF Once
  <1>8. ASSUME NEW c \in Coins
        PROVE  Said(items, c) = IF c \in ToSet(Balances[w]) THEN bitCoinValue ELSE 0
    <2>1. CASE c \in ToSet(Balances[w])
      <3>1. PICK k \in 1 .. n : Balances[w][k] = c
        BY <1>2, <2>1, OneLine
      <3>2. Said(items, c) = items[k].amountOf
        BY <1>4, <1>6, <1>7, <3>1, SaidItem
      <3> QED
        BY <1>4, <2>1, <3>2
    <2>2. CASE c \notin ToSet(Balances[w])
      <3>1. \A k \in 1 .. Len(items) : items[k].coin # c
        BY <1>2, <1>4, <1>6, <2>2, OneLine
      <3> QED
        BY <1>6, <1>7, <2>2, <3>1, SaidIs
    <2> QED
      BY <2>1, <2>2
  <1>9. Worth(items) = Len(Balances[w]) * bitCoinValue
    <2>1. PICK F : F = [c \in Coins |-> Said(items, c)]
      OBVIOUS
    <2>2. PICK E \in SUBSET Coins : E = ToSet(Balances[w]) /\ Cardinality(E) = Len(Balances[w])
      BY LineCounts
    <2>3. \A c \in Coins : F[c] = IF c \in E THEN bitCoinValue ELSE 0
      BY <1>8, <2>1, <2>2
    <2>4. F \in [Coins -> Int] /\ bitCoinValue \in Int
      BY <1>1, <2>1, <2>3
    <2>5. IsFiniteSet(Coins) /\ (\A c \in E : F[c] = bitCoinValue) /\ (\A c \in Coins \ E : F[c] = 0)
      BY <2>3, LedgerAssumption
    <2>6. SumFunction(F) = Cardinality(E) * bitCoinValue
      BY <2>4, <2>5, SumCount
    <2> QED
      BY <2>1, <2>2, <2>6 DEF Worth
  <1> QED
    BY <1>1, <1>4, <1>6, <1>7, <1>8, <1>9

LEMMA BooksBegin == Init => BooksInv
  <1> SUFFICES ASSUME Init PROVE BooksInv
    OBVIOUS
  <1>1. call = NoCall /\ call.pc = "idle" /\ call.amount = 0 /\ call.tmpAmount = 0
    BY DEF Init, NoCall
  <1>2. CallTyped /\ Walked
    BY <1>1 DEF CallTyped, Walked, Running, AtCoin
  <1>3. \A w \in Wallets : Booked(w) = 0
    BY <1>1 DEF Booked
  <1>4. \A w \in Wallets, c \in Coins : Ahead(w, c) = 0
    BY <1>1 DEF Ahead, AtCoin
  <1>5. bitCoinValue \in Nat \ {0}
    BY LedgerAssumption
  <1>6. ASSUME NEW w \in Wallets
        PROVE  amount[w] \in Nat /\ amount[w] = Len(Balances[w]) * bitCoinValue
    <2>1. PICK n \in Nat : n = Len(Balances[w])
      BY OneLine
    <2>2. n * bitCoinValue \in Nat
      BY <1>5
    <2> QED
      BY <2>1, <2>2 DEF Init
  <1>7. amount \in [Wallets -> Nat]
    <2>1. amount = [w \in Wallets |-> amount[w]]
      BY DEF Init
    <2> QED
      BY <1>6, <2>1
  <1>8. ASSUME NEW w \in Wallets
        PROVE  /\ bcl[w] \in Seq(Items) /\ Once(bcl[w])
               /\ \A k \in 1 .. Len(bcl[w]) : bcl[w][k].amountOf # 0
               /\ \A c \in Coins : Said(bcl[w], c) = IF c \in ToSet(Balances[w])
                                                     THEN bitCoinValue ELSE 0
               /\ Worth(bcl[w]) = Len(Balances[w]) * bitCoinValue
    <2>1. bcl[w] = [k \in 1 .. Len(Balances[w]) |->
                      [coin |-> Balances[w][k], amountOf |-> bitCoinValue]]
      BY DEF Init
    <2> QED
      BY <2>1, NewList
  <1>9. bcl \in [Wallets -> Seq(Items)]
    <2>1. bcl = [w \in Wallets |-> bcl[w]]
      BY DEF Init
    <2> QED
      BY <1>8, <2>1
  <1>10. ASSUME NEW c \in Coins
         PROVE  \E w \in Wallets :
                   /\ c \in ToSet(Balances[w]) /\ Grown(tree[c])
                   /\ \A W : Held(tree[c], Paths, W) = IF w \in W THEN bitCoinValue ELSE 0
    <2>1. PICK w : w = CHOOSE v \in Wallets : c \in ToSet(Balances[v])
      OBVIOUS
    <2>2. w \in Wallets /\ c \in ToSet(Balances[w])
      BY <2>1, OneLine
    <2>3. tree[c] = [node \in {Root} |-> [owner |-> w, amount |-> bitCoinValue, trans |-> NoTrans]]
      BY <2>1 DEF Init
    <2> QED
      BY <2>2, <2>3, NewTree
  <1>11. DOMAIN tree = Coins /\ tree = [c \in Coins |-> tree[c]]
    BY DEF Init
  <1>12. numOfTransactions \in [Coins -> Nat]
    BY DEF Init
  <1>13. BooksTyped
    BY <1>7, <1>8, <1>9, <1>10, <1>11, <1>12 DEF BooksTyped
  <1>14. \A c \in Coins : Held(tree[c], Paths, Wallets) = bitCoinValue
    BY <1>10
  <1>15. ASSUME NEW w \in Wallets, NEW c \in Coins
         PROVE  Held(tree[c], Paths, {w}) = Said(bcl[w], c) + Ahead(w, c)
    <2>1. PICK v \in Wallets :
             /\ c \in ToSet(Balances[v])
             /\ \A W : Held(tree[c], Paths, W) = IF v \in W THEN bitCoinValue ELSE 0
      BY <1>10
    <2>2. Held(tree[c], Paths, {w}) = IF v = w THEN bitCoinValue ELSE 0
      BY <2>1
    <2>3. v = w <=> c \in ToSet(Balances[w])
      BY <2>1, OneLine
    <2>4. Said(bcl[w], c) = IF v = w THEN bitCoinValue ELSE 0
      BY <1>8, <2>3
    <2> QED
      BY <1>4, <1>5, <2>2, <2>4
  <1>16. ASSUME NEW w \in Wallets PROVE Wealth(w) = amount[w] + Booked(w)
    <2>1. Wealth(w) = Worth(bcl[w])
      BY DEF Wealth, Worth
    <2> QED
      BY <1>3, <1>6, <1>8, <2>1
  <1>17. Books
    BY <1>8, <1>14, <1>15, <1>16 DEF Books
  <1> QED
    BY <1>2, <1>13, <1>17 DEF BooksInv

--------------------------------------------------------------------------------

\* BooksInv is an invariant: loop step by loop step the lists follow the trees
\* and the balances follow the lists (makeTransaction, makeBCTransaction).
THEOREM BooksInvariance == Spec => []BooksInv
  <1>1. BooksInv /\ [Next]_vars => BooksInv'
    <2> SUFFICES ASSUME BooksInv, [Next]_vars PROVE BooksInv'
      OBVIOUS
    <2>1. CASE FileTransaction
      BY <2>1, FileKeeps
    <2>2. CASE requestTransaction
      BY <2>2, RequestKeeps
    <2>3. CASE EndOfFile
      BY <2>3, NothingMoves DEF EndOfFile, bookVars
    <2>4. CASE makeBCTransaction
      BY <2>4, FirstKeeps, EnterKeeps, DescendKeeps, VisitKeeps, EndKeeps DEF makeBCTransaction
    <2>5. CASE AskCoin
      BY <2>5, AskKeeps
    <2>6. CASE CoinSuffices
      BY <2>6, SufficesKeeps
    <2>7. CASE CoinUsedUp
      BY <2>7, UsedUpKeeps
    <2>8. CASE TransactionDone
      BY <2>8, DoneKeeps
    <2>9. CASE UNCHANGED vars
      BY <2>9, NothingMoves DEF vars, bookVars
    <2> QED
      BY <2>1, <2>2, <2>3, <2>4, <2>5, <2>6, <2>7, <2>8, <2>9 DEF Next, makeTransaction
  <1> QED
    BY <1>1, BooksBegin, PTL DEF Spec

\* What the wallets of two groups hold together.
LEMMA HeldParts ==
  ASSUME NEW tr, Grown(tr), NEW A, NEW V, NEW W, V \cap W = {}
  PROVE  Held(tr, A, V \cup W) = Held(tr, A, V) + Held(tr, A, W)
  <1>1. PICK D, E : D = Theirs(tr, A, V \cup W) /\ E = Theirs(tr, A, V)
    OBVIOUS
  <1>2. E \in SUBSET D /\ D \ E = Theirs(tr, A, W)
    BY <1>1 DEF Theirs
  <1>3. IsFiniteSet(D) /\ \A n \in D : tr[n].amount \in Nat
    BY <1>1, HeldTyped
  <1>4. PICK F : F = [n \in D |-> tr[n].amount]
    OBVIOUS
  <1>5. PICK G : G = [n \in E |-> tr[n].amount]
    OBVIOUS
  <1>6. PICK C : C = D \ E
    OBVIOUS
  <1>7. PICK H : H = [n \in C |-> tr[n].amount]
    OBVIOUS
  <1>8. SumFunction(F) = SumFunction(G) + SumFunction(H)
    <2>1. F \in [D -> Int]
      BY <1>3, <1>4
    <2>2. G \in [E -> Int] /\ \A n \in E : G[n] = F[n]
      BY <1>2, <1>3, <1>4, <1>5
    <2>3. H \in [C -> Int] /\ \A n \in C : H[n] = F[n]
      BY <1>3, <1>4, <1>6, <1>7
    <2>4. Parts(D, F, E, G, C, H)
      BY <1>2, <1>3, <1>6, <2>1, <2>2, <2>3 DEF Parts
    <2> QED
      BY <2>4, SumParts
  <1> QED
    BY <1>1, <1>2, <1>4, <1>5, <1>6, <1>7, <1>8 DEF Held

\* The sums of the properties are those of the invariant.
LEMMA SameSums ==
  ASSUME BooksInv
  PROVE  /\ \A c \in Coins : InTree(c, Leaves(tree[c])) = Held(tree[c], Paths, Wallets)
         /\ \A w \in Wallets, c \in Coins :
               /\ InTree(c, LeavesOf(w, c)) = Held(tree[c], Paths, {w})
               /\ AmountOf(w, c) = Said(bcl[w], c)
  <1>1. ASSUME NEW c \in Coins
        PROVE  InTree(c, Leaves(tree[c])) = Held(tree[c], Paths, Wallets)
    <2>1. \A n \in Leaves(tree[c]) : n \in Paths /\ tree[c][n] \in Nodes
      BY BookFacts, LeafFacts
    <2>2. \A n \in Leaves(tree[c]) : tree[c][n].owner \in Wallets
      BY <2>1 DEF Nodes
    <2>3. Leaves(tree[c]) = Theirs(tree[c], Paths, Wallets)
      BY <2>1, <2>2 DEF Theirs
    <2> QED
      BY <2>3 DEF InTree, Held
  <1>2. ASSUME NEW w \in Wallets, NEW c \in Coins
        PROVE  InTree(c, LeavesOf(w, c)) = Held(tree[c], Paths, {w})
    <2>1. \A n \in Leaves(tree[c]) : n \in Paths
      BY BookFacts, LeafFacts
    <2>2. LeavesOf(w, c) = Theirs(tree[c], Paths, {w})
      BY <2>1 DEF Theirs, LeavesOf
    <2> QED
      BY <2>2 DEF InTree, Held
  <1>3. \A w \in Wallets, c \in Coins : AmountOf(w, c) = Said(bcl[w], c)
    BY DEF AmountOf, Said
  <1> QED
    BY <1>1, <1>2, <1>3

\* The leaves of a coin's tree always add up to its value, also between the
\* splits of one walk (makeBCTransaction).
THEOREM MoneyConserved == Spec => []CoinsConserved
  <1>1. BooksInv => CoinsConserved
    BY SameSums DEF BooksInv, Books, CoinsConserved
  <1> QED
    BY <1>1, BooksInvariance, PTL

\* Between commands a wallet's amount, its list and the trees of the coins say
\* the same (makeTransaction, changeAmountsOfWallets).
THEOREM ThreeBooks == Spec => []BooksAgree
  <1>1. BooksInv => BooksAgree
    <2> SUFFICES ASSUME BooksInv, Idle, NEW w \in Wallets
                 PROVE  /\ amount[w] = SumFunction([c \in Coins |-> AmountOf(w, c)])
                        /\ \A c \in Coins : AmountOf(w, c) = InTree(c, LeavesOf(w, c))
      BY DEF BooksAgree
    <2>1. call = NoCall /\ call.pc = "idle" /\ call.amount = 0 /\ call.tmpAmount = 0
      BY DEF BooksInv, CallTyped, Running, Idle, NoCall
    <2>2. Booked(w) = 0 /\ \A c \in Coins : Ahead(w, c) = 0
      BY <2>1 DEF Booked, Ahead, AtCoin
    <2>3. /\ Wealth(w) = amount[w] + Booked(w) /\ amount[w] \in Nat
          /\ \A c \in Coins : Held(tree[c], Paths, {w}) = Said(bcl[w], c) + Ahead(w, c)
          /\ \A c \in Coins : Said(bcl[w], c) \in Nat
      BY BookFacts DEF BooksInv, Books
    <2>4. \A c \in Coins : AmountOf(w, c) = InTree(c, LeavesOf(w, c))
      <3> SUFFICES ASSUME NEW c \in Coins PROVE AmountOf(w, c) = InTree(c, LeavesOf(w, c))
        OBVIOUS
      <3>1. AmountOf(w, c) = Said(bcl[w], c) /\ InTree(c, LeavesOf(w, c)) = Held(tree[c], Paths, {w})
        BY SameSums
      <3>2. Held(tree[c], Paths, {w}) = Said(bcl[w], c) + 0 /\ Said(bcl[w], c) \in Nat
        BY <2>2, <2>3
      <3> QED
        BY <3>1, <3>2
    <2>5. [c \in Coins |-> AmountOf(w, c)] = [c \in Coins |-> Said(bcl[w], c)]
      BY SameSums
    <2>6. Wealth(w) = SumFunction([c \in Coins |-> AmountOf(w, c)])
      BY <2>5 DEF Wealth
    <2> QED
      BY <2>2, <2>3, <2>4, <2>6
  <1> QED
    BY <1>1, BooksInvariance, PTL

\* The loop over the sender's coins never follows the end of the list.
NeverCrashed == call.pc # "crashed"

\* senderHasEnough looks at the balance alone, and that is enough: makeTransaction
\* finds the money in the list and does not read past its end.
THEOREM NoCrash == Spec => []NeverCrashed
  <1>1. BooksInv => NeverCrashed
    BY DEF BooksInv, CallTyped, CallType, Running, NeverCrashed
  <1> QED
    BY <1>1, BooksInvariance, PTL

--------------------------------------------------------------------------------
(* The tables and the balances. *)

TypesInv ==
    /\ senderHT \in [Wallets -> Seq(Transactions)]
    /\ receiverHT \in [Wallets -> Seq(Transactions)]
    /\ maxID \in 0 .. MaxID /\ lastDateTime \in Nat /\ phase \in {"file", "commands"}

\* A transaction is in both tables before the balances change.
Pending(w) == IF w = call.rcvr THEN 0 - call.amount
              ELSE IF w = call.sndr THEN call.amount ELSE 0

Explained ==
    \A w \in Wallets : amount[w] = Len(Balances[w]) * bitCoinValue
                                   + Total(receiverHT[w]) - Total(senderHT[w]) + Pending(w)

\* No date of a command is before the epoch, although ReadDates goes back to
\* the day before the first of the month.
LEMMA DatesNatural == TypedDates \subseteq Nat /\ ReadDates \subseteq Nat
  <1>1. PICK L \in Nat : L = DayLength /\ L > 0
    BY LedgerAssumption DEF DayLength
  <1>2. PICK M \in Nat : M = DaysPerMonth /\ M > 0
    BY LedgerAssumption
  <1>3. DaysPerMonth * HoursPerDay * MinutesPerHour = M * L
    BY <1>1, <1>2, LedgerAssumption DEF DayLength
  <1>4. ASSUME NEW date \in Dates PROVE date - tm_mday(date) * DayLength \in Nat
    <2>1. date \in Nat /\ date > M * L
      BY <1>3, LedgerAssumption
    <2>2. PICK d \in Int : d = date \div L
      BY <1>1, <2>1
    <2>3. PICK t \in Nat : t = (d % M) + 1 /\ t <= M
      BY <1>2, <2>2
    <2>4. tm_mday(date) = t
      BY <1>1, <1>2, <2>2, <2>3 DEF tm_mday
    <2>5. t * L <= M * L /\ t * L \in Nat /\ M * L \in Nat
      <3>1. PICK r \in Nat : r = M - t
        BY <1>2, <2>3
      <3>2. M * L = t * L + r * L
        BY <1>1, <1>2, <2>3, <3>1
      <3>3. r * L \in Nat /\ t * L \in Nat
        BY <1>1, <2>3, <3>1
      <3> QED
        BY <3>2, <3>3
    <2>6. date - t * L \in Nat
      BY <2>1, <2>5
    <2> QED
      BY <1>1, <2>4, <2>6
  <1> QED
    BY <1>4, LedgerAssumption DEF TypedDates, ReadDates, NoDate

\* The sum of the values of a list of transactions.
LEMMA TotalIs ==
  ASSUME NEW s \in Seq(Transactions)
  PROVE  Total(s) \in Int
  <1>1. PICK D : D = 1 .. Len(s)
    OBVIOUS
  <1>2. PICK F : F = [k \in D |-> s[k].value]
    OBVIOUS
  <1>3. ASSUME NEW k \in D PROVE s[k].value \in Nat
    <2>1. s[k] \in Transactions
      BY <1>1
    <2> QED
      BY <2>1 DEF Transactions
  <1>4. F \in [D -> Int]
    BY <1>2, <1>3
  <1>5. IsFiniteSet(D)
    BY <1>1, FS_Interval
  <1>6. Total(s) = SumFunction(F)
    BY <1>1, <1>2 DEF Total
  <1> QED
    BY <1>4, <1>5, <1>6, SumIsInt

LEMMA TotalGrows ==
  ASSUME NEW s \in Seq(Transactions), NEW t \in Transactions
  PROVE  Total(Append(s, t)) = Total(s) + t.value
  <1>1. PICK n \in Nat : n = Len(s)
    OBVIOUS
  <1>2. PICK x \in Seq(Transactions) : x = Append(s, t)
    <2>1. Append(s, t) \in Seq(Transactions)
      OBVIOUS
    <2> QED
      BY <2>1
  <1>3. Len(x) = n + 1 /\ x[n + 1] = t /\ \A k \in 1 .. n : x[k] = s[k]
    BY <1>1, <1>2
  <1>4. PICK D : D = 1 .. n
    OBVIOUS
  <1>5. PICK d : d = n + 1
    OBVIOUS
  <1>6. 1 .. Len(x) = D \cup {d} /\ d \notin D
    BY <1>3, <1>4, <1>5
  <1>7. PICK F : F = [k \in D |-> s[k].value]
    OBVIOUS
  <1>8. PICK G : G = [k \in D \cup {d} |-> x[k].value]
    OBVIOUS
  <1>9. Total(s) = SumFunction(F) /\ Total(x) = SumFunction(G)
    BY <1>1, <1>4, <1>6, <1>7, <1>8 DEF Total
  <1>10. ASSUME NEW k \in D \cup {d} PROVE x[k].value \in Int
    <2>1. x[k] \in Transactions
      BY <1>6
    <2> QED
      BY <2>1 DEF Transactions
  <1>11. \A k \in D : s[k].value = x[k].value
    BY <1>3, <1>4
  <1>12. F \in [D -> Int] /\ G \in [D \cup {d} -> Int] /\ \A k \in D : G[k] = F[k]
    BY <1>7, <1>8, <1>10, <1>11
  <1>13. IsFiniteSet(D)
    BY <1>4, FS_Interval
  <1>14. SumFunction(G) = SumFunction(F) + G[d]
    <2>1. OneMore(D, F, d, G)
      BY <1>6, <1>12, <1>13 DEF OneMore
    <2> QED
      BY <2>1, SumGrows
  <1>15. G[d] = t.value
    BY <1>3, <1>5, <1>8
  <1> QED
    BY <1>2, <1>9, <1>14, <1>15

LEMMA TotalNone == Total(<<>>) = 0
  <1>1. PICK F : F = [k \in {} |-> <<>>[k].value]
    OBVIOUS
  <1>2. Len(<<>>) = 0 /\ 1 .. 0 = {}
    OBVIOUS
  <1>3. F \in [{} -> Int]
    BY <1>1
  <1>4. SumFunction(F) = 0
    BY <1>3, FS_EmptySet, SumIsInt
  <1> QED
    BY <1>1, <1>2, <1>4 DEF Total

\* One more transaction in a table, and what it does to the totals.
TotalsMoved(table, w, t, new) ==
    /\ new \in [Wallets -> Seq(Transactions)]
    /\ \A v \in Wallets : Total(new[v]) = Total(table[v]) + (IF v = w THEN t.value ELSE 0)
    /\ \A v \in Wallets : Total(table[v]) \in Int

LEMMA TotalsMove ==
  ASSUME NEW table \in [Wallets -> Seq(Transactions)], NEW w \in Wallets, NEW t \in Transactions,
         NEW new, new = [table EXCEPT ![w] = Append(@, t)]
  PROVE  TotalsMoved(table, w, t, new)
  <1>1. Append(table[w], t) \in Seq(Transactions)
    OBVIOUS
  <1>2. /\ new \in [Wallets -> Seq(Transactions)] /\ new[w] = Append(table[w], t)
        /\ \A v \in Wallets \ {w} : new[v] = table[v]
    BY <1>1
  <1>3. \A v \in Wallets : Total(table[v]) \in Int
    BY TotalIs
  <1>4. Total(new[w]) = Total(table[w]) + t.value
    BY <1>2, TotalGrows
  <1>5. ASSUME NEW v \in Wallets
        PROVE  Total(new[v]) = Total(table[v]) + (IF v = w THEN t.value ELSE 0)
    <2>1. CASE v = w
      BY <1>4, <2>1
    <2>2. CASE v # w
      <3>1. Total(new[v]) = Total(table[v])
        BY <1>2, <2>2
      <3> QED
        BY <1>3, <2>2, <3>1
    <2> QED
      BY <2>1, <2>2
  <1> QED
    BY <1>2, <1>3, <1>5 DEF TotalsMoved

\* A transaction is recorded.
LEMMA RecordExplains ==
  ASSUME BooksInv, TypesInv, Explained, call.pc = "idle", NEW s \in Wallets, NEW r \in Wallets,
         s # r, NEW value \in Nat, NEW id \in 1 .. MaxID, NEW date \in Nat,
         Record(id, s, r, value, date)
  PROVE  /\ senderHT' \in [Wallets -> Seq(Transactions)]
         /\ receiverHT' \in [Wallets -> Seq(Transactions)]
         /\ Explained'
  <1>0. PICK t : t = [id |-> id, from |-> s, to |-> r, value |-> value, date |-> date]
    OBVIOUS
  <1>1. t \in Transactions /\ t.value = value
    BY <1>0 DEF Transactions
  <1>2. /\ senderHT' = [senderHT EXCEPT ![s] = Append(@, t)]
        /\ receiverHT' = [receiverHT EXCEPT ![r] = Append(@, t)]
        /\ amount' = amount
    BY <1>0 DEF Record, bookVars
  <1>3. /\ senderHT' \in [Wallets -> Seq(Transactions)]
        /\ \A v \in Wallets : Total(senderHT'[v]) = Total(senderHT[v]) + (IF v = s THEN value ELSE 0)
        /\ \A v \in Wallets : Total(senderHT[v]) \in Int
    <2>1. senderHT \in [Wallets -> Seq(Transactions)]
      BY DEF TypesInv
    <2>2. TotalsMoved(senderHT, s, t, senderHT')
      BY <1>1, <1>2, <2>1, TotalsMove
    <2> QED
      BY <1>1, <2>2 DEF TotalsMoved
  <1>4. /\ receiverHT' \in [Wallets -> Seq(Transactions)]
        /\ \A v \in Wallets :
              Total(receiverHT'[v]) = Total(receiverHT[v]) + (IF v = r THEN value ELSE 0)
        /\ \A v \in Wallets : Total(receiverHT[v]) \in Int
    <2>1. receiverHT \in [Wallets -> Seq(Transactions)]
      BY DEF TypesInv
    <2>2. TotalsMoved(receiverHT, r, t, receiverHT')
      BY <1>1, <1>2, <2>1, TotalsMove
    <2> QED
      BY <1>1, <2>2 DEF TotalsMoved
  <1>5. call'.sndr = s /\ call'.rcvr = r /\ call'.amount = value
    BY DEF Record, NoCall
  <1>6. call.amount = 0
    BY DEF BooksInv, CallTyped, Running, NoCall
  <1>7. ASSUME NEW w \in Wallets
        PROVE  amount'[w] = Len(Balances[w]) * bitCoinValue
                            + Total(receiverHT'[w]) - Total(senderHT'[w]) + Pending(w)'
    <2>1. PICK b \in Int : b = Len(Balances[w]) * bitCoinValue
      <3>1. PICK n \in Nat : n = Len(Balances[w])
        BY OneLine
      <3> QED
        BY <3>1, LedgerAssumption
    <2>2. PICK x \in Int, y \in Int : x = Total(receiverHT[w]) /\ y = Total(senderHT[w])
      BY <1>3, <1>4
    <2>3. Pending(w) = 0
      BY <1>6 DEF Pending
    <2>4. amount[w] = b + x - y + 0
      BY <2>1, <2>2, <2>3 DEF Explained
    <2>5. Pending(w)' = IF w = r THEN 0 - value ELSE IF w = s THEN value ELSE 0
      BY <1>5 DEF Pending
    <2>6. /\ Total(receiverHT'[w]) = x + (IF w = r THEN value ELSE 0)
          /\ Total(senderHT'[w]) = y + (IF w = s THEN value ELSE 0)
      BY <1>3, <1>4, <2>2
    <2>7. amount'[w] = b + Total(receiverHT'[w]) - Total(senderHT'[w]) + Pending(w)'
      BY <1>2, <2>4, <2>5, <2>6
    <2> QED
      BY <2>1, <2>7
  <1>8. Explained'
    BY <1>7 DEF Explained
  <1> QED
    BY <1>3, <1>4, <1>8

\* The balances follow.
LEMMA DoneExplains ==
  ASSUME BooksInv, TypesInv, Explained, TransactionDone
  PROVE  Explained'
  <1>1. Running
    BY DEF TransactionDone, Running
  <1>2. /\ call.sndr \in Wallets /\ call.rcvr \in Wallets /\ call.sndr # call.rcvr
        /\ call.amount \in Nat
    BY <1>1, RunFacts
  <1>3. /\ call' = NoCall /\ senderHT' = senderHT /\ receiverHT' = receiverHT
        /\ amount' = [amount EXCEPT ![call.sndr] = @ - call.amount,
                                    ![call.rcvr] = @ + call.amount]
    BY DEF TransactionDone, changeAmountsOfWallets, htVars
  <1>4. amount \in [Wallets -> Nat]
    BY DEF BooksInv, BooksTyped
  <1>5. ASSUME NEW w \in Wallets
        PROVE  amount'[w] = Len(Balances[w]) * bitCoinValue
                            + Total(receiverHT'[w]) - Total(senderHT'[w]) + Pending(w)'
    <2>1. PICK b \in Int : b = Len(Balances[w]) * bitCoinValue
      <3>1. PICK n \in Nat : n = Len(Balances[w])
        BY OneLine
      <3> QED
        BY <3>1, LedgerAssumption
    <2>2. PICK x \in Int, y \in Int : x = Total(receiverHT[w]) /\ y = Total(senderHT[w])
      BY TotalIs DEF TypesInv
    <2>3. Pending(w)' = 0
      BY <1>3 DEF Pending, NoCall
    <2>4. amount[w] = b + x - y + Pending(w)
      BY <2>1, <2>2 DEF Explained
    <2>5. amount'[w] = amount[w] - Pending(w) /\ Pending(w) \in Int
      BY <1>2, <1>3, <1>4 DEF Pending
    <2>6. amount'[w] = b + x - y + Pending(w)'
      BY <2>3, <2>4, <2>5
    <2> QED
      BY <1>3, <2>1, <2>2, <2>6
  <1> QED
    BY <1>5 DEF Explained

\* TypesInv and Explained are invariants, given the books.
THEOREM TablesExplain == Spec => [](TypesInv /\ Explained)
  <1>1. Init => TypesInv /\ Explained
    <2> SUFFICES ASSUME Init PROVE TypesInv /\ Explained
      OBVIOUS
    <2>1. TypesInv
      BY LedgerAssumption DEF Init, TypesInv, NoTrans, NoDate
    <2>2. ASSUME NEW w \in Wallets
          PROVE  amount[w] = Len(Balances[w]) * bitCoinValue
                             + Total(receiverHT[w]) - Total(senderHT[w]) + Pending(w)
      <3>1. PICK b \in Int : b = Len(Balances[w]) * bitCoinValue
        <4>1. PICK n \in Nat : n = Len(Balances[w])
          BY OneLine
        <4> QED
          BY <4>1, LedgerAssumption
      <3>2. Total(receiverHT[w]) = 0 /\ Total(senderHT[w]) = 0
        BY TotalNone DEF Init
      <3>3. Pending(w) = 0
        BY DEF Pending, Init, NoCall
      <3>4. amount[w] = b
        BY <3>1 DEF Init
      <3> QED
        BY <3>1, <3>2, <3>3, <3>4
    <2> QED
      BY <2>1, <2>2 DEF Explained
  <1>2. BooksInv /\ TypesInv /\ Explained /\ [Next]_vars => TypesInv' /\ Explained'
    <2> SUFFICES ASSUME BooksInv, TypesInv, Explained, [Next]_vars
                 PROVE  TypesInv' /\ Explained'
      OBVIOUS
    <2>1. CASE FileTransaction
      <3>1. PICK s \in Wallets, r \in Wallets, id \in 1 .. MaxID, date \in Dates :
               \E value \in 0 .. amount[s] + 1 :
                  /\ s # r /\ Record(id, s, r, value, date)
                  /\ maxID' = IF id > maxID THEN id ELSE maxID
                  /\ lastDateTime' = date
        BY <2>1 DEF FileTransaction
      <3>2. PICK value \in 0 .. amount[s] + 1 :
                  /\ s # r /\ Record(id, s, r, value, date)
                  /\ maxID' = IF id > maxID THEN id ELSE maxID
                  /\ lastDateTime' = date
        BY <3>1
      <3>3. call.pc = "idle" /\ value \in Nat /\ date \in Nat /\ phase' = phase
        BY <2>1, LedgerAssumption DEF FileTransaction
      <3>4. /\ senderHT' \in [Wallets -> Seq(Transactions)]
            /\ receiverHT' \in [Wallets -> Seq(Transactions)] /\ Explained'
        BY <3>2, <3>3, RecordExplains
      <3>5. maxID' \in 0 .. MaxID
        BY <3>2, LedgerAssumption DEF TypesInv
      <3> QED
        BY <3>2, <3>3, <3>4, <3>5 DEF TypesInv
    <2>2. CASE requestTransaction
      <3>1. PICK s \in Wallets, r \in Wallets, given \in TypedDates \cup ReadDates,
                 clock \in Dates :
               \E value \in 1 .. amount[s] + 1, id \in 1 .. MaxID :
                  /\ s # r /\ newID(id)
                  /\ Record(id, s, r, value, IF given = NoDate THEN clock ELSE given)
                  /\ lastDateTime' = IF given = NoDate THEN clock ELSE given
        BY <2>2 DEF requestTransaction
      <3>2. PICK value \in 1 .. amount[s] + 1, id \in 1 .. MaxID :
                  /\ s # r /\ newID(id)
                  /\ Record(id, s, r, value, IF given = NoDate THEN clock ELSE given)
                  /\ lastDateTime' = IF given = NoDate THEN clock ELSE given
        BY <3>1
      <3>3. PICK date \in Nat : date = IF given = NoDate THEN clock ELSE given
        BY DatesNatural, LedgerAssumption
      <3>4. call.pc = "idle" /\ value \in Nat /\ phase' = phase
        BY <2>2 DEF requestTransaction
      <3>5. Record(id, s, r, value, date) /\ lastDateTime' = date /\ maxID' = id
        BY <3>2, <3>3 DEF newID
      <3>6. /\ senderHT' \in [Wallets -> Seq(Transactions)]
            /\ receiverHT' \in [Wallets -> Seq(Transactions)] /\ Explained'
        BY <3>2, <3>4, <3>5, RecordExplains
      <3>7. maxID' \in 0 .. MaxID
        BY <3>5, LedgerAssumption
      <3> QED
        BY <3>4, <3>5, <3>6, <3>7 DEF TypesInv
    <2>3. CASE EndOfFile \/ UNCHANGED vars
      <3>1. /\ senderHT' = senderHT /\ receiverHT' = receiverHT /\ amount' = amount
            /\ call' = call /\ maxID' = maxID /\ lastDateTime' = lastDateTime
            /\ phase' \in {phase, "commands"}
        BY <2>3 DEF EndOfFile, vars, bookVars, htVars, idVars
      <3> QED
        BY <3>1 DEF TypesInv, Explained, Pending
    <2>4. CASE TransactionDone
      <3>1. TypesInv'
        BY <2>4 DEF TransactionDone, TypesInv, htVars, idVars
      <3> QED
        BY <2>4, <3>1, DoneExplains
    <2>5. CASE AskCoin \/ makeBCTransaction \/ CoinSuffices \/ CoinUsedUp
      <3>1. /\ senderHT' = senderHT /\ receiverHT' = receiverHT /\ amount' = amount
            /\ maxID' = maxID /\ lastDateTime' = lastDateTime /\ phase' = phase
        BY <2>5 DEF AskCoin, makeBCTransaction, FirstUse, EnterTree, Descend, VisitLeaf, WalkEnds,
              CoinSuffices, CoinUsedUp, bookVars, htVars, idVars
      <3>2. Running
        BY <2>5 DEF AskCoin, makeBCTransaction, FirstUse, EnterTree, Descend, VisitLeaf, WalkEnds,
              CoinSuffices, CoinUsedUp, Walking, Running
      <3>3. call \in CallType
        BY <3>2 DEF BooksInv, CallTyped
      <3>5. call'.sndr = call.sndr /\ call'.rcvr = call.rcvr /\ call'.amount = call.amount
        <4>1. CASE AskCoin
          BY <3>3, <4>1 DEF AskCoin, CallType
        <4>2. CASE FirstUse \/ EnterTree \/ Descend \/ WalkEnds
          BY <3>3, <4>2 DEF FirstUse, EnterTree, Descend, WalkEnds, CallType
        <4>3. CASE VisitLeaf
          BY <3>3, <4>3 DEF VisitLeaf, CallType
        <4>4. CASE CoinSuffices \/ CoinUsedUp
          BY <3>3, <4>4 DEF CoinSuffices, CoinUsedUp, CallType
        <4> QED
          BY <2>5, <4>1, <4>2, <4>3, <4>4 DEF makeBCTransaction
      <3> QED
        BY <3>1, <3>5 DEF TypesInv, Explained, Pending
    <2> QED
      BY <2>1, <2>2, <2>3, <2>4, <2>5 DEF Next, makeTransaction
  <1> QED
    BY <1>1, <1>2, BooksInvariance, PTL DEF Spec

\* Between commands each balance is what the wallet started with, plus what it
\* received, less what it sent: a transaction that is recorded is also carried
\* out, once (addTransaction, makeTransaction).
THEOREM BalancesExplained == Spec => []HistoryExplains
  <1>1. BooksInv /\ TypesInv /\ Explained => HistoryExplains
    <2> SUFFICES ASSUME BooksInv, TypesInv, Explained, Idle, NEW w \in Wallets
                 PROVE  amount[w] = Len(Balances[w]) * bitCoinValue
                                    + Total(receiverHT[w]) - Total(senderHT[w])
      BY DEF HistoryExplains
    <2>1. PICK b \in Int : b = Len(Balances[w]) * bitCoinValue
      <3>1. PICK n \in Nat : n = Len(Balances[w])
        BY OneLine
      <3> QED
        BY <3>1, LedgerAssumption
    <2>2. PICK x \in Int, y \in Int : x = Total(receiverHT[w]) /\ y = Total(senderHT[w])
      BY TotalIs DEF TypesInv
    <2>3. Pending(w) = 0
      BY DEF BooksInv, CallTyped, Running, Idle, Pending, NoCall
    <2>4. amount[w] = b + x - y + 0
      BY <2>1, <2>2, <2>3 DEF Explained
    <2> QED
      BY <2>1, <2>2, <2>4
  <1> QED
    BY <1>1, BooksInvariance, TablesExplain, PTL

\* No item says more than the coin is worth: what the sender's list is behind
\* the tree with is already the receiver's there.
LEMMA ItemsBounded ==
  ASSUME BooksInv, NEW w \in Wallets, NEW c \in Coins
  PROVE  Said(bcl[w], c) <= bitCoinValue
  <1>1. Grown(tree[c]) /\ bitCoinValue \in Nat
    BY BookFacts, LedgerAssumption
  <1>2. \A W : Held(tree[c], Paths, W) \in Nat
    BY BookFacts
  <1>3. ASSUME NEW V \in SUBSET Wallets PROVE Held(tree[c], Paths, V) <= bitCoinValue
    <2>1. V \cup (Wallets \ V) = Wallets /\ V \cap (Wallets \ V) = {}
      OBVIOUS
    <2>2. Held(tree[c], Paths, V \cup (Wallets \ V))
            = Held(tree[c], Paths, V) + Held(tree[c], Paths, Wallets \ V)
      BY <1>1, <2>1, HeldParts
    <2>3. Held(tree[c], Paths, V \cup (Wallets \ V)) = bitCoinValue
      <3>1. Held(tree[c], Paths, Wallets) = bitCoinValue
        BY DEF BooksInv, Books
      <3> QED
        BY <2>1, <3>1
    <2>4. PICK x \in Nat, y \in Nat : /\ x = Held(tree[c], Paths, V)
                                      /\ y = Held(tree[c], Paths, Wallets \ V)
      BY <1>2
    <2> QED
      BY <1>1, <2>2, <2>3, <2>4
  <1>4. /\ \A v \in Wallets : Held(tree[c], Paths, {v}) = Said(bcl[v], c) + Ahead(v, c)
        /\ \A v \in Wallets : Said(bcl[v], c) \in Nat
    BY BookFacts DEF BooksInv, Books
  <1>5. CASE AtCoin /\ c = Coin /\ w = call.sndr
    <2>1. /\ call.rcvr \in Wallets /\ call.sndr \in Wallets /\ call.sndr # call.rcvr
          /\ call.moved \in Nat
      BY <1>5, RunFacts DEF AtCoin, Running
    <2>2. Ahead(call.sndr, c) = 0 - call.moved /\ Ahead(call.rcvr, c) = call.moved
      BY <1>5, <2>1 DEF Ahead
    <2>3. {call.sndr} \cap {call.rcvr} = {} /\ {call.sndr} \cup {call.rcvr} \in SUBSET Wallets
      BY <2>1
    <2>4. Held(tree[c], Paths, {call.sndr} \cup {call.rcvr})
            = Held(tree[c], Paths, {call.sndr}) + Held(tree[c], Paths, {call.rcvr})
      <3>1. PICK V, W : V = {call.sndr} /\ W = {call.rcvr}
        OBVIOUS
      <3>2. V \cap W = {}
        BY <2>3, <3>1
      <3>3. Held(tree[c], Paths, V \cup W) = Held(tree[c], Paths, V) + Held(tree[c], Paths, W)
        BY <1>1, <3>2, HeldParts
      <3> QED
        BY <3>1, <3>3
    <2>5. Held(tree[c], Paths, {call.sndr} \cup {call.rcvr}) <= bitCoinValue
      BY <1>3, <2>3
    <2>6. PICK x \in Nat, y \in Nat : x = Said(bcl[call.sndr], c) /\ y = Said(bcl[call.rcvr], c)
      BY <1>4, <2>1
    <2>7. /\ Held(tree[c], Paths, {call.sndr}) = x + (0 - call.moved)
          /\ Held(tree[c], Paths, {call.rcvr}) = y + call.moved
      BY <1>4, <2>1, <2>2, <2>6
    <2>8. x + y <= bitCoinValue
      BY <1>1, <2>1, <2>4, <2>5, <2>6, <2>7
    <2> QED
      BY <1>1, <1>5, <2>6, <2>8
  <1>6. CASE ~ (AtCoin /\ c = Coin /\ w = call.sndr)
    <2>1. Ahead(w, c) \in Nat
      <3>1. CASE AtCoin
        <4>1. call.moved \in Nat
          BY <3>1, RunFacts DEF AtCoin, Running
        <4> QED
          BY <1>6, <3>1, <4>1 DEF Ahead
      <3>2. CASE ~ AtCoin
        BY <3>2 DEF Ahead
      <3> QED
        BY <3>1, <3>2
    <2>2. Held(tree[c], Paths, {w}) <= bitCoinValue
      BY <1>3
    <2> QED
      BY <1>1, <1>4, <2>1, <2>2
  <1> QED
    BY <1>5, <1>6

\* Every variable has its type, whatever the program is asked to do: no amount
\* falls below zero or exceeds the value of a coin, and every node of a tree
\* stands for some money and hangs below another (makeTransaction,
\* makeBCTransaction).
THEOREM LedgerTypes == Spec => []TypeOK
  <1>1. BooksInv /\ TypesInv => TypeOK
    <2> SUFFICES ASSUME BooksInv, TypesInv PROVE TypeOK
      OBVIOUS
    <2>1. amount \in [Wallets -> Nat] /\ DOMAIN tree = Coins /\ numOfTransactions \in [Coins -> Nat]
      BY DEF BooksInv, BooksTyped
    <2>2. ASSUME NEW w \in Wallets
          PROVE  bcl[w] \in Seq([coin : Coins, amountOf : 0 .. bitCoinValue])
      <3>1. bcl[w] \in Seq(Items) /\ Once(bcl[w])
        BY BookFacts
      <3>2. ASSUME NEW k \in 1 .. Len(bcl[w])
            PROVE  bcl[w][k] \in [coin : Coins, amountOf : 0 .. bitCoinValue]
        <4>1. PICK e \in Items : e = bcl[w][k]
          BY <3>1
        <4>2. e.coin \in Coins /\ e.amountOf \in Nat /\ e = [coin |-> e.coin, amountOf |-> e.amountOf]
          BY DEF Items
        <4>3. Said(bcl[w], e.coin) = e.amountOf
          BY <3>1, <4>1, SaidItem
        <4>4. e.amountOf <= bitCoinValue
          BY <4>2, <4>3, ItemsBounded
        <4>5. e.amountOf \in 0 .. bitCoinValue
          BY <4>2, <4>4, LedgerAssumption
        <4> QED
          BY <4>1, <4>2, <4>5
      <3>3. PICK S : S = [coin : Coins, amountOf : 0 .. bitCoinValue]
        OBVIOUS
      <3>4. bcl[w] \in Seq(S)
        <4>1. \A k \in 1 .. Len(bcl[w]) : bcl[w][k] \in S
          BY <3>2, <3>3
        <4>2. bcl[w] \in [1 .. Len(bcl[w]) -> S] /\ Len(bcl[w]) \in Nat
          BY <3>1, <4>1
        <4> QED
          BY <4>2
      <3> QED
        BY <3>3, <3>4
    <2>3. bcl \in [Wallets -> Seq([coin : Coins, amountOf : 0 .. bitCoinValue])]
      <3>1. PICK S : S = Seq([coin : Coins, amountOf : 0 .. bitCoinValue])
        OBVIOUS
      <3>2. bcl = [w \in Wallets |-> bcl[w]]
        BY DEF BooksInv, BooksTyped
      <3>3. \A w \in Wallets : bcl[w] \in S
        BY <2>2, <3>1
      <3>4. bcl \in [Wallets -> S]
        BY <3>2, <3>3
      <3> QED
        BY <3>1, <3>4
    <2>4. ASSUME NEW c \in Coins, NEW node \in DOMAIN tree[c]
          PROVE  /\ tree[c][node] \in Nodes
                 /\ node = Root \/ Front(node) \in DOMAIN tree[c]
      <3>1. /\ tree[c][node] \in Nodes /\ node \in Paths
            /\ \A k \in 0 .. Len(node) : SubSeq(node, 1, k) \in DOMAIN tree[c]
        BY BookFacts DEF Grown
      <3>2. node # Root => Len(node) - 1 \in 0 .. Len(node)
        BY <3>1 DEF Root, Paths
      <3> QED
        BY <3>1, <3>2 DEF Front
    <2>5. /\ call.pc \in {"idle", "list", "coin", "walk", "return", "crashed"}
          /\ call.tmpAmount \in Nat /\ call.want \in Nat /\ call.moved \in Nat
      <3>1. CASE Running
        BY <3>1, RunFacts
      <3>2. CASE ~ Running
        BY <3>2 DEF BooksInv, CallTyped, NoCall
      <3> QED
        BY <3>1, <3>2
    <2> QED
      BY <2>1, <2>3, <2>4, <2>5 DEF TypesInv, TypeOK
  <1> QED
    BY <1>1, BooksInvariance, TablesExplain, PTL
--------------------------------------------------------------------------------
(* Sorting and searching: merge, mergeSort and findWallet. *)

Runs == Seq(Wallets) \X Seq(Wallets)

\* The order that sortWallets makes and that findWallet halves.
Rising(s) == \A j, k \in 1 .. Len(s) : j < k => Rank[s[j]] < Rank[s[k]]

\* What a sequence holds.
LEMMA Holds ==
  ASSUME NEW s \in Seq(Wallets)
  PROVE  /\ ToSet(s) \subseteq Wallets
         /\ \A w : (w \in ToSet(s) <=> \E k \in 1 .. Len(s) : s[k] = w)
  BY DEF ToSet

LEMMA Ranks ==
  ASSUME NEW v \in Wallets \cup {Unknown}, NEW w \in Wallets \cup {Unknown}
  PROVE  /\ Rank[v] \in Nat
         /\ v # w /\ ~ Rank[v] < Rank[w] => Rank[w] < Rank[v]
  BY LedgerAssumption

\* The head of a run and the rest of it.
LEMMA Rest ==
  ASSUME NEW s \in Seq(Wallets), s # <<>>
  PROVE  /\ Head(s) \in Wallets /\ Head(s) = s[1]
         /\ Tail(s) \in Seq(Wallets) /\ Len(Tail(s)) = Len(s) - 1
         /\ Len(s) \in Nat \ {0}
         /\ ToSet(s) = {Head(s)} \cup ToSet(Tail(s))
         /\ Rising(s) => /\ Rising(Tail(s))
                            /\ \A w \in ToSet(Tail(s)) : Rank[Head(s)] < Rank[w]
  <1>1. /\ Head(s) \in Wallets /\ Head(s) = s[1]
        /\ Tail(s) \in Seq(Wallets) /\ Len(Tail(s)) = Len(s) - 1
        /\ Len(s) \in Nat \ {0}
    BY HeadTailProperties
  <1>2. \A k \in 1 .. Len(Tail(s)) : Tail(s)[k] = s[k + 1] /\ k + 1 \in 1 .. Len(s)
    BY <1>1, HeadTailProperties
  <1>3. 1 \in 1 .. Len(s)
    BY <1>1
  <1>4. ASSUME NEW k \in 1 .. Len(s), k # 1
        PROVE  k - 1 \in 1 .. Len(Tail(s)) /\ Tail(s)[k - 1] = s[k]
    <2>1. k - 1 \in 1 .. Len(Tail(s)) /\ (k - 1) + 1 = k
      BY <1>1, <1>4
    <2> QED
      BY <1>2, <2>1
  <1>5. ToSet(s) = {Head(s)} \cup ToSet(Tail(s))
    <2>1. ASSUME NEW w \in ToSet(s) PROVE w = Head(s) \/ w \in ToSet(Tail(s))
      <3>1. PICK k \in 1 .. Len(s) : s[k] = w
        BY Holds
      <3>2. k # 1 => \E j \in 1 .. Len(Tail(s)) : Tail(s)[j] = w
        BY <1>4, <3>1
      <3> QED
        BY <1>1, <3>1, <3>2, Holds
    <2>2. ASSUME NEW w \in ToSet(Tail(s)) PROVE w \in ToSet(s)
      <3>1. PICK k \in 1 .. Len(Tail(s)) : Tail(s)[k] = w
        BY <1>1, Holds
      <3> QED
        BY <1>2, <3>1, Holds
    <2>3. Head(s) \in ToSet(s)
      BY <1>1, <1>3, Holds
    <2> QED
      BY <2>1, <2>2, <2>3
  <1>6. ASSUME Rising(s) PROVE Rising(Tail(s))
    <2>1. SUFFICES ASSUME NEW j \in 1 .. Len(Tail(s)), NEW k \in 1 .. Len(Tail(s)), j < k
                   PROVE  Rank[Tail(s)[j]] < Rank[Tail(s)[k]]
      BY DEF Rising
    <2>2. j + 1 < k + 1
      BY <2>1
    <2> QED
      BY <1>2, <1>6, <2>2 DEF Rising
  <1>7. ASSUME Rising(s), NEW w \in ToSet(Tail(s)) PROVE Rank[Head(s)] < Rank[w]
    <2>1. PICK k \in 1 .. Len(Tail(s)) : Tail(s)[k] = w
      BY <1>1, <1>7, Holds
    <2>2. 1 < k + 1
      BY <2>1
    <2> QED
      BY <1>1, <1>2, <1>3, <1>7, <2>1, <2>2 DEF Rising
  <1> QED
    BY <1>1, <1>5, <1>6, <1>7

\* A head put before a run that is above it.
LEMMA Before ==
  ASSUME NEW w \in Wallets, NEW s \in Seq(Wallets), Rising(s),
         \A v \in ToSet(s) : Rank[w] < Rank[v]
  PROVE  /\ <<w>> \o s \in Seq(Wallets)
         /\ Rising(<<w>> \o s)
         /\ ToSet(<<w>> \o s) = {w} \cup ToSet(s)
  <1>1. PICK t : t = <<w>> \o s
    OBVIOUS
  <1>2. /\ t \in Seq(Wallets) /\ Len(t) = Len(s) + 1 /\ Len(s) \in Nat /\ t[1] = w
        /\ \A k \in 1 .. Len(s) : t[k + 1] = s[k]
    BY <1>1
  <1>3. ASSUME NEW k \in 1 .. Len(t), k # 1 PROVE k - 1 \in 1 .. Len(s) /\ t[k] = s[k - 1]
    <2>1. k - 1 \in 1 .. Len(s) /\ (k - 1) + 1 = k
      BY <1>2, <1>3
    <2> QED
      BY <1>2, <2>1
  <1>4. Rising(t)
    <2>1. SUFFICES ASSUME NEW j \in 1 .. Len(t), NEW k \in 1 .. Len(t), j < k
                   PROVE  Rank[t[j]] < Rank[t[k]]
      BY DEF Rising
    <2>2. k # 1
      BY <2>1
    <2>3. s[k - 1] \in ToSet(s)
      BY <1>3, <2>2, Holds
    <2>4. CASE j = 1
      BY <1>2, <1>3, <2>2, <2>3, <2>4
    <2>5. CASE j # 1
      <3>1. j - 1 < k - 1
        BY <2>1
      <3> QED
        BY <1>3, <2>2, <2>5, <3>1 DEF Rising
    <2> QED
      BY <2>4, <2>5
  <1>5. ToSet(t) = {w} \cup ToSet(s)
    <2>1. ASSUME NEW v \in ToSet(t) PROVE v = w \/ v \in ToSet(s)
      <3>1. PICK k \in 1 .. Len(t) : t[k] = v
        BY <1>2, Holds
      <3>2. CASE k = 1
        BY <1>2, <3>1, <3>2
      <3>3. CASE k # 1
        BY <1>3, <3>1, <3>3, Holds
      <3> QED
        BY <3>2, <3>3
    <2>2. ASSUME NEW v \in ToSet(s) PROVE v \in ToSet(t)
      <3>1. PICK k \in 1 .. Len(s) : s[k] = v
        BY Holds
      <3>2. k + 1 \in 1 .. Len(t)
        BY <1>2
      <3> QED
        BY <1>2, <3>1, <3>2, Holds
    <2>3. w \in ToSet(t)
      <3>1. 1 \in 1 .. Len(t)
        BY <1>2
      <3> QED
        BY <1>2, <3>1, Holds
    <2> QED
      BY <2>1, <2>2, <2>3
  <1> QED
    BY <1>1, <1>2, <1>4, <1>5

\* One level of merge over runs that are merged already.
Merging(g, runs) ==
    LET l == runs[1]
        r == runs[2]
    IN  IF l = <<>> THEN r
        ELSE IF r = <<>> THEN l
        ELSE IF HeadFirst(l, r) THEN <<Head(l)>> \o g[<<Tail(l), r>>]
        ELSE <<Head(r)>> \o g[<<l, Tail(r)>>]

\* What a level of merge returns and which runs it goes down to.
LEMMA MergingDown ==
  ASSUME NEW g \in [Runs -> Seq(Wallets)], NEW runs \in Runs
  PROVE  /\ Merging(g, runs) \in Seq(Wallets)
         /\ runs[1] # <<>> /\ runs[2] # <<>> =>
              /\ <<Tail(runs[1]), runs[2]>> \in Runs /\ <<runs[1], Tail(runs[2])>> \in Runs
              /\ Len(Tail(runs[1])) + Len(runs[2]) < Len(runs[1]) + Len(runs[2])
              /\ Len(runs[1]) + Len(Tail(runs[2])) < Len(runs[1]) + Len(runs[2])
  <1>1. PICK l \in Seq(Wallets), r \in Seq(Wallets) : runs = <<l, r>>
    BY DEF Runs
  <1>2. runs[1] = l /\ runs[2] = r /\ Len(l) \in Nat /\ Len(r) \in Nat
    BY <1>1
  <1>3. ASSUME l # <<>>, r # <<>>
        PROVE  /\ <<Tail(l), r>> \in Runs /\ <<l, Tail(r)>> \in Runs
               /\ Len(Tail(l)) + Len(r) < Len(l) + Len(r)
               /\ Len(l) + Len(Tail(r)) < Len(l) + Len(r)
               /\ Head(l) \in Wallets /\ Head(r) \in Wallets
    <2>1. /\ Tail(l) \in Seq(Wallets) /\ Len(Tail(l)) = Len(l) - 1 /\ Head(l) \in Wallets
          /\ Tail(r) \in Seq(Wallets) /\ Len(Tail(r)) = Len(r) - 1 /\ Head(r) \in Wallets
      BY <1>3, Rest
    <2>2. Len(Tail(l)) + Len(r) < Len(l) + Len(r) /\ Len(l) + Len(Tail(r)) < Len(l) + Len(r)
      BY <1>2, <2>1
    <2>3. <<Tail(l), r>> \in Runs /\ <<l, Tail(r)>> \in Runs
      BY <2>1 DEF Runs
    <2> QED
      BY <2>1, <2>2, <2>3
  <1>4. Merging(g, runs) \in Seq(Wallets)
    <2>1. CASE l = <<>> \/ r = <<>>
      BY <1>2, <2>1 DEF Merging
    <2>2. CASE l # <<>> /\ r # <<>>
      <3>1. g[<<Tail(l), r>>] \in Seq(Wallets) /\ g[<<l, Tail(r)>>] \in Seq(Wallets)
        BY <1>3, <2>2
      <3>2. /\ <<Head(l)>> \o g[<<Tail(l), r>>] \in Seq(Wallets)
            /\ <<Head(r)>> \o g[<<l, Tail(r)>>] \in Seq(Wallets)
        BY <1>3, <2>2, <3>1
      <3> QED
        BY <1>2, <2>2, <3>2 DEF Merging
    <2> QED
      BY <2>1, <2>2
  <1> QED
    BY <1>2, <1>3, <1>4

\* merge returns a sequence of wallets and satisfies its equation.
LEMMA MergeIs ==
  /\ merge \in [Runs -> Seq(Wallets)]
  /\ \A runs \in Runs : merge[runs] = Merging(merge, runs)
  <1>1. PICK step : step = [g \in [Runs -> Seq(Wallets)] |-> [runs \in Runs |-> Merging(g, runs)]]
    OBVIOUS
  <1>2. PICK mu : mu = [runs \in Runs |-> Len(runs[1]) + Len(runs[2])]
    OBVIOUS
  <1>3. mu \in [Runs -> Nat]
    <2>1. \A runs \in Runs : Len(runs[1]) + Len(runs[2]) \in Nat
      BY DEF Runs
    <2> QED
      BY <1>2, <2>1
  <1>4. step \in [[Runs -> Seq(Wallets)] -> [Runs -> Seq(Wallets)]]
    BY <1>1, MergingDown
  <1>5. Respects(step, Runs, Seq(Wallets), mu)
    <2>1. SUFFICES ASSUME NEW g \in [Runs -> Seq(Wallets)], NEW h \in [Runs -> Seq(Wallets)],
                          NEW x \in Runs, \A y \in Runs : mu[y] < mu[x] => g[y] = h[y]
                   PROVE  step[g][x] = step[h][x]
      BY DEF Respects
    <2>2. step[g][x] = Merging(g, x) /\ step[h][x] = Merging(h, x)
      BY <1>1
    <2>3. CASE x[1] = <<>> \/ x[2] = <<>>
      BY <2>2, <2>3 DEF Merging
    <2>4. CASE x[1] # <<>> /\ x[2] # <<>>
      <3>1. /\ <<Tail(x[1]), x[2]>> \in Runs /\ <<x[1], Tail(x[2])>> \in Runs
            /\ Len(Tail(x[1])) + Len(x[2]) < Len(x[1]) + Len(x[2])
            /\ Len(x[1]) + Len(Tail(x[2])) < Len(x[1]) + Len(x[2])
        BY <2>4, MergingDown
      <3>2. PICK y \in Runs : y = <<Tail(x[1]), x[2]>>
        BY <3>1
      <3>3. PICK z \in Runs : z = <<x[1], Tail(x[2])>>
        BY <3>1
      <3>4. mu[y] < mu[x] /\ mu[z] < mu[x]
        BY <1>2, <3>1, <3>2, <3>3
      <3>5. g[y] = h[y] /\ g[z] = h[z]
        BY <2>1, <3>4
      <3> QED
        BY <2>2, <3>2, <3>3, <3>5 DEF Merging
    <2> QED
      BY <2>3, <2>4
  <1>6. Solvable(step, Runs, Seq(Wallets))
    <2>1. Seq(Wallets) # {}
      <3>1. <<>> \in Seq(Wallets)
        OBVIOUS
      <3> QED
        BY <3>1
    <2> QED
      BY <1>3, <1>4, <1>5, <2>1, FixedPoint, Zenon
  <1>7. PICK g \in [Runs -> Seq(Wallets)] : g = [runs \in Runs |-> Merging(g, runs)]
    BY <1>1, <1>6 DEF Solvable
  <1>8. merge = CHOOSE f : f = [runs \in Runs |-> Merging(f, runs)]
    BY DEF merge, Merging, Runs
  <1>9. merge = [runs \in Runs |-> Merging(merge, runs)]
    BY <1>7, <1>8, Zenon
  <1>10. \A runs \in Runs : merge[runs] = Merging(merge, runs)
    BY <1>9
  <1>11. merge \in [Runs -> Seq(Wallets)]
    \* No other function satisfies the equation.
    <2>1. PICK T : T = {x \in Runs : merge[x] = g[x]}
      OBVIOUS
    <2>2. ASSUME NEW x \in Runs, \A y \in Runs : mu[y] < mu[x] => y \in T PROVE x \in T
      <3>1. merge[x] = Merging(merge, x) /\ g[x] = Merging(g, x)
        BY <1>7, <1>10
      <3>2. CASE x[1] = <<>> \/ x[2] = <<>>
        BY <2>1, <3>1, <3>2 DEF Merging
      <3>3. CASE x[1] # <<>> /\ x[2] # <<>>
        <4>1. /\ <<Tail(x[1]), x[2]>> \in Runs /\ <<x[1], Tail(x[2])>> \in Runs
              /\ Len(Tail(x[1])) + Len(x[2]) < Len(x[1]) + Len(x[2])
              /\ Len(x[1]) + Len(Tail(x[2])) < Len(x[1]) + Len(x[2])
          BY <3>3, MergingDown
        <4>2. PICK y \in Runs : y = <<Tail(x[1]), x[2]>>
          BY <4>1
        <4>3. PICK z \in Runs : z = <<x[1], Tail(x[2])>>
          BY <4>1
        <4>4. mu[y] < mu[x] /\ mu[z] < mu[x]
          BY <1>2, <4>1, <4>2, <4>3
        <4>5. merge[y] = g[y] /\ merge[z] = g[z]
          BY <2>1, <2>2, <4>4
        <4> QED
          BY <2>1, <3>1, <4>2, <4>3, <4>5 DEF Merging
      <3> QED
        BY <3>2, <3>3
    <2>3. Runs \subseteq T
      BY <1>3, <2>2, MeasureInduction
    <2>4. \A x \in Runs : merge[x] \in Seq(Wallets)
      BY <2>1, <2>3
    <2> QED
      BY <1>9, <2>4
  <1> QED
    BY <1>10, <1>11

\* Two ascending runs without a common wallet.
Apart(l, r) == Rising(l) /\ Rising(r) /\ \A w \in ToSet(l) : w \notin ToSet(r)

\* A sequence that holds what two others hold, in ascending order.
Merged(s, l, r) == Rising(s) /\ ToSet(s) = ToSet(l) \cup ToSet(r)

LEMMA NoneInEmpty == ToSet(<<>>) = {}
  BY DEF ToSet

\* The same with a wallet that is in neither.
MergedWith(s, w, l, r) == Rising(s) /\ ToSet(s) = {w} \cup ToSet(l) \cup ToSet(r)

\* What is below the head of one run and the other one is below their merge.
LEMMA HeadOfMerged ==
  ASSUME NEW s \in Seq(Wallets), NEW l \in Seq(Wallets), NEW r \in Seq(Wallets),
         Merged(s, l, r), NEW w \in Wallets,
         \A v \in ToSet(l) : Rank[w] < Rank[v], \A v \in ToSet(r) : Rank[w] < Rank[v]
  PROVE  MergedWith(<<w>> \o s, w, l, r)
  <1>1. \A v \in ToSet(s) : Rank[w] < Rank[v]
    BY DEF Merged
  <1> QED
    BY <1>1, Before DEF Merged, MergedWith

\* What is below the head of an ascending run is below all of the run.
LEMMA BelowHead ==
  ASSUME NEW s \in Seq(Wallets), s # <<>>, Rising(s), NEW w \in Wallets,
         Rank[w] < Rank[Head(s)], NEW v \in ToSet(s)
  PROVE  Rank[w] < Rank[v]
  <1>1. v = Head(s) \/ v \in ToSet(Tail(s))
    BY Rest
  <1>2. Head(s) \in Wallets /\ v \in Wallets
    BY Rest, Holds
  <1>3. Rank[w] \in Nat /\ Rank[Head(s)] \in Nat /\ Rank[v] \in Nat
    BY <1>2, Ranks
  <1>4. v \in ToSet(Tail(s)) => Rank[Head(s)] < Rank[v]
    BY Rest
  <1> QED
    BY <1>1, <1>3, <1>4

\* merge keeps the order and what the runs hold.
LEMMA MergeSorts ==
  ASSUME NEW l \in Seq(Wallets), NEW r \in Seq(Wallets), Apart(l, r)
  PROVE  /\ merge[<<l, r>>] \in Seq(Wallets)
         /\ Merged(merge[<<l, r>>], l, r)
  <1>1. PICK mu : mu = [runs \in Runs |-> Len(runs[1]) + Len(runs[2])]
    OBVIOUS
  <1>2. mu \in [Runs -> Nat]
    <2>1. \A runs \in Runs : Len(runs[1]) + Len(runs[2]) \in Nat
      BY DEF Runs
    <2> QED
      BY <1>1, <2>1
  <1>3. PICK T : T = {runs \in Runs : Apart(runs[1], runs[2]) =>
                                         Merged(merge[runs], runs[1], runs[2])}
    OBVIOUS
  <1>4. ASSUME NEW x \in Runs, \A y \in Runs : mu[y] < mu[x] => y \in T PROVE x \in T
    <2>1. PICK a \in Seq(Wallets), b \in Seq(Wallets) : x = <<a, b>>
      BY DEF Runs
    <2>2. x[1] = a /\ x[2] = b
      BY <2>1
    <2>3. SUFFICES ASSUME Apart(a, b) PROVE Merged(merge[x], a, b)
      BY <1>3, <2>2
    <2>4. merge[x] = Merging(merge, x)
      BY MergeIs
    <2>5. CASE a = <<>>
      <3>1. merge[x] = b
        BY <2>2, <2>4, <2>5 DEF Merging
      <3> QED
        BY <2>3, <2>5, <3>1, NoneInEmpty DEF Merged, Apart
    <2>6. CASE b = <<>>
      <3>1. merge[x] = a
        BY <2>2, <2>4, <2>6 DEF Merging
      <3> QED
        BY <2>3, <2>6, <3>1, NoneInEmpty DEF Merged, Apart
    <2>7. CASE a # <<>> /\ b # <<>>
      <3>1. /\ <<Tail(a), b>> \in Runs /\ <<a, Tail(b)>> \in Runs
            /\ Len(Tail(a)) + Len(b) < Len(a) + Len(b)
            /\ Len(a) + Len(Tail(b)) < Len(a) + Len(b)
        <4>1. merge \in [Runs -> Seq(Wallets)]
          BY MergeIs
        <4> QED
          BY <2>2, <2>7, <4>1, MergingDown
      <3>2. /\ Head(a) \in Wallets /\ Tail(a) \in Seq(Wallets)
            /\ ToSet(a) = {Head(a)} \cup ToSet(Tail(a)) /\ Rising(Tail(a))
            /\ \A w \in ToSet(Tail(a)) : Rank[Head(a)] < Rank[w]
        BY <2>3, <2>7, Rest DEF Apart
      <3>3. /\ Head(b) \in Wallets /\ Tail(b) \in Seq(Wallets)
            /\ ToSet(b) = {Head(b)} \cup ToSet(Tail(b)) /\ Rising(Tail(b))
            /\ \A w \in ToSet(Tail(b)) : Rank[Head(b)] < Rank[w]
        BY <2>3, <2>7, Rest DEF Apart
      <3>4. CASE HeadFirst(a, b)
        <4>1. PICK y \in Runs : y = <<Tail(a), b>>
          BY <3>1
        <4>2. PICK s \in Seq(Wallets) : s = merge[y]
          BY MergeIs
        <4>3. merge[x] = <<Head(a)>> \o s
          BY <2>2, <2>4, <2>7, <3>4, <4>1, <4>2 DEF Merging
        <4>4. Merged(s, Tail(a), b)
          <5>1. mu[y] < mu[x]
            BY <1>1, <2>2, <3>1, <4>1
          <5>2. Apart(Tail(a), b)
            BY <2>3, <3>2 DEF Apart
          <5>3. y[1] = Tail(a) /\ y[2] = b
            BY <4>1
          <5> QED
            BY <1>3, <1>4, <4>2, <5>1, <5>2, <5>3
        <4>5. \A v \in ToSet(b) : Rank[Head(a)] < Rank[v]
          <5>1. Rank[Head(a)] < Rank[Head(b)]
            BY <3>4 DEF HeadFirst
          <5>2. Rising(b)
            BY <2>3 DEF Apart
          <5> QED
            BY <2>7, <3>2, <5>1, <5>2, BelowHead
        <4>6. /\ Rising(<<Head(a)>> \o s)
              /\ ToSet(<<Head(a)>> \o s) = {Head(a)} \cup ToSet(Tail(a)) \cup ToSet(b)
          <5>1. PICK w \in Wallets : w = Head(a)
            BY <3>2
          <5>2. PICK t \in Seq(Wallets) : t = Tail(a)
            BY <3>2
          <5>3. Merged(s, t, b)
            BY <4>4, <5>2
          <5>4. \A v \in ToSet(t) : Rank[w] < Rank[v]
            BY <3>2, <4>5, <5>1, <5>2
          <5>5. \A v \in ToSet(b) : Rank[w] < Rank[v]
            BY <3>2, <4>5, <5>1, <5>2
          <5>6. MergedWith(<<w>> \o s, w, t, b)
            BY <5>3, <5>4, <5>5, HeadOfMerged
          <5> QED
            BY <5>1, <5>2, <5>6 DEF MergedWith
        <4> QED
          BY <3>2, <4>3, <4>6 DEF Merged
      <3>5. CASE ~ HeadFirst(a, b)
        <4>1. PICK y \in Runs : y = <<a, Tail(b)>>
          BY <3>1
        <4>2. PICK s \in Seq(Wallets) : s = merge[y]
          BY MergeIs
        <4>3. merge[x] = <<Head(b)>> \o s
          BY <2>2, <2>4, <2>7, <3>5, <4>1, <4>2 DEF Merging
        <4>4. Merged(s, a, Tail(b))
          <5>1. mu[y] < mu[x]
            BY <1>1, <2>2, <3>1, <4>1
          <5>2. Apart(a, Tail(b))
            BY <2>3, <3>3 DEF Apart
          <5>3. y[1] = a /\ y[2] = Tail(b)
            BY <4>1
          <5> QED
            BY <1>3, <1>4, <4>2, <5>1, <5>2, <5>3
        <4>5. \A v \in ToSet(a) : Rank[Head(b)] < Rank[v]
          <5>1. Head(a) # Head(b)
            BY <2>3, <3>2, <3>3 DEF Apart
          <5>2. Rank[Head(b)] < Rank[Head(a)]
            BY <3>2, <3>3, <3>5, <5>1, Ranks DEF HeadFirst
          <5>3. Rising(a)
            BY <2>3 DEF Apart
          <5> QED
            BY <2>7, <3>3, <5>2, <5>3, BelowHead
        <4>6. /\ Rising(<<Head(b)>> \o s)
              /\ ToSet(<<Head(b)>> \o s) = {Head(b)} \cup ToSet(a) \cup ToSet(Tail(b))
          <5>1. PICK w \in Wallets : w = Head(b)
            BY <3>3
          <5>2. PICK t \in Seq(Wallets) : t = Tail(b)
            BY <3>3
          <5>3. Merged(s, a, t)
            BY <4>4, <5>2
          <5>4. \A v \in ToSet(a) : Rank[w] < Rank[v]
            BY <3>3, <4>5, <5>1, <5>2
          <5>5. \A v \in ToSet(t) : Rank[w] < Rank[v]
            BY <3>3, <4>5, <5>1, <5>2
          <5>6. MergedWith(<<w>> \o s, w, a, t)
            BY <5>3, <5>4, <5>5, HeadOfMerged
          <5> QED
            BY <5>1, <5>2, <5>6 DEF MergedWith
        <4> QED
          BY <3>3, <4>3, <4>6 DEF Merged
      <3> QED
        BY <3>4, <3>5
    <2> QED
      BY <2>5, <2>6, <2>7
  <1>5. Runs \subseteq T
    BY <1>2, <1>4, MeasureInduction
  <1>6. PICK runs \in Runs : runs = <<l, r>>
    BY DEF Runs
  <1>7. runs[1] = l /\ runs[2] = r
    BY <1>6
  <1>8. Merged(merge[runs], l, r)
    BY <1>3, <1>5, <1>7
  <1> QED
    BY <1>6, <1>8, MergeIs

\* The halves of a sequence of two or more.
FirstHalf(s) == SubSeq(s, 1, (Len(s) + 1) \div 2)
SecondHalf(s) == SubSeq(s, ((Len(s) + 1) \div 2) + 1, Len(s))

\* One level of mergeSort over halves that are sorted already.
Sorting(g, s) == IF Len(s) <= 1 THEN s
                 ELSE merge[<<g[FirstHalf(s)], g[SecondHalf(s)]>>]

\* The halves are shorter and share out what the sequence holds.
LEMMA Halves ==
  ASSUME NEW s \in Seq(Wallets), ~ Len(s) <= 1
  PROVE  /\ FirstHalf(s) \in Seq(Wallets) /\ SecondHalf(s) \in Seq(Wallets)
         /\ Len(FirstHalf(s)) < Len(s) /\ Len(SecondHalf(s)) < Len(s)
         /\ ToSet(s) = ToSet(FirstHalf(s)) \cup ToSet(SecondHalf(s))
         /\ IsInjective(s) => /\ IsInjective(FirstHalf(s)) /\ IsInjective(SecondHalf(s))
                              /\ \A w \in ToSet(FirstHalf(s)) : w \notin ToSet(SecondHalf(s))
  <1>1. PICK n \in Nat : n = Len(s)
    OBVIOUS
  <1>2. PICK m \in Nat : m = (n + 1) \div 2
    BY <1>1
  <1>3. m >= 1 /\ m < n
    BY <1>1, <1>2
  <1>4. \A k \in 1 .. n : s[k] \in Wallets
    BY <1>1
  <1>5. PICK a : a = SubSeq(s, 1, m)
    OBVIOUS
  <1>6. PICK b : b = SubSeq(s, m + 1, n)
    OBVIOUS
  <1>7. a \in Seq(Wallets) /\ Len(a) = m /\ \A k \in 1 .. m : a[k] = s[k]
    <2>1. \A k \in 1 .. m : s[k] \in Wallets
      BY <1>3, <1>4
    <2>2. /\ SubSeq(s, 1, m) \in Seq(Wallets)
          /\ Len(SubSeq(s, 1, m)) = IF 1 <= m THEN m - 1 + 1 ELSE 0
          /\ \A k \in 1 .. m - 1 + 1 : SubSeq(s, 1, m)[k] = s[1 + k - 1]
      BY <2>1, SubSeqProperties
    <2>3. m - 1 + 1 = m /\ \A k \in 1 .. m : 1 + k - 1 = k
      OBVIOUS
    <2> QED
      BY <1>3, <1>5, <2>2, <2>3
  <1>8. b \in Seq(Wallets) /\ Len(b) = n - m /\ \A k \in 1 .. n - m : b[k] = s[m + k]
    <2>1. \A k \in m + 1 .. n : s[k] \in Wallets
      BY <1>3, <1>4
    <2>2. m + 1 \in Int /\ n \in Int
      OBVIOUS
    <2>3. /\ SubSeq(s, m + 1, n) \in Seq(Wallets)
          /\ Len(SubSeq(s, m + 1, n)) = IF m + 1 <= n THEN n - (m + 1) + 1 ELSE 0
          /\ \A k \in 1 .. n - (m + 1) + 1 : SubSeq(s, m + 1, n)[k] = s[(m + 1) + k - 1]
      BY <2>1, <2>2, SubSeqProperties
    <2>4. n - (m + 1) + 1 = n - m /\ \A k \in 1 .. n - m : (m + 1) + k - 1 = m + k
      OBVIOUS
    <2> QED
      BY <1>3, <1>6, <2>3, <2>4
  <1>9. Len(a) < n /\ Len(b) < n
    BY <1>3, <1>7, <1>8
  <1>10. ToSet(s) = ToSet(a) \cup ToSet(b)
    <2>1. ASSUME NEW w \in ToSet(s) PROVE w \in ToSet(a) \/ w \in ToSet(b)
      <3>1. PICK k \in 1 .. n : s[k] = w
        BY <1>1, Holds
      <3>2. CASE k <= m
        <4>1. k \in 1 .. m
          BY <3>2
        <4> QED
          BY <1>7, <3>1, <4>1, Holds
      <3>3. CASE ~ k <= m
        <4>1. k - m \in 1 .. n - m /\ m + (k - m) = k
          BY <3>3
        <4>2. b[k - m] = w
          BY <1>8, <3>1, <4>1
        <4> QED
          BY <1>8, <4>1, <4>2, Holds
      <3> QED
        BY <3>2, <3>3
    <2>2. ASSUME NEW w \in ToSet(a) PROVE w \in ToSet(s)
      <3>1. PICK k \in 1 .. m : a[k] = w
        BY <1>7, Holds
      <3>2. k \in 1 .. n
        BY <1>3
      <3> QED
        BY <1>1, <1>7, <3>1, <3>2, Holds
    <2>3. ASSUME NEW w \in ToSet(b) PROVE w \in ToSet(s)
      <3>1. PICK k \in 1 .. n - m : b[k] = w
        BY <1>8, Holds
      <3>2. m + k \in 1 .. n
        BY <1>3
      <3>3. s[m + k] = w
        BY <1>8, <3>1
      <3> QED
        BY <1>1, <3>2, <3>3, Holds
    <2> QED
      BY <2>1, <2>2, <2>3
  <1>11. ASSUME IsInjective(s)
         PROVE  /\ IsInjective(a) /\ IsInjective(b)
                /\ \A w \in ToSet(a) : w \notin ToSet(b)
    <2>1. \A j, k \in 1 .. n : s[j] = s[k] => j = k
      BY <1>1, <1>11 DEF IsInjective
    <2>2. \A k \in 1 .. m : k \in 1 .. n
      BY <1>3
    <2>3. \A k \in 1 .. n - m : m + k \in 1 .. n
      BY <1>3
    <2>4. IsInjective(a)
      <3>1. DOMAIN a = 1 .. m
        BY <1>7
      <3> QED
        BY <1>7, <2>1, <2>2, <3>1 DEF IsInjective
    <2>5. IsInjective(b)
      <3>1. DOMAIN b = 1 .. n - m
        BY <1>8
      <3>2. ASSUME NEW j \in 1 .. n - m, NEW k \in 1 .. n - m, b[j] = b[k] PROVE j = k
        <4>1. m + j = m + k
          BY <1>8, <2>1, <2>3, <3>2
        <4> QED
          BY <4>1
      <3> QED
        BY <3>1, <3>2 DEF IsInjective
    <2>6. ASSUME NEW w \in ToSet(a), w \in ToSet(b) PROVE FALSE
      <3>1. PICK j \in 1 .. m : a[j] = w
        BY <1>7, Holds
      <3>2. PICK k \in 1 .. n - m : b[k] = w
        BY <1>8, <2>6, Holds
      <3>3. j = m + k
        BY <1>7, <1>8, <2>1, <2>2, <2>3, <3>1, <3>2
      <3> QED
        BY <3>3
    <2> QED
      BY <2>4, <2>5, <2>6
  <1>12. FirstHalf(s) = a /\ SecondHalf(s) = b
    BY <1>1, <1>2, <1>5, <1>6 DEF FirstHalf, SecondHalf
  <1> QED
    BY <1>1, <1>7, <1>8, <1>9, <1>10, <1>11, <1>12

LEMMA LenTyped ==
  ASSUME NEW mu, mu = [s \in Seq(Wallets) |-> Len(s)]
  PROVE  mu \in [Seq(Wallets) -> Nat]
  <1>1. \A s \in Seq(Wallets) : Len(s) \in Nat
    OBVIOUS
  <1> QED
    BY <1>1

\* mergeSort returns a sequence of wallets and satisfies its equation.
LEMMA MergeSortIs ==
  /\ mergeSort \in [Seq(Wallets) -> Seq(Wallets)]
  /\ \A s \in Seq(Wallets) : mergeSort[s] = Sorting(mergeSort, s)
  <1>1. PICK V : V = Seq(Wallets)
    OBVIOUS
  <1>2. PICK step : step = [g \in [V -> V] |-> [s \in V |-> Sorting(g, s)]]
    OBVIOUS
  <1>3. PICK mu : mu = [s \in V |-> Len(s)]
    OBVIOUS
  <1>4. mu \in [V -> Nat]
    BY <1>1, <1>3, LenTyped, Zenon
  <1>5. step \in [[V -> V] -> [V -> V]]
    <2>1. ASSUME NEW g \in [V -> V], NEW s \in V PROVE Sorting(g, s) \in V
      <3>1. CASE Len(s) <= 1
        BY <3>1 DEF Sorting
      <3>2. CASE ~ Len(s) <= 1
        <4>1. FirstHalf(s) \in V /\ SecondHalf(s) \in V
          BY <1>1, <3>2, Halves
        <4>2. PICK a \in V, b \in V : a = g[FirstHalf(s)] /\ b = g[SecondHalf(s)]
          BY <4>1
        <4>3. <<a, b>> \in Runs
          BY <1>1 DEF Runs
        <4>4. merge[<<a, b>>] \in V
          BY <1>1, <4>3, MergeIs
        <4> QED
          BY <3>2, <4>2, <4>4 DEF Sorting
      <3> QED
        BY <3>1, <3>2
    <2> QED
      BY <1>2, <2>1
  <1>6. Respects(step, V, V, mu)
    <2>1. SUFFICES ASSUME NEW g \in [V -> V], NEW h \in [V -> V],
                          NEW s \in V, \A y \in V : mu[y] < mu[s] => g[y] = h[y]
                   PROVE  step[g][s] = step[h][s]
      BY DEF Respects
    <2>2. step[g][s] = Sorting(g, s) /\ step[h][s] = Sorting(h, s)
      BY <1>2
    <2>3. CASE Len(s) <= 1
      BY <2>2, <2>3 DEF Sorting
    <2>4. CASE ~ Len(s) <= 1
      <3>1. /\ FirstHalf(s) \in V /\ SecondHalf(s) \in V
            /\ Len(FirstHalf(s)) < Len(s) /\ Len(SecondHalf(s)) < Len(s)
        BY <1>1, <2>4, Halves
      <3>2. mu[FirstHalf(s)] < mu[s] /\ mu[SecondHalf(s)] < mu[s]
        BY <1>3, <3>1
      <3>3. g[FirstHalf(s)] = h[FirstHalf(s)] /\ g[SecondHalf(s)] = h[SecondHalf(s)]
        BY <2>1, <3>1, <3>2
      <3> QED
        BY <2>2, <3>3 DEF Sorting
    <2> QED
      BY <2>3, <2>4
  <1>7. Solvable(step, V, V)
    <2>1. V # {}
      <3>1. <<>> \in Seq(Wallets)
        OBVIOUS
      <3> QED
        BY <1>1, <3>1
    <2> QED
      BY <1>4, <1>5, <1>6, <2>1, FixedPoint, Zenon
  <1>8. PICK g \in [V -> V] : g = [s \in V |-> Sorting(g, s)]
    BY <1>2, <1>7 DEF Solvable
  <1>9. mergeSort = CHOOSE f : f = [s \in V |-> Sorting(f, s)]
    BY <1>1 DEF mergeSort, Sorting, FirstHalf, SecondHalf
  <1>10. mergeSort = [s \in V |-> Sorting(mergeSort, s)]
    BY <1>8, <1>9, Zenon
  <1>11. \A s \in V : mergeSort[s] = Sorting(mergeSort, s)
    BY <1>10
  <1>12. mergeSort \in [V -> V]
    \* No other function satisfies the equation.
    <2>1. PICK T : T = {s \in V : mergeSort[s] = g[s]}
      OBVIOUS
    <2>2. ASSUME NEW s \in V, \A y \in V : mu[y] < mu[s] => y \in T PROVE s \in T
      <3>1. mergeSort[s] = Sorting(mergeSort, s) /\ g[s] = Sorting(g, s)
        BY <1>8, <1>11
      <3>2. CASE Len(s) <= 1
        BY <2>1, <3>1, <3>2 DEF Sorting
      <3>3. CASE ~ Len(s) <= 1
        <4>1. /\ FirstHalf(s) \in V /\ SecondHalf(s) \in V
              /\ Len(FirstHalf(s)) < Len(s) /\ Len(SecondHalf(s)) < Len(s)
          BY <1>1, <3>3, Halves
        <4>2. mu[FirstHalf(s)] < mu[s] /\ mu[SecondHalf(s)] < mu[s]
          BY <1>3, <4>1
        <4>3. /\ mergeSort[FirstHalf(s)] = g[FirstHalf(s)]
              /\ mergeSort[SecondHalf(s)] = g[SecondHalf(s)]
          BY <2>1, <2>2, <4>1, <4>2
        <4> QED
          BY <2>1, <3>1, <4>3 DEF Sorting
      <3> QED
        BY <3>2, <3>3
    <2>3. V \subseteq T
      BY <1>4, <2>2, MeasureInduction
    <2>4. \A s \in V : mergeSort[s] \in V
      BY <2>1, <2>3
    <2> QED
      BY <1>10, <2>4
  <1> QED
    BY <1>1, <1>11, <1>12

\* Without repetitions, mergeSort leaves the same wallets in ascending order.
LEMMA MergeSortSorts ==
  ASSUME NEW lines \in Seq(Wallets), IsInjective(lines)
  PROVE  /\ mergeSort[lines] \in Seq(Wallets)
         /\ Rising(mergeSort[lines])
         /\ ToSet(mergeSort[lines]) = ToSet(lines)
  <1>1. PICK V : V = Seq(Wallets)
    OBVIOUS
  <1>2. PICK mu : mu = [s \in V |-> Len(s)]
    OBVIOUS
  <1>3. mu \in [V -> Nat]
    BY <1>1, <1>2, LenTyped, Zenon
  <1>4. PICK T : T = {s \in V : IsInjective(s) => /\ Rising(mergeSort[s])
                                                  /\ ToSet(mergeSort[s]) = ToSet(s)}
    OBVIOUS
  <1>5. ASSUME NEW s \in V, \A y \in V : mu[y] < mu[s] => y \in T PROVE s \in T
    <2>1. SUFFICES ASSUME IsInjective(s)
                   PROVE  Rising(mergeSort[s]) /\ ToSet(mergeSort[s]) = ToSet(s)
      BY <1>4
    <2>2. mergeSort[s] = Sorting(mergeSort, s)
      BY <1>1, MergeSortIs
    <2>3. CASE Len(s) <= 1
      <3>1. mergeSort[s] = s
        BY <2>2, <2>3 DEF Sorting
      <3>2. Rising(s)
        <4>1. \A j, k \in 1 .. Len(s) : ~ j < k
          BY <1>1, <2>3
        <4> QED
          BY <4>1 DEF Rising
      <3> QED
        BY <3>1, <3>2
    <2>4. CASE ~ Len(s) <= 1
      <3>1. PICK a \in V, b \in V : a = FirstHalf(s) /\ b = SecondHalf(s)
        BY <1>1, <2>4, Halves
      <3>2. /\ Len(a) < Len(s) /\ Len(b) < Len(s)
            /\ ToSet(s) = ToSet(a) \cup ToSet(b)
            /\ IsInjective(a) /\ IsInjective(b)
            /\ \A w \in ToSet(a) : w \notin ToSet(b)
        BY <1>1, <2>1, <2>4, <3>1, Halves
      <3>3. mu[a] < mu[s] /\ mu[b] < mu[s]
        BY <1>2, <3>2
      <3>4. PICK l \in V, r \in V : l = mergeSort[a] /\ r = mergeSort[b]
        BY <1>1, MergeSortIs
      <3>5. /\ Rising(l) /\ ToSet(l) = ToSet(a)
            /\ Rising(r) /\ ToSet(r) = ToSet(b)
        BY <1>4, <1>5, <3>2, <3>3, <3>4
      <3>6. Apart(l, r)
        BY <3>2, <3>5 DEF Apart
      <3>7. Merged(merge[<<l, r>>], l, r)
        BY <1>1, <3>6, MergeSorts
      <3>8. mergeSort[s] = merge[<<l, r>>]
        BY <2>2, <2>4, <3>1, <3>4 DEF Sorting
      <3> QED
        BY <3>2, <3>5, <3>7, <3>8 DEF Merged
    <2> QED
      BY <2>3, <2>4
  <1>6. V \subseteq T
    BY <1>3, <1>5, MeasureInduction
  <1>7. lines \in T
    BY <1>1, <1>6
  <1> QED
    BY <1>4, <1>7, MergeSortIs

\* The array that findWallet searches holds every wallet, in ascending order.
Sorted == wallets \in Seq(Wallets) /\ Rising(wallets) /\ ToSet(wallets) = Wallets

IDs    == Wallets \cup {Unknown}
Bounds == (1 .. Len(wallets) + 1) \X (0 .. Len(wallets))

\* One level of the search when the answers below it are known.
Halving(g, bounds, key) ==
    LET left   == bounds[1]
        right  == bounds[2]
        middle == (left + right) \div 2
    IN  IF left > right THEN Unknown
        ELSE IF wallets[middle] = key THEN wallets[middle]
        ELSE IF Rank[wallets[middle]] < Rank[key] THEN g[<<middle + 1, right>>]
        ELSE g[<<left, middle - 1>>]

\* How far apart two bounds are.
Width == [bounds \in Bounds |-> Len(wallets) + 1 + bounds[2] - bounds[1]]

\* The middle is between the bounds, and either way they come closer.
LEMMA Closer ==
  ASSUME Sorted, NEW left \in 1 .. Len(wallets) + 1, NEW right \in 0 .. Len(wallets),
         NEW middle, middle = (left + right) \div 2, ~ left > right
  PROVE  /\ middle \in left .. right /\ middle \in 1 .. Len(wallets)
         /\ wallets[middle] \in Wallets
         /\ <<left, right>> \in Bounds
         /\ <<middle + 1, right>> \in Bounds /\ <<left, middle - 1>> \in Bounds
         /\ Width[<<middle + 1, right>>] < Width[<<left, right>>]
         /\ Width[<<left, middle - 1>>] < Width[<<left, right>>]
  <1>1. PICK n \in Nat : n = Len(wallets)
    BY DEF Sorted
  <1>2. left \in 1 .. n + 1 /\ right \in 0 .. n /\ left <= right
    BY <1>1
  <1>3. middle \in left .. right /\ middle \in 1 .. n
    BY <1>2
  <1>4. wallets[middle] \in Wallets
    BY <1>1, <1>3 DEF Sorted
  <1>5. middle + 1 \in 1 .. n + 1 /\ middle - 1 \in 0 .. n
    BY <1>3
  <1>6. <<left, right>> \in Bounds /\ <<middle + 1, right>> \in Bounds /\ <<left, middle - 1>> \in Bounds
    BY <1>1, <1>2, <1>5 DEF Bounds
  <1>7. /\ Width[<<left, right>>] = n + 1 + right - left
        /\ Width[<<middle + 1, right>>] = n + 1 + right - (middle + 1)
        /\ Width[<<left, middle - 1>>] = n + 1 + (middle - 1) - left
    BY <1>1, <1>6 DEF Width
  <1>8. /\ n + 1 + right - (middle + 1) < n + 1 + right - left
        /\ n + 1 + (middle - 1) - left < n + 1 + right - left
    BY <1>2, <1>3
  <1> QED
    BY <1>1, <1>3, <1>4, <1>6, <1>7, <1>8

LEMMA WidthTyped == Sorted => Width \in [Bounds -> Nat]
  <1> SUFFICES ASSUME Sorted PROVE Width \in [Bounds -> Nat]
    OBVIOUS
  <1>1. PICK n \in Nat : n = Len(wallets)
    BY DEF Sorted
  <1>2. ASSUME NEW bounds \in Bounds PROVE n + 1 + bounds[2] - bounds[1] \in Nat
    <2>1. bounds[1] \in 1 .. n + 1 /\ bounds[2] \in 0 .. n
      BY <1>1 DEF Bounds
    <2> QED
      BY <2>1
  <1> QED
    BY <1>1, <1>2 DEF Width

\* The search is a function of its bounds that satisfies its equation.
LEMMA SearchIs ==
  ASSUME Sorted, NEW key \in IDs
  PROVE  \E f : /\ f = [bounds \in Bounds |-> Halving(f, bounds, key)]
                /\ Search(key) = f[<<1, Len(wallets)>>]
  <1>1. PICK step : step = [g \in [Bounds -> IDs] |-> [b \in Bounds |-> Halving(g, b, key)]]
    OBVIOUS
  <1>2. step \in [[Bounds -> IDs] -> [Bounds -> IDs]]
    <2>1. ASSUME NEW g \in [Bounds -> IDs], NEW b \in Bounds PROVE Halving(g, b, key) \in IDs
      <3>1. PICK left \in 1 .. Len(wallets) + 1, right \in 0 .. Len(wallets) : b = <<left, right>>
        BY DEF Bounds
      <3>2. b[1] = left /\ b[2] = right
        BY <3>1
      <3>3. CASE left > right
        BY <3>2, <3>3 DEF Halving, IDs
      <3>4. CASE ~ left > right
        <4>1. PICK middle : middle = (left + right) \div 2
          OBVIOUS
        <4>2. /\ wallets[middle] \in Wallets
              /\ <<middle + 1, right>> \in Bounds /\ <<left, middle - 1>> \in Bounds
          BY <3>4, <4>1, Closer
        <4>3. g[<<middle + 1, right>>] \in IDs /\ g[<<left, middle - 1>>] \in IDs
          BY <4>2
        <4> QED
          BY <3>2, <3>4, <4>1, <4>2, <4>3 DEF Halving, IDs
      <3> QED
        BY <3>3, <3>4
    <2> QED
      BY <1>1, <2>1
  <1>3. Respects(step, Bounds, IDs, Width)
    <2>1. SUFFICES ASSUME NEW g \in [Bounds -> IDs], NEW h \in [Bounds -> IDs],
                          NEW b \in Bounds, \A y \in Bounds : Width[y] < Width[b] => g[y] = h[y]
                   PROVE  step[g][b] = step[h][b]
      BY DEF Respects
    <2>2. step[g][b] = Halving(g, b, key) /\ step[h][b] = Halving(h, b, key)
      BY <1>1
    <2>3. PICK left \in 1 .. Len(wallets) + 1, right \in 0 .. Len(wallets) : b = <<left, right>>
      BY DEF Bounds
    <2>4. b[1] = left /\ b[2] = right
      BY <2>3
    <2>5. CASE left > right
      BY <2>2, <2>4, <2>5 DEF Halving
    <2>6. CASE ~ left > right
      <3>1. PICK middle : middle = (left + right) \div 2
        OBVIOUS
      <3>2. /\ <<middle + 1, right>> \in Bounds /\ <<left, middle - 1>> \in Bounds
            /\ Width[<<middle + 1, right>>] < Width[b]
            /\ Width[<<left, middle - 1>>] < Width[b]
        BY <2>3, <2>6, <3>1, Closer
      <3>3. /\ g[<<middle + 1, right>>] = h[<<middle + 1, right>>]
            /\ g[<<left, middle - 1>>] = h[<<left, middle - 1>>]
        BY <2>1, <3>2
      <3> QED
        BY <2>2, <2>4, <3>1, <3>3 DEF Halving
    <2> QED
      BY <2>5, <2>6
  <1>4. Solvable(step, Bounds, IDs)
    <2>1. IDs # {}
      BY DEF IDs
    <2>2. Width \in [Bounds -> Nat]
      BY WidthTyped
    <2> QED
      BY <1>2, <1>3, <2>1, <2>2, FixedPoint, Zenon
  <1>5. PICK g : g = [b \in Bounds |-> Halving(g, b, key)]
    BY <1>1, <1>4 DEF Solvable
  <1>6. PICK f : f = CHOOSE h : h = [b \in Bounds |-> Halving(h, b, key)]
    OBVIOUS
  <1>7. f = [b \in Bounds |-> Halving(f, b, key)]
    BY <1>5, <1>6, Zenon
  <1>8. Search(key) = f[<<1, Len(wallets)>>]
    BY <1>6 DEF Search, Halving, Bounds
  <1> QED
    BY <1>7, <1>8

\* The search between two bounds finds what is there, and only that.
LEMMA SearchFinds ==
  ASSUME Sorted, NEW key \in IDs
  PROVE  Search(key) = key
  <1>1. PICK f : /\ f = [bounds \in Bounds |-> Halving(f, bounds, key)]
                 /\ Search(key) = f[<<1, Len(wallets)>>]
    BY SearchIs
  <1>2. PICK T : T = {b \in Bounds :
                        (key = Unknown \/ \E k \in b[1] .. b[2] : wallets[k] = key) => f[b] = key}
    OBVIOUS
  <1>3. PICK n \in Nat : n = Len(wallets)
    BY DEF Sorted
  <1>4. ASSUME NEW b \in Bounds, \A y \in Bounds : Width[y] < Width[b] => y \in T PROVE b \in T
    <2>1. PICK left \in 1 .. n + 1, right \in 0 .. n : b = <<left, right>>
      BY <1>3 DEF Bounds
    <2>2. b[1] = left /\ b[2] = right
      BY <2>1
    <2>3. SUFFICES ASSUME key = Unknown \/ \E k \in left .. right : wallets[k] = key
                   PROVE  f[b] = key
      BY <1>2, <2>2
    <2>4. f[b] = Halving(f, b, key)
      BY <1>1
    <2>5. CASE left > right
      <3>1. key = Unknown
        BY <2>3, <2>5
      <3> QED
        BY <2>2, <2>4, <2>5, <3>1 DEF Halving
    <2>6. CASE ~ left > right
      <3>1. PICK middle : middle = (left + right) \div 2
        OBVIOUS
      <3>2. /\ middle \in left .. right /\ middle \in 1 .. n /\ wallets[middle] \in Wallets
            /\ <<middle + 1, right>> \in Bounds /\ <<left, middle - 1>> \in Bounds
            /\ Width[<<middle + 1, right>>] < Width[b]
            /\ Width[<<left, middle - 1>>] < Width[b]
        BY <1>3, <2>1, <2>6, <3>1, Closer
      <3>3. CASE wallets[middle] = key
        BY <2>2, <2>4, <2>6, <3>1, <3>3 DEF Halving
      <3>4. ASSUME NEW k \in left .. right, wallets[k] = key, wallets[middle] # key
            PROVE  /\ Rank[wallets[middle]] < Rank[key] => k \in middle + 1 .. right
                   /\ ~ Rank[wallets[middle]] < Rank[key] => k \in left .. middle - 1
        <4>1. k \in 1 .. n /\ k # middle
          BY <3>4
        <4>2. wallets[middle] \in IDs /\ Rank[wallets[middle]] \in Nat /\ Rank[key] \in Nat
          BY <3>2, Ranks DEF IDs
        <4>3. k < middle => Rank[key] < Rank[wallets[middle]]
          BY <1>3, <3>2, <3>4, <4>1 DEF Sorted, Rising
        <4>4. middle < k => Rank[wallets[middle]] < Rank[key]
          BY <1>3, <3>2, <3>4, <4>1 DEF Sorted, Rising
        <4> QED
          BY <3>2, <4>1, <4>2, <4>3, <4>4
      <3>5. CASE wallets[middle] # key /\ Rank[wallets[middle]] < Rank[key]
        <4>1. PICK y \in Bounds : y = <<middle + 1, right>>
          BY <3>2
        <4>2. f[b] = f[y]
          BY <2>2, <2>4, <2>6, <3>1, <3>5, <4>1 DEF Halving
        <4>3. y[1] = middle + 1 /\ y[2] = right /\ y \in T
          BY <1>4, <3>2, <4>1
        <4>4. key = Unknown \/ \E k \in y[1] .. y[2] : wallets[k] = key
          BY <2>3, <3>4, <3>5, <4>3
        <4> QED
          BY <1>2, <4>2, <4>3, <4>4
      <3>6. CASE wallets[middle] # key /\ ~ Rank[wallets[middle]] < Rank[key]
        <4>1. PICK y \in Bounds : y = <<left, middle - 1>>
          BY <3>2
        <4>2. f[b] = f[y]
          BY <2>2, <2>4, <2>6, <3>1, <3>6, <4>1 DEF Halving
        <4>3. y[1] = left /\ y[2] = middle - 1 /\ y \in T
          BY <1>4, <3>2, <4>1
        <4>4. key = Unknown \/ \E k \in y[1] .. y[2] : wallets[k] = key
          BY <2>3, <3>4, <3>6, <4>3
        <4> QED
          BY <1>2, <4>2, <4>3, <4>4
      <3> QED
        BY <3>3, <3>5, <3>6
    <2> QED
      BY <2>5, <2>6
  <1>5. Bounds \subseteq T
    BY <1>4, WidthTyped, MeasureInduction
  <1>6. PICK b \in Bounds : b = <<1, n>>
    <2>1. 1 \in 1 .. n + 1 /\ n \in 0 .. n
      OBVIOUS
    <2> QED
      BY <1>3, <2>1 DEF Bounds
  <1>7. b[1] = 1 /\ b[2] = n
    BY <1>6
  <1>8. key = Unknown \/ \E k \in b[1] .. b[2] : wallets[k] = key
    BY <1>3, <1>7, Holds DEF IDs, Sorted
  <1>9. f[b] = key
    BY <1>2, <1>5, <1>8
  <1> QED
    BY <1>1, <1>3, <1>6, <1>9

\* The lines of the balances file are as many as the wallets, so they name all.
LEMMA SortedAtFirst == Init => Sorted
  <1> SUFFICES ASSUME Init PROVE Sorted
    OBVIOUS
  <1>1. IsFiniteSet(Wallets)
    BY LedgerAssumption
  <1>2. PICK n \in Nat : n = Cardinality(Wallets)
    BY <1>1, FS_CardinalityType
  <1>3. PICK lines \in [1 .. n -> Wallets] : IsInjective(lines) /\ wallets = mergeSort[lines]
    BY <1>2 DEF Init
  <1>4. lines \in Injection(1 .. n, Wallets)
    BY <1>3 DEF Injection
  <1>5. Cardinality(1 .. n) = n
    BY FS_Interval
  <1>6. lines \in Surjection(1 .. n, Wallets)
    BY <1>1, <1>2, <1>4, <1>5, FS_Injection
  <1>7. lines \in Seq(Wallets) /\ Len(lines) = n
    BY <1>3
  <1>8. ToSet(lines) = Wallets
    <2>1. \A w \in Wallets : \E k \in 1 .. Len(lines) : lines[k] = w
      BY <1>6, <1>7 DEF Surjection
    <2> QED
      BY <1>7, <2>1, Holds
  <1> QED
    BY <1>3, <1>7, <1>8, MergeSortSorts DEF Sorted

\* findWallet finds every wallet and nothing else, whatever the order of the
\* balances file: mergeSort leaves all walletIDs in ascending order (Sorted),
\* nothing changes the array afterwards, and the binary search never leaves
\* out the half that a wallet is in.
THEOREM LookupCorrect == Spec => []LookupFinds
  <1>1. Init => Sorted
    BY SortedAtFirst
  <1>2. Sorted /\ [Next]_vars => Sorted'
    <2> SUFFICES ASSUME Sorted, [Next]_vars PROVE Sorted'
      OBVIOUS
    <2>1. wallets' = wallets
      <3>1. CASE FileTransaction
        BY <3>1 DEF FileTransaction, Record
      <3>2. CASE EndOfFile
        BY <3>2 DEF EndOfFile
      <3>3. CASE requestTransaction
        BY <3>3 DEF requestTransaction, Record
      <3>4. CASE makeBCTransaction
        BY <3>4 DEF makeBCTransaction, FirstUse, EnterTree, Descend, VisitLeaf, WalkEnds
      <3>5. CASE AskCoin
        BY <3>5 DEF AskCoin
      <3>6. CASE CoinSuffices
        BY <3>6 DEF CoinSuffices
      <3>7. CASE CoinUsedUp
        BY <3>7 DEF CoinUsedUp
      <3>8. CASE TransactionDone
        BY <3>8 DEF TransactionDone
      <3>9. CASE UNCHANGED vars
        BY <3>9 DEF vars
      <3> QED
        BY <3>1, <3>2, <3>3, <3>4, <3>5, <3>6, <3>7, <3>8, <3>9 DEF Next, makeTransaction
    <2> QED
      BY <2>1 DEF Sorted, Rising
  <1>3. Sorted => LookupFinds
    <2> SUFFICES ASSUME Sorted PROVE LookupFinds
      OBVIOUS
    <2>1. \A key \in IDs : Search(key) = key
      BY SearchFinds
    <2> QED
      BY <2>1 DEF LookupFinds, findWallet, IDs
  <1> QED
    BY <1>1, <1>2, <1>3, PTL DEF Spec

--------------------------------------------------------------------------------
(* The reports. *)

\* Multiplication keeps the order.
LEMMA TimesGrows ==
  ASSUME NEW L \in Nat, NEW m \in Nat, NEW n \in Nat, m <= n
  PROVE  m * L <= n * L
  <1>1. PICK k \in Nat : n = m + k
    <2>1. n - m \in Nat /\ n = m + (n - m)
      OBVIOUS
    <2> QED
      BY <2>1
  <1>2. n * L = m * L + k * L
    BY <1>1
  <1>3. m * L \in Nat /\ k * L \in Nat
    OBVIOUS
  <1> QED
    BY <1>2, <1>3

\* The day of a time: the last one that has begun.
LEMMA DayOf ==
  ASSUME NEW t \in Nat
  PROVE  /\ DayLength \in Nat \ {0} /\ Day(t) \in Nat
         /\ Day(t) * DayLength <= t /\ t <= Day(t) * DayLength + DayLength - 1
  <1>1. DayLength \in Nat \ {0}
    BY LedgerAssumption DEF DayLength
  <1>2. PICK L \in Nat \ {0} : L = DayLength
    BY <1>1
  <1>3. t \div L \in Nat /\ t % L \in 0 .. L - 1 /\ t = L * (t \div L) + (t % L)
    OBVIOUS
  <1>4. PICK q \in Nat, r \in 0 .. L - 1 : q = t \div L /\ r = t % L
    BY <1>3
  <1>5. PICK p \in Nat : p = q * L /\ p = L * q
    OBVIOUS
  <1>6. t = p + r
    BY <1>3, <1>4, <1>5
  <1>7. p <= t /\ t <= p + L - 1
    BY <1>6
  <1> QED
    BY <1>1, <1>2, <1>4, <1>5, <1>7 DEF Day

\* A time on the day d and at its first or last minute.
LEMMA DayIs ==
  ASSUME NEW t \in Nat, NEW d \in Nat,
         d * DayLength <= t, t <= d * DayLength + DayLength - 1
  PROVE  Day(t) = d
  <1>1. PICK L \in Nat \ {0}, q \in Nat : /\ L = DayLength /\ q = Day(t)
                                          /\ q * L <= t /\ t <= q * L + L - 1
    BY DayOf
  <1>2. PICK a \in Nat, b \in Nat : a = d * L /\ b = q * L
    OBVIOUS
  <1>3. a <= t /\ t <= a + L - 1 /\ b <= t /\ t <= b + L - 1
    BY <1>1, <1>2
  <1>4. ~ (q < d)
    <2> SUFFICES ASSUME q < d PROVE FALSE
      OBVIOUS
    <2>1. (q + 1) * L <= d * L
      BY TimesGrows
    <2>2. (q + 1) * L = b + L
      BY <1>2
    <2> QED
      BY <1>2, <1>3, <2>1, <2>2
  <1>5. ~ (d < q)
    <2> SUFFICES ASSUME d < q PROVE FALSE
      OBVIOUS
    <2>1. (d + 1) * L <= q * L
      BY TimesGrows
    <2>2. (d + 1) * L = a + L
      BY <1>2
    <2> QED
      BY <1>2, <1>3, <2>1, <2>2
  <1> QED
    BY <1>1, <1>4, <1>5

\* The test of findPayments for a range of dates, whose ends are times: it is
\* the days that count, but for the two minutes at the ends.
LEMMA DatesShown ==
  ASSUME NEW d1 \in Nat \ {0}, NEW d2 \in Nat \ {0}, NEW t \in Nat
  PROVE  Shown(d1 * DayLength, d2 * DayLength + DayLength - 1, t) <=> OnDays(d1, d2, t)
  <1>1. PICK L \in Nat \ {0}, q \in Nat : /\ L = DayLength /\ q = Day(t)
                                          /\ q * L <= t /\ t <= q * L + L - 1
    BY DayOf
  <1>2. PICK start \in Nat, end \in Nat, b \in Nat :
           start = d1 * L /\ end = d2 * L + L - 1 /\ b = q * L
    <2>1. d1 * L \in Nat /\ d2 * L \in Nat /\ q * L \in Nat
      OBVIOUS
    <2>2. d2 * L + L - 1 \in Nat
      BY <2>1
    <2> QED
      BY <2>1, <2>2
  <1>3. start # 0 /\ Day(start) # 0
    <2>1. Day(start) = d1
      BY <1>1, <1>2, DayIs
    <2>2. 1 * L <= d1 * L
      BY TimesGrows
    <2> QED
      BY <1>2, <2>1, <2>2
  <1>4. Shown(start, end, t) <=> start < t /\ t < end
    BY <1>3 DEF Shown, Between
  <1>5. q < d1 => t < start
    <2> SUFFICES ASSUME q < d1 PROVE t < start
      OBVIOUS
    <2>1. (q + 1) * L <= d1 * L
      BY TimesGrows
    <2>2. (q + 1) * L = b + L
      BY <1>2
    <2> QED
      BY <1>1, <1>2, <2>1, <2>2
  <1>6. d2 < q => end < t
    <2> SUFFICES ASSUME d2 < q PROVE end < t
      OBVIOUS
    <2>1. (d2 + 1) * L <= q * L
      BY TimesGrows
    <2>2. (d2 + 1) * L = d2 * L + L
      OBVIOUS
    <2>3. PICK c \in Nat : c = d2 * L
      OBVIOUS
    <2> QED
      BY <1>1, <1>2, <2>1, <2>2, <2>3
  <1>7. d1 <= q => start <= t
    <2> SUFFICES ASSUME d1 <= q PROVE start <= t
      OBVIOUS
    <2>1. d1 * L <= q * L
      BY TimesGrows
    <2> QED
      BY <1>1, <1>2, <2>1
  <1>8. q <= d2 => t <= end
    <2> SUFFICES ASSUME q <= d2 PROVE t <= end
      OBVIOUS
    <2>1. q * L <= d2 * L
      BY TimesGrows
    <2>2. PICK c \in Nat : c = d2 * L
      OBVIOUS
    <2> QED
      BY <1>1, <1>2, <2>1, <2>2
  <1>9. OnDays(d1, d2, t) <=> d1 <= q /\ q <= d2 /\ t # start /\ t # end
    BY <1>1, <1>2 DEF OnDays
  <1>10. (start < t /\ t < end) <=> (d1 <= q /\ q <= d2 /\ t # start /\ t # end)
    BY <1>5, <1>6, <1>7, <1>8
  <1> QED
    BY <1>1, <1>2, <1>4, <1>9, <1>10

\* What a report shows of a list.
LEMMA ReportShows ==
  ASSUME NEW s \in Seq(Transactions), NEW start, NEW end
  PROVE  ToSet(Report(s, start, end)) = {t \in ToSet(s) : Shown(start, end, t.date)}
  <1>1. PICK S : S = {t \in ToSet(s) : Shown(start, end, t.date)}
    OBVIOUS
  <1>2. PICK r : r = Kept(s, S)
    OBVIOUS
  <1>3. Report(s, start, end) = r
    BY <1>1, <1>2 DEF Report
  <1>4. /\ r \in Seq(Transactions)
        /\ \A k \in 1 .. Len(r) : r[k] \in S /\ \E i \in 1 .. Len(s) : r[k] = s[i]
        /\ \A i \in 1 .. Len(s) : s[i] \in S => \E k \in 1 .. Len(r) : r[k] = s[i]
    <2>1. /\ Kept(s, S) \in Seq(Transactions)
          /\ \A k \in 1 .. Len(Kept(s, S)) :
                Kept(s, S)[k] \in S /\ \E i \in 1 .. Len(s) : Kept(s, S)[k] = s[i]
          /\ \A i \in 1 .. Len(s) : s[i] \in S =>
                \E k \in 1 .. Len(Kept(s, S)) : Kept(s, S)[k] = s[i]
      BY KeptElements
    <2> QED
      BY <1>2, <2>1, Zenon
  <1>5. ToSet(r) = {r[k] : k \in 1 .. Len(r)} /\ ToSet(s) = {s[i] : i \in 1 .. Len(s)}
    BY <1>4 DEF ToSet
  <1>6. ASSUME NEW x \in ToSet(r) PROVE x \in S
    BY <1>4, <1>5
  <1>7. ASSUME NEW x \in S PROVE x \in ToSet(r)
    <2>1. PICK i \in 1 .. Len(s) : x = s[i]
      BY <1>1, <1>5
    <2>2. PICK k \in 1 .. Len(r) : r[k] = s[i]
      BY <1>4, <2>1
    <2> QED
      BY <1>5, <2>1, <2>2
  <1> QED
    BY <1>1, <1>3, <1>6, <1>7

\* Without a range everything is shown.
LEMMA ReportAll ==
  ASSUME NEW s \in Seq(Transactions)
  PROVE  Report(s, 0, 0) = s
  <1>1. PICK S : S = {t \in ToSet(s) : Shown(0, 0, t.date)}
    OBVIOUS
  <1>2. \A t : Shown(0, 0, t.date)
    BY DEF Shown
  <1>3. \A i \in 1 .. Len(s) : s[i] \in ToSet(s)
    BY DEF ToSet
  <1>4. \A i \in 1 .. Len(s) : s[i] \in S
    BY <1>1, <1>2, <1>3
  <1> QED
    BY <1>1, <1>4, KeptAll DEF Report

\* For a range of dates the transactions of those days are shown.
LEMMA ReportDays ==
  ASSUME NEW s \in Seq(Transactions), NEW d1 \in Nat \ {0}, NEW d2 \in Nat \ {0}
  PROVE  Report(s, d1 * DayLength, d2 * DayLength + DayLength - 1)
         = Kept(s, {t \in ToSet(s) : OnDays(d1, d2, t.date)})
  <1>1. PICK start, end : start = d1 * DayLength /\ end = d2 * DayLength + DayLength - 1
    OBVIOUS
  <1>2. PICK S : S = {t \in ToSet(s) : Shown(start, end, t.date)}
    OBVIOUS
  <1>3. PICK R : R = {t \in ToSet(s) : OnDays(d1, d2, t.date)}
    OBVIOUS
  <1>4. ASSUME NEW i \in 1 .. Len(s) PROVE (s[i] \in S <=> s[i] \in R)
    <2>1. s[i] \in ToSet(s) /\ s[i] \in Transactions
      BY DEF ToSet
    <2>2. s[i].date \in Nat
      BY <2>1 DEF Transactions
    <2>3. Shown(start, end, s[i].date) <=> OnDays(d1, d2, s[i].date)
      BY <1>1, <2>2, DatesShown
    <2> QED
      BY <1>2, <1>3, <2>1, <2>3
  <1>5. Kept(s, S) = Kept(s, R)
    BY <1>4, KeptSame
  <1> QED
    BY <1>1, <1>2, <1>3, <1>5 DEF Report

\* Both tables hold the same transactions, and so do the reports made of them.
LEMMA ReportsMatch ==
  ASSUME TypeOK, IDsUnique, NEW start, NEW end
  PROVE  UNION {ToSet(findPayments(w, start, end)) : w \in Wallets}
         = UNION {ToSet(findEarnings(w, start, end)) : w \in Wallets}
  <1>1. \A w \in Wallets : senderHT[w] \in Seq(Transactions) /\ receiverHT[w] \in Seq(Transactions)
    BY DEF TypeOK
  <1>2. \A w \in Wallets :
           /\ ToSet(findPayments(w, start, end)) = {t \in ToSet(senderHT[w]) : Shown(start, end, t.date)}
           /\ ToSet(findEarnings(w, start, end)) = {t \in ToSet(receiverHT[w]) : Shown(start, end, t.date)}
    BY <1>1, ReportShows DEF findPayments, findEarnings
  <1>3. UNION {ToSet(senderHT[w]) : w \in Wallets} = UNION {ToSet(receiverHT[w]) : w \in Wallets}
    BY DEF IDsUnique, Recorded
  <1>4. ASSUME NEW t
        PROVE  (\E w \in Wallets : t \in ToSet(senderHT[w])) <=> (\E w \in Wallets : t \in ToSet(receiverHT[w]))
    BY <1>3
  <1>5. ASSUME NEW t
        PROVE  (\E w \in Wallets : t \in ToSet(findPayments(w, start, end)))
               <=> (\E w \in Wallets : t \in ToSet(findEarnings(w, start, end)))
    BY <1>2, <1>4
  <1> QED
    BY <1>5

\* Every argument is a day: the day 0 is none.
LEMMA DaysTyped == Days \subseteq Nat \ {0}
  <1>1. \A d \in Dates : Day(d) \in Nat
    BY LedgerAssumption, DayOf
  <1> QED
    BY <1>1 DEF Days

\* findPayments and findEarnings tell what the tables hold, for all ranges
\* that takeCommands makes of the arguments.
THEOREM ReportsRight == Spec => []ReportsExact
  <1>1. TypeOK /\ IDsUnique => ReportsExact
    <2> SUFFICES ASSUME TypeOK, IDsUnique PROVE ReportsExact
      OBVIOUS
    <2>0. \A w \in Wallets : senderHT[w] \in Seq(Transactions)
      BY DEF TypeOK
    <2>1. \A w \in Wallets : findPayments(w, 0, 0) = senderHT[w]
      BY <2>0, ReportAll DEF findPayments
    <2>2. ASSUME NEW w \in Wallets, NEW d1 \in Days, NEW d2 \in Days, DateRange(d1, d2) # NoRange
          PROVE  findPayments(w, DateRange(d1, d2)[1], DateRange(d1, d2)[2])
                 = Kept(senderHT[w], {t \in ToSet(senderHT[w]) : OnDays(d1, d2, t.date)})
      <3>1. PICK range : range = DateRange(d1, d2)
        OBVIOUS
      <3>2. range = <<d1 * DayLength, d2 * DayLength + DayLength - 1>>
        BY <2>2, <3>1 DEF DateRange, Ascending
      <3>3. range[1] = d1 * DayLength /\ range[2] = d2 * DayLength + DayLength - 1
        BY <3>2
      <3>4. d1 \in Nat \ {0} /\ d2 \in Nat \ {0} /\ senderHT[w] \in Seq(Transactions)
        BY <2>0, DaysTyped
      <3>5. Report(senderHT[w], d1 * DayLength, d2 * DayLength + DayLength - 1)
            = Kept(senderHT[w], {t \in ToSet(senderHT[w]) : OnDays(d1, d2, t.date)})
        BY <3>4, ReportDays
      <3> QED
        BY <3>1, <3>3, <3>5 DEF findPayments
    <2>3. \A start, end : UNION {ToSet(findPayments(w, start, end)) : w \in Wallets}
                          = UNION {ToSet(findEarnings(w, start, end)) : w \in Wallets}
      BY ReportsMatch
    <2>4. \A w \in Wallets : \A d1, d2 \in Days :
             LET range == DateRange(d1, d2)
                 those == {t \in ToSet(senderHT[w]) : OnDays(d1, d2, t.date)}
             IN  range # NoRange =>
                   findPayments(w, range[1], range[2]) = Kept(senderHT[w], those)
      BY <2>2, Zenon
    <2>5. ASSUME NEW t1 \in Times, NEW t2 \in Times, NEW d \in Days \cup {0}
          PROVE  LET range == IF d = 0 THEN PaymentsTimeRange(t1, t2, TRUE)
                              ELSE PaymentsFullRange(t1, 1, t2, d)
                 IN  range # NoRange =>
                       UNION {ToSet(findPayments(w, range[1], range[2])) : w \in Wallets}
                       = UNION {ToSet(findEarnings(w, range[1], range[2])) : w \in Wallets}
      <3>1. PICK range : range = IF d = 0 THEN PaymentsTimeRange(t1, t2, TRUE)
                                 ELSE PaymentsFullRange(t1, 1, t2, d)
        OBVIOUS
      <3>2. UNION {ToSet(findPayments(w, range[1], range[2])) : w \in Wallets}
            = UNION {ToSet(findEarnings(w, range[1], range[2])) : w \in Wallets}
        BY <2>3
      <3> QED
        BY <3>1, <3>2
    <2> QED
      BY <2>1, <2>4, <2>5, Zenon DEF ReportsExact
  <1> QED
    BY <1>1, LedgerTypes, IDsCorrect, PTL
--------------------------------------------------------------------------------
(* traceCoin.  A tree is taken as a value again; its walk is the one of a      *)
(* transfer with left and right exchanged, except that it stops at every node. *)

\* The nodes that traceCoin has still to come to: those at and below its node,
\* and those to the left of the way there.
LeftOf(node) == {n \in Paths : \E k \in 1 .. Len(node) :
                   /\ node[k] = "R" /\ k <= Len(n) /\ n[k] = "L"
                   /\ \A j \in 1 .. k - 1 : n[j] = node[j]}
ToTrace(node) == AtOrBelow(node) \cup LeftOf(node)

\* A path that agrees with the way to a node, and differs from it after that.
LEMMA Agrees ==
  ASSUME NEW node \in Paths, NEW e \in {"L", "R"}, NEW n \in Paths
  PROVE  /\ n \in AtOrBelow(Append(node, e)) <=>
               (n \in AtOrBelow(node) /\ Len(n) > Len(node) /\ n[Len(node) + 1] = e)
         /\ n \in AtOrBelow(node) /\ n # node =>
               Len(n) > Len(node) /\ n[Len(node) + 1] \in {"L", "R"}
         /\ node \notin LeftOf(node)
  <1>1. PICK m \in Nat : m = Len(node)
    BY DEF Paths
  <1>2. PICK l \in Nat : l = Len(n)
    BY DEF Paths
  <1>3. PICK b : b = Append(node, e)
    OBVIOUS
  <1>4. /\ b \in Paths /\ Len(b) = m + 1 /\ b[m + 1] = e
        /\ \A j \in 1 .. m : b[j] = node[j]
    BY <1>1, <1>3 DEF Paths
  <1>5. n \in AtOrBelow(b) <=> (m + 1 <= l /\ \A j \in 1 .. m + 1 : n[j] = b[j])
    BY <1>2, <1>4 DEF AtOrBelow
  <1>6. n \in AtOrBelow(node) <=> (m <= l /\ \A j \in 1 .. m : n[j] = node[j])
    BY <1>1, <1>2 DEF AtOrBelow
  <1>7. (\A j \in 1 .. m + 1 : n[j] = b[j]) <=> (\A j \in 1 .. m : n[j] = node[j]) /\ n[m + 1] = e
    <2>1. \A j \in 1 .. m + 1 : j \in 1 .. m \/ j = m + 1
      OBVIOUS
    <2>2. m + 1 \in 1 .. m + 1 /\ \A j \in 1 .. m : j \in 1 .. m + 1
      OBVIOUS
    <2> QED
      BY <1>4, <2>1, <2>2
  <1>8. ASSUME m <= l, \A j \in 1 .. m : n[j] = node[j], n # node
        PROVE  l > m /\ n[m + 1] \in {"L", "R"}
    <2>1. l # m
      BY <1>1, <1>2, <1>8 DEF Paths
    <2>2. l > m
      BY <1>8, <2>1
    <2>3. m + 1 \in 1 .. l
      BY <2>2
    <2> QED
      BY <1>2, <2>2, <2>3 DEF Paths
  <1>9. node \notin LeftOf(node)
    BY DEF LeftOf
  <1> QED
    BY <1>1, <1>2, <1>3, <1>5, <1>6, <1>7, <1>8, <1>9

\* What lies to the left of a right child, and of a left one.
LEMMA LeftOfChild ==
  ASSUME NEW node \in Paths
  PROVE  /\ LeftOf(Right(node)) = LeftOf(node) \cup AtOrBelow(Left(node))
         /\ LeftOf(Left(node)) = LeftOf(node)
  <1>1. PICK m \in Nat : m = Len(node)
    BY DEF Paths
  <1>2. ASSUME NEW e \in {"L", "R"}, NEW n \in Paths
        PROVE  n \in LeftOf(Append(node, e)) <=>
                  n \in LeftOf(node) \/ (e = "R" /\ n \in AtOrBelow(Left(node)))
    <2>1. PICK b : b = Append(node, e)
      OBVIOUS
    <2>2. /\ b \in Paths /\ Len(b) = m + 1 /\ b[m + 1] = e
          /\ \A j \in 1 .. m : b[j] = node[j]
      BY <1>1, <2>1 DEF Paths
    <2>3. PICK l \in Nat : l = Len(n)
      BY DEF Paths
    <2>4. n \in AtOrBelow(Left(node)) <=>
             (m + 1 <= l /\ (\A j \in 1 .. m : n[j] = node[j]) /\ n[m + 1] = "L")
      <3>1. n \in AtOrBelow(node) <=> (m <= l /\ \A j \in 1 .. m : n[j] = node[j])
        BY <1>1, <2>3 DEF AtOrBelow
      <3>2. n \in AtOrBelow(Append(node, "L")) <=>
               (n \in AtOrBelow(node) /\ l > m /\ n[m + 1] = "L")
        BY <1>1, <2>3, Agrees
      <3>3. (m <= l /\ l > m) <=> m + 1 <= l
        OBVIOUS
      <3> QED
        BY <3>1, <3>2, <3>3 DEF Left
    <2>5. ASSUME n \in LeftOf(b) PROVE n \in LeftOf(node) \/ (e = "R" /\ n \in AtOrBelow(Left(node)))
      <3>1. PICK k \in 1 .. m + 1 : /\ b[k] = "R" /\ k <= l /\ n[k] = "L"
                                    /\ \A j \in 1 .. k - 1 : n[j] = b[j]
        BY <2>2, <2>3, <2>5 DEF LeftOf
      <3>2. CASE k = m + 1
        <4>1. \A j \in 1 .. m : n[j] = node[j]
          BY <2>2, <3>1, <3>2
        <4> QED
          BY <2>2, <2>4, <3>1, <3>2, <4>1
      <3>3. CASE k # m + 1
        <4>1. k \in 1 .. m /\ \A j \in 1 .. k - 1 : j \in 1 .. m
          BY <3>1, <3>3
        <4>2. node[k] = "R" /\ \A j \in 1 .. k - 1 : n[j] = node[j]
          BY <2>2, <3>1, <4>1
        <4> QED
          BY <1>1, <2>3, <3>1, <4>1, <4>2 DEF LeftOf
      <3> QED
        BY <3>2, <3>3
    <2>6. ASSUME n \in LeftOf(node) PROVE n \in LeftOf(b)
      <3>1. PICK k \in 1 .. m : /\ node[k] = "R" /\ k <= l /\ n[k] = "L"
                                /\ \A j \in 1 .. k - 1 : n[j] = node[j]
        BY <1>1, <2>3, <2>6 DEF LeftOf
      <3>2. k \in 1 .. m + 1 /\ \A j \in 1 .. k - 1 : j \in 1 .. m
        BY <3>1
      <3>3. b[k] = "R" /\ \A j \in 1 .. k - 1 : n[j] = b[j]
        BY <2>2, <3>1, <3>2
      <3> QED
        BY <2>2, <2>3, <3>1, <3>2, <3>3 DEF LeftOf
    <2>7. ASSUME e = "R", n \in AtOrBelow(Left(node)) PROVE n \in LeftOf(b)
      <3>1. m + 1 \in 1 .. m + 1 /\ (m + 1) - 1 = m
        OBVIOUS
      <3>2. \A j \in 1 .. m : n[j] = b[j]
        BY <2>2, <2>4, <2>7
      <3> QED
        BY <2>2, <2>3, <2>4, <2>7, <3>1, <3>2 DEF LeftOf
    <2> QED
      BY <2>1, <2>5, <2>6, <2>7
  <1>3. \A a \in Paths : LeftOf(a) \subseteq Paths /\ AtOrBelow(a) \subseteq Paths
    BY DEF LeftOf, AtOrBelow
  <1>4. Left(node) \in Paths /\ Right(node) \in Paths
    BY Children
  <1>5. \A n \in Paths : n \in LeftOf(Right(node)) <=>
                            n \in LeftOf(node) \/ n \in AtOrBelow(Left(node))
    BY <1>2 DEF Right
  <1>6. \A n \in Paths : n \in LeftOf(Left(node)) <=> n \in LeftOf(node)
    BY <1>2 DEF Left
  <1> QED
    BY <1>3, <1>4, <1>5, <1>6

\* The step down to the right: only the node itself is behind the walk.
LEMMA TraceDown ==
  ASSUME NEW node \in Paths
  PROVE  ToTrace(Right(node)) = ToTrace(node) \ {node}
  <1>1. Left(node) \in Paths /\ Right(node) \in Paths
    BY Children
  <1>2. ASSUME NEW n \in Paths
        PROVE  (n \in AtOrBelow(node) /\ n # node) <=>
                  n \in AtOrBelow(Left(node)) \/ n \in AtOrBelow(Right(node))
    <2>1. /\ n \in AtOrBelow(Left(node)) <=>
                (n \in AtOrBelow(node) /\ Len(n) > Len(node) /\ n[Len(node) + 1] = "L")
          /\ n \in AtOrBelow(Right(node)) <=>
                (n \in AtOrBelow(node) /\ Len(n) > Len(node) /\ n[Len(node) + 1] = "R")
      BY Agrees DEF Left, Right
    <2>2. n \in AtOrBelow(node) /\ n # node =>
             Len(n) > Len(node) /\ n[Len(node) + 1] \in {"L", "R"}
      BY Agrees
    <2>3. Len(node) \in Nat
      BY DEF Paths
    <2> QED
      BY <2>1, <2>2, <2>3
  <1>3. node \notin LeftOf(node)
    BY Agrees
  <1>4. LeftOf(Right(node)) = LeftOf(node) \cup AtOrBelow(Left(node))
    BY LeftOfChild
  <1>5. \A a \in Paths : LeftOf(a) \subseteq Paths /\ AtOrBelow(a) \subseteq Paths
    BY DEF LeftOf, AtOrBelow
  <1> QED
    BY <1>1, <1>2, <1>3, <1>4, <1>5 DEF ToTrace

\* The climb from a leaf: to the right child whose left brother comes next.
LEMMA TraceUp ==
  ASSUME NEW tr, Grown(tr), NEW node \in DOMAIN tr, NEW top, top = Climb(node)
  PROVE  /\ top = Root => LeftOf(node) = {}
         /\ top # Root => /\ Front(top) \in DOMAIN tr /\ Front(top) \in Paths
                          /\ top = Right(Front(top)) /\ top \in DOMAIN tr
                          /\ ToTrace(Left(Front(top))) = LeftOf(node)
  <1>1. node \in Paths /\ Len(node) \in Nat
    BY DEF Grown, Paths
  <1>2. PICK rights : rights = {k \in 1 .. Len(node) : node[k] = "R"}
    OBVIOUS
  <1>3. CASE rights = {}
    <2>1. top = Root
      BY <1>2, <1>3 DEF Climb
    <2>2. LeftOf(node) = {}
      BY <1>2, <1>3 DEF LeftOf
    <2> QED
      BY <2>1, <2>2
  <1>4. CASE rights # {}
    <2>1. PICK m : m = Max(rights)
      OBVIOUS
    <2>2. m \in rights /\ \A k \in rights : k <= m
      BY <1>1, <1>2, <1>4, <2>1, Greatest
    <2>3. m \in 1 .. Len(node) /\ node[m] = "R" /\ m \in Nat
      BY <1>1, <1>2, <2>2
    <2>4. PICK p : p = SubSeq(node, 1, m - 1)
      OBVIOUS
    <2>5. p \in Paths /\ Len(p) = m - 1 /\ \A j \in 1 .. m - 1 : p[j] = node[j]
      BY <1>1, <2>3, <2>4 DEF Paths
    <2>6. /\ top = SubSeq(node, 1, m) /\ top \in Paths /\ Len(top) = m
          /\ \A j \in 1 .. m : top[j] = node[j]
      <3>1. top = SubSeq(node, 1, m)
        BY <1>2, <1>4, <2>1 DEF Climb
      <3>2. SubSeq(node, 1, m) \in Paths /\ Len(SubSeq(node, 1, m)) = m
            /\ \A j \in 1 .. m : SubSeq(node, 1, m)[j] = node[j]
        BY <1>1, <2>3 DEF Paths
      <3> QED
        BY <3>1, <3>2
    <2>7. Len(p) + 1 = m
      BY <2>3, <2>5
    <2>8. top = Right(p)
      <3>1. /\ Right(p) \in Paths /\ Len(Right(p)) = m /\ Right(p)[m] = "R"
            /\ \A j \in 1 .. Len(p) : Right(p)[j] = p[j]
        BY <2>5, <2>7, Children
      <3>2. \A j \in 1 .. m : j \in 1 .. m - 1 \/ j = m
        BY <2>3
      <3>3. \A j \in 1 .. m : Right(p)[j] = top[j]
        BY <2>3, <2>5, <2>6, <3>1, <3>2
      <3> QED
        BY <2>6, <3>1, <3>3 DEF Paths
    <2>9. Front(top) = p
      <3>1. Front(top) = SubSeq(top, 1, m - 1)
        BY <2>6 DEF Front
      <3>2. /\ SubSeq(top, 1, m - 1) \in Paths /\ Len(SubSeq(top, 1, m - 1)) = m - 1
            /\ \A j \in 1 .. m - 1 : SubSeq(top, 1, m - 1)[j] = top[j]
        BY <2>3, <2>6 DEF Paths
      <3>3. \A j \in 1 .. m - 1 : j \in 1 .. m
        BY <2>3
      <3>4. \A j \in 1 .. m - 1 : SubSeq(top, 1, m - 1)[j] = p[j]
        BY <2>5, <2>6, <3>2, <3>3
      <3> QED
        BY <2>5, <3>1, <3>2, <3>4 DEF Paths
    <2>10. p \in DOMAIN tr /\ top \in DOMAIN tr
      <3>1. m - 1 \in 0 .. Len(node) /\ m \in 0 .. Len(node)
        BY <1>1, <2>3
      <3> QED
        BY <2>4, <2>6, <3>1 DEF Grown
    <2>11. ASSUME NEW n \in Paths PROVE n \in ToTrace(Left(p)) <=> n \in LeftOf(node)
      <3>1. PICK l \in Nat : l = Len(n)
        BY DEF Paths
      <3>2. n \in LeftOf(Left(p)) <=> n \in LeftOf(p)
        BY <2>5, LeftOfChild
      <3>3. PICK b : b = Left(p)
        OBVIOUS
      <3>4. /\ b \in Paths /\ Len(b) = m /\ b[m] = "L" /\ \A j \in 1 .. m - 1 : b[j] = node[j]
        BY <2>5, <2>7, <3>3, Children
      <3>5. ASSUME n \in AtOrBelow(b) PROVE n \in LeftOf(node)
        <4>1. m <= l /\ \A j \in 1 .. m : n[j] = b[j]
          BY <3>1, <3>4, <3>5 DEF AtOrBelow
        <4>2. n[m] = "L" /\ \A j \in 1 .. m - 1 : n[j] = node[j]
          BY <2>3, <3>4, <4>1
        <4> QED
          BY <2>3, <3>1, <4>1, <4>2 DEF LeftOf
      <3>6. ASSUME n \in LeftOf(p) PROVE n \in LeftOf(node)
        <4>1. PICK i \in 1 .. m - 1 : /\ p[i] = "R" /\ i <= l /\ n[i] = "L"
                                      /\ \A j \in 1 .. i - 1 : n[j] = p[j]
          BY <2>5, <3>1, <3>6 DEF LeftOf
        <4>2. i \in 1 .. Len(node) /\ \A j \in 1 .. i - 1 : j \in 1 .. m - 1
          BY <1>1, <2>3, <4>1
        <4>3. node[i] = "R" /\ \A j \in 1 .. i - 1 : n[j] = node[j]
          BY <2>5, <4>1, <4>2
        <4> QED
          BY <3>1, <4>1, <4>2, <4>3 DEF LeftOf
      <3>7. ASSUME n \in LeftOf(node) PROVE n \in AtOrBelow(b) \/ n \in LeftOf(p)
        <4>1. PICK i \in 1 .. Len(node) : /\ node[i] = "R" /\ i <= l /\ n[i] = "L"
                                          /\ \A j \in 1 .. i - 1 : n[j] = node[j]
          BY <3>1, <3>7 DEF LeftOf
        <4>2. i <= m
          BY <1>2, <2>2, <4>1
        <4>3. CASE i = m
          <5>1. \A j \in 1 .. m : n[j] = b[j]
            BY <2>3, <3>4, <4>1, <4>3
          <5> QED
            BY <3>1, <3>4, <4>1, <4>3, <5>1 DEF AtOrBelow
        <4>4. CASE i # m
          <5>1. i \in 1 .. m - 1 /\ \A j \in 1 .. i - 1 : j \in 1 .. m - 1
            BY <1>1, <2>3, <4>1, <4>2, <4>4
          <5>2. p[i] = "R" /\ \A j \in 1 .. i - 1 : n[j] = p[j]
            BY <2>5, <4>1, <5>1
          <5> QED
            BY <2>5, <3>1, <4>1, <5>1, <5>2 DEF LeftOf
        <4> QED
          BY <4>3, <4>4
      <3> QED
        BY <3>2, <3>3, <3>5, <3>6, <3>7 DEF ToTrace
    <2>12. ToTrace(Left(p)) = LeftOf(node)
      <3>1. ToTrace(Left(p)) \subseteq Paths /\ LeftOf(node) \subseteq Paths
        BY DEF ToTrace, AtOrBelow, LeftOf
      <3> QED
        BY <2>11, <3>1
    <2>13. top # Root
      BY <2>5, <2>8, Children
    <2> QED
      BY <2>5, <2>8, <2>9, <2>10, <2>12, <2>13
  <1> QED
    BY <1>3, <1>4
--------------------------------------------------------------------------------
(* The walk of traceCoin as a function of its place and of what it printed.    *)

Places(tr) == (DOMAIN tr) \X Seq(Nat)

\* One turn of the loop, by the function g for the rest of the walk.
Tracing(g, tr, at) ==
    LET node == at[1]
        seen == at[2]
        printed == Noted(seen, tr[node].trans)
        top     == Climb(node)
        brother == Left(Front(top))
    IN  IF Right(node) \in DOMAIN tr
        THEN g[<<Right(node), Noted(seen, tr[Right(node)].trans)>>]
        ELSE IF Left(node) \in DOMAIN tr THEN g[<<Left(node), seen>>]
        ELSE IF top = Root \/ brother \notin DOMAIN tr THEN printed
        ELSE g[<<brother, printed>>]

\* How many nodes the walk has still to come to.
Remaining(tr) == [at \in Places(tr) |-> Cardinality(DOMAIN tr \cap ToTrace(at[1]))]

\* What is printed is a list of IDs, each once.
LEMMA NotedIs ==
  ASSUME NEW seen \in Seq(Nat), NEW id \in Nat
  PROVE  /\ Noted(seen, id) \in Seq(Nat)
         /\ ToSet(Noted(seen, id)) = ToSet(seen) \cup {id}
         /\ IsInjective(seen) => IsInjective(Noted(seen, id))
  <1>1. CASE id \in ToSet(seen)
    BY <1>1 DEF Noted
  <1>2. CASE id \notin ToSet(seen)
    <2>1. PICK n \in Nat : n = Len(seen) /\ DOMAIN seen = 1 .. n
      OBVIOUS
    <2>2. PICK new : new = Append(seen, id)
      OBVIOUS
    <2>3. /\ new \in Seq(Nat) /\ DOMAIN new = 1 .. n + 1 /\ new[n + 1] = id
          /\ \A k \in 1 .. n : new[k] = seen[k]
      BY <2>1, <2>2
    <2>4. \A k \in 1 .. n + 1 : k \in 1 .. n \/ k = n + 1
      OBVIOUS
    <2>5. ToSet(new) = ToSet(seen) \cup {id}
      <3>1. ASSUME NEW v \in ToSet(new) PROVE v \in ToSet(seen) \cup {id}
        BY <2>1, <2>3, <2>4, <3>1 DEF ToSet
      <3>2. ASSUME NEW v \in ToSet(seen) PROVE v \in ToSet(new)
        <4>1. PICK k \in 1 .. n : seen[k] = v
          BY <2>1 DEF ToSet
        <4>2. k \in 1 .. n + 1 /\ new[k] = v
          BY <2>3, <4>1
        <4> QED
          BY <2>3, <4>2 DEF ToSet
      <3>3. id \in ToSet(new)
        <4>1. n + 1 \in 1 .. n + 1
          OBVIOUS
        <4> QED
          BY <2>3, <4>1 DEF ToSet
      <3> QED
        BY <3>1, <3>2, <3>3
    <2>6. IsInjective(seen) => IsInjective(new)
      <3>1. SUFFICES ASSUME IsInjective(seen), NEW j \in 1 .. n + 1, NEW k \in 1 .. n + 1,
                            new[j] = new[k]
                     PROVE  j = k
        BY <2>3 DEF IsInjective
      <3>2. \A i \in 1 .. n : new[i] # id
        BY <1>2, <2>1, <2>3 DEF ToSet
      <3>3. CASE j \in 1 .. n /\ k \in 1 .. n
        BY <2>1, <2>3, <3>1, <3>3 DEF IsInjective
      <3> QED
        BY <2>3, <2>4, <3>1, <3>2, <3>3
    <2>7. Noted(seen, id) = new
      BY <1>2, <2>2 DEF Noted
    <2> QED
      BY <2>3, <2>5, <2>6, <2>7
  <1> QED
    BY <1>1, <1>2

\* The place after a turn of the loop, if it goes on, is closer to the end.
LEMMA GoesOn ==
  ASSUME NEW tr, Grown(tr), NEW node \in DOMAIN tr, NEW seen \in Seq(Nat)
  PROVE  /\ node \in Paths /\ tr[node].trans \in Nat
         /\ Left(node) \in DOMAIN tr => Right(node) \in DOMAIN tr
         /\ Right(node) \in DOMAIN tr =>
               LET next == <<Right(node), Noted(seen, tr[Right(node)].trans)>>
               IN  next \in Places(tr) /\ Remaining(tr)[next] < Remaining(tr)[<<node, seen>>]
         /\ Climb(node) # Root /\ Left(Front(Climb(node))) \in DOMAIN tr =>
               LET next == <<Left(Front(Climb(node))), Noted(seen, tr[node].trans)>>
               IN  next \in Places(tr) /\ Remaining(tr)[next] < Remaining(tr)[<<node, seen>>]
  <1>1. /\ node \in Paths
        /\ Left(node) \in DOMAIN tr => Right(node) \in DOMAIN tr
        /\ \A n \in DOMAIN tr : tr[n].trans \in Nat
        /\ IsFiniteSet(DOMAIN tr)
    BY LedgerAssumption DEF Grown, Nodes
  <1>2. ASSUME NEW n \in DOMAIN tr, NEW s \in Seq(Nat), node \notin ToTrace(n),
               ToTrace(n) \subseteq ToTrace(node)
        PROVE  <<n, s>> \in Places(tr) /\ Remaining(tr)[<<n, s>>] < Remaining(tr)[<<node, seen>>]
    <2>1. <<n, s>> \in Places(tr) /\ <<node, seen>> \in Places(tr)
      BY DEF Places
    <2>2. PICK A, B : A = DOMAIN tr \cap ToTrace(n) /\ B = DOMAIN tr \cap ToTrace(node)
      OBVIOUS
    <2>3. Remaining(tr)[<<n, s>>] = Cardinality(A) /\ Remaining(tr)[<<node, seen>>] = Cardinality(B)
      BY <2>1, <2>2 DEF Remaining
    <2>4. node \in B /\ node \notin A /\ A \subseteq B
      <3>1. node \in AtOrBelow(node)
        BY <1>1 DEF AtOrBelow, Paths
      <3> QED
        BY <1>2, <2>2, <3>1 DEF ToTrace
    <2>5. IsFiniteSet(B) /\ IsFiniteSet(A)
      BY <1>1, <2>2, <2>4, FS_Subset
    <2>6. Cardinality(A) <= Cardinality(B) /\ Cardinality(A) # Cardinality(B)
      BY <2>4, <2>5, FS_Subset
    <2>7. Cardinality(A) \in Nat /\ Cardinality(B) \in Nat
      BY <2>5, FS_CardinalityType
    <2>8. Cardinality(A) < Cardinality(B)
      BY <2>6, <2>7
    <2> QED
      BY <2>1, <2>3, <2>8
  <1>3. ASSUME Right(node) \in DOMAIN tr
        PROVE  LET next == <<Right(node), Noted(seen, tr[Right(node)].trans)>>
               IN  next \in Places(tr) /\ Remaining(tr)[next] < Remaining(tr)[<<node, seen>>]
    <2>1. Noted(seen, tr[Right(node)].trans) \in Seq(Nat)
      BY <1>1, <1>3, NotedIs
    <2>2. ToTrace(Right(node)) = ToTrace(node) \ {node}
      BY <1>1, TraceDown
    <2> QED
      BY <1>2, <1>3, <2>1, <2>2
  <1>4. ASSUME Climb(node) # Root, Left(Front(Climb(node))) \in DOMAIN tr
        PROVE  LET next == <<Left(Front(Climb(node))), Noted(seen, tr[node].trans)>>
               IN  next \in Places(tr) /\ Remaining(tr)[next] < Remaining(tr)[<<node, seen>>]
    <2>1. Noted(seen, tr[node].trans) \in Seq(Nat)
      BY <1>1, NotedIs
    <2>2. ToTrace(Left(Front(Climb(node)))) = LeftOf(node)
      BY <1>4, TraceUp
    <2>3. node \notin LeftOf(node)
      BY <1>1, Agrees
    <2> QED
      BY <1>2, <1>4, <2>1, <2>2, <2>3 DEF ToTrace
  <1> QED
    BY <1>1, <1>3, <1>4

LEMMA RemainingTyped ==
  ASSUME NEW tr, Grown(tr)
  PROVE  Remaining(tr) \in [Places(tr) -> Nat]
  <1>1. IsFiniteSet(DOMAIN tr)
    BY DEF Grown
  <1>2. ASSUME NEW A PROVE Cardinality(DOMAIN tr \cap A) \in Nat
    BY <1>1, FS_Subset, FS_CardinalityType
  <1> QED
    BY <1>2 DEF Remaining

\* The walk is a function that satisfies its equation.
LEMMA TraceIs ==
  ASSUME NEW tr, Grown(tr), Right(Root) \in DOMAIN tr
  PROVE  \E f : /\ \A at \in Places(tr) : f[at] = Tracing(f, tr, at)
                /\ traceCoin(tr) = f[<<Root, <<>>>>]
  <1>1. PICK step : step = [g \in [Places(tr) -> Seq(Nat)] |->
                              [at \in Places(tr) |-> Tracing(g, tr, at)]]
    OBVIOUS
  <1>2. step \in [[Places(tr) -> Seq(Nat)] -> [Places(tr) -> Seq(Nat)]]
    <2>1. ASSUME NEW g \in [Places(tr) -> Seq(Nat)], NEW at \in Places(tr)
          PROVE  Tracing(g, tr, at) \in Seq(Nat)
      <3>1. PICK node \in DOMAIN tr, seen \in Seq(Nat) : at = <<node, seen>>
        BY DEF Places
      <3>2. at[1] = node /\ at[2] = seen
        BY <3>1
      <3>3. CASE Right(node) \in DOMAIN tr
        BY <3>2, <3>3, GoesOn DEF Tracing
      <3>4. CASE Right(node) \notin DOMAIN tr
        <4>1. Left(node) \notin DOMAIN tr
          BY <3>4, GoesOn
        <4>2. Noted(seen, tr[node].trans) \in Seq(Nat)
          BY NotedIs, GoesOn
        <4>3. CASE Climb(node) = Root \/ Left(Front(Climb(node))) \notin DOMAIN tr
          BY <3>2, <3>4, <4>1, <4>2, <4>3 DEF Tracing
        <4>4. CASE ~ (Climb(node) = Root \/ Left(Front(Climb(node))) \notin DOMAIN tr)
          BY <3>2, <3>4, <4>1, <4>4, GoesOn DEF Tracing
        <4> QED
          BY <4>3, <4>4
      <3> QED
        BY <3>3, <3>4
    <2> QED
      BY <1>1, <2>1
  <1>3. Respects(step, Places(tr), Seq(Nat), Remaining(tr))
    <2>1. SUFFICES ASSUME NEW g \in [Places(tr) -> Seq(Nat)], NEW h \in [Places(tr) -> Seq(Nat)],
                          NEW at \in Places(tr),
                          \A y \in Places(tr) : Remaining(tr)[y] < Remaining(tr)[at] => g[y] = h[y]
                   PROVE  step[g][at] = step[h][at]
      BY DEF Respects
    <2>2. step[g][at] = Tracing(g, tr, at) /\ step[h][at] = Tracing(h, tr, at)
      BY <1>1
    <2>3. PICK node \in DOMAIN tr, seen \in Seq(Nat) : at = <<node, seen>>
      BY DEF Places
    <2>4. at[1] = node /\ at[2] = seen
      BY <2>3
    <2>5. CASE Right(node) \in DOMAIN tr
      <3>1. PICK next : next = <<Right(node), Noted(seen, tr[Right(node)].trans)>>
        OBVIOUS
      <3>2. next \in Places(tr) /\ Remaining(tr)[next] < Remaining(tr)[at]
        BY <2>3, <2>5, <3>1, GoesOn
      <3>3. Tracing(g, tr, at) = g[next] /\ Tracing(h, tr, at) = h[next]
        BY <2>4, <2>5, <3>1 DEF Tracing
      <3> QED
        BY <2>1, <2>2, <3>2, <3>3
    <2>6. CASE Right(node) \notin DOMAIN tr
      <3>1. Left(node) \notin DOMAIN tr
        BY <2>6, GoesOn
      <3>2. CASE Climb(node) = Root \/ Left(Front(Climb(node))) \notin DOMAIN tr
        BY <2>2, <2>4, <2>6, <3>1, <3>2 DEF Tracing
      <3>3. CASE ~ (Climb(node) = Root \/ Left(Front(Climb(node))) \notin DOMAIN tr)
        <4>1. PICK next : next = <<Left(Front(Climb(node))), Noted(seen, tr[node].trans)>>
          OBVIOUS
        <4>2. next \in Places(tr) /\ Remaining(tr)[next] < Remaining(tr)[at]
          BY <2>3, <3>3, <4>1, GoesOn
        <4>3. Tracing(g, tr, at) = g[next] /\ Tracing(h, tr, at) = h[next]
          BY <2>4, <2>6, <3>1, <3>3, <4>1 DEF Tracing
        <4> QED
          BY <2>1, <2>2, <4>2, <4>3
      <3> QED
        BY <3>2, <3>3
    <2> QED
      BY <2>5, <2>6
  <1>4. Solvable(step, Places(tr), Seq(Nat))
    <2>1. Seq(Nat) # {}
      <3>1. <<>> \in Seq(Nat)
        OBVIOUS
      <3> QED
        BY <3>1
    <2>2. Remaining(tr) \in [Places(tr) -> Nat]
      BY RemainingTyped
    <2> QED
      BY <1>2, <1>3, <2>1, <2>2, FixedPoint, Zenon
  <1>5. PICK g \in [Places(tr) -> Seq(Nat)] : g = [at \in Places(tr) |-> Tracing(g, tr, at)]
    BY <1>1, <1>4 DEF Solvable
  <1>6. PICK f : f = CHOOSE h : h = [at \in Places(tr) |-> Tracing(h, tr, at)]
    OBVIOUS
  <1>7. f = [at \in Places(tr) |-> Tracing(f, tr, at)]
    BY <1>5, <1>6, Zenon
  <1>8. traceCoin(tr) = f[<<Root, <<>>>>]
    BY <1>6 DEF traceCoin, Tracing, Places
  <1> QED
    BY <1>7, <1>8

\* What a walk prints from a place on, after what it has printed before: no ID
\* twice, IDs of the tree only, and, if every part that was handed on left a
\* brother, the IDs of all right children that it has still to come to.
Traced(tr, node, seen, printed) ==
    /\ printed \in Seq(Nat)
    /\ IsInjective(seen) => IsInjective(printed)
    /\ ToSet(seen) \subseteq ToSet(printed)
    /\ ToSet(printed) \subseteq ToSet(seen) \cup {tr[n].trans : n \in DOMAIN tr \ {Root}}
    /\ (\A n \in DOMAIN tr : Right(n) \in DOMAIN tr => Left(n) \in DOMAIN tr) =>
          \A n \in DOMAIN tr :
             Right(n) \in DOMAIN tr /\ Right(n) \in ToTrace(node) \ {node} =>
                tr[Right(n)].trans \in ToSet(printed)

\* The rest of the walk is as good as the walk.
LEMMA TracedOn ==
  ASSUME NEW tr, NEW node \in DOMAIN tr, NEW seen \in Seq(Nat), NEW m \in DOMAIN tr \ {Root},
         NEW next, NEW printed, Traced(tr, next, Noted(seen, tr[m].trans), printed),
         tr[m].trans \in Nat,
         \A n \in DOMAIN tr :
            Right(n) \in DOMAIN tr /\ Right(n) \in ToTrace(node) \ {node} =>
               Right(n) = m \/ Right(n) \in ToTrace(next) \ {next}
  PROVE  Traced(tr, node, seen, printed)
  <1>1. PICK new : new = Noted(seen, tr[m].trans)
    OBVIOUS
  <1>2. /\ new \in Seq(Nat) /\ ToSet(new) = ToSet(seen) \cup {tr[m].trans}
        /\ IsInjective(seen) => IsInjective(new)
    BY <1>1, NotedIs
  <1>3. Traced(tr, next, new, printed)
    BY <1>1
  <1>4. tr[m].trans \in {tr[n].trans : n \in DOMAIN tr \ {Root}}
    OBVIOUS
  <1>5. /\ printed \in Seq(Nat)
        /\ IsInjective(seen) => IsInjective(printed)
        /\ ToSet(seen) \subseteq ToSet(printed)
        /\ ToSet(printed) \subseteq ToSet(seen) \cup {tr[n].trans : n \in DOMAIN tr \ {Root}}
    BY <1>2, <1>3, <1>4 DEF Traced
  <1>6. ASSUME \A n \in DOMAIN tr : Right(n) \in DOMAIN tr => Left(n) \in DOMAIN tr,
               NEW n \in DOMAIN tr, Right(n) \in DOMAIN tr, Right(n) \in ToTrace(node) \ {node}
        PROVE  tr[Right(n)].trans \in ToSet(printed)
    <2>1. CASE Right(n) = m
      BY <1>2, <1>3, <2>1 DEF Traced
    <2>2. CASE Right(n) \in ToTrace(next) \ {next}
      BY <1>3, <1>6, <2>2 DEF Traced
    <2> QED
      BY <1>6, <2>1, <2>2
  <1> QED
    BY <1>5, <1>6 DEF Traced

\* A walk that ends at once.
LEMMA TracedEnd ==
  ASSUME NEW tr, NEW node \in DOMAIN tr \ {Root}, NEW seen \in Seq(Nat),
         NEW printed, printed = Noted(seen, tr[node].trans), tr[node].trans \in Nat,
         (\A n \in DOMAIN tr : Right(n) \in DOMAIN tr => Left(n) \in DOMAIN tr) =>
            \A n \in DOMAIN tr :
               Right(n) \in DOMAIN tr => Right(n) \notin ToTrace(node) \ {node}
  PROVE  Traced(tr, node, seen, printed)
  <1>1. /\ printed \in Seq(Nat) /\ ToSet(printed) = ToSet(seen) \cup {tr[node].trans}
        /\ IsInjective(seen) => IsInjective(printed)
    BY NotedIs
  <1>2. tr[node].trans \in {tr[n].trans : n \in DOMAIN tr \ {Root}}
    OBVIOUS
  <1> QED
    BY <1>1, <1>2 DEF Traced

\* The walk prints what it should, by induction on what it has still to come to.
LEMMA TraceFinds ==
  ASSUME NEW tr, Grown(tr), Right(Root) \in DOMAIN tr
  PROVE  Traced(tr, Root, <<>>, traceCoin(tr))
  <1>1. PICK f : /\ \A at \in Places(tr) : f[at] = Tracing(f, tr, at)
                 /\ traceCoin(tr) = f[<<Root, <<>>>>]
    BY TraceIs
  <1>2. PICK T : T = {at \in Places(tr) : Traced(tr, at[1], at[2], f[at])}
    OBVIOUS
  <1>3. ASSUME NEW at \in Places(tr), \A y \in Places(tr) : Remaining(tr)[y] < Remaining(tr)[at] => y \in T
        PROVE  at \in T
    <2>1. PICK node \in DOMAIN tr, seen \in Seq(Nat) : at = <<node, seen>>
      BY DEF Places
    <2>2. at[1] = node /\ at[2] = seen /\ f[at] = Tracing(f, tr, at)
      BY <1>1, <2>1
    <2>3. /\ node \in Paths /\ \A n \in DOMAIN tr : n \in Paths /\ tr[n].trans \in Nat
          /\ Root \in DOMAIN tr
      BY GoesOn DEF Grown
    <2>4. \A n \in DOMAIN tr : Right(n) # Root /\ Left(n) # Root
      BY <2>3, Children
    <2>5. CASE Right(node) \in DOMAIN tr
      <3>1. PICK m, new, next : /\ m = Right(node) /\ new = Noted(seen, tr[m].trans)
                                /\ next = <<m, new>>
        OBVIOUS
      <3>2. next \in Places(tr) /\ Remaining(tr)[next] < Remaining(tr)[at]
        BY <2>1, <2>5, <3>1, GoesOn
      <3>3. f[at] = f[next]
        BY <2>2, <2>5, <3>1 DEF Tracing
      <3>4. Traced(tr, m, Noted(seen, tr[m].trans), f[at])
        BY <1>2, <1>3, <3>1, <3>2, <3>3
      <3>5. ToTrace(m) = ToTrace(node) \ {node}
        BY <2>3, <3>1, TraceDown
      <3>6. m \in DOMAIN tr \ {Root}
        BY <2>4, <2>5, <3>1
      <3>7. Traced(tr, node, seen, f[at])
        BY <2>3, <3>4, <3>5, <3>6, TracedOn
      <3> QED
        BY <1>2, <2>2, <3>7
    <2>6. CASE Right(node) \notin DOMAIN tr
      <3>1. Left(node) \notin DOMAIN tr /\ node \in DOMAIN tr \ {Root}
        BY <2>6, GoesOn
      <3>2. PICK top, p, b : top = Climb(node) /\ p = Front(top) /\ b = Left(p)
        OBVIOUS
      <3>3. ASSUME NEW n \in DOMAIN tr, n \in ToTrace(node) \ {node} PROVE n \in LeftOf(node)
        <4>1. n \notin AtOrBelow(node)
          BY <2>3, <2>6, <3>1, <3>3, BelowChild
        <4> QED
          BY <3>3, <4>1 DEF ToTrace
      <3>4. /\ top = Root => LeftOf(node) = {}
            /\ top # Root => /\ p \in DOMAIN tr /\ p \in Paths /\ top = Right(p)
                             /\ top \in DOMAIN tr /\ ToTrace(b) = LeftOf(node)
        BY <3>2, TraceUp
      <3>5. CASE top = Root \/ b \notin DOMAIN tr
        <4>1. f[at] = Noted(seen, tr[node].trans)
          BY <2>2, <2>6, <3>1, <3>2, <3>5 DEF Tracing
        <4>2. (\A n \in DOMAIN tr : Right(n) \in DOMAIN tr => Left(n) \in DOMAIN tr) =>
                 \A n \in DOMAIN tr :
                    Right(n) \in DOMAIN tr => Right(n) \notin ToTrace(node) \ {node}
          BY <3>2, <3>3, <3>4, <3>5
        <4>3. Traced(tr, node, seen, f[at])
          BY <2>3, <3>1, <4>1, <4>2, TracedEnd
        <4> QED
          BY <1>2, <2>2, <4>3
      <3>6. CASE ~ (top = Root \/ b \notin DOMAIN tr)
        <4>1. PICK next : next = <<b, Noted(seen, tr[node].trans)>>
          OBVIOUS
        <4>2. next \in Places(tr) /\ Remaining(tr)[next] < Remaining(tr)[at]
          BY <2>1, <3>2, <3>6, <4>1, GoesOn
        <4>3. f[at] = f[next]
          BY <2>2, <2>6, <3>1, <3>2, <3>6, <4>1 DEF Tracing
        <4>4. Traced(tr, b, Noted(seen, tr[node].trans), f[at])
          BY <1>2, <1>3, <4>1, <4>2, <4>3
        <4>5. ASSUME NEW n \in DOMAIN tr, Right(n) \in DOMAIN tr,
                     Right(n) \in ToTrace(node) \ {node}
              PROVE  Right(n) \in ToTrace(b) \ {b}
          <5>1. Right(n) \in ToTrace(b)
            BY <3>3, <3>4, <3>6, <4>5
          <5>2. Right(n) # b
            BY <2>3, <3>2, <3>4, <3>6, OneParent
          <5> QED
            BY <5>1, <5>2
        <4>6. Traced(tr, node, seen, f[at])
          BY <2>3, <3>1, <4>4, <4>5, TracedOn
        <4> QED
          BY <1>2, <2>2, <4>6
      <3> QED
        BY <3>5, <3>6
    <2> QED
      BY <2>5, <2>6
  <1>4. Remaining(tr) \in [Places(tr) -> Nat]
    BY RemainingTyped
  <1>5. Places(tr) \subseteq T
    BY <1>3, <1>4, MeasureInduction
  <1>6. PICK start : start = <<Root, <<>>>>
    OBVIOUS
  <1>7. start \in Places(tr) /\ start[1] = Root /\ start[2] = <<>>
    <2>1. Root \in DOMAIN tr /\ <<>> \in Seq(Nat)
      BY DEF Grown
    <2> QED
      BY <1>6, <2>1 DEF Places
  <1>8. Traced(tr, Root, <<>>, f[start])
    BY <1>2, <1>5, <1>7
  <1> QED
    BY <1>1, <1>6, <1>8

\* Every child bears the ID of the transaction that made it, which is none that
\* the root bears, and two brothers bear the same.
Stamped(tr) ==
    /\ tr[Root].trans = NoTrans
    /\ \A n \in DOMAIN tr : Right(n) \in DOMAIN tr => tr[Right(n)].trans # NoTrans
    /\ \A n \in DOMAIN tr : Left(n) \in DOMAIN tr => tr[Left(n)].trans = tr[Right(n)].trans

\* The inductive invariant.
Stamps == /\ Running => call.id # NoTrans
          /\ \A c \in Coins : Stamped(tree[c])

\* A leaf that is split leaves two children of the same transaction.
LEMMA SplitStamped ==
  ASSUME NEW tr, Grown(tr), Stamped(tr), NEW node \in Leaves(tr), NEW take, NEW new,
         HasSplit(tr, node, take, new), call.id # NoTrans
  PROVE  Stamped(new)
  <1>1. /\ node \in DOMAIN tr /\ node \in Paths
        /\ Left(node) \notin DOMAIN tr /\ Right(node) \notin DOMAIN tr
    BY LeafFacts
  <1>2. PICK l, r : l = Left(node) /\ r = Right(node)
    OBVIOUS
  <1>3. l \in Paths /\ r \in Paths /\ DOMAIN tr \subseteq Paths
    BY <1>1, <1>2, Children DEF Grown
  <1>4. /\ \A n \in DOMAIN new : n \in DOMAIN tr \/ n = l \/ n = r
        /\ \A n \in DOMAIN tr : n \in DOMAIN new /\ new[n] = tr[n]
        /\ r \in DOMAIN new /\ new[r].trans = call.id
        /\ l \in DOMAIN new => new[l].trans = call.id
    <2>1. l \in DOMAIN new => tr[node].amount > take
      BY <1>1, <1>2, <1>3, Children DEF HasSplit
    <2> QED
      BY <1>2, <2>1 DEF HasSplit
  <1>5. \A n \in Paths : Left(n) \in DOMAIN tr \/ Right(n) \in DOMAIN tr => n \in DOMAIN tr
    <2>1. SUFFICES ASSUME NEW n \in Paths, NEW e \in {"L", "R"}, Append(n, e) \in DOMAIN tr
                   PROVE  n \in DOMAIN tr
      BY DEF Left, Right
    <2>2. PICK m \in Nat : m = Len(n)
      BY DEF Paths
    <2>3. Len(Append(n, e)) = m + 1 /\ m \in 0 .. m + 1 /\ m # m + 1
      BY <2>2 DEF Paths
    <2>4. SubSeq(Append(n, e), 1, m) \in DOMAIN tr
      BY <2>1, <2>3 DEF Grown
    <2>5. SubSeq(Append(n, e), 1, m) = n
      BY <2>2 DEF Paths
    <2> QED
      BY <2>4, <2>5
  <1>6. \A n \in DOMAIN new : n \in Paths
    BY <1>3, <1>4
  <1>7. new[Root].trans = NoTrans
    BY <1>4 DEF Grown, Stamped
  <1>8. ASSUME NEW n \in DOMAIN new, Right(n) \in DOMAIN new PROVE new[Right(n)].trans # NoTrans
    <2>1. CASE Right(n) \in DOMAIN tr
      BY <1>4, <1>5, <1>6, <2>1 DEF Stamped
    <2>2. CASE Right(n) \notin DOMAIN tr
      <3>1. Right(n) = r
        BY <1>1, <1>2, <1>4, <1>6, <1>8, <2>2, OneParent
      <3> QED
        BY <1>4, <3>1
    <2> QED
      BY <2>1, <2>2
  <1>9. ASSUME NEW n \in DOMAIN new, Left(n) \in DOMAIN new
        PROVE  new[Left(n)].trans = new[Right(n)].trans
    <2>1. CASE Left(n) \in DOMAIN tr
      <3>1. n \in DOMAIN tr /\ Right(n) \in DOMAIN tr
        BY <1>5, <1>6, <2>1 DEF Grown
      <3>2. tr[Left(n)].trans = tr[Right(n)].trans
        BY <2>1, <3>1 DEF Stamped
      <3> QED
        BY <1>4, <2>1, <3>1, <3>2
    <2>2. CASE Left(n) \notin DOMAIN tr
      <3>1. Left(n) = l
        BY <1>1, <1>2, <1>4, <1>6, <1>9, <2>2, OneParent
      <3>2. n = node
        BY <1>1, <1>2, <1>6, <3>1, OneParent
      <3> QED
        BY <1>2, <1>4, <1>9, <3>2
    <2> QED
      BY <2>1, <2>2
  <1> QED
    BY <1>7, <1>8, <1>9 DEF Stamped

\* A step that splits a leaf of the coin at hand.
LEMMA GrowStamped ==
  ASSUME BooksInv, AtCoin, Stamps, NEW node \in Leaves(Tree), NEW take \in Nat,
         TreeGrows(node, take)
  PROVE  \A c \in Coins : Stamped(tree'[c])
  <1>1. /\ Running /\ Coin \in Coins /\ Tree = tree[Coin] /\ Grown(Tree)
        /\ DOMAIN tree = Coins
    BY CoinFacts DEF BooksInv, BooksTyped
  <1>2. tree'[Coin] = Split(Tree, node, take) /\ \A c \in Coins : c # Coin => tree'[c] = tree[c]
    BY <1>1 DEF TreeGrows
  <1>3. PICK new : new = Split(Tree, node, take)
    OBVIOUS
  <1>4. HasSplit(Tree, node, take, new)
    <2>1. /\ Tree[node].amount \in Nat /\ Left(node) # Right(node)
          /\ Left(node) \notin DOMAIN Tree /\ Right(node) \notin DOMAIN Tree
      BY <1>1, LeafFacts DEF Nodes
    <2> QED
      BY <1>3, <2>1, SplitShape
  <1>5. Stamped(Tree) /\ call.id # NoTrans
    BY <1>1 DEF Stamps
  <1>6. Stamped(new)
    BY <1>1, <1>4, <1>5, SplitStamped
  <1> QED
    BY <1>2, <1>3, <1>6 DEF Stamps

\* A transaction that begins has an ID.
LEMMA RecordStamped ==
  ASSUME NEW id \in 1 .. MaxID, NEW s, NEW r, NEW value, NEW date,
         Record(id, s, r, value, date)
  PROVE  call'.id # NoTrans /\ tree' = tree
  <1>1. MaxID \in Nat
    BY LedgerAssumption
  <1>2. call'.id = id
    BY DEF Record, NoCall
  <1> QED
    BY <1>1, <1>2 DEF Record, bookVars, NoTrans

LEMMA StampsStep ==
  ASSUME BooksInv, Stamps, [Next]_vars
  PROVE  Stamps'
  <1>1. CASE FileTransaction
    <2>1. PICK s \in Wallets, r \in Wallets, id \in 1 .. MaxID, date \in Dates :
             \E value \in 0 .. amount[s] + 1 : Record(id, s, r, value, date)
      BY <1>1 DEF FileTransaction
    <2> QED
      BY <2>1, RecordStamped DEF Stamps
  <1>2. CASE requestTransaction
    <2>1. PICK s \in Wallets, r \in Wallets, given \in TypedDates \cup ReadDates,
               clock \in Dates :
             \E value \in 1 .. amount[s] + 1, id \in 1 .. MaxID :
                Record(id, s, r, value, IF given = NoDate THEN clock ELSE given)
      BY <1>2 DEF requestTransaction
    <2> QED
      BY <2>1, RecordStamped DEF Stamps
  <1>3. CASE FirstUse
    <2>1. /\ AtCoin /\ Running /\ Right(Root) \notin DOMAIN Tree
          /\ call' = [call EXCEPT !.pc = "return", !.moved = call.want]
      BY <1>3 DEF AtCoin, Running, FirstUse
    <2>2. Grown(Tree) /\ call.want \in Nat /\ call \in CallType
      BY <2>1, CoinFacts, RunFacts DEF BooksInv, CallTyped
    <2>3. Root \in Leaves(Tree)
      BY <2>1, <2>2 DEF Grown, Leaves, IsLeaf
    <2>4. \A c \in Coins : Stamped(tree'[c])
      BY <1>3, <2>1, <2>2, <2>3, GrowStamped DEF FirstUse
    <2>5. call'.id = call.id
      BY <2>1, <2>2 DEF CallType
    <2> QED
      BY <2>1, <2>4, <2>5 DEF Stamps
  <1>4. CASE VisitLeaf
    <2>1. /\ AtCoin /\ Running /\ IsLeaf(Tree, call.node) /\ call.pc = "walk" /\ call.node # Root
      BY <1>4 DEF AtCoin, Running, VisitLeaf, Walking
    <2>2. /\ Grown(Tree) /\ call.node \in DOMAIN Tree /\ call \in CallType
          /\ call.want \in Nat /\ call.moved \in Nat /\ call.moved < call.want
      BY <1>4, <2>1, CoinFacts, RunFacts DEF BooksInv, CallTyped, Walked, VisitLeaf, Walking
    <2>3. call.node \in Leaves(Tree)
      BY <2>1, <2>2 DEF Leaves
    <2>4. PICK take : take = Min({Tree[call.node].amount, call.want - call.moved})
      OBVIOUS
    <2>5. take \in Nat
      <3>1. Tree[call.node].amount \in Nat /\ call.want - call.moved \in Nat
        BY <2>2 DEF Grown, Nodes
      <3>2. PICK a \in Nat, b \in Nat : a = Tree[call.node].amount /\ b = call.want - call.moved
        BY <3>1
      <3>3. \E x \in {a, b} : \A y \in {a, b} : x <= y
        OBVIOUS
      <3>4. Min({a, b}) \in {a, b}
        BY <3>3 DEF Min
      <3> QED
        BY <2>4, <3>2, <3>4
    <2>6. TreeGrows(call.node, take) \/ tree' = tree
      BY <1>4, <2>4 DEF VisitLeaf
    <2>7. \A c \in Coins : Stamped(tree'[c])
      BY <2>1, <2>3, <2>5, <2>6, GrowStamped DEF Stamps
    <2>8. \E m, n : call' = [call EXCEPT !.moved = m, !.node = n]
      BY <1>4 DEF VisitLeaf
    <2>9. call'.id = call.id
      BY <2>2, <2>8 DEF CallType
    <2> QED
      BY <2>1, <2>7, <2>9 DEF Stamps
  <1>5. ASSUME AskCoin \/ EnterTree \/ Descend \/ WalkEnds \/ CoinSuffices \/ CoinUsedUp
        PROVE  Stamps'
    <2>1. Running /\ tree' = tree
      BY <1>5 DEF Running, AskCoin, EnterTree, Descend, Walking, WalkEnds, CoinSuffices, CoinUsedUp,
                  bookVars
    <2>2. call \in CallType
      BY <2>1 DEF BooksInv, CallTyped
    <2>3. call'.id = call.id
      BY <1>5, <2>2 DEF AskCoin, EnterTree, Descend, WalkEnds, CoinSuffices, CoinUsedUp, CallType
    <2> QED
      BY <2>1, <2>3 DEF Stamps
  <1>6. CASE TransactionDone
    <2>1. tree' = tree /\ ~ Running'
      BY <1>6 DEF TransactionDone, Running, NoCall
    <2> QED
      BY <2>1 DEF Stamps
  <1>7. CASE EndOfFile \/ UNCHANGED vars
    BY <1>7 DEF EndOfFile, vars, bookVars, Stamps, Running
  <1> QED
    BY <1>1, <1>2, <1>3, <1>4, <1>5, <1>6, <1>7 DEF Next, makeTransaction, makeBCTransaction

LEMMA StampsBegin == Init => Stamps
  <1> SUFFICES ASSUME Init PROVE Stamps
    OBVIOUS
  <1>1. ~ Running
    BY DEF Init, Running, NoCall
  <1>2. ASSUME NEW c \in Coins PROVE Stamped(tree[c])
    <2>1. DOMAIN tree[c] = {Root} /\ tree[c][Root].trans = NoTrans
      BY DEF Init
    <2>2. Right(Root) # Root /\ Left(Root) # Root
      <3>1. Root \in Paths
        BY DEF Root, Paths
      <3> QED
        BY <3>1, Children
    <2> QED
      BY <2>1, <2>2 DEF Stamped
  <1> QED
    BY <1>1, <1>2 DEF Stamps

\* What a tree that is grown and stamped makes of the walk.
LEMMA TraceTells ==
  ASSUME NEW c \in Coins, Grown(tree[c]), Stamped(tree[c])
  PROVE  /\ ToSet(traceCoin(tree[c])) \subseteq Involved(c)
         /\ IsInjective(traceCoin(tree[c]))
         /\ ~ HandedOnWhole(c) => ToSet(traceCoin(tree[c])) = Involved(c)
  <1>1. PICK tr : tr = tree[c]
    OBVIOUS
  <1>2. ASSUME NEW n \in DOMAIN tr \ {Root}
        PROVE  \E p \in DOMAIN tr : /\ n = Left(p) \/ n = Right(p)
                                    /\ Right(p) \in DOMAIN tr
                                    /\ tr[n].trans = tr[Right(p)].trans
    <2>1. n \in Paths /\ n # <<>>
      BY <1>1 DEF Grown, Root
    <2>2. PICK m \in Nat : m = Len(n) - 1 /\ Len(n) = m + 1
      BY <2>1 DEF Paths
    <2>3. PICK p : p = SubSeq(n, 1, m)
      OBVIOUS
    <2>4. p \in DOMAIN tr
      BY <1>1, <2>2, <2>3 DEF Grown
    <2>5. n[m + 1] \in {"L", "R"} /\ n = Append(p, n[m + 1])
      BY <2>1, <2>2, <2>3 DEF Paths
    <2>6. n = Left(p) \/ n = Right(p)
      BY <2>5 DEF Left, Right
    <2> QED
      BY <1>1, <2>4, <2>6 DEF Grown, Stamped
  <1>3. Involved(c) = {tr[n].trans : n \in DOMAIN tr \ {Root}}
    <2>1. \A n \in DOMAIN tr \ {Root} : tr[n].trans # NoTrans
      BY <1>1, <1>2 DEF Stamped
    <2>2. Root \in DOMAIN tr /\ tr[Root].trans = NoTrans
      BY <1>1 DEF Grown, Stamped
    <2> QED
      BY <1>1, <2>1, <2>2 DEF Involved
  <1>4. ToSet(<<>>) = {} /\ IsInjective(<<>>)
    BY DEF ToSet, IsInjective
  <1>5. CASE Right(Root) \notin DOMAIN tr
    <2>1. traceCoin(tr) = <<>>
      BY <1>5 DEF traceCoin
    <2>2. ASSUME NEW n \in DOMAIN tr \ {Root} PROVE FALSE
      <3>1. n \in AtOrBelow(Root) /\ Root \in Paths
        BY <1>1 DEF Grown, AtOrBelow, Root, Paths
      <3>2. Left(Root) \notin DOMAIN tr
        BY <1>1, <1>5 DEF Grown
      <3> QED
        BY <1>1, <1>5, <3>1, <3>2, BelowChild
    <2> QED
      BY <1>1, <1>3, <1>4, <2>1, <2>2
  <1>6. CASE Right(Root) \in DOMAIN tr
    <2>1. PICK printed : printed = traceCoin(tr)
      OBVIOUS
    <2>2. Traced(tr, Root, <<>>, printed)
      BY <1>1, <1>6, <2>1, TraceFinds
    <2>3. IsInjective(printed) /\ ToSet(printed) \subseteq Involved(c)
      BY <1>3, <1>4, <2>2 DEF Traced
    <2>4. ASSUME ~ HandedOnWhole(c), NEW n \in DOMAIN tr \ {Root}
          PROVE  tr[n].trans \in ToSet(printed)
      <3>1. PICK p \in DOMAIN tr : /\ Right(p) \in DOMAIN tr
                                   /\ tr[n].trans = tr[Right(p)].trans
        BY <1>2
      <3>2. Right(p) \in ToTrace(Root) \ {Root}
        <4>1. p \in Paths
          BY <1>1 DEF Grown
        <4>2. Right(p) \in Paths /\ Right(p) # Root
          BY <4>1, Children
        <4> QED
          BY <4>2 DEF ToTrace, AtOrBelow, Root, Paths
      <3>3. \A q \in DOMAIN tr : Right(q) \in DOMAIN tr => Left(q) \in DOMAIN tr
        BY <1>1, <2>4 DEF HandedOnWhole
      <3> QED
        BY <2>2, <3>1, <3>2, <3>3 DEF Traced
    <2> QED
      BY <1>1, <1>3, <2>1, <2>3, <2>4
  <1> QED
    BY <1>5, <1>6

\* traceCoin prints transactions of the coin only, none twice, and all of them
\* unless some part of the coin was handed on whole, for any wallets, coins,
\* balances, file and commands.
THEOREM TraceCorrect == Spec => []TraceComplete
  <1>1. BooksInv /\ Stamps => TraceComplete
    <2>1. SUFFICES ASSUME BooksInv, Stamps, NEW c \in Coins
                   PROVE  LET printed == traceCoin(tree[c])
                          IN  /\ ToSet(printed) \subseteq Involved(c)
                              /\ IsInjective(printed)
                              /\ ~ HandedOnWhole(c) => ToSet(printed) = Involved(c)
      BY DEF TraceComplete
    <2>2. Grown(tree[c]) /\ Stamped(tree[c])
      BY <2>1, BookFacts DEF Stamps
    <2> QED
      BY <2>2, TraceTells
  <1>2. BooksInv /\ Stamps /\ [Next]_vars => Stamps'
    BY StampsStep
  <1> QED
    BY <1>1, <1>2, StampsBegin, BooksInvariance, PTL DEF Spec
--------------------------------------------------------------------------------
(* Every step of a transfer brings it closer to its end.                       *)

\* What is left of the loop over the sender's list: a coin that does not suffice
\* is removed from it.
Turns == 4 * Len(bcl[call.sndr])

Stage == CASE call.pc = "list"   -> IF call.tmpAmount = 0 THEN 1 ELSE Turns + 1
           [] call.pc = "coin"   -> Turns
           [] call.pc = "walk"   -> Turns - 1
           [] call.pc = "return" -> Turns - 2
           [] OTHER              -> 0

\* What is left of the walk through a tree: the nodes that it has still to come to.
Unseen == IF call.pc = "walk" /\ call.node # Root
          THEN Cardinality(DOMAIN Tree \cap ToCome(call.node)) ELSE 0

Shrinks == Stage' < Stage \/ (Stage' = Stage /\ Unseen' < Unseen)

\* From a child on the walk has nothing to come to that it had not before, and
\* the node itself is behind it.
LEMMA ChildCome ==
  ASSUME NEW node \in Paths, NEW e \in {"L", "R"}
  PROVE  ToCome(Append(node, e)) \subseteq ToCome(node) \ {node}
  <1>1. PICK m \in Nat : m = Len(node)
    BY DEF Paths
  <1>2. PICK b : b = Append(node, e)
    OBVIOUS
  <1>3. b \in Paths /\ Len(b) = m + 1 /\ \A j \in 1 .. m : b[j] = node[j]
    BY <1>1, <1>2 DEF Paths
  <1>4. node \notin RightOf(node)
    BY NotRightOfItself
  <1>5. ASSUME NEW n \in Paths, n \in AtOrBelow(b) PROVE n \in AtOrBelow(node) /\ n # node
    <2>1. n \in AtOrBelow(node) /\ Len(n) > Len(node)
      BY <1>2, <1>5, Agrees
    <2> QED
      BY <1>1, <2>1
  <1>6. ASSUME NEW n \in Paths, n \in RightOf(b)
        PROVE  n \in RightOf(node) \/ (n \in AtOrBelow(node) /\ n # node)
    <2>1. PICK l \in Nat : l = Len(n)
      BY DEF Paths
    <2>2. PICK k \in 1 .. m + 1 : /\ b[k] = "L" /\ k <= l /\ n[k] = "R"
                                  /\ \A j \in 1 .. k - 1 : n[j] = b[j]
      BY <1>3, <1>6, <2>1 DEF RightOf
    <2>3. CASE k = m + 1
      <3>1. m <= l /\ l # m /\ \A j \in 1 .. m : n[j] = node[j]
        BY <1>3, <2>2, <2>3
      <3> QED
        BY <1>1, <2>1, <3>1 DEF AtOrBelow
    <2>4. CASE k # m + 1
      <3>1. k \in 1 .. m /\ \A j \in 1 .. k - 1 : j \in 1 .. m
        BY <2>2, <2>4
      <3>2. node[k] = "L" /\ \A j \in 1 .. k - 1 : n[j] = node[j]
        BY <1>3, <2>2, <3>1
      <3> QED
        BY <1>1, <2>1, <2>2, <3>1, <3>2 DEF RightOf
    <2> QED
      BY <2>3, <2>4
  <1>7. ToCome(b) \subseteq Paths
    BY DEF ToCome, AtOrBelow, RightOf
  <1> QED
    BY <1>2, <1>4, <1>5, <1>6, <1>7 DEF ToCome

\* A set of nodes without one of them is smaller.
LEMMA FewerNodes ==
  ASSUME NEW tr, Grown(tr), NEW node \in DOMAIN tr, NEW A, A \subseteq ToCome(node) \ {node},
         NEW D, D \cap A \subseteq DOMAIN tr
  PROVE  Cardinality(D \cap A) < Cardinality(DOMAIN tr \cap ToCome(node))
  <1>1. PICK S, R : S = D \cap A /\ R = DOMAIN tr \cap ToCome(node)
    OBVIOUS
  <1>2. node \in R /\ node \notin S /\ S \subseteq R
    <2>1. node \in Paths
      BY DEF Grown
    <2> QED
      BY <1>1, <2>1, NotRightOfItself
  <1>3. IsFiniteSet(DOMAIN tr)
    BY DEF Grown
  <1>4. IsFiniteSet(R) /\ IsFiniteSet(S)
    BY <1>1, <1>2, <1>3, FS_Subset
  <1>5. Cardinality(S) <= Cardinality(R) /\ Cardinality(S) # Cardinality(R)
    BY <1>2, <1>4, FS_Subset
  <1>6. Cardinality(S) \in Nat /\ Cardinality(R) \in Nat
    BY <1>4, FS_CardinalityType
  <1>7. Cardinality(S) < Cardinality(R)
    BY <1>5, <1>6
  <1> QED
    BY <1>1, <1>7

\* The walk: every step leaves a node behind, whatever is split.
LEMMA WalkShrinks ==
  ASSUME BooksInv, Descend \/ VisitLeaf
  PROVE  Shrinks
  <1>1. /\ AtCoin /\ Running /\ call.pc = "walk" /\ call.node # Root /\ bcl' = bcl
    BY DEF AtCoin, Running, Descend, VisitLeaf, Walking, bookVars
  <1>2. /\ Grown(Tree) /\ call.node \in DOMAIN Tree /\ call.node \in Paths /\ call \in CallType
        /\ Coin \in Coins /\ Tree = tree[Coin] /\ DOMAIN tree = Coins
    BY <1>1, CoinFacts, RunFacts DEF BooksInv, BooksTyped, CallTyped, Walked
  <1>3. PICK x, m : call' = [call EXCEPT !.moved = m, !.node = x]
                    /\ (Descend => x = Below(Tree, call.node))
                    /\ (VisitLeaf => x = NextSubtree(call.node))
    <2>1. CASE Descend
      <3>1. call' = [call EXCEPT !.node = Below(Tree, call.node)]
        BY <2>1 DEF Descend
      <3>2. call' = [call EXCEPT !.moved = call.moved, !.node = Below(Tree, call.node)]
        BY <1>2, <3>1 DEF CallType
      <3>3. ~ VisitLeaf
        BY <2>1 DEF Descend, VisitLeaf
      <3> QED
        BY <3>2, <3>3
    <2>2. CASE VisitLeaf
      <3>1. ~ Descend
        BY <2>2 DEF Descend, VisitLeaf
      <3>2. \E m : call' = [call EXCEPT !.moved = m, !.node = NextSubtree(call.node)]
        BY <2>2 DEF VisitLeaf
      <3> QED
        BY <3>1, <3>2
    <2> QED
      BY <2>1, <2>2
  <1>4. /\ call'.pc = "walk" /\ call'.node = x /\ call'.sndr = call.sndr /\ call'.at = call.at
        /\ call'.tmpAmount = call.tmpAmount
    BY <1>1, <1>2, <1>3 DEF CallType
  <1>5. Coin' = Coin /\ Tree' = tree'[Coin]
    BY <1>1, <1>4 DEF Coin, Item, Tree
  <1>6. Stage' = Stage
    BY <1>1, <1>4 DEF Stage, Turns
  <1>7. Unseen = Cardinality(DOMAIN Tree \cap ToCome(call.node))
    BY <1>1 DEF Unseen
  <1>8. CASE Descend
    <2>1. DOMAIN Tree' = DOMAIN Tree
      BY <1>2, <1>5, <1>8 DEF Descend, bookVars
    <2>2. ~ IsLeaf(Tree, call.node) /\ x = Below(Tree, call.node)
      BY <1>3, <1>8 DEF Descend
    <2>3. x # Root
      BY <1>2, <2>2, StepDown
    <2>4. PICK e \in {"L", "R"} : x = Append(call.node, e)
      BY <2>2 DEF Below, Left, Right
    <2>5. ToCome(x) \subseteq ToCome(call.node) \ {call.node}
      BY <1>2, <2>4, ChildCome
    <2>6. Cardinality(DOMAIN Tree' \cap ToCome(x)) < Unseen
      BY <1>2, <1>7, <2>1, <2>5, FewerNodes
    <2>7. Unseen' = Cardinality(DOMAIN Tree' \cap ToCome(x))
      BY <1>4, <2>3 DEF Unseen
    <2> QED
      BY <1>6, <2>6, <2>7 DEF Shrinks
  <1>9. CASE VisitLeaf
    <2>1. x = NextSubtree(call.node)
      BY <1>3, <1>9
    <2>2. x # Root => ToCome(x) = RightOf(call.node)
      BY <1>2, <2>1, StepUp
    <2>3. RightOf(call.node) \subseteq ToCome(call.node) \ {call.node}
      BY <1>2, NotRightOfItself DEF ToCome
    <2>4. DOMAIN Tree' \subseteq DOMAIN Tree \cup {Left(call.node), Right(call.node)}
      <3>1. CASE tree' = tree
        BY <1>2, <1>5, <3>1
      <3>2. ASSUME NEW take, TreeGrows(call.node, take)
            PROVE  DOMAIN Tree' \subseteq DOMAIN Tree \cup {Left(call.node), Right(call.node)}
        <4>1. Tree' = Split(Tree, call.node, take)
          BY <1>2, <1>5, <3>2 DEF TreeGrows
        <4> QED
          BY <4>1 DEF Split
      <3> QED
        BY <1>9, <3>1, <3>2 DEF VisitLeaf
    <2>5. DOMAIN Tree' \cap RightOf(call.node) \subseteq DOMAIN Tree
      BY <1>2, <2>4, NotRightOfItself
    <2>6. Cardinality(DOMAIN Tree' \cap RightOf(call.node)) < Unseen
      BY <1>2, <1>7, <2>3, <2>5, FewerNodes
    <2>7. CASE x # Root
      <3>1. Unseen' = Cardinality(DOMAIN Tree' \cap RightOf(call.node))
        BY <1>4, <2>2, <2>7 DEF Unseen
      <3> QED
        BY <1>6, <2>6, <3>1 DEF Shrinks
    <2>8. CASE x = Root
      <3>1. Unseen' = 0
        BY <1>4, <2>8 DEF Unseen
      <3>2. Cardinality({}) = 0
        BY FS_EmptySet
      <3>3. Cardinality(DOMAIN Tree' \cap {}) < Unseen
        BY <1>2, <1>7, FewerNodes
      <3>4. DOMAIN Tree' \cap {} = {}
        OBVIOUS
      <3> QED
        BY <1>6, <3>1, <3>2, <3>3, <3>4 DEF Shrinks
    <2> QED
      BY <2>7, <2>8
  <1> QED
    BY <1>8, <1>9

\* The other steps: the loop over the list goes on, or the transfer ends.
LEMMA LoopShrinks ==
  ASSUME BooksInv, BooksInv', makeTransaction, ~ Descend, ~ VisitLeaf
  PROVE  Stage' < Stage
  <1>1. Running
    BY DEF Running, makeTransaction, makeBCTransaction, AskCoin, FirstUse, EnterTree, WalkEnds,
           CoinSuffices, CoinUsedUp, TransactionDone
  <1>2. /\ call \in CallType /\ call.sndr \in Wallets /\ call.sndr # call.rcvr /\ call.at = 1
        /\ call.tmpAmount \in Nat /\ call'.pc # "crashed"
        /\ bcl[call.sndr] \in Seq(Items) /\ bcl \in [Wallets -> Seq(Items)]
    BY <1>1, RunFacts, BookFacts DEF BooksInv, BooksTyped, CallTyped, CallType, Running
  <1>3. PICK n \in Nat : n = Len(bcl[call.sndr]) /\ Turns = 4 * n
    BY <1>2 DEF Turns
  <1>4. CASE AskCoin
    <2>1. /\ call.pc = "list" /\ call.tmpAmount > 0 /\ bcl' = bcl
          /\ call'.pc = "coin" /\ call'.sndr = call.sndr
      BY <1>2, <1>4 DEF AskCoin, bookVars, CallType
    <2>2. Stage = 4 * n + 1 /\ Stage' = 4 * n
      BY <1>2, <1>3, <2>1 DEF Stage, Turns
    <2> QED
      BY <2>2
  <1>5. CASE FirstUse \/ EnterTree
    <2>1. /\ call.pc = "coin" /\ bcl' = bcl /\ call'.pc \in {"return", "walk"}
          /\ call'.sndr = call.sndr
      BY <1>2, <1>5 DEF FirstUse, EnterTree, bookVars, CallType
    <2>2. Stage = 4 * n /\ Stage' \in {4 * n - 2, 4 * n - 1}
      BY <1>3, <2>1 DEF Stage, Turns
    <2> QED
      BY <2>2
  <1>6. CASE WalkEnds
    <2>1. call.pc = "walk" /\ bcl' = bcl /\ call'.pc = "return" /\ call'.sndr = call.sndr
      BY <1>2, <1>6 DEF WalkEnds, CallType
    <2>2. Stage = 4 * n - 1 /\ Stage' = 4 * n - 2
      BY <1>3, <2>1 DEF Stage, Turns
    <2> QED
      BY <2>2
  <1>7. ASSUME call.pc = "return"
        PROVE  n >= 1 /\ Stage = 4 * n - 2 /\ call.moved = call.want
    <2>1. AtCoin
      BY <1>7 DEF AtCoin
    <2> QED
      BY <1>3, <1>7, <2>1, CoinFacts DEF BooksInv, Walked, Stage
  <1>8. CASE CoinSuffices
    <2>1. AtCoin /\ call.pc = "return" /\ Item.amountOf >= call.tmpAmount
      BY <1>8 DEF AtCoin, CoinSuffices
    <2>2. call.moved = call.tmpAmount
      <3>1. call.want = IF Item.amountOf <= call.tmpAmount THEN Item.amountOf ELSE call.tmpAmount
        BY <2>1 DEF BooksInv, Walked
      <3>2. Item.amountOf \in Nat
        BY <2>1, CoinFacts
      <3> QED
        BY <1>2, <1>7, <2>1, <3>1, <3>2
    <2>3. call' = [call EXCEPT !.pc = "list", !.tmpAmount = call.tmpAmount - call.moved]
      BY <1>8 DEF CoinSuffices
    <2>4. call.tmpAmount - call.moved = 0
      BY <1>2, <2>2
    <2>5. call'.pc = "list" /\ call'.tmpAmount = 0
      BY <1>2, <2>3, <2>4 DEF CallType
    <2>6. Stage' = 1
      BY <2>5 DEF Stage
    <2> QED
      BY <1>7, <2>1, <2>6
  <1>9. CASE CoinUsedUp
    <2>1. call.pc = "return"
      BY <1>9 DEF CoinUsedUp
    <2>2. /\ MoveItems(removeFromBCList(Reduced, call.at))
          /\ call' = [call EXCEPT !.pc = "list", !.tmpAmount = @ - call.moved]
      <3>1. ASSUME call' = [call EXCEPT !.pc = "crashed"] PROVE FALSE
        BY <1>2, <3>1 DEF CallType
      <3> QED
        BY <1>9, <3>1 DEF CoinUsedUp
    <2>3. call'.pc = "list" /\ call'.sndr = call.sndr
      BY <1>2, <2>2 DEF CallType
    <2>4. PICK t, v : t = bcl[call.sndr] /\ v = [t[1] EXCEPT !.amountOf = @ - call.moved]
      OBVIOUS
    <2>5. PICK s \in Seq(Items \cup {v}) : s = Reduced /\ Len(s) = n
      <3>1. t \in Seq(Items \cup {v}) /\ Len(t) = n
        BY <1>2, <1>3, <2>4
      <3>2. Reduced = [t EXCEPT ![1] = v]
        BY <1>2, <2>4 DEF Reduced
      <3>3. [t EXCEPT ![1] = v] \in Seq(Items \cup {v}) /\ Len([t EXCEPT ![1] = v]) = n
        <4>1. PICK T : T = Items \cup {v} /\ v \in T
          OBVIOUS
        <4>2. t \in Seq(T)
          BY <3>1, <4>1
        <4>3. 1 \in 1 .. Len(t)
          BY <1>7, <2>1, <3>1
        <4>4. [t EXCEPT ![1] = v] \in Seq(T) /\ Len([t EXCEPT ![1] = v]) = Len(t)
          BY <4>1, <4>2, <4>3, ExceptSeq
        <4> QED
          BY <3>1, <4>1, <4>4
      <3> QED
        BY <3>2, <3>3
    <2>6. Len(removeFromBCList(Reduced, call.at)) = n - 1
      <3>1. removeFromBCList(Reduced, call.at) = SubSeq(s, 1, 0) \o SubSeq(s, 2, n)
        BY <1>2, <2>5 DEF removeFromBCList, RemoveAt
      <3>2. SubSeq(s, 1, 0) = <<>> /\ SubSeq(s, 2, n) \in Seq(Items \cup {v})
            /\ Len(SubSeq(s, 2, n)) = n - 1
        BY <1>7, <2>1, <2>5
      <3> QED
        BY <3>1, <3>2
    <2>7. bcl'[call.sndr] = removeFromBCList(Reduced, call.at)
      BY <1>2, <2>2 DEF MoveItems
    <2>8. Stage' \in {1, 4 * (n - 1) + 1}
      BY <2>3, <2>6, <2>7 DEF Stage, Turns
    <2> QED
      BY <1>7, <2>1, <2>8
  <1>10. CASE TransactionDone
    <2>1. Stage = 1
      BY <1>10 DEF TransactionDone, Stage
    <2>2. call'.pc = "idle"
      BY <1>10 DEF TransactionDone, NoCall
    <2>3. Stage' = 0
      BY <2>2 DEF Stage
    <2> QED
      BY <2>1, <2>3
  <1> QED
    BY <1>4, <1>5, <1>6, <1>8, <1>9, <1>10 DEF makeTransaction, makeBCTransaction

\* Every loop step of makeTransaction and makeBCTransaction brings the transfer
\* closer to its end, for any wallets, coins and trees: neither the loop over the
\* sender's list nor the walk through a tree that grows meanwhile goes on for ever.
THEOREM TransfersShrink == Spec => [][makeTransaction => Shrinks]_vars
  <1>1. BooksInv /\ BooksInv' /\ [Next]_vars => [makeTransaction => Shrinks]_vars
    BY WalkShrinks, LoopShrinks DEF Shrinks
  <1> QED
    BY <1>1, BooksInvariance, PTL DEF Spec
================================================================================
