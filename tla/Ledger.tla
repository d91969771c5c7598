-------------------------------- MODULE Ledger ---------------------------------
(***************************************************************************)
(* The bitcoin ledger (SysPro_Project1/src): wallets with their lists of   *)
(* coins, the transaction tree of every coin, the two tables of            *)
(* transactions, and what moves money through them: the transactions file  *)
(* and requestTransaction.                                                 *)
(*                                                                         *)
(* The same money is kept three times: in Wallet.amount, in the amountOf   *)
(* of the wallet's coins and in the leaves of the coins' trees.  A         *)
(* transaction updates them piece by piece, so makeTransaction and         *)
(* makeBCTransaction are modelled loop step by loop step; the program is   *)
(* sequential and nothing else happens in between.                         *)
(*                                                                         *)
(* A node of a tree is the path that leads to it from the root.            *)
(***************************************************************************)
EXTENDS Integers, Sequences, SequencesExt, TLC

CONSTANTS Wallets,        \* walletIDs
          Coins,          \* BitCoin IDs
          Balances,       \* the balances file: the coins of every wallet, in order
          bitCoinValue,   \* -v
          Rank,           \* the order of strcmp among walletIDs
          Unknown,        \* an ID that is no wallet's
          Dates,          \* dateTime of a transaction, in minutes
          MinutesPerHour, HoursPerDay, DaysPerMonth,
          MaxID,          \* the last transaction ID that newID can make
          MaxTrans        \* bound on transactions

NoTrans == 0   \* the root of a tree stems from no transaction
NoDate  == 0   \* a request without date and time

\* The balances file mentions every coin once.  Its lines are read with a %s
\* that skips the newline after a walletID, so that only the last line can be
\* without coins; and so many days pass before the first date that the day 0
\* of its month is not before the epoch.
ASSUME LedgerAssumption ==
    /\ IsFiniteSet(Wallets) /\ IsFiniteSet(Coins)
    /\ bitCoinValue \in Nat \ {0} /\ MaxID \in Nat /\ MaxTrans \in Nat
    /\ Dates \subseteq Nat
    /\ \A d \in Dates : d > DaysPerMonth * HoursPerDay * MinutesPerHour
    /\ MinutesPerHour \in Nat \ {0} /\ HoursPerDay \in Nat \ {0}
    /\ DaysPerMonth \in Nat \ {0}
    /\ Unknown \notin Wallets
    /\ Rank \in [Wallets \cup {Unknown} -> Nat]
    /\ \A v, w \in Wallets \cup {Unknown} : Rank[v] = Rank[w] => v = w
    /\ \A v, w \in Wallets : Balances[v] = <<>> /\ Balances[w] = <<>> => v = w
    /\ Balances \in [Wallets -> Seq(Coins)]
    /\ \A c \in Coins : \E w \in Wallets : \E k \in 1 .. Len(Balances[w]) :
          /\ Balances[w][k] = c
          /\ \A v \in Wallets : \A m \in 1 .. Len(Balances[v]) :
                Balances[v][m] = c => v = w /\ m = k

VARIABLES wallets,             \* the array of walletIDs that is searched
          amount,              \* Wallet.amount
          bcl,                 \* the list of BCList items of every wallet
          tree,                \* the TransTree of every coin
          numOfTransactions,   \* of every coin
          senderHT,            \* the transactions of every sender
          receiverHT,          \* the transactions of every receiver
          maxID,               \* the greatest transaction ID
          lastDateTime,
          phase,               \* reading the transactions file, or commands
          call                 \* the locals of makeTransaction and makeBCTransaction

bookVars == <<amount, bcl, tree, numOfTransactions>>
htVars   == <<senderHT, receiverHT>>
idVars   == <<maxID, lastDateTime, phase>>
vars     == <<wallets, bookVars, htVars, idVars, call>>

Root  == <<>>
Left(node)  == Append(node, "L")
Right(node) == Append(node, "R")

NoCall == [pc |-> "idle", sndr |-> CHOOSE w \in Wallets : TRUE,
           rcvr |-> CHOOSE w \in Wallets : TRUE, amount |-> 0, id |-> NoTrans,
           tmpAmount |-> 0, at |-> 1, want |-> 0, moved |-> 0, node |-> Root]

\* Mutant: of two heads the greater one is taken.
HeadLast(l, r) == Rank[Head(l)] > Rank[Head(r)]

\* strcmp of the two heads: the left one is copied.
HeadFirst(l, r) == Rank[Head(l)] < Rank[Head(r)]

\* Two sorted runs become one.
merge[runs \in Seq(Wallets) \X Seq(Wallets)] ==
    LET l == runs[1]
        r == runs[2]
    IN  IF l = <<>> THEN r
        ELSE IF r = <<>> THEN l
        ELSE IF HeadFirst(l, r) THEN <<Head(l)>> \o merge[<<Tail(l), r>>]
        ELSE <<Head(r)>> \o merge[<<l, Tail(r)>>]

\* middle = (start + end) / 2 belongs to the left half.
mergeSort[s \in Seq(Wallets)] ==
    IF Len(s) <= 1 THEN s
    ELSE LET middle == (Len(s) + 1) \div 2
         IN  merge[<<mergeSort[SubSeq(s, 1, middle)],
                     mergeSort[SubSeq(s, middle + 1, Len(s))]>>]

\* The binary search of findWallet between two bounds, counted from 1.
Search(key) ==
    LET found[bounds \in (1 .. Len(wallets) + 1) \X (0 .. Len(wallets))] ==
            LET left   == bounds[1]
                right  == bounds[2]
                middle == (left + right) \div 2
            IN  IF left > right THEN Unknown
                ELSE IF wallets[middle] = key THEN wallets[middle]
                ELSE IF Rank[wallets[middle]] < Rank[key] THEN found[<<middle + 1, right>>]
                ELSE found[<<left, middle - 1>>]
    IN  found[<<1, Len(wallets)>>]

findWallet(key) == Search(key)

\* walletsInitialization and bitCoinInitialization, whatever the order of the
\* lines.
Init ==
    /\ \E lines \in [1 .. Cardinality(Wallets) -> Wallets] :
          /\ IsInjective(lines)
          /\ \A w \in Wallets : Balances[w] = <<>> => lines[Len(lines)] = w
          /\ wallets = mergeSort[lines]
    /\ amount = [w \in Wallets |-> Len(Balances[w]) * bitCoinValue]
    /\ bcl = [w \in Wallets |->
                [k \in 1 .. Len(Balances[w]) |->
                    [coin |-> Balances[w][k], amountOf |-> bitCoinValue]]]
    /\ tree = [c \in Coins |->
                 [node \in {Root} |->
                    [owner  |-> CHOOSE w \in Wallets : c \in ToSet(Balances[w]),
                     amount |-> bitCoinValue, trans |-> NoTrans]]]
    /\ numOfTransactions = [c \in Coins |-> 0]
    /\ senderHT = [w \in Wallets |-> <<>>]
    /\ receiverHT = [w \in Wallets |-> <<>>]
    /\ maxID = NoTrans /\ lastDateTime = NoDate
    /\ phase = "file"
    /\ call = NoCall

--------------------------------------------------------------------------------
(* Where a transaction comes from. *)

senderHasEnough(w, value) == amount[w] >= value

\* addTransaction, to both tables, and the call of makeTransaction.
Record(id, s, r, value, date) ==
    LET t == [id |-> id, from |-> s, to |-> r, value |-> value, date |-> date]
    IN  /\ senderHT' = [senderHT EXCEPT ![s] = Append(@, t)]
        /\ receiverHT' = [receiverHT EXCEPT ![r] = Append(@, t)]
        /\ call' = [NoCall EXCEPT !.pc = "list", !.sndr = s, !.rcvr = r, !.id = id,
                                  !.amount = value, !.tmpAmount = value]
        /\ UNCHANGED <<wallets, bookVars>>

Recorded == UNION {ToSet(senderHT[w]) : w \in Wallets}

TransCount == SumFunction([w \in Wallets |-> Len(senderHT[w])])

\* A valid line of the transactions file, which is in ascending order of
\* date; the other lines are skipped.
FileTransaction ==
    /\ phase = "file" /\ call.pc = "idle" /\ TransCount < MaxTrans
    /\ \E s, r \in Wallets, id \in 1 .. MaxID, date \in Dates :
       \E value \in 0 .. amount[s] + 1 :
          /\ findWallet(s) = s /\ findWallet(r) = r
          /\ \A t \in Recorded : t.id # id
          /\ s # r
          /\ senderHasEnough(s, value)
          /\ date >= lastDateTime
          /\ Record(id, s, r, value, date)
          /\ maxID' = IF id > maxID THEN id ELSE maxID
          /\ lastDateTime' = date
    /\ UNCHANGED phase

EndOfFile == /\ phase = "file" /\ call.pc = "idle"
             /\ phase' = "commands"
             /\ UNCHANGED <<wallets, bookVars, htVars, maxID, lastDateTime, call>>

\* Mutant: the ID handed out is not remembered.
NewIDForgotten(id) == id = maxID + 1 /\ maxID < MaxID /\ UNCHANGED maxID

\* An ID greater than all others, as long as there is one.
newID(id) == id = maxID + 1 /\ maxID < MaxID /\ maxID' = id

DayLength == HoursPerDay * MinutesPerHour
tm_mday(date) == ((date \div DayLength) % DaysPerMonth) + 1

\* Dates as they come from a typed command, or none.
TypedDates == Dates \cup {NoDate}

\* requestTransactions with a file: tm_mday is assigned the outcome of a
\* comparison, so the day is 0 and timegm makes it the day before the first.
ReadDates == {date - tm_mday(date) * DayLength : date \in Dates} \cup {NoDate}

\* given is the date of the command; without one the clock is taken as it is.
requestTransaction ==
    /\ phase = "commands" /\ call.pc = "idle" /\ TransCount < MaxTrans
    /\ \E s, r \in Wallets, given \in TypedDates \cup ReadDates, clock \in Dates :
       \E value \in 1 .. amount[s] + 1, id \in 1 .. MaxID :
          /\ s # r
          /\ given = NoDate \/ given >= lastDateTime
          /\ findWallet(s) = s /\ findWallet(r) = r
          /\ senderHasEnough(s, value)
          /\ newID(id)
          /\ LET date == IF given = NoDate THEN clock ELSE given
             IN  Record(id, s, r, value, date) /\ lastDateTime' = date
    /\ UNCHANGED phase

--------------------------------------------------------------------------------
(* makeBCTransaction: the tree of one coin. *)

Item == bcl[call.sndr][call.at]   \* the BCList item makeTransaction points to
Coin == Item.coin
Tree == tree[Coin]

IsLeaf(tr, node) == Left(node) \notin DOMAIN tr /\ Right(node) \notin DOMAIN tr
Leaves(tr) == {node \in DOMAIN tr : IsLeaf(tr, node)}

\* Mutant: the owner keeps a left child even if nothing is left.
SplitAlways(tr, node, take) ==
    tr @@ (Right(node) :> [owner |-> call.rcvr, amount |-> take, trans |-> call.id])
       @@ (Left(node) :> [owner |-> tr[node].owner, trans |-> call.id,
                          amount |-> tr[node].amount - take])

\* Mutant: the left child is not reduced.
SplitTwice(tr, node, take) ==
    tr @@ (Right(node) :> [owner |-> call.rcvr, amount |-> take, trans |-> call.id])
       @@ (IF tr[node].amount > take
           THEN Left(node) :> [tr[node] EXCEPT !.trans = call.id] ELSE <<>>)

\* take goes to the receiver as right child, a remainder stays as left child.
Split(tr, node, take) ==
    LET rest == tr[node].amount - take
        right == [owner |-> call.rcvr, amount |-> take, trans |-> call.id]
        left == [owner |-> tr[node].owner, amount |-> rest, trans |-> call.id]
    IN  [n \in DOMAIN tr \cup {Right(node)} \cup (IF rest > 0 THEN {Left(node)} ELSE {}) |->
           IF n = Right(node) THEN right ELSE IF n = Left(node) THEN left ELSE tr[n]]

TreeGrows(node, take) == tree' = [tree EXCEPT ![Coin] = Split(@, node, take)]

\* The first transaction with this coin: an early return.
FirstUse == /\ call.pc = "coin" /\ Right(Root) \notin DOMAIN Tree
            /\ TreeGrows(Root, call.want)
            /\ call' = [call EXCEPT !.pc = "return", !.moved = call.want]
            /\ UNCHANGED <<wallets, amount, bcl, numOfTransactions, htVars, idVars>>

Below(tr, node) == IF Left(node) \in DOMAIN tr THEN Left(node) ELSE Right(node)

EnterTree == /\ call.pc = "coin" /\ Right(Root) \in DOMAIN Tree
             /\ call' = [call EXCEPT !.pc = "walk", !.node = Below(Tree, Root)]
             /\ UNCHANGED <<wallets, bookVars, htVars, idVars>>

Walking == call.pc = "walk" /\ call.node # Root /\ call.moved < call.want

Descend == /\ Walking /\ ~IsLeaf(Tree, call.node)
           /\ call' = [call EXCEPT !.node = Below(Tree, call.node)]
           /\ UNCHANGED <<wallets, bookVars, htVars, idVars>>

\* Mutant: the climb stops at the first right child.
NoClimb(node) == Right(Front(node))

\* The climb from a leaf: up past all right children, then to the right of
\* the left child reached; Root when there is none, which ends the walk.
NextSubtree(node) ==
    LET lefts == {k \in 1 .. Len(node) : node[k] = "L"}
    IN  IF lefts = {} THEN Root ELSE Right(SubSeq(node, 1, Max(lefts) - 1))

VisitLeaf ==
    /\ Walking /\ IsLeaf(Tree, call.node)
    /\ LET mine == Tree[call.node].owner = call.sndr
           take == Min({Tree[call.node].amount, call.want - call.moved})
       IN  /\ IF mine THEN TreeGrows(call.node, take) ELSE UNCHANGED tree
           /\ call' = [call EXCEPT !.moved = IF mine THEN @ + take ELSE @,
                                   !.node = NextSubtree(@)]
    /\ UNCHANGED <<wallets, amount, bcl, numOfTransactions, htVars, idVars>>

WalkEnds == /\ call.pc = "walk" /\ ~Walking
            /\ numOfTransactions' = [numOfTransactions EXCEPT ![Coin] = @ + 1]
            /\ call' = [call EXCEPT !.pc = "return"]
            /\ UNCHANGED <<wallets, amount, bcl, tree, htVars, idVars>>

--------------------------------------------------------------------------------
(* makeTransaction: the coins of the sender, one after the other. *)

\* The coin at hand is asked for what is missing, or for all there is of it.
AskCoin == /\ call.pc = "list" /\ call.tmpAmount > 0
           /\ call' = IF call.at > Len(bcl[call.sndr])
                      THEN [call EXCEPT !.pc = "crashed"]
                      ELSE [call EXCEPT !.pc = "coin", !.moved = 0,
                               !.want = Min({Item.amountOf, call.tmpAmount})]
           /\ UNCHANGED <<wallets, bookVars, htVars, idVars>>

\* Mutant: an item that is there is overwritten.
AddOver(items, c, value) ==
    IF \E k \in 1 .. Len(items) : items[k].coin = c
    THEN [k \in 1 .. Len(items) |->
             IF items[k].coin = c THEN [items[k] EXCEPT !.amountOf = value] ELSE items[k]]
    ELSE Append(items, [coin |-> c, amountOf |-> value])

addToBCList(items, c, value) ==
    IF \E k \in 1 .. Len(items) : items[k].coin = c
    THEN [k \in 1 .. Len(items) |->
             IF items[k].coin = c THEN [items[k] EXCEPT !.amountOf = @ + value] ELSE items[k]]
    ELSE Append(items, [coin |-> c, amountOf |-> value])

removeFromBCList(items, k) == RemoveAt(items, k)

\* The sender's items once moved is taken from the one at hand.
Reduced == [bcl[call.sndr] EXCEPT ![call.at].amountOf = @ - call.moved]

MoveItems(items) ==
    bcl' = [bcl EXCEPT ![call.sndr] = items,
                       ![call.rcvr] = addToBCList(@, Coin, call.moved)]

\* bitCoin->amountOf >= tmpAmount.  The item goes if the one before is empty.
CoinSuffices ==
    /\ call.pc = "return" /\ Item.amountOf >= call.tmpAmount
    /\ MoveItems(IF call.at > 1 /\ bcl[call.sndr][call.at - 1].amountOf = 0
                 THEN removeFromBCList(Reduced, call.at) ELSE Reduced)
    /\ call' = [call EXCEPT !.pc = "list", !.tmpAmount = @ - call.moved]
    /\ UNCHANGED <<wallets, amount, tree, numOfTransactions, htVars, idVars>>

\* Otherwise the item is used up; the next one has to be there.
CoinUsedUp ==
    /\ call.pc = "return" /\ Item.amountOf < call.tmpAmount
    /\ numOfTransactions' = [numOfTransactions EXCEPT ![Coin] = @ + 1]
    /\ IF call.at = Len(bcl[call.sndr])
       THEN /\ MoveItems(Reduced)
            /\ call' = [call EXCEPT !.pc = "crashed"]
       ELSE /\ MoveItems(removeFromBCList(Reduced, call.at))
            /\ call' = [call EXCEPT !.pc = "list", !.tmpAmount = @ - call.moved]
    /\ UNCHANGED <<wallets, amount, tree, htVars, idVars>>

\* Mutant: the remainder of the loop is booked, not the amount.
ChangeByRemainder ==
    amount' = [amount EXCEPT ![call.sndr] = @ - call.tmpAmount,
                             ![call.rcvr] = @ + call.tmpAmount]

changeAmountsOfWallets ==
    amount' = [amount EXCEPT ![call.sndr] = @ - call.amount,
                             ![call.rcvr] = @ + call.amount]

TransactionDone == /\ call.pc = "list" /\ call.tmpAmount = 0
                   /\ changeAmountsOfWallets
                   /\ call' = NoCall
                   /\ UNCHANGED <<wallets, bcl, tree, numOfTransactions, htVars, idVars>>

makeBCTransaction == FirstUse \/ EnterTree \/ Descend \/ VisitLeaf \/ WalkEnds

makeTransaction == \/ AskCoin \/ makeBCTransaction \/ CoinSuffices \/ CoinUsedUp
                   \/ TransactionDone

Next == FileTransaction \/ EndOfFile \/ requestTransaction \/ makeTransaction

Spec == Init /\ [][Next]_vars

\* The program runs on; nobody is obliged to give a command.
FairSpec == Spec /\ WF_vars(makeTransaction)

--------------------------------------------------------------------------------
(* Properties. *)

Idle == call.pc = "idle"

AmountOf(w, c) == SumFunction([k \in {k \in 1 .. Len(bcl[w]) : bcl[w][k].coin = c} |->
                                 bcl[w][k].amountOf])

LeavesOf(w, c) == {node \in Leaves(tree[c]) : tree[c][node].owner = w}

InTree(c, nodes) == SumFunction([node \in nodes |-> tree[c][node].amount])

Total(transactions) == SumFunction([k \in 1 .. Len(transactions) |-> transactions[k].value])

Nodes == [owner : Wallets, amount : 1 .. bitCoinValue, trans : 0 .. MaxID]
Transactions == [id : 1 .. MaxID, from : Wallets, to : Wallets, value : Nat, date : Nat]

\* Every variable has the shape its C declaration gives it: no size_t wraps
\* below zero and no node of a tree stands for no money.
TypeOK ==
    /\ amount \in [Wallets -> Nat]
    /\ bcl \in [Wallets -> Seq([coin : Coins, amountOf : 0 .. bitCoinValue])]
    /\ DOMAIN tree = Coins
    /\ \A c \in Coins : \A node \in DOMAIN tree[c] :
          /\ tree[c][node] \in Nodes
          /\ node = Root \/ Front(node) \in DOMAIN tree[c]
    /\ numOfTransactions \in [Coins -> Nat]
    /\ senderHT \in [Wallets -> Seq(Transactions)]
    /\ receiverHT \in [Wallets -> Seq(Transactions)]
    /\ maxID \in 0 .. MaxID /\ lastDateTime \in Nat
    /\ phase \in {"file", "commands"}
    /\ call.pc \in {"idle", "list", "coin", "walk", "return", "crashed"}
    /\ call.tmpAmount \in Nat /\ call.want \in Nat /\ call.moved \in Nat

\* No money appears or disappears in a coin, not even for a moment: the leaves
\* of its tree always add up to its value.
CoinsConserved == \A c \in Coins : InTree(c, Leaves(tree[c])) = bitCoinValue

\* Between commands the three books agree: a wallet's amount is the sum of its
\* amountOf, and each of those is what the leaves of the coin's tree say.
BooksAgree ==
    Idle => \A w \in Wallets :
               /\ amount[w] = SumFunction([c \in Coins |-> AmountOf(w, c)])
               /\ \A c \in Coins : AmountOf(w, c) = InTree(c, LeavesOf(w, c))

\* Between commands the tables explain the wallets: each balance is what the
\* wallet started with, plus what it received, less what it sent.
HistoryExplains ==
    Idle => \A w \in Wallets :
               amount[w] = Len(Balances[w]) * bitCoinValue
                           + Total(receiverHT[w]) - Total(senderHT[w])

\* The search finds every wallet and nothing else: what sortWallets leaves is
\* in the order that findWallet halves.
LookupFinds == /\ \A w \in Wallets : findWallet(w) = w
               /\ findWallet(Unknown) = Unknown

\* Two transactions never share an ID, whether read from the file or made by
\* newID, and both tables hold the same ones.
IDsUnique ==
    /\ Recorded = UNION {ToSet(receiverHT[w]) : w \in Wallets}
    /\ \A v, w \in Wallets : \A k \in 1 .. Len(senderHT[v]), m \in 1 .. Len(senderHT[w]) :
          senderHT[v][k].id = senderHT[w][m].id => v = w /\ k = m

\* Every transaction that is begun is completed: both loops end, and the loop
\* over the sender's coins never follows the end of the list (crashed).
TransactionsEnd == ~Idle ~> Idle
================================================================================
