----------------------------- MODULE LedgerReports -----------------------------
(***************************************************************************)
(* What the ledger tells its user: traceCoin (bitCoin.c) and findPayments  *)
(* and findEarnings (hashTable.c), with the ranges of time that the        *)
(* command parser (use.c) makes of the arguments.  The reports change      *)
(* nothing, so they are operators on the state of Ledger, compared with    *)
(* what the books hold wherever a command is waited for.                   *)
(*                                                                         *)
(* Time is in minutes since 1 January 1970, which is day 0.                *)
(***************************************************************************)
EXTENDS Ledger, Selection

tm_hour(t) == (t \div MinutesPerHour) % HoursPerDay
tm_min(t)  == t % MinutesPerHour
Day(t)     == t \div DayLength

--------------------------------------------------------------------------------
(* traceCoin. *)

\* not_in: an ID is printed once.
Noted(seen, id) == IF id \in ToSet(seen) THEN seen ELSE Append(seen, id)

\* Mutant: the climb goes all the way up at once.
ClimbToRoot(node) == Root

\* Up from a leaf as long as the node is a left child; the root is <<>>.
Climb(node) ==
    LET rights == {k \in 1 .. Len(node) : node[k] = "R"}
    IN  IF rights = {} THEN Root ELSE SubSeq(node, 1, Max(rights))

\* The IDs printed, in order.  The walk takes right children first; from a
\* leaf it climbs and goes to the left brother, and it ends at the root or
\* where there is no left brother.
traceCoin(tr) ==
    LET walk[at \in (DOMAIN tr) \X Seq(Nat)] ==
            LET node == at[1]
                seen == at[2]
                printed == Noted(seen, tr[node].trans)
                top     == Climb(node)
                brother == Left(Front(top))
            IN  IF Right(node) \in DOMAIN tr
                THEN walk[<<Right(node), Noted(seen, tr[Right(node)].trans)>>]
                ELSE IF Left(node) \in DOMAIN tr THEN walk[<<Left(node), seen>>]
                ELSE IF top = Root \/ brother \notin DOMAIN tr THEN printed
                ELSE walk[<<brother, printed>>]
    IN  IF Right(Root) \in DOMAIN tr THEN walk[<<Root, <<>>>>] ELSE <<>>

--------------------------------------------------------------------------------
(* findPayments and findEarnings. *)

\* Mutant: a transaction outside one end of the range is shown.
FromOn(start, end, t) == start < t

\* A time in a range of dates, both ends excluded.
Between(start, end, t) == start < t /\ t < end

\* The hour and minute of t against a range without date.  (The minute is
\* compared with the hour of the start, as in the code.)
InHours(start, end, t) ==
    \/ /\ IF start > end THEN tm_hour(t) < tm_hour(start)
                         ELSE tm_hour(t) > tm_hour(start)
       /\ tm_hour(t) < tm_hour(end)
    \/ tm_hour(t) = tm_hour(start) /\ tm_min(t) > tm_hour(start)
    \/ tm_hour(t) = tm_hour(end) /\ tm_min(t) < tm_min(end)

\* A range that starts at 0 is no range; one that starts on day 0 has no date.
Shown(start, end, t) ==
    \/ start = 0
    \/ start # 0 /\ Day(start) = 0 /\ start # end /\ InHours(start, end, t)
    \/ Day(start) # 0 /\ Between(start, end, t)

Report(transactions, start, end) ==
    Kept(transactions, {t \in ToSet(transactions) : Shown(start, end, t.date)})

findPayments(w, start, end) == Report(senderHT[w], start, end)
findEarnings(w, start, end) == Report(receiverHT[w], start, end)

--------------------------------------------------------------------------------
(* The arguments of the two commands: none, two times, two dates, or both.  A  *)
(* time is in minutes of the day, a date is a day.                             *)

NoRange == <<>>   \* "Wrong time range specified." or "Invalid time range."

Ascending(start, end) == IF start > end THEN NoRange ELSE <<start, end>>

\* Two dates: from the first minute of the one to the last of the other.
DateRange(d1, d2) == Ascending(d1 * DayLength, d2 * DayLength + DayLength - 1)

\* Times and dates.
FullRange(t1, d1, t2, d2) == Ascending(d1 * DayLength + t1, d2 * DayLength + t2)

\* Two times: after the second one a further word is expected, any word.
TimeRange(t1, t2, extra) == IF extra THEN <<t1, t2>> ELSE NoRange

\* findPayments takes an end in hour 0 or minute 0 for a missing number.
ReadAsMissing(t2) == tm_hour(t2) = 0 \/ tm_min(t2) = 0

PaymentsFullRange(t1, d1, t2, d2) ==
    IF ReadAsMissing(t2) THEN NoRange ELSE FullRange(t1, d1, t2, d2)
PaymentsTimeRange(t1, t2, extra) ==
    IF ReadAsMissing(t2) THEN NoRange ELSE TimeRange(t1, t2, extra)

--------------------------------------------------------------------------------
(* Properties. *)

\* takeCommands waits for a command: the only place reports are asked for.
Prompt == Idle /\ phase = "commands"

\* The days up to the last date, the day 0 of time ranges excepted.
Days == UNION {1 .. Day(d) : d \in Dates}
Times == 0 .. DayLength - 1

\* The transactions a coin was part of.
Involved(c) == {tree[c][node].trans : node \in DOMAIN tree[c]} \ {NoTrans}

\* Some part of the coin was handed on whole, with nothing left behind.
HandedOnWhole(c) == \E node \in DOMAIN tree[c] : Right(node) \in DOMAIN tree[c]
                                              /\ Left(node) \notin DOMAIN tree[c]

\* traceCoin prints transactions of the coin only, none twice, and it misses
\* one only if some part of the coin was handed on whole (a right child
\* without a left brother, at which its walk ends).
TraceComplete ==
    Prompt => \A c \in Coins :
               LET printed == traceCoin(tree[c])
               IN  /\ ToSet(printed) \subseteq Involved(c)
                   /\ IsInjective(printed)
                   /\ ~ HandedOnWhole(c) => ToSet(printed) = Involved(c)

\* The days from d1 to d2 without the first and the last minute.
OnDays(d1, d2, t) == /\ Day(t) \in d1 .. d2
                     /\ t # d1 * DayLength
                     /\ t # d2 * DayLength + DayLength - 1

\* The reports tell what the tables hold: for a range of dates they show the
\* transactions of those days, the first and the last minute excepted, for no
\* range all of them; and over a range that both commands accept, dates, times
\* or both, every payment shown is shown as earning and the other way round.
ReportsExact ==
    Prompt =>
      /\ \A w \in Wallets : findPayments(w, 0, 0) = senderHT[w]
      /\ \A w \in Wallets : \A d1, d2 \in Days :
            LET range == DateRange(d1, d2)
                those == {t \in ToSet(senderHT[w]) : OnDays(d1, d2, t.date)}
            IN  range # NoRange =>
                  findPayments(w, range[1], range[2]) = Kept(senderHT[w], those)
      /\ \A t1, t2 \in Times, d \in Days \cup {0} :
            LET range == IF d = 0 THEN PaymentsTimeRange(t1, t2, TRUE)
                         ELSE PaymentsFullRange(t1, 1, t2, d)
            IN  range # NoRange =>
                  UNION {ToSet(findPayments(w, range[1], range[2])) : w \in Wallets}
                  = UNION {ToSet(findEarnings(w, range[1], range[2])) : w \in Wallets}
================================================================================
