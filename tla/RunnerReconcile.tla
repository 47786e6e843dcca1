--------------------------- MODULE RunnerReconcile ---------------------------
(***************************************************************************)
(* A reconciliation pass of the OKX Runner (engine.py, reconcile): what the *)
(* exchange shows of one account is compared with the Runner's own tables. *)
(*                                                                         *)
(* A pass reads the exchange in several calls and the tables in several    *)
(* statements, and takes no lock before its first write: orders move, rows *)
(* are updated and other passes (the scheduler's and those asked for over  *)
(* HTTP) commit in between.  Everything it writes is one transaction.      *)
(*                                                                         *)
(* What becomes of the differences is modelled in RunnerRisk.              *)
(***************************************************************************)
EXTENDS Integers, FiniteSets, Sequences

CONSTANTS
  Orders,      \* orders submitted by the Runner for the account
  Keys,        \* currencies of its balances and symbols of its positions
  Amounts,     \* what the exchange says of one of them: total and available,
               \* or quantity and mark price
  Passes,      \* passes under way at a time
  Watched,     \* the one of them, all being alike, whose history is kept
  Window,      \* the trades fetch_my_trades returns
  Absent,      \* no such row, no such order, no snapshot, not in the snapshot
  MaxChanges   \* bound: changes of the account, trades or not, in a behaviour

OPEN_STATUSES == {"PENDING_SUBMIT", "SUBMITTED", "PARTIALLY_FILLED", "UNKNOWN"}
Statuses      == OPEN_STATUSES \cup {"FILLED", "CANCELLED", "REJECTED"}

TRANSITIONS ==
  [s \in Statuses |->
    CASE s = "PENDING_SUBMIT"   -> {"SUBMITTED", "PARTIALLY_FILLED", "FILLED", "REJECTED",
                                    "UNKNOWN"}
      [] s = "SUBMITTED"        -> {"PARTIALLY_FILLED", "FILLED", "CANCELLED", "REJECTED",
                                    "UNKNOWN"}
      [] s = "PARTIALLY_FILLED" -> {"PARTIALLY_FILLED", "FILLED", "CANCELLED", "UNKNOWN"}
      [] s = "UNKNOWN"          -> Statuses \ {"PENDING_SUBMIT"}
      [] OTHER                  -> {}]

\* The states of an order at OKX, and the words an answer has for each: the raw
\* calls give the state itself, the lists what CCXT makes of it.
States   == {"live", "partially_filled", "filled", "canceled"}
ListWord == [v \in States |-> CASE v = "filled"   -> "closed"
                                [] v = "canceled" -> "canceled"
                                [] OTHER          -> "open"]
Words(v) == IF v = Absent THEN {Absent} ELSE {v, ListWord[v]}

EXTERNAL_STATUS ==
  [w \in {"live", "open", "submitted", "partially_filled", "filled", "canceled", "cancelled",
          "rejected", "unknown"} |->
    CASE w \in {"live", "open", "submitted"} -> "SUBMITTED"
      [] w = "partially_filled"             -> "PARTIALLY_FILLED"
      [] w = "filled"                       -> "FILLED"
      [] w \in {"canceled", "cancelled"}    -> "CANCELLED"
      [] w = "rejected"                     -> "REJECTED"
      [] OTHER                              -> "UNKNOWN"]

\* The status the Runner understands.  It does not know the word "closed".
Converted(w) ==
  IF w = Absent THEN Absent
  ELSE IF w \in DOMAIN EXTERNAL_STATUS THEN EXTERNAL_STATUS[w] ELSE "UNKNOWN"

ASSUME ReconcileAssumption ==
  /\ Watched \in Passes /\ Window \in Nat /\ MaxChanges \in Nat
  /\ Absent \notin Statuses \cup States \cup {"open", "closed"} \cup Amounts \cup Keys
  /\ Orders \cap Nat = {} /\ Keys \cap (Orders \cup Nat) = {}

VARIABLES
  venue,      \* the orders at the exchange
  trades,     \* its trades of the account: the order of each, oldest first
  account,    \* its balances and positions
  moves,      \* changes of the account that no trade made
  row,        \* orders.status
  had,        \* the unfinished statuses it has had: an update may have read any
  known,      \* the rows that have their external_order_id
  fills,      \* the trades in the fills table
  baseline,   \* the last row of balance_snapshots or position_snapshots, per key
  pc,         \* what each pass does next
  ext,        \* the word it was shown for each order
  asked,      \* the orders it has asked for one by one
  extFills,   \* the trades it was shown
  extAccount, \* the account it was shown
  loc,        \* the rows it read
  locKnown,   \* those of them with an external_order_id
  locFills,   \* the fills it read
  first,      \* the key whose snapshot it has read before its transaction
  before,     \* that snapshot
  \* History: what differed at some moment of the watched pass, and all through
  \* it; the keys that have stood still since it began; the amount last reported
  \* for a key, or stored as its first; and the keys whose snapshot one pass has
  \* stored between another's read and write.
  differed, lasting, still, said, overtaken

world  == <<venue, trades, account, moves>>
tables == <<row, had, known, fills, baseline>>
passes == <<pc, ext, asked, extFills, extAccount, loc, locKnown, locFills, first, before>>
told   == <<said, overtaken>>
notes  == <<differed, lasting, still, told>>
vars   == <<world, tables, passes, notes>>

NoOrders == [o \in Orders |-> Absent]
NoKeys   == [k \in Keys |-> Absent]

Init ==
  /\ venue    = NoOrders
  /\ trades   = <<>>
  /\ account \in [Keys -> Amounts \cup {Absent}]
  /\ moves    = 0
  /\ row      = NoOrders
  /\ had      = [o \in Orders |-> {}]
  /\ known    = {}
  /\ fills    = {}
  /\ baseline = NoKeys
  /\ pc       = [p \in Passes |-> "idle"]
  /\ ext      = [p \in Passes |-> NoOrders]
  /\ asked    = [p \in Passes |-> {}]
  /\ extFills = [p \in Passes |-> {}]
  /\ extAccount = [p \in Passes |-> NoKeys]
  /\ loc      = [p \in Passes |-> NoOrders]
  /\ locKnown = [p \in Passes |-> {}]
  /\ locFills = [p \in Passes |-> {}]
  /\ first    = [p \in Passes |-> Absent]
  /\ before   = [p \in Passes |-> Absent]
  /\ differed = {}
  /\ lasting  = {}
  /\ still    = {}
  /\ said     = NoKeys
  /\ overtaken = {}

\* Each trade, and each other movement of a balance or a mark price.
Changes == Len(trades) + moves

\* fetch_my_trades without a limit: the latest trades only.
Recent == {n \in 1..Len(trades) : n > Len(trades) - Window}

\* What differs now: the status of an order the Runner has and its state, a fill
\* of an order it knows the number of, and each key whose last snapshot is not
\* of the account as it is.
Different ==
  {o \in Orders : row[o] # Absent /\ row[o] # Converted(venue[o])}
  \cup {n \in Recent : n \notin fills /\ trades[n] \in known}
  \cup (fills \ Recent)
  \cup {k \in Keys : baseline[k] # account[k]}

\* The orders for whose state the exchange has a word that the Runner takes for
\* the status of the row.
Alike == {o \in Orders : \E w \in Words(venue[o]) : row[o] = Converted(w)}

\* The orders whose row a step writes.
Written == {o \in Orders : row'[o] # row[o]}

Running(p) == pc[p] # "idle"

\* The history of the watched pass, at every step.
Watch ==
  IF Running(Watched)'
  THEN LET kept(set) == IF Running(Watched) THEN set ELSE Different IN
       \E now \in {Different'} :
         /\ differed' = kept(differed) \cup now
         /\ lasting'  = ((kept(lasting) \cap now) \ Alike') \ Written
         /\ still'    = {k \in Keys : account'[k] = account[k] /\ (Running(Watched) => k \in still)}
  ELSE differed' = {} /\ lasting' = {} /\ still' = {}

-----------------------------------------------------------------------------
(* The Runner and the exchange, beside the passes (see RunnerOrders).       *)

Insert(o) ==
  /\ row[o] = Absent
  /\ row' = [row EXCEPT ![o] = "PENDING_SUBMIT"]
  /\ had' = [had EXCEPT ![o] = {"PENDING_SUBMIT"}]
  /\ UNCHANGED <<world, known, fills, baseline, passes, told>>

Arrive(o) ==
  /\ row[o] # Absent /\ venue[o] = Absent
  /\ venue' = [venue EXCEPT ![o] = "live"]
  /\ UNCHANGED <<trades, account, moves, tables, passes, told>>

\* Balances and positions become anything, also what they have been before;
\* some are new and some are gone.
Trade(o) ==
  /\ venue[o] \in {"live", "partially_filled"}
  /\ Changes < MaxChanges
  /\ trades' = Append(trades, o)
  /\ \E v \in {"partially_filled", "filled"} : venue' = [venue EXCEPT ![o] = v]
  /\ account' \in [Keys -> Amounts \cup {Absent}]
  /\ UNCHANGED <<moves, tables, passes, told>>

Move ==
  /\ Changes < MaxChanges
  /\ moves' = moves + 1
  /\ account' \in [Keys -> Amounts \cup {Absent}]
  /\ UNCHANGED <<venue, trades, tables, passes, told>>

Cancel(o) ==
  /\ venue[o] \in {"live", "partially_filled"}
  /\ venue' = [venue EXCEPT ![o] = "canceled"]
  /\ UNCHANGED <<trades, account, moves, tables, passes, told>>

\* The states the order has had at the exchange.
Had(o) ==
  LET own == Cardinality({n \in 1..Len(trades) : trades[n] = o}) IN
  IF venue[o] = Absent THEN {}
  ELSE {"live", venue[o]}
       \cup {v \in {"partially_filled"} : own > (IF venue[o] = "filled" THEN 1 ELSE 0)}

\* The statuses that what the exchange may have answered until now is taken for.
Answers(o) == {Converted(w) : w \in UNION {Words(v) : v \in Had(o)}}

\* What an update may have read of the row, another one coming in between its
\* read and its write: any status it has had.  From a final one nothing follows.
Read(o) == (had[o] \cup {row[o]}) \ {Absent}

\* _transition to another status than the one read: checked and written.  What
\* is not allowed raises.
Transition(o, s) ==
  /\ \E current \in Read(o) : s \in TRANSITIONS[current]
  /\ row' = [row EXCEPT ![o] = s]
  /\ had' = [had EXCEPT ![o] = @ \cup ({s} \cap OPEN_STATUSES)]

\* _apply_external: an answer of the exchange, perhaps a late one.  To the same
\* status only the other columns are written.
Apply(o, s) ==
  /\ \/ Transition(o, s)
     \/ s \in Read(o) /\ UNCHANGED <<row, had>>
  /\ known' = known \cup {o}
  /\ UNCHANGED <<world, fills, baseline, passes, told>>

\* The submission raised: REJECTED, also if the exchange has the order.  UNKNOWN
\* after a timeout, when recovery does not find the order, and by a cancel
\* before its number is known.
NoAnswer(o) ==
  /\ \E s \in {"REJECTED", "UNKNOWN"} : Transition(o, s)
  /\ UNCHANGED <<world, known, fills, baseline, passes, told>>

-----------------------------------------------------------------------------
(* One pass.                                                                *)

Goto(p, label) == pc' = [pc EXCEPT ![p] = label]

\* The pass is over; its variables go with it.
Leave(p) ==
  /\ Goto(p, "idle")
  /\ ext'        = [ext EXCEPT ![p] = NoOrders]
  /\ asked'      = [asked EXCEPT ![p] = {}]
  /\ extFills'   = [extFills EXCEPT ![p] = {}]
  /\ extAccount' = [extAccount EXCEPT ![p] = NoKeys]
  /\ loc'        = [loc EXCEPT ![p] = NoOrders]
  /\ locKnown'   = [locKnown EXCEPT ![p] = {}]
  /\ locFills'   = [locFills EXCEPT ![p] = {}]
  /\ first'      = [first EXCEPT ![p] = Absent]
  /\ before'     = [before EXCEPT ![p] = Absent]

\* account_snapshot first: the open and the closed orders, in the words of the
\* lists.  Some orders are on neither: those beyond the first page.
ShowOrders(p) ==
  /\ ~Running(p)
  /\ \E S \in SUBSET {o \in Orders : venue[o] # Absent} :
       ext' = [ext EXCEPT ![p] = [o \in Orders |-> IF o \in S THEN ListWord[venue[o]] ELSE Absent]]
  /\ Goto(p, "account")
  /\ UNCHANGED <<world, tables, asked, extFills, extAccount, loc, locKnown, locFills, first, before,
                 told>>

\* Then the trades, the balances and the positions.  No difference is about two
\* of them, so their calls are one step.
ShowAccount(p) ==
  /\ pc[p] = "account"
  /\ extFills'   = [extFills EXCEPT ![p] = Recent]
  /\ extAccount' = [extAccount EXCEPT ![p] = account]
  /\ Goto(p, "rows")
  /\ UNCHANGED <<world, tables, ext, asked, loc, locKnown, locFills, first, before, told>>

\* The rows are read only now.  Of the orders shown, those count that are the
\* Runner's.
ReadOrders(p) ==
  /\ pc[p] = "rows"
  /\ loc'      = [loc EXCEPT ![p] = row]
  /\ locKnown' = [locKnown EXCEPT ![p] = known]
  /\ ext' = [ext EXCEPT ![p] = [o \in Orders |-> IF row[o] = Absent THEN Absent ELSE ext[p][o]]]
  /\ Goto(p, "fills")
  /\ UNCHANGED <<world, tables, asked, extFills, extAccount, locFills, first, before, told>>

ReadFills(p) ==
  /\ pc[p] = "fills"
  /\ locFills' = [locFills EXCEPT ![p] = fills]
  /\ Goto(p, "recover")
  /\ UNCHANGED <<world, tables, ext, asked, extFills, extAccount, loc, locKnown, first, before, told>>

\* Mutant: the rows that were on neither list are not asked for.
UnshownIgnored(p) == {}

Unshown(p) == {o \in Orders : loc[p][o] # Absent /\ ext[p][o] = Absent} \ asked[p]

\* fetch_order_by_client_id, for each row that was on neither list, before
\* anything is written: by the lists again, or by the raw call.  The exchange may
\* still have no such order.
Recover(p, o) ==
  /\ pc[p] = "recover"
  /\ o \in Unshown(p)
  /\ asked' = [asked EXCEPT ![p] = @ \cup {o}]
  /\ \E w \in Words(venue[o]) : ext' = [ext EXCEPT ![p][o] = w]
  /\ UNCHANGED <<world, tables, pc, extFills, extAccount, loc, locKnown, locFills, first, before,
                 told>>

\* Mutant: rows the exchange shows no order for are left out.
OrderDiffsOfShown(p) ==
  {o \in Orders : ext[p][o] # Absent /\ loc[p][o] # Converted(ext[p][o])}

\* The orders whose status, as read, is not what the word shown is taken for.
OrderDiffs(p) == {o \in Orders : loc[p][o] # Converted(ext[p][o])}

\* Mutant: the trades of all orders count, whosever they are.
OwnFillsOfAll(p) == extFills[p]

\* The trades of orders whose number the rows had.
OwnFills(p) == {n \in extFills[p] : trades[n] \in locKnown[p]}

\* Trades of its orders that are not in the table are imported, not reported;
\* what the table has and the exchange did not show is reported.
Imported(p)  == OwnFills(p) \ locFills[p]
FillDiffs(p) == locFills[p] \ OwnFills(p)

\* The keys of the new snapshot.  Only these are compared and stored.
Shown(p) == {k \in Keys : extAccount[p][k] # Absent}

\* The last snapshot of a key, as the pass reads it.
Old(p, k) == IF pc[p] = "write" /\ k = first[p] THEN before[p] ELSE baseline[k]

\* Mutant: the snapshot is stored before it is compared.
AccountDiffsAfterwards(p) == {}

\* A key with no snapshot yet is stored without a word.
AccountDiffs(p) == {k \in Shown(p) : Old(p, k) \notin {Absent, extAccount[p][k]}}

\* The differences it records.
Reported(p) == OrderDiffs(p) \cup FillDiffs(p) \cup AccountDiffs(p)

\* The keys whose amount is from now on reported, or is their first.
Announced(p) == AccountDiffs(p) \cup {k \in Shown(p) : Old(p, k) = Absent /\ baseline[k] = Absent}

\* The keys compared with a snapshot that is no longer the last one.
Stale(p) == {k \in Shown(p) : Old(p, k) # baseline[k]}

\* The transaction: differences, fills, the new snapshot.
Store(p) ==
  /\ fills'    = fills \cup Imported(p)
  /\ baseline' = [k \in Keys |-> IF k \in Shown(p) THEN extAccount[p][k] ELSE baseline[k]]
  /\ said'     = [k \in Keys |-> IF k \in Announced(p) THEN extAccount[p][k] ELSE said[k]]
  /\ overtaken' = (overtaken \cup Stale(p)) \ Announced(p)
  /\ Leave(p)
  /\ UNCHANGED <<world, row, had, known>>

AllAsked(p) == pc[p] = "recover" /\ Unshown(p) = {}

\* Something is written before the first snapshot is read.
WritesFirst(p) == OrderDiffs(p) \cup FillDiffs(p) \cup Imported(p) # {} \/ Shown(p) = {}

\* With a difference or a fill to write, the transaction has begun when the
\* last snapshots are read.
Commit(p) ==
  /\ AllAsked(p)
  /\ WritesFirst(p)
  /\ Store(p)

\* With none, nothing keeps another pass from storing its snapshots between the
\* read of the first one and the first write; the others are read after that.
ReadBaseline(p, k) ==
  /\ AllAsked(p)
  /\ ~WritesFirst(p)
  /\ k \in Shown(p)
  /\ first'  = [first EXCEPT ![p] = k]
  /\ before' = [before EXCEPT ![p] = baseline[k]]
  /\ Goto(p, "write")
  /\ UNCHANGED <<world, tables, ext, asked, extFills, extAccount, loc, locKnown, locFills, told>>

CommitAccount(p) ==
  /\ pc[p] = "write"
  /\ Store(p)

\* A call of the exchange raises: the pass has written nothing.
Fail(p) ==
  /\ pc[p] \in {"account", "recover"}
  /\ Leave(p)
  /\ UNCHANGED <<world, tables, told>>

-----------------------------------------------------------------------------
Pass(p) ==
  \/ ShowOrders(p) \/ ShowAccount(p)
  \/ ReadOrders(p) \/ ReadFills(p)
  \/ \E o \in Orders : Recover(p, o)
  \/ \E k \in Keys : ReadBaseline(p, k)
  \/ Commit(p) \/ CommitAccount(p)
  \/ Fail(p)

Beside ==
  \/ \E o \in Orders : \/ Insert(o) \/ Arrive(o) \/ Trade(o) \/ Cancel(o) \/ NoAnswer(o)
                       \/ \E s \in Answers(o) : Apply(o, s)
  \/ Move

Next == (Beside \/ \E p \in Passes : Pass(p)) /\ Watch

Spec == Init /\ [][Next]_vars

-----------------------------------------------------------------------------
(* Properties.                                                             *)

\* Every variable has its type, and each fill belongs to an order of the Runner
\* whose number it knows (fills.order_id).
TypeOK ==
  /\ venue \in [Orders -> States \cup {Absent}]
  /\ trades \in Seq(Orders)
  /\ account \in [Keys -> Amounts \cup {Absent}]
  /\ moves \in Nat
  /\ row \in [Orders -> Statuses \cup {Absent}]
  /\ had \in [Orders -> SUBSET OPEN_STATUSES]
  /\ known \subseteq Orders
  /\ fills \subseteq {n \in 1..Len(trades) : trades[n] \in known}
  /\ baseline \in [Keys -> Amounts \cup {Absent}]
  /\ pc \in [Passes -> {"idle", "account", "rows", "fills", "recover", "write"}]

Commits(p) == Commit(p) \/ CommitAccount(p)

\* The orders a pass records because of a word alone: the row is what the state
\* of the order is called, and the word of the lists is taken for another
\* status.  "closed" is taken for UNKNOWN where the row is FILLED, and "open" for
\* SUBMITTED where it is PARTIALLY_FILLED.
Misread(p) ==
  {o \in Orders : \E v \in States : loc[p][o] = Converted(v) /\ ext[p][o] = ListWord[v]}

\* No false alarm but by misread words: whatever moves, is written and is
\* committed by other passes between the reads of a pass, each difference it
\* records was one at some moment while it ran (reconcile: the exchange is read
\* before the tables).
DifferencesWereReal ==
  [][Commits(Watched) =>
       Reported(Watched) \ Misread(Watched) \subseteq differed \cup Different']_vars

\* Nothing that stays different is overlooked: when a pass is over, an order
\* whose row stayed as it was and never was what any word of the exchange is
\* taken for is recorded, and a fill that was missing all through it is imported
\* by now.  An UNKNOWN row whose order the lists call "closed" compares equal.
LastingDifferencesFound ==
  [][Commits(Watched) => (lasting \cap Different') \ Keys \subseteq Reported(Watched)]_vars

\* No change of a balance or a position goes by unreported: once a pass is over
\* during which it stood still, its amount is the one last reported, or stored
\* as its first, also when passes overlap and an older snapshot is stored after
\* a newer one.  Not so where it came back to an amount that one pass has stored
\* between another's read and write, and where the key is not in the snapshot:
\* what vanishes and what is new is stored or left without a difference.
ChangesReported ==
  [][Commits(Watched) =>
       \A k \in (still \cap Shown(Watched)) \ overtaken' : said'[k] = account[k]]_vars
=============================================================================
