-------------------------- MODULE SimulationOrders --------------------------
(***************************************************************************)
(* Paper orders (domains/simulation/service.py), the signals they convert  *)
(* (domains/signals/service.py) and the copy of their executions into the  *)
(* portfolio ledger (domains/ledger/repository.py).                        *)
(*                                                                         *)
(* The tables are those of apps/api/store.py.  One call of the store is    *)
(* one transaction under its lock and one action here; a request is        *)
(* several of them, and request threads interleave between any two.        *)
(*                                                                         *)
(* One symbol at a constant market price, quantities in lots, two          *)
(* accounts: the shared paper account, and the isolated one in which the   *)
(* factor factory replays closed bars.  Nobody else orders in the latter,  *)
(* so that its orders are those of the class                               *)
(* "historical_closed_bar_simulation", by which the code knows them.       *)
(***************************************************************************)
EXTENDS LedgerLots, FiniteSets

CONSTANTS
  Threads,        \* request threads
  Intents,        \* intent ids; an intent has at most one order, named by it
  Signals,        \* published signals
  None,           \* no order, no request, no signal
  Requests,       \* the bodies of POST /orders the users send
  Prices,         \* the price of the n-th execution
  Limit,          \* lots the exposure limits allow
  Page,           \* orders of an account one list has at most (10 000)
  MaxExecs,       \* bound: executions in a behaviour
  MaxFaults       \* bound: restarts of the API process and manual corrections
                  \* of ledger trades, together

Execs == 1..MaxExecs
Sides == {"buy", "sell"}
Verdicts == {"accepted", "rejected"}   \* ReviewStatus

\* The rows of simulation_orders and simulation_executions.  The average price
\* of an order is kept as "value", that price times what is filled, so that it
\* is exact; the code compares averages up to 1e-8.
OrderRow == [request : Requests, filled : Nat, value : Nat,
             status : {"pending", "partially_filled", "filled", "cancelled"}]
ExecRow  == [intent : Intents, lots : Nat, sync : {"pending", "synced", "failed", "isolated"}]

ASSUME SimulationAssumption ==
  /\ IsFiniteSet(Intents)   \* their names have at most 128 characters
  /\ MaxExecs \in Nat /\ Limit \in Nat /\ Page \in Nat /\ MaxFaults \in Nat
  /\ Prices \in [Execs -> Nat \ {0}]
  /\ None \notin Intents \cup Signals \cup Requests \cup OrderRow \cup ExecRow
  /\ None \notin Signals \X Verdicts
  /\ Requests \subseteq [intent : Intents, signal : Signals \cup {None}, isolated : BOOLEAN,
                         side : Sides, lots : Nat \ {0}, reduce : BOOLEAN]
  \* An order on a signal has its side; the factor factory gives none.
  /\ \A q, r \in Requests : (q.signal = r.signal /\ q.signal # None) => q.side = r.side
  /\ \A r \in Requests : r.isolated => r.signal = None

VARIABLES
  signal,    \* signals.status
  order,     \* simulation_orders: the request, status, filled_quantity, average_price
  exec,      \* simulation_executions: the order's intent, lots, ledger_sync_status
  timeline,  \* the executions in the order of executed_at
  ledger,    \* ledger_trades "simulation:<execution>": rows, and their lots
  pc,        \* what each request thread does next
  job,       \* the request (or the request of the order) it works for
  verdict,   \* the review it is about to write
  told,      \* the position account_snapshot told it
  lots,      \* the lots it fills
  since,     \* the executions there were when it read the order
  work,      \* the execution it copies into the ledger
  loose,     \* its evaluation does not cover what is there by now
  excused,   \* an order was accepted on such an evaluation
  crossed,   \* two fills of one order were under way together
  crashes, corrections

tables == <<signal, order, exec, timeline, ledger>>
locals == <<job, verdict, told, lots, since, work, loose>>
notes  == <<excused, crossed, crashes, corrections>>
vars   == <<tables, pc, locals, notes>>

Init ==
  /\ signal   = [s \in Signals |-> "new"]
  /\ order    = [i \in Intents |-> None]
  /\ exec     = [x \in Execs |-> None]
  /\ timeline = <<>>
  /\ ledger   = [x \in Execs |-> [rows |-> 0, lots |-> 0]]
  /\ pc       = [t \in Threads |-> "idle"]
  /\ job      = [t \in Threads |-> None]
  /\ verdict  = [t \in Threads |-> None]
  /\ told     = [t \in Threads |-> 0]
  /\ lots     = [t \in Threads |-> 0]
  /\ since    = [t \in Threads |-> 0]
  /\ work     = [t \in Threads |-> 0]
  /\ loose    = [t \in Threads |-> FALSE]
  /\ excused  = FALSE
  /\ crossed  = {}
  /\ crashes  = 0
  /\ corrections = 0

Goto(t, label) == pc' = [pc EXCEPT ![t] = label]

\* The request is answered, or fails; its variables go with it.
Return(t) ==
  /\ Goto(t, "idle")
  /\ job'     = [job EXCEPT ![t] = None]
  /\ verdict' = [verdict EXCEPT ![t] = None]
  /\ told'    = [told EXCEPT ![t] = 0]
  /\ lots'    = [lots EXCEPT ![t] = 0]
  /\ since'   = [since EXCEPT ![t] = 0]
  /\ work'    = [work EXCEPT ![t] = 0]
  /\ loose'   = [loose EXCEPT ![t] = FALSE]

Existing == {i \in Intents : order[i] # None}
Open     == {i \in Existing : order[i].status \in {"pending", "partially_filled"}}
Account(isolated) == {i \in Existing : order[i].request.isolated = isolated}

\* An execution as a trade.
TradeOf(x) == [side |-> order[exec[x].intent].request.side, quantity |-> exec[x].lots,
               price |-> Prices[x]]

\* Those of a set of orders, in the order of executed_at.
TradesOf(S) ==
  FoldLeft(LAMBDA trades, x : IF exec[x].intent \in S THEN Append(trades, TradeOf(x)) ELSE trades,
           <<>>, timeline)

Made           == {x \in Execs : exec[x] # None}
MadeFor(S)     == {x \in Made : exec[x].intent \in S}
SignedLots(x)  == IF order[exec[x].intent].request.side = "buy" THEN exec[x].lots ELSE -exec[x].lots
RemainderOf(i) == order[i].request.lots - order[i].filled

\* The quantity account_snapshot arrives at from the orders it has listed;
\* AccountPosition has its loop.
PositionOf(S) == SumFunction([x \in MadeFor(S) |-> SignedLots(x)])
Remaining(S)  == SumFunction([i \in S |-> RemainderOf(i)])
Filled(i)     == SumFunction([x \in MadeFor({i}) |-> exec[x].lots])
Value(i)      == SumFunction([x \in MadeFor({i}) |-> exec[x].lots * Prices[x]])

Position(isolated) == PositionOf(Account(isolated))

\* list_simulation_orders: all orders of an account while they fit on a page,
\* whatever their status, and no more than fit.  Those listed are the newest
\* by created_at, which was read before the rows were written; here any.
Listed(isolated) ==
  {S \in SUBSET Account(isolated) : Cardinality(S) = Smaller(Page, Cardinality(Account(isolated)))}

\* What account_snapshot compares of the orders listed; fails closed in
\* evaluate_risk.  Equal averages of equal quantities are equal values.
ReconciledOf(S) ==
  \A i \in S :
    /\ Filled(i) = order[i].filled
    /\ Value(i) = order[i].value
    /\ order[i].status = "filled" => Filled(i) = order[i].request.lots

-----------------------------------------------------------------------------
(* Signals.                                                                *)

Transitions == [new |-> {"accepted", "rejected"}, accepted |-> {"rejected", "converted"},
                rejected |-> {}, expired |-> {}, converted |-> {}]

\* Whoever lists or reads signals expires those whose time is over.
ExpireSignal(s) ==
  /\ signal[s] = "new"
  /\ signal' = [signal EXCEPT ![s] = "expired"]
  /\ UNCHANGED <<order, exec, timeline, ledger, pc, locals, notes>>

\* review reads and checks in one call of the store ...
ReviewRead(t, s, v) ==
  /\ pc[t] = "idle"
  /\ v \in Transitions[signal[s]]
  /\ verdict' = [verdict EXCEPT ![t] = <<s, v>>]
  /\ Goto(t, "review")
  /\ UNCHANGED <<tables, job, told, lots, since, work, loose, notes>>

\* ... and writes, whatever the signal is by then, in another.
ReviewWrite(t) ==
  /\ pc[t] = "review"
  /\ signal'  = [signal EXCEPT ![verdict[t][1]] = verdict[t][2]]
  /\ Return(t)
  /\ UNCHANGED <<order, exec, timeline, ledger, notes>>

-----------------------------------------------------------------------------
(* create_order.                                                           *)

\* An intent that has an order is answered with it and changes nothing.
CreateLookup(t, r) ==
  /\ pc[t] = "idle"
  /\ order[r.intent] = None
  /\ job' = [job EXCEPT ![t] = r]
  /\ Goto(t, "account")
  /\ UNCHANGED <<tables, verdict, told, lots, since, work, loose, notes>>

\* account_snapshot: one read of the orders of the account, as many as a list
\* has, and of their executions.  One that does not reconcile has the request
\* refused; what it left out is not covered by the evaluation.
CreateAccount(t) ==
  /\ pc[t] = "account"
  /\ \E S \in Listed(job[t].isolated) :
       /\ told'  = [told EXCEPT ![t] = PositionOf(S)]
       /\ loose' = [loose EXCEPT ![t] = (S # Account(job[t].isolated))]
       /\ Goto(t, IF ReconciledOf(S) THEN "decide" ELSE "refuse")
  /\ UNCHANGED <<tables, job, verdict, lots, since, work, notes>>

Magnitude(n) == IF n < 0 THEN -n ELSE n

\* Mutant: the exposure before the order is tested, not the one after it.
FitsBefore(r, position, others) ==
  IF r.reduce THEN r.lots <= Magnitude(position)
  ELSE Remaining(others) + Magnitude(position) <= Limit

\* evaluate_risk on the position told and the orders open now: the request
\* and all that is open must fit, or the request must only reduce.
Fits(r, position, others) ==
  LET projected == IF r.side = "buy" THEN position + r.lots ELSE position - r.lots
      reduces   == /\ r.lots <= Magnitude(position)
                   /\ IF r.side = "sell" THEN position > 0 ELSE position < 0
  IN  IF r.reduce THEN reduces ELSE Remaining(others) + Magnitude(projected) <= Limit

\* list_simulation_orders, evaluate_risk and add_simulation_risk_decision.
\* The reads before the record of the decision touch nothing, so they are one
\* step with it.  The status is looked at in the page that was listed.
CreateDecide(t) ==
  LET r == job[t] IN
  /\ pc[t] = "decide"
  /\ \E S \in Listed(r.isolated) :
       LET others == Open \cap S IN
       /\ Fits(r, told[t], others)
       /\ loose' = [loose EXCEPT ![t] = @ \/ S # Account(r.isolated) \/ (r.reduce /\ others # {})]
  /\ told'  = [told EXCEPT ![t] = 0]
  /\ Goto(t, "insert")
  /\ UNCHANGED <<tables, job, verdict, lots, since, work, notes>>

\* Refused by a limit, or by the checks of price, costs and research that are
\* not modelled; the decision is recorded all the same.
CreateRefused(t) ==
  /\ pc[t] \in {"decide", "refuse"}
  /\ Return(t)
  /\ UNCHANGED <<tables, notes>>

\* Mutant: the status of the signal is all that keeps it to one order.
InsertableByStatus(r) ==
  /\ order[r.intent] = None
  /\ r.signal # None => signal[r.signal] = "accepted"

\* The unique indexes on intent_id and signal_id, and the signal's status.
Insertable(r) ==
  /\ order[r.intent] = None
  /\ r.signal # None => /\ signal[r.signal] = "accepted"
                        /\ \A i \in Existing : order[i].request.signal # r.signal

\* create_simulation_order: the order and the conversion of its signal in one
\* transaction.
CreateInsert(t) ==
  LET r == job[t] IN
  /\ pc[t] = "insert"
  /\ Insertable(r)
  /\ order'  = [order EXCEPT ![r.intent] =
                  [request |-> r, status |-> "pending", filled |-> 0, value |-> 0]]
  /\ signal' = [s \in Signals |-> IF s = r.signal THEN "converted" ELSE signal[s]]
  /\ excused' = (excused \/ loose[t])
  /\ loose'  = [u \in Threads |-> u # t /\ (loose[u] \/ (pc[u] = "insert"
                                                        /\ job[u].isolated = r.isolated))]
  /\ Goto(t, IF r.isolated THEN "fill" ELSE "idle")
  /\ job'    = [job EXCEPT ![t] = IF r.isolated THEN r ELSE None]
  /\ UNCHANGED <<exec, timeline, ledger, verdict, told, lots, since, work, crossed, crashes,
                 corrections>>

CreateConflict(t) ==
  /\ pc[t] = "insert"
  /\ ~Insertable(job[t])
  /\ Return(t)
  /\ UNCHANGED <<tables, notes>>

CancelOrder(i) ==
  /\ i \in Open
  /\ order' = [order EXCEPT ![i] = [request |-> order[i].request, status |-> "cancelled",
                                    filled |-> order[i].filled, value |-> order[i].value]]
  /\ UNCHANGED <<signal, exec, timeline, ledger, pc, locals, notes>>

-----------------------------------------------------------------------------
(* fill_order and fill_isolated_order.                                     *)

\* The order as read gives the default quantity; a quantity in the request
\* may be any.  Historical orders, those of the isolated account, are refused.
FillRead(t, i) ==
  /\ pc[t] = "idle"
  /\ i \in Account(FALSE)
  /\ job' = [job EXCEPT ![t] = order[i].request]
  /\ \E n \in {order[i].request.lots - order[i].filled, 1} : lots' = [lots EXCEPT ![t] = n]
  /\ since' = [since EXCEPT ![t] = Len(timeline)]
  /\ Goto(t, "commit")
  /\ UNCHANGED <<tables, verdict, told, work, loose, notes>>

\* The factor factory fills its own new order in full.
FillIsolated(t) ==
  /\ pc[t] = "fill"
  /\ lots'  = [lots EXCEPT ![t] = job[t].lots]
  /\ since' = [since EXCEPT ![t] = Len(timeline)]
  /\ Goto(t, "commit")
  /\ UNCHANGED <<tables, job, verdict, told, work, loose, notes>>

Free(x) == exec[x] = None /\ \A y \in 1..(x - 1) : exec[y] # None

\* Mutant: the status and the remainder are those of the order as read.
FillableAsRead(t) == lots[t] > 0

Fillable(t) ==
  LET o == order[job[t].intent] IN
  /\ o.status \in {"pending", "partially_filled"}
  /\ lots[t] <= o.request.lots - o.filled

\* fill_simulation_order: the check, the execution and the new state of the
\* order, with the average price carried on, are one transaction.  executed_at
\* was read before the lock was taken: the execution may sort before those
\* committed in the meantime.
FillCommit(t) ==
  LET i == job[t].intent  o == order[i]  n == o.filled + lots[t] IN
  /\ pc[t] = "commit"
  /\ Fillable(t)
  /\ \E x \in Execs, at \in since[t]..Len(timeline) :
       /\ Free(x)
       /\ exec'     = [exec EXCEPT ![x] = [intent |-> i, lots |-> lots[t], sync |-> "pending"]]
       /\ timeline' = InsertAt(timeline, at + 1, x)
       /\ order' = [order EXCEPT ![i] =
            [request |-> o.request, filled |-> n, value |-> o.value + lots[t] * Prices[x],
             status  |-> IF n >= o.request.lots THEN "filled" ELSE "partially_filled"]]
  /\ crossed' =
       IF \/ \E n1 \in (since[t] + 1)..Len(timeline) : exec[timeline[n1]].intent = i
          \/ \E u \in Threads : pc[u] = "pick" /\ job[u].intent = i
       THEN crossed \cup {i} ELSE crossed
  /\ loose' = [u \in Threads |-> loose[u] \/ (pc[u] = "decide"
                                              /\ job[u].isolated = o.request.isolated)]
  /\ lots'  = [lots EXCEPT ![t] = 0]
  /\ since' = [since EXCEPT ![t] = 0]
  /\ Goto(t, "pick")
  /\ UNCHANGED <<signal, ledger, job, verdict, told, work, excused, crashes, corrections>>

FillRefused(t) ==
  /\ pc[t] = "commit"
  /\ ~Fillable(t)
  /\ Return(t)
  /\ UNCHANGED <<tables, notes>>

\* Mutant: the first execution instead of the last.
IsFirst(x, i) ==
  \E n \in 1..Len(timeline) :
    /\ timeline[n] = x /\ exec[x].intent = i
    /\ \A m \in 1..(n - 1) : exec[timeline[m]].intent # i

IsLast(x, i) ==
  \E n \in 1..Len(timeline) :
    /\ timeline[n] = x /\ exec[x].intent = i
    /\ \A m \in (n + 1)..Len(timeline) : exec[timeline[m]].intent # i

\* The order is read again after the commit; its last execution is taken for
\* the one just made.
FillPick(t) ==
  /\ pc[t] = "pick"
  /\ \E x \in Made : IsLast(x, job[t].intent) /\ work' = [work EXCEPT ![t] = x]
  /\ Goto(t, IF job[t].isolated THEN "isolate" ELSE "book")
  /\ UNCHANGED <<tables, job, verdict, told, lots, since, loose, notes>>

SetSync(x, status) ==
  exec' = [exec EXCEPT ![x] = [intent |-> exec[x].intent, lots |-> exec[x].lots, sync |-> status]]

FillIsolate(t) ==
  /\ pc[t] = "isolate"
  /\ SetSync(work[t], "isolated")
  /\ Return(t)
  /\ UNCHANGED <<signal, order, timeline, ledger, notes>>

-----------------------------------------------------------------------------
(* sync_execution_to_ledger, after a fill or asked for again.              *)

\* Historical orders are refused here too.
SyncAgain(t, x) ==
  /\ pc[t] = "idle"
  /\ x \in Made
  /\ ~order[exec[x].intent].request.isolated
  /\ job'  = [job EXCEPT ![t] = order[exec[x].intent].request]
  /\ work' = [work EXCEPT ![t] = x]
  /\ Goto(t, "book")
  /\ UNCHANGED <<tables, verdict, told, lots, since, loose, notes>>

\* Mutant: save_trade, with a number of its own.
BookedAgain(x) ==
  ledger' = [ledger EXCEPT ![x] = [rows |-> ledger[x].rows + 1, lots |-> exec[x].lots]]

\* save_trade_if_absent: INSERT OR IGNORE under a number made from the
\* execution's, then the row is read back and compared.
Booked(x) ==
  ledger' = IF ledger[x].rows > 0 THEN ledger
            ELSE [ledger EXCEPT ![x] = [rows |-> 1, lots |-> exec[x].lots]]

SyncBook(t) ==
  LET x == work[t] IN
  /\ pc[t] = "book"
  /\ Booked(x)
  /\ Goto(t, IF ledger[x].rows > 0 /\ ledger[x].lots # exec[x].lots THEN "fail" ELSE "note")
  /\ UNCHANGED <<signal, order, exec, timeline, locals, notes>>

SyncNote(t) ==
  /\ pc[t] = "note"
  /\ SetSync(work[t], "synced")
  /\ Return(t)
  /\ UNCHANGED <<signal, order, timeline, ledger, notes>>

\* The registration of the instrument, the insertion or the note raises.
SyncRaise(t) ==
  /\ pc[t] \in {"book", "note"}
  /\ Goto(t, "fail")
  /\ UNCHANGED <<tables, locals, notes>>

SyncFail(t) ==
  /\ pc[t] = "fail"
  /\ SetSync(work[t], "failed")
  /\ Return(t)
  /\ UNCHANGED <<signal, order, timeline, ledger, notes>>

\* correct_trade: somebody corrects the quantity of a ledger trade by hand.
CorrectTrade(x, n) ==
  /\ crashes + corrections < MaxFaults
  /\ ledger[x].rows > 0
  /\ n # ledger[x].lots
  /\ ledger' = [ledger EXCEPT ![x] = [rows |-> ledger[x].rows, lots |-> n]]
  /\ corrections' = corrections + 1
  /\ UNCHANGED <<signal, order, exec, timeline, pc, locals, excused, crossed, crashes>>

\* The API process stops: its requests are gone.
Crash ==
  /\ crashes + corrections < MaxFaults
  /\ crashes' = crashes + 1
  /\ pc'      = [t \in Threads |-> "idle"]
  /\ job'     = [t \in Threads |-> None]
  /\ verdict' = [t \in Threads |-> None]
  /\ told'    = [t \in Threads |-> 0]
  /\ lots'    = [t \in Threads |-> 0]
  /\ since'   = [t \in Threads |-> 0]
  /\ work'    = [t \in Threads |-> 0]
  /\ loose'   = [t \in Threads |-> FALSE]
  /\ UNCHANGED <<tables, excused, crossed, corrections>>

-----------------------------------------------------------------------------
Request(t) ==
  \/ ReviewWrite(t)
  \/ CreateAccount(t) \/ CreateDecide(t) \/ CreateRefused(t) \/ CreateInsert(t)
  \/ CreateConflict(t)
  \/ FillIsolated(t) \/ FillCommit(t) \/ FillRefused(t) \/ FillPick(t) \/ FillIsolate(t)
  \/ SyncBook(t) \/ SyncNote(t) \/ SyncRaise(t) \/ SyncFail(t)

Call(t) ==
  \/ \E s \in Signals, v \in Verdicts : ReviewRead(t, s, v)
  \/ \E r \in Requests : CreateLookup(t, r)
  \/ \E i \in Intents : FillRead(t, i)
  \/ \E x \in Execs : SyncAgain(t, x)

Next ==
  \/ \E t \in Threads : Request(t) \/ Call(t)
  \/ \E s \in Signals : ExpireSignal(s)
  \/ \E i \in Intents : CancelOrder(i)
  \/ \E x \in Execs, n \in {1, 2} : CorrectTrade(x, n)
  \/ Crash

Spec == Init /\ [][Next]_vars

-----------------------------------------------------------------------------
(* Properties.                                                             *)

\* Every variable has its type.
TypeOK ==
  /\ signal \in [Signals -> {"new", "accepted", "rejected", "expired", "converted"}]
  /\ order \in [Intents -> {None} \cup OrderRow]
  /\ exec \in [Execs -> {None} \cup ExecRow]
  /\ ledger \in [Execs -> [rows : Nat, lots : Nat]]
  /\ pc \in [Threads -> {"idle", "review", "account", "decide", "refuse", "insert", "fill",
                         "commit", "pick", "isolate", "book", "note", "fail"}]
  /\ job \in [Threads -> Requests \cup {None}]
  /\ verdict \in [Threads -> (Signals \X Verdicts) \cup {None}]
  /\ lots \in [Threads -> Nat]
  /\ work \in [Threads -> 0..MaxExecs]

\* Whatever fills, retries of the copy, restarts and corrections overlap: an
\* execution has at most one trade in the ledger, none if its account is the
\* isolated one, and one that is marked synced has it
\* (sync_execution_to_ledger, "idempotent").
BookedOnce ==
  \A x \in Execs :
    /\ ledger[x].rows <= 1
    /\ ledger[x].rows > 0 => x \in Made /\ ~order[exec[x].intent].request.isolated
    /\ (x \in Made /\ exec[x].sync = "synced") => ledger[x].rows = 1

\* A signal is converted into at most one order, also when a review that has
\* read it before writes it back to accepted afterwards; and a converted
\* signal has that order.
OneOrderPerSignal ==
  \A s \in Signals :
    /\ Cardinality({i \in Existing : order[i].request.signal = s}) <= 1
    /\ signal[s] = "converted" => \E i \in Existing : order[i].request.signal = s

\* The filled quantity and the average price of every order are those of its
\* executions, and never more is filled than was ordered: whatever orders
\* account_snapshot lists, they reconcile, and it never stops trading.
FillsAddUp ==
  /\ ReconciledOf(Existing)
  /\ \A i \in Existing : order[i].filled <= order[i].request.lots

OpenOn(isolated, side) ==
  {i \in Open \cap Account(isolated) : order[i].request.side = side}

\* The limit evaluate_risk applies holds for everything that is open, if it
\* is filled in whatever order, except after an order that was accepted on an
\* evaluation that did not cover what there was: another order was created
\* between its reading of the open orders and its own, a fill came between its
\* two reads, it was reduce-only beside other open orders, or the account had
\* more orders than a list has, so that executions or open orders were left out.
ExposureHolds ==
  ~excused =>
    \A isolated \in BOOLEAN :
      /\ Position(isolated) + Remaining(OpenOn(isolated, "buy")) <= Limit
      /\ Position(isolated) - Remaining(OpenOn(isolated, "sell")) >= -Limit

\* While no request was cut off and no two fills of one order crossed, an
\* execution that is not in the ledger yet has a thread about to copy it.
NoFillForgotten ==
  \A x \in Made :
    (exec[x].sync = "pending" /\ crashes = 0 /\ exec[x].intent \notin crossed)
      => \E t \in Threads :
           \/ pc[t] = "pick" /\ job[t].intent = exec[x].intent
           \/ pc[t] \in {"isolate", "book", "note", "fail"} /\ work[t] = x

\* docs/ARCHITECTURE.md: every execution is written to the ledger by the
\* simulation service.  With no restart and no request under way, none should
\* be waiting.
EveryExecutionBooked ==
  (crashes = 0 /\ \A t \in Threads : pc[t] = "idle")
    => \A x \in Made : exec[x].sync # "pending"

\* Three ways to keep the books tell one story of the trades there are: the
\* position of the simulated account, the average cost of the ledger that is
\* given copies of its executions, and FIFO matching.  What was paid and
\* received is the result of the matched lots or the cost of the open ones,
\* the open lots are the position, and that of each account is what its
\* executions add up to.
BooksAgree ==
  LET trades == TradesOf(Existing)
      p == ComputePosition(trades)
      m == MatchClosed(trades)
  IN  /\ AccountPosition(trades) = p
      /\ m.closed = CashFlow(trades) + OpenLotsAtCost(m)
      /\ OpenLots(m) = p.quantity
      /\ \A isolated \in BOOLEAN :
           Position(isolated) = AccountPosition(TradesOf(Account(isolated))).quantity

\* Average cost says the same: what was paid and received is realised or held
\* at cost, through every reversal.
CostsAddUp ==
  LET trades == TradesOf(Existing)
      p == ComputePosition(trades)
  IN  p.realized = CashFlow(trades) + p.quantity * p.cost

\* The books agree whichever way they are kept (compute_positions,
\* account_snapshot, match_closed_trades).
ResultsAgree == BooksAgree /\ CostsAddUp
=============================================================================
