----------------------------- MODULE RunnerRisk -----------------------------
(***************************************************************************)
(* The risk gate of the OKX Runner (apps/okx_runner/engine.py): risk modes,*)
(* the exposure check before a submission or an amendment, and the         *)
(* reconciliation differences that keep an account out of normal mode.     *)
(*                                                                         *)
(* One account with one long position, in lots at a constant mark price.   *)
(* A check reads the risk mode, then the position from the exchange, then  *)
(* the open rows of the local database, and only afterwards records and    *)
(* sends the order: four moments between which other worker threads, the   *)
(* operator and the market move.  The lifecycle of a row is reduced to     *)
(* what the check reads of it; RunnerOrders has it in full.                *)
(***************************************************************************)
EXTENDS Integers, FiniteSets, Functions

CONSTANTS
  Buys,         \* intents that open or enlarge the position
  Closes,       \* reduce-only intents
  Threads,      \* worker threads of the API server
  Scopes,       \* "global" and the account, the scopes of a risk mode
  None,         \* no intent, no scope
  Asked,        \* what can be asked for: pairs of an intent and its lots
  Limit,        \* the package's exposure limit, in lots
  MaxLosses,    \* bound: answers of the exchange that are lost or misread
  MaxDiffs      \* bound: open reconciliation differences

Intents    == Buys \cup Closes
Quantities == {a[2] : a \in Asked}

ASSUME RiskAssumption ==
  /\ IsFiniteSet(Intents) /\ Buys \cap Closes = {}
  /\ Intents \cap Scopes = {}
  /\ None \notin Intents \cup Scopes
  /\ Asked \subseteq Intents \X (Nat \ {0})
  /\ Limit \in Nat /\ MaxLosses \in Nat /\ MaxDiffs \in Nat

VARIABLES
  \* the database
  modes,    \* table risk_states
  diffs,    \* number of open rows of reconciliation_diffs
  row,      \* orders: "absent", "open", "unknown" or "final"
  qty,      \* orders.quantity
  \* the exchange
  reached,  \* the order got there
  live,     \* its quantity still working there
  done,     \* its filled quantity
  pos,      \* the position
  \* the threads
  pc,
  cur,      \* intent or scope in hand
  op,       \* "submit" or "amend"
  want,     \* the quantity asked for
  seen,     \* the position in the snapshot
  \* history and bound
  late,     \* orders a thread sent or amended since normal mode ended
  restored, \* how often a thread wrote normal mode since a difference is open
  losses,
  overtaken \* what a thread acted on had changed since it had read it

database == <<modes, diffs, row, qty>>
exchange == <<reached, live, done, pos>>
threads  == <<pc, cur, op, want, seen>>
notes    == <<late, restored, losses, overtaken>>
vars     == <<database, exchange, threads, notes>>

Init ==
  /\ modes   = [s \in Scopes |-> "normal"]
  /\ diffs   = 0
  /\ row     = [c \in Intents |-> "absent"]
  /\ qty     = [c \in Intents |-> 0]
  /\ reached = [c \in Intents |-> FALSE]
  /\ live    = [c \in Intents |-> 0]
  /\ done    = [c \in Intents |-> 0]
  /\ pos     = 0
  /\ pc      = [t \in Threads |-> "idle"]
  /\ cur     = [t \in Threads |-> None]
  /\ op      = [t \in Threads |-> "submit"]
  /\ want    = [t \in Threads |-> 0]
  /\ seen    = [t \in Threads |-> 0]
  /\ late    = [t \in Threads |-> 0]
  /\ restored = [t \in Threads |-> 0]
  /\ losses  = 0
  /\ overtaken = FALSE

\* _risk_mode: the strictest mode of the scopes; all but "normal" block.
Blocked == \E s \in Scopes : modes[s] # "normal"

\* The statuses whose rows count as exposure.
\* Mutant: an order of unknown outcome is left out.
CountedOpen == {"open"}
Counted == {"open", "unknown"}

Goto(t, label) == pc' = [pc EXCEPT ![t] = label] /\ UNCHANGED <<cur, op, want, seen>>

Return(t) ==
  /\ pc'   = [pc EXCEPT ![t] = "idle"]
  /\ cur'  = [cur EXCEPT ![t] = None]
  /\ op'   = [op EXCEPT ![t] = "submit"]
  /\ want' = [want EXCEPT ![t] = 0]
  /\ seen' = [seen EXCEPT ![t] = 0]

\* History: an order sent while some scope is not in normal mode.
Restricted == \E s \in Scopes : modes[s] # "normal"
Count(t) == late' = [late EXCEPT ![t] = IF Restricted THEN @ + 1 ELSE @]

-----------------------------------------------------------------------------
(* The check.                                                              *)

\* Mutant: amend does not look at the mode.
BeginAmendsAlways(t, c, q) ==
  /\ pc[t] = "idle"
  /\ <<c, q>> \in Asked
  /\ \/ ~Blocked /\ row[c] = "absent" /\ op' = [op EXCEPT ![t] = "submit"]
     \/ row[c] = "open" /\ reached[c] /\ op' = [op EXCEPT ![t] = "amend"]
  /\ pc'   = [pc EXCEPT ![t] = "snapshot"]
  /\ cur'  = [cur EXCEPT ![t] = c]
  /\ want' = [want EXCEPT ![t] = q]
  /\ UNCHANGED <<seen, database, exchange, notes>>

\* submit found no row, amend found an open one with an external id, and the
\* mode is normal: in any other the request is refused.  A row of unknown outcome
\* has no such id here, because a query finds every order that got there
\* (Refresh).  close_position only chooses intent and quantity before it calls
\* submit.
Begin(t, c, q) ==
  /\ pc[t] = "idle"
  /\ ~Blocked
  /\ <<c, q>> \in Asked
  /\ \/ row[c] = "absent" /\ op' = [op EXCEPT ![t] = "submit"]
     \/ row[c] = "open" /\ reached[c] /\ op' = [op EXCEPT ![t] = "amend"]
  /\ pc'   = [pc EXCEPT ![t] = "snapshot"]
  /\ cur'  = [cur EXCEPT ![t] = c]
  /\ want' = [want EXCEPT ![t] = q]
  /\ UNCHANGED <<seen, database, exchange, notes>>

\* adapter.account_snapshot: a position, or an error that refuses.
Snapshot(t) ==
  /\ pc[t] = "snapshot"
  /\ \/ /\ seen' = [seen EXCEPT ![t] = pos]
        /\ pc'   = [pc EXCEPT ![t] = "rows"]
        /\ UNCHANGED <<cur, op, want>>
     \/ Return(t)
  /\ UNCHANGED <<database, exchange, notes>>

\* The quantities of the other open rows, reduce-only ones included.
Pending(c) ==
  SumFunctionOnSet(qty, {d \in Intents \ {c} : row[d] \in Counted})

Approved(t) ==
  IF cur[t] \in Closes
  THEN want[t] <= seen[t]
  ELSE seen[t] + Pending(cur[t]) + want[t] <= Limit

\* Threads whose order was approved and does not show in the rows yet.
Unrecorded == {u \in Threads : pc[u] \in {"insert", "amend", "note"}}

Decide(t) ==
  /\ pc[t] = "rows"
  /\ \/ /\ Approved(t)
        /\ pc'   = [pc EXCEPT ![t] = IF op[t] = "submit" THEN "insert" ELSE "amend"]
        /\ op'   = [op EXCEPT ![t] = "submit"]
        /\ seen' = [seen EXCEPT ![t] = 0]
        /\ UNCHANGED <<cur, want>>
        /\ overtaken' = (overtaken \/ Unrecorded # {})
     \/ ~Approved(t) /\ Return(t) /\ UNCHANGED overtaken
  /\ UNCHANGED <<database, exchange, late, restored, losses>>

-----------------------------------------------------------------------------
(* What follows an approval.                                               *)

Insert(t) ==
  LET c == cur[t] IN
  /\ pc[t] = "insert"
  /\ \/ /\ row[c] = "absent"
        /\ row' = [row EXCEPT ![c] = "open"]
        /\ qty' = [qty EXCEPT ![c] = want[t]]
        /\ Goto(t, "send")
     \/ /\ row[c] # "absent"
        /\ Return(t)
        /\ UNCHANGED <<row, qty>>
  /\ UNCHANGED <<modes, diffs, exchange, notes>>

\* adapter.submit_order and what the row becomes: accepted; refused; timed
\* out with or without having arrived, the query that follows raising in its
\* turn or not; accepted, but answered with one of the library's own
\* exceptions and therefore stored as rejected.
Send(t) ==
  LET c      == cur[t]
      Arrive == /\ reached' = [reached EXCEPT ![c] = TRUE]
                /\ live'    = [live EXCEPT ![c] = want[t]]
      Becomes(s) == row' = [row EXCEPT ![c] = s]
  IN
  /\ pc[t] = "send"
  /\ \/ Becomes("final") /\ UNCHANGED <<reached, live, losses>>
     \/ /\ \E s \in {"open", "unknown"} : Becomes(s)
        /\ Arrive \/ UNCHANGED <<reached, live>>
        /\ UNCHANGED losses
     \/ /\ losses < MaxLosses
        /\ losses' = losses + 1
        /\ Arrive /\ Becomes("final")
  /\ Count(t)
  /\ Return(t)
  /\ UNCHANGED <<modes, diffs, qty, done, pos, restored, overtaken>>

\* adapter.amend_order: refused; accepted; accepted with the answer lost.
AmendSend(t) ==
  LET c == cur[t] IN
  /\ pc[t] = "amend"
  /\ Count(t)
  /\ \/ Return(t) /\ UNCHANGED <<live, losses>>
     \/ /\ live[c] > 0
        /\ want[t] > done[c]
        /\ live' = [live EXCEPT ![c] = want[t] - done[c]]
        /\ \/ Goto(t, "note") /\ UNCHANGED losses
           \/ /\ losses < MaxLosses
              /\ losses' = losses + 1
              /\ Return(t)
  /\ UNCHANGED <<database, reached, done, pos, restored, overtaken>>

AmendNote(t) ==
  /\ pc[t] = "note"
  /\ qty' = [qty EXCEPT ![cur[t]] = want[t]]
  /\ Return(t)
  /\ UNCHANGED <<modes, diffs, row, exchange, notes>>

\* A cancel or a recovery pass writes what the exchange says of a row.
Refresh(t, c) ==
  /\ pc[t] = "idle"
  /\ row[c] \in Counted
  /\ row' = [row EXCEPT ![c] = IF ~reached[c] THEN "unknown"
                               ELSE IF live[c] = 0 THEN "final" ELSE "open"]
  /\ overtaken' = (overtaken \/ (row'[c] = "final" /\ \E u \in Threads : pc[u] = "rows"))
  /\ UNCHANGED <<modes, diffs, qty, exchange, threads, late, restored, losses>>

-----------------------------------------------------------------------------
(* Risk modes and differences.                                             *)

\* cancel_only and halted refuse the same requests here.
SetStrict(t, s) ==
  /\ pc[t] = "idle"
  /\ modes' = [modes EXCEPT ![s] = "restricted"]
  /\ UNCHANGED <<diffs, row, qty, exchange, threads, notes>>

\* set_risk_mode("normal"): the SELECT that counts open differences starts
\* no transaction; the write that follows does.
\* Mutant: the mode is set whatever is unresolved.
NormalCheckNothing(t, s) ==
  /\ pc[t] = "idle"
  /\ pc'  = [pc EXCEPT ![t] = "normal"]
  /\ cur' = [cur EXCEPT ![t] = s]
  /\ UNCHANGED <<op, want, seen, database, exchange, notes>>

NormalCheck(t, s) ==
  /\ pc[t] = "idle"
  /\ diffs = 0
  /\ pc'  = [pc EXCEPT ![t] = "normal"]
  /\ cur' = [cur EXCEPT ![t] = s]
  /\ UNCHANGED <<op, want, seen, database, exchange, notes>>

NormalWrite(t) ==
  /\ pc[t] = "normal"
  /\ modes' = [modes EXCEPT ![cur[t]] = "normal"]
  /\ late'  = IF \E s \in Scopes : modes'[s] # "normal" THEN late
              ELSE [u \in Threads |-> 0]
  /\ restored' = [restored EXCEPT ![t] = IF diffs > 0 THEN @ + 1 ELSE @]
  /\ Return(t)
  /\ UNCHANGED <<diffs, row, qty, exchange, losses, overtaken>>

\* reconcile commits the differences it found; the mode is not touched.
Reconcile(t) ==
  /\ pc[t] = "idle"
  /\ diffs < MaxDiffs
  /\ diffs' = diffs + 1
  /\ UNCHANGED <<modes, row, qty, exchange, threads, notes>>

ResolveDiff(t) ==
  /\ pc[t] = "idle"
  /\ diffs > 0
  /\ diffs' = diffs - 1
  /\ restored' = IF diffs' = 0 THEN [u \in Threads |-> 0] ELSE restored
  /\ UNCHANGED <<modes, row, qty, exchange, threads, late, losses, overtaken>>

-----------------------------------------------------------------------------
(* The exchange.                                                           *)

\* A reduce-only order never turns the position around.
Fill(c) ==
  /\ live[c] > 0
  /\ c \in Closes => pos > 0
  /\ live' = [live EXCEPT ![c] = @ - 1]
  /\ done' = [done EXCEPT ![c] = @ + 1]
  /\ pos'  = IF c \in Closes THEN pos - 1 ELSE pos + 1
  /\ UNCHANGED <<database, reached, threads, notes>>

\* A submission that timed out arrives after all.
VenueLate(c) ==
  /\ row[c] \in Counted
  /\ ~reached[c]
  /\ \A t \in Threads : ~(pc[t] = "send" /\ cur[t] = c)
  /\ reached' = [reached EXCEPT ![c] = TRUE]
  /\ live'    = [live EXCEPT ![c] = qty[c]]
  /\ UNCHANGED <<database, done, pos, threads, notes>>

VenueCancel(c) ==
  /\ live[c] > 0
  /\ live' = [live EXCEPT ![c] = 0]
  /\ UNCHANGED <<database, reached, done, pos, threads, notes>>

-----------------------------------------------------------------------------
Gate(t) ==
  \/ \E c \in Intents, q \in Quantities : Begin(t, c, q)
  \/ Snapshot(t) \/ Decide(t)
  \/ Insert(t) \/ Send(t) \/ AmendSend(t) \/ AmendNote(t)
  \/ \E c \in Intents : Refresh(t, c)

Operator(t) ==
  \/ \E s \in Scopes : SetStrict(t, s) \/ NormalCheck(t, s)
  \/ NormalWrite(t) \/ Reconcile(t) \/ ResolveDiff(t)

Next ==
  \/ \E t \in Threads : Gate(t) \/ Operator(t)
  \/ \E c \in Intents : Fill(c) \/ VenueLate(c) \/ VenueCancel(c)

Spec == Init /\ [][Next]_vars

-----------------------------------------------------------------------------
(* Properties.                                                             *)

\* Every variable has its type.
TypeOK ==
  /\ modes \in [Scopes -> {"normal", "restricted"}]
  /\ diffs \in Nat
  /\ row \in [Intents -> {"absent", "open", "unknown", "final"}]
  /\ qty \in [Intents -> Quantities \cup {0}]
  /\ reached \in [Intents -> BOOLEAN]
  /\ live \in [Intents -> Nat]
  /\ done \in [Intents -> Nat]
  /\ pos \in Nat
  /\ pc \in [Threads -> {"idle", "snapshot", "rows", "insert", "send", "amend", "note", "normal"}]
  /\ cur \in [Threads -> Intents \cup Scopes \cup {None}]
  /\ op \in [Threads -> {"submit", "amend"}]
  /\ want \in [Threads -> Quantities \cup {0}]
  /\ seen \in [Threads -> Nat]
  /\ late \in [Threads -> Nat]
  /\ restored \in [Threads -> Nat]
  /\ losses \in Nat
  /\ overtaken \in BOOLEAN

Exposure == pos + SumFunctionOnSet(live, Buys)

\* The limit of the package holds whatever sequence of submissions,
\* amendments, partial fills, timeouts, cancellations and recoveries led
\* here: what the position and the working orders can grow to never exceeds
\* it, unless an answer of the exchange was lost, or a check was overtaken:
\* two orders were approved before either was recorded, or an order became
\* final between a thread's reading of the position and of the open rows.
LimitHolds == (losses = 0 /\ ~overtaken) => Exposure <= Limit

\* Once the mode is no longer normal each worker lets at most the one order
\* through that it had already checked; the next request is refused.
AtMostOneLateOrder == \A t \in Threads : late[t] <= 1

\* set_risk_mode counts the open differences first and writes normal mode later,
\* so a difference that a reconciliation commits in between is passed over.  As
\* long as one stays open this happens to each worker once at most, for the
\* request it had already checked; the next is refused, however often halts,
\* restorations and reconciliations alternate.
AtMostOneStaleRestore == \A t \in Threads : restored[t] <= 1

-----------------------------------------------------------------------------
\* The inductive invariant behind AtMostOneLateOrder: a thread that was let
\* through after the mode changed has nothing left to send.
LateInv ==
  /\ TypeOK
  /\ ~Restricted => \A t \in Threads : late[t] = 0
  /\ \A t \in Threads :
       /\ late[t] <= 1
       /\ pc[t] \in {"snapshot", "rows", "insert", "send", "amend"} => late[t] = 0

\* The inductive invariant behind AtMostOneStaleRestore: a thread that has counted
\* no difference has restored nothing since one is open.
RestoreInv ==
  /\ TypeOK
  /\ diffs = 0 => \A t \in Threads : restored[t] = 0
  /\ \A t \in Threads : restored[t] <= 1 /\ (pc[t] = "normal" => restored[t] = 0)
=============================================================================
