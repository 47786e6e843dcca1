--------------------------- MODULE RunnerRiskProofs ---------------------------
(***************************************************************************)
(* Leaving normal mode lets at most one more order of every worker thread  *)
(* through, an open difference at most one more restoration of normal mode *)
(* by every worker thread, and the limit holds: for any number of threads, *)
(* scopes and intents.                                                     *)
(***************************************************************************)
EXTENDS RunnerRisk, Sums

\* Whatever a request asks for, or asks for nothing, is a number of lots.
LEMMA QuantitiesAreLots == \A q \in Quantities \cup {0} : q \in Nat
<1> SUFFICES ASSUME NEW a \in Asked PROVE a[2] \in Nat
  BY DEF Quantities
<1>1. \A S, T : a \in S \X T => a[2] \in T
  OBVIOUS
<1>2. a[2] \in Nat \ {0}
  BY <1>1, RiskAssumption
<1> QED
  BY <1>2

\* The invariant holds initially: nothing is blocked and no thread is at work.
LEMMA LateInit == Init => LateInv
<1> SUFFICES ASSUME Init PROVE LateInv
  OBVIOUS
<1>1. overtaken \in BOOLEAN
  BY DEF Init
<1>2. 0 \in Quantities \cup {0} /\ 0 \in Nat
  OBVIOUS
<1> QED
  BY <1>1, <1>2 DEF Init, LateInv, TypeOK, Restricted

\* What a step of the gate does to a thread that is between its check of the
\* mode and its order: it can only have passed the check in normal mode.
LEMMA BeginLate == ASSUME LateInv, NEW t \in Threads, NEW c \in Intents, NEW q \in Quantities,
                          Begin(t, c, q)
                   PROVE  LateInv'
  BY RiskAssumption
  DEF LateInv, TypeOK, Begin, Blocked, Restricted, database, exchange, notes

\* A snapshot moves a thread on or ends its request.
LEMMA SnapshotLate == ASSUME LateInv, NEW t \in Threads, Snapshot(t) PROVE LateInv'
  BY RiskAssumption
  DEF LateInv, TypeOK, Snapshot, Return, Restricted, database, exchange, notes

\* So does the decision; nothing is sent by it.
LEMMA DecideLate == ASSUME LateInv, NEW t \in Threads, Decide(t) PROVE LateInv'
<1>1. overtaken' \in BOOLEAN
  BY Zenon DEF LateInv, TypeOK, Decide
<1>2. UNCHANGED <<database, exchange, late, restored, losses>>
  BY DEF Decide
<1>3. /\ pc' \in {[pc EXCEPT ![t] = l] : l \in {"insert", "amend", "idle"}}
      /\ pc[t] = "rows"
      /\ cur' \in {cur, [cur EXCEPT ![t] = None]}
      /\ op' = [op EXCEPT ![t] = "submit"]
      /\ want' \in {want, [want EXCEPT ![t] = 0]}
      /\ seen' = [seen EXCEPT ![t] = 0]
  <2>1. CASE Approved(t)
    <3>1. (IF op[t] = "submit" THEN "insert" ELSE "amend") \in {"insert", "amend", "idle"}
      OBVIOUS
    <3> QED
      BY <2>1, <3>1 DEF Decide
  <2>2. CASE ~Approved(t)
    BY <2>2 DEF Decide, Return
  <2> QED
    BY <2>1, <2>2
<1>4. TypeOK'
  <2>1. /\ pc' \in [Threads -> {"idle", "snapshot", "rows", "insert", "send", "amend", "note",
                                "normal"}]
        /\ cur' \in [Threads -> Intents \cup Scopes \cup {None}]
        /\ op' \in [Threads -> {"submit", "amend"}]
        /\ want' \in [Threads -> Quantities \cup {0}]
        /\ seen' \in [Threads -> Nat]
    BY <1>3 DEF LateInv, TypeOK
  <2> QED
    BY <1>1, <1>2, <2>1 DEF LateInv, TypeOK, database, exchange
<1> QED
  BY <1>2, <1>3, <1>4 DEF LateInv, TypeOK, Restricted, database

\* Recording an order is not sending it.
LEMMA InsertLate == ASSUME LateInv, NEW t \in Threads, Insert(t) PROVE LateInv'
  BY RiskAssumption
  DEF LateInv, TypeOK, Insert, Goto, Return, Restricted, exchange, notes

\* The order a thread had checked goes out: its only late one, and it is done.
LEMMA SendLate == ASSUME LateInv, NEW t \in Threads, Send(t) PROVE LateInv'
<1>1. late' \in [Threads -> Nat] /\ UNCHANGED modes
  BY DEF LateInv, TypeOK, Send, Count, notes
<1>2. pc' = [pc EXCEPT ![t] = "idle"] /\ late[t] = 0
  BY DEF LateInv, Send, Return
<1>3. \A u \in Threads : late'[u] <= 1 /\ (u # t => late'[u] = late[u])
  BY <1>2 DEF LateInv, TypeOK, Send, Count, notes
<1>4. ~Restricted => late'[t] = late[t]
  BY <1>2 DEF LateInv, TypeOK, Send, Count, notes
<1>5. TypeOK'
  <2>1. row' \in [Intents -> {"absent", "open", "unknown", "final"}] /\ losses' \in Nat
    BY RiskAssumption DEF LateInv, TypeOK, Send, notes
  <2>2. live' \in [Intents -> Nat] /\ reached' \in [Intents -> BOOLEAN]
    <3>1. want[t] \in Nat
      <4>1. want[t] \in Quantities \cup {0}
        BY DEF LateInv, TypeOK
      <4> QED
        BY <4>1, QuantitiesAreLots
    <3>2. live' \in {live, [live EXCEPT ![cur[t]] = want[t]]}
      BY DEF Send
    <3>3. reached' \in {reached, [reached EXCEPT ![cur[t]] = TRUE]}
      BY DEF Send
    <3> QED
      BY <3>1, <3>2, <3>3 DEF LateInv, TypeOK
  <2> QED
    BY <1>1, <2>1, <2>2 DEF LateInv, TypeOK, Send, Return, notes
<1> QED
  BY <1>1, <1>2, <1>3, <1>4, <1>5 DEF LateInv, TypeOK, Restricted, notes

\* The same for an amendment; what is left is to note it.
LEMMA AmendSendLate == ASSUME LateInv, NEW t \in Threads, AmendSend(t) PROVE LateInv'
<1>1. late' \in [Threads -> Nat] /\ UNCHANGED modes
  BY DEF LateInv, TypeOK, AmendSend, Count, database, notes
<1>2. pc' \in {[pc EXCEPT ![t] = "idle"], [pc EXCEPT ![t] = "note"]} /\ late[t] = 0
  BY DEF LateInv, AmendSend, Return, Goto
<1>3. \A u \in Threads : late'[u] <= 1 /\ (u # t => late'[u] = late[u])
  BY <1>2 DEF LateInv, TypeOK, AmendSend, Count, notes
<1>4. ~Restricted => late'[t] = late[t]
  BY <1>2 DEF LateInv, TypeOK, AmendSend, Count, notes
<1>5. TypeOK'
  <2>1. live' \in [Intents -> Nat] /\ losses' \in Nat
    <3>1. want[t] \in Nat
      <4>1. want[t] \in Quantities \cup {0}
        BY DEF LateInv, TypeOK
      <4> QED
        BY <4>1, QuantitiesAreLots
    <3>2. \/ live' = live
          \/ /\ live' = [live EXCEPT ![cur[t]] = want[t] - done[cur[t]]]
             /\ want[t] > done[cur[t]]
      BY DEF AmendSend
    <3>3. losses' \in {losses, losses + 1}
      BY DEF AmendSend
    <3> QED
      BY <3>1, <3>2, <3>3 DEF LateInv, TypeOK
  <2>2. /\ pc' \in [Threads -> {"idle", "snapshot", "rows", "insert", "send", "amend", "note", "normal"}]
        /\ cur' \in [Threads -> Intents \cup Scopes \cup {None}]
        /\ op' \in [Threads -> {"submit", "amend"}]
        /\ want' \in [Threads -> Quantities \cup {0}]
        /\ seen' \in [Threads -> Nat]
    BY DEF LateInv, TypeOK, AmendSend, Return, Goto, notes
  <2> QED
    BY <1>1, <2>1, <2>2 DEF LateInv, TypeOK, AmendSend, database, notes
<1> QED
  BY <1>1, <1>2, <1>3, <1>4, <1>5 DEF LateInv, TypeOK, Restricted, notes

\* Noting an amendment sends nothing.
LEMMA AmendNoteLate == ASSUME LateInv, NEW t \in Threads, AmendNote(t) PROVE LateInv'
  BY RiskAssumption
  DEF LateInv, TypeOK, AmendNote, Return, Restricted, exchange, notes

\* Writing what the exchange says of a row sends nothing.
LEMMA RefreshLate == ASSUME LateInv, NEW t \in Threads, NEW c \in Intents, Refresh(t, c)
                     PROVE  LateInv'
  BY RiskAssumption
  DEF LateInv, TypeOK, Refresh, Restricted, exchange, threads, notes

\* A stricter mode only adds to what is blocked: late orders stay what they are.
LEMMA SetStrictLate == ASSUME LateInv, NEW t \in Threads, NEW s \in Scopes, SetStrict(t, s)
                       PROVE  LateInv'
  BY RiskAssumption
  DEF LateInv, TypeOK, SetStrict, Restricted, exchange, threads, notes

\* The check before normal mode changes no mode yet.
LEMMA NormalCheckLate == ASSUME LateInv, NEW t \in Threads, NEW s \in Scopes, NormalCheck(t, s)
                         PROVE  LateInv'
  BY RiskAssumption
  DEF LateInv, TypeOK, NormalCheck, Restricted, database, exchange, notes

\* Back in normal mode the count starts again.
LEMMA NormalWriteLate == ASSUME LateInv, NEW t \in Threads, NormalWrite(t) PROVE LateInv'
<1>1. late' \in [Threads -> Nat] /\ \A u \in Threads : late'[u] \in {0, late[u]}
  BY DEF LateInv, TypeOK, NormalWrite, notes
<1>2. ~Restricted' => \A u \in Threads : late'[u] = 0
  BY DEF NormalWrite, Restricted
<1>5. restored' \in [Threads -> Nat]
  <2>1. restored' = [restored EXCEPT ![t] = IF diffs > 0 THEN @ + 1 ELSE @]
    BY DEF NormalWrite
  <2>2. (IF diffs > 0 THEN restored[t] + 1 ELSE restored[t]) \in Nat
    BY DEF LateInv, TypeOK
  <2> QED
    BY <2>1, <2>2 DEF LateInv, TypeOK
<1>3. TypeOK'
  BY <1>1, <1>5, RiskAssumption DEF LateInv, TypeOK, NormalWrite, Return, exchange
<1>4. pc' = [pc EXCEPT ![t] = "idle"]
  BY DEF NormalWrite, Return
<1> QED
  BY <1>1, <1>2, <1>3, <1>4 DEF LateInv, TypeOK

\* Differences come and go without touching modes or orders.
LEMMA DiffsLate == ASSUME LateInv, NEW t \in Threads, Reconcile(t) \/ ResolveDiff(t)
                   PROVE  LateInv'
<1>1. overtaken' \in BOOLEAN
  BY Zenon DEF LateInv, TypeOK, Reconcile, ResolveDiff, notes
<1>2. diffs' \in Nat
  BY DEF LateInv, TypeOK, Reconcile, ResolveDiff
<1>3. UNCHANGED <<modes, row, qty, exchange, threads, late, losses>>
  BY DEF Reconcile, ResolveDiff, notes
<1>4. restored' \in [Threads -> Nat]
  BY DEF LateInv, TypeOK, Reconcile, ResolveDiff, notes
<1> QED
  BY <1>1, <1>2, <1>3, <1>4 DEF LateInv, TypeOK, Restricted, exchange, threads

\* The exchange acts on orders only.
LEMMA MarketLate == ASSUME LateInv, NEW c \in Intents,
                           Fill(c) \/ VenueLate(c) \/ VenueCancel(c)
                    PROVE  LateInv'
<1>1. CASE Fill(c) \/ VenueCancel(c)
  BY <1>1, RiskAssumption
  DEF LateInv, TypeOK, Fill, VenueCancel, Restricted, database, threads, notes
<1>2. CASE VenueLate(c)
  <2>1. qty[c] \in Nat
    <3>1. qty[c] \in Quantities \cup {0}
      BY DEF LateInv, TypeOK
    <3> QED
      BY <3>1, QuantitiesAreLots
  <2>2. /\ reached' \in [Intents -> BOOLEAN]
        /\ live' \in [Intents -> Nat]
    BY <1>2, <2>1 DEF LateInv, TypeOK, VenueLate, notes
  <2>3. UNCHANGED <<database, done, pos, threads, notes>>
    BY <1>2 DEF VenueLate
  <2> QED
    BY <2>2, <2>3 DEF LateInv, TypeOK, Restricted, database, threads, notes
<1> QED
  BY <1>1, <1>2

\* LateInv is inductive.
THEOREM LateInvariant == Spec => []LateInv
<1>1. LateInv /\ [Next]_vars => LateInv'
  <2> SUFFICES ASSUME LateInv, [Next]_vars PROVE LateInv'
    OBVIOUS
  <2>1. CASE UNCHANGED vars
    BY <2>1 DEF LateInv, TypeOK, Restricted, vars, database, exchange, threads, notes
  <2>2. ASSUME NEW t \in Threads, Gate(t) PROVE LateInv'
    BY <2>2, BeginLate, SnapshotLate, DecideLate, InsertLate, SendLate, AmendSendLate,
       AmendNoteLate, RefreshLate DEF Gate
  <2>3. ASSUME NEW t \in Threads, Operator(t) PROVE LateInv'
    BY <2>3, SetStrictLate, NormalCheckLate, NormalWriteLate, DiffsLate DEF Operator
  <2>4. ASSUME NEW c \in Intents, Fill(c) \/ VenueLate(c) \/ VenueCancel(c)
           PROVE LateInv'
    BY <2>4, MarketLate
  <2> QED
    BY <2>1, <2>2, <2>3, <2>4 DEF Next
<1> QED
  BY <1>1, LateInit, PTL DEF Spec

\* The variables of the gate keep their types.
THEOREM TypeCorrect == Spec => []TypeOK
<1>1. LateInv => TypeOK
  BY DEF LateInv
<1> QED
  BY <1>1, LateInvariant, PTL

\* After the operator leaves normal mode each worker thread sends at most the
\* one order whose check was already under way.
THEOREM OneLateOrderPerThread == Spec => []AtMostOneLateOrder
<1>1. LateInv => AtMostOneLateOrder
  BY DEF LateInv, AtMostOneLateOrder
<1> QED
  BY <1>1, LateInvariant, PTL

-----------------------------------------------------------------------------
\* Nothing has been restored before the first difference.
LEMMA RestoreInit == Init => RestoreInv
<1> SUFFICES ASSUME Init PROVE RestoreInv
  OBVIOUS
<1>1. TypeOK
  BY LateInit DEF LateInv
<1> QED
  BY <1>1 DEF Init, RestoreInv

\* The steps of the gate leave differences and restorations alone, and lead no
\* thread to the write of normal mode.
LEMMA GateRestores ==
  ASSUME TypeOK, NEW t \in Threads, Gate(t)
  PROVE  /\ UNCHANGED <<diffs, restored>>
         /\ \A u \in Threads : pc'[u] = "normal" => pc[u] = "normal"
<1>1. diffs' = diffs
  BY DEF Gate, Begin, Snapshot, Decide, Insert, Send, AmendSend, AmendNote, Refresh, database
<1>2. restored' = restored
  BY DEF Gate, Begin, Snapshot, Decide, Insert, Send, AmendSend, AmendNote, Refresh, notes
<1>3. \A u \in Threads : pc'[u] = "normal" => pc[u] = "normal"
  <2>1. CASE \E c \in Intents, q \in Quantities : Begin(t, c, q)
    BY <2>1 DEF Begin, TypeOK
  <2>2. CASE Snapshot(t) \/ Insert(t) \/ AmendSend(t) \/ AmendNote(t) \/ Send(t)
    BY <2>2 DEF Snapshot, Insert, AmendSend, AmendNote, Send, Goto, Return, TypeOK
  <2>3. CASE Decide(t)
    <3>1. pc' \in {[pc EXCEPT ![t] = l] : l \in {"insert", "amend", "idle"}}
      <4>1. (IF op[t] = "submit" THEN "insert" ELSE "amend") \in {"insert", "amend", "idle"}
        OBVIOUS
      <4> QED
        BY <2>3, <4>1 DEF Decide, Return
    <3> QED
      BY <3>1 DEF TypeOK
  <2>4. CASE \E c \in Intents : Refresh(t, c)
    BY <2>4 DEF Refresh, threads
  <2> QED
    BY <2>1, <2>2, <2>3, <2>4 DEF Gate
<1> QED
  BY <1>1, <1>2, <1>3

\* A thread comes to the write by a count of nothing, and every write leaves it
\* idle; the first difference finds that nothing was restored, and the end of
\* the last one forgets what was.
LEMMA RestoreStep == ASSUME RestoreInv, TypeOK', [Next]_vars PROVE RestoreInv'
<1> USE DEF RestoreInv
<1>1. CASE UNCHANGED vars
  BY <1>1 DEF vars, database, threads, notes
<1>2. ASSUME NEW t \in Threads, Gate(t) PROVE RestoreInv'
  BY <1>2, GateRestores
<1>3. ASSUME NEW t \in Threads, Operator(t) PROVE RestoreInv'
  <2>1. CASE \E s \in Scopes : SetStrict(t, s)
    BY <2>1 DEF SetStrict, threads, notes
  <2>2. CASE \E s \in Scopes : NormalCheck(t, s)
    BY <2>2 DEF NormalCheck, TypeOK, database, notes
  <2>3. CASE NormalWrite(t)
    <3>1. /\ restored' = [restored EXCEPT ![t] = IF diffs > 0 THEN @ + 1 ELSE @]
          /\ pc' = [pc EXCEPT ![t] = "idle"] /\ diffs' = diffs /\ restored[t] = 0
      BY <2>3 DEF NormalWrite, Return
    <3>2. /\ diffs = 0 => \A u \in Threads : restored'[u] = 0
          /\ \A u \in Threads : restored'[u] <= 1
          /\ \A u \in Threads : pc'[u] = "normal" => restored'[u] = 0
      BY <3>1 DEF TypeOK
    <3> QED
      BY <3>1, <3>2
  <2>4. CASE Reconcile(t)
    BY <2>4 DEF Reconcile, threads, notes, TypeOK
  <2>5. CASE ResolveDiff(t)
    BY <2>5 DEF ResolveDiff, threads, TypeOK
  <2> QED
    BY <1>3, <2>1, <2>2, <2>3, <2>4, <2>5 DEF Operator
<1>4. ASSUME NEW c \in Intents, Fill(c) \/ VenueLate(c) \/ VenueCancel(c) PROVE RestoreInv'
  BY <1>4 DEF Fill, VenueLate, VenueCancel, database, threads, notes
<1> QED
  BY <1>1, <1>2, <1>3, <1>4 DEF Next

\* While a difference is open, each worker writes normal mode at most once more:
\* for the request that had counted before there was one (set_risk_mode).
THEOREM OneStaleRestorePerThread == Spec => []AtMostOneStaleRestore
<1>1. RestoreInv /\ TypeOK' /\ [Next]_vars => RestoreInv'
  BY RestoreStep
<1>2. RestoreInv => AtMostOneStaleRestore
  BY DEF RestoreInv, AtMostOneStaleRestore
<1> QED
  BY <1>1, <1>2, RestoreInit, TypeCorrect, PTL DEF Spec

-----------------------------------------------------------------------------
(* The limit.  What an order can still fill is known only up to what the   *)
(* database says of one that has not arrived, and what a thread has seen   *)
(* of the position only up to the fills since; the invariant bounds both.  *)

Clean == losses = 0 /\ ~overtaken

\* What an order may yet add to the position.
Possible(c)  == IF reached[c] THEN live[c] ELSE IF row[c] \in Counted THEN qty[c] ELSE 0
AllPossible  == SumFunctionOnSet([c \in Buys |-> Possible(c)], Buys)

\* The fills of an order that a thread between its snapshot and its reading
\* of the rows will cover by the order's quantity, or by its own.
Covered(t, d) == IF row[d] = "final" /\ d # cur[t] THEN 0 ELSE done[d]
AllCovered(t) == SumFunctionOnSet([d \in Buys |-> Covered(t, d)], Buys)

\* A request has an intent and a quantity; an amendment, an order that arrived.
InHandOf(t) ==
  /\ pc[t] \in {"snapshot", "rows", "insert", "send", "amend", "note"}
       => cur[t] \in Intents /\ want[t] \in Nat
  /\ (pc[t] \in {"snapshot", "rows"} /\ op[t] = "amend") \/ pc[t] \in {"amend", "note"}
       => reached[cur[t]]

\* An order being sent is recorded as it will be, and sent by one thread.
SendingOf(t) ==
  pc[t] = "send" =>
    /\ row[cur[t]] \in Counted /\ ~reached[cur[t]] /\ qty[cur[t]] = want[t]
    /\ \A u \in Threads : pc[u] = "send" /\ cur[u] = cur[t] => u = t

\* What rows say of the orders of the exchange.
RowsOf(c) ==
  /\ ~reached[c] => live[c] = 0 /\ done[c] = 0
  /\ row[c] = "absent" => ~reached[c]
  /\ row[c] = "final" => live[c] = 0

\* A row's quantity bounds its order, or will when its amendment is noted.
BoundedOf(c) ==
  /\ \A u \in Threads : pc[u] = "note" /\ cur[u] = c => done[c] + live[c] <= want[u]
  /\ (\A u \in Threads : ~(pc[u] = "note" /\ cur[u] = c)) => done[c] + live[c] <= qty[c]

\* The snapshot and the fills since that will be covered make the position.
SeenOf(t) == pc[t] = "rows" /\ cur[t] \in Buys => pos <= seen[t] + AllCovered(t)

\* What was approved fits beside all the others.
RoomOf(t) ==
  pc[t] \in {"insert", "amend"} /\ cur[t] \in Buys =>
    pos - done[cur[t]] + AllPossible - Possible(cur[t]) + want[t] <= Limit

Sound ==
  /\ \A t \in Threads : InHandOf(t) /\ SendingOf(t) /\ SeenOf(t) /\ RoomOf(t)
  /\ \A t, u \in Unrecorded : t = u
  /\ \A c \in Intents : RowsOf(c) /\ BoundedOf(c)
  /\ pos + AllPossible <= Limit

LimitInv == Clean => Sound

-----------------------------------------------------------------------------
\* What the types say of the sums.
LEMMA Buyers == IsFiniteSet(Buys) /\ Buys \subseteq Intents /\ Limit \in Nat
<1>1. IsFiniteSet(Intents) /\ Buys \subseteq Intents /\ Limit \in Nat
  BY RiskAssumption DEF Intents
<1> QED
  BY <1>1, FS_Subset

\* Quantities, positions and what may yet be filled are numbers.
LEMMA LotsAreNumbers ==
  ASSUME TypeOK
  PROVE  /\ \A c \in Intents : qty[c] \in Nat /\ live[c] \in Nat /\ done[c] \in Nat
                               /\ Possible(c) \in Nat
         /\ \A t \in Threads : want[t] \in Nat /\ seen[t] \in Nat
                               /\ \A d \in Intents : Covered(t, d) \in Nat
         /\ pos \in Nat
<1>1. \A c \in Intents : qty[c] \in Quantities \cup {0} /\ live[c] \in Nat /\ done[c] \in Nat
  BY DEF TypeOK
<1>2. \A t \in Threads : want[t] \in Quantities \cup {0} /\ seen[t] \in Nat
  BY DEF TypeOK
<1>3. (\A c \in Intents : qty[c] \in Nat) /\ (\A t \in Threads : want[t] \in Nat)
  BY <1>1, <1>2, QuantitiesAreLots
<1>4. pos \in Nat
  BY DEF TypeOK
<1> QED
  BY <1>1, <1>2, <1>3, <1>4 DEF Possible, Covered

\* The same of the state after a step.
LEMMA LotsStayNumbers ==
  ASSUME TypeOK'
  PROVE  /\ \A c \in Intents : qty'[c] \in Nat /\ live'[c] \in Nat /\ done'[c] \in Nat
                               /\ Possible(c)' \in Nat
         /\ \A t \in Threads : want'[t] \in Nat /\ seen'[t] \in Nat
                               /\ \A d \in Intents : Covered(t, d)' \in Nat
         /\ pos' \in Nat
<1>1. \A c \in Intents : qty'[c] \in Quantities \cup {0} /\ live'[c] \in Nat /\ done'[c] \in Nat
  BY DEF TypeOK
<1>2. \A t \in Threads : want'[t] \in Quantities \cup {0} /\ seen'[t] \in Nat
  BY DEF TypeOK
<1>3. (\A c \in Intents : qty'[c] \in Nat) /\ (\A t \in Threads : want'[t] \in Nat)
  BY <1>1, <1>2, QuantitiesAreLots
<1>4. pos' \in Nat
  BY DEF TypeOK
<1> QED
  BY <1>1, <1>2, <1>3, <1>4 DEF Possible, Covered

\* So are their sums, now
LEMMA SumsAreNumbers ==
  ASSUME TypeOK
  PROVE  AllPossible \in Nat /\ \A t \in Threads : AllCovered(t) \in Nat
<1>1. AllPossible \in Nat
  <2> DEFINE f == [c \in Buys |-> Possible(c)]
  <2>1. \A c \in Buys : f[c] \in Nat
    BY Buyers, LotsAreNumbers
  <2> HIDE DEF f
  <2>2. SumFunctionOnSet(f, Buys) \in Nat
    BY <2>1, Buyers, SumNat
  <2> QED
    BY <2>2 DEF f, AllPossible
<1>2. ASSUME NEW t \in Threads PROVE AllCovered(t) \in Nat
  <2> DEFINE f == [d \in Buys |-> Covered(t, d)]
  <2>1. \A c \in Buys : f[c] \in Nat
    BY Buyers, LotsAreNumbers
  <2> HIDE DEF f
  <2>2. SumFunctionOnSet(f, Buys) \in Nat
    BY <2>1, Buyers, SumNat
  <2> QED
    BY <2>2 DEF f, AllCovered
<1> QED
  BY <1>1, <1>2

\* and after a step.
LEMMA SumsStayNumbers ==
  ASSUME TypeOK'
  PROVE  AllPossible' \in Nat /\ \A t \in Threads : AllCovered(t)' \in Nat
<1>1. AllPossible' \in Nat
  <2> DEFINE f == [c \in Buys |-> Possible(c)']
  <2>1. \A c \in Buys : f[c] \in Nat
    BY Buyers, LotsStayNumbers
  <2> HIDE DEF f
  <2>2. SumFunctionOnSet(f, Buys) \in Nat
    BY <2>1, Buyers, SumNat
  <2> QED
    BY <2>2 DEF f, AllPossible
<1>2. ASSUME NEW t \in Threads PROVE AllCovered(t)' \in Nat
  <2> DEFINE f == [d \in Buys |-> Covered(t, d)']
  <2>1. \A c \in Buys : f[c] \in Nat
    BY Buyers, LotsStayNumbers
  <2> HIDE DEF f
  <2>2. SumFunctionOnSet(f, Buys) \in Nat
    BY <2>1, Buyers, SumNat
  <2> QED
    BY <2>2 DEF f, AllCovered
<1> QED
  BY <1>1, <1>2

\* The sums move with the one order a step is about.
LEMMA PossibleMoves ==
  ASSUME TypeOK, TypeOK', NEW c \in Intents,
         \A d \in Intents \ {c} : Possible(d)' = Possible(d)
  PROVE  /\ c \in Buys => AllPossible' = AllPossible + Possible(c)' - Possible(c)
         /\ c \notin Buys => AllPossible' = AllPossible
<1> DEFINE f == [d \in Buys |-> Possible(d)]
           k == [d \in Buys |-> Possible(d)']
<1>0. \A d \in Intents : Possible(d) \in Nat /\ Possible(d)' \in Nat
  BY LotsAreNumbers, LotsStayNumbers
<1>1. /\ \A d \in Buys : f[d] \in Int /\ f[d] = Possible(d)
      /\ \A d \in Buys : k[d] \in Int /\ k[d] = Possible(d)'
      /\ \A d \in Buys \ {c} : f[d] = k[d]
  BY <1>0, Buyers
<1>2. AllPossible = SumFunctionOnSet(f, Buys) /\ AllPossible' = SumFunctionOnSet(k, Buys)
  BY DEF AllPossible
<1> HIDE DEF f, k
<1>3. CASE c \in Buys
  BY <1>1, <1>2, <1>3, Buyers, SumChange
<1>4. CASE c \notin Buys
  <2>1. \A d \in Buys : f[d] = k[d]
    BY <1>1, <1>4
  <2> QED
    BY <1>1, <1>2, <1>4, <2>1, Buyers, SumSame
<1> QED
  BY <1>3, <1>4

\* The same of what a thread has covered.
LEMMA CoveredMoves ==
  ASSUME TypeOK, TypeOK', NEW t \in Threads, NEW c \in Intents,
         \A d \in Intents \ {c} : Covered(t, d)' = Covered(t, d)
  PROVE  /\ c \in Buys => AllCovered(t)' = AllCovered(t) + Covered(t, c)' - Covered(t, c)
         /\ c \notin Buys => AllCovered(t)' = AllCovered(t)
<1> DEFINE f == [d \in Buys |-> Covered(t, d)]
           k == [d \in Buys |-> Covered(t, d)']
<1>0. \A d \in Intents : Covered(t, d) \in Nat /\ Covered(t, d)' \in Nat
  BY LotsAreNumbers, LotsStayNumbers
<1>1. /\ \A d \in Buys : f[d] \in Int /\ f[d] = Covered(t, d)
      /\ \A d \in Buys : k[d] \in Int /\ k[d] = Covered(t, d)'
      /\ \A d \in Buys \ {c} : f[d] = k[d]
  BY <1>0, Buyers
<1>2. AllCovered(t) = SumFunctionOnSet(f, Buys) /\ AllCovered(t)' = SumFunctionOnSet(k, Buys)
  BY DEF AllCovered
<1> HIDE DEF f, k
<1>3. CASE c \in Buys
  BY <1>1, <1>2, <1>3, Buyers, SumChange
<1>4. CASE c \notin Buys
  <2>1. \A d \in Buys : f[d] = k[d]
    BY <1>1, <1>4
  <2> QED
    BY <1>1, <1>2, <1>4, <2>1, Buyers, SumSame
<1> QED
  BY <1>3, <1>4

\* What a thread has covered is the same when it is for every order.
LEMMA CoveredStays ==
  ASSUME NEW t \in Threads, \A d \in Intents : Covered(t, d)' = Covered(t, d)
  PROVE  AllCovered(t)' = AllCovered(t)
<1>1. [d \in Buys |-> Covered(t, d)'] = [d \in Buys |-> Covered(t, d)]
  BY Buyers
<1> QED
  BY <1>1 DEF AllCovered

\* And so is what the orders can grow to.
LEMMA PossibleStays ==
  ASSUME \A d \in Intents : Possible(d)' = Possible(d)
  PROVE  AllPossible' = AllPossible
<1>1. [d \in Buys |-> Possible(d)'] = [d \in Buys |-> Possible(d)]
  BY Buyers
<1> QED
  BY <1>1 DEF AllPossible

\* A step of one thread that leaves the orders alone, does not begin or end an
\* amendment's note and does not begin to send, keeps what is sound; what the
\* thread is at then has to be sound by itself.
LEMMA ThreadSound ==
  ASSUME TypeOK, TypeOK', Sound, NEW t \in Threads, UNCHANGED <<row, qty, exchange>>,
         \A u \in Threads \ {t} : /\ pc'[u] = pc[u] /\ cur'[u] = cur[u] /\ op'[u] = op[u]
                                 /\ want'[u] = want[u] /\ seen'[u] = seen[u],
         pc[t] # "note", pc'[t] \notin {"send", "note"},
         InHandOf(t)', SeenOf(t)', RoomOf(t)',
         \A u, v \in Unrecorded' : u = v
  PROVE  Sound'
<1>1. \A c \in Intents : Possible(c)' = Possible(c)
  BY DEF Possible, exchange
<1>2. AllPossible' = AllPossible
  BY <1>1, PossibleStays
<1>3. ASSUME NEW u \in Threads \ {t}
      PROVE  InHandOf(u)' /\ SendingOf(u)' /\ SeenOf(u)' /\ RoomOf(u)'
  <2>1. AllCovered(u)' = AllCovered(u)
    <3>1. \A d \in Intents : Covered(u, d)' = Covered(u, d)
      BY DEF Covered, exchange
    <3> QED
      BY <3>1, CoveredStays
  <2>2. InHandOf(u) /\ SendingOf(u) /\ SeenOf(u) /\ RoomOf(u)
    BY DEF Sound
  <2>3. InHandOf(u)'
    BY <2>2 DEF InHandOf, exchange
  <2>4. SendingOf(u)'
    BY <2>2 DEF SendingOf, exchange
  <2>5. SeenOf(u)'
    BY <2>1, <2>2 DEF SeenOf, exchange
  <2>6. RoomOf(u)'
    <3> SUFFICES ASSUME pc[u] \in {"insert", "amend"}, cur[u] \in Buys PROVE RoomOf(u)'
      BY DEF RoomOf
    <3>1. Possible(cur[u])' = Possible(cur[u]) /\ cur'[u] = cur[u]
      BY <1>1, Buyers DEF Possible, exchange
    <3> QED
      BY <1>2, <2>2, <3>1 DEF RoomOf, Possible, exchange
  <2> QED
    BY <2>3, <2>4, <2>5, <2>6
<1>4. SendingOf(t)'
  BY DEF SendingOf
<1>5. ASSUME NEW c \in Intents PROVE RowsOf(c)' /\ BoundedOf(c)'
  <2>1. RowsOf(c) /\ BoundedOf(c)
    BY DEF Sound
  <2>2. RowsOf(c)'
    BY <2>1 DEF RowsOf, exchange
  <2>3. \A u \in Threads : /\ (pc'[u] = "note" /\ cur'[u] = c) <=> (pc[u] = "note" /\ cur[u] = c)
                           /\ pc[u] = "note" => want'[u] = want[u]
    OBVIOUS
  <2> QED
    BY <2>1, <2>2, <2>3 DEF BoundedOf, exchange
<1>6. (pos + AllPossible <= Limit)'
  BY <1>2 DEF Sound, exchange
<1> QED
  BY <1>3, <1>4, <1>5, <1>6 DEF Sound

\* A request that begins has read nothing yet.
LEMMA BeginSound ==
  ASSUME TypeOK, TypeOK', Sound, NEW t \in Threads, NEW c \in Intents, NEW q \in Quantities,
         Begin(t, c, q)
  PROVE  Sound'
<1>1. UNCHANGED <<row, qty, exchange>>
  BY DEF Begin, database
<1>2. \A u \in Threads \ {t} : /\ pc'[u] = pc[u] /\ cur'[u] = cur[u] /\ op'[u] = op[u]
                              /\ want'[u] = want[u] /\ seen'[u] = seen[u]
  BY DEF Begin, TypeOK
<1>3. pc[t] = "idle" /\ pc'[t] = "snapshot" /\ cur'[t] = c /\ want'[t] = q
  BY DEF Begin, TypeOK
<1>4. InHandOf(t)'
  <2>1. want'[t] \in Nat
    BY LotsStayNumbers
  <2>2. op'[t] = "amend" => reached[c]
    BY DEF Begin, TypeOK
  <2> QED
    BY <1>1, <1>3, <2>1, <2>2 DEF InHandOf, exchange
<1>5. SeenOf(t)' /\ RoomOf(t)'
  BY <1>3 DEF SeenOf, RoomOf
<1>6. \A u, v \in Unrecorded' : u = v
  BY <1>2, <1>3 DEF Unrecorded, Sound
<1> QED
  BY <1>1, <1>2, <1>3, <1>4, <1>5, <1>6, ThreadSound

\* A thread that returns has nothing left in hand.
LEMMA ReturnSound ==
  ASSUME TypeOK, TypeOK', Sound, NEW t \in Threads, Return(t), UNCHANGED <<row, qty, exchange>>,
         pc[t] # "note"
  PROVE  Sound'
<1>1. \A u \in Threads \ {t} : /\ pc'[u] = pc[u] /\ cur'[u] = cur[u] /\ op'[u] = op[u]
                              /\ want'[u] = want[u] /\ seen'[u] = seen[u]
  BY DEF Return, TypeOK
<1>2. pc'[t] = "idle"
  BY DEF Return, TypeOK
<1>3. InHandOf(t)' /\ SeenOf(t)' /\ RoomOf(t)'
  BY <1>2 DEF InHandOf, SeenOf, RoomOf
<1>4. \A u, v \in Unrecorded' : u = v
  BY <1>1, <1>2 DEF Unrecorded, Sound
<1> QED
  BY <1>1, <1>2, <1>3, <1>4, ThreadSound

\* The position a thread has just read is the position.
LEMMA SnapshotSound ==
  ASSUME TypeOK, TypeOK', Sound, NEW t \in Threads, Snapshot(t)
  PROVE  Sound'
<1>1. UNCHANGED <<row, qty, exchange>> /\ pc[t] = "snapshot"
  BY DEF Snapshot, database
<1>2. CASE Return(t)
  BY <1>1, <1>2, ReturnSound
<1>3. CASE ~Return(t)
  <2>1. /\ seen' = [seen EXCEPT ![t] = pos] /\ pc' = [pc EXCEPT ![t] = "rows"]
        /\ UNCHANGED <<cur, op, want>>
    BY <1>3 DEF Snapshot
  <2>2. \A u \in Threads \ {t} : /\ pc'[u] = pc[u] /\ cur'[u] = cur[u] /\ op'[u] = op[u]
                                /\ want'[u] = want[u] /\ seen'[u] = seen[u]
    BY <2>1 DEF TypeOK
  <2>3. pc'[t] = "rows" /\ seen'[t] = pos
    BY <2>1 DEF TypeOK
  <2>4. InHandOf(t)'
    BY <1>1, <2>1, <2>3 DEF InHandOf, Sound, exchange
  <2>5. SeenOf(t)'
    BY <1>1, <2>3, SumsStayNumbers, LotsAreNumbers DEF SeenOf, exchange
  <2>6. RoomOf(t)'
    BY <2>3 DEF RoomOf
  <2>7. \A u, v \in Unrecorded' : u = v
    BY <2>2, <2>3 DEF Unrecorded, Sound
  <2> QED
    BY <1>1, <2>2, <2>3, <2>4, <2>5, <2>6, <2>7, ThreadSound
<1> QED
  BY <1>2, <1>3

\* What the thread has seen, the quantities of the rows and its own bound what
\* the position can become.
LEMMA ApprovedFits ==
  ASSUME TypeOK, Sound, NEW t \in Threads, pc[t] = "rows", cur[t] \in Buys, Approved(t),
         Unrecorded = {}
  PROVE  pos - done[cur[t]] + AllPossible - Possible(cur[t]) + want[t] <= Limit
<1> DEFINE c == cur[t]
           T == {d \in Intents \ {c} : row[d] \in Counted}
           a == [d \in Buys |-> Possible(d)]
           b == [d \in Buys |-> Covered(t, d)]
           ab == [d \in Buys |-> a[d] + b[d]]
           f == [d \in Buys |-> IF d = c THEN 0 ELSE ab[d]]
           h == [d \in Intents |-> IF d \in Buys THEN f[d] ELSE 0]
           g == [d \in Intents |-> IF d \in T THEN qty[d] ELSE 0]
<1>0. IsFiniteSet(Intents) /\ IsFiniteSet(Buys) /\ Buys \subseteq Intents /\ c \in Buys
      /\ T \subseteq Intents
  BY RiskAssumption, Buyers
<1>1. /\ \A d \in Buys : a[d] \in Nat /\ b[d] \in Nat /\ ab[d] = a[d] + b[d] /\ ab[d] \in Nat
      /\ \A d \in Buys : f[d] \in Nat
      /\ \A d \in Buys \ {c} : ab[d] = f[d]
      /\ f[c] = 0 /\ ab[c] = Possible(c) + Covered(t, c)
  BY <1>0, LotsAreNumbers
<1>2. /\ \A d \in Intents : h[d] \in Nat /\ g[d] \in Nat /\ qty[d] \in Nat
      /\ \A d \in Intents : h[d] = IF d \in Buys THEN f[d] ELSE 0
      /\ \A d \in Intents : g[d] = IF d \in T THEN qty[d] ELSE 0
  BY <1>0, <1>1, LotsAreNumbers
<1>3. ASSUME NEW d \in Intents PROVE h[d] <= g[d]
  <2>1. CASE d \in Buys \ {c}
    <3>1. h[d] = Possible(d) + Covered(t, d)
      BY <2>1, <1>0
    <3>2. RowsOf(d) /\ done[d] + live[d] <= qty[d]
      <4>1. RowsOf(d) /\ BoundedOf(d)
        BY DEF Sound
      <4>2. \A u \in Threads : pc[u] # "note"
        BY DEF Unrecorded
      <4> QED
        BY <4>1, <4>2 DEF BoundedOf
    <3>3. row[d] \in {"absent", "open", "unknown", "final"} /\ d # cur[t]
      BY <2>1 DEF TypeOK
    <3>4. live[d] \in Nat /\ done[d] \in Nat /\ qty[d] \in Nat
      BY LotsAreNumbers
    <3>5. CASE row[d] \in Counted
      <4>1. g[d] = qty[d]
        BY <2>1, <3>5
      <4>2. Possible(d) + Covered(t, d) <= qty[d]
        BY <3>2, <3>3, <3>4, <3>5 DEF Possible, Covered, RowsOf, Counted
      <4> QED
        BY <3>1, <4>1, <4>2
    <3>6. CASE row[d] \notin Counted
      <4>1. Possible(d) = 0 /\ Covered(t, d) = 0
        BY <3>2, <3>3, <3>6 DEF Possible, Covered, RowsOf, Counted
      <4> HIDE DEF h, g
      <4> QED
        BY <3>1, <4>1, <1>2
    <3> QED
      BY <3>5, <3>6
  <2>2. CASE d \notin Buys \ {c}
    <3>1. h[d] = 0
      BY <2>2, <1>0
    <3> HIDE DEF h, g
    <3> QED
      BY <3>1, <1>2
  <2> QED
    BY <2>1, <2>2
<1>4. AllPossible = SumFunctionOnSet(a, Buys) /\ AllCovered(t) = SumFunctionOnSet(b, Buys)
  BY DEF AllPossible, AllCovered
<1>5. Pending(c) = SumFunctionOnSet(qty, T)
  BY DEF Pending
<1> HIDE DEF a, b, ab, f, h, g, T, c
<1>6. SumFunctionOnSet(ab, Buys) = AllPossible + AllCovered(t)
  <2>1. \A d \in Buys : a[d] \in Int /\ b[d] \in Int
    BY <1>1
  <2> QED
    BY <1>0, <1>1, <1>4, <2>1, SumPlus
<1>7. SumFunctionOnSet(f, Buys) = SumFunctionOnSet(ab, Buys) + f[c] - ab[c]
  <2>1. \A d \in Buys : ab[d] \in Int /\ f[d] \in Int
    BY <1>1
  <2> QED
    BY <1>0, <1>1, <2>1, SumChange
<1>8. SumFunctionOnSet(f, Buys) = SumFunctionOnSet(h, Intents)
  <2>1. \A d \in Buys : f[d] \in Int
    BY <1>1
  <2> QED
    BY <1>0, <1>2, <2>1, SumFilter
<1>9. SumFunctionOnSet(qty, T) = SumFunctionOnSet(g, Intents)
  <2>1. \A d \in T : qty[d] \in Int
    BY <1>0, <1>2
  <2> QED
    BY <1>0, <1>2, <2>1, SumFilter
<1>10. SumFunctionOnSet(h, Intents) <= SumFunctionOnSet(g, Intents)
  <2>1. \A d \in Intents : h[d] \in Int /\ g[d] \in Int
    BY <1>2
  <2> QED
    BY <1>0, <1>3, <2>1, SumMonotone
<1>11. AllPossible + AllCovered(t) - Possible(c) - Covered(t, c) <= Pending(c)
  <2>1. AllPossible \in Nat /\ AllCovered(t) \in Nat /\ Possible(c) \in Nat /\ Covered(t, c) \in Nat
    BY <1>0, LotsAreNumbers, SumsAreNumbers
  <2> QED
    BY <1>1, <1>5, <1>6, <1>7, <1>8, <1>9, <1>10, <2>1
<1>12. Covered(t, c) = done[c]
  BY DEF Covered, c
<1>13. seen[t] + Pending(c) + want[t] <= Limit
  BY RiskAssumption DEF Approved, c
<1>14. pos <= seen[t] + AllCovered(t)
  BY DEF Sound, SeenOf
<1>15. Pending(c) \in Int
  <2>1. SumFunctionOnSet(g, Intents) \in Int
    <3>1. \A d \in Intents : g[d] \in Int
      BY <1>2
    <3> QED
      BY <1>0, <3>1, SumType
  <2> QED
    BY <1>5, <1>9, <2>1
<1>16. /\ AllPossible \in Nat /\ AllCovered(t) \in Nat /\ Possible(c) \in Nat /\ done[c] \in Nat
       /\ pos \in Nat /\ seen[t] \in Nat /\ want[t] \in Nat /\ Limit \in Nat
  BY <1>0, LotsAreNumbers, SumsAreNumbers, Buyers
<1>17. pos - done[c] + AllPossible - Possible(c) + want[t] <= Limit
  BY <1>11, <1>12, <1>13, <1>14, <1>15, <1>16
<1> QED
  BY <1>17 DEF c

\* What is approved fits beside everything that may yet be filled, the fills
\* since the thread read the position included.
LEMMA DecideSound ==
  ASSUME TypeOK, TypeOK', Sound, ~overtaken', NEW t \in Threads, Decide(t)
  PROVE  Sound'
<1>1. UNCHANGED <<row, qty, exchange>> /\ pc[t] = "rows"
  BY DEF Decide, database
<1>2. CASE ~Approved(t)
  <2>1. Return(t)
    BY <1>2 DEF Decide
  <2> QED
    BY <1>1, <2>1, ReturnSound
<1>3. CASE Approved(t) /\ ~Return(t)
  <2>1. /\ pc' = [pc EXCEPT ![t] = IF op[t] = "submit" THEN "insert" ELSE "amend"]
        /\ op' = [op EXCEPT ![t] = "submit"]
        /\ seen' = [seen EXCEPT ![t] = 0]
        /\ UNCHANGED <<cur, want>>
    BY <1>3 DEF Decide
  <2>2. Unrecorded = {}
    BY <1>3 DEF Decide
  <2>3. \A u \in Threads \ {t} : /\ pc'[u] = pc[u] /\ cur'[u] = cur[u] /\ op'[u] = op[u]
                                /\ want'[u] = want[u] /\ seen'[u] = seen[u]
    BY <2>1 DEF TypeOK
  <2>4. pc'[t] = IF op[t] = "submit" THEN "insert" ELSE "amend"
    BY <2>1 DEF TypeOK
  <2>5. op[t] \in {"submit", "amend"} /\ pc'[t] \in {"insert", "amend"}
    BY <2>4 DEF TypeOK
  <2>6. InHandOf(t)'
    BY <1>1, <2>1, <2>4, <2>5 DEF InHandOf, Sound, exchange
  <2>7. SeenOf(t)'
    BY <2>5 DEF SeenOf
  <2>8. RoomOf(t)'
    <3> SUFFICES ASSUME cur[t] \in Buys PROVE RoomOf(t)'
      BY <2>1 DEF RoomOf
    <3>1. pos - done[cur[t]] + AllPossible - Possible(cur[t]) + want[t] <= Limit
      BY <1>1, <1>3, <2>2, ApprovedFits
    <3>2. (\A c \in Intents : Possible(c)' = Possible(c)) /\ AllPossible' = AllPossible
      <4>1. \A c \in Intents : Possible(c)' = Possible(c)
        BY <1>1 DEF Possible, exchange
      <4> QED
        BY <4>1, PossibleStays
    <3>3. Possible(cur[t])' = Possible(cur[t])
      BY <1>1, <2>1 DEF Possible, exchange
    <3> QED
      BY <1>1, <2>1, <3>1, <3>2, <3>3 DEF RoomOf, exchange
  <2>9. \A u, v \in Unrecorded' : u = v
    BY <2>2, <2>3 DEF Unrecorded
  <2>10. pc[t] # "note" /\ pc'[t] \notin {"send", "note"}
    BY <1>1, <2>5
  <2> QED
    BY <1>1, <2>3, <2>6, <2>7, <2>8, <2>9, <2>10, ThreadSound
<1>4. CASE Approved(t) /\ Return(t)
  BY <1>1, <1>4, ReturnSound
<1> QED
  BY <1>2, <1>3, <1>4

\* Setting the mode to normal is no business of the limit.
LEMMA NormalSound ==
  ASSUME TypeOK, TypeOK', Sound, NEW t \in Threads,
         (\E s \in Scopes : NormalCheck(t, s)) \/ NormalWrite(t)
  PROVE  Sound'
<1>1. CASE NormalWrite(t)
  <2>1. UNCHANGED <<row, qty, exchange>> /\ pc[t] = "normal" /\ Return(t)
    BY <1>1 DEF NormalWrite
  <2> QED
    BY <2>1, ReturnSound
<1>2. CASE \E s \in Scopes : NormalCheck(t, s)
  <2>1. UNCHANGED <<row, qty, exchange>> /\ pc[t] = "idle"
    BY <1>2 DEF NormalCheck, database
  <2>2. \A u \in Threads \ {t} : /\ pc'[u] = pc[u] /\ cur'[u] = cur[u] /\ op'[u] = op[u]
                                /\ want'[u] = want[u] /\ seen'[u] = seen[u]
    BY <1>2 DEF NormalCheck, TypeOK
  <2>3. pc'[t] = "normal"
    BY <1>2 DEF NormalCheck, TypeOK
  <2>4. InHandOf(t)' /\ SeenOf(t)' /\ RoomOf(t)'
    BY <2>3 DEF InHandOf, SeenOf, RoomOf
  <2>5. \A u, v \in Unrecorded' : u = v
    BY <2>2, <2>3 DEF Unrecorded, Sound
  <2> QED
    BY <2>1, <2>2, <2>3, <2>4, <2>5, ThreadSound
<1> QED
  BY <1>1, <1>2

\* Only modes and differences change: nothing the limit is about.
LEMMA NothingSound ==
  ASSUME Sound, UNCHANGED <<row, qty, exchange, threads>>
  PROVE  Sound'
<1>1. (\A c \in Intents : Possible(c)' = Possible(c)) /\ AllPossible' = AllPossible
  <2>1. \A c \in Intents : Possible(c)' = Possible(c)
    BY DEF Possible, exchange
  <2> QED
    BY <2>1, PossibleStays
<1>2. \A t \in Threads : AllCovered(t)' = AllCovered(t)
  <2> SUFFICES ASSUME NEW t \in Threads PROVE AllCovered(t)' = AllCovered(t)
    OBVIOUS
  <2>1. \A d \in Intents : Covered(t, d)' = Covered(t, d)
    BY DEF Covered, exchange, threads
  <2> QED
    BY <2>1, CoveredStays
<1>3. ASSUME NEW t \in Threads PROVE InHandOf(t)' /\ SendingOf(t)' /\ SeenOf(t)' /\ RoomOf(t)'
  <2>1. InHandOf(t)' /\ SendingOf(t)'
    BY DEF Sound, InHandOf, SendingOf, exchange, threads
  <2>2. SeenOf(t)'
    BY <1>2 DEF Sound, SeenOf, exchange, threads
  <2>3. RoomOf(t)'
    <3>1. Possible(cur[t])' = Possible(cur[t])
      BY DEF Possible, exchange, threads
    <3> QED
      BY <1>1, <3>1 DEF Sound, RoomOf, exchange, threads
  <2> QED
    BY <2>1, <2>2, <2>3
<1>4. \A c \in Intents : RowsOf(c)' /\ BoundedOf(c)'
  BY DEF Sound, RowsOf, BoundedOf, exchange, threads
<1>5. \A u, v \in Unrecorded' : u = v
  BY DEF Sound, Unrecorded, threads
<1>6. (pos + AllPossible <= Limit)'
  BY <1>1 DEF Sound, exchange
<1> QED
  BY <1>3, <1>4, <1>5, <1>6 DEF Sound

\* A step that lets no order grow leaves room for what was approved.
LEMMA RoomStays ==
  ASSUME TypeOK, TypeOK', NEW c \in Intents, Possible(c)' <= Possible(c),
         \A d \in Intents \ {c} : Possible(d)' = Possible(d),
         pos' = pos, done' = done
  PROVE  /\ pos + AllPossible <= Limit => (pos + AllPossible <= Limit)'
         /\ \A u \in Threads :
              pc'[u] = pc[u] /\ cur'[u] = cur[u] /\ want'[u] = want[u] /\ RoomOf(u)
                => RoomOf(u)'
<1>1. PICK m \in Nat, n \in Nat : m = AllPossible' /\ n = Possible(c)'
  BY LotsStayNumbers, SumsStayNumbers
<1>2. Possible(c) \in Nat /\ pos \in Nat /\ Limit \in Nat /\ AllPossible \in Nat /\ n <= Possible(c)
  BY <1>1, LotsAreNumbers, SumsAreNumbers, Buyers
<1>3. (c \in Buys => m = AllPossible + n - Possible(c)) /\ (c \notin Buys => m = AllPossible)
  BY <1>1, PossibleMoves
<1>4. pos + AllPossible <= Limit => (pos + AllPossible <= Limit)'
  <2>1. pos + AllPossible <= Limit => pos + m <= Limit
    BY <1>2, <1>3
  <2> QED
    BY <1>1, <2>1
<1>5. ASSUME NEW u \in Threads, pc'[u] = pc[u], cur'[u] = cur[u], want'[u] = want[u],
             RoomOf(u), pc[u] \in {"insert", "amend"}, cur[u] \in Buys
      PROVE  pos' - done'[cur'[u]] + AllPossible' - Possible(cur[u])' + want'[u] <= Limit
  <2>1. PICK d \in Intents : d = cur[u] /\ d \in Buys
    BY <1>5, Buyers
  <2>2. done[d] \in Nat /\ Possible(d) \in Nat /\ want[u] \in Nat
    BY LotsAreNumbers
  <2>3. PICK k \in Nat : k = Possible(d)'
    BY LotsStayNumbers
  <2>4. pos - done[d] + AllPossible - Possible(d) + want[u] <= Limit
    BY <1>5, <2>1 DEF RoomOf
  <2>5. m - k <= AllPossible - Possible(d)
    <3>1. CASE d = c
      BY <1>1, <1>2, <1>3, <2>1, <2>3, <3>1
    <3>2. CASE d # c
      <4>1. k = Possible(d)
        BY <2>3, <3>2
      <4> QED
        BY <1>2, <1>3, <2>2, <4>1
    <3> QED
      BY <3>1, <3>2
  <2>6. pos - done[d] + m - k + want[u] <= Limit
    BY <1>2, <2>2, <2>4, <2>5
  <2>7. Possible(cur[u])' = k
    BY <1>5, <2>1, <2>3 DEF Possible
  <2> QED
    BY <1>1, <1>5, <2>1, <2>6, <2>7
<1> QED
  BY <1>4, <1>5 DEF RoomOf

\* A row that is recorded counts with the quantity there was room for.
LEMMA InsertSound ==
  ASSUME TypeOK, TypeOK', Sound, NEW t \in Threads, Insert(t)
  PROVE  Sound'
<1>0. pc[t] = "insert" /\ UNCHANGED exchange
  BY DEF Insert
<1>c. PICK c \in Intents : c = cur[t]
  BY <1>0 DEF Sound, InHandOf
<1>1. CASE row[c] # "absent"
  BY <1>0, <1>c, <1>1, ReturnSound DEF Insert
<1>2. CASE row[c] = "absent"
  <2>1. /\ row' = [row EXCEPT ![c] = "open"] /\ qty' = [qty EXCEPT ![c] = want[t]]
        /\ pc' = [pc EXCEPT ![t] = "send"] /\ UNCHANGED <<cur, op, want, seen>>
    BY <1>c, <1>2 DEF Insert, Goto
  <2>2. UNCHANGED <<reached, live, done, pos>>
    BY <1>0 DEF exchange
  <2>3. c \in Intents /\ want[t] \in Nat
    BY <1>0 DEF Sound, InHandOf
  <2>4. ~reached[c] /\ live[c] = 0 /\ done[c] = 0
    BY <1>2, <2>3 DEF Sound, RowsOf
  <2>5. /\ row'[c] = "open" /\ qty'[c] = want[t]
        /\ \A d \in Intents \ {c} : row'[d] = row[d] /\ qty'[d] = qty[d]
        /\ pc'[t] = "send" /\ \A u \in Threads \ {t} : pc'[u] = pc[u]
    BY <2>1, <2>3 DEF TypeOK
  <2>6. /\ \A d \in Intents \ {c} : Possible(d)' = Possible(d)
        /\ Possible(c) = 0 /\ Possible(c)' = want[t]
    BY <1>2, <2>2, <2>4, <2>5 DEF Possible, Counted
  <2>7. (pos + AllPossible <= Limit)'
    <3>1. pos \in Nat /\ AllPossible \in Nat
      BY LotsAreNumbers, SumsAreNumbers
    <3>2. CASE c \in Buys
      <4>1. AllPossible' = AllPossible + Possible(c)' - Possible(c)
        BY <2>6, <3>2, PossibleMoves
      <4>2. pos - done[c] + AllPossible - Possible(c) + want[t] <= Limit
        BY <1>0, <1>c, <3>2 DEF Sound, RoomOf
      <4> QED
        BY <2>2, <2>3, <2>4, <2>6, <3>1, <4>1, <4>2, Buyers
    <3>3. CASE c \notin Buys
      BY <2>2, <2>3, <2>6, <3>3, PossibleMoves DEF Sound
    <3> QED
      BY <3>2, <3>3
  <2>8. \A u \in Threads : AllCovered(u)' = AllCovered(u)
    <3> SUFFICES ASSUME NEW u \in Threads PROVE AllCovered(u)' = AllCovered(u)
      OBVIOUS
    <3>1. \A d \in Intents : Covered(u, d)' = Covered(u, d)
      BY <2>1, <2>2, <2>4, <2>5 DEF Covered
    <3> QED
      BY <3>1, CoveredStays
  <2>9. \A u \in Threads : InHandOf(u)'
    BY <1>0, <1>c, <2>1, <2>2, <2>3, <2>5 DEF Sound, InHandOf
  <2>10. ASSUME NEW u \in Threads, pc'[u] = "send" PROVE SendingOf(u)'
    <3>1. CASE u = t
      BY <1>c, <1>2, <2>1, <2>2, <2>4, <2>5, <3>1 DEF Sound, SendingOf, Counted
    <3>2. CASE u # t
      <4>1. pc[u] = "send" /\ SendingOf(u) /\ cur[u] \in Intents
        BY <2>5, <2>10, <3>2 DEF Sound, InHandOf
      <4>2. cur[u] # c
        BY <1>2, <4>1 DEF SendingOf, Counted
      <4> QED
        BY <1>c, <2>1, <2>2, <2>5, <4>1, <4>2 DEF SendingOf
    <3> QED
      BY <3>1, <3>2
  <2>11. \A u \in Threads : SeenOf(u)'
    BY <2>1, <2>2, <2>5, <2>8 DEF Sound, SeenOf
  <2>12. Unrecorded' = {} /\ \A u \in Threads : RoomOf(u)'
    <3>1. \A u \in Threads : pc'[u] \notin {"insert", "amend", "note"}
      BY <1>0, <2>5 DEF Sound, Unrecorded
    <3> QED
      BY <3>1 DEF Unrecorded, RoomOf
  <2>13. ASSUME NEW d \in Intents PROVE RowsOf(d)' /\ BoundedOf(d)'
    <3>1. RowsOf(d) /\ BoundedOf(d)
      BY DEF Sound
    <3>2. RowsOf(d)'
      BY <2>2, <2>4, <2>5, <3>1 DEF RowsOf
    <3>3. \A u \in Threads : pc'[u] # "note" /\ pc[u] # "note"
      BY <1>0, <2>12, <2>5 DEF Unrecorded
    <3>4. BoundedOf(d)'
      BY <2>2, <2>3, <2>4, <2>5, <3>1, <3>3 DEF BoundedOf
    <3> QED
      BY <3>2, <3>4
  <2> QED
    BY <2>7, <2>9, <2>10, <2>11, <2>12, <2>13 DEF Sound, SendingOf
<1> QED
  BY <1>1, <1>2

\* An order that is sent can grow to no more than its row already counted for.
LEMMA SendSound ==
  ASSUME TypeOK, TypeOK', Sound, losses' = 0, NEW t \in Threads, Send(t)
  PROVE  Sound'
<1>0. pc[t] = "send" /\ Return(t) /\ UNCHANGED <<qty, done, pos>>
  BY DEF Send
<1>c. PICK c \in Intents : c = cur[t]
  BY <1>0 DEF Sound, InHandOf
<1>1. c \in Intents /\ row[c] \in Counted /\ ~reached[c] /\ qty[c] = want[t] /\ want[t] \in Nat
      /\ live[c] = 0 /\ done[c] = 0
  BY <1>0, <1>c DEF Sound, InHandOf, SendingOf, RowsOf
<1>2. losses \in Nat
  BY DEF TypeOK
<1>3. \/ row' = [row EXCEPT ![c] = "final"] /\ UNCHANGED <<reached, live>>
      \/ /\ \E s \in {"open", "unknown"} : row' = [row EXCEPT ![c] = s]
         /\ \/ /\ reached' = [reached EXCEPT ![c] = TRUE]
               /\ live' = [live EXCEPT ![c] = want[t]]
            \/ UNCHANGED <<reached, live>>
  BY <1>c, <1>2 DEF Send
<1>4. /\ pc'[t] = "idle"
      /\ \A u \in Threads \ {t} : /\ pc'[u] = pc[u] /\ cur'[u] = cur[u] /\ op'[u] = op[u]
                                 /\ want'[u] = want[u] /\ seen'[u] = seen[u]
  BY <1>0 DEF Return, TypeOK
<1>5. /\ \A d \in Intents \ {c} : row'[d] = row[d] /\ reached'[d] = reached[d] /\ live'[d] = live[d]
      /\ \/ row'[c] = "final" /\ ~reached'[c] /\ live'[c] = 0
         \/ /\ row'[c] \in {"open", "unknown"}
            /\ \/ reached'[c] /\ live'[c] = want[t]
               \/ ~reached'[c] /\ live'[c] = 0
  <2>1. CASE row' = [row EXCEPT ![c] = "final"] /\ UNCHANGED <<reached, live>>
    BY <1>1, <2>1 DEF TypeOK
  <2>2. CASE /\ \E s \in {"open", "unknown"} : row' = [row EXCEPT ![c] = s]
             /\ reached' = [reached EXCEPT ![c] = TRUE]
             /\ live' = [live EXCEPT ![c] = want[t]]
    BY <1>1, <2>2 DEF TypeOK
  <2>3. CASE /\ \E s \in {"open", "unknown"} : row' = [row EXCEPT ![c] = s]
             /\ UNCHANGED <<reached, live>>
    BY <1>1, <2>3 DEF TypeOK
  <2> QED
    BY <1>3, <2>1, <2>2, <2>3
<1>6. /\ \A d \in Intents \ {c} : Possible(d)' = Possible(d)
      /\ Possible(c)' <= Possible(c)
  <2>1. \A d \in Intents \ {c} : Possible(d)' = Possible(d)
    BY <1>0, <1>5 DEF Possible
  <2>2. Possible(c) = want[t]
    BY <1>1 DEF Possible
  <2>3. Possible(c)' = 0 \/ Possible(c)' = want[t]
    BY <1>0, <1>1, <1>5 DEF Possible, Counted
  <2> QED
    BY <1>1, <2>1, <2>2, <2>3
<1>7. (pos + AllPossible <= Limit)' /\ \A u \in Threads : RoomOf(u)'
  <2>1. RoomOf(t)'
    BY <1>4 DEF RoomOf
  <2> QED
    BY <1>0, <1>1, <1>4, <1>6, <2>1, RoomStays DEF Sound
<1>8. ASSUME NEW u \in Threads PROVE SeenOf(u)'
  <2>1. CASE u = t
    BY <1>4, <2>1 DEF SeenOf
  <2>2. CASE u # t
    <3>1. \A d \in Intents : Covered(u, d)' = Covered(u, d)
      BY <1>0, <1>1, <1>4, <1>5, <2>2 DEF Covered
    <3>2. AllCovered(u)' = AllCovered(u)
      BY <3>1, CoveredStays
    <3> QED
      BY <1>0, <1>4, <2>2, <3>2 DEF Sound, SeenOf
  <2> QED
    BY <2>1, <2>2
<1>9. ASSUME NEW u \in Threads PROVE InHandOf(u)' /\ SendingOf(u)'
  <2>1. CASE u = t
    BY <1>4, <2>1 DEF InHandOf, SendingOf
  <2>2. CASE u # t
    <3>1. InHandOf(u) /\ SendingOf(u) /\ SendingOf(t)
      BY DEF Sound
    <3>2. InHandOf(u)'
      BY <1>1, <1>4, <1>5, <2>2, <3>1 DEF InHandOf
    <3>3. pc[u] = "send" => cur[u] # c /\ cur[u] \in Intents
      BY <1>0, <1>c, <2>2, <3>1 DEF InHandOf, SendingOf
    <3>4. SendingOf(u)'
      BY <1>0, <1>4, <1>5, <2>2, <3>1, <3>3 DEF SendingOf
    <3> QED
      BY <3>2, <3>4
  <2> QED
    BY <2>1, <2>2
<1>10. \A u, v \in Unrecorded' : u = v
  BY <1>4 DEF Unrecorded, Sound
<1>11. ASSUME NEW d \in Intents PROVE RowsOf(d)' /\ BoundedOf(d)'
  <2>1. RowsOf(d) /\ BoundedOf(d)
    BY DEF Sound
  <2>2. RowsOf(d)'
    BY <1>0, <1>1, <1>5, <2>1 DEF RowsOf
  <2>3. \A u \in Threads : ~ (pc[u] = "note" /\ cur[u] = c)
    BY <1>1 DEF Sound, InHandOf
  <2>4. \A u \in Threads : pc'[u] = "note" <=> pc[u] = "note"
    BY <1>0, <1>4
  <2>5. \A u \in Threads : pc'[u] = "note" => cur'[u] = cur[u] /\ want'[u] = want[u]
    BY <1>4
  <2>6. CASE d = c
    <3>1. done'[d] + live'[d] <= qty'[d]
      BY <1>0, <1>1, <1>5, <2>6
    <3> QED
      BY <2>2, <2>3, <2>4, <2>5, <2>6, <3>1 DEF BoundedOf
  <2>7. CASE d # c
    BY <1>0, <1>5, <2>1, <2>2, <2>4, <2>5, <2>7 DEF BoundedOf
  <2> QED
    BY <2>6, <2>7
<1> QED
  BY <1>7, <1>8, <1>9, <1>10, <1>11 DEF Sound

\* A step that changes no thread and no quantity, and of the orders only one,
\* which does not become final, keeps what is sound of the threads.
LEMMA ThreadsKeep ==
  ASSUME TypeOK, TypeOK', Sound, UNCHANGED <<qty, threads>>, NEW c \in Intents,
         \A d \in Intents \ {c} : row'[d] = row[d] /\ reached'[d] = reached[d],
         reached[c] => reached'[c],
         \A u \in Threads : pc[u] = "send" /\ cur[u] = c
           => row'[c] \in Counted /\ ~reached'[c]
  PROVE  /\ \A u \in Threads : InHandOf(u)' /\ SendingOf(u)'
         /\ \A u, v \in Unrecorded' : u = v
<1>1. UNCHANGED <<pc, cur, op, want, seen>>
  BY DEF threads
<1>2. ASSUME NEW u \in Threads PROVE InHandOf(u)' /\ SendingOf(u)'
  <2>1. InHandOf(u) /\ SendingOf(u)
    BY DEF Sound
  <2>2. InHandOf(u)'
    BY <1>1, <2>1 DEF InHandOf
  <2>3. SendingOf(u)'
    <3> SUFFICES ASSUME pc[u] = "send" PROVE SendingOf(u)'
      BY <1>1 DEF SendingOf
    <3>1. cur[u] \in Intents
      BY <2>1 DEF InHandOf
    <3> QED
      BY <1>1, <2>1, <3>1 DEF SendingOf
  <2> QED
    BY <2>2, <2>3
<1>3. \A u, v \in Unrecorded' : u = v
  BY <1>1 DEF Sound, Unrecorded
<1> QED
  BY <1>2, <1>3

\* A row that is refreshed becomes final only when its order can no longer grow.
LEMMA RefreshSound ==
  ASSUME TypeOK, TypeOK', Sound, ~overtaken', NEW t \in Threads, NEW c \in Intents, Refresh(t, c)
  PROVE  Sound'
<1>1. /\ row[c] \in Counted /\ UNCHANGED <<qty, exchange, threads>>
      /\ row' = [row EXCEPT ![c] = IF ~reached[c] THEN "unknown"
                                   ELSE IF live[c] = 0 THEN "final" ELSE "open"]
      /\ row'[c] = "final" => \A u \in Threads : pc[u] # "rows"
  BY DEF Refresh
<1>2. UNCHANGED <<reached, live, done, pos, pc, cur, op, want, seen>>
  BY <1>1 DEF exchange, threads
<1>3. /\ \A d \in Intents \ {c} : row'[d] = row[d]
      /\ row'[c] = IF ~reached[c] THEN "unknown" ELSE IF live[c] = 0 THEN "final" ELSE "open"
  BY <1>1 DEF TypeOK
<1>4. (\A u \in Threads : InHandOf(u)' /\ SendingOf(u)') /\ \A u, v \in Unrecorded' : u = v
  <2>1. \A u \in Threads : pc[u] = "send" /\ cur[u] = c => row'[c] \in Counted /\ ~reached'[c]
    BY <1>2, <1>3 DEF Sound, SendingOf, Counted
  <2> QED
    BY <1>1, <1>2, <1>3, <2>1, ThreadsKeep
<1>5. \A d \in Intents : Possible(d)' = Possible(d)
  BY <1>1, <1>2, <1>3 DEF Possible, Counted
<1>6. (pos + AllPossible <= Limit)' /\ \A u \in Threads : RoomOf(u)'
  <2>1. Possible(c)' <= Possible(c)
    BY <1>5, LotsAreNumbers
  <2> QED
    BY <1>2, <1>5, <2>1, RoomStays DEF Sound
<1>7. ASSUME NEW u \in Threads PROVE SeenOf(u)'
  <2> SUFFICES ASSUME pc[u] = "rows" PROVE SeenOf(u)'
    BY <1>2 DEF SeenOf
  <2>1. row'[c] # "final" /\ row[c] # "final"
    BY <1>1 DEF Counted
  <2>2. \A d \in Intents : Covered(u, d)' = Covered(u, d)
    BY <1>2, <1>3, <2>1 DEF Covered
  <2>3. AllCovered(u)' = AllCovered(u)
    BY <2>2, CoveredStays
  <2> QED
    BY <1>2, <2>3 DEF Sound, SeenOf
<1>8. ASSUME NEW d \in Intents PROVE RowsOf(d)' /\ BoundedOf(d)'
  <2>1. RowsOf(d) /\ BoundedOf(d)
    BY DEF Sound
  <2>2. RowsOf(d)'
    BY <1>2, <1>3, <2>1 DEF RowsOf
  <2>3. BoundedOf(d)'
    BY <1>1, <1>2, <2>1 DEF BoundedOf
  <2> QED
    BY <2>2, <2>3
<1> QED
  BY <1>4, <1>6, <1>7, <1>8 DEF Sound

\* An order that arrives late is its row's quantity.
LEMMA VenueLateSound ==
  ASSUME TypeOK, TypeOK', Sound, NEW c \in Intents, VenueLate(c)
  PROVE  Sound'
<1>1. /\ row[c] \in Counted /\ ~reached[c] /\ UNCHANGED <<database, done, pos, threads>>
      /\ \A t \in Threads : ~(pc[t] = "send" /\ cur[t] = c)
      /\ reached' = [reached EXCEPT ![c] = TRUE] /\ live' = [live EXCEPT ![c] = qty[c]]
  BY DEF VenueLate
<1>2. UNCHANGED <<row, qty, pc, cur, op, want, seen>>
  BY <1>1 DEF database, threads
<1>3. /\ \A d \in Intents \ {c} : reached'[d] = reached[d] /\ live'[d] = live[d]
      /\ reached'[c] /\ live'[c] = qty[c]
  BY <1>1 DEF TypeOK
<1>4. (\A u \in Threads : InHandOf(u)' /\ SendingOf(u)') /\ \A u, v \in Unrecorded' : u = v
  BY <1>1, <1>2, <1>3, ThreadsKeep
<1>5. \A d \in Intents : Possible(d)' = Possible(d)
  BY <1>1, <1>2, <1>3 DEF Possible
<1>6. (pos + AllPossible <= Limit)' /\ \A u \in Threads : RoomOf(u)'
  <2>1. Possible(c)' <= Possible(c)
    BY <1>5, LotsAreNumbers
  <2> QED
    BY <1>1, <1>2, <1>5, <2>1, RoomStays DEF Sound
<1>7. ASSUME NEW u \in Threads PROVE SeenOf(u)'
  <2>1. \A d \in Intents : Covered(u, d)' = Covered(u, d)
    BY <1>1, <1>2 DEF Covered
  <2>2. AllCovered(u)' = AllCovered(u)
    BY <2>1, CoveredStays
  <2> QED
    BY <1>1, <1>2, <2>2 DEF Sound, SeenOf
<1>8. ASSUME NEW d \in Intents PROVE RowsOf(d)' /\ BoundedOf(d)'
  <2>1. RowsOf(d) /\ BoundedOf(d)
    BY DEF Sound
  <2>2. RowsOf(d)'
    BY <1>1, <1>2, <1>3, <2>1 DEF RowsOf, Counted
  <2>3. CASE d = c
    <3>1. \A u \in Threads : ~(pc[u] = "note" /\ cur[u] = c)
      BY <1>1 DEF Sound, InHandOf
    <3>2. done[c] = 0 /\ qty[c] \in Nat
      BY <1>1, <2>1, <2>3, LotsAreNumbers DEF RowsOf
    <3>3. BoundedOf(d)'
      BY <1>1, <1>2, <1>3, <2>3, <3>1, <3>2 DEF BoundedOf
    <3> QED
      BY <2>2, <3>3
  <2>4. CASE d # c
    BY <1>1, <1>2, <1>3, <2>1, <2>2, <2>4 DEF BoundedOf
  <2> QED
    BY <2>3, <2>4
<1> QED
  BY <1>4, <1>6, <1>7, <1>8 DEF Sound

\* An order the exchange cancels can no longer grow.
LEMMA VenueCancelSound ==
  ASSUME TypeOK, TypeOK', Sound, NEW c \in Intents, VenueCancel(c)
  PROVE  Sound'
<1>1. /\ live[c] > 0 /\ UNCHANGED <<database, reached, done, pos, threads>>
      /\ live' = [live EXCEPT ![c] = 0]
  BY DEF VenueCancel
<1>2. UNCHANGED <<row, qty, pc, cur, op, want, seen>>
  BY <1>1 DEF database, threads
<1>3. (\A d \in Intents \ {c} : live'[d] = live[d]) /\ live'[c] = 0 /\ live[c] \in Nat
  BY <1>1 DEF TypeOK
<1>4. reached[c]
  BY <1>1, <1>3 DEF Sound, RowsOf
<1>5. (\A u \in Threads : InHandOf(u)' /\ SendingOf(u)') /\ \A u, v \in Unrecorded' : u = v
  <2>1. \A u \in Threads : ~(pc[u] = "send" /\ cur[u] = c)
    BY <1>4 DEF Sound, SendingOf
  <2> QED
    BY <1>1, <1>2, <2>1, ThreadsKeep
<1>6. (pos + AllPossible <= Limit)' /\ \A u \in Threads : RoomOf(u)'
  <2>1. \A d \in Intents \ {c} : Possible(d)' = Possible(d)
    BY <1>1, <1>2, <1>3 DEF Possible
  <2>2. Possible(c)' = 0
    BY <1>1, <1>3, <1>4 DEF Possible
  <2>3. Possible(c)' <= Possible(c)
    BY <2>2, LotsAreNumbers
  <2> QED
    BY <1>1, <1>2, <2>1, <2>3, RoomStays DEF Sound
<1>7. ASSUME NEW u \in Threads PROVE SeenOf(u)'
  <2>1. \A d \in Intents : Covered(u, d)' = Covered(u, d)
    BY <1>1, <1>2 DEF Covered
  <2>2. AllCovered(u)' = AllCovered(u)
    BY <2>1, CoveredStays
  <2> QED
    BY <1>1, <1>2, <2>2 DEF Sound, SeenOf
<1>8. ASSUME NEW d \in Intents PROVE RowsOf(d)' /\ BoundedOf(d)'
  <2>1. RowsOf(d) /\ BoundedOf(d)
    BY DEF Sound
  <2>2. RowsOf(d)'
    BY <1>1, <1>2, <1>3, <2>1 DEF RowsOf
  <2>3. done[d] \in Nat /\ live[d] \in Nat /\ qty[d] \in Nat /\ \A u \in Threads : want[u] \in Nat
    BY LotsAreNumbers
  <2>4. PICK m \in Nat : m = live'[d] /\ m <= live[d]
    <3>1. CASE d = c
      BY <1>3, <3>1
    <3>2. CASE d # c
      BY <1>3, <2>3, <3>2
    <3> QED
      BY <3>1, <3>2
  <2>5. \A k \in Nat : done[d] + live[d] <= k => done[d] + m <= k
    BY <2>3, <2>4
  <2>6. BoundedOf(d)'
    BY <1>1, <1>2, <2>1, <2>3, <2>4, <2>5 DEF BoundedOf
  <2> QED
    BY <2>2, <2>6
<1> QED
  BY <1>5, <1>6, <1>7, <1>8 DEF Sound

\* A fill moves a lot from what is possible to the position.
LEMMA FillSound ==
  ASSUME TypeOK, TypeOK', Sound, NEW c \in Intents, Fill(c)
  PROVE  Sound'
<1>1. /\ live[c] > 0 /\ UNCHANGED <<database, reached, threads>>
      /\ live' = [live EXCEPT ![c] = @ - 1] /\ done' = [done EXCEPT ![c] = @ + 1]
      /\ c \in Closes => pos' = pos - 1
      /\ c \notin Closes => pos' = pos + 1
  BY DEF Fill
<1>2. UNCHANGED <<row, qty, pc, cur, op, want, seen>>
  BY <1>1 DEF database, threads
<1>3. /\ \A d \in Intents \ {c} : live'[d] = live[d] /\ done'[d] = done[d]
      /\ live'[c] = live[c] - 1 /\ done'[c] = done[c] + 1
      /\ live[c] \in Nat /\ done[c] \in Nat
  BY <1>1 DEF TypeOK
<1>4. reached[c] /\ row[c] # "final"
  BY <1>1, <1>3 DEF Sound, RowsOf
<1>5. (\A u \in Threads : InHandOf(u)' /\ SendingOf(u)') /\ \A u, v \in Unrecorded' : u = v
  <2>1. \A u \in Threads : ~(pc[u] = "send" /\ cur[u] = c)
    BY <1>4 DEF Sound, SendingOf
  <2> QED
    BY <1>1, <1>2, <2>1, ThreadsKeep
<1>6. /\ \A d \in Intents \ {c} : Possible(d)' = Possible(d)
      /\ Possible(c) = live[c] /\ Possible(c)' = live[c] - 1
  BY <1>1, <1>2, <1>3, <1>4 DEF Possible
<1>7. c \in Buys <=> c \notin Closes
  BY RiskAssumption DEF Intents
<1>8. \/ c \in Buys /\ AllPossible' = AllPossible - 1 /\ pos' = pos + 1
      \/ c \notin Buys /\ AllPossible' = AllPossible /\ pos' = pos - 1
  <2>1. AllPossible \in Nat
    BY SumsAreNumbers
  <2>2. CASE c \in Buys
    <3>1. AllPossible' = AllPossible + Possible(c)' - Possible(c)
      BY <1>6, <2>2, PossibleMoves
    <3> QED
      BY <1>1, <1>3, <1>6, <1>7, <2>1, <2>2, <3>1
  <2>3. CASE c \notin Buys
    BY <1>1, <1>6, <1>7, <2>3, PossibleMoves
  <2> QED
    BY <2>2, <2>3
<1>9. pos \in Nat /\ AllPossible \in Nat /\ Limit \in Nat
  BY LotsAreNumbers, SumsAreNumbers, Buyers
<1>10. (pos + AllPossible <= Limit)'
  BY <1>8, <1>9 DEF Sound
<1>11. ASSUME NEW u \in Threads PROVE RoomOf(u)'
  <2> SUFFICES ASSUME pc[u] \in {"insert", "amend"}, cur[u] \in Buys
               PROVE  pos' - done'[cur'[u]] + AllPossible' - Possible(cur[u])' + want'[u] <= Limit
    BY <1>2 DEF RoomOf
  <2>1. PICK d \in Intents : d = cur[u] /\ d \in Buys
    BY Buyers
  <2>2. done[d] \in Nat /\ Possible(d) \in Nat /\ want[u] \in Nat
    BY LotsAreNumbers
  <2>3. pos - done[d] + AllPossible - Possible(d) + want[u] <= Limit
    BY <2>1 DEF Sound, RoomOf
  <2>4. pos' - done'[d] + AllPossible' - Possible(d)' + want[u] <= Limit
    <3>1. CASE d = c
      <4>1. AllPossible' = AllPossible - 1 /\ pos' = pos + 1
        BY <1>8, <2>1, <3>1
      <4> QED
        BY <1>3, <1>6, <1>9, <2>2, <2>3, <3>1, <4>1
    <3>2. CASE d # c
      <4>1. done'[d] = done[d] /\ Possible(d)' = Possible(d)
        BY <1>3, <1>6, <3>2
      <4>2. CASE c \in Buys
        BY <1>8, <1>9, <2>2, <2>3, <4>1, <4>2
      <4>3. CASE c \notin Buys
        BY <1>8, <1>9, <2>2, <2>3, <4>1, <4>3
      <4> QED
        BY <4>2, <4>3
    <3> QED
      BY <3>1, <3>2
  <2>5. Possible(cur[u])' = Possible(d)'
    BY <1>2, <2>1 DEF Possible
  <2> QED
    BY <1>2, <2>1, <2>4, <2>5
<1>12. ASSUME NEW u \in Threads PROVE SeenOf(u)'
  <2> SUFFICES ASSUME pc[u] = "rows", cur[u] \in Buys PROVE pos' <= seen[u] + AllCovered(u)'
    BY <1>2 DEF SeenOf
  <2>1. /\ \A d \in Intents \ {c} : Covered(u, d)' = Covered(u, d)
        /\ Covered(u, c) = done[c] /\ Covered(u, c)' = done[c] + 1
    BY <1>2, <1>3, <1>4 DEF Covered
  <2>2. pos <= seen[u] + AllCovered(u) /\ seen[u] \in Nat /\ AllCovered(u) \in Nat
    BY LotsAreNumbers, SumsAreNumbers DEF Sound, SeenOf
  <2>3. CASE c \in Buys
    <3>1. AllCovered(u)' = AllCovered(u) + Covered(u, c)' - Covered(u, c)
      BY <2>1, <2>3, CoveredMoves
    <3>2. AllCovered(u)' = AllCovered(u) + 1
      BY <1>3, <2>1, <2>2, <3>1
    <3> QED
      BY <1>8, <1>9, <2>2, <2>3, <3>2
  <2>4. CASE c \notin Buys
    <3>1. AllCovered(u)' = AllCovered(u)
      BY <2>1, <2>4, CoveredMoves
    <3> QED
      BY <1>8, <1>9, <2>2, <2>4, <3>1
  <2> QED
    BY <2>3, <2>4
<1>13. ASSUME NEW d \in Intents PROVE RowsOf(d)' /\ BoundedOf(d)'
  <2>1. RowsOf(d) /\ BoundedOf(d) /\ done[d] \in Nat /\ live[d] \in Nat
    BY LotsAreNumbers DEF Sound
  <2>2. RowsOf(d)'
    BY <1>1, <1>2, <1>3, <1>4, <2>1 DEF RowsOf
  <2>3. done'[d] + live'[d] = done[d] + live[d]
    BY <1>3, <2>1
  <2>4. BoundedOf(d)'
    BY <1>2, <2>1, <2>3 DEF BoundedOf
  <2> QED
    BY <2>2, <2>4
<1> QED
  BY <1>5, <1>10, <1>11, <1>12, <1>13 DEF Sound

\* An amended order can grow to the quantity there was room for.
LEMMA AmendSendSound ==
  ASSUME TypeOK, TypeOK', Sound, losses' = 0, NEW t \in Threads, AmendSend(t)
  PROVE  Sound'
<1>0. pc[t] = "amend" /\ UNCHANGED <<database, reached, done, pos>>
  BY DEF AmendSend
<1>1. PICK c \in Intents : c = cur[t] /\ reached[c]
  BY <1>0 DEF Sound, InHandOf
<1>2. CASE Return(t) /\ UNCHANGED live
  BY <1>0, <1>2, ReturnSound DEF database, exchange
<1>3. CASE /\ live[c] > 0 /\ want[t] > done[c]
           /\ live' = [live EXCEPT ![c] = want[t] - done[c]]
           /\ Goto(t, "note")
  <2>1. /\ UNCHANGED <<row, qty, reached, done, pos, cur, op, want, seen>>
        /\ pc' = [pc EXCEPT ![t] = "note"]
    BY <1>0, <1>3 DEF database, Goto
  <2>2. /\ \A d \in Intents \ {c} : live'[d] = live[d]
        /\ live'[c] = want[t] - done[c]
        /\ pc'[t] = "note" /\ \A u \in Threads \ {t} : pc'[u] = pc[u]
    BY <1>3, <2>1 DEF TypeOK
  <2>3. want[t] \in Nat /\ done[c] \in Nat /\ live[c] \in Nat
    BY LotsAreNumbers
  <2>4. \A u \in Threads : /\ pc[u] \in {"insert", "amend", "note"} => u = t
                           /\ pc'[u] \in {"insert", "amend", "note"} => u = t
                           /\ pc[u] # "note"
    BY <1>0, <2>2 DEF Sound, Unrecorded
  <2>5. (\A d \in Intents \ {c} : Possible(d)' = Possible(d)) /\ Possible(c)' = want[t] - done[c]
    BY <1>1, <2>1, <2>2 DEF Possible
  <2>6. (pos + AllPossible <= Limit)'
    <3>1. CASE c \in Buys
      <4>1. AllPossible' = AllPossible + Possible(c)' - Possible(c)
        BY <2>5, <3>1, PossibleMoves
      <4>2. pos - done[c] + AllPossible - Possible(c) + want[t] <= Limit
        BY <1>0, <1>1, <3>1 DEF Sound, RoomOf
      <4>3. pos \in Nat /\ AllPossible \in Nat /\ Possible(c) \in Nat /\ Limit \in Nat
        BY LotsAreNumbers, SumsAreNumbers, Buyers
      <4> QED
        BY <2>1, <2>3, <2>5, <4>1, <4>2, <4>3
    <3>2. CASE c \notin Buys
      BY <2>1, <2>5, <3>2, PossibleMoves DEF Sound
    <3> QED
      BY <3>1, <3>2
  <2>7. ASSUME NEW u \in Threads PROVE InHandOf(u)' /\ SendingOf(u)' /\ SeenOf(u)' /\ RoomOf(u)'
    <3>1. InHandOf(u) /\ SendingOf(u) /\ SeenOf(u) /\ RoomOf(u) /\ InHandOf(t)
      BY DEF Sound
    <3>2. InHandOf(u)'
      BY <1>0, <1>1, <2>1, <2>2, <3>1 DEF InHandOf
    <3>3. SendingOf(u)'
      BY <2>1, <2>2, <3>1 DEF SendingOf
    <3>4. AllCovered(u)' = AllCovered(u)
      <4>1. \A d \in Intents : Covered(u, d)' = Covered(u, d)
        BY <2>1 DEF Covered
      <4> QED
        BY <4>1, CoveredStays
    <3>5. SeenOf(u)'
      BY <2>1, <2>2, <3>1, <3>4 DEF SeenOf
    <3>6. RoomOf(u)'
      BY <2>2, <2>4 DEF RoomOf
    <3> QED
      BY <3>2, <3>3, <3>5, <3>6
  <2>8. \A u, v \in Unrecorded' : u = v
    BY <2>4 DEF Unrecorded
  <2>9. ASSUME NEW d \in Intents PROVE RowsOf(d)' /\ BoundedOf(d)'
    <3>1. RowsOf(d) /\ BoundedOf(d)
      BY DEF Sound
    <3>2. RowsOf(d)'
      BY <1>1, <1>3, <2>1, <2>2, <2>3, <3>1 DEF RowsOf
    <3>3. CASE d = c
      <4>1. done'[c] + live'[c] <= want'[t]
        BY <2>1, <2>2, <2>3
      <4> QED
        BY <1>1, <2>1, <2>2, <2>4, <3>2, <3>3, <4>1 DEF BoundedOf
    <3>4. CASE d # c
      <4>1. \A u \in Threads : ~(pc'[u] = "note" /\ cur'[u] = d)
        BY <1>1, <2>1, <2>4, <3>4
      <4>2. done'[d] + live'[d] <= qty'[d]
        BY <2>1, <2>2, <2>4, <3>1, <3>4 DEF BoundedOf
      <4> QED
        BY <3>2, <4>1, <4>2 DEF BoundedOf
    <3> QED
      BY <3>3, <3>4
  <2> QED
    BY <2>6, <2>7, <2>8, <2>9 DEF Sound
<1> QED
  <2>1. losses \in Nat
    BY DEF TypeOK
  <2> QED
    BY <1>1, <1>2, <1>3, <2>1 DEF AmendSend

\* When an amendment is noted, the row counts what its order can grow to.
LEMMA AmendNoteSound ==
  ASSUME TypeOK, TypeOK', Sound, NEW t \in Threads, AmendNote(t)
  PROVE  Sound'
<1>0. pc[t] = "note" /\ Return(t) /\ UNCHANGED <<row, exchange>>
  BY DEF AmendNote
<1>1. PICK c \in Intents : c = cur[t] /\ reached[c]
  BY <1>0 DEF Sound, InHandOf
<1>2. UNCHANGED <<reached, live, done, pos>> /\ qty' = [qty EXCEPT ![c] = want[t]]
  BY <1>0, <1>1 DEF AmendNote, exchange
<1>3. /\ pc'[t] = "idle"
      /\ \A u \in Threads \ {t} : /\ pc'[u] = pc[u] /\ cur'[u] = cur[u] /\ op'[u] = op[u]
                                 /\ want'[u] = want[u] /\ seen'[u] = seen[u]
  BY <1>0 DEF Return, TypeOK
<1>4. qty'[c] = want[t] /\ \A d \in Intents \ {c} : qty'[d] = qty[d]
  BY <1>2 DEF TypeOK
<1>5. \A u \in Threads : pc'[u] \notin {"insert", "amend", "note"}
  BY <1>0, <1>3 DEF Sound, Unrecorded
<1>6. \A d \in Intents : Possible(d)' = Possible(d)
  BY <1>0, <1>1, <1>2, <1>4 DEF Possible
<1>7. (pos + AllPossible <= Limit)'
  BY <1>2, <1>6, PossibleStays DEF Sound
<1>8. ASSUME NEW u \in Threads PROVE InHandOf(u)' /\ SendingOf(u)' /\ SeenOf(u)' /\ RoomOf(u)'
  <2>1. RoomOf(u)'
    BY <1>5 DEF RoomOf
  <2>2. CASE u = t
    BY <1>3, <2>1, <2>2 DEF InHandOf, SendingOf, SeenOf
  <2>3. CASE u # t
    <3>1. InHandOf(u) /\ SendingOf(u) /\ SeenOf(u)
      BY DEF Sound
    <3>2. InHandOf(u)'
      BY <1>2, <1>3, <2>3, <3>1 DEF InHandOf
    <3>3. SendingOf(u)'
      <4> SUFFICES ASSUME pc[u] = "send" PROVE SendingOf(u)'
        BY <1>3, <2>3 DEF SendingOf
      <4>1. cur[u] \in Intents /\ cur[u] # c
        BY <1>1, <3>1 DEF InHandOf, SendingOf
      <4> QED
        BY <1>0, <1>2, <1>3, <1>4, <2>3, <3>1, <4>1 DEF SendingOf
    <3>4. AllCovered(u)' = AllCovered(u)
      <4>1. \A d \in Intents : Covered(u, d)' = Covered(u, d)
        BY <1>0, <1>2, <1>3, <2>3 DEF Covered
      <4> QED
        BY <4>1, CoveredStays
    <3>5. SeenOf(u)'
      BY <1>2, <1>3, <2>3, <3>1, <3>4 DEF SeenOf
    <3> QED
      BY <2>1, <3>2, <3>3, <3>5
  <2> QED
    BY <2>2, <2>3
<1>9. \A u, v \in Unrecorded' : u = v
  BY <1>5 DEF Unrecorded
<1>10. ASSUME NEW d \in Intents PROVE RowsOf(d)' /\ BoundedOf(d)'
  <2>1. RowsOf(d) /\ BoundedOf(d)
    BY DEF Sound
  <2>2. RowsOf(d)'
    BY <1>0, <1>2, <2>1 DEF RowsOf
  <2>3. done[d] + live[d] <= qty'[d]
    <3>1. CASE d = c
      BY <1>0, <1>1, <1>4, <2>1, <3>1 DEF BoundedOf
    <3>2. CASE d # c
      <4>1. \A u \in Threads : ~(pc[u] = "note" /\ cur[u] = d)
        BY <1>0, <1>1, <3>2 DEF Sound, Unrecorded
      <4> QED
        BY <1>4, <2>1, <3>2, <4>1 DEF BoundedOf
    <3> QED
      BY <3>1, <3>2
  <2>4. BoundedOf(d)'
    BY <1>2, <1>5, <2>3 DEF BoundedOf
  <2> QED
    BY <2>2, <2>4
<1> QED
  BY <1>7, <1>8, <1>9, <1>10 DEF Sound

\* What is lost or overtaken stays so.
LEMMA CleanBefore == ASSUME TypeOK, [Next]_vars, Clean' PROVE Clean
<1>0. losses \in Nat /\ overtaken \in BOOLEAN
  BY DEF TypeOK
<1>1. losses' = 0 /\ ~overtaken'
  BY DEF Clean
<1>2. CASE UNCHANGED vars
  BY <1>1, <1>2 DEF Clean, vars, notes
<1>3. ASSUME NEW t \in Threads, Gate(t) PROVE Clean
  <2>1. ASSUME NEW c \in Intents, NEW q \in Quantities, Begin(t, c, q) PROVE Clean
    BY <1>1, <2>1 DEF Clean, Begin, notes
  <2>2. CASE Snapshot(t) \/ Insert(t) \/ AmendNote(t)
    BY <1>1, <2>2 DEF Clean, Snapshot, Insert, AmendNote, notes
  <2>3. CASE Decide(t)
    BY <1>0, <1>1, <2>3 DEF Clean, Decide
  <2>4. CASE Send(t)
    <3>1. (losses' = losses \/ losses' = losses + 1) /\ overtaken' = overtaken
      BY <2>4 DEF Send
    <3> QED
      BY <1>0, <1>1, <3>1 DEF Clean
  <2>5. CASE AmendSend(t)
    <3>1. (losses' = losses \/ losses' = losses + 1) /\ overtaken' = overtaken
      BY <2>5 DEF AmendSend
    <3> QED
      BY <1>0, <1>1, <3>1 DEF Clean
  <2>6. ASSUME NEW c \in Intents, Refresh(t, c) PROVE Clean
    BY <1>0, <1>1, <2>6 DEF Clean, Refresh
  <2> QED
    BY <1>3, <2>1, <2>2, <2>3, <2>4, <2>5, <2>6 DEF Gate
<1>4. CASE \E t \in Threads : Operator(t)
  BY <1>0, <1>1, <1>4 DEF Clean, Operator, SetStrict, NormalCheck, NormalWrite, Reconcile,
                          ResolveDiff, notes
<1>5. CASE \E c \in Intents : Fill(c) \/ VenueLate(c) \/ VenueCancel(c)
  BY <1>1, <1>5 DEF Clean, Fill, VenueLate, VenueCancel, notes
<1> QED
  BY <1>2, <1>3, <1>4, <1>5 DEF Next

\* Nothing is possible before the first request.
LEMMA LimitInit == Init => LimitInv
<1> SUFFICES ASSUME Init PROVE Sound
  BY DEF LimitInv
<1> USE DEF Init
<1>1. \A t \in Threads : InHandOf(t) /\ SendingOf(t) /\ SeenOf(t) /\ RoomOf(t)
  BY DEF InHandOf, SendingOf, SeenOf, RoomOf
<1>2. \A u, v \in Unrecorded : u = v
  BY DEF Unrecorded
<1>3. \A c \in Intents : RowsOf(c) /\ BoundedOf(c)
  BY DEF RowsOf, BoundedOf
<1>4. pos + AllPossible <= Limit
  <2> DEFINE f == [c \in Buys |-> Possible(c)]
  <2>1. \A c \in Buys : f[c] = 0
    BY Buyers DEF Possible, Counted
  <2> HIDE DEF f
  <2>2. SumFunctionOnSet(f, Buys) = 0
    BY <2>1, Buyers, SumZero
  <2>3. AllPossible = 0
    BY <2>2 DEF AllPossible, f
  <2> QED
    BY <2>3, Buyers
<1> QED
  BY <1>1, <1>2, <1>3, <1>4 DEF Sound

\* Every step keeps the bound.
LEMMA LimitStep == ASSUME TypeOK, TypeOK', LimitInv, [Next]_vars PROVE LimitInv'
<1> SUFFICES ASSUME Clean' PROVE Sound'
  BY DEF LimitInv
<1>1. Sound /\ losses' = 0 /\ ~overtaken'
  BY CleanBefore DEF LimitInv, Clean
<1>2. CASE UNCHANGED vars
  <2>1. UNCHANGED <<row, qty, exchange, threads>>
    BY <1>2 DEF vars, database
  <2> QED
    BY <1>1, <2>1, NothingSound
<1>3. ASSUME NEW t \in Threads, Gate(t) PROVE Sound'
  BY <1>1, <1>3, BeginSound, SnapshotSound, DecideSound, InsertSound, SendSound, AmendSendSound,
     AmendNoteSound, RefreshSound DEF Gate
<1>4. ASSUME NEW t \in Threads, Operator(t) PROVE Sound'
  <2>1. CASE (\E s \in Scopes : NormalCheck(t, s)) \/ NormalWrite(t)
    BY <1>1, <2>1, NormalSound
  <2>2. CASE (\E s \in Scopes : SetStrict(t, s)) \/ Reconcile(t) \/ ResolveDiff(t)
    <3>1. UNCHANGED <<row, qty, exchange, threads>>
      BY <2>2 DEF SetStrict, Reconcile, ResolveDiff
    <3> QED
      BY <1>1, <3>1, NothingSound
  <2> QED
    BY <1>4, <2>1, <2>2 DEF Operator
<1>5. ASSUME NEW c \in Intents, Fill(c) \/ VenueLate(c) \/ VenueCancel(c) PROVE Sound'
  BY <1>1, <1>5, FillSound, VenueLateSound, VenueCancelSound
<1> QED
  BY <1>2, <1>3, <1>4, <1>5 DEF Next

\* What works at the exchange is part of what is possible.
LEMMA LimitFromInv == ASSUME TypeOK, LimitInv PROVE LimitHolds
<1> SUFFICES ASSUME losses = 0, ~overtaken PROVE Exposure <= Limit
  BY DEF LimitHolds
<1>1. Sound
  BY DEF LimitInv, Clean
<1> DEFINE f == [c \in Buys |-> Possible(c)]
<1>2. \A c \in Buys : live[c] \in Int /\ f[c] \in Int /\ live[c] <= f[c]
  <2> SUFFICES ASSUME NEW c \in Buys PROVE live[c] \in Int /\ f[c] \in Int /\ live[c] <= f[c]
    OBVIOUS
  <2>1. c \in Intents /\ f[c] = Possible(c)
    BY Buyers
  <2>2. live[c] \in Nat /\ Possible(c) \in Nat /\ RowsOf(c)
    BY <1>1, <2>1, LotsAreNumbers DEF Sound
  <2>3. CASE reached[c]
    BY <2>1, <2>2, <2>3 DEF Possible
  <2>4. CASE ~reached[c]
    <3>1. live[c] = 0
      BY <2>2, <2>4 DEF RowsOf
    <3> QED
      BY <2>1, <2>2, <3>1
  <2> QED
    BY <2>3, <2>4
<1>3. AllPossible = SumFunctionOnSet(f, Buys)
  BY DEF AllPossible
<1> HIDE DEF f
<1>4. SumFunctionOnSet(live, Buys) <= SumFunctionOnSet(f, Buys)
  BY <1>2, Buyers, SumMonotone
<1>5. SumFunctionOnSet(live, Buys) \in Int
  BY <1>2, Buyers, SumType
<1>6. pos \in Nat /\ AllPossible \in Nat /\ Limit \in Nat
  BY LotsAreNumbers, SumsAreNumbers, Buyers
<1>7. pos + AllPossible <= Limit
  BY <1>1 DEF Sound
<1> QED
  BY <1>3, <1>4, <1>5, <1>6, <1>7 DEF Exposure

\* LimitHolds, for any number of threads and intents and any limit: while no
\* answer is lost and no check overtaken, the position and the working orders
\* stay within it.
THEOREM LimitIsKept == Spec => []LimitHolds
<1>1. Init => LimitInv
  BY LimitInit
<1>2. TypeOK /\ TypeOK' /\ LimitInv /\ [Next]_vars => LimitInv'
  BY LimitStep
<1>3. TypeOK /\ LimitInv => LimitHolds
  BY LimitFromInv
<1> QED
  BY <1>1, <1>2, <1>3, TypeCorrect, PTL DEF Spec
=============================================================================
