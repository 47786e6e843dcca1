------------------------ MODULE SimulationOrdersProofs ------------------------
(***************************************************************************)
(* For any threads, intents, signals, requests and bounds: an execution is *)
(* copied into the ledger at most once, a signal becomes at most one       *)
(* order, no order is filled beyond its quantity, no execution is          *)
(* forgotten on its way to the ledger while fills do not cross, the rows   *)
(* of an order and of its executions add up, what is open stays within the *)
(* limit, and the ways to keep the books agree on any trades.              *)
(***************************************************************************)
EXTENDS SimulationOrders, Sums, FiniteSetTheorems, SequenceTheorems, TLAPS

\* What a thread knows when it stands where it stands.
Stands(t) ==
  /\ pc[t] = "review" => verdict[t] # None
  /\ pc[t] \in {"account", "decide", "refuse", "insert", "fill", "commit", "pick"}
       => job[t] # None
  /\ pc[t] \in {"fill", "commit", "pick"}
       => order[job[t].intent] # None /\ order[job[t].intent].request = job[t]
  /\ pc[t] \in {"isolate", "book", "note", "fail"} => work[t] \in Made
  /\ pc[t] \in {"book", "note", "fail"}
       => ~order[exec[work[t]].intent].request.isolated
  /\ pc[t] = "note" => ledger[work[t]].rows = 1

Unique ==
  /\ \A i, j \in Existing :
       (order[i].request.signal = order[j].request.signal /\ order[i].request.signal # None)
         => i = j
  /\ \A s \in Signals : signal[s] = "converted" => \E i \in Existing : order[i].request.signal = s

NotOverfilled == \A i \in Existing : order[i].filled <= order[i].request.lots

Attributed ==
  /\ \A x \in Made : order[exec[x].intent] # None
  /\ \A i \in Existing : order[i].request.intent = i

\* The tables agree with each other.
TablesOK == NotOverfilled /\ Attributed /\ BookedOnce /\ Unique

IInv == TypeOK /\ TablesOK /\ \A t \in Threads : Stands(t)

-----------------------------------------------------------------------------
(* What all steps have in common.                                          *)

LocalTypes ==
  /\ pc \in [Threads -> {"idle", "review", "account", "decide", "refuse", "insert", "fill",
                         "commit", "pick", "isolate", "book", "note", "fail"}]
  /\ job \in [Threads -> Requests \cup {None}]
  /\ verdict \in [Threads -> (Signals \X Verdicts) \cup {None}]
  /\ lots \in [Threads -> Nat]
  /\ work \in [Threads -> 0..MaxExecs]

TableTypes ==
  /\ signal \in [Signals -> {"new", "accepted", "rejected", "expired", "converted"}]
  /\ order \in [Intents -> {None} \cup OrderRow]
  /\ exec \in [Execs -> {None} \cup ExecRow]
  /\ ledger \in [Execs -> [rows : Nat, lots : Nat]]

\* The types of the tables and those of the requests.
LEMMA TypesSplit == TypeOK <=> TableTypes /\ LocalTypes
  BY DEF TypeOK, TableTypes, LocalTypes

\* The other threads are where they were, with what they had.
Still(t) ==
  \A u \in Threads \ {t} :
    pc'[u] = pc[u] /\ job'[u] = job[u] /\ verdict'[u] = verdict[u] /\ work'[u] = work[u]

\* Rows are never deleted, orders keep their request, executions their order,
\* and a trade in the ledger stays one trade.
Grows ==
  /\ \A i \in Intents : order[i] # None =>
       order'[i] # None /\ order'[i].request = order[i].request
  /\ \A x \in Execs : exec[x] # None => exec'[x] # None /\ exec'[x].intent = exec[x].intent
  /\ \A x \in Execs : ledger[x].rows = 1 => ledger'[x].rows = 1

\* Whoever does not move stands as well in tables that have grown.
LEMMA StandsOn == ASSUME IInv, Grows, NEW u \in Threads, Stands(u),
                         pc'[u] = pc[u], job'[u] = job[u], verdict'[u] = verdict[u],
                         work'[u] = work[u]
                  PROVE  Stands(u)'
<1>1. job[u] # None => job[u].intent \in Intents
  BY SimulationAssumption DEF IInv, TypeOK
<1>2. work[u] \in Made => work[u] \in Execs /\ exec[work[u]].intent \in Intents
  BY DEF IInv, TypeOK, Made, ExecRow
<1>3. work[u] \in Made => work[u] \in Made' /\ exec'[work[u]].intent = exec[work[u]].intent
  BY DEF Made, Grows
<1>4. work[u] \in Made => /\ order[exec[work[u]].intent] # None
                          /\ order'[exec'[work[u]].intent].request
                               = order[exec[work[u]].intent].request
  BY <1>2, <1>3 DEF IInv, TablesOK, Attributed, Grows
<1>5. pc[u] \in {"fill", "commit", "pick"} =>
        order'[job[u].intent] # None /\ order'[job[u].intent].request = job[u]
  BY <1>1 DEF Stands, Grows
<1>6. pc[u] = "note" => ledger'[work[u]].rows = 1
  BY <1>2 DEF Stands, Grows
<1> QED
  BY <1>3, <1>4, <1>5, <1>6 DEF Stands

\* So a step has its own thread, and the tables, to look after.
LEMMA StepKeeps == ASSUME IInv, Grows, NEW t \in Threads, Still(t),
                          TableTypes', LocalTypes', TablesOK', Stands(t)'
                   PROVE  IInv'
<1>1. \A u \in Threads : Stands(u)'
  <2> SUFFICES ASSUME NEW u \in Threads, u # t PROVE Stands(u)'
    OBVIOUS
  <2> QED
    BY StandsOn DEF Still, IInv
<1> QED
  BY <1>1, TypesSplit DEF IInv, TypeOK, TableTypes, LocalTypes

\* A step that leaves the tables alone has only its own thread to look after.
LEMMA LocalKeeps == ASSUME IInv, UNCHANGED tables, NEW t \in Threads, Still(t),
                           LocalTypes', Stands(t)'
                    PROVE  IInv'
<1>1. Grows
  BY DEF Grows, tables
<1>2. TableTypes' /\ TablesOK'
  BY DEF IInv, TypeOK, TableTypes, TablesOK, NotOverfilled, Attributed, BookedOnce, Unique,
         Existing, Made, tables
<1> QED
  BY <1>1, <1>2, StepKeeps

\* The answered request stands nowhere.
LEMMA ReturnStands == ASSUME IInv, NEW t \in Threads, Return(t)
                      PROVE  Still(t) /\ LocalTypes' /\ Stands(t)'
<1>1. LocalTypes'
  BY SimulationAssumption DEF IInv, TypeOK, LocalTypes, Return, Goto
<1>2. pc'[t] = "idle"
  BY DEF IInv, TypeOK, Return, Goto
<1>3. Stands(t)'
  BY <1>2 DEF Stands
<1>4. Still(t)
  BY DEF IInv, TypeOK, Return, Goto, Still
<1> QED
  BY <1>1, <1>3, <1>4

-----------------------------------------------------------------------------
(* The steps that touch no table.                                          *)

\* A review has read its signal; the verdict is one users can give.
LEMMA ReviewReadKeeps ==
  ASSUME IInv, NEW t \in Threads, NEW s \in Signals, NEW v \in Verdicts, ReviewRead(t, s, v)
  PROVE  IInv'
<1>1. <<s, v>> # None
  <2>1. <<s, v>> \in Signals \X Verdicts
    OBVIOUS
  <2> QED
    BY <2>1, SimulationAssumption
<1>2. LocalTypes' /\ Still(t)
  BY DEF IInv, TypeOK, LocalTypes, ReviewRead, Goto, Still
<1>3. Stands(t)'
  BY <1>1 DEF IInv, TypeOK, ReviewRead, Goto, Stands
<1> QED
  BY <1>2, <1>3, LocalKeeps DEF ReviewRead

\* A request of a known body is under way.
LEMMA CreateLookupKeeps ==
  ASSUME IInv, NEW t \in Threads, NEW r \in Requests, CreateLookup(t, r)
  PROVE  IInv'
<1>1. LocalTypes' /\ Still(t)
  BY DEF IInv, TypeOK, LocalTypes, CreateLookup, Goto, Still
<1>2. Stands(t)'
  BY SimulationAssumption DEF IInv, TypeOK, CreateLookup, Goto, Stands
<1> QED
  BY <1>1, <1>2, LocalKeeps DEF CreateLookup

\* Account and decision move the request on and leave its body.
LEMMA EvaluationKeeps ==
  ASSUME IInv, NEW t \in Threads, CreateAccount(t) \/ CreateDecide(t)
  PROVE  IInv'
<1>1. pc[t] \in {"account", "decide"} /\ \E label \in {"decide", "refuse", "insert"} : Goto(t, label)
  BY DEF CreateAccount, CreateDecide
<1>2. UNCHANGED <<job, verdict, lots, work>> /\ UNCHANGED tables
  BY DEF CreateAccount, CreateDecide
<1>3. LocalTypes' /\ Still(t)
  BY <1>1, <1>2 DEF IInv, TypeOK, LocalTypes, Goto, Still
<1>4. Stands(t)'
  BY <1>1, <1>2 DEF IInv, TypeOK, Goto, Stands
<1> QED
  BY <1>2, <1>3, <1>4, LocalKeeps

\* A refusal, whatever its reason, ends the request.
LEMMA RefusalKeeps ==
  ASSUME IInv, NEW t \in Threads, CreateRefused(t) \/ CreateConflict(t) \/ FillRefused(t)
  PROVE  IInv'
<1>1. Return(t) /\ UNCHANGED tables
  BY DEF CreateRefused, CreateConflict, FillRefused
<1> QED
  BY <1>1, ReturnStands, LocalKeeps

\* The order a fill is for exists, and what remains of it is a quantity.
LEMMA FillReadKeeps ==
  ASSUME IInv, NEW t \in Threads, NEW i \in Intents, FillRead(t, i)
  PROVE  IInv'
<1>1. i \in Existing /\ order[i] \in OrderRow /\ order[i].request.lots - order[i].filled \in Nat
  <2>1. i \in Existing /\ order[i] \in OrderRow
    BY DEF FillRead, Account, Existing, IInv, TypeOK
  <2>2. order[i].filled <= order[i].request.lots
    BY <2>1 DEF IInv, TablesOK, NotOverfilled
  <2>3. order[i].filled \in Nat /\ order[i].request.lots \in Nat
    BY <2>1, SimulationAssumption DEF OrderRow
  <2> QED
    BY <2>1, <2>2, <2>3
<1>2. order[i].request \in Requests
  BY <1>1 DEF OrderRow
<1>3. lots' \in [Threads -> Nat]
  BY <1>1 DEF FillRead, IInv, TypeOK
<1>4. LocalTypes' /\ Still(t)
  BY <1>2, <1>3 DEF IInv, TypeOK, LocalTypes, FillRead, Goto, Still
<1>5. job'[t] = order[i].request /\ pc'[t] = "commit" /\ UNCHANGED tables
  BY DEF FillRead, Goto, IInv, TypeOK
<1>6. UNCHANGED order /\ job'[t].intent = i
  BY <1>1, <1>5 DEF tables, IInv, TablesOK, Attributed
<1>7. Stands(t)'
  BY <1>1, <1>2, <1>5, <1>6, SimulationAssumption DEF Stands, Existing
<1> QED
  BY <1>4, <1>5, <1>7, LocalKeeps

\* The factor factory goes on to fill the order it has just created.
LEMMA FillIsolatedKeeps == ASSUME IInv, NEW t \in Threads, FillIsolated(t) PROVE IInv'
<1>1. job[t] \in Requests
  BY DEF FillIsolated, IInv, TypeOK, Stands
<1>2. lots' \in [Threads -> Nat]
  BY <1>1, SimulationAssumption DEF FillIsolated, IInv, TypeOK
<1>3. LocalTypes' /\ Still(t)
  BY <1>2 DEF IInv, TypeOK, LocalTypes, FillIsolated, Goto, Still
<1>4. Stands(t)'
  BY DEF IInv, TypeOK, FillIsolated, Goto, Stands, tables
<1> QED
  BY <1>3, <1>4, LocalKeeps DEF FillIsolated

\* The execution taken for one's own is of one's own order, so of its account.
LEMMA FillPickKeeps == ASSUME IInv, NEW t \in Threads, FillPick(t) PROVE IInv'
<1>1. PICK x \in Made : IsLast(x, job[t].intent) /\ work' = [work EXCEPT ![t] = x]
  BY DEF FillPick
<1>2. exec[x].intent = job[t].intent /\ order[job[t].intent].request = job[t]
  BY <1>1 DEF IsLast, FillPick, IInv, Stands
<1>3. LocalTypes' /\ Still(t)
  BY <1>1 DEF IInv, TypeOK, LocalTypes, FillPick, Goto, Still, Made, Execs
<1>4. Stands(t)'
  <2>1. work'[t] = x /\ UNCHANGED <<tables, job>>
    BY <1>1 DEF IInv, TypeOK, FillPick
  <2>2. pc'[t] = "isolate" \/ (pc'[t] = "book" /\ ~job[t].isolated)
    BY DEF IInv, TypeOK, FillPick, Goto
  <2> QED
    BY <1>2, <2>1, <2>2 DEF Stands, Made, tables
<1> QED
  BY <1>3, <1>4, LocalKeeps DEF FillPick

\* A copy asked for again is refused for the orders of the factor factory.
LEMMA SyncAgainKeeps == ASSUME IInv, NEW t \in Threads, NEW x \in Execs, SyncAgain(t, x)
                        PROVE  IInv'
<1>1. exec[x] \in ExecRow /\ order[exec[x].intent] \in OrderRow
  <2>1. exec[x] \in ExecRow
    BY DEF SyncAgain, Made, IInv, TypeOK
  <2> QED
    BY <2>1 DEF SyncAgain, ExecRow, IInv, TypeOK, TablesOK, Attributed
<1>2. order[exec[x].intent].request \in Requests
  BY <1>1 DEF OrderRow
<1>3. LocalTypes' /\ Still(t)
  BY <1>2 DEF IInv, TypeOK, LocalTypes, SyncAgain, Goto, Still, Execs
<1>4. Stands(t)'
  BY DEF IInv, TypeOK, SyncAgain, Goto, Stands, Made, tables
<1> QED
  BY <1>3, <1>4, LocalKeeps DEF SyncAgain

\* Whatever raises, the thread still has its execution.
LEMMA SyncRaiseKeeps == ASSUME IInv, NEW t \in Threads, SyncRaise(t) PROVE IInv'
<1>1. LocalTypes' /\ Still(t)
  BY DEF IInv, TypeOK, LocalTypes, SyncRaise, Goto, Still, locals
<1>2. Stands(t)'
  BY DEF IInv, TypeOK, SyncRaise, Goto, Stands, Made, tables, locals
<1> QED
  BY <1>1, <1>2, LocalKeeps DEF SyncRaise

-----------------------------------------------------------------------------
(* The steps that write signals, orders and executions.                    *)

\* A review and an expiry never make a signal converted.
LEMMA SignalKeeps ==
  ASSUME IInv, UNCHANGED <<order, exec, ledger>>,
         NEW s \in Signals, NEW v \in Verdicts \cup {"expired"}, signal' = [signal EXCEPT ![s] = v]
  PROVE  Grows /\ TableTypes' /\ TablesOK'
<1>1. Grows
  BY DEF Grows
<1>2. TableTypes'
  BY DEF IInv, TypeOK, TableTypes, Verdicts
<1>3. Unique'
  <2>1. v # "converted" /\ Existing' = Existing
    BY DEF Verdicts, Existing
  <2>2. \A r \in Signals : signal'[r] = "converted" => signal[r] = "converted"
    BY <2>1 DEF IInv, TypeOK
  <2> QED
    BY <2>1, <2>2 DEF IInv, TablesOK, Unique
<1>4. NotOverfilled' /\ Attributed' /\ BookedOnce'
  BY DEF IInv, TablesOK, NotOverfilled, Attributed, BookedOnce, Existing, Made
<1> QED
  BY <1>1, <1>2, <1>3, <1>4 DEF TablesOK

\* A review that lost the race writes its verdict all the same.
LEMMA ReviewWriteKeeps == ASSUME IInv, NEW t \in Threads, ReviewWrite(t) PROVE IInv'
<1>1. verdict[t] \in Signals \X Verdicts
  BY DEF ReviewWrite, IInv, TypeOK, Stands
<1>2. verdict[t][1] \in Signals /\ verdict[t][2] \in Verdicts
  BY <1>1
<1>3. Grows /\ TableTypes' /\ TablesOK'
  BY <1>2, SignalKeeps DEF ReviewWrite
<1>4. Still(t) /\ LocalTypes' /\ Stands(t)'
  BY ReturnStands DEF ReviewWrite
<1> QED
  BY <1>3, <1>4, StepKeeps

\* Without a thread to speak of, all of them stand where they stood.
LEMMA TableKeeps == ASSUME IInv, Grows, TableTypes', TablesOK', UNCHANGED <<pc, locals>>
                    PROVE  IInv'
<1>1. LocalTypes'
  BY DEF IInv, TypeOK, LocalTypes, locals
<1>2. \A u \in Threads : Stands(u)'
  BY StandsOn DEF IInv, locals
<1> QED
  BY <1>1, <1>2, TypesSplit DEF IInv, TypeOK, TableTypes, LocalTypes

\* An expiry touches new signals only.
LEMMA ExpireKeeps == ASSUME IInv, NEW s \in Signals, ExpireSignal(s) PROVE IInv'
  BY SignalKeeps, TableKeeps DEF ExpireSignal

\* A cancellation leaves request and filled quantity as they are.
LEMMA CancelKeeps == ASSUME IInv, NEW i \in Intents, CancelOrder(i) PROVE IInv'
<1>1. order[i] # None /\ order[i] \in OrderRow
  BY DEF CancelOrder, Open, Existing, IInv, TypeOK
<1>2. order' \in [Intents -> {None} \cup OrderRow] /\ order'[i] # None
      /\ order'[i].request = order[i].request /\ order'[i].filled = order[i].filled
  BY <1>1, SimulationAssumption DEF CancelOrder, IInv, TypeOK, OrderRow
<1>3. \A j \in Intents \ {i} : order'[j] = order[j]
  BY DEF CancelOrder, IInv, TypeOK
<1>4. Existing' = Existing /\ \A j \in Existing : /\ order'[j].request = order[j].request
                                                 /\ order'[j].filled = order[j].filled
  BY <1>1, <1>2, <1>3 DEF Existing
<1>5. Made' = Made /\ UNCHANGED <<signal, exec, ledger>>
  BY DEF CancelOrder, Made
<1>6. Grows
  BY <1>4, <1>5 DEF Grows, Existing
<1>7. TableTypes'
  BY <1>2, <1>5 DEF TableTypes, IInv, TypeOK
<1>8. \A x \in Made : exec[x].intent \in Existing
  BY DEF IInv, TypeOK, TablesOK, Attributed, Made, Existing, ExecRow
<1>9. NotOverfilled'
  BY <1>4 DEF IInv, TablesOK, NotOverfilled
<1>10. Attributed'
  <2>1. \A x \in Made' : exec'[x].intent \in Existing'
    BY <1>4, <1>5, <1>8
  <2>2. \A j \in Existing' : order'[j].request.intent = j
    BY <1>4 DEF IInv, TablesOK, Attributed
  <2> QED
    BY <2>1, <2>2 DEF Attributed, Existing
<1>11. Unique'
  BY <1>4, <1>5 DEF IInv, TablesOK, Unique
<1>12. BookedOnce'
  BY <1>4, <1>5, <1>8 DEF IInv, TablesOK, BookedOnce
<1> QED
  BY <1>6, <1>7, <1>9, <1>10, <1>11, <1>12, TableKeeps DEF CancelOrder, TablesOK

\* The insertion is the only step that makes an order, and the only one that
\* converts a signal: both at once, and only where neither was there.
LEMMA CreateInsertKeeps == ASSUME IInv, NEW t \in Threads, CreateInsert(t) PROVE IInv'
<1> DEFINE r == job[t]
           new == [request |-> r, status |-> "pending", filled |-> 0, value |-> 0]
<1>1. r \in Requests /\ r.intent \in Intents /\ new \in OrderRow /\ new # None
  <2>1. r \in Requests
    BY DEF CreateInsert, IInv, TypeOK, Stands
  <2>2. r.intent \in Intents /\ new \in OrderRow
    BY <2>1, SimulationAssumption DEF OrderRow
  <2> QED
    BY <2>1, <2>2, SimulationAssumption
<1>2. order[r.intent] = None /\ order' = [order EXCEPT ![r.intent] = new]
      /\ signal' = [s \in Signals |-> IF s = r.signal THEN "converted" ELSE signal[s]]
  BY DEF CreateInsert, Insertable
<1>3. order'[r.intent] = new /\ \A j \in Intents : j # r.intent => order'[j] = order[j]
  BY <1>1, <1>2 DEF IInv, TypeOK
<1>4. Existing' = Existing \cup {r.intent} /\ r.intent \notin Existing
  BY <1>1, <1>2, <1>3 DEF Existing
<1>5. Made' = Made /\ UNCHANGED <<exec, ledger, work, verdict>>
  BY DEF CreateInsert, Made
<1>6. Grows
  BY <1>2, <1>3, <1>5 DEF Grows
<1>7. TableTypes'
  <2>1. order' \in [Intents -> {None} \cup OrderRow]
    BY <1>1, <1>2 DEF IInv, TypeOK
  <2> QED
    BY <1>2, <1>5, <2>1 DEF IInv, TypeOK, TableTypes
<1>8. NotOverfilled'
  BY <1>1, <1>3, <1>4, SimulationAssumption DEF IInv, TablesOK, NotOverfilled, Existing
<1>9. \A x \in Made : exec[x].intent \in Existing
  BY DEF IInv, TypeOK, TablesOK, Attributed, Made, Existing, ExecRow
<1>10. Attributed'
  <2>1. \A x \in Made' : order'[exec'[x].intent] # None
    BY <1>1, <1>3, <1>4, <1>5, <1>9 DEF IInv, TablesOK, Attributed, Existing
  <2>2. \A i \in Existing' : order'[i].request.intent = i
    BY <1>1, <1>3, <1>4 DEF IInv, TablesOK, Attributed, Existing
  <2> QED
    BY <2>1, <2>2 DEF Attributed
<1>11. BookedOnce'
  BY <1>3, <1>4, <1>5, <1>9 DEF IInv, TablesOK, BookedOnce, Existing
<1>12. Unique'
  <2>1. r.signal # None => \A i \in Existing : order[i].request.signal # r.signal
    BY DEF CreateInsert, Insertable
  <2>2. \A i, j \in Existing' :
          (order'[i].request.signal = order'[j].request.signal /\ order'[i].request.signal # None)
            => i = j
    BY <1>3, <1>4, <2>1 DEF IInv, TablesOK, Unique, Existing
  <2>3. \A s \in Signals : signal'[s] = "converted"
          => \E i \in Existing' : order'[i].request.signal = s
    BY <1>2, <1>3, <1>4 DEF IInv, TablesOK, Unique, Existing
  <2> QED
    BY <2>2, <2>3 DEF Unique
<1>13. LocalTypes' /\ Still(t)
  BY <1>1 DEF IInv, TypeOK, LocalTypes, CreateInsert, Goto, Still
<1>14. Stands(t)'
  <2>1. pc'[t] \in {"fill", "idle"} /\ (pc'[t] = "fill" => job'[t] = r)
    BY DEF CreateInsert, Goto, IInv, TypeOK
  <2> QED
    BY <1>1, <1>3, <2>1, SimulationAssumption DEF Stands
<1> QED
  BY <1>6, <1>7, <1>8, <1>10, <1>11, <1>12, <1>13, <1>14, StepKeeps DEF TablesOK

\* What is paid for the lots of an execution is a number.
LEMMA CostKnown ==
  ASSUME NEW x \in Execs, NEW n \in Nat
  PROVE  n * Prices[x] \in Nat
<1>1. PICK p \in Nat : p = Prices[x]
  BY SimulationAssumption
<1>2. n * p \in Nat
  OBVIOUS
<1> QED
  BY <1>1, <1>2

\* The execution and the new state of its order are one transaction, made only
\* while the quantity fits into what remains.
LEMMA FillCommitKeeps == ASSUME IInv, NEW t \in Threads, FillCommit(t) PROVE IInv'
<1> DEFINE i == job[t].intent
           o == order[i]
           n == o.filled + lots[t]
           row(x) == [request |-> o.request, filled |-> n, value |-> o.value + lots[t] * Prices[x],
                      status |-> IF n >= o.request.lots THEN "filled" ELSE "partially_filled"]
<1>1. PICK x \in Execs : /\ Free(x)
                         /\ exec' = [exec EXCEPT ![x] =
                              [intent |-> i, lots |-> lots[t], sync |-> "pending"]]
                         /\ order' = [order EXCEPT ![i] = row(x)]
  BY DEF FillCommit
<1> DEFINE made == [intent |-> i, lots |-> lots[t], sync |-> "pending"]
<1>2. i \in Existing /\ o \in OrderRow /\ o.request = job[t] /\ lots[t] \in Nat
  BY SimulationAssumption DEF FillCommit, IInv, TypeOK, Stands, Existing
<1>3. row(x) \in OrderRow /\ row(x) # None /\ made \in ExecRow /\ made # None
  <2>1. row(x) \in OrderRow /\ made \in ExecRow
    <3>1. lots[t] * Prices[x] \in Nat
      BY <1>2, CostKnown
    <3> QED
      BY <1>2, <3>1 DEF OrderRow, ExecRow, Existing
  <2> QED
    BY <2>1, SimulationAssumption
<1>4. order' = [order EXCEPT ![i] = row(x)]
  BY <1>1
<1>5. order'[i] = row(x) /\ \A j \in Intents : j # i => order'[j] = order[j]
  BY <1>2, <1>4 DEF IInv, TypeOK, Existing
<1>6. exec'[x] = made /\ exec[x] = None /\ \A y \in Execs : y # x => exec'[y] = exec[y]
  BY <1>1 DEF Free, IInv, TypeOK
<1>7. Made' = Made \cup {x} /\ x \notin Made /\ Existing' = Existing
  BY <1>2, <1>3, <1>5, <1>6 DEF Made, Existing
<1>8. \A j \in Existing : order'[j].request = order[j].request
  BY <1>5 DEF Existing
<1>9. UNCHANGED <<signal, ledger, job, work, verdict>>
  BY DEF FillCommit
<1>10. Grows
  BY <1>6, <1>7, <1>8, <1>9 DEF Grows, Made, Existing
<1>11. TableTypes'
  <2>1. order' \in [Intents -> {None} \cup OrderRow]
    BY <1>3, <1>4 DEF IInv, TypeOK
  <2>2. exec' \in [Execs -> {None} \cup ExecRow]
    BY <1>1, <1>3 DEF IInv, TypeOK
  <2> QED
    BY <1>9, <2>1, <2>2 DEF IInv, TypeOK, TableTypes
<1>12. NotOverfilled'
  <2>1. n <= o.request.lots
    <3>1. lots[t] <= o.request.lots - o.filled
      BY DEF FillCommit, Fillable
    <3>2. o.filled \in Nat /\ o.request.lots \in Nat
      BY <1>2, SimulationAssumption DEF OrderRow
    <3> QED
      BY <1>2, <3>1, <3>2
  <2> QED
    BY <1>5, <1>7, <2>1 DEF IInv, TablesOK, NotOverfilled, Existing
<1>13. \A y \in Made : exec[y].intent \in Existing
  BY DEF IInv, TypeOK, TablesOK, Attributed, Made, Existing, ExecRow
<1>14. Attributed'
  <2>1. \A y \in Made' : exec'[y].intent \in Existing
    BY <1>2, <1>6, <1>7, <1>13 DEF Made
  <2> QED
    BY <1>7, <1>8, <2>1 DEF IInv, TablesOK, Attributed, Existing
<1>15. BookedOnce'
  <2>1. \A y \in Execs \ {x} : exec'[y] = exec[y] /\ (y \in Made' <=> y \in Made)
    BY <1>6, <1>7
  <2>2. ledger[x].rows = 0
    BY <1>7 DEF IInv, TypeOK, TablesOK, BookedOnce
  <2> QED
    BY <1>6, <1>8, <1>9, <1>13, <2>1, <2>2 DEF IInv, TablesOK, BookedOnce
<1>16. Unique'
  BY <1>7, <1>8, <1>9 DEF IInv, TablesOK, Unique
<1>17. LocalTypes' /\ Still(t)
  BY <1>9 DEF IInv, TypeOK, LocalTypes, FillCommit, Goto, Still
<1>18. Stands(t)'
  <2>1. pc'[t] = "pick" /\ job'[t] = job[t]
    BY <1>9 DEF FillCommit, Goto, IInv, TypeOK
  <2>2. job[t] # None
    BY DEF FillCommit, IInv, Stands
  <2> QED
    BY <1>2, <1>3, <1>5, <2>1, <2>2 DEF Stands
<1> QED
  BY <1>10, <1>11, <1>12, <1>14, <1>15, <1>16, <1>17, <1>18, StepKeeps DEF TablesOK

-----------------------------------------------------------------------------
(* The copy into the ledger.                                               *)

\* A mark changes nothing of an execution but the mark; synced is written only
\* where the trade is.
LEMMA MarkKeeps ==
  ASSUME IInv, UNCHANGED <<signal, order, ledger>>,
         NEW x \in Made, NEW status \in {"synced", "failed", "isolated"}, SetSync(x, status),
         status = "synced" => ledger[x].rows = 1
  PROVE  Grows /\ TableTypes' /\ TablesOK'
<1> DEFINE new == [intent |-> exec[x].intent, lots |-> exec[x].lots, sync |-> status]
<1>1. x \in Execs /\ exec[x] \in ExecRow /\ new \in ExecRow /\ new # None
  <2>1. x \in Execs /\ exec[x] \in ExecRow
    BY DEF Made, IInv, TypeOK
  <2>2. new \in ExecRow
    BY <2>1 DEF ExecRow
  <2> QED
    BY <2>1, <2>2, SimulationAssumption
<1>2. exec'[x] = new /\ \A y \in Execs : y # x => exec'[y] = exec[y]
  BY <1>1 DEF SetSync, IInv, TypeOK
<1>3. Made' = Made /\ Existing' = Existing /\ \A y \in Made : exec'[y].intent = exec[y].intent
  BY <1>1, <1>2 DEF Made, Existing
<1>4. Grows
  BY <1>3 DEF Grows, Made
<1>5. TableTypes'
  <2>1. exec' \in [Execs -> {None} \cup ExecRow]
    BY <1>1 DEF SetSync, IInv, TypeOK
  <2> QED
    BY <2>1 DEF IInv, TypeOK, TableTypes
<1>6. NotOverfilled' /\ Attributed' /\ Unique'
  BY <1>3 DEF IInv, TablesOK, NotOverfilled, Attributed, Unique
<1>7. BookedOnce'
  BY <1>2, <1>3 DEF IInv, TablesOK, BookedOnce
<1> QED
  BY <1>4, <1>5, <1>6, <1>7 DEF TablesOK

\* The three marks: the copy is there when synced is written.
LEMMA MarksKeep == ASSUME IInv, NEW t \in Threads, FillIsolate(t) \/ SyncNote(t) \/ SyncFail(t)
                   PROVE  IInv'
<1>1. work[t] \in Made /\ Return(t) /\ UNCHANGED <<signal, order, ledger>>
  BY DEF FillIsolate, SyncNote, SyncFail, IInv, Stands
<1>2. \E status \in {"synced", "failed", "isolated"} :
        SetSync(work[t], status) /\ (status = "synced" => ledger[work[t]].rows = 1)
  BY DEF FillIsolate, SyncNote, SyncFail, IInv, Stands
<1>3. Grows /\ TableTypes' /\ TablesOK'
  BY <1>1, <1>2, MarkKeeps
<1> QED
  BY <1>1, <1>3, ReturnStands, StepKeeps

\* A trade is inserted where there is none, for an execution of the shared
\* account; one that is there stays.
LEMMA SyncBookKeeps == ASSUME IInv, NEW t \in Threads, SyncBook(t) PROVE IInv'
<1> DEFINE x == work[t]
<1>1. x \in Made /\ x \in Execs /\ ~order[exec[x].intent].request.isolated
  BY DEF SyncBook, IInv, Stands, Made
<1>2. exec[x].lots \in Nat /\ ledger[x].rows \in {0, 1} /\ ledger[x] \in [rows : Nat, lots : Nat]
  BY <1>1 DEF IInv, TypeOK, TablesOK, BookedOnce, Made, ExecRow
<1>3. UNCHANGED <<signal, order, exec, job, verdict, lots, work>>
  BY DEF SyncBook, locals
<1>4. ledger' \in [Execs -> [rows : Nat, lots : Nat]] /\ ledger'[x].rows = 1
      /\ \A y \in Execs : y # x => ledger'[y] = ledger[y]
  BY <1>1, <1>2 DEF SyncBook, Booked, IInv, TypeOK
<1>5. Grows
  BY <1>3, <1>4 DEF Grows
<1>6. TableTypes'
  BY <1>3, <1>4 DEF IInv, TypeOK, TableTypes
<1>7. NotOverfilled' /\ Attributed' /\ Unique'
  BY <1>3 DEF IInv, TablesOK, NotOverfilled, Attributed, Unique, Existing, Made
<1>8. BookedOnce'
  BY <1>1, <1>3, <1>4 DEF IInv, TablesOK, BookedOnce, Made
<1>9. LocalTypes' /\ Still(t)
  BY <1>3 DEF IInv, TypeOK, LocalTypes, SyncBook, Goto, Still
<1>10. Stands(t)'
  <2>1. pc'[t] \in {"fail", "note"}
    BY DEF SyncBook, Goto, IInv, TypeOK
  <2> QED
    BY <1>1, <1>3, <1>4, <2>1 DEF Stands, Made
<1> QED
  BY <1>5, <1>6, <1>7, <1>8, <1>9, <1>10, StepKeeps DEF TablesOK

\* A correction replaces a trade by another.
LEMMA CorrectKeeps == ASSUME IInv, NEW x \in Execs, NEW n \in {1, 2}, CorrectTrade(x, n)
                      PROVE  IInv'
<1>1. UNCHANGED <<signal, order, exec, pc, locals>>
  BY DEF CorrectTrade
<1>2. ledger' \in [Execs -> [rows : Nat, lots : Nat]]
      /\ \A y \in Execs : ledger'[y].rows = ledger[y].rows
  BY DEF CorrectTrade, IInv, TypeOK
<1>3. Grows
  BY <1>1, <1>2 DEF Grows
<1>4. TableTypes'
  BY <1>1, <1>2 DEF IInv, TypeOK, TableTypes
<1>5. TablesOK'
  BY <1>1, <1>2 DEF IInv, TablesOK, NotOverfilled, Attributed, BookedOnce, Unique, Existing, Made
<1> QED
  BY <1>1, <1>3, <1>4, <1>5, TableKeeps

\* A restart ends all requests and keeps all tables.
LEMMA CrashKeeps == ASSUME IInv, Crash PROVE IInv'
<1>1. UNCHANGED tables /\ \A t \in Threads : pc'[t] = "idle"
  BY DEF Crash
<1>2. LocalTypes'
  BY SimulationAssumption DEF Crash, LocalTypes
<1>3. TableTypes' /\ TablesOK'
  BY <1>1 DEF IInv, TypeOK, TableTypes, TablesOK, NotOverfilled, Attributed, BookedOnce, Unique,
              Existing, Made, tables
<1>4. \A t \in Threads : Stands(t)'
  BY <1>1 DEF Stands
<1> QED
  BY <1>2, <1>3, <1>4, TypesSplit DEF IInv, TypeOK, TableTypes, LocalTypes

-----------------------------------------------------------------------------
\* Every step of a request keeps the invariant.
LEMMA ThreadKeeps == ASSUME IInv, NEW t \in Threads, Request(t) \/ Call(t) PROVE IInv'
<1>1. CASE Call(t)
  BY <1>1, ReviewReadKeeps, CreateLookupKeeps, FillReadKeeps, SyncAgainKeeps DEF Call
<1>2. CASE Request(t)
  BY <1>2, ReviewWriteKeeps, EvaluationKeeps, RefusalKeeps, CreateInsertKeeps, FillIsolatedKeeps,
     FillCommitKeeps, FillPickKeeps, MarksKeep, SyncBookKeeps, SyncRaiseKeeps DEF Request
<1> QED
  BY <1>1, <1>2

\* The invariant is inductive.
THEOREM Inductive == Spec => []IInv
<1>1. Init => IInv
  BY SimulationAssumption
  DEF Init, IInv, TypeOK, TablesOK, NotOverfilled, Attributed, BookedOnce, Unique, Existing, Made,
      Stands
<1>2. IInv /\ [Next]_vars => IInv'
  <2> SUFFICES ASSUME IInv, [Next]_vars PROVE IInv'
    OBVIOUS
  <2>1. CASE Next
    BY <2>1, ThreadKeeps, ExpireKeeps, CancelKeeps, CorrectKeeps, CrashKeeps DEF Next
  <2>2. CASE UNCHANGED vars
    <3>1. UNCHANGED <<tables, pc, locals>>
      BY <2>2 DEF vars
    <3>2. Grows /\ TableTypes' /\ TablesOK'
      BY <3>1 DEF IInv, TypeOK, TableTypes, TablesOK, NotOverfilled, Attributed, BookedOnce,
                  Unique, Existing, Made, tables, Grows
    <3> QED
      BY <3>1, <3>2, TableKeeps
  <2> QED
    BY <2>1, <2>2
<1> QED
  BY <1>1, <1>2, PTL DEF Spec

\* Every variable keeps its type.
THEOREM TypeCorrect == Spec => []TypeOK
  BY Inductive, PTL DEF IInv

\* However fills, retries of the copy, corrections and restarts overlap, an
\* execution has at most one trade in the ledger, an isolated one none, and one
\* marked synced has it.
THEOREM AtMostOneTrade == Spec => []BookedOnce
<1>1. IInv => BookedOnce
  BY DEF IInv, TablesOK
<1> QED
  BY <1>1, Inductive, PTL

\* No interleaving of fills fills an order beyond its quantity.
THEOREM NeverOverfilled == Spec => []NotOverfilled
<1>1. IInv => NotOverfilled
  BY DEF IInv, TablesOK
<1> QED
  BY <1>1, Inductive, PTL

\* A signal becomes at most one order, whatever reviews and orders race for it.
THEOREM SignalConvertsOnce == Spec => []OneOrderPerSignal
<1>1. IInv => OneOrderPerSignal
  <2> SUFFICES ASSUME IInv, NEW s \in Signals
               PROVE  /\ Cardinality({i \in Existing : order[i].request.signal = s}) <= 1
                      /\ signal[s] = "converted"
                           => \E i \in Existing : order[i].request.signal = s
    BY DEF OneOrderPerSignal
  <2> DEFINE S == {i \in Existing : order[i].request.signal = s}
  <2>1. s # None
    BY SimulationAssumption
  <2>2. \A i, j \in S : i = j
    BY <2>1 DEF IInv, TablesOK, Unique
  <2>3. Cardinality(S) <= 1
    <3>1. CASE S = {}
      BY <3>1, FS_EmptySet
    <3>2. CASE S # {}
      <4>1. PICK i \in S : S = {i}
        BY <2>2, <3>2
      <4>2. Cardinality({i}) = 1
        BY FS_Singleton
      <4> HIDE DEF S
      <4> QED
        BY <4>1, <4>2
    <3> QED
      BY <3>1, <3>2
  <2> QED
    BY <2>3 DEF IInv, TablesOK, Unique
<1> QED
  BY <1>1, Inductive, PTL

-----------------------------------------------------------------------------
(* No fill is forgotten.  The property is not inductive: a thread about to *)
(* pick must find the very execution it has made.  It does, because without*)
(* crossing fills of its order that one sorts last.                        *)

\* The thread is copying x, or is about to take it for the one it has made.
Holds(t, x) ==
  \/ pc[t] \in {"isolate", "book", "note", "fail"} /\ work[t] = x
  \/ pc[t] = "pick" /\ job[t].intent = exec[x].intent /\ IsLast(x, exec[x].intent)

NothingLost ==
  \A x \in Made :
    (exec[x].sync = "pending" /\ crashes = 0 /\ exec[x].intent \notin crossed)
      => \E t \in Threads : Holds(t, x)

TimelineOK ==
  /\ timeline \in Seq(Execs)
  /\ \A n \in 1..Len(timeline) : timeline[n] \in Made
  /\ since \in [Threads -> Nat]
  /\ crashes \in Nat

BooksInv == IInv /\ TimelineOK /\ NothingLost

\* Where an insertion puts the new execution and the old ones.
LEMMA InsertedAt ==
  ASSUME TimelineOK, NEW x \in Execs, NEW at \in Nat, at <= Len(timeline),
         timeline' = InsertAt(timeline, at + 1, x)
  PROVE  /\ timeline' \in Seq(Execs) /\ Len(timeline') = Len(timeline) + 1
         /\ \A n \in 1..at : timeline'[n] = timeline[n]
         /\ timeline'[at + 1] = x
         /\ \A n \in (at + 2)..(Len(timeline) + 1) : timeline'[n] = timeline[n - 1]
<1> DEFINE head == SubSeq(timeline, 1, at)
           tail == SubSeq(timeline, at + 1, Len(timeline))
<1>1. timeline' = head \o <<x>> \o tail
  <2>1. (at + 1) - 1 = at
    OBVIOUS
  <2> QED
    BY <2>1 DEF InsertAt
<1>2. timeline \in Seq(Execs) /\ Len(timeline) \in Nat
  BY DEF TimelineOK
<1>3. head \in Seq(Execs) /\ Len(head) = at /\ \A n \in 1..at : head[n] = timeline[n]
  BY <1>2
<1>4. /\ tail \in Seq(Execs) /\ Len(tail) = Len(timeline) - at
      /\ \A n \in 1..(Len(timeline) - at) : tail[n] = timeline[at + n]
  BY <1>2
<1> HIDE DEF head, tail
<1> DEFINE front == head \o <<x>>
<1>5. /\ front \in Seq(Execs) /\ Len(front) = at + 1 /\ front[at + 1] = x
      /\ \A n \in 1..at : front[n] = timeline[n]
  BY <1>3
<1>6. timeline' = front \o tail
  BY <1>1
<1> HIDE DEF front
<1>7. timeline' \in Seq(Execs) /\ Len(timeline') = Len(front) + Len(tail)
  <2>1. front \in Seq(Execs) /\ tail \in Seq(Execs)
    BY <1>4, <1>5
  <2>2. front \o tail \in Seq(Execs) /\ Len(front \o tail) = Len(front) + Len(tail)
    BY <2>1, ConcatProperties, ZenonT(30)
  <2> QED
    BY <1>6, <2>2
<1>8. Len(timeline') = Len(timeline) + 1
  BY <1>2, <1>4, <1>5, <1>7
<1>9. \A n \in 1..(at + 1) : timeline'[n] = front[n]
  BY <1>4, <1>5, <1>6
<1>10. \A n \in (at + 2)..(Len(timeline) + 1) : timeline'[n] = timeline[n - 1]
  <2> SUFFICES ASSUME NEW n \in (at + 2)..(Len(timeline) + 1)
               PROVE  timeline'[n] = timeline[n - 1]
    OBVIOUS
  <2>1. timeline'[n] = tail[n - (at + 1)]
    BY <1>2, <1>4, <1>5, <1>6
  <2>2. n - (at + 1) \in 1..(Len(timeline) - at) /\ at + (n - (at + 1)) = n - 1
    BY <1>2
  <2> QED
    BY <1>4, <2>1, <2>2
<1>11. at + 1 \in 1..(at + 1) /\ \A n \in 1..at : n \in 1..(at + 1)
  OBVIOUS
<1> QED
  BY <1>5, <1>7, <1>8, <1>9, <1>10, <1>11

\* An order has one last execution.
LEMMA LastIsOne == ASSUME TimelineOK, NEW i, NEW x, NEW y, IsLast(x, i), IsLast(y, i)
                   PROVE  x = y
<1>1. PICK n \in 1..Len(timeline) :
        /\ timeline[n] = x /\ exec[x].intent = i
        /\ \A m \in (n + 1)..Len(timeline) : exec[timeline[m]].intent # i
  BY DEF IsLast
<1>2. PICK k \in 1..Len(timeline) :
        /\ timeline[k] = y /\ exec[y].intent = i
        /\ \A m \in (k + 1)..Len(timeline) : exec[timeline[m]].intent # i
  BY DEF IsLast
<1>3. Len(timeline) \in Nat
  BY DEF TimelineOK
<1>4. n = k
  BY <1>1, <1>2, <1>3
<1> QED
  BY <1>1, <1>2, <1>4

\* A step of a thread that makes no execution, and lets go of one only when it
\* has marked it, forgets none.
LEMMA NothingLostOn ==
  ASSUME TimelineOK, NothingLost, NEW t \in Threads, Still(t),
         UNCHANGED <<timeline, crossed, crashes>>, Made' = Made,
         \A x \in Made : /\ exec'[x].intent = exec[x].intent
                         /\ exec'[x].sync = "pending" => exec[x].sync = "pending",
         \A x \in Made : (exec'[x].sync = "pending" /\ Holds(t, x)) => Holds(t, x)'
  PROVE  NothingLost'
<1> SUFFICES ASSUME NEW x \in Made, exec'[x].sync = "pending", crashes = 0,
                    exec[x].intent \notin crossed
             PROVE  \E u \in Threads : Holds(u, x)'
  BY DEF NothingLost
<1>1. PICK u \in Threads : Holds(u, x)
  BY DEF NothingLost
<1>2. CASE u = t
  BY <1>1, <1>2
<1>3. CASE u # t
  <2>1. pc'[u] = pc[u] /\ job'[u] = job[u] /\ work'[u] = work[u]
    BY <1>3 DEF Still
  <2>2. CASE pc[u] = "pick" /\ job[u].intent = exec[x].intent /\ IsLast(x, exec[x].intent)
    <3>1. IsLast(x, exec[x].intent)'
      <4>1. IsLast(x, exec[x].intent) /\ exec'[x].intent = exec[x].intent
        BY <2>2
      <4> DEFINE i == exec[x].intent
      <4>2. \A n \in 1..Len(timeline) : exec'[timeline[n]].intent = exec[timeline[n]].intent
        BY DEF TimelineOK
      <4> QED
        BY <4>1, <4>2 DEF IsLast
    <3> QED
      BY <2>1, <2>2, <3>1 DEF Holds
  <2>3. CASE pc[u] \in {"isolate", "book", "note", "fail"} /\ work[u] = x
    BY <2>1, <2>3 DEF Holds
  <2> QED
    BY <1>1, <2>2, <2>3 DEF Holds
<1> QED
  BY <1>2, <1>3

\* A step that leaves executions alone.
LEMMA BooksStand ==
  ASSUME TimelineOK, NothingLost, NEW t \in Threads, Still(t),
         UNCHANGED <<exec, timeline, crossed, crashes>>, since' \in [Threads -> Nat],
         \A x \in Made : Holds(t, x) => Holds(t, x)'
  PROVE  TimelineOK' /\ NothingLost'
<1>1. Made' = Made
  BY DEF Made
<1>2. TimelineOK'
  BY <1>1 DEF TimelineOK
<1>3. NothingLost'
  BY <1>1, NothingLostOn
<1> QED
  BY <1>2, <1>3

Reading == {"idle", "review", "account", "decide", "refuse", "insert", "fill", "commit"}

\* A thread that copies nothing, and comes to no copy.
LEMMA ReadersForgetNothing ==
  ASSUME BooksInv, NEW t \in Threads,
         \/ \E s \in Signals, v \in Verdicts : ReviewRead(t, s, v)
         \/ \E r \in Requests : CreateLookup(t, r)
         \/ \E i \in Intents : FillRead(t, i)
         \/ \E x \in Execs : SyncAgain(t, x)
         \/ ReviewWrite(t) \/ CreateAccount(t) \/ CreateDecide(t) \/ CreateRefused(t)
         \/ CreateInsert(t) \/ CreateConflict(t) \/ FillIsolated(t) \/ FillRefused(t)
  PROVE  TimelineOK' /\ NothingLost'
<1>1. pc[t] \in Reading
  BY DEF ReviewRead, CreateLookup, FillRead, SyncAgain, ReviewWrite, CreateAccount, CreateDecide,
         CreateRefused, CreateInsert, CreateConflict, FillIsolated, FillRefused, Reading
<1>2. \A x \in Made : ~Holds(t, x)
  BY <1>1 DEF Holds, Reading
<1>3. UNCHANGED <<exec, timeline, crossed, crashes>>
  BY DEF ReviewRead, CreateLookup, FillRead, SyncAgain, ReviewWrite, CreateAccount, CreateDecide,
         CreateRefused, CreateInsert, CreateConflict, FillIsolated, FillRefused, tables, notes
<1>4. since' \in [Threads -> Nat]
  <2>1. \/ since' = since \/ since' = [since EXCEPT ![t] = 0]
        \/ since' = [since EXCEPT ![t] = Len(timeline)]
    <3>1. Return(t) => since' = [since EXCEPT ![t] = 0]
      BY DEF Return
    <3>2. ReviewWrite(t) \/ CreateRefused(t) \/ CreateConflict(t) \/ FillRefused(t) => Return(t)
      BY DEF ReviewWrite, CreateRefused, CreateConflict, FillRefused
    <3>3. FillIsolated(t) \/ (\E i \in Intents : FillRead(t, i))
            => since' = [since EXCEPT ![t] = Len(timeline)]
      BY DEF FillIsolated, FillRead
    <3>4. CreateAccount(t) \/ CreateDecide(t) \/ CreateInsert(t) => since' = since
      BY DEF CreateAccount, CreateDecide, CreateInsert
    <3>5. /\ (\E s \in Signals, v \in Verdicts : ReviewRead(t, s, v)) => since' = since
          /\ (\E r \in Requests : CreateLookup(t, r)) => since' = since
          /\ (\E x \in Execs : SyncAgain(t, x)) => since' = since
      BY DEF ReviewRead, CreateLookup, SyncAgain
    <3> QED
      BY <3>1, <3>2, <3>3, <3>4, <3>5
  <2>2. Len(timeline) \in Nat /\ since \in [Threads -> Nat]
    BY DEF BooksInv, TimelineOK
  <2> QED
    BY <2>1, <2>2
<1>5. Still(t)
  <2>1. Return(t) => Still(t)
    BY ReturnStands DEF BooksInv
  <2>2. ASSUME NEW s \in Signals, NEW v \in Verdicts, ReviewRead(t, s, v) PROVE Still(t)
    BY <2>2 DEF ReviewRead, Goto, Still, BooksInv, IInv, TypeOK
  <2>3. ASSUME NEW r \in Requests, CreateLookup(t, r) PROVE Still(t)
    BY <2>3 DEF CreateLookup, Goto, Still, BooksInv, IInv, TypeOK
  <2>4. ASSUME NEW i \in Intents, FillRead(t, i) PROVE Still(t)
    BY <2>4 DEF FillRead, Goto, Still, BooksInv, IInv, TypeOK
  <2>5. ASSUME NEW x \in Execs, SyncAgain(t, x) PROVE Still(t)
    BY <2>5 DEF SyncAgain, Goto, Still, BooksInv, IInv, TypeOK
  <2>6. ReviewWrite(t) \/ CreateRefused(t) \/ CreateConflict(t) \/ FillRefused(t) => Return(t)
    BY DEF ReviewWrite, CreateRefused, CreateConflict, FillRefused
  <2>7. CreateAccount(t) \/ CreateDecide(t) \/ FillIsolated(t) => Still(t)
    BY DEF CreateAccount, CreateDecide, FillIsolated, Goto, Still, BooksInv, IInv, TypeOK
  <2>8. CreateInsert(t) => Still(t)
    BY DEF CreateInsert, Goto, Still, BooksInv, IInv, TypeOK
  <2> QED
    BY <2>1, <2>2, <2>3, <2>4, <2>5, <2>6, <2>7, <2>8
<1> QED
  BY <1>2, <1>3, <1>4, <1>5, BooksStand DEF BooksInv

\* What it takes for its own is the execution it held.
LEMMA PickForgetsNothing ==
  ASSUME BooksInv, NEW t \in Threads, FillPick(t)
  PROVE  TimelineOK' /\ NothingLost'
<1>1. PICK x \in Made : IsLast(x, job[t].intent) /\ work' = [work EXCEPT ![t] = x]
  BY DEF FillPick
<1>2. /\ work'[t] = x /\ pc'[t] \in {"isolate", "book"}
      /\ UNCHANGED <<exec, timeline, crossed, crashes, since>> /\ Still(t)
  BY <1>1 DEF FillPick, Goto, Still, BooksInv, IInv, TypeOK, tables, notes
<1>3. since' \in [Threads -> Nat]
  BY <1>2 DEF BooksInv, TimelineOK
<1>4. \A y \in Made : Holds(t, y) => Holds(t, y)'
  <2> SUFFICES ASSUME NEW y \in Made, Holds(t, y) PROVE Holds(t, y)'
    OBVIOUS
  <2>1. IsLast(y, job[t].intent)
    BY DEF Holds, FillPick
  <2>2. y = x
    BY <1>1, <2>1, LastIsOne DEF BooksInv
  <2> QED
    BY <1>2, <2>2 DEF Holds
<1> QED
  BY <1>2, <1>3, <1>4, BooksStand DEF BooksInv

\* The insertion into the ledger and what raises leave the thread with its
\* execution.
LEMMA CopyForgetsNothing ==
  ASSUME BooksInv, NEW t \in Threads, SyncBook(t) \/ SyncRaise(t)
  PROVE  TimelineOK' /\ NothingLost'
<1>1. /\ pc[t] \in {"book", "note"} /\ pc'[t] \in {"note", "fail"}
      /\ UNCHANGED <<exec, timeline, crossed, crashes, since, work>> /\ Still(t)
  BY DEF SyncBook, SyncRaise, Goto, Still, BooksInv, IInv, TypeOK, tables, notes, locals
<1>2. since' \in [Threads -> Nat]
  BY <1>1 DEF BooksInv, TimelineOK
<1>3. \A y \in Made : Holds(t, y) => Holds(t, y)'
  BY <1>1 DEF Holds
<1> QED
  BY <1>1, <1>2, <1>3, BooksStand DEF BooksInv

\* A thread lets go of the execution it has marked.
LEMMA MarksForgetNothing ==
  ASSUME BooksInv, NEW t \in Threads, FillIsolate(t) \/ SyncNote(t) \/ SyncFail(t)
  PROVE  TimelineOK' /\ NothingLost'
<1> DEFINE x == work[t]
<1>1. /\ pc[t] \in {"isolate", "note", "fail"} /\ Return(t)
      /\ UNCHANGED <<timeline, crossed, crashes>>
  BY DEF FillIsolate, SyncNote, SyncFail, notes
<1>2. x \in Made /\ x \in Execs
  BY <1>1 DEF BooksInv, IInv, Stands, Made
<1>3. PICK status \in {"synced", "failed", "isolated"} : SetSync(x, status)
  BY DEF FillIsolate, SyncNote, SyncFail
<1>4. /\ exec'[x] = [intent |-> exec[x].intent, lots |-> exec[x].lots, sync |-> status]
      /\ \A y \in Execs : y # x => exec'[y] = exec[y]
  BY <1>2, <1>3 DEF SetSync, BooksInv, IInv, TypeOK
<1>5. exec'[x].intent = exec[x].intent /\ exec'[x].sync = status /\ exec'[x] # None
  <2>1. exec'[x] \in ExecRow
    BY <1>2, <1>4 DEF BooksInv, IInv, TypeOK, Made, ExecRow
  <2> QED
    BY <1>4, <2>1, SimulationAssumption
<1>6. Made' = Made
  BY <1>2, <1>4, <1>5 DEF Made
<1>7. \A y \in Made : /\ exec'[y].intent = exec[y].intent
                      /\ exec'[y].sync = "pending" => y # x /\ exec[y].sync = "pending"
  BY <1>4, <1>5 DEF Made
<1>8. \A y \in Made : Holds(t, y) => y = x
  BY <1>1 DEF Holds
<1>9. Still(t)
  BY <1>1, ReturnStands DEF BooksInv
<1>10. NothingLost'
  BY <1>1, <1>6, <1>7, <1>8, <1>9, NothingLostOn DEF BooksInv
<1>11. since' \in [Threads -> Nat]
  BY <1>1 DEF Return, BooksInv, TimelineOK
<1>12. TimelineOK'
  BY <1>1, <1>6, <1>11 DEF BooksInv, TimelineOK
<1> QED
  BY <1>10, <1>12

\* The insertion of an execution of another order leaves the last one of j last.
LEMMA LastAfterInsert ==
  ASSUME TimelineOK, NEW x \in Execs, exec[x] = None, x \notin Made,
         NEW at \in Nat, at <= Len(timeline), timeline' = InsertAt(timeline, at + 1, x),
         \A y \in Made : exec'[y].intent = exec[y].intent,
         NEW j, exec'[x].intent # j,
         NEW y \in Made, IsLast(y, j)
  PROVE  IsLast(y, j)'
<1>1. PICK n \in 1..Len(timeline) :
        /\ timeline[n] = y /\ exec[y].intent = j
        /\ \A m \in (n + 1)..Len(timeline) : exec[timeline[m]].intent # j
  BY DEF IsLast
<1>2. timeline \in Seq(Execs) /\ Len(timeline) \in Nat
  BY DEF TimelineOK
<1>3. /\ timeline' \in Seq(Execs) /\ Len(timeline') = Len(timeline) + 1
      /\ \A m \in 1..at : timeline'[m] = timeline[m]
      /\ timeline'[at + 1] = x
      /\ \A m \in (at + 2)..(Len(timeline) + 1) : timeline'[m] = timeline[m - 1]
  BY <1>2, InsertedAt
<1>4. \A m \in 1..Len(timeline) : exec'[timeline[m]].intent = exec[timeline[m]].intent
  BY DEF TimelineOK
<1> DEFINE k == IF n <= at THEN n ELSE n + 1
<1>5. k \in 1..Len(timeline') /\ timeline'[k] = y
  <2>1. CASE n <= at
    BY <1>1, <1>2, <1>3, <2>1
  <2>2. CASE n > at
    <3>1. n + 1 \in (at + 2)..(Len(timeline) + 1) /\ (n + 1) - 1 = n
      BY <1>2, <2>2
    <3> QED
      BY <1>1, <1>2, <1>3, <2>2, <3>1
  <2> QED
    BY <1>2, <2>1, <2>2
<1>6. \A m \in (k + 1)..Len(timeline') : exec'[timeline'[m]].intent # j
  <2> SUFFICES ASSUME NEW m \in (k + 1)..Len(timeline')
               PROVE  exec'[timeline'[m]].intent # j
    OBVIOUS
  <2>1. CASE m = at + 1
    BY <1>3, <2>1
  <2>2. CASE m <= at
    <3>1. m \in 1..at /\ m \in (n + 1)..Len(timeline) /\ m \in 1..Len(timeline)
      BY <1>2, <2>2
    <3>2. timeline'[m] = timeline[m]
      BY <1>3, <3>1
    <3>3. exec[timeline[m]].intent # j
      BY <1>1, <3>1
    <3>4. exec'[timeline[m]].intent = exec[timeline[m]].intent
      BY <1>4, <3>1
    <3> QED
      BY <3>2, <3>3, <3>4
  <2>3. CASE m > at + 1
    <3>1. /\ m \in (at + 2)..(Len(timeline) + 1)
          /\ m - 1 \in (n + 1)..Len(timeline) /\ m - 1 \in 1..Len(timeline)
      BY <1>2, <1>3, <2>3
    <3>2. timeline'[m] = timeline[m - 1]
      BY <1>3, <3>1
    <3>3. exec[timeline[m - 1]].intent # j
      BY <1>1, <3>1
    <3>4. exec'[timeline[m - 1]].intent = exec[timeline[m - 1]].intent
      BY <1>4, <3>1
    <3> QED
      BY <3>2, <3>3, <3>4
  <2> QED
    BY <1>2, <1>3, <2>1, <2>2, <2>3
<1>7. exec'[y].intent = j
  BY <1>1
<1> HIDE DEF k
<1> QED
  BY <1>5, <1>6, <1>7 DEF IsLast

\* The commit: unless fills of the order cross, the new execution sorts after
\* all others of the order and nobody else is about to pick one of them.
LEMMA CommitForgetsNothing ==
  ASSUME BooksInv, NEW t \in Threads, FillCommit(t)
  PROVE  TimelineOK' /\ NothingLost'
<1> DEFINE i == job[t].intent
<1>1. PICK x \in Execs, at \in since[t]..Len(timeline) :
        /\ Free(x)
        /\ exec' = [exec EXCEPT ![x] = [intent |-> i, lots |-> lots[t], sync |-> "pending"]]
        /\ timeline' = InsertAt(timeline, at + 1, x)
  BY DEF FillCommit
<1>2. /\ timeline \in Seq(Execs) /\ Len(timeline) \in Nat /\ since[t] \in Nat
      /\ at \in Nat /\ at <= Len(timeline) /\ since[t] <= at
  BY DEF BooksInv, TimelineOK
<1>3. exec[x] = None /\ x \notin Made
  BY <1>1 DEF Free, Made
<1>4. i \in Intents /\ lots[t] \in Nat
  BY SimulationAssumption DEF FillCommit, BooksInv, IInv, TypeOK, Stands
<1>5. /\ exec'[x] = [intent |-> i, lots |-> lots[t], sync |-> "pending"]
      /\ \A y \in Execs : y # x => exec'[y] = exec[y]
  BY <1>1 DEF BooksInv, IInv, TypeOK
<1>6. exec'[x].intent = i /\ exec'[x] # None
  <2>1. exec'[x] \in ExecRow
    BY <1>4, <1>5 DEF ExecRow
  <2> QED
    BY <1>5, <2>1, SimulationAssumption
<1>7. Made' = Made \cup {x} /\ \A y \in Made : y # x /\ exec'[y] = exec[y]
  BY <1>3, <1>5, <1>6 DEF Made
<1>8. /\ timeline' \in Seq(Execs) /\ Len(timeline') = Len(timeline) + 1
      /\ \A m \in 1..at : timeline'[m] = timeline[m]
      /\ timeline'[at + 1] = x
      /\ \A m \in (at + 2)..(Len(timeline) + 1) : timeline'[m] = timeline[m - 1]
  BY <1>1, <1>2, InsertedAt DEF BooksInv
<1>9. TimelineOK'
  <2>1. \A m \in 1..Len(timeline) : timeline[m] \in Made
    BY DEF BooksInv, TimelineOK
  <2>2. \A m \in 1..Len(timeline') : timeline'[m] \in Made'
    <3> SUFFICES ASSUME NEW m \in 1..Len(timeline') PROVE timeline'[m] \in Made'
      OBVIOUS
    <3>1. CASE m <= at
      <4>1. m \in 1..at /\ m \in 1..Len(timeline)
        BY <1>2, <3>1
      <4>2. timeline'[m] = timeline[m]
        BY <1>8, <4>1
      <4> QED
        BY <1>7, <2>1, <4>1, <4>2
    <3>2. CASE m = at + 1
      BY <1>7, <1>8, <3>2
    <3>3. CASE m > at + 1
      <4>1. m \in (at + 2)..(Len(timeline) + 1) /\ m - 1 \in 1..Len(timeline)
        BY <1>2, <1>8, <3>3
      <4>2. timeline'[m] = timeline[m - 1]
        BY <1>8, <4>1
      <4> QED
        BY <1>7, <2>1, <4>1, <4>2
    <3> QED
      BY <1>2, <1>8, <3>1, <3>2, <3>3
  <2>3. since' \in [Threads -> Nat] /\ crashes' \in Nat
    BY DEF FillCommit, BooksInv, TimelineOK
  <2> QED
    BY <1>8, <2>2, <2>3 DEF TimelineOK
<1>10. /\ pc[t] = "commit" /\ pc' = [pc EXCEPT ![t] = "pick"] /\ crashes' = crashes
       /\ UNCHANGED <<job, work>>
       /\ crossed \subseteq crossed'
       /\ i \notin crossed' =>
            /\ \A m \in (since[t] + 1)..Len(timeline) : exec[timeline[m]].intent # i
            /\ \A u \in Threads : ~(pc[u] = "pick" /\ job[u].intent = i)
  BY DEF FillCommit, Goto
<1>11. i \notin crossed' => Holds(t, x)'
  <2> SUFFICES ASSUME i \notin crossed' PROVE Holds(t, x)'
    OBVIOUS
  <2>1. \A m \in (at + 2)..Len(timeline') : exec'[timeline'[m]].intent # i
    <3> SUFFICES ASSUME NEW m \in (at + 2)..Len(timeline')
                 PROVE  exec'[timeline'[m]].intent # i
      OBVIOUS
    <3>1. /\ m - 1 \in (since[t] + 1)..Len(timeline) /\ m - 1 \in 1..Len(timeline)
          /\ timeline'[m] = timeline[m - 1]
      BY <1>2, <1>8
    <3>2. timeline[m - 1] \in Made
      BY <3>1 DEF BooksInv, TimelineOK
    <3>3. exec[timeline[m - 1]].intent # i
      BY <1>10, <3>1
    <3>4. exec'[timeline[m - 1]] = exec[timeline[m - 1]]
      BY <1>7, <3>2
    <3> QED
      BY <3>1, <3>3, <3>4
  <2>2. at + 1 \in 1..Len(timeline') /\ (at + 1) + 1 = at + 2
    BY <1>2, <1>8
  <2>3. IsLast(x, i)'
    <3>1. job'[t].intent = i
      BY <1>10
    <3>2. \E n \in 1..Len(timeline') :
            /\ timeline'[n] = x /\ exec'[x].intent = i
            /\ \A m \in (n + 1)..Len(timeline') : exec'[timeline'[m]].intent # i
      BY <1>6, <1>8, <2>1, <2>2
    <3> QED
      BY <3>1, <3>2 DEF IsLast
  <2>4. pc'[t] = "pick" /\ job'[t].intent = i
    BY <1>10 DEF BooksInv, IInv, TypeOK
  <2> QED
    BY <1>6, <2>3, <2>4 DEF Holds
<1>12. ASSUME NEW y \in Made, exec[y].sync = "pending", crashes = 0, exec[y].intent \notin crossed'
       PROVE  \E u \in Threads : Holds(u, y)'
  <2>1. PICK u \in Threads : Holds(u, y)
    BY <1>10, <1>12 DEF BooksInv, NothingLost
  <2>2. u # t /\ pc'[u] = pc[u] /\ job'[u] = job[u] /\ work'[u] = work[u]
    BY <1>10, <2>1 DEF Holds, BooksInv, IInv, TypeOK
  <2>3. CASE pc[u] \in {"isolate", "book", "note", "fail"} /\ work[u] = y
    BY <2>2, <2>3 DEF Holds
  <2>4. CASE pc[u] = "pick" /\ job[u].intent = exec[y].intent /\ IsLast(y, exec[y].intent)
    <3> DEFINE j == exec[y].intent
    <3>1. j # i /\ exec'[y].intent = j
      BY <1>7, <1>10, <1>12, <2>4
    <3>2. \A j2 : (exec'[x].intent # j2 /\ IsLast(y, j2)) => IsLast(y, j2)'
      BY <1>1, <1>2, <1>3, <1>7, LastAfterInsert DEF BooksInv
    <3> QED
      BY <1>6, <2>2, <2>4, <3>1, <3>2 DEF Holds
  <2> QED
    BY <2>1, <2>3, <2>4 DEF Holds
<1>13. NothingLost'
  <2> SUFFICES ASSUME NEW y \in Made', exec'[y].sync = "pending", crashes = 0,
                      exec'[y].intent \notin crossed'
               PROVE  \E u \in Threads : Holds(u, y)'
    BY <1>10 DEF NothingLost
  <2>1. CASE y = x
    BY <1>6, <1>11, <2>1
  <2>2. CASE y \in Made
    BY <1>7, <1>12, <2>2
  <2> QED
    BY <1>7, <2>1, <2>2
<1> QED
  BY <1>9, <1>13

\* Steps of no thread: the tables change beside the executions.
LEMMA OthersForgetNothing ==
  ASSUME TimelineOK, NothingLost,
         UNCHANGED <<exec, timeline, pc, locals, crossed, crashes>>
  PROVE  TimelineOK' /\ NothingLost'
<1>1. Made' = Made /\ UNCHANGED <<job, work, since>>
  BY DEF Made, locals
<1>2. TimelineOK'
  BY <1>1 DEF TimelineOK
<1>3. NothingLost'
  BY <1>1 DEF NothingLost, Holds, IsLast
<1> QED
  BY <1>2, <1>3

\* After a restart nothing is promised any more.
LEMMA CrashForgives == ASSUME TimelineOK, Crash PROVE TimelineOK' /\ NothingLost'
<1>1. crashes' \in Nat /\ crashes' # 0
  BY DEF TimelineOK, Crash
<1>2. timeline' = timeline /\ Made' = Made /\ since' \in [Threads -> Nat]
  BY DEF Crash, Made, tables
<1>3. TimelineOK'
  BY <1>1, <1>2 DEF TimelineOK
<1>4. NothingLost'
  BY <1>1 DEF NothingLost
<1> QED
  BY <1>3, <1>4

\* Every step keeps it.
LEMMA BooksNext == ASSUME BooksInv, IInv', [Next]_vars PROVE BooksInv'
<1>1. TimelineOK /\ NothingLost
  BY DEF BooksInv
<1>2. ASSUME NEW t \in Threads, Request(t) \/ Call(t) PROVE TimelineOK' /\ NothingLost'
  <2>1. CASE Call(t)
    BY <2>1, ReadersForgetNothing DEF Call
  <2>2. CASE Request(t)
    BY <2>2, ReadersForgetNothing, CommitForgetsNothing, PickForgetsNothing, CopyForgetsNothing,
       MarksForgetNothing DEF Request
  <2> QED
    BY <1>2, <2>1, <2>2
<1>3. ASSUME NEW s \in Signals, ExpireSignal(s) PROVE TimelineOK' /\ NothingLost'
  BY <1>1, <1>3, OthersForgetNothing DEF ExpireSignal, notes
<1>4. ASSUME NEW i \in Intents, CancelOrder(i) PROVE TimelineOK' /\ NothingLost'
  BY <1>1, <1>4, OthersForgetNothing DEF CancelOrder, notes
<1>5. ASSUME NEW x \in Execs, NEW n \in {1, 2}, CorrectTrade(x, n)
      PROVE  TimelineOK' /\ NothingLost'
  BY <1>1, <1>5, OthersForgetNothing DEF CorrectTrade
<1>6. Crash => TimelineOK' /\ NothingLost'
  BY <1>1, CrashForgives
<1>7. UNCHANGED vars => TimelineOK' /\ NothingLost'
  BY <1>1, OthersForgetNothing DEF vars, tables, notes
<1> QED
  BY <1>2, <1>3, <1>4, <1>5, <1>6, <1>7 DEF Next, BooksInv

\* Nothing has been made yet.
LEMMA BooksInit == Init => TimelineOK /\ NothingLost
  BY DEF Init, TimelineOK, NothingLost, Made

\* The execution a thread takes for the one it has made is that one, unless
\* another fill of the order was under way (fill_order reads the order again
\* and takes the last of its executions): so without a restart every pending
\* execution has somebody to copy it.
THEOREM EveryFillHasACopier == Spec => []NoFillForgotten
<1>1. BooksInv => NoFillForgotten
  BY DEF BooksInv, NothingLost, Holds, NoFillForgotten
<1>2. IInv /\ TimelineOK /\ NothingLost /\ IInv' /\ [Next]_vars => TimelineOK' /\ NothingLost'
  BY BooksNext DEF BooksInv
<1>3. Spec => [](TimelineOK /\ NothingLost)
  BY Inductive, BooksInit, <1>2, PTL DEF Spec
<1> QED
  BY <1>1, <1>3, Inductive, PTL DEF BooksInv

-----------------------------------------------------------------------------
(* The position, the filled quantities and the remainders as sums over all *)
(* executions and all orders.                                              *)

\* What each execution and each order contributes to the three sums.
Weigh(x, a)  == IF x \in MadeFor(Account(a)) THEN SignedLots(x) ELSE 0
Part(x, i)   == IF x \in MadeFor({i}) THEN exec[x].lots ELSE 0
Due(i, a, d) == IF i \in OpenOn(a, d) THEN RemainderOf(i) ELSE 0

\* The sum over some of a set is a sum over all of it.
LEMMA SumMasked ==
  ASSUME NEW S, IsFiniteSet(S), NEW T \in SUBSET S, NEW f, DOMAIN f = T, \A x \in T : f[x] \in Int,
         NEW k, \A x \in S : k[x] = IF x \in T THEN f[x] ELSE 0
  PROVE  SumFunction(f) = SumFunctionOnSet(k, S) /\ SumFunctionOnSet(k, S) \in Int
<1>1. SumFunction(f) = SumFunctionOnSet(f, T)
  BY DEF SumFunction, FoldFunction, SumFunctionOnSet
<1>2. SumFunctionOnSet(f, T) = SumFunctionOnSet(k, S)
  BY SumFilter
<1>3. \A x \in S : k[x] \in Int
  OBVIOUS
<1> QED
  BY <1>1, <1>2, <1>3, SumType

\* The sums are over finite sets.
LEMMA ExecsFinite == IsFiniteSet(Execs) /\ IsFiniteSet(Intents) /\ Limit \in Nat
<1>1. MaxExecs \in Nat /\ IsFiniteSet(Intents) /\ Limit \in Nat
  BY SimulationAssumption
<1> QED
  BY <1>1, FS_Interval DEF Execs

\* The rows of orders and executions have their types, and executions their order.
LEMMA RowsKnown ==
  ASSUME IInv
  PROVE  /\ \A i \in Existing : /\ i \in Intents /\ order[i].request \in Requests
                                /\ order[i].request.lots \in Nat /\ order[i].filled \in Nat
                                /\ order[i].filled <= order[i].request.lots
                                /\ order[i].request.side \in Sides
                                /\ order[i].request.isolated \in BOOLEAN
         /\ \A x \in Made : x \in Execs /\ exec[x].lots \in Nat /\ exec[x].intent \in Existing
<1>1. ASSUME NEW i \in Existing
      PROVE  /\ i \in Intents /\ order[i].request \in Requests /\ order[i].filled \in Nat
             /\ order[i].filled <= order[i].request.lots
  <2>1. order[i] \in OrderRow /\ i \in Intents
    BY DEF IInv, TypeOK, Existing
  <2> QED
    BY <2>1 DEF OrderRow, IInv, TablesOK, NotOverfilled
<1>2. ASSUME NEW i \in Existing
      PROVE  /\ order[i].request.lots \in Nat /\ order[i].request.side \in Sides
             /\ order[i].request.isolated \in BOOLEAN
  BY <1>1, SimulationAssumption
<1>3. ASSUME NEW x \in Made PROVE x \in Execs /\ exec[x].lots \in Nat /\ exec[x].intent \in Existing
  <2>1. x \in Execs /\ exec[x] \in ExecRow
    BY DEF IInv, TypeOK, Made
  <2> QED
    BY <2>1 DEF ExecRow, IInv, TablesOK, Attributed, Existing
<1> QED
  BY <1>1, <1>2, <1>3

\* What is summed are numbers, before a step ...
LEMMA SharesAreNumbers ==
  ASSUME IInv
  PROVE  /\ \A x \in Execs, a \in BOOLEAN : Weigh(x, a) \in Int
         /\ \A x \in Execs, i \in Intents : Part(x, i) \in Nat
         /\ \A i \in Intents, a \in BOOLEAN, d \in Sides : Due(i, a, d) \in Nat
<1>1. \A x \in Made : exec[x].lots \in Nat /\ SignedLots(x) \in Int
  BY RowsKnown DEF SignedLots
<1>2. \A i \in Existing : RemainderOf(i) \in Nat
  BY RowsKnown DEF RemainderOf
<1> QED
  BY <1>1, <1>2 DEF Weigh, Part, Due, MadeFor, OpenOn, Open

\* ... and after it.
LEMMA SharesStayNumbers ==
  ASSUME IInv'
  PROVE  /\ \A x \in Execs, a \in BOOLEAN : Weigh(x, a)' \in Int
         /\ \A x \in Execs, i \in Intents : Part(x, i)' \in Nat
         /\ \A i \in Intents, a \in BOOLEAN, d \in Sides : Due(i, a, d)' \in Nat
<1>1. ASSUME NEW i \in Existing' PROVE RemainderOf(i)' \in Nat
  <2>1. order'[i] \in OrderRow
    BY DEF IInv, TypeOK, Existing
  <2>2. order'[i].filled <= order'[i].request.lots
    BY DEF IInv, TablesOK, NotOverfilled
  <2>3. order'[i].request \in Requests /\ order'[i].filled \in Nat
    BY <2>1 DEF OrderRow
  <2>4. PICK m \in Nat, n \in Nat : m = order'[i].request.lots /\ n = order'[i].filled /\ n <= m
    BY <2>2, <2>3, SimulationAssumption
  <2>5. m - n \in Nat
    BY <2>4
  <2> QED
    BY <2>4, <2>5 DEF RemainderOf
<1>2. ASSUME NEW x \in Made' PROVE exec'[x].lots \in Nat /\ SignedLots(x)' \in Int
  <2>1. exec'[x] \in ExecRow
    BY DEF IInv, TypeOK, Made
  <2>2. PICK n \in Nat : n = exec'[x].lots
    BY <2>1 DEF ExecRow
  <2> QED
    BY <2>2 DEF SignedLots
<1> QED
  BY <1>1, <1>2 DEF Weigh, Part, Due, MadeFor, OpenOn, Open

\* The three sums of the model are sums of shares, before a step ...
LEMMA SumsNow ==
  ASSUME IInv
  PROVE  /\ \A a \in BOOLEAN : /\ Position(a) = SumFunctionOnSet([x \in Execs |-> Weigh(x, a)], Execs)
                               /\ Position(a) \in Int
         /\ \A i \in Intents : /\ Filled(i) = SumFunctionOnSet([x \in Execs |-> Part(x, i)], Execs)
                               /\ Filled(i) \in Int
         /\ \A a \in BOOLEAN, d \in Sides :
              /\ Remaining(OpenOn(a, d)) = SumFunctionOnSet([i \in Intents |-> Due(i, a, d)], Intents)
              /\ Remaining(OpenOn(a, d)) \in Int
<1>1. ASSUME NEW a \in BOOLEAN
      PROVE  /\ Position(a) = SumFunctionOnSet([x \in Execs |-> Weigh(x, a)], Execs)
             /\ Position(a) \in Int
  <2> DEFINE T == MadeFor(Account(a))
             f == [x \in T |-> SignedLots(x)]
             k == [x \in Execs |-> Weigh(x, a)]
  <2>1. T \in SUBSET Execs
    BY DEF MadeFor, Made
  <2>2. \A x \in Execs : k[x] = IF x \in T THEN f[x] ELSE 0
    BY DEF Weigh
  <2>3. \A x \in T : f[x] \in Int
    BY <2>1, SharesAreNumbers DEF Weigh
  <2>4. DOMAIN f = T /\ Position(a) = SumFunction(f)
    BY DEF Position, PositionOf
  <2> HIDE DEF T, f, k
  <2> QED
    BY <2>1, <2>2, <2>3, <2>4, ExecsFinite, SumMasked DEF k
<1>2. ASSUME NEW i \in Intents
      PROVE  /\ Filled(i) = SumFunctionOnSet([x \in Execs |-> Part(x, i)], Execs)
             /\ Filled(i) \in Int
  <2> DEFINE T == MadeFor({i})
             f == [x \in T |-> exec[x].lots]
             k == [x \in Execs |-> Part(x, i)]
  <2>1. T \in SUBSET Execs
    BY DEF MadeFor, Made
  <2>2. \A x \in Execs : k[x] = IF x \in T THEN f[x] ELSE 0
    BY DEF Part
  <2>3. \A x \in T : f[x] \in Int
    BY <2>1, SharesAreNumbers DEF Part
  <2>4. DOMAIN f = T /\ Filled(i) = SumFunction(f)
    BY DEF Filled
  <2> HIDE DEF T, f, k
  <2> QED
    BY <2>1, <2>2, <2>3, <2>4, ExecsFinite, SumMasked DEF k
<1>3. ASSUME NEW a \in BOOLEAN, NEW d \in Sides
      PROVE  /\ Remaining(OpenOn(a, d)) = SumFunctionOnSet([i \in Intents |-> Due(i, a, d)], Intents)
             /\ Remaining(OpenOn(a, d)) \in Int
  <2> DEFINE T == OpenOn(a, d)
             f == [i \in T |-> RemainderOf(i)]
             k == [i \in Intents |-> Due(i, a, d)]
  <2>1. T \in SUBSET Intents
    BY DEF OpenOn, Open, Existing
  <2>2. \A x \in Intents : k[x] = IF x \in T THEN f[x] ELSE 0
    BY DEF Due
  <2>3. \A x \in T : f[x] \in Int
    BY <2>1, SharesAreNumbers DEF Due
  <2>4. DOMAIN f = T /\ Remaining(T) = SumFunction(f)
    BY DEF Remaining
  <2> HIDE DEF T, f, k
  <2>5. Remaining(T) = SumFunctionOnSet(k, Intents) /\ Remaining(T) \in Int
    BY <2>1, <2>2, <2>3, <2>4, ExecsFinite, SumMasked
  <2> QED
    BY <2>5 DEF k, T
<1> QED
  BY <1>1, <1>2, <1>3

\* So is the position of any orders.
LEMMA PositionsAreNumbers ==
  ASSUME IInv, NEW S \in SUBSET Existing
  PROVE  PositionOf(S) \in Int
<1> DEFINE T == MadeFor(S)
           f == [x \in T |-> SignedLots(x)]
           k == [x \in Execs |-> IF x \in T THEN SignedLots(x) ELSE 0]
<1>1. T \in SUBSET Execs
  BY DEF MadeFor, Made
<1>2. \A x \in T : f[x] \in Int
  <2>1. \A x \in Made : SignedLots(x) \in Int
    BY RowsKnown DEF SignedLots
  <2> QED
    BY <2>1 DEF MadeFor
<1>3. \A x \in Execs : k[x] = IF x \in T THEN f[x] ELSE 0
  OBVIOUS
<1>4. DOMAIN f = T /\ PositionOf(S) = SumFunction(f)
  BY DEF PositionOf
<1> HIDE DEF T, f, k
<1> QED
  BY <1>1, <1>2, <1>3, <1>4, ExecsFinite, SumMasked

\* ... and after it.
LEMMA SumsThen ==
  ASSUME IInv'
  PROVE  /\ \A a \in BOOLEAN : /\ Position(a)' = SumFunctionOnSet([x \in Execs |-> Weigh(x, a)'], Execs)
                               /\ Position(a)' \in Int
         /\ \A i \in Intents : /\ Filled(i)' = SumFunctionOnSet([x \in Execs |-> Part(x, i)'], Execs)
                               /\ Filled(i)' \in Int
         /\ \A a \in BOOLEAN, d \in Sides :
              /\ Remaining(OpenOn(a, d))' = SumFunctionOnSet([i \in Intents |-> Due(i, a, d)'], Intents)
              /\ Remaining(OpenOn(a, d))' \in Int
<1>1. ASSUME NEW a \in BOOLEAN
      PROVE  /\ Position(a)' = SumFunctionOnSet([x \in Execs |-> Weigh(x, a)'], Execs)
             /\ Position(a)' \in Int
  <2> DEFINE T == MadeFor(Account(a))'
             f == [x \in T |-> SignedLots(x)']
             k == [x \in Execs |-> Weigh(x, a)']
  <2>1. T \in SUBSET Execs
    BY DEF MadeFor, Made
  <2>2. \A x \in Execs : k[x] = IF x \in T THEN f[x] ELSE 0
    BY DEF Weigh
  <2>3. \A x \in T : f[x] \in Int
    BY <2>1, SharesStayNumbers DEF Weigh
  <2>4. DOMAIN f = T /\ Position(a)' = SumFunction(f)
    BY DEF Position, PositionOf
  <2> HIDE DEF T, f, k
  <2> QED
    BY <2>1, <2>2, <2>3, <2>4, ExecsFinite, SumMasked DEF k
<1>2. ASSUME NEW i \in Intents
      PROVE  /\ Filled(i)' = SumFunctionOnSet([x \in Execs |-> Part(x, i)'], Execs)
             /\ Filled(i)' \in Int
  <2> DEFINE T == MadeFor({i})'
             f == [x \in T |-> exec'[x].lots]
             k == [x \in Execs |-> Part(x, i)']
  <2>1. T \in SUBSET Execs
    BY DEF MadeFor, Made
  <2>2. \A x \in Execs : k[x] = IF x \in T THEN f[x] ELSE 0
    BY DEF Part
  <2>3. \A x \in T : f[x] \in Int
    BY <2>1, SharesStayNumbers DEF Part
  <2>4. DOMAIN f = T /\ Filled(i)' = SumFunction(f)
    BY DEF Filled
  <2> HIDE DEF T, f, k
  <2> QED
    BY <2>1, <2>2, <2>3, <2>4, ExecsFinite, SumMasked DEF k
<1>3. ASSUME NEW a \in BOOLEAN, NEW d \in Sides
      PROVE  /\ Remaining(OpenOn(a, d))' = SumFunctionOnSet([i \in Intents |-> Due(i, a, d)'], Intents)
             /\ Remaining(OpenOn(a, d))' \in Int
  <2> DEFINE T == OpenOn(a, d)'
             f == [i \in T |-> RemainderOf(i)']
             k == [i \in Intents |-> Due(i, a, d)']
  <2>1. T \in SUBSET Intents
    BY DEF OpenOn, Open, Existing
  <2>2. \A x \in Intents : k[x] = IF x \in T THEN f[x] ELSE 0
    BY DEF Due
  <2>3. \A x \in T : f[x] \in Int
    BY <2>1, SharesStayNumbers DEF Due
  <2>4. DOMAIN f = T /\ Remaining(OpenOn(a, d))' = SumFunction(f)
    BY DEF Remaining
  <2> HIDE DEF T, f, k
  <2> QED
    BY <2>1, <2>2, <2>3, <2>4, ExecsFinite, SumMasked DEF k
<1> QED
  BY <1>1, <1>2, <1>3

\* The position, the filled quantity and the remainders stay or move with the
\* one execution or order that does.
LEMMA PositionMoves ==
  ASSUME IInv, IInv', NEW a \in BOOLEAN
  PROVE  /\ (\A x \in Execs : Weigh(x, a)' = Weigh(x, a)) => Position(a)' = Position(a)
         /\ \A x \in Execs :
              (\A y \in Execs \ {x} : Weigh(y, a)' = Weigh(y, a))
                => Position(a)' = Position(a) + Weigh(x, a)' - Weigh(x, a)
<1> DEFINE f == [x \in Execs |-> Weigh(x, a)]
           k == [x \in Execs |-> Weigh(x, a)']
<1>1. /\ \A x \in Execs : f[x] = Weigh(x, a) /\ f[x] \in Int
      /\ \A x \in Execs : k[x] = Weigh(x, a)' /\ k[x] \in Int
  BY SharesAreNumbers, SharesStayNumbers
<1>2. Position(a) = SumFunctionOnSet(f, Execs) /\ Position(a)' = SumFunctionOnSet(k, Execs)
  BY SumsNow, SumsThen
<1> HIDE DEF f, k
<1>3. ASSUME \A x \in Execs : Weigh(x, a)' = Weigh(x, a) PROVE Position(a)' = Position(a)
  BY <1>1, <1>2, <1>3, ExecsFinite, SumSame
<1>4. ASSUME NEW x \in Execs, \A y \in Execs \ {x} : Weigh(y, a)' = Weigh(y, a)
      PROVE  Position(a)' = Position(a) + Weigh(x, a)' - Weigh(x, a)
  BY <1>1, <1>2, <1>4, ExecsFinite, SumChange
<1> QED
  BY <1>3, <1>4

\* So with the filled quantity of an order ...
LEMMA FilledMoves ==
  ASSUME IInv, IInv', NEW i \in Intents
  PROVE  /\ (\A x \in Execs : Part(x, i)' = Part(x, i)) => Filled(i)' = Filled(i)
         /\ \A x \in Execs :
              (\A y \in Execs \ {x} : Part(y, i)' = Part(y, i))
                => Filled(i)' = Filled(i) + Part(x, i)' - Part(x, i)
<1> DEFINE f == [x \in Execs |-> Part(x, i)]
           k == [x \in Execs |-> Part(x, i)']
<1>1. /\ \A x \in Execs : f[x] = Part(x, i) /\ f[x] \in Int
      /\ \A x \in Execs : k[x] = Part(x, i)' /\ k[x] \in Int
  BY SharesAreNumbers, SharesStayNumbers
<1>2. Filled(i) = SumFunctionOnSet(f, Execs) /\ Filled(i)' = SumFunctionOnSet(k, Execs)
  BY SumsNow, SumsThen
<1> HIDE DEF f, k
<1>3. ASSUME \A x \in Execs : Part(x, i)' = Part(x, i) PROVE Filled(i)' = Filled(i)
  BY <1>1, <1>2, <1>3, ExecsFinite, SumSame
<1>4. ASSUME NEW x \in Execs, \A y \in Execs \ {x} : Part(y, i)' = Part(y, i)
      PROVE  Filled(i)' = Filled(i) + Part(x, i)' - Part(x, i)
  BY <1>1, <1>2, <1>4, ExecsFinite, SumChange
<1> QED
  BY <1>3, <1>4

\* ... and with what is due to one side of an account.
LEMMA RemainingMoves ==
  ASSUME IInv, IInv', NEW a \in BOOLEAN, NEW d \in Sides
  PROVE  /\ (\A i \in Intents : Due(i, a, d)' = Due(i, a, d))
              => Remaining(OpenOn(a, d))' = Remaining(OpenOn(a, d))
         /\ \A i \in Intents :
              (\A j \in Intents \ {i} : Due(j, a, d)' = Due(j, a, d))
                => Remaining(OpenOn(a, d))' = Remaining(OpenOn(a, d)) + Due(i, a, d)' - Due(i, a, d)
<1> DEFINE f == [i \in Intents |-> Due(i, a, d)]
           k == [i \in Intents |-> Due(i, a, d)']
<1>1. /\ \A i \in Intents : f[i] = Due(i, a, d) /\ f[i] \in Int
      /\ \A i \in Intents : k[i] = Due(i, a, d)' /\ k[i] \in Int
  BY SharesAreNumbers, SharesStayNumbers
<1>2. /\ Remaining(OpenOn(a, d)) = SumFunctionOnSet(f, Intents)
      /\ Remaining(OpenOn(a, d))' = SumFunctionOnSet(k, Intents)
  BY SumsNow, SumsThen
<1> HIDE DEF f, k
<1>3. ASSUME \A i \in Intents : Due(i, a, d)' = Due(i, a, d)
      PROVE  Remaining(OpenOn(a, d))' = Remaining(OpenOn(a, d))
  BY <1>1, <1>2, <1>3, ExecsFinite, SumSame
<1>4. ASSUME NEW i \in Intents, \A j \in Intents \ {i} : Due(j, a, d)' = Due(j, a, d)
      PROVE  Remaining(OpenOn(a, d))' = Remaining(OpenOn(a, d)) + Due(i, a, d)' - Due(i, a, d)
  BY <1>1, <1>2, <1>4, ExecsFinite, SumChange
<1> QED
  BY <1>3, <1>4

-----------------------------------------------------------------------------
(* What the steps do to the three sums.                                    *)

\* The rows that a step leaves alone contribute what they did.
SameShares ==
  /\ \A a \in BOOLEAN : Position(a)' = Position(a)
  /\ \A i \in Intents : Filled(i)' = Filled(i)
  /\ \A a \in BOOLEAN, d \in Sides : Remaining(OpenOn(a, d))' = Remaining(OpenOn(a, d))

\* A step that touches neither orders nor the lots of executions keeps the sums.
LEMMA QuietKeeps ==
  ASSUME IInv, IInv', UNCHANGED order, Made' = Made,
         \A x \in Made : exec'[x].intent = exec[x].intent /\ exec'[x].lots = exec[x].lots
  PROVE  SameShares
<1>1. Existing' = Existing /\ Open' = Open /\ (\A a \in BOOLEAN : Account(a)' = Account(a))
  BY DEF Existing, Open, Account
<1>2. \A a \in BOOLEAN, d \in Sides : OpenOn(a, d)' = OpenOn(a, d)
  BY <1>1 DEF OpenOn
<1>3. \A x \in Execs, a \in BOOLEAN : Weigh(x, a)' = Weigh(x, a)
  BY <1>1 DEF Weigh, MadeFor, SignedLots
<1>4. \A x \in Execs, i \in Intents : Part(x, i)' = Part(x, i)
  BY DEF Part, MadeFor
<1>5. \A i \in Intents, a \in BOOLEAN, d \in Sides : Due(i, a, d)' = Due(i, a, d)
  BY <1>2 DEF Due, RemainderOf
<1> QED
  BY <1>3, <1>4, <1>5, PositionMoves, FilledMoves, RemainingMoves DEF SameShares

\* A cancelled order has nothing due.
LEMMA CancelEffect ==
  ASSUME IInv, IInv', NEW i \in Intents, CancelOrder(i)
  PROVE  /\ Existing' = Existing
         /\ \A j \in Existing : /\ order'[j].request = order[j].request
                                /\ order'[j].filled = order[j].filled
                                /\ order'[j].status \in {order[j].status, "cancelled"}
         /\ \A a \in BOOLEAN : Position(a)' = Position(a)
         /\ \A j \in Intents : Filled(j)' = Filled(j)
         /\ \A a \in BOOLEAN, d \in Sides : Remaining(OpenOn(a, d))' <= Remaining(OpenOn(a, d))
<1>1. i \in Existing /\ order[i] # None /\ UNCHANGED exec
  BY DEF CancelOrder, Open, Existing
<1>2. /\ order'[i] = [request |-> order[i].request, status |-> "cancelled",
                      filled |-> order[i].filled, value |-> order[i].value]
      /\ \A j \in Intents \ {i} : order'[j] = order[j]
  BY DEF CancelOrder, IInv, TypeOK
<1>3. order'[i] # None
  <2>1. order[i] \in OrderRow
    BY <1>1 DEF IInv, TypeOK
  <2>2. order'[i] \in OrderRow
    BY <1>2, <2>1 DEF OrderRow
  <2> QED
    BY <2>2, SimulationAssumption
<1>4. Existing' = Existing
  BY <1>1, <1>2, <1>3 DEF Existing
<1>5. /\ \A j \in Existing : /\ order'[j].request = order[j].request
                             /\ order'[j].filled = order[j].filled
                             /\ order'[j].status \in {order[j].status, "cancelled"}
      /\ order'[i].status = "cancelled"
  BY <1>1, <1>2 DEF Existing
<1>6. /\ \A a \in BOOLEAN : Account(a)' = Account(a)
      /\ Made' = Made /\ \A x \in Made : exec[x].intent \in Existing
  BY <1>1, <1>4, <1>5, RowsKnown DEF Account, Made
<1>7. \A a \in BOOLEAN : Position(a)' = Position(a)
  <2>1. \A x \in Execs, a \in BOOLEAN : Weigh(x, a)' = Weigh(x, a)
    BY <1>1, <1>5, <1>6 DEF Weigh, MadeFor, SignedLots
  <2> QED
    BY <2>1, PositionMoves
<1>8. \A j \in Intents : Filled(j)' = Filled(j)
  <2>1. \A x \in Execs, j \in Intents : Part(x, j)' = Part(x, j)
    BY <1>1, <1>6 DEF Part, MadeFor
  <2> QED
    BY <2>1, FilledMoves
<1>9. ASSUME NEW a \in BOOLEAN, NEW d \in Sides
      PROVE  Remaining(OpenOn(a, d))' <= Remaining(OpenOn(a, d))
  <2>1. \A j \in Intents \ {i} : j \in OpenOn(a, d)' <=> j \in OpenOn(a, d)
    BY <1>2, <1>4, <1>6 DEF OpenOn, Open, Existing
  <2>2. \A j \in Intents \ {i} : Due(j, a, d)' = Due(j, a, d)
    BY <1>2, <2>1 DEF Due, RemainderOf
  <2>3. i \notin OpenOn(a, d)'
    BY <1>5 DEF OpenOn, Open
  <2>4. Due(i, a, d)' = 0 /\ Due(i, a, d) \in Nat
    BY <2>3, SharesAreNumbers DEF Due
  <2>5. Remaining(OpenOn(a, d))' = Remaining(OpenOn(a, d)) + Due(i, a, d)' - Due(i, a, d)
    BY <2>2, RemainingMoves
  <2>6. Remaining(OpenOn(a, d)) \in Int
    BY SumsNow
  <2> QED
    BY <2>4, <2>5, <2>6
<1> QED
  BY <1>4, <1>5, <1>7, <1>8, <1>9

\* A new order is due in full, and nothing else changes.
LEMMA InsertEffect ==
  ASSUME IInv, IInv', NEW t \in Threads, CreateInsert(t), NEW r, r = job[t]
  PROVE  /\ r \in Requests /\ r.intent \in Intents /\ Existing' = Existing \cup {r.intent}
         /\ r.intent \notin Existing
         /\ order'[r.intent] = [request |-> r, status |-> "pending", filled |-> 0, value |-> 0]
         /\ \A j \in Existing : order'[j] = order[j]
         /\ \A a \in BOOLEAN : Position(a)' = Position(a)
         /\ \A j \in Intents : Filled(j)' = Filled(j)
         /\ Filled(r.intent)' = 0
         /\ \A a \in BOOLEAN, d \in Sides :
              Remaining(OpenOn(a, d))' =
                IF a = r.isolated /\ d = r.side THEN Remaining(OpenOn(a, d)) + r.lots
                ELSE Remaining(OpenOn(a, d))
<1> DEFINE new == [request |-> r, status |-> "pending", filled |-> 0, value |-> 0]
<1>1. r \in Requests
  BY DEF CreateInsert, IInv, TypeOK, Stands
<1>2. r.intent \in Intents /\ r.lots \in Nat /\ new \in OrderRow
  BY <1>1, SimulationAssumption DEF OrderRow
<1>3. new # None
  BY <1>2, SimulationAssumption
<1>4. order[r.intent] = None /\ order' = [order EXCEPT ![r.intent] = new] /\ UNCHANGED exec
  BY DEF CreateInsert, Insertable
<1>5. order'[r.intent] = new /\ \A j \in Intents : j # r.intent => order'[j] = order[j]
  BY <1>2, <1>4 DEF IInv, TypeOK
<1>6. Existing' = Existing \cup {r.intent} /\ r.intent \notin Existing
  BY <1>2, <1>3, <1>4, <1>5 DEF Existing
<1>7. \A j \in Existing : order'[j] = order[j]
  BY <1>5, <1>6 DEF Existing
<1>8. Made' = Made /\ \A x \in Made : exec[x].intent \in Existing
  BY <1>4, RowsKnown DEF Made
<1> HIDE DEF new
<1>9. \A a \in BOOLEAN : Position(a)' = Position(a)
  <2>1. \A x \in Made, a \in BOOLEAN : exec[x].intent \in Account(a)' <=> exec[x].intent \in Account(a)
    BY <1>6, <1>7, <1>8 DEF Account
  <2>2. \A x \in Made : SignedLots(x)' = SignedLots(x)
    BY <1>4, <1>7, <1>8 DEF SignedLots
  <2>3. \A x \in Execs, a \in BOOLEAN : Weigh(x, a)' = Weigh(x, a)
    BY <1>4, <1>8, <2>1, <2>2 DEF Weigh, MadeFor
  <2> QED
    BY <2>3, PositionMoves
<1>10. \A j \in Intents : Filled(j)' = Filled(j)
  <2>1. \A x \in Execs, j \in Intents : Part(x, j)' = Part(x, j)
    BY <1>4, <1>8 DEF Part, MadeFor
  <2> QED
    BY <2>1, FilledMoves
<1>11. Filled(r.intent)' = 0
  <2> DEFINE k == [x \in Execs |-> Part(x, r.intent)]
  <2>1. \A x \in Execs : k[x] = 0
    BY <1>6, <1>8 DEF Part, MadeFor
  <2>2. Filled(r.intent) = SumFunctionOnSet(k, Execs)
    BY <1>2, SumsNow
  <2> HIDE DEF k
  <2> QED
    BY <1>2, <1>10, <2>1, <2>2, ExecsFinite, SumZero
<1>12. ASSUME NEW a \in BOOLEAN, NEW d \in Sides
       PROVE  Remaining(OpenOn(a, d))' =
                IF a = r.isolated /\ d = r.side THEN Remaining(OpenOn(a, d)) + r.lots
                ELSE Remaining(OpenOn(a, d))
  <2>1. \A j \in Intents \ {r.intent} : j \in OpenOn(a, d)' <=> j \in OpenOn(a, d)
    BY <1>5, <1>6, <1>7 DEF OpenOn, Open, Account, Existing
  <2>2. \A j \in Intents \ {r.intent} : Due(j, a, d)' = Due(j, a, d)
    BY <1>5, <2>1 DEF Due, RemainderOf
  <2>3. Due(r.intent, a, d) = 0
    BY <1>6 DEF Due, OpenOn, Open
  <2>4. Due(r.intent, a, d)' = IF a = r.isolated /\ d = r.side THEN r.lots ELSE 0
    <3>1. r.intent \in OpenOn(a, d)' <=> r.isolated = a /\ r.side = d
      BY <1>5, <1>6 DEF OpenOn, Open, Account, new
    <3>2. RemainderOf(r.intent)' = r.lots
      BY <1>2, <1>5 DEF RemainderOf, new
    <3>3. Due(r.intent, a, d)' = IF r.intent \in OpenOn(a, d)' THEN RemainderOf(r.intent)' ELSE 0
      BY <1>1 DEF Due
    <3> QED
      BY <3>1, <3>2, <3>3
  <2>5. Remaining(OpenOn(a, d))'
          = Remaining(OpenOn(a, d)) + Due(r.intent, a, d)' - Due(r.intent, a, d)
    BY <1>2, <2>2, RemainingMoves
  <2>6. Remaining(OpenOn(a, d)) \in Int
    BY SumsNow
  <2> QED
    BY <1>2, <2>3, <2>4, <2>5, <2>6
<1> QED
  BY <1>1, <1>2, <1>5, <1>6, <1>7, <1>9, <1>10, <1>11, <1>12 DEF new

\* A fill takes its lots from what is due to the position.
LEMMA CommitEffect ==
  ASSUME IInv, IInv', NEW t \in Threads, FillCommit(t), NEW i, i = job[t].intent,
         NEW n, n = lots[t]
  PROVE  /\ i \in Existing /\ Existing' = Existing /\ n \in Nat
         /\ order[i].request = job[t]
         /\ \A j \in Existing : order'[j].request = order[j].request
         /\ \A j \in Existing \ {i} : order'[j] = order[j]
         /\ order'[i].filled = order[i].filled + n
         /\ order'[i].status = "filled" => order'[i].filled = order[i].request.lots
         /\ Filled(i)' = Filled(i) + n
         /\ \A j \in Intents \ {i} : Filled(j)' = Filled(j)
         /\ \A a \in BOOLEAN :
              Position(a)' = IF a # job[t].isolated THEN Position(a)
                             ELSE IF job[t].side = "buy" THEN Position(a) + n
                             ELSE Position(a) - n
         /\ \A a \in BOOLEAN, d \in Sides :
              Remaining(OpenOn(a, d))' =
                IF a = job[t].isolated /\ d = job[t].side THEN Remaining(OpenOn(a, d)) - n
                ELSE Remaining(OpenOn(a, d))
<1> DEFINE o == order[i]
           full == o.filled + n >= o.request.lots
           made == [intent |-> i, lots |-> n, sync |-> "pending"]
<1>1. PICK x \in Execs :
        /\ Free(x) /\ exec' = [exec EXCEPT ![x] = made]
        /\ order' = [order EXCEPT ![i] =
             [request |-> o.request, filled |-> o.filled + n, value |-> o.value + n * Prices[x],
              status |-> IF full THEN "filled" ELSE "partially_filled"]]
  BY DEF FillCommit
<1> DEFINE row == [request |-> o.request, filled |-> o.filled + n,
                   value |-> o.value + n * Prices[x],
                   status |-> IF full THEN "filled" ELSE "partially_filled"]
<1>2. i \in Existing /\ i \in Intents /\ o.request = job[t] /\ n \in Nat /\ o \in OrderRow
  <2>1. pc[t] = "commit" /\ Stands(t)
    BY DEF FillCommit, IInv
  <2>2. job[t] \in Requests /\ order[i] # None /\ order[i].request = job[t]
    BY <2>1 DEF Stands, IInv, TypeOK
  <2>3. i \in Intents
    BY <2>2, SimulationAssumption
  <2>4. n \in Nat /\ o \in OrderRow
    BY <2>2, <2>3 DEF IInv, TypeOK
  <2> QED
    BY <2>2, <2>3, <2>4 DEF Existing
<1>3. o.filled \in Nat /\ o.request.lots \in Nat /\ n <= o.request.lots - o.filled
      /\ o.status \in {"pending", "partially_filled"}
  <2>1. n <= o.request.lots - o.filled /\ o.status \in {"pending", "partially_filled"}
    BY DEF FillCommit, Fillable
  <2> QED
    BY <1>2, <2>1, RowsKnown
<1>4. row \in OrderRow /\ row # None /\ made \in ExecRow /\ made # None
  <2>1. row \in OrderRow /\ made \in ExecRow
    <3>1. n * Prices[x] \in Nat
      BY <1>2, CostKnown
    <3> QED
      BY <1>2, <1>3, <3>1 DEF OrderRow, ExecRow
  <2> QED
    BY <2>1, SimulationAssumption
<1>5. order' = [order EXCEPT ![i] = row]
  BY <1>1
<1>6. order'[i] = row /\ \A j \in Intents : j # i => order'[j] = order[j]
  BY <1>2, <1>5 DEF IInv, TypeOK
<1>7. exec'[x] = made /\ exec[x] = None /\ \A y \in Execs : y # x => exec'[y] = exec[y]
  BY <1>1 DEF Free, IInv, TypeOK
<1>8. Made' = Made \cup {x} /\ x \notin Made /\ Existing' = Existing
  BY <1>2, <1>4, <1>6, <1>7 DEF Made, Existing
<1>9. /\ \A j \in Existing : order'[j].request = order[j].request
      /\ \A j \in Existing \ {i} : order'[j] = order[j]
  BY <1>6 DEF Existing
<1>10. \A y \in Made : exec[y].intent \in Existing /\ y # x /\ exec'[y] = exec[y]
  BY <1>7, <1>8, RowsKnown DEF Made
<1>11. order'[i].filled = o.filled + n /\ (order'[i].status = "filled" => o.filled + n = o.request.lots)
  BY <1>2, <1>3, <1>6
<1>12. \A a \in BOOLEAN : Account(a)' = Account(a)
  BY <1>8, <1>9 DEF Account
<1> HIDE DEF made, row
<1>13. /\ Filled(i)' = Filled(i) + n
       /\ \A j \in Intents \ {i} : Filled(j)' = Filled(j)
  <2>1. \A y \in Execs \ {x}, j \in Intents : Part(y, j)' = Part(y, j)
    BY <1>7, <1>8, <1>10 DEF Part, MadeFor
  <2>2. \A j \in Intents : Part(x, j) = 0 /\ Part(x, j)' = IF j = i THEN n ELSE 0
    BY <1>7, <1>8 DEF Part, MadeFor, made
  <2>3. \A j \in Intents : Filled(j)' = Filled(j) + Part(x, j)' - Part(x, j) /\ Filled(j) \in Int
    BY <2>1, FilledMoves, SumsNow
  <2> QED
    BY <1>2, <2>2, <2>3
<1>14. ASSUME NEW a \in BOOLEAN
       PROVE  Position(a)' = IF a # job[t].isolated THEN Position(a)
                             ELSE IF job[t].side = "buy" THEN Position(a) + n
                             ELSE Position(a) - n
  <2>1. \A y \in Execs \ {x} : Weigh(y, a)' = Weigh(y, a)
    <3>1. \A y \in Made : SignedLots(y)' = SignedLots(y)
      BY <1>9, <1>10 DEF SignedLots
    <3> QED
      BY <1>8, <1>10, <1>12, <3>1 DEF Weigh, MadeFor
  <2>2. Weigh(x, a) = 0
    BY <1>8 DEF Weigh, MadeFor
  <2>3. Weigh(x, a)' = IF a # job[t].isolated THEN 0 ELSE IF job[t].side = "buy" THEN n ELSE -n
    <3>1. SignedLots(x)' = IF job[t].side = "buy" THEN n ELSE -n
      BY <1>2, <1>7, <1>9 DEF SignedLots, made
    <3>2. x \in MadeFor(Account(a))' <=> a = job[t].isolated
      BY <1>2, <1>7, <1>8, <1>12 DEF MadeFor, Account, made
    <3>3. Weigh(x, a)' = IF x \in MadeFor(Account(a))' THEN SignedLots(x)' ELSE 0
      BY DEF Weigh
    <3> QED
      BY <3>1, <3>2, <3>3
  <2>4. Position(a)' = Position(a) + Weigh(x, a)' - Weigh(x, a) /\ Position(a) \in Int
    BY <2>1, PositionMoves, SumsNow
  <2> QED
    BY <1>2, <2>2, <2>3, <2>4
<1>15. ASSUME NEW a \in BOOLEAN, NEW d \in Sides
       PROVE  Remaining(OpenOn(a, d))' =
                IF a = job[t].isolated /\ d = job[t].side THEN Remaining(OpenOn(a, d)) - n
                ELSE Remaining(OpenOn(a, d))
  <2>1. \A j \in Intents \ {i} : j \in OpenOn(a, d)' <=> j \in OpenOn(a, d)
    BY <1>6, <1>8, <1>12 DEF OpenOn, Open, Existing
  <2>2. \A j \in Intents \ {i} : Due(j, a, d)' = Due(j, a, d)
    BY <1>6, <2>1 DEF Due, RemainderOf
  <2>3. Due(i, a, d) = IF a = job[t].isolated /\ d = job[t].side THEN o.request.lots - o.filled ELSE 0
    <3>1. i \in OpenOn(a, d) <=> a = job[t].isolated /\ d = job[t].side
      BY <1>2, <1>3 DEF OpenOn, Open, Account
    <3> QED
      BY <3>1 DEF Due, RemainderOf
  <2>4. Due(i, a, d)' = IF a = job[t].isolated /\ d = job[t].side THEN o.request.lots - o.filled - n
                        ELSE 0
    <3>1. CASE full
      <4>1. i \notin OpenOn(a, d)'
        BY <1>6, <3>1 DEF OpenOn, Open, row
      <4>2. Due(i, a, d)' = 0
        BY <4>1 DEF Due
      <4>3. o.request.lots - o.filled - n = 0
        BY <1>2, <1>3, <3>1
      <4> QED
        BY <4>2, <4>3
    <3>2. CASE ~full
      <4>1. i \in OpenOn(a, d)' <=> a = job[t].isolated /\ d = job[t].side
        BY <1>2, <1>6, <1>8, <1>12, <3>2 DEF OpenOn, Open, Account, row
      <4>2. RemainderOf(i)' = o.request.lots - (o.filled + n)
        BY <1>6 DEF RemainderOf, row
      <4>3. o.request.lots - (o.filled + n) = o.request.lots - o.filled - n
        BY <1>2, <1>3
      <4>4. Due(i, a, d)' = IF i \in OpenOn(a, d)' THEN RemainderOf(i)' ELSE 0
        BY DEF Due
      <4> QED
        BY <4>1, <4>2, <4>3, <4>4
    <3> QED
      BY <3>1, <3>2
  <2>5. Remaining(OpenOn(a, d))' = Remaining(OpenOn(a, d)) + Due(i, a, d)' - Due(i, a, d)
    BY <1>2, <2>2, RemainingMoves
  <2>6. Remaining(OpenOn(a, d)) \in Int
    BY SumsNow
  <2> HIDE DEF o
  <2> QED
    BY <1>2, <1>3, <2>3, <2>4, <2>5, <2>6
<1> QED
  BY <1>2, <1>8, <1>9, <1>11, <1>13, <1>14, <1>15

-----------------------------------------------------------------------------
(* The rows of an order and of its executions say the same; an evaluation  *)
(* that nothing has overtaken leaves room for the order it accepts.        *)

\* The types of the variables of an evaluation.
EvalTypes ==
  /\ told \in [Threads -> Int]
  /\ loose \in [Threads -> BOOLEAN]
  /\ excused \in BOOLEAN

\* The rows of orders agree with those of their executions.
Reckoned ==
  \A i \in Existing :
    /\ Filled(i) = order[i].filled
    /\ order[i].status = "filled" => order[i].filled = order[i].request.lots

\* The limit has room for all that is open on an account, and for one more order.
Within(a) ==
  /\ Position(a) + Remaining(OpenOn(a, "buy")) <= Limit
  /\ -Limit <= Position(a) - Remaining(OpenOn(a, "sell"))

Room(r) ==
  IF r.side = "buy" THEN Position(r.isolated) + Remaining(OpenOn(r.isolated, "buy")) + r.lots <= Limit
  ELSE -Limit <= Position(r.isolated) - Remaining(OpenOn(r.isolated, "sell")) - r.lots

\* What an evaluation that still covers what is there has established.
Covered(t) ==
  ~loose[t] => /\ pc[t] = "decide" => told[t] = Position(job[t].isolated)
               /\ pc[t] = "insert" => Room(job[t])

Snug == ~excused => (\A a \in BOOLEAN : Within(a)) /\ (\A t \in Threads : Covered(t))

\* Who decides or inserts holds a request.
LEMMA JobKnown ==
  ASSUME IInv, NEW t \in Threads, pc[t] \in {"decide", "insert"}
  PROVE  /\ job[t] \in Requests /\ job[t].isolated \in BOOLEAN /\ job[t].side \in Sides
         /\ job[t].lots \in Nat
<1>1. job[t] \in Requests
  BY DEF IInv, TypeOK, Stands
<1> QED
  BY <1>1, SimulationAssumption

\* An evaluation covers what it did when nothing it has read changes.
LEMMA CoveredOn ==
  ASSUME IInv, SameShares, NEW u \in Threads, Covered(u),
         pc'[u] = pc[u], job'[u] = job[u], told'[u] = told[u], loose'[u] = loose[u]
  PROVE  Covered(u)'
<1>1. CASE pc[u] = "decide"
  BY <1>1, JobKnown DEF Covered, SameShares
<1>2. CASE pc[u] = "insert"
  <2>1. Room(job[u])' <=> Room(job[u])
    BY <1>2, JobKnown DEF Room, SameShares, Sides
  <2> QED
    BY <1>2, <2>1 DEF Covered
<1>3. CASE pc[u] \notin {"decide", "insert"}
  BY <1>3 DEF Covered
<1> QED
  BY <1>1, <1>2, <1>3

\* The other threads are where they were, with their evaluations.
Rests(t) ==
  \A u \in Threads \ {t} :
    pc'[u] = pc[u] /\ job'[u] = job[u] /\ told'[u] = told[u] /\ loose'[u] = loose[u]

\* A step of one thread that keeps the sums needs to be looked at for that thread only.
LEMMA QuietStep ==
  ASSUME IInv, Reckoned, Snug, SameShares, UNCHANGED <<order, excused>>,
         NEW t \in Threads, Rests(t), (\A u \in Threads : Covered(u)) => Covered(t)'
  PROVE  Reckoned' /\ Snug'
<1>1. Reckoned'
  <2>1. Existing' = Existing /\ \A i \in Existing : i \in Intents
    BY DEF Existing
  <2> QED
    BY <2>1 DEF Reckoned, SameShares
<1>2. ASSUME ~excused' PROVE \A a \in BOOLEAN : Within(a)'
  BY <1>2 DEF Snug, Within, SameShares, Sides
<1>3. ASSUME ~excused', NEW u \in Threads PROVE Covered(u)'
  <2>1. \A v \in Threads : Covered(v)
    BY <1>3 DEF Snug
  <2>2. CASE u = t
    BY <2>1, <2>2
  <2>3. CASE u # t
    BY <2>1, <2>3, CoveredOn DEF Rests
  <2> QED
    BY <2>2, <2>3
<1> QED
  BY <1>1, <1>2, <1>3 DEF Snug

\* Reading, reviewing, copying, and being answered.
LEMMA OthersKeepReckoning ==
  ASSUME IInv, IInv', EvalTypes, Reckoned, Snug, NEW t \in Threads,
         \/ \E s \in Signals, v \in Verdicts : ReviewRead(t, s, v)
         \/ \E r \in Requests : CreateLookup(t, r)
         \/ \E i \in Intents : FillRead(t, i)
         \/ \E x \in Execs : SyncAgain(t, x)
         \/ FillIsolated(t) \/ FillPick(t) \/ SyncBook(t) \/ SyncRaise(t)
  PROVE  Reckoned' /\ Snug'
<1>1. UNCHANGED <<order, exec, excused, told, loose>>
  BY DEF ReviewRead, CreateLookup, FillRead, SyncAgain, FillIsolated, FillPick, SyncBook, SyncRaise,
         tables, locals, notes
<1>2. /\ pc'[t] \notin {"decide", "insert"}
      /\ \A u \in Threads \ {t} : pc'[u] = pc[u] /\ job'[u] = job[u]
  <2>1. CASE \E s \in Signals, v \in Verdicts : ReviewRead(t, s, v)
    BY <2>1 DEF ReviewRead, Goto, IInv, TypeOK
  <2>2. CASE \E r \in Requests : CreateLookup(t, r)
    BY <2>2 DEF CreateLookup, Goto, IInv, TypeOK
  <2>3. CASE \E i \in Intents : FillRead(t, i)
    BY <2>3 DEF FillRead, Goto, IInv, TypeOK
  <2>4. CASE \E x \in Execs : SyncAgain(t, x)
    BY <2>4 DEF SyncAgain, Goto, IInv, TypeOK
  <2>5. CASE FillIsolated(t) \/ FillPick(t)
    BY <2>5 DEF FillIsolated, FillPick, Goto, IInv, TypeOK
  <2>6. CASE SyncBook(t) \/ SyncRaise(t)
    BY <2>6 DEF SyncBook, SyncRaise, Goto, IInv, TypeOK, locals
  <2> QED
    BY <2>1, <2>2, <2>3, <2>4, <2>5, <2>6
<1>3. SameShares
  BY <1>1, QuietKeeps DEF Made
<1>4. Rests(t)
  BY <1>1, <1>2 DEF Rests
<1>5. Covered(t)'
  BY <1>2 DEF Covered
<1> QED
  BY <1>1, <1>3, <1>4, <1>5, QuietStep

\* A request that is answered leaves no evaluation behind.
LEMMA ReturnKeepsReckoning ==
  ASSUME IInv, IInv', EvalTypes, Reckoned, Snug, NEW t \in Threads, Return(t),
         UNCHANGED <<order, excused>>, Made' = Made,
         \A x \in Made : exec'[x].intent = exec[x].intent /\ exec'[x].lots = exec[x].lots
  PROVE  Reckoned' /\ Snug'
<1>1. /\ pc'[t] = "idle"
      /\ \A u \in Threads \ {t} : pc'[u] = pc[u] /\ job'[u] = job[u]
  BY DEF Return, Goto, IInv, TypeOK
<1>2. \A u \in Threads \ {t} : told'[u] = told[u] /\ loose'[u] = loose[u]
  BY DEF Return, EvalTypes
<1>3. SameShares
  BY QuietKeeps
<1>4. Rests(t) /\ Covered(t)'
  BY <1>1, <1>2 DEF Rests, Covered
<1> QED
  BY <1>3, <1>4, QuietStep

\* The steps that answer a request, those that mark an execution among them.
LEMMA AnswersKeepReckoning ==
  ASSUME IInv, IInv', EvalTypes, Reckoned, Snug, NEW t \in Threads,
         \/ ReviewWrite(t) \/ CreateRefused(t) \/ CreateConflict(t) \/ FillRefused(t)
         \/ FillIsolate(t) \/ SyncNote(t) \/ SyncFail(t)
  PROVE  Reckoned' /\ Snug'
<1>1. Return(t) /\ UNCHANGED <<order, excused>>
  BY DEF ReviewWrite, CreateRefused, CreateConflict, FillRefused, FillIsolate, SyncNote, SyncFail,
         tables, notes
<1>2. CASE UNCHANGED exec
  <2>1. Made' = Made
    BY <1>2 DEF Made
  <2> QED
    BY <1>1, <1>2, <2>1, ReturnKeepsReckoning
<1>3. CASE FillIsolate(t) \/ SyncNote(t) \/ SyncFail(t)
  <2>1. PICK status : SetSync(work[t], status) /\ status \in {"isolated", "synced", "failed"}
    BY <1>3 DEF FillIsolate, SyncNote, SyncFail
  <2>2. pc[t] \in {"isolate", "note", "fail"} /\ Stands(t)
    BY <1>3 DEF FillIsolate, SyncNote, SyncFail, IInv
  <2>3. work[t] \in Made
    BY <2>2 DEF Stands
  <2> DEFINE row == [intent |-> exec[work[t]].intent, lots |-> exec[work[t]].lots, sync |-> status]
  <2>4. row # None
    <3>1. exec[work[t]] \in ExecRow
      BY <2>3 DEF Made, IInv, TypeOK
    <3>2. row \in ExecRow
      BY <2>1, <3>1 DEF ExecRow
    <3> QED
      BY <3>2, SimulationAssumption
  <2>5. exec'[work[t]] = row /\ \A x \in Execs : x # work[t] => exec'[x] = exec[x]
    BY <2>1, <2>3 DEF SetSync, Made, IInv, TypeOK
  <2>6. Made' = Made
    BY <2>3, <2>4, <2>5 DEF Made
  <2>7. \A x \in Made : exec'[x].intent = exec[x].intent /\ exec'[x].lots = exec[x].lots
    BY <2>5 DEF Made
  <2> QED
    BY <1>1, <2>6, <2>7, ReturnKeepsReckoning
<1> QED
  BY <1>2, <1>3 DEF ReviewWrite, CreateRefused, CreateConflict, FillRefused, tables

\* What is due to one side of an account is part of what is due on the account.
LEMMA SidesWithinAccount ==
  ASSUME IInv, NEW a \in BOOLEAN, NEW d \in Sides
  PROVE  /\ Remaining(OpenOn(a, d)) <= Remaining(Open \cap Account(a))
         /\ Remaining(Open \cap Account(a)) \in Int
         /\ Open \cap Account(a) = {} => Remaining(OpenOn(a, d)) = 0
<1> DEFINE T == Open \cap Account(a)
           f == [i \in T |-> RemainderOf(i)]
           k == [i \in Intents |-> IF i \in T THEN RemainderOf(i) ELSE 0]
           g == [i \in Intents |-> Due(i, a, d)]
<1>1. T \in SUBSET Intents
  BY DEF Open, Existing
<1>2. \A i \in T : f[i] \in Nat /\ f[i] = RemainderOf(i)
  BY RowsKnown DEF Open, RemainderOf
<1>3. /\ \A i \in Intents : k[i] = IF i \in T THEN f[i] ELSE 0
      /\ \A i \in Intents : k[i] \in Int /\ g[i] \in Int /\ g[i] <= k[i]
  <2>1. \A i \in Intents : k[i] = IF i \in T THEN f[i] ELSE 0
    OBVIOUS
  <2>2. \A i \in Intents : g[i] = IF i \in OpenOn(a, d) THEN RemainderOf(i) ELSE 0
    BY DEF Due
  <2>3. \A i \in OpenOn(a, d) : i \in T
    BY DEF OpenOn
  <2> HIDE DEF T, f, k, g
  <2> QED
    BY <1>2, <2>1, <2>2, <2>3
<1>4. DOMAIN f = T /\ Remaining(T) = SumFunction(f)
  BY DEF Remaining
<1>5. Remaining(OpenOn(a, d)) = SumFunctionOnSet(g, Intents)
  BY SumsNow
<1>6. T = {} => \A i \in Intents : g[i] = 0
  BY DEF Due, OpenOn
<1> HIDE DEF T, f, k, g
<1>7. Remaining(T) = SumFunctionOnSet(k, Intents) /\ SumFunctionOnSet(k, Intents) \in Int
  BY <1>1, <1>2, <1>3, <1>4, ExecsFinite, SumMasked
<1>8. SumFunctionOnSet(g, Intents) <= SumFunctionOnSet(k, Intents)
  BY <1>3, ExecsFinite, SumMonotone
<1>9. T = {} => SumFunctionOnSet(g, Intents) = 0
  BY <1>6, ExecsFinite, SumZero
<1> QED
  BY <1>5, <1>7, <1>8, <1>9 DEF T

\* An order that fits has room on its account, when the position told is that
\* of the account and nothing is open beside a reduction.
LEMMA FitLeavesRoom ==
  ASSUME IInv, NEW r, r.isolated \in BOOLEAN, r.side \in Sides, r.lots \in Nat,
         NEW others, others = Open \cap Account(r.isolated),
         Fits(r, Position(r.isolated), others), r.reduce => others = {}
  PROVE  Room(r)
<1>1. PICK P \in Int, R \in Int, B \in Int, S \in Int :
        /\ P = Position(r.isolated) /\ R = Remaining(others)
        /\ B = Remaining(OpenOn(r.isolated, "buy")) /\ S = Remaining(OpenOn(r.isolated, "sell"))
        /\ B <= R /\ S <= R /\ (others = {} => B = 0 /\ S = 0)
  <2>1. "buy" \in Sides /\ "sell" \in Sides
    BY DEF Sides
  <2>2. /\ Position(r.isolated) \in Int /\ Remaining(OpenOn(r.isolated, "buy")) \in Int
        /\ Remaining(OpenOn(r.isolated, "sell")) \in Int
    BY <2>1, SumsNow
  <2>3. /\ Remaining(others) \in Int
        /\ Remaining(OpenOn(r.isolated, "buy")) <= Remaining(others)
        /\ others = {} => Remaining(OpenOn(r.isolated, "buy")) = 0
    BY <2>1, SidesWithinAccount
  <2>4. /\ Remaining(OpenOn(r.isolated, "sell")) <= Remaining(others)
        /\ others = {} => Remaining(OpenOn(r.isolated, "sell")) = 0
    BY <2>1, SidesWithinAccount
  <2> QED
    BY <2>2, <2>3, <2>4
<1>2. PICK n \in Nat : n = r.lots
  OBVIOUS
<1>3. Limit \in Nat
  BY ExecsFinite
<1>4. CASE r.reduce
  <2>1. B = 0 /\ S = 0
    BY <1>1, <1>4
  <2>2. n <= Magnitude(P) /\ IF r.side = "sell" THEN P > 0 ELSE P < 0
    BY <1>1, <1>2, <1>4 DEF Fits
  <2>3. IF r.side = "buy" THEN P + B + n <= Limit ELSE -Limit <= P - S - n
    BY <1>3, <2>1, <2>2 DEF Magnitude, Sides
  <2> QED
    BY <1>1, <1>2, <2>3 DEF Room
<1>5. CASE ~r.reduce
  <2>1. R + Magnitude(IF r.side = "buy" THEN P + n ELSE P - n) <= Limit
    BY <1>1, <1>2, <1>5 DEF Fits
  <2>2. IF r.side = "buy" THEN P + B + n <= Limit ELSE -Limit <= P - S - n
    BY <1>1, <1>3, <2>1 DEF Magnitude, Sides
  <2> QED
    BY <1>1, <1>2, <2>2 DEF Room
<1> QED
  BY <1>4, <1>5

\* account_snapshot tells the position there is, unless orders were left out.
LEMMA AccountKeepsReckoning ==
  ASSUME IInv, IInv', EvalTypes, Reckoned, Snug, NEW t \in Threads, CreateAccount(t)
  PROVE  Reckoned' /\ Snug'
<1>1. UNCHANGED <<order, exec, excused, job>>
  BY DEF CreateAccount, tables, notes
<1>2. SameShares
  BY <1>1, QuietKeeps DEF Made
<1>3. /\ pc'[t] \in {"decide", "refuse"}
      /\ \A u \in Threads \ {t} : pc'[u] = pc[u] /\ told'[u] = told[u] /\ loose'[u] = loose[u]
  BY DEF CreateAccount, Goto, IInv, TypeOK, EvalTypes
<1>0. ~loose'[t] => told'[t] = Position(job[t].isolated)
  BY DEF CreateAccount, EvalTypes, Position
<1>4. Rests(t)
  BY <1>1, <1>3 DEF Rests
<1>5. job[t].isolated \in BOOLEAN
  <2>1. job[t] \in Requests
    BY DEF CreateAccount, IInv, TypeOK, Stands
  <2> QED
    BY <2>1, SimulationAssumption
<1>6. ~loose'[t] => told'[t] = Position(job[t].isolated)'
  BY <1>0, <1>1, <1>2, <1>5 DEF SameShares
<1>7. Covered(t)'
  BY <1>1, <1>3, <1>6 DEF Covered
<1> QED
  BY <1>1, <1>2, <1>4, <1>7, QuietStep

\* A request that is accepted has room, unless its evaluation was overtaken.
LEMMA DecideKeepsReckoning ==
  ASSUME IInv, IInv', EvalTypes, Reckoned, Snug, NEW t \in Threads, CreateDecide(t)
  PROVE  Reckoned' /\ Snug'
<1> DEFINE r == job[t]
<1>0. PICK S \in Listed(r.isolated) :
        /\ Fits(r, told[t], Open \cap S)
        /\ loose' = [loose EXCEPT ![t] = @ \/ S # Account(r.isolated)
                                           \/ (r.reduce /\ Open \cap S # {})]
  BY DEF CreateDecide
<1> DEFINE others == Open \cap S
<1>1. UNCHANGED <<order, exec, excused, job>>
  BY DEF CreateDecide, tables, notes
<1>2. SameShares
  BY <1>1, QuietKeeps DEF Made
<1>3. /\ pc[t] = "decide" /\ pc'[t] = "insert" /\ Fits(r, told[t], others)
      /\ \A u \in Threads \ {t} : pc'[u] = pc[u]
  BY <1>0 DEF CreateDecide, Goto, IInv, TypeOK
<1>4. \A u \in Threads \ {t} : told'[u] = told[u] /\ loose'[u] = loose[u]
  BY DEF CreateDecide, EvalTypes
<1>5. ~loose'[t] => ~loose[t] /\ S = Account(r.isolated) /\ (r.reduce => others = {})
  BY <1>0 DEF EvalTypes
<1>6. Rests(t)
  BY <1>1, <1>3, <1>4 DEF Rests
<1>7. r.isolated \in BOOLEAN /\ r.side \in Sides /\ r.lots \in Nat
  BY <1>3, JobKnown
<1>8. ASSUME Covered(t) PROVE Covered(t)'
  <2> SUFFICES ASSUME ~loose'[t] PROVE Room(r)'
    BY <1>1, <1>3 DEF Covered
  <2>1. told[t] = Position(r.isolated)
    BY <1>3, <1>5, <1>8 DEF Covered
  <2> HIDE DEF r, others
  <2>2. others = Open \cap Account(r.isolated)
    BY <1>5 DEF others
  <2>3. Room(r)
    BY <1>3, <1>5, <1>7, <2>1, <2>2, FitLeavesRoom
  <2>4. r' = r
    BY <1>1 DEF r
  <2> QED
    BY <1>2, <1>7, <2>3, <2>4 DEF Room, SameShares, Sides
<1> QED
  BY <1>1, <1>2, <1>6, <1>8, QuietStep DEF Snug

\* An account on which no side comes nearer to the limit keeps its room.
Eases(a) ==
  /\ Position(a)' + Remaining(OpenOn(a, "buy"))' <= Position(a) + Remaining(OpenOn(a, "buy"))
  /\ Position(a) - Remaining(OpenOn(a, "sell")) <= Position(a)' - Remaining(OpenOn(a, "sell"))'

\* What had room on such an account has it still.
LEMMA EaseKeepsRoom ==
  ASSUME IInv, IInv', NEW a \in BOOLEAN, Eases(a)
  PROVE  /\ Within(a) => Within(a)'
         /\ \A r \in Requests : (r.isolated = a /\ Room(r)) => Room(r)'
<1>1. PICK P \in Int, B \in Int, S \in Int :
        P = Position(a) /\ B = Remaining(OpenOn(a, "buy")) /\ S = Remaining(OpenOn(a, "sell"))
  BY SumsNow DEF Sides
<1>2. PICK p \in Int, b \in Int, s \in Int :
        /\ p = Position(a)' /\ b = Remaining(OpenOn(a, "buy"))'
        /\ s = Remaining(OpenOn(a, "sell"))'
  BY SumsThen DEF Sides
<1>3. p + b <= P + B /\ P - S <= p - s
  BY <1>1, <1>2 DEF Eases
<1>4. Limit \in Nat
  BY ExecsFinite
<1>5. Within(a) => Within(a)'
  <2>1. P + B <= Limit => p + b <= Limit
    BY <1>3, <1>4
  <2>2. -Limit <= P - S => -Limit <= p - s
    BY <1>3, <1>4
  <2> QED
    BY <1>1, <1>2, <2>1, <2>2 DEF Within
<1>6. ASSUME NEW r \in Requests, r.isolated = a, Room(r) PROVE Room(r)'
  <2>1. PICK n \in Nat : n = r.lots
    BY SimulationAssumption
  <2>2. P + B + n <= Limit => p + b + n <= Limit
    BY <1>3, <1>4
  <2>3. -Limit <= P - S - n => -Limit <= p - s - n
    BY <1>3, <1>4
  <2> QED
    BY <1>1, <1>2, <1>6, <2>1, <2>2, <2>3 DEF Room
<1> QED
  BY <1>5, <1>6

\* So have the requests that were accepted.
LEMMA CoveredEases ==
  ASSUME IInv, IInv', \A a \in BOOLEAN : Eases(a), NEW u \in Threads, Covered(u),
         pc'[u] = pc[u], job'[u] = job[u], told'[u] = told[u],
         ~loose'[u] => ~loose[u],
         (~loose'[u] /\ pc[u] = "decide") => Position(job[u].isolated)' = Position(job[u].isolated)
  PROVE  Covered(u)'
<1>1. CASE pc[u] = "decide"
  BY <1>1 DEF Covered
<1>2. CASE pc[u] = "insert"
  <2>1. PICK r \in Requests : r = job[u] /\ r.isolated \in BOOLEAN
    BY <1>2, JobKnown
  <2>2. Room(r) => Room(r)'
    BY <2>1, EaseKeepsRoom
  <2>3. Room(job[u])' <=> Room(r)'
    BY <2>1 DEF Room
  <2>4. Room(job[u]) => Room(job[u])'
    BY <2>1, <2>2, <2>3
  <2> QED
    BY <1>2, <2>4 DEF Covered
<1>3. CASE pc[u] \notin {"decide", "insert"}
  BY <1>3 DEF Covered
<1> QED
  BY <1>1, <1>2, <1>3

\* A cancelled order only makes room.
LEMMA CancelKeepsReckoning ==
  ASSUME IInv, IInv', EvalTypes, Reckoned, Snug, NEW i \in Intents, CancelOrder(i)
  PROVE  Reckoned' /\ Snug'
<1>1. /\ Existing' = Existing
      /\ \A j \in Existing : /\ order'[j].request = order[j].request
                             /\ order'[j].filled = order[j].filled
                             /\ order'[j].status \in {order[j].status, "cancelled"}
      /\ \A a \in BOOLEAN : Position(a)' = Position(a)
      /\ \A j \in Intents : Filled(j)' = Filled(j)
      /\ \A a \in BOOLEAN, d \in Sides : Remaining(OpenOn(a, d))' <= Remaining(OpenOn(a, d))
  BY CancelEffect
<1>2. UNCHANGED <<pc, job, told, loose, excused>>
  BY DEF CancelOrder, locals, notes
<1>3. Reckoned'
  <2>1. \A j \in Existing : j \in Intents
    BY DEF Existing
  <2> QED
    BY <1>1, <2>1 DEF Reckoned
<1>4. ASSUME NEW a \in BOOLEAN PROVE Eases(a)
  <2>1. PICK P \in Int, B \in Int, S \in Int, b \in Int, s \in Int :
          /\ P = Position(a) /\ P = Position(a)' /\ b <= B /\ s <= S
          /\ B = Remaining(OpenOn(a, "buy")) /\ b = Remaining(OpenOn(a, "buy"))'
          /\ S = Remaining(OpenOn(a, "sell")) /\ s = Remaining(OpenOn(a, "sell"))'
    <3>1. /\ Position(a) \in Int /\ Position(a)' = Position(a)
      BY <1>1, SumsNow
    <3>2. /\ Remaining(OpenOn(a, "buy")) \in Int /\ Remaining(OpenOn(a, "sell")) \in Int
      BY SumsNow DEF Sides
    <3>3. /\ Remaining(OpenOn(a, "buy"))' \in Int /\ Remaining(OpenOn(a, "sell"))' \in Int
      BY SumsThen DEF Sides
    <3>4. /\ Remaining(OpenOn(a, "buy"))' <= Remaining(OpenOn(a, "buy"))
          /\ Remaining(OpenOn(a, "sell"))' <= Remaining(OpenOn(a, "sell"))
      BY <1>1 DEF Sides
    <3> QED
      BY <3>1, <3>2, <3>3, <3>4
  <2>2. P + b <= P + B /\ P - S <= P - s
    BY <2>1
  <2> QED
    BY <2>1, <2>2 DEF Eases
<1>5. ASSUME ~excused' PROVE \A a \in BOOLEAN : Within(a)'
  BY <1>2, <1>4, <1>5, EaseKeepsRoom DEF Snug
<1>6. ASSUME ~excused', NEW u \in Threads PROVE Covered(u)'
  <2>1. Covered(u)
    BY <1>2, <1>6 DEF Snug
  <2>2. pc[u] = "decide" => Position(job[u].isolated)' = Position(job[u].isolated)
    BY <1>1, <1>2, JobKnown
  <2> QED
    BY <1>2, <1>4, <2>1, <2>2, CoveredEases
<1> QED
  BY <1>3, <1>5, <1>6 DEF Snug

\* The new order uses the room its evaluation found; the requests that counted on
\* the same room are overtaken.
LEMMA InsertKeepsReckoning ==
  ASSUME IInv, IInv', EvalTypes, Reckoned, Snug, NEW t \in Threads, CreateInsert(t)
  PROVE  Reckoned' /\ Snug'
<1>0. PICK r \in Requests : r = job[t] /\ r.isolated \in BOOLEAN /\ r.side \in Sides /\ r.lots \in Nat
  BY JobKnown DEF CreateInsert
<1>1. /\ Existing' = Existing \cup {r.intent} /\ r.intent \notin Existing
      /\ order'[r.intent] = [request |-> r, status |-> "pending", filled |-> 0, value |-> 0]
      /\ \A j \in Existing : order'[j] = order[j]
      /\ \A a \in BOOLEAN : Position(a)' = Position(a)
      /\ \A j \in Intents : Filled(j)' = Filled(j)
      /\ Filled(r.intent)' = 0
  BY <1>0, InsertEffect
<1>2. \A a \in BOOLEAN, d \in Sides :
        Remaining(OpenOn(a, d))' =
          IF a = r.isolated /\ d = r.side THEN Remaining(OpenOn(a, d)) + r.lots
          ELSE Remaining(OpenOn(a, d))
  BY <1>0, InsertEffect
<1>3. Reckoned'
  <2>1. \A j \in Existing : j \in Intents
    BY DEF Existing
  <2>2. \A j \in Existing : /\ Filled(j)' = order'[j].filled
                            /\ order'[j].status = "filled"
                                 => order'[j].filled = order'[j].request.lots
    BY <1>1, <2>1 DEF Reckoned
  <2>3. Filled(r.intent)' = order'[r.intent].filled /\ order'[r.intent].status # "filled"
    BY <1>1
  <2> QED
    BY <1>1, <2>2, <2>3 DEF Reckoned
<1>4. /\ pc[t] = "insert" /\ pc'[t] \in {"fill", "idle"}
      /\ \A u \in Threads \ {t} : pc'[u] = pc[u] /\ job'[u] = job[u]
      /\ UNCHANGED told
  BY DEF CreateInsert, Goto, IInv, TypeOK
<1>5. ~excused' => ~excused /\ ~loose[t]
  BY DEF CreateInsert
<1>6. \A u \in Threads \ {t} :
        ~loose'[u] => ~loose[u] /\ ~(pc[u] = "insert" /\ job[u].isolated = r.isolated)
  BY <1>0 DEF CreateInsert
<1>7. ASSUME ~excused', NEW a \in BOOLEAN PROVE Within(a)'
  <2>1. Within(a) /\ Room(r)
    BY <1>0, <1>4, <1>5, <1>7 DEF Snug, Covered
  <2>2. CASE a # r.isolated
    BY <1>1, <1>2, <2>1, <2>2 DEF Within, Sides
  <2>3. CASE a = r.isolated /\ r.side = "buy"
    <3>1. Remaining(OpenOn(a, "buy"))' = Remaining(OpenOn(a, "buy")) + r.lots
          /\ Remaining(OpenOn(a, "sell"))' = Remaining(OpenOn(a, "sell"))
      BY <1>2, <2>3 DEF Sides
    <3>2. PICK P \in Int, B \in Int, n \in Nat :
            P = Position(a) /\ B = Remaining(OpenOn(a, "buy")) /\ n = r.lots
      BY <1>0, SumsNow DEF Sides
    <3>3. P + B + n <= Limit
      BY <2>1, <2>3, <3>2 DEF Room
    <3>4. P + (B + n) <= Limit
      BY <3>2, <3>3, ExecsFinite
    <3> QED
      BY <1>1, <2>1, <3>1, <3>2, <3>4 DEF Within
  <2>4. CASE a = r.isolated /\ r.side = "sell"
    <3>1. Remaining(OpenOn(a, "sell"))' = Remaining(OpenOn(a, "sell")) + r.lots
          /\ Remaining(OpenOn(a, "buy"))' = Remaining(OpenOn(a, "buy"))
      BY <1>2, <2>4 DEF Sides
    <3>2. PICK P \in Int, S \in Int, n \in Nat :
            P = Position(a) /\ S = Remaining(OpenOn(a, "sell")) /\ n = r.lots
      BY <1>0, SumsNow DEF Sides
    <3>3. -Limit <= P - S - n
      BY <2>1, <2>4, <3>2 DEF Room
    <3>4. -Limit <= P - (S + n)
      BY <3>2, <3>3, ExecsFinite
    <3> QED
      BY <1>1, <2>1, <3>1, <3>2, <3>4 DEF Within
  <2> QED
    BY <1>0, <2>2, <2>3, <2>4 DEF Sides
<1>8. ASSUME ~excused', NEW u \in Threads PROVE Covered(u)'
  <2>1. Covered(u)
    BY <1>5, <1>8 DEF Snug
  <2>2. CASE u = t
    BY <1>4, <2>2 DEF Covered
  <2>3. CASE u # t /\ pc[u] = "decide"
    BY <1>1, <1>4, <1>6, <2>1, <2>3, JobKnown DEF Covered
  <2>4. CASE u # t /\ pc[u] = "insert"
    <3> SUFFICES ASSUME ~loose'[u] PROVE Room(job[u])'
      BY <1>4, <2>4 DEF Covered
    <3>1. job[u].isolated # r.isolated /\ Room(job[u])
      BY <1>6, <2>1, <2>4 DEF Covered
    <3>2. job[u].isolated \in BOOLEAN /\ job'[u] = job[u]
      BY <1>4, <2>4, JobKnown
    <3> QED
      BY <1>1, <1>2, <3>1, <3>2 DEF Room, Sides
  <2>5. CASE u # t /\ pc[u] \notin {"decide", "insert"}
    BY <1>4, <2>5 DEF Covered
  <2> QED
    BY <2>2, <2>3, <2>4, <2>5
<1> QED
  BY <1>3, <1>7, <1>8 DEF Snug

\* A fill moves lots from what is due into the position; the evaluations that have
\* read the position are overtaken.
LEMMA CommitKeepsReckoning ==
  ASSUME IInv, IInv', EvalTypes, Reckoned, Snug, NEW t \in Threads, FillCommit(t)
  PROVE  Reckoned' /\ Snug'
<1>0. PICK r \in Requests : r = job[t] /\ r.isolated \in BOOLEAN /\ r.side \in Sides
  <2>1. job[t] \in Requests
    BY DEF FillCommit, IInv, TypeOK, Stands
  <2> QED
    BY <2>1, SimulationAssumption
<1>1. PICK i \in Intents, n \in Nat : i = job[t].intent /\ n = lots[t]
  BY <1>0, SimulationAssumption DEF IInv, TypeOK
<1>2. /\ i \in Existing /\ Existing' = Existing /\ n \in Nat
      /\ order[i].request = r
      /\ \A j \in Existing : order'[j].request = order[j].request
      /\ \A j \in Existing \ {i} : order'[j] = order[j]
      /\ order'[i].filled = order[i].filled + n
      /\ order'[i].status = "filled" => order'[i].filled = order[i].request.lots
      /\ Filled(i)' = Filled(i) + n
      /\ \A j \in Intents \ {i} : Filled(j)' = Filled(j)
  BY <1>0, <1>1, CommitEffect
<1>3. \A a \in BOOLEAN :
        Position(a)' = IF a # r.isolated THEN Position(a)
                       ELSE IF r.side = "buy" THEN Position(a) + n
                       ELSE Position(a) - n
  BY <1>0, <1>1, CommitEffect
<1>4. \A a \in BOOLEAN, d \in Sides :
        Remaining(OpenOn(a, d))' =
          IF a = r.isolated /\ d = r.side THEN Remaining(OpenOn(a, d)) - n
          ELSE Remaining(OpenOn(a, d))
  BY <1>0, <1>1, CommitEffect
<1>5. Reckoned'
  <2>1. \A j \in Existing : j \in Intents
    BY DEF Existing
  <2>2. \A j \in Existing \ {i} : /\ Filled(j)' = order'[j].filled
                                  /\ order'[j].status = "filled"
                                       => order'[j].filled = order'[j].request.lots
    BY <1>2, <2>1 DEF Reckoned
  <2>3. Filled(i)' = order'[i].filled
        /\ (order'[i].status = "filled" => order'[i].filled = order'[i].request.lots)
    BY <1>2 DEF Reckoned
  <2> QED
    BY <1>2, <2>2, <2>3 DEF Reckoned
<1>6. /\ pc[t] = "commit" /\ pc'[t] = "pick"
      /\ \A u \in Threads \ {t} : pc'[u] = pc[u]
      /\ UNCHANGED <<told, job, excused>>
  BY DEF FillCommit, Goto, IInv, TypeOK
<1>7. \A u \in Threads : ~loose'[u] => ~loose[u] /\ ~(pc[u] = "decide" /\ job[u].isolated = r.isolated)
  BY <1>1, <1>2 DEF FillCommit
<1>8. ASSUME NEW a \in BOOLEAN PROVE Eases(a)
  <2>1. PICK P \in Int, B \in Int, S \in Int :
          P = Position(a) /\ B = Remaining(OpenOn(a, "buy")) /\ S = Remaining(OpenOn(a, "sell"))
    BY SumsNow DEF Sides
  <2>2. CASE a # r.isolated
    <3>1. /\ Position(a)' = P /\ Remaining(OpenOn(a, "buy"))' = B
          /\ Remaining(OpenOn(a, "sell"))' = S
      BY <1>3, <1>4, <2>1, <2>2 DEF Sides
    <3> QED
      BY <2>1, <3>1 DEF Eases
  <2>3. CASE a = r.isolated /\ r.side = "buy"
    <3>1. Position(a)' = P + n /\ Remaining(OpenOn(a, "buy"))' = B - n
          /\ Remaining(OpenOn(a, "sell"))' = S
      BY <1>3, <1>4, <2>1, <2>3 DEF Sides
    <3>2. (P + n) + (B - n) <= P + B /\ P - S <= (P + n) - S
      BY <1>2, <2>1
    <3> QED
      BY <2>1, <3>1, <3>2 DEF Eases
  <2>4. CASE a = r.isolated /\ r.side = "sell"
    <3>1. Position(a)' = P - n /\ Remaining(OpenOn(a, "sell"))' = S - n
          /\ Remaining(OpenOn(a, "buy"))' = B
      BY <1>3, <1>4, <2>1, <2>4 DEF Sides
    <3>2. (P - n) + B <= P + B /\ P - S <= (P - n) - (S - n)
      BY <1>2, <2>1
    <3> QED
      BY <2>1, <3>1, <3>2 DEF Eases
  <2> QED
    BY <1>0, <2>2, <2>3, <2>4 DEF Sides
<1>9. ASSUME ~excused' PROVE \A a \in BOOLEAN : Within(a)'
  BY <1>6, <1>8, <1>9, EaseKeepsRoom DEF Snug
<1>10. ASSUME ~excused', NEW u \in Threads PROVE Covered(u)'
  <2>1. Covered(u)
    BY <1>6, <1>10 DEF Snug
  <2>2. CASE u = t
    BY <1>6, <2>2 DEF Covered
  <2>3. CASE u # t
    <3>1. (~loose'[u] /\ pc[u] = "decide")
            => Position(job[u].isolated)' = Position(job[u].isolated)
      BY <1>3, <1>6, <1>7, JobKnown
    <3> QED
      BY <1>6, <1>7, <1>8, <2>1, <2>3, <3>1, CoveredEases
  <2> QED
    BY <2>2, <2>3
<1> QED
  BY <1>5, <1>9, <1>10 DEF Snug

\* The inductive invariant: evaluations and rows.
EvalInv == EvalTypes /\ Reckoned /\ Snug

\* It holds in the initial state, where all sums are empty ...
LEMMA EvalInit == ASSUME Init PROVE EvalInv
<1>1. Existing = {} /\ Made = {}
  BY DEF Init, Existing, Made
<1>2. EvalTypes
  <2>1. told \in [Threads -> Int]
    BY DEF Init
  <2>2. loose \in [Threads -> BOOLEAN]
    BY DEF Init
  <2>3. excused \in BOOLEAN
    BY DEF Init
  <2> QED
    BY <2>1, <2>2, <2>3 DEF EvalTypes
<1>3. Reckoned
  BY <1>1 DEF Reckoned
<1>4. ASSUME NEW a \in BOOLEAN PROVE Within(a)
  <2>1. Position(a) = 0
    <3> DEFINE f == [x \in MadeFor(Account(a)) |-> SignedLots(x)]
    <3>1. DOMAIN f = {} /\ Position(a) = SumFunction(f)
      BY <1>1 DEF Position, PositionOf, MadeFor
    <3>2. SumFunction(f) = SumFunctionOnSet(f, {})
      BY <3>1 DEF SumFunction, FoldFunction, SumFunctionOnSet
    <3> QED
      BY <3>1, <3>2, SumEmpty
  <2>2. \A d \in Sides : Remaining(OpenOn(a, d)) = 0
    <3> SUFFICES ASSUME NEW d \in Sides PROVE Remaining(OpenOn(a, d)) = 0
      OBVIOUS
    <3> DEFINE f == [i \in OpenOn(a, d) |-> RemainderOf(i)]
    <3>1. DOMAIN f = {} /\ Remaining(OpenOn(a, d)) = SumFunction(f)
      BY <1>1 DEF Remaining, OpenOn, Open
    <3>2. SumFunction(f) = SumFunctionOnSet(f, {})
      BY <3>1 DEF SumFunction, FoldFunction, SumFunctionOnSet
    <3> QED
      BY <3>1, <3>2, SumEmpty
  <2> QED
    BY <2>1, <2>2, ExecsFinite DEF Within, Sides
<1>5. \A t \in Threads : Covered(t)
  BY DEF Init, Covered
<1> QED
  BY <1>2, <1>3, <1>4, <1>5 DEF EvalInv, Snug

\* ... the variables keep their types ...
LEMMA EvalTypesKept ==
  ASSUME IInv, EvalTypes, NEW t \in Threads, Request(t) \/ Call(t)
  PROVE  EvalTypes'
<1>1. ASSUME Return(t), UNCHANGED excused PROVE EvalTypes'
  BY <1>1 DEF EvalTypes, Return
<1>2. CASE CreateAccount(t)
  <2>2. PICK S \in Listed(job[t].isolated) : told' = [told EXCEPT ![t] = PositionOf(S)]
    BY <1>2 DEF CreateAccount
  <2>3. PositionOf(S) \in Int
    BY <2>2, PositionsAreNumbers DEF Listed, Account
  <2>4. told' \in [Threads -> Int] /\ excused' \in BOOLEAN
    BY <1>2, <2>2, <2>3 DEF CreateAccount, EvalTypes, notes
  <2>5. loose' \in [Threads -> BOOLEAN]
    BY <1>2 DEF CreateAccount, EvalTypes
  <2> QED
    BY <2>4, <2>5 DEF EvalTypes
<1>3. CASE CreateDecide(t)
  <2>1. told' \in [Threads -> Int] /\ excused' \in BOOLEAN
    BY <1>3 DEF CreateDecide, EvalTypes, notes
  <2>2. loose' \in [Threads -> BOOLEAN]
    BY <1>3 DEF CreateDecide, EvalTypes
  <2> QED
    BY <2>1, <2>2 DEF EvalTypes
<1>4. CASE CreateInsert(t)
  <2>1. told' \in [Threads -> Int]
    BY <1>4 DEF CreateInsert, EvalTypes
  <2>2. excused' \in BOOLEAN
    BY <1>4 DEF CreateInsert, EvalTypes
  <2>3. loose' \in [Threads -> BOOLEAN]
    BY <1>4 DEF CreateInsert, EvalTypes
  <2> QED
    BY <2>1, <2>2, <2>3 DEF EvalTypes
<1>5. CASE FillCommit(t)
  <2>1. told' \in [Threads -> Int] /\ excused' \in BOOLEAN
    BY <1>5 DEF FillCommit, EvalTypes
  <2>2. loose' \in [Threads -> BOOLEAN]
    BY <1>5 DEF FillCommit, EvalTypes
  <2> QED
    BY <2>1, <2>2 DEF EvalTypes
<1>6. CASE \/ ReviewWrite(t) \/ CreateRefused(t) \/ CreateConflict(t) \/ FillRefused(t)
           \/ FillIsolate(t) \/ SyncNote(t) \/ SyncFail(t)
  <2>1. Return(t) /\ UNCHANGED excused
    BY <1>6 DEF ReviewWrite, CreateRefused, CreateConflict, FillRefused, FillIsolate, SyncNote,
                SyncFail, notes
  <2> QED
    BY <1>1, <2>1
<1>7. CASE Call(t) \/ FillIsolated(t) \/ FillPick(t) \/ SyncBook(t) \/ SyncRaise(t)
  <2>1. UNCHANGED <<told, loose, excused>>
    BY <1>7 DEF Call, ReviewRead, CreateLookup, FillRead, SyncAgain, FillIsolated, FillPick, SyncBook,
                SyncRaise, locals, notes
  <2> QED
    BY <2>1 DEF EvalTypes
<1> QED
  BY <1>2, <1>3, <1>4, <1>5, <1>6, <1>7 DEF Request

\* ... and each step keeps it.
LEMMA EvalNext == ASSUME IInv, IInv', EvalInv, [Next]_vars PROVE EvalInv'
<1>1. EvalTypes /\ Reckoned /\ Snug
  BY DEF EvalInv
<1>2. ASSUME NEW t \in Threads, Request(t) \/ Call(t) PROVE EvalInv'
  <2>1. EvalTypes'
    BY <1>1, <1>2, EvalTypesKept
  <2>2. CASE CreateAccount(t)
    BY <1>1, <2>1, <2>2, AccountKeepsReckoning DEF EvalInv
  <2>3. CASE CreateDecide(t)
    BY <1>1, <2>1, <2>3, DecideKeepsReckoning DEF EvalInv
  <2>4. CASE CreateInsert(t)
    BY <1>1, <2>1, <2>4, InsertKeepsReckoning DEF EvalInv
  <2>5. CASE FillCommit(t)
    BY <1>1, <2>1, <2>5, CommitKeepsReckoning DEF EvalInv
  <2>6. CASE \/ ReviewWrite(t) \/ CreateRefused(t) \/ CreateConflict(t) \/ FillRefused(t)
             \/ FillIsolate(t) \/ SyncNote(t) \/ SyncFail(t)
    BY <1>1, <2>1, <2>6, AnswersKeepReckoning DEF EvalInv
  <2>7. CASE Call(t) \/ FillIsolated(t) \/ FillPick(t) \/ SyncBook(t) \/ SyncRaise(t)
    BY <1>1, <2>1, <2>7, OthersKeepReckoning DEF EvalInv, Call
  <2> QED
    BY <1>2, <2>2, <2>3, <2>4, <2>5, <2>6, <2>7 DEF Request
<1>3. ASSUME NEW i \in Intents, CancelOrder(i) PROVE EvalInv'
  <2>1. EvalTypes'
    BY <1>1, <1>3 DEF CancelOrder, EvalTypes, locals, notes
  <2> QED
    BY <1>1, <1>3, <2>1, CancelKeepsReckoning DEF EvalInv
<1>4. ASSUME UNCHANGED <<order, exec, excused>>,
             UNCHANGED <<pc, locals>> \/ Crash
      PROVE  EvalInv'
  <2>1. SameShares
    BY <1>4, QuietKeeps DEF Made
  <2>2. EvalTypes'
    <3>1. CASE UNCHANGED <<pc, locals>>
      BY <1>1, <1>4, <3>1 DEF EvalTypes, locals
    <3>2. CASE Crash
      <4>1. told' \in [Threads -> Int]
        BY <3>2 DEF Crash
      <4>2. loose' \in [Threads -> BOOLEAN]
        BY <3>2 DEF Crash
      <4>3. excused' \in BOOLEAN
        BY <1>1, <1>4 DEF EvalTypes
      <4> QED
        BY <4>1, <4>2, <4>3 DEF EvalTypes
    <3> QED
      BY <1>4, <3>1, <3>2
  <2>3. Reckoned'
    <3>1. Existing' = Existing /\ \A i \in Existing : i \in Intents
      BY <1>4 DEF Existing
    <3> QED
      BY <1>1, <1>4, <2>1, <3>1 DEF Reckoned, SameShares
  <2>4. ASSUME ~excused' PROVE \A a \in BOOLEAN : Within(a)'
    BY <1>1, <1>4, <2>1, <2>4 DEF Snug, Within, SameShares, Sides
  <2>5. ASSUME ~excused', NEW u \in Threads PROVE Covered(u)'
    <3>1. CASE Crash
      BY <3>1 DEF Crash, Covered
    <3>2. CASE UNCHANGED <<pc, locals>>
      BY <1>1, <1>4, <2>1, <2>5, <3>2, CoveredOn DEF Snug, locals
    <3> QED
      BY <1>4, <3>1, <3>2
  <2> QED
    BY <2>2, <2>3, <2>4, <2>5 DEF EvalInv, Snug
<1>5. CASE (\E s \in Signals : ExpireSignal(s)) \/ UNCHANGED vars
  <2>1. UNCHANGED <<order, exec, excused>> /\ UNCHANGED <<pc, locals>>
    BY <1>5 DEF ExpireSignal, vars, tables, locals, notes
  <2> QED
    BY <1>4, <2>1
<1>6. CASE \E x \in Execs, n \in {1, 2} : CorrectTrade(x, n)
  BY <1>4, <1>6 DEF CorrectTrade
<1>7. CASE Crash
  BY <1>4, <1>7 DEF Crash, tables
<1> QED
  BY <1>2, <1>3, <1>5, <1>6, <1>7 DEF Next

\* It is an invariant of the specification.
LEMMA Evaluated == Spec => []EvalInv
<1>1. Init => EvalInv
  BY EvalInit
<1>2. IInv /\ IInv' /\ EvalInv /\ [Next]_vars => EvalInv'
  BY EvalNext
<1> QED
  BY Inductive, <1>1, <1>2, PTL DEF Spec

-----------------------------------------------------------------------------
(* The average price of an order is that of its executions.                *)

\* What each execution contributes to the value of an order.
Cost(x, i) == IF x \in MadeFor({i}) THEN exec[x].lots * Prices[x] ELSE 0

Valued == \A i \in Existing : Value(i) = order[i].value

\* The costs are numbers, and what is paid for an order is their sum, before
\* a step ...
LEMMA ValuesNow ==
  ASSUME IInv
  PROVE  /\ \A x \in Execs, i \in Intents : Cost(x, i) \in Int
         /\ \A i \in Intents : /\ Value(i) = SumFunctionOnSet([x \in Execs |-> Cost(x, i)], Execs)
                               /\ Value(i) \in Int
<1>1. \A x \in Made : exec[x].lots * Prices[x] \in Nat
  BY RowsKnown, CostKnown
<1>2. \A x \in Execs, i \in Intents : Cost(x, i) \in Int
  BY <1>1 DEF Cost, MadeFor
<1>3. ASSUME NEW i \in Intents
      PROVE  /\ Value(i) = SumFunctionOnSet([x \in Execs |-> Cost(x, i)], Execs)
             /\ Value(i) \in Int
  <2> DEFINE T == MadeFor({i})
             f == [x \in T |-> exec[x].lots * Prices[x]]
             k == [x \in Execs |-> Cost(x, i)]
  <2>1. T \in SUBSET Execs
    BY DEF MadeFor, Made
  <2>2. \A x \in Execs : k[x] = IF x \in T THEN f[x] ELSE 0
    BY DEF Cost
  <2>3. \A x \in T : f[x] \in Int
    BY <1>1 DEF MadeFor
  <2>4. DOMAIN f = T /\ Value(i) = SumFunction(f)
    BY DEF Value
  <2> HIDE DEF T, f, k
  <2> QED
    BY <2>1, <2>2, <2>3, <2>4, ExecsFinite, SumMasked DEF k
<1> QED
  BY <1>2, <1>3

\* ... and after it.
LEMMA ValuesThen ==
  ASSUME IInv'
  PROVE  /\ \A x \in Execs, i \in Intents : Cost(x, i)' \in Int
         /\ \A i \in Intents : /\ Value(i)' = SumFunctionOnSet([x \in Execs |-> Cost(x, i)'], Execs)
                               /\ Value(i)' \in Int
<1>1. \A x \in Made' : exec'[x].lots * Prices[x] \in Nat
  <2> SUFFICES ASSUME NEW x \in Made' PROVE exec'[x].lots * Prices[x] \in Nat
    OBVIOUS
  <2>1. x \in Execs /\ exec'[x] \in ExecRow
    BY DEF IInv, TypeOK, Made
  <2>2. PICK n \in Nat : n = exec'[x].lots
    BY <2>1 DEF ExecRow
  <2> QED
    BY <2>1, <2>2, CostKnown
<1>2. \A x \in Execs, i \in Intents : Cost(x, i)' \in Int
  BY <1>1 DEF Cost, MadeFor
<1>3. ASSUME NEW i \in Intents
      PROVE  /\ Value(i)' = SumFunctionOnSet([x \in Execs |-> Cost(x, i)'], Execs)
             /\ Value(i)' \in Int
  <2> DEFINE T == MadeFor({i})'
             f == [x \in T |-> exec'[x].lots * Prices[x]]
             k == [x \in Execs |-> Cost(x, i)']
  <2>1. T \in SUBSET Execs
    BY DEF MadeFor, Made
  <2>2. \A x \in Execs : k[x] = IF x \in T THEN f[x] ELSE 0
    BY DEF Cost
  <2>3. \A x \in T : f[x] \in Int
    BY <1>1 DEF MadeFor
  <2>4. DOMAIN f = T /\ Value(i)' = SumFunction(f)
    BY DEF Value
  <2> HIDE DEF T, f, k
  <2> QED
    BY <2>1, <2>2, <2>3, <2>4, ExecsFinite, SumMasked DEF k
<1> QED
  BY <1>2, <1>3

\* What is paid for an order stays or moves with the one execution that does.
LEMMA ValueMoves ==
  ASSUME IInv, IInv', NEW i \in Intents
  PROVE  /\ (\A x \in Execs : Cost(x, i)' = Cost(x, i)) => Value(i)' = Value(i)
         /\ \A x \in Execs :
              (\A y \in Execs \ {x} : Cost(y, i)' = Cost(y, i))
                => Value(i)' = Value(i) + Cost(x, i)' - Cost(x, i)
<1> DEFINE f == [x \in Execs |-> Cost(x, i)]
           k == [x \in Execs |-> Cost(x, i)']
<1>1. /\ \A x \in Execs : f[x] = Cost(x, i) /\ f[x] \in Int
      /\ \A x \in Execs : k[x] = Cost(x, i)' /\ k[x] \in Int
  BY ValuesNow, ValuesThen
<1>2. Value(i) = SumFunctionOnSet(f, Execs) /\ Value(i)' = SumFunctionOnSet(k, Execs)
  BY ValuesNow, ValuesThen
<1> HIDE DEF f, k
<1>3. ASSUME \A x \in Execs : Cost(x, i)' = Cost(x, i) PROVE Value(i)' = Value(i)
  BY <1>1, <1>2, <1>3, ExecsFinite, SumSame
<1>4. ASSUME NEW x \in Execs, \A y \in Execs \ {x} : Cost(y, i)' = Cost(y, i)
      PROVE  Value(i)' = Value(i) + Cost(x, i)' - Cost(x, i)
  BY <1>1, <1>2, <1>4, ExecsFinite, SumChange
<1> QED
  BY <1>3, <1>4

\* A step that makes no execution keeps the averages, if it keeps those of the
\* orders there are and a new order starts with none.
LEMMA AveragesKept ==
  ASSUME IInv, IInv', Valued, Made' = Made,
         \A x \in Made : exec'[x].intent = exec[x].intent /\ exec'[x].lots = exec[x].lots,
         \A i \in Existing' : IF i \in Existing THEN order'[i].value = order[i].value
                              ELSE order'[i].value = 0
  PROVE  Valued'
<1>1. \A i \in Intents : Value(i)' = Value(i)
  <2>1. \A x \in Execs, i \in Intents : Cost(x, i)' = Cost(x, i)
    BY DEF Cost, MadeFor
  <2> QED
    BY <2>1, ValueMoves
<1>2. \A i \in Existing' : i \in Intents
  BY DEF Existing
<1>3. ASSUME NEW i \in Intents, i \notin Existing PROVE Value(i) = 0
  <2> DEFINE k == [x \in Execs |-> Cost(x, i)]
  <2>1. \A x \in Execs : k[x] = 0
    BY <1>3, RowsKnown DEF Cost, MadeFor
  <2>2. Value(i) = SumFunctionOnSet(k, Execs)
    BY <1>3, ValuesNow
  <2> HIDE DEF k
  <2> QED
    BY <2>1, <2>2, ExecsFinite, SumZero
<1> QED
  BY <1>1, <1>2, <1>3 DEF Valued

\* A fill adds what was paid for its lots to both.
LEMMA CommitKeepsAverages ==
  ASSUME IInv, IInv', Valued, NEW t \in Threads, FillCommit(t)
  PROVE  Valued'
<1> DEFINE i == job[t].intent
<1>1. PICK x \in Execs :
        /\ Free(x)
        /\ exec' = [exec EXCEPT ![x] = [intent |-> i, lots |-> lots[t], sync |-> "pending"]]
        /\ order' = [order EXCEPT ![i] =
             [request |-> order[i].request, filled |-> order[i].filled + lots[t],
              value |-> order[i].value + lots[t] * Prices[x],
              status |-> IF order[i].filled + lots[t] >= order[i].request.lots THEN "filled"
                         ELSE "partially_filled"]]
  BY DEF FillCommit
<1>2. /\ i \in Existing /\ Existing' = Existing /\ lots[t] \in Nat
      /\ \A j \in Existing \ {i} : order'[j] = order[j]
  BY CommitEffect
<1>3. i \in Intents
  BY <1>2 DEF Existing
<1>4. order'[i].value = order[i].value + lots[t] * Prices[x]
  BY <1>1, <1>3 DEF IInv, TypeOK
<1>5. /\ exec'[x] = [intent |-> i, lots |-> lots[t], sync |-> "pending"]
      /\ exec[x] = None /\ x \notin Made /\ \A y \in Execs : y # x => exec'[y] = exec[y]
  BY <1>1 DEF Free, Made, IInv, TypeOK
<1>6. Made' = Made \cup {x}
  <2>1. exec'[x] \in ExecRow
    BY <1>2, <1>3, <1>5 DEF ExecRow
  <2> QED
    BY <1>5, <2>1, SimulationAssumption DEF Made
<1> HIDE DEF i
<1>7. \A j \in Intents, y \in Execs \ {x} : Cost(y, j)' = Cost(y, j)
  BY <1>5, <1>6 DEF Cost, MadeFor
<1>8. \A j \in Intents : Cost(x, j) = 0 /\ Cost(x, j)' = IF j = i THEN lots[t] * Prices[x] ELSE 0
  BY <1>5, <1>6 DEF Cost, MadeFor
<1>9. ASSUME NEW j \in Existing PROVE Value(j)' = order'[j].value
  <2>1. j \in Intents /\ Value(j) = order[j].value
    BY DEF Existing, Valued
  <2>2. Value(j)' = Value(j) + Cost(x, j)' - Cost(x, j) /\ Value(j) \in Int
    BY <1>7, <2>1, ValueMoves, ValuesNow
  <2>3. CASE j = i
    <3>1. PICK c \in Nat : c = lots[t] * Prices[x]
      BY <1>2, CostKnown
    <3>2. Cost(x, j) = 0 /\ Cost(x, j)' = c
      BY <1>8, <2>1, <2>3, <3>1
    <3> QED
      BY <1>4, <2>1, <2>2, <2>3, <3>1, <3>2
  <2>4. CASE j # i
    <3>1. Cost(x, j) = 0 /\ Cost(x, j)' = 0
      BY <1>8, <2>1, <2>4
    <3> QED
      BY <1>2, <2>1, <2>2, <2>4, <3>1
  <2> QED
    BY <2>3, <2>4
<1> QED
  BY <1>2, <1>9 DEF Valued

\* What the sync status of an execution is does not matter to the averages.
LEMMA MarksKeepAverages ==
  ASSUME IInv, IInv', Valued, NEW t \in Threads,
         FillIsolate(t) \/ SyncNote(t) \/ SyncFail(t)
  PROVE  Valued'
<1> DEFINE x == work[t]
<1>1. pc[t] \in {"isolate", "note", "fail"} /\ UNCHANGED order
  BY DEF FillIsolate, SyncNote, SyncFail
<1>2. x \in Made /\ x \in Execs
  BY <1>1 DEF IInv, Stands, Made
<1>3. PICK status \in {"synced", "failed", "isolated"} : SetSync(x, status)
  BY DEF FillIsolate, SyncNote, SyncFail
<1>4. /\ exec'[x] = [intent |-> exec[x].intent, lots |-> exec[x].lots, sync |-> status]
      /\ \A y \in Execs : y # x => exec'[y] = exec[y]
  BY <1>2, <1>3 DEF SetSync, IInv, TypeOK
<1>5. exec'[x].intent = exec[x].intent /\ exec'[x].lots = exec[x].lots /\ exec'[x] # None
  <2>1. exec'[x] \in ExecRow
    BY <1>2, <1>4 DEF IInv, TypeOK, Made, ExecRow
  <2> QED
    BY <1>4, <2>1, SimulationAssumption
<1> HIDE DEF x
<1>6. Made' = Made
  BY <1>2, <1>4, <1>5 DEF Made
<1>7. \A y \in Made : exec'[y].intent = exec[y].intent /\ exec'[y].lots = exec[y].lots
  BY <1>4, <1>5 DEF Made
<1>8. Existing' = Existing
  BY <1>1 DEF Existing
<1> QED
  BY <1>1, <1>6, <1>7, <1>8, AveragesKept

\* Whatever happens, the average price of an order is that of its executions.
LEMMA AveragesNext == ASSUME IInv, IInv', Valued, [Next]_vars PROVE Valued'
<1>1. ASSUME UNCHANGED <<order, exec>> PROVE Valued'
  <2>1. Existing' = Existing /\ Made' = Made
    BY <1>1 DEF Existing, Made
  <2> QED
    BY <1>1, <2>1, AveragesKept
<1>2. ASSUME NEW t \in Threads, CreateInsert(t) PROVE Valued'
  <2>1. PICK r \in Requests : r = job[t]
    BY <1>2, JobKnown DEF CreateInsert
  <2>2. /\ Existing' = Existing \cup {r.intent} /\ r.intent \notin Existing
        /\ order'[r.intent] = [request |-> r, status |-> "pending", filled |-> 0, value |-> 0]
        /\ \A j \in Existing : order'[j] = order[j]
    BY <1>2, <2>1, InsertEffect
  <2>3. UNCHANGED exec /\ Made' = Made
    BY <1>2 DEF CreateInsert, Made
  <2> QED
    BY <2>2, <2>3, AveragesKept
<1>3. ASSUME NEW i \in Intents, CancelOrder(i) PROVE Valued'
  <2>1. Existing' = Existing
    BY <1>3, CancelEffect
  <2>2. UNCHANGED exec /\ Made' = Made
    BY <1>3 DEF CancelOrder, Made
  <2>3. /\ order'[i].value = order[i].value
        /\ \A j \in Intents \ {i} : order'[j] = order[j]
    BY <1>3 DEF CancelOrder, IInv, TypeOK
  <2>4. \A j \in Existing : order'[j].value = order[j].value
    BY <2>3 DEF Existing
  <2> QED
    BY <2>1, <2>2, <2>4, AveragesKept
<1>4. ASSUME NEW t \in Threads, Request(t) \/ Call(t) PROVE Valued'
  <2>1. CASE CreateInsert(t)
    BY <1>2, <2>1
  <2>2. CASE FillCommit(t)
    BY <2>2, CommitKeepsAverages
  <2>3. CASE FillIsolate(t) \/ SyncNote(t) \/ SyncFail(t)
    BY <2>3, MarksKeepAverages
  <2>4. CASE \/ ReviewWrite(t) \/ CreateAccount(t) \/ CreateDecide(t) \/ CreateRefused(t)
             \/ CreateConflict(t) \/ FillIsolated(t) \/ FillRefused(t) \/ FillPick(t)
             \/ SyncBook(t) \/ SyncRaise(t) \/ Call(t)
    <3>1. UNCHANGED <<order, exec>>
      BY <2>4 DEF ReviewWrite, CreateAccount, CreateDecide, CreateRefused, CreateConflict,
                  FillIsolated, FillRefused, FillPick, SyncBook, SyncRaise, Call, ReviewRead,
                  CreateLookup, FillRead, SyncAgain, tables
    <3> QED
      BY <1>1, <3>1
  <2> QED
    BY <1>4, <2>1, <2>2, <2>3, <2>4 DEF Request
<1>5. CASE \/ \E s \in Signals : ExpireSignal(s)
           \/ \E x \in Execs, n \in {1, 2} : CorrectTrade(x, n)
           \/ Crash \/ UNCHANGED vars
  <2>1. UNCHANGED <<order, exec>>
    BY <1>5 DEF ExpireSignal, CorrectTrade, Crash, vars, tables
  <2> QED
    BY <1>1, <2>1
<1> QED
  BY <1>3, <1>4, <1>5 DEF Next

\* It is an invariant of the specification.
LEMMA Averaged == Spec => []Valued
<1>1. Init => Valued
  BY DEF Init, Valued, Existing
<1>2. IInv /\ IInv' /\ Valued /\ [Next]_vars => Valued'
  BY AveragesNext
<1> QED
  BY Inductive, <1>1, <1>2, PTL DEF Spec

\* However fills, cancellations and restarts overlap, the filled quantity and
\* the average price of an order are those of its executions: account_snapshot
\* reconciles whichever orders it has listed, and no request is refused for
\* books that do not.
THEOREM BooksReconcile == Spec => []FillsAddUp
<1>1. IInv /\ EvalInv /\ Valued => FillsAddUp
  <2> SUFFICES ASSUME IInv, Reckoned, Valued PROVE FillsAddUp
    BY DEF EvalInv
  <2>1. ReconciledOf(Existing)
    BY DEF ReconciledOf, Reckoned, Valued
  <2> QED
    BY <2>1 DEF FillsAddUp, IInv, TablesOK, NotOverfilled
<1> QED
  BY <1>1, Inductive, Evaluated, Averaged, PTL

\* What is open on an account stays within the limit, if it is filled in
\* whatever order, as long as no order was accepted on an evaluation that others
\* had overtaken or that left orders out because the account has more than one
\* list (evaluate_risk, create_simulation_order, list_simulation_orders).
THEOREM ExposureIsKept == Spec => []ExposureHolds
<1>1. IInv /\ EvalInv => ExposureHolds
  <2> SUFFICES ASSUME IInv, Snug, ~excused, NEW a \in BOOLEAN
               PROVE  /\ Position(a) + Remaining(OpenOn(a, "buy")) <= Limit
                      /\ Position(a) - Remaining(OpenOn(a, "sell")) >= -Limit
    BY DEF EvalInv, ExposureHolds
  <2>1. Within(a)
    BY DEF Snug
  <2>2. PICK P \in Int, S \in Int : P = Position(a) /\ S = Remaining(OpenOn(a, "sell"))
    BY SumsNow DEF Sides
  <2>3. -Limit <= P - S => P - S >= -Limit
    BY <2>2, ExecsFinite
  <2> QED
    BY <2>1, <2>2, <2>3 DEF Within
<1> QED
  BY <1>1, Inductive, Evaluated, PTL

-----------------------------------------------------------------------------
(* What the operators of LedgerLots do to any sequence of trades.           *)

\* What the ledger works on: trades, positions, open lots and a book of them.
Trade    == [side : {"buy", "sell"}, quantity : Nat \ {0}, price : Nat]
Standing == [quantity : Int, cost : Int, realized : Int]
Lot      == [sign : {-1, 1}, price : Nat]
Book     == [open : Seq(Lot), closed : Int]

\* The direction of a trade, and its lots with it.
SignOf(trade) == IF trade.side = "buy" THEN 1 ELSE -1
Signed(trade) == IF trade.side = "buy" THEN trade.quantity ELSE -trade.quantity

\* A quotient of integers is one.
LEMMA Quotient == ASSUME NEW a \in Int, NEW b \in Nat \ {0} PROVE a \div b \in Int
  OBVIOUS

\* The average cost is a number.
LEMMA AddedType ==
  ASSUME NEW size \in Nat, NEW cost \in Int, NEW trade \in Trade
  PROVE  Added(size, cost, trade) \in Int
<1>1. PICK q \in Nat \ {0}, a \in Int : q = trade.quantity /\ a = trade.price
  BY DEF Trade
<1>2. size * cost \in Int /\ q * a * Scale \in Int
  BY DEF Scale
<1>3. size + q \in Nat \ {0} /\ size * cost + q * a * Scale \in Int
  BY <1>2
<1>4. (size * cost + q * a * Scale) \div (size + q) \in Int
  BY <1>3, Quotient
<1> QED
  BY <1>1, <1>4 DEF Added

\* The loop of account_snapshot and apply_trade do the same to a position.
LEMMA OneRule ==
  ASSUME NEW p \in Standing, NEW trade \in Trade
  PROVE  /\ ApplyTrade(p, trade) \in Standing
         /\ ApplyExecution(p, trade) = ApplyTrade(p, trade)
         /\ ApplyTrade(p, trade).quantity = p.quantity + Signed(trade)
<1>1. PICK q \in Int, c \in Int, r \in Int :
        q = p.quantity /\ c = p.cost /\ r = p.realized
  BY DEF Standing
<1>2. PICK n \in Nat \ {0}, at \in Int :
        n = trade.quantity /\ at = trade.price * Scale
  <2>1. trade.price * Scale \in Int
    BY DEF Trade, Scale
  <2> QED
    BY <2>1 DEF Trade
<1>3. CASE trade.side = "buy" /\ q >= 0
  <2>1. Added(-(-q), c, trade) = Added(q, c, trade) /\ Added(q, c, trade) \in Int
    <3>1. -(-q) = q /\ q \in Nat
      BY <1>3
    <3> QED
      BY <3>1, AddedType
  <2>2. ApplyTrade(p, trade) =
          [quantity |-> q + n, cost |-> Added(-(-q), c, trade), realized |-> r]
    BY <1>1, <1>2, <1>3 DEF ApplyTrade
  <2>3. ApplyExecution(p, trade) =
          [quantity |-> q + n, cost |-> Added(q, c, trade), realized |-> r]
    BY <1>1, <1>2, <1>3 DEF ApplyExecution
  <2> QED
    BY <1>1, <1>2, <1>3, <2>1, <2>2, <2>3 DEF Standing, Signed
<1>4. CASE trade.side = "buy" /\ q < 0
  <2> DEFINE k == IF n > -q THEN at ELSE IF n < -q THEN c ELSE 0
             g == r + Smaller(n, -q) * (c - at)
  <2>1. k \in Int /\ g \in Int
    BY DEF Smaller
  <2>2. ApplyTrade(p, trade) = [quantity |-> q + n, cost |-> k, realized |-> g]
    <3>1. n > -q => ApplyTrade(p, trade) = [quantity |-> q + n, cost |-> k, realized |-> g]
      BY <1>1, <1>2, <1>4 DEF ApplyTrade
    <3>2. n < -q => ApplyTrade(p, trade) = [quantity |-> q + n, cost |-> k, realized |-> g]
      BY <1>1, <1>2, <1>4 DEF ApplyTrade
    <3>3. n = -q => ApplyTrade(p, trade) = [quantity |-> q + n, cost |-> k, realized |-> g]
      BY <1>1, <1>2, <1>4 DEF ApplyTrade
    <3> QED
      BY <3>1, <3>2, <3>3
  <2>3. ApplyExecution(p, trade) = [quantity |-> q + n, cost |-> k, realized |-> g]
    BY <1>1, <1>2, <1>4 DEF ApplyExecution
  <2> HIDE DEF k, g
  <2> QED
    BY <1>1, <1>2, <1>4, <2>1, <2>2, <2>3 DEF Standing, Signed
<1>5. CASE trade.side = "sell" /\ q <= 0
  <2>1. Added(-q, c, trade) \in Int
    <3>1. -q \in Nat
      BY <1>5
    <3> QED
      BY <3>1, AddedType
  <2>2. ApplyTrade(p, trade) =
          [quantity |-> q - n, cost |-> Added(-q, c, trade), realized |-> r]
    BY <1>1, <1>2, <1>5 DEF ApplyTrade
  <2>3. ApplyExecution(p, trade) =
          [quantity |-> q - n, cost |-> Added(-q, c, trade), realized |-> r]
    BY <1>1, <1>2, <1>5 DEF ApplyExecution
  <2> QED
    BY <1>1, <1>2, <1>5, <2>1, <2>2, <2>3 DEF Standing, Signed
<1>6. CASE trade.side = "sell" /\ q > 0
  <2> DEFINE k == IF n > q THEN at ELSE IF n < q THEN c ELSE 0
             g == r + Smaller(n, q) * (at - c)
  <2>1. k \in Int /\ g \in Int
    BY DEF Smaller
  <2>2. ApplyTrade(p, trade) = [quantity |-> q - n, cost |-> k, realized |-> g]
    <3>1. n > q => ApplyTrade(p, trade) = [quantity |-> q - n, cost |-> k, realized |-> g]
      BY <1>1, <1>2, <1>6 DEF ApplyTrade
    <3>2. n < q => ApplyTrade(p, trade) = [quantity |-> q - n, cost |-> k, realized |-> g]
      BY <1>1, <1>2, <1>6 DEF ApplyTrade
    <3>3. n = q => ApplyTrade(p, trade) = [quantity |-> q - n, cost |-> k, realized |-> g]
      BY <1>1, <1>2, <1>6 DEF ApplyTrade
    <3> QED
      BY <3>1, <3>2, <3>3
  <2>3. ApplyExecution(p, trade) = [quantity |-> q - n, cost |-> k, realized |-> g]
    BY <1>1, <1>2, <1>6 DEF ApplyExecution
  <2> HIDE DEF k, g
  <2> QED
    BY <1>1, <1>2, <1>6, <2>1, <2>2, <2>3 DEF Standing, Signed
<1> QED
  BY <1>1, <1>3, <1>4, <1>5, <1>6 DEF Trade

\* compute_positions, trade by trade.
LEMMA ComputeSteps ==
  ASSUME NEW trades \in Seq(Trade)
  PROVE  \E c \in [0..Len(trades) -> Standing] :
           /\ c[0] = Flat /\ c[Len(trades)] = ComputePosition(trades)
           /\ \A k \in 1..Len(trades) : c[k] = ApplyTrade(c[k - 1], trades[k])
<1> DEFINE n == Len(trades)
           F == [x \in Standing \X (1..n) |-> ApplyTrade(x[1], trades[x[2]])]
           Folded(g) == g = [s \in SUBSET (DOMAIN trades) |->
                               IF s = {} THEN Flat
                               ELSE ApplyTrade(g[s \ {Max(s)}], trades[Max(s)])]
           h == CHOOSE g : Folded(g)
<1>1. n \in Nat /\ DOMAIN trades = 1..n
  OBVIOUS
<1>2. ASSUME NEW a \in Standing, NEW k \in 1..n PROVE ApplyTrade(a, trades[k]) \in Standing
  BY OneRule
<1>3. F \in [Standing \X (1..n) -> Standing] /\ Flat \in Standing
  <2>1. Flat \in Standing
    BY DEF Standing, Flat
  <2> QED
    BY <1>2, <2>1
<1>4. ASSUME NEW a \in Standing, NEW k \in 1..n PROVE F[<<a, k>>] = ApplyTrade(a, trades[k])
  OBVIOUS
<1>5. \E g : Folded(g)
  <2>1. PICK g \in [SUBSET (1..n) -> Standing] : Folds(g, Flat, F, n)
    <3> HIDE DEF F
    <3> QED
      BY <1>1, <1>3, FoldExists
  <2>2. ASSUME NEW s \in SUBSET (1..n), s # {}
        PROVE  g[s] = ApplyTrade(g[s \ {Max(s)}], trades[Max(s)])
    <3>1. g[s] = F[<<g[s \ {Max(s)}], Max(s)>>]
      BY <2>1, <2>2 DEF Folds
    <3>2. g[s \ {Max(s)}] \in Standing /\ Max(s) \in 1..n
      BY <1>1, <2>1, <2>2, TopIsOne
    <3> HIDE DEF F
    <3> QED
      BY <1>4, <3>1, <3>2
  <2>3. g[{}] = Flat
    BY <2>1 DEF Folds
  <2>4. Folded(g)
    BY <1>1, <2>1, <2>2, <2>3
  <2> QED
    BY <2>4
<1>6. Folded(h)
  <2> HIDE DEF Folded
  <2> QED
    BY <1>5
<1>7. ComputePosition(trades) = h[1..n]
  BY <1>1 DEF ComputePosition, FoldLeft, MapThenFoldSet
<1>8. h[{}] = Flat
  <2> HIDE DEF h
  <2> QED
    BY <1>6
<1>9. ASSUME NEW s \in SUBSET (1..n), s # {}, h[s \ {Max(s)}] \in Standing
      PROVE  h[s] = F[<<h[s \ {Max(s)}], Max(s)>>]
  <2> HIDE DEF h
  <2>1. h[s] = ApplyTrade(h[s \ {Max(s)}], trades[Max(s)])
    BY <1>1, <1>6, <1>9
  <2>2. Max(s) \in 1..n
    BY <1>1, <1>9, TopIsOne
  <2> HIDE DEF F
  <2> QED
    BY <1>4, <1>9, <2>1, <2>2
<1>10. PICK c : Walks(c, Standing, Flat, F, n) /\ c[n] = h[1..n]
  <2>1. FoldsIn(h, Standing, Flat, F, n)
    <3> HIDE DEF F, h
    <3> QED
      BY <1>3, <1>8, <1>9 DEF FoldsIn
  <2> HIDE DEF F, h, n, Folded
  <2> QED
    BY <1>1, <2>1, FoldWalk
<1>11. ASSUME NEW k \in 1..n PROVE c[k] = ApplyTrade(c[k - 1], trades[k])
  <2>1. k - 1 \in 0..n
    BY <1>1
  <2>2. c[k - 1] \in Standing /\ c[k] = F[<<c[k - 1], k>>]
    BY <1>10, <2>1 DEF Walks
  <2> HIDE DEF F
  <2> QED
    BY <1>4, <2>2
<1> HIDE DEF h
<1> QED
  BY <1>7, <1>10, <1>11 DEF Walks

\* The loop of account_snapshot, execution by execution.
LEMMA AccountSteps ==
  ASSUME NEW trades \in Seq(Trade)
  PROVE  \E c \in [0..Len(trades) -> Standing] :
           /\ c[0] = Flat /\ c[Len(trades)] = AccountPosition(trades)
           /\ \A k \in 1..Len(trades) : c[k] = ApplyExecution(c[k - 1], trades[k])
<1> DEFINE n == Len(trades)
           F == [x \in Standing \X (1..n) |-> ApplyExecution(x[1], trades[x[2]])]
           Folded(g) == g = [s \in SUBSET (DOMAIN trades) |->
                               IF s = {} THEN Flat
                               ELSE ApplyExecution(g[s \ {Max(s)}], trades[Max(s)])]
           h == CHOOSE g : Folded(g)
<1>1. n \in Nat /\ DOMAIN trades = 1..n
  OBVIOUS
<1>2. ASSUME NEW a \in Standing, NEW k \in 1..n PROVE ApplyExecution(a, trades[k]) \in Standing
  BY OneRule
<1>3. F \in [Standing \X (1..n) -> Standing] /\ Flat \in Standing
  <2>1. Flat \in Standing
    BY DEF Standing, Flat
  <2> QED
    BY <1>2, <2>1
<1>4. ASSUME NEW a \in Standing, NEW k \in 1..n PROVE F[<<a, k>>] = ApplyExecution(a, trades[k])
  OBVIOUS
<1>5. \E g : Folded(g)
  <2>1. PICK g \in [SUBSET (1..n) -> Standing] : Folds(g, Flat, F, n)
    <3> HIDE DEF F
    <3> QED
      BY <1>1, <1>3, FoldExists
  <2>2. ASSUME NEW s \in SUBSET (1..n), s # {}
        PROVE  g[s] = ApplyExecution(g[s \ {Max(s)}], trades[Max(s)])
    <3>1. g[s] = F[<<g[s \ {Max(s)}], Max(s)>>]
      BY <2>1, <2>2 DEF Folds
    <3>2. g[s \ {Max(s)}] \in Standing /\ Max(s) \in 1..n
      BY <1>1, <2>1, <2>2, TopIsOne
    <3> HIDE DEF F
    <3> QED
      BY <1>4, <3>1, <3>2
  <2>3. g[{}] = Flat
    BY <2>1 DEF Folds
  <2>4. Folded(g)
    BY <1>1, <2>1, <2>2, <2>3
  <2> QED
    BY <2>4
<1>6. Folded(h)
  <2> HIDE DEF Folded
  <2> QED
    BY <1>5
<1>7. AccountPosition(trades) = h[1..n]
  BY <1>1 DEF AccountPosition, FoldLeft, MapThenFoldSet
<1>8. h[{}] = Flat
  <2> HIDE DEF h
  <2> QED
    BY <1>6
<1>9. ASSUME NEW s \in SUBSET (1..n), s # {}, h[s \ {Max(s)}] \in Standing
      PROVE  h[s] = F[<<h[s \ {Max(s)}], Max(s)>>]
  <2> HIDE DEF h
  <2>1. h[s] = ApplyExecution(h[s \ {Max(s)}], trades[Max(s)])
    BY <1>1, <1>6, <1>9
  <2>2. Max(s) \in 1..n
    BY <1>1, <1>9, TopIsOne
  <2> HIDE DEF F
  <2> QED
    BY <1>4, <1>9, <2>1, <2>2
<1>10. PICK c : Walks(c, Standing, Flat, F, n) /\ c[n] = h[1..n]
  <2>1. FoldsIn(h, Standing, Flat, F, n)
    <3> HIDE DEF F, h
    <3> QED
      BY <1>3, <1>8, <1>9 DEF FoldsIn
  <2> HIDE DEF F, h, n, Folded
  <2> QED
    BY <1>1, <2>1, FoldWalk
<1>11. ASSUME NEW k \in 1..n PROVE c[k] = ApplyExecution(c[k - 1], trades[k])
  <2>1. k - 1 \in 0..n
    BY <1>1
  <2>2. c[k - 1] \in Standing /\ c[k] = F[<<c[k - 1], k>>]
    BY <1>10, <2>1 DEF Walks
  <2> HIDE DEF F
  <2> QED
    BY <1>4, <2>2
<1> HIDE DEF h
<1> QED
  BY <1>7, <1>10, <1>11 DEF Walks

\* What a sequence of trades adds up to.
Net(trades) == SumFunction([n \in DOMAIN trades |-> Signed(trades[n])])

\* The position the account arrives at is the ledger's, and its quantity is
\* what the trades add up to.
LEMMA OnePosition ==
  ASSUME NEW trades \in Seq(Trade)
  PROVE  /\ AccountPosition(trades) = ComputePosition(trades)
         /\ AccountPosition(trades).quantity = Net(trades)
<1> DEFINE n == Len(trades)
           s == [k \in DOMAIN trades |-> Signed(trades[k])]
<1>1. n \in Nat /\ DOMAIN trades = 1..n /\ \A k \in 1..n : trades[k] \in Trade
  OBVIOUS
<1>2. s \in [1..n -> Int] /\ \A k \in 1..n : s[k] = Signed(trades[k])
  BY <1>1 DEF Signed, Trade
<1>3. PICK c \in [0..n -> Standing] :
        /\ c[0] = Flat /\ c[n] = ComputePosition(trades)
        /\ \A k \in 1..n : c[k] = ApplyTrade(c[k - 1], trades[k])
  BY ComputeSteps
<1>4. PICK a \in [0..n -> Standing] :
        /\ a[0] = Flat /\ a[n] = AccountPosition(trades)
        /\ \A k \in 1..n : a[k] = ApplyExecution(a[k - 1], trades[k])
  BY AccountSteps
<1>5. Net(trades) = SumFunctionOnSet(s, 1..n)
  BY <1>1, <1>2, SumWhole DEF Net
<1> HIDE DEF n, s
<1> DEFINE T == {k \in 0..n : a[k] = c[k] /\ a[k].quantity = SumFunctionOnSet(s, 1..k)}
<1>6. 0 \in T
  <2>1. 1..0 = {} /\ 0 \in 0..n
    BY <1>1
  <2>2. SumFunctionOnSet(s, 1..0) = 0
    BY <2>1, SumEmpty
  <2> QED
    BY <1>3, <1>4, <2>1, <2>2 DEF Flat
<1>7. ASSUME NEW k \in 1..n, k - 1 \in T PROVE k \in T
  <2>1. PICK j \in Nat : k = j + 1 /\ j = k - 1 /\ j \in 0..n /\ k \in 0..n
    <3>1. k - 1 \in Nat /\ k = (k - 1) + 1 /\ k - 1 \in 0..n
      BY <1>1
    <3> QED
      BY <3>1
  <2>2. a[j] = c[j] /\ a[j].quantity = SumFunctionOnSet(s, 1..j) /\ a[j] \in Standing
    BY <1>4, <1>7, <2>1
  <2>3. a[k] = c[k] /\ a[k].quantity = a[j].quantity + Signed(trades[k])
    <3>1. PICK trade \in Trade : trade = trades[k]
      BY <1>1
    <3>2. c[k] = ApplyTrade(c[j], trade) /\ a[k] = ApplyExecution(a[j], trade)
      BY <1>3, <1>4, <2>1, <3>1
    <3> QED
      BY <2>2, <3>1, <3>2, OneRule
  <2>4. SumFunctionOnSet(s, 1..k) = SumFunctionOnSet(s, 1..j) + s[k]
    <3>1. \A i \in 1..(j + 1) : s[i] \in Int
      BY <1>1, <1>2, <2>1
    <3> QED
      BY <2>1, <3>1, SumExtend
  <2> QED
    BY <1>2, <2>1, <2>2, <2>3, <2>4
<1>8. 0..n \subseteq T
  <2> HIDE DEF T
  <2> QED
    BY <1>1, <1>6, <1>7, CountTo
<1>9. n \in T
  BY <1>1, <1>8
<1> QED
  BY <1>3, <1>4, <1>5, <1>9

\* The book before the first trade.
NoLots == [open |-> <<>>, closed |-> 0]

\* What a book of lots stands for: the result of the matched lots less what
\* the open ones cost.
Balance(m) == m.closed - OpenLotsAtCost(m)

\* The open lots add up to numbers.
LEMMA BookSums ==
  ASSUME NEW m \in Book
  PROVE  /\ Len(m.open) \in Nat /\ DOMAIN m.open = 1..Len(m.open)
         /\ [n \in DOMAIN m.open |-> m.open[n].sign] \in [1..Len(m.open) -> Int]
         /\ [n \in DOMAIN m.open |-> m.open[n].sign * m.open[n].price * Scale]
              \in [1..Len(m.open) -> Int]
         /\ OpenLots(m) \in Int /\ OpenLotsAtCost(m) \in Int /\ m.closed \in Int
<1>1. /\ m.open \in Seq(Lot) /\ Len(m.open) \in Nat /\ DOMAIN m.open = 1..Len(m.open)
      /\ m.closed \in Int
  BY DEF Book
<1>2. ASSUME NEW n \in 1..Len(m.open)
      PROVE  m.open[n].sign \in Int /\ m.open[n].sign * m.open[n].price * Scale \in Int
  <2>1. m.open[n] \in Lot
    BY <1>1
  <2>2. m.open[n].sign \in Int /\ m.open[n].price \in Int
    BY <2>1 DEF Lot
  <2> QED
    BY <2>2 DEF Scale
<1>3. [n \in DOMAIN m.open |-> m.open[n].sign] \in [1..Len(m.open) -> Int]
  BY <1>1, <1>2
<1>4. [n \in DOMAIN m.open |-> m.open[n].sign * m.open[n].price * Scale]
        \in [1..Len(m.open) -> Int]
  BY <1>1, <1>2
<1> QED
  BY <1>1, <1>3, <1>4, SumWhole DEF OpenLots, OpenLotsAtCost

\* A lot is opened.
LEMMA LotOpened ==
  ASSUME NEW m \in Book, NEW lot \in Lot, NEW a, a.open = Append(m.open, lot),
         a.closed = m.closed, a \in Book
  PROVE  /\ OpenLots(a) = OpenLots(m) + lot.sign
         /\ OpenLotsAtCost(a) = OpenLotsAtCost(m) + lot.sign * lot.price * Scale
<1> DEFINE n == Len(m.open)
           f == [k \in DOMAIN m.open |-> m.open[k].sign]
           g == [k \in DOMAIN a.open |-> a.open[k].sign]
           F == [k \in DOMAIN m.open |-> m.open[k].sign * m.open[k].price * Scale]
           G == [k \in DOMAIN a.open |-> a.open[k].sign * a.open[k].price * Scale]
<1>1. /\ n \in Nat /\ Len(a.open) = n + 1 /\ a.open[n + 1] = lot
      /\ \A k \in 1..n : a.open[k] = m.open[k]
  BY DEF Book
<1>2. /\ f \in [1..n -> Int] /\ g \in [1..(n + 1) -> Int]
      /\ F \in [1..n -> Int] /\ G \in [1..(n + 1) -> Int]
      /\ DOMAIN m.open = 1..n /\ DOMAIN a.open = 1..(n + 1)
  BY <1>1, BookSums
<1>3. /\ \A k \in 1..n : g[k] = f[k] /\ G[k] = F[k]
      /\ g[n + 1] = lot.sign /\ G[n + 1] = lot.sign * lot.price * Scale
  BY <1>1, <1>2
<1>4. /\ OpenLots(m) = SumFunction(f) /\ OpenLots(a) = SumFunction(g)
      /\ OpenLotsAtCost(m) = SumFunction(F) /\ OpenLotsAtCost(a) = SumFunction(G)
  BY DEF OpenLots, OpenLotsAtCost
<1> HIDE DEF n, f, g, F, G
<1>5. SumFunction(g) = SumFunction(f) + g[n + 1]
  BY <1>1, <1>2, <1>3, SumAppend
<1>6. SumFunction(G) = SumFunction(F) + G[n + 1]
  BY <1>1, <1>2, <1>3, SumAppend
<1> QED
  BY <1>3, <1>4, <1>5, <1>6

\* The oldest lot is closed.
LEMMA LotClosed ==
  ASSUME NEW m \in Book, m.open # <<>>, NEW a \in Book, a.open = Tail(m.open)
  PROVE  /\ Head(m.open) \in Lot
         /\ OpenLots(m) = Head(m.open).sign + OpenLots(a)
         /\ OpenLotsAtCost(m) = Head(m.open).sign * Head(m.open).price * Scale
                                + OpenLotsAtCost(a)
<1> DEFINE n == Len(a.open)
           f == [k \in DOMAIN m.open |-> m.open[k].sign]
           g == [k \in DOMAIN a.open |-> a.open[k].sign]
           F == [k \in DOMAIN m.open |-> m.open[k].sign * m.open[k].price * Scale]
           G == [k \in DOMAIN a.open |-> a.open[k].sign * a.open[k].price * Scale]
<1>1. /\ n \in Nat /\ Len(m.open) = n + 1 /\ Head(m.open) = m.open[1]
      /\ \A k \in 1..n : a.open[k] = m.open[k + 1]
  BY DEF Book
<1>2. /\ g \in [1..n -> Int] /\ f \in [1..(n + 1) -> Int]
      /\ G \in [1..n -> Int] /\ F \in [1..(n + 1) -> Int]
      /\ DOMAIN a.open = 1..n /\ DOMAIN m.open = 1..(n + 1)
  BY <1>1, BookSums
<1>3. /\ \A k \in 1..n : g[k] = f[k + 1] /\ G[k] = F[k + 1]
      /\ f[1] = m.open[1].sign /\ F[1] = m.open[1].sign * m.open[1].price * Scale
  BY <1>1, <1>2
<1>4. /\ OpenLots(m) = SumFunction(f) /\ OpenLots(a) = SumFunction(g)
      /\ OpenLotsAtCost(m) = SumFunction(F) /\ OpenLotsAtCost(a) = SumFunction(G)
  BY DEF OpenLots, OpenLotsAtCost
<1>5. Head(m.open) \in Lot
  BY <1>1 DEF Book
<1> HIDE DEF n, f, g, F, G
<1>6. SumFunction(f) = f[1] + SumFunction(g)
  BY <1>1, <1>2, <1>3, SumTail
<1>7. SumFunction(F) = F[1] + SumFunction(G)
  BY <1>1, <1>2, <1>3, SumTail
<1> QED
  BY <1>1, <1>3, <1>4, <1>5, <1>6, <1>7

\* One lot of a trade moves what is open by its sign, and the balance by what
\* it is bought or sold for, whether it opens or closes.
LEMMA MatchLotEffect ==
  ASSUME NEW m \in Book, NEW trade \in Trade
  PROVE  /\ MatchLot(m, trade) \in Book
         /\ OpenLots(MatchLot(m, trade)) = OpenLots(m) + SignOf(trade)
         /\ Balance(MatchLot(m, trade)) = Balance(m) - SignOf(trade) * trade.price * Scale
<1> DEFINE a == MatchLot(m, trade)
           s == SignOf(trade)
<1>1. s \in {-1, 1} /\ trade.price \in Nat
  BY DEF SignOf, Trade
<1>2. m.open \in Seq(Lot) /\ m.closed \in Int /\ OpenLots(m) \in Int /\ OpenLotsAtCost(m) \in Int
  BY BookSums DEF Book
<1>3. CASE m.open # <<>> /\ Head(m.open).sign # s
  <2>1. PICK h \in Lot : h = Head(m.open)
    BY <1>2, <1>3
  <2>2. h.sign = -s /\ h.price \in Nat
    BY <1>1, <1>3, <2>1 DEF Lot
  <2>3. a = [open |-> Tail(m.open),
             closed |-> m.closed + h.sign * (trade.price - h.price) * Scale]
    BY <1>3, <2>1 DEF MatchLot, SignOf
  <2>4. h.sign * (trade.price - h.price) * Scale \in Int
    BY <1>1, <2>2 DEF Scale
  <2>5. a \in Book /\ a.open = Tail(m.open)
    BY <1>2, <1>3, <2>3, <2>4 DEF Book
  <2> HIDE DEF a, s
  <2>6. /\ OpenLots(m) = h.sign + OpenLots(a)
        /\ OpenLotsAtCost(m) = h.sign * h.price * Scale + OpenLotsAtCost(a)
        /\ OpenLots(a) \in Int /\ OpenLotsAtCost(a) \in Int
    BY <1>3, <2>1, <2>5, LotClosed, BookSums
  <2>7. OpenLots(a) = OpenLots(m) + s
    BY <1>1, <1>2, <2>2, <2>6
  <2>8. (m.closed + h.sign * (trade.price - h.price) * Scale) - OpenLotsAtCost(a)
          = m.closed - OpenLotsAtCost(m) - s * trade.price * Scale
    <3>1. PICK p \in Int, q \in Int, x \in Int, y \in Int, z \in Int :
            /\ p = trade.price /\ q = h.price /\ x = OpenLotsAtCost(m)
            /\ y = OpenLotsAtCost(a) /\ z = m.closed
      <4>1. trade.price \in Int /\ h.price \in Int
        BY <1>1, <2>2
      <4>2. OpenLotsAtCost(m) \in Int /\ OpenLotsAtCost(a) \in Int /\ m.closed \in Int
        BY <1>2, <2>6
      <4> QED
        BY <4>1, <4>2
    <3>2. x = (-s) * q * Scale + y
      BY <2>2, <2>6, <3>1
    <3>3. (z + (-s) * (p - q) * Scale) - y = z - x - s * p * Scale
      <4>1. CASE s = 1
        BY <3>2, <4>1 DEF Scale
      <4>2. CASE s = -1
        BY <3>2, <4>2 DEF Scale
      <4> QED
        BY <1>1, <4>1, <4>2
    <3> QED
      BY <2>2, <3>1, <3>3
  <2>9. Balance(a) = Balance(m) - s * trade.price * Scale
    <3>1. a.closed = m.closed + h.sign * (trade.price - h.price) * Scale
      BY <2>3
    <3>2. a.closed - OpenLotsAtCost(a)
            = m.closed - OpenLotsAtCost(m) - s * trade.price * Scale
      BY <2>8, <3>1, Zenon
    <3> QED
      BY <3>2, Zenon DEF Balance
  <2> QED
    BY <2>5, <2>7, <2>9 DEF a, s
<1>4. CASE ~(m.open # <<>> /\ Head(m.open).sign # s)
  <2> DEFINE lot == [sign |-> s, price |-> trade.price]
  <2>1. lot \in Lot /\ lot.sign = s /\ lot.price = trade.price
    BY <1>1 DEF Lot
  <2>2. a = [open |-> Append(m.open, lot), closed |-> m.closed]
    BY <1>4 DEF MatchLot, SignOf
  <2>3. a \in Book /\ a.open = Append(m.open, lot) /\ a.closed = m.closed
    BY <1>2, <2>1, <2>2 DEF Book
  <2> HIDE DEF a, s, lot
  <2>4. /\ OpenLots(a) = OpenLots(m) + s
        /\ OpenLotsAtCost(a) = OpenLotsAtCost(m) + s * trade.price * Scale
    BY <2>1, <2>3, LotOpened
  <2>5. m.closed - OpenLotsAtCost(a) = m.closed - OpenLotsAtCost(m) - s * trade.price * Scale
    <3>1. PICK w \in Int : w = s * trade.price * Scale
      BY <1>1 DEF Scale
    <3> QED
      BY <1>2, <2>4, <3>1
  <2> QED
    BY <2>3, <2>4, <2>5 DEF Balance, a, s
<1> QED
  BY <1>3, <1>4

\* A trade is matched lot by lot.
LEMMA LotSteps ==
  ASSUME NEW m \in Book, NEW trade \in Trade
  PROVE  \E c \in [0..trade.quantity -> Book] :
           /\ c[0] = m /\ c[trade.quantity] = MatchTrade(m, trade)
           /\ \A k \in 1..trade.quantity : c[k] = MatchLot(c[k - 1], trade)
<1> DEFINE n == trade.quantity
           F == [x \in Book \X (1..n) |-> MatchLot(x[1], trade)]
           Folded(g) == g = [s \in SUBSET (DOMAIN [i \in 1..trade.quantity |-> i]) |->
                               IF s = {} THEN m
                               ELSE MatchLot(g[s \ {Max(s)}], trade)]
           h == CHOOSE g : Folded(g)
<1>1. n \in Nat /\ DOMAIN [i \in 1..trade.quantity |-> i] = 1..n
  BY DEF Trade
<1>2. ASSUME NEW a \in Book, NEW k \in 1..n PROVE MatchLot(a, trade) \in Book
  BY MatchLotEffect
<1>3. F \in [Book \X (1..n) -> Book] /\ m \in Book
  <2>1. m \in Book
    BY DEF Book
  <2> QED
    BY <1>2, <2>1
<1>4. ASSUME NEW a \in Book, NEW k \in 1..n PROVE F[<<a, k>>] = MatchLot(a, trade)
  OBVIOUS
<1>5. \E g : Folded(g)
  <2>1. PICK g \in [SUBSET (1..n) -> Book] : Folds(g, m, F, n)
    <3> HIDE DEF F
    <3> QED
      BY <1>1, <1>3, FoldExists
  <2>2. ASSUME NEW s \in SUBSET (1..n), s # {}
        PROVE  g[s] = MatchLot(g[s \ {Max(s)}], trade)
    <3>1. g[s] = F[<<g[s \ {Max(s)}], Max(s)>>]
      BY <2>1, <2>2 DEF Folds
    <3>2. g[s \ {Max(s)}] \in Book /\ Max(s) \in 1..n
      BY <1>1, <2>1, <2>2, TopIsOne
    <3> HIDE DEF F
    <3> QED
      BY <1>4, <3>1, <3>2
  <2>3. g[{}] = m
    BY <2>1 DEF Folds
  <2>4. Folded(g)
    BY <1>1, <2>1, <2>2, <2>3
  <2> QED
    BY <2>4
<1>6. Folded(h)
  <2> HIDE DEF Folded
  <2> QED
    BY <1>5
<1>7. MatchTrade(m, trade) = h[1..n]
  BY <1>1 DEF MatchTrade, FoldLeft, MapThenFoldSet
<1>8. h[{}] = m
  <2> HIDE DEF h
  <2> QED
    BY <1>6
<1>9. ASSUME NEW s \in SUBSET (1..n), s # {}, h[s \ {Max(s)}] \in Book
      PROVE  h[s] = F[<<h[s \ {Max(s)}], Max(s)>>]
  <2> HIDE DEF h
  <2>1. h[s] = MatchLot(h[s \ {Max(s)}], trade)
    BY <1>1, <1>6, <1>9
  <2>2. Max(s) \in 1..n
    BY <1>1, <1>9, TopIsOne
  <2> HIDE DEF F
  <2> QED
    BY <1>4, <1>9, <2>1, <2>2
<1>10. PICK c : Walks(c, Book, m, F, n) /\ c[n] = h[1..n]
  <2>1. FoldsIn(h, Book, m, F, n)
    <3> HIDE DEF F, h
    <3> QED
      BY <1>3, <1>8, <1>9 DEF FoldsIn
  <2> HIDE DEF F, h, n, Folded
  <2> QED
    BY <1>1, <2>1, FoldWalk
<1>11. ASSUME NEW k \in 1..n PROVE c[k] = MatchLot(c[k - 1], trade)
  <2>1. k - 1 \in 0..n
    BY <1>1
  <2>2. c[k - 1] \in Book /\ c[k] = F[<<c[k - 1], k>>]
    BY <1>10, <2>1 DEF Walks
  <2> HIDE DEF F
  <2> QED
    BY <1>4, <2>2
<1> HIDE DEF h
<1> QED
  BY <1>7, <1>10, <1>11 DEF Walks

\* A trade moves what is open by its quantity, and the balance by what is
\* paid or received for it.
LEMMA MatchTradeEffect ==
  ASSUME NEW m \in Book, NEW trade \in Trade
  PROVE  /\ MatchTrade(m, trade) \in Book
         /\ OpenLots(MatchTrade(m, trade)) = OpenLots(m) + Signed(trade)
         /\ Balance(MatchTrade(m, trade)) = Balance(m) + Paid(trade)
<1>1. PICK n \in Nat, p \in Nat, s \in {-1, 1} :
        n = trade.quantity /\ p = trade.price /\ s = SignOf(trade)
  BY DEF Trade, SignOf
<1>2. PICK w \in Int : w = s * p * Scale
  BY DEF Scale
<1>3. PICK c \in [0..n -> Book] :
        /\ c[0] = m /\ c[n] = MatchTrade(m, trade)
        /\ \A k \in 1..n : c[k] = MatchLot(c[k - 1], trade)
  BY <1>1, LotSteps
<1>4. PICK o \in Int, b \in Int : o = OpenLots(m) /\ b = Balance(m)
  BY BookSums DEF Balance
<1> DEFINE T == {k \in 0..n : OpenLots(c[k]) = o + k * s /\ Balance(c[k]) = b - k * w}
<1>5. 0 \in T
  BY <1>3, <1>4
<1>6. ASSUME NEW k \in 1..n, k - 1 \in T PROVE k \in T
  <2>1. c[k - 1] \in Book /\ c[k] = MatchLot(c[k - 1], trade)
    BY <1>3
  <2>2. OpenLots(c[k - 1]) = o + (k - 1) * s /\ Balance(c[k - 1]) = b - (k - 1) * w
    BY <1>6
  <2>3. OpenLots(c[k]) = OpenLots(c[k - 1]) + s /\ Balance(c[k]) = Balance(c[k - 1]) - w
    BY <1>1, <1>2, <2>1, MatchLotEffect
  <2>4. (k - 1) * s + s = k * s /\ (k - 1) * w + w = k * w
    OBVIOUS
  <2>5. o + (k - 1) * s + s = o + k * s
    BY <2>4
  <2>6. b - (k - 1) * w - w = b - k * w
    BY <2>4
  <2> QED
    BY <2>2, <2>3, <2>5, <2>6
<1>7. 0..n \subseteq T
  <2> HIDE DEF T
  <2> QED
    BY <1>5, <1>6, CountTo
<1>8. n \in T
  BY <1>7
<1>9. n * s = Signed(trade) /\ -(n * w) = Paid(trade)
  <2>1. CASE trade.side = "buy"
    <3>1. s = 1 /\ n * s = n
      BY <1>1, <2>1 DEF SignOf
    <3>2. w = p * Scale /\ -(n * w) = (-1) * n * p * Scale
      BY <1>2, <3>1 DEF Scale
    <3> QED
      BY <1>1, <2>1, <3>1, <3>2 DEF Signed, Paid
  <2>2. CASE trade.side # "buy"
    <3>1. s = -1 /\ n * s = -n
      BY <1>1, <2>2 DEF SignOf
    <3>2. w = -(p * Scale) /\ -(n * w) = 1 * n * p * Scale
      BY <1>2, <3>1 DEF Scale
    <3> QED
      BY <1>1, <2>2, <3>1, <3>2 DEF Signed, Paid
  <2> QED
    BY <2>1, <2>2
<1>10. o + n * s = o + Signed(trade) /\ b - n * w = b + Paid(trade)
  BY <1>9
<1> QED
  BY <1>3, <1>4, <1>8, <1>10

\* match_closed_trades, trade by trade.
LEMMA MatchSteps ==
  ASSUME NEW trades \in Seq(Trade)
  PROVE  \E c \in [0..Len(trades) -> Book] :
           /\ c[0] = NoLots /\ c[Len(trades)] = MatchClosed(trades)
           /\ \A k \in 1..Len(trades) : c[k] = MatchTrade(c[k - 1], trades[k])
<1> DEFINE n == Len(trades)
           F == [x \in Book \X (1..n) |-> MatchTrade(x[1], trades[x[2]])]
           Folded(g) == g = [s \in SUBSET (DOMAIN trades) |->
                               IF s = {} THEN NoLots
                               ELSE MatchTrade(g[s \ {Max(s)}], trades[Max(s)])]
           h == CHOOSE g : Folded(g)
<1>1. n \in Nat /\ DOMAIN trades = 1..n
  OBVIOUS
<1>2. ASSUME NEW a \in Book, NEW k \in 1..n PROVE MatchTrade(a, trades[k]) \in Book
  BY MatchTradeEffect
<1>3. F \in [Book \X (1..n) -> Book] /\ NoLots \in Book
  <2>1. NoLots \in Book
    BY DEF Book, NoLots
  <2> QED
    BY <1>2, <2>1
<1>4. ASSUME NEW a \in Book, NEW k \in 1..n PROVE F[<<a, k>>] = MatchTrade(a, trades[k])
  OBVIOUS
<1>5. \E g : Folded(g)
  <2>1. PICK g \in [SUBSET (1..n) -> Book] : Folds(g, NoLots, F, n)
    <3> HIDE DEF F
    <3> QED
      BY <1>1, <1>3, FoldExists
  <2>2. ASSUME NEW s \in SUBSET (1..n), s # {}
        PROVE  g[s] = MatchTrade(g[s \ {Max(s)}], trades[Max(s)])
    <3>1. g[s] = F[<<g[s \ {Max(s)}], Max(s)>>]
      BY <2>1, <2>2 DEF Folds
    <3>2. g[s \ {Max(s)}] \in Book /\ Max(s) \in 1..n
      BY <1>1, <2>1, <2>2, TopIsOne
    <3> HIDE DEF F
    <3> QED
      BY <1>4, <3>1, <3>2
  <2>3. g[{}] = NoLots
    BY <2>1 DEF Folds
  <2>4. Folded(g)
    BY <1>1, <2>1, <2>2, <2>3
  <2> QED
    BY <2>4
<1>6. Folded(h)
  <2> HIDE DEF Folded
  <2> QED
    BY <1>5
<1>7. MatchClosed(trades) = h[1..n]
  BY <1>1 DEF MatchClosed, NoLots, FoldLeft, MapThenFoldSet
<1>8. h[{}] = NoLots
  <2> HIDE DEF h
  <2> QED
    BY <1>6
<1>9. ASSUME NEW s \in SUBSET (1..n), s # {}, h[s \ {Max(s)}] \in Book
      PROVE  h[s] = F[<<h[s \ {Max(s)}], Max(s)>>]
  <2> HIDE DEF h
  <2>1. h[s] = MatchTrade(h[s \ {Max(s)}], trades[Max(s)])
    BY <1>1, <1>6, <1>9
  <2>2. Max(s) \in 1..n
    BY <1>1, <1>9, TopIsOne
  <2> HIDE DEF F
  <2> QED
    BY <1>4, <1>9, <2>1, <2>2
<1>10. PICK c : Walks(c, Book, NoLots, F, n) /\ c[n] = h[1..n]
  <2>1. FoldsIn(h, Book, NoLots, F, n)
    <3> HIDE DEF F, h
    <3> QED
      BY <1>3, <1>8, <1>9 DEF FoldsIn
  <2> HIDE DEF F, h, n, Folded
  <2> QED
    BY <1>1, <2>1, FoldWalk
<1>11. ASSUME NEW k \in 1..n PROVE c[k] = MatchTrade(c[k - 1], trades[k])
  <2>1. k - 1 \in 0..n
    BY <1>1
  <2>2. c[k - 1] \in Book /\ c[k] = F[<<c[k - 1], k>>]
    BY <1>10, <2>1 DEF Walks
  <2> HIDE DEF F
  <2> QED
    BY <1>4, <2>2
<1> HIDE DEF h
<1> QED
  BY <1>7, <1>10, <1>11 DEF Walks

\* FIFO matching: the open lots are what the trades add up to, and what was
\* paid and received is the result of the matched lots or the cost of the open
\* ones.
LEMMA MatchingAddsUp ==
  ASSUME NEW trades \in Seq(Trade)
  PROVE  /\ OpenLots(MatchClosed(trades)) = Net(trades)
         /\ MatchClosed(trades).closed = CashFlow(trades) + OpenLotsAtCost(MatchClosed(trades))
<1> DEFINE n == Len(trades)
           s == [k \in DOMAIN trades |-> Signed(trades[k])]
           f == [k \in DOMAIN trades |-> Paid(trades[k])]
<1>1. n \in Nat /\ DOMAIN trades = 1..n /\ \A k \in 1..n : trades[k] \in Trade
  OBVIOUS
<1>2. ASSUME NEW trade \in Trade PROVE Signed(trade) \in Int /\ Paid(trade) \in Int
  BY DEF Trade, Signed, Paid, Scale
<1>3. /\ s \in [1..n -> Int] /\ f \in [1..n -> Int]
      /\ \A k \in 1..n : s[k] = Signed(trades[k]) /\ f[k] = Paid(trades[k])
  BY <1>1, <1>2
<1>4. PICK c \in [0..n -> Book] :
        /\ c[0] = NoLots /\ c[n] = MatchClosed(trades)
        /\ \A k \in 1..n : c[k] = MatchTrade(c[k - 1], trades[k])
  BY MatchSteps
<1>5. /\ Net(trades) = SumFunctionOnSet(s, 1..n)
      /\ CashFlow(trades) = SumFunctionOnSet(f, 1..n)
  BY <1>1, <1>3, SumWhole DEF Net, CashFlow
<1> HIDE DEF n, s, f
<1> DEFINE T == {k \in 0..n : /\ OpenLots(c[k]) = SumFunctionOnSet(s, 1..k)
                              /\ Balance(c[k]) = SumFunctionOnSet(f, 1..k)}
<1>6. 0 \in T
  <2>1. 1..0 = {} /\ 0 \in 0..n
    BY <1>1
  <2>2. SumFunctionOnSet(s, 1..0) = 0 /\ SumFunctionOnSet(f, 1..0) = 0
    BY <2>1, SumEmpty
  <2>3. OpenLots(NoLots) = 0 /\ Balance(NoLots) = 0
    <3>1. NoLots \in Book /\ Len(NoLots.open) = 0 /\ NoLots.closed = 0
      BY DEF Book, NoLots
    <3>2. /\ [k \in DOMAIN NoLots.open |-> NoLots.open[k].sign] \in [1..0 -> Int]
          /\ [k \in DOMAIN NoLots.open |-> NoLots.open[k].sign * NoLots.open[k].price * Scale]
               \in [1..0 -> Int]
      BY <3>1, BookSums
    <3>3. \A g \in [1..0 -> Int] : SumFunction(g) = 0
      BY <2>1, SumWhole, SumEmpty
    <3> QED
      BY <3>1, <3>2, <3>3 DEF OpenLots, OpenLotsAtCost, Balance
  <2> QED
    BY <1>4, <2>1, <2>2, <2>3
<1>7. ASSUME NEW k \in 1..n, k - 1 \in T PROVE k \in T
  <2>1. PICK j \in Nat : k = j + 1 /\ j = k - 1 /\ j \in 0..n /\ k \in 0..n
    <3>1. k - 1 \in Nat /\ k = (k - 1) + 1 /\ k - 1 \in 0..n
      BY <1>1
    <3> QED
      BY <3>1
  <2>2. /\ OpenLots(c[j]) = SumFunctionOnSet(s, 1..j)
        /\ Balance(c[j]) = SumFunctionOnSet(f, 1..j) /\ c[j] \in Book
    BY <1>4, <1>7, <2>1
  <2>3. /\ OpenLots(c[k]) = OpenLots(c[j]) + s[k]
        /\ Balance(c[k]) = Balance(c[j]) + f[k]
    <3>1. PICK trade \in Trade : trade = trades[k]
      BY <1>1
    <3>2. c[k] = MatchTrade(c[j], trade)
      BY <1>4, <2>1, <3>1
    <3> QED
      BY <1>3, <2>2, <3>1, <3>2, MatchTradeEffect
  <2>4. SumFunctionOnSet(s, 1..k) = SumFunctionOnSet(s, 1..j) + s[k]
    <3>1. \A i \in 1..(j + 1) : s[i] \in Int
      BY <1>1, <1>3, <2>1
    <3> QED
      BY <2>1, <3>1, SumExtend
  <2>5. SumFunctionOnSet(f, 1..k) = SumFunctionOnSet(f, 1..j) + f[k]
    <3>1. \A i \in 1..(j + 1) : f[i] \in Int
      BY <1>1, <1>3, <2>1
    <3> QED
      BY <2>1, <3>1, SumExtend
  <2> QED
    BY <2>1, <2>2, <2>3, <2>4, <2>5
<1>8. 0..n \subseteq T
  <2> HIDE DEF T
  <2> QED
    BY <1>1, <1>6, <1>7, CountTo
<1>9. n \in T /\ c[n] \in Book
  BY <1>1, <1>4, <1>8
<1>10. PICK m \in Book : m = MatchClosed(trades)
  BY <1>4, <1>9
<1>11. OpenLots(m) = Net(trades) /\ Balance(m) = CashFlow(trades)
  BY <1>4, <1>5, <1>9, <1>10
<1>12. m.closed = CashFlow(trades) + OpenLotsAtCost(m)
  <2>1. PICK x \in Int, y \in Int : x = m.closed /\ y = OpenLotsAtCost(m)
    BY BookSums
  <2> QED
    BY <1>11, <2>1 DEF Balance
<1> QED
  BY <1>10, <1>11, <1>12

\* The division of an average cost has a remainder.
Rounded(p, trade) ==
  LET size == IF trade.side = "buy" THEN p.quantity ELSE -p.quantity
      sum  == size * p.cost + trade.quantity * trade.price * Scale
  IN  size >= 0 /\ sum % (size + trade.quantity) # 0

\* No average cost on the way to a position was rounded.
Unrounded(trades) ==
  \A n \in 1..Len(trades) : ~Rounded(ComputePosition(SubSeq(trades, 1, n - 1)), trades[n])

\* What a position stands for: the result realised less what it cost.
Worth(p) == p.realized - p.quantity * p.cost

\* Without remainder, dividing and multiplying cancel.
LEMMA Divides ==
  ASSUME NEW a \in Int, NEW b \in Nat \ {0}, a % b = 0
  PROVE  b * (a \div b) = a
  OBVIOUS

\* A trade whose average cost is exact moves the worth of a position by what is
\* paid or received for it.
LEMMA WorthMoves ==
  ASSUME NEW p \in Standing, NEW trade \in Trade, ~Rounded(p, trade)
  PROVE  Worth(ApplyTrade(p, trade)) = Worth(p) + Paid(trade)
<1>1. PICK q \in Int, c \in Int, r \in Int :
        q = p.quantity /\ c = p.cost /\ r = p.realized
  BY DEF Standing
<1>2. PICK n \in Nat \ {0}, pr \in Nat : n = trade.quantity /\ pr = trade.price
  BY DEF Trade
<1>3. PICK at \in Int : at = pr * Scale
  BY DEF Scale
<1>4. Paid(trade) = IF trade.side = "buy" THEN -(n * at) ELSE n * at
  <2>1. n * pr * Scale = n * at
    BY <1>3 DEF Scale
  <2>2. (-1) * n * pr * Scale = -(n * at) /\ 1 * n * pr * Scale = n * at
    BY <1>3 DEF Scale
  <2> QED
    BY <1>2, <2>2 DEF Paid
<1>5. Worth(p) = r - q * c
  BY <1>1 DEF Worth
<1>6. trade.side \in {"buy", "sell"}
  BY DEF Trade
<1>7. ASSUME NEW size \in Nat, size = IF trade.side = "buy" THEN q ELSE -q
      PROVE  \E k \in Int : /\ Added(size, c, trade) = k
                            /\ (size + n) * k = size * c + n * at
  <2>1. (size * c + n * pr * Scale) % (size + n) = 0
    BY <1>1, <1>2, <1>7 DEF Rounded
  <2>2. n * pr * Scale = n * at /\ n * at \in Int /\ size * c \in Int
    BY <1>3 DEF Scale
  <2>3. PICK a \in Int, b \in Nat \ {0} : a = size * c + n * at /\ b = size + n
    BY <2>2
  <2>4. a % b = 0
    BY <2>1, <2>2, <2>3
  <2>5. a \div b \in Int /\ b * (a \div b) = a
    BY <2>4, Divides, Quotient
  <2>6. Added(size, c, trade) = a \div b
    BY <1>2, <2>2, <2>3 DEF Added
  <2> QED
    BY <2>3, <2>5, <2>6
<1>8. CASE trade.side = "buy" /\ q >= 0
  <2>1. PICK k \in Int : Added(q, c, trade) = k /\ (q + n) * k = q * c + n * at
    BY <1>7, <1>8
  <2>2. -(-q) = q
    OBVIOUS
  <2>3. ApplyTrade(p, trade) = [quantity |-> q + n, cost |-> k, realized |-> r]
    BY <1>1, <1>2, <1>8, <2>1, <2>2 DEF ApplyTrade
  <2>4. Worth(ApplyTrade(p, trade)) = r - (q + n) * k
    BY <2>3 DEF Worth
  <2>5. r - (q + n) * k = (r - q * c) + (-(n * at))
    BY <2>1
  <2> QED
    BY <1>4, <1>5, <1>8, <2>4, <2>5
<1>9. CASE trade.side = "sell" /\ q <= 0
  <2>1. PICK k \in Int : Added(-q, c, trade) = k /\ ((-q) + n) * k = (-q) * c + n * at
    <3>1. -q \in Nat
      BY <1>9
    <3> QED
      BY <1>7, <1>9, <3>1
  <2>2. ApplyTrade(p, trade) = [quantity |-> q - n, cost |-> k, realized |-> r]
    BY <1>1, <1>2, <1>9, <2>1 DEF ApplyTrade
  <2>3. Worth(ApplyTrade(p, trade)) = r - (q - n) * k
    BY <2>2 DEF Worth
  <2>4. (q - n) * k = -(((-q) + n) * k) /\ (-q) * c = -(q * c)
    OBVIOUS
  <2>5. r - (q - n) * k = (r - q * c) + n * at
    BY <2>1, <2>4
  <2> QED
    BY <1>4, <1>5, <1>9, <2>3, <2>5
<1>10. CASE trade.side = "buy" /\ q < 0
  <2>1. CASE n < -q
    <3>1. ApplyTrade(p, trade) = [quantity |-> q + n, cost |-> c, realized |-> r + n * (c - at)]
      BY <1>1, <1>2, <1>3, <1>10, <2>1 DEF ApplyTrade, Smaller
    <3>2. Worth(ApplyTrade(p, trade)) = (r + n * (c - at)) - (q + n) * c
      BY <3>1 DEF Worth
    <3>3. (r + n * (c - at)) - (q + n) * c = (r - q * c) + (-(n * at))
      OBVIOUS
    <3> QED
      BY <1>4, <1>5, <1>10, <3>2, <3>3
  <2>2. CASE n >= -q
    <3>1. PICK k \in Int : /\ ApplyTrade(p, trade) =
                                [quantity |-> q + n, cost |-> k, realized |-> r + (-q) * (c - at)]
                           /\ (q + n) * k = (q + n) * at
      <4>1. CASE n > -q
        BY <1>1, <1>2, <1>3, <1>10, <4>1 DEF ApplyTrade, Smaller
      <4>2. CASE n = -q
        <5>1. q + n = 0 /\ ~ (-q > n) /\ ~ (n > -q) /\ Smaller(-q, n) = -q
          BY <4>2 DEF Smaller
        <5>2. ApplyTrade(p, trade) =
                [quantity |-> q + n, cost |-> 0, realized |-> r + (-q) * (c - at)]
          BY <1>1, <1>2, <1>3, <1>10, <5>1 DEF ApplyTrade
        <5>3. (q + n) * 0 = (q + n) * at
          BY <5>1
        <5> QED
          BY <5>2, <5>3
      <4> QED
        BY <2>2, <4>1, <4>2
    <3>2. Worth(ApplyTrade(p, trade)) = (r + (-q) * (c - at)) - (q + n) * k
      BY <3>1 DEF Worth
    <3>3. (r + (-q) * (c - at)) - (q + n) * at = (r - q * c) + (-(n * at))
      OBVIOUS
    <3> QED
      BY <1>4, <1>5, <1>10, <3>1, <3>2, <3>3
  <2> QED
    BY <2>1, <2>2
<1>11. CASE trade.side = "sell" /\ q > 0
  <2>1. CASE n < q
    <3>1. ApplyTrade(p, trade) = [quantity |-> q - n, cost |-> c, realized |-> r + n * (at - c)]
      BY <1>1, <1>2, <1>3, <1>11, <2>1 DEF ApplyTrade, Smaller
    <3>2. Worth(ApplyTrade(p, trade)) = (r + n * (at - c)) - (q - n) * c
      BY <3>1 DEF Worth
    <3>3. (r + n * (at - c)) - (q - n) * c = (r - q * c) + n * at
      OBVIOUS
    <3> QED
      BY <1>4, <1>5, <1>11, <3>2, <3>3
  <2>2. CASE n >= q
    <3>1. PICK k \in Int : /\ ApplyTrade(p, trade) =
                                [quantity |-> q - n, cost |-> k, realized |-> r + q * (at - c)]
                           /\ (q - n) * k = (q - n) * at
      <4>1. CASE n > q
        BY <1>1, <1>2, <1>3, <1>11, <4>1 DEF ApplyTrade, Smaller
      <4>2. CASE n = q
        <5>1. q - n = 0 /\ ~ (q > n) /\ ~ (n > q) /\ Smaller(q, n) = q
          BY <4>2 DEF Smaller
        <5>2. ApplyTrade(p, trade) =
                [quantity |-> q - n, cost |-> 0, realized |-> r + q * (at - c)]
          BY <1>1, <1>2, <1>3, <1>11, <5>1 DEF ApplyTrade
        <5>3. (q - n) * 0 = (q - n) * at
          BY <5>1
        <5> QED
          BY <5>2, <5>3
      <4> QED
        BY <2>2, <4>1, <4>2
    <3>2. Worth(ApplyTrade(p, trade)) = (r + q * (at - c)) - (q - n) * k
      BY <3>1 DEF Worth
    <3>3. (r + q * (at - c)) - (q - n) * at = (r - q * c) + n * at
      OBVIOUS
    <3> QED
      BY <1>4, <1>5, <1>11, <3>1, <3>2, <3>3
  <2> QED
    BY <2>1, <2>2
<1> QED
  BY <1>6, <1>8, <1>9, <1>10, <1>11

\* The positions on the way are those of the trades so far.
LEMMA PrefixSteps ==
  ASSUME NEW trades \in Seq(Trade), NEW c \in [0..Len(trades) -> Standing], c[0] = Flat,
         \A k \in 1..Len(trades) : c[k] = ApplyTrade(c[k - 1], trades[k]),
         NEW j \in 0..Len(trades)
  PROVE  ComputePosition(SubSeq(trades, 1, j)) = c[j]
<1> DEFINE own == SubSeq(trades, 1, j)
<1>1. /\ own \in Seq(Trade) /\ Len(own) = j /\ j \in Nat
      /\ \A k \in 1..j : own[k] = trades[k]
  OBVIOUS
<1> HIDE DEF own
<1>2. PICK d \in [0..j -> Standing] :
        /\ d[0] = Flat /\ d[j] = ComputePosition(own)
        /\ \A k \in 1..j : d[k] = ApplyTrade(d[k - 1], own[k])
  BY <1>1, ComputeSteps
<1> DEFINE T == {k \in 0..j : d[k] = c[k]}
<1>3. 0 \in T
  BY <1>1, <1>2
<1>4. ASSUME NEW k \in 1..j, k - 1 \in T PROVE k \in T
  <2>1. k \in 1..Len(trades) /\ k \in 0..j /\ d[k - 1] = c[k - 1]
    BY <1>1, <1>4
  <2> QED
    BY <1>1, <1>2, <2>1
<1>5. 0..j \subseteq T
  <2> HIDE DEF T
  <2> QED
    BY <1>1, <1>3, <1>4, CountTo
<1>6. d[j] = c[j]
  BY <1>1, <1>5
<1> QED
  BY <1>2, <1>6 DEF own

\* If no average cost was rounded, what was paid and received is the realised
\* result or the position at its cost.
LEMMA AverageAddsUp ==
  ASSUME NEW trades \in Seq(Trade), Unrounded(trades)
  PROVE  ComputePosition(trades).realized
           = CashFlow(trades) + ComputePosition(trades).quantity * ComputePosition(trades).cost
<1> DEFINE n == Len(trades)
           f == [k \in DOMAIN trades |-> Paid(trades[k])]
<1>1. n \in Nat /\ DOMAIN trades = 1..n /\ \A k \in 1..n : trades[k] \in Trade
  OBVIOUS
<1>2. ASSUME NEW trade \in Trade PROVE Paid(trade) \in Int
  BY DEF Trade, Paid, Scale
<1>3. f \in [1..n -> Int] /\ \A k \in 1..n : f[k] = Paid(trades[k])
  BY <1>1, <1>2
<1>4. PICK c \in [0..n -> Standing] :
        /\ c[0] = Flat /\ c[n] = ComputePosition(trades)
        /\ \A k \in 1..n : c[k] = ApplyTrade(c[k - 1], trades[k])
  BY ComputeSteps
<1>5. CashFlow(trades) = SumFunctionOnSet(f, 1..n) /\ CashFlow(trades) \in Int
  BY <1>1, <1>3, SumWhole DEF CashFlow
<1>6. ASSUME NEW k \in 1..n PROVE ~Rounded(c[k - 1], trades[k])
  <2>1. k - 1 \in 0..n
    BY <1>1
  <2>2. ComputePosition(SubSeq(trades, 1, k - 1)) = c[k - 1]
    BY <1>4, <2>1, PrefixSteps
  <2> QED
    BY <2>2 DEF Unrounded
<1> HIDE DEF n, f
<1> DEFINE T == {k \in 0..n : Worth(c[k]) = SumFunctionOnSet(f, 1..k)}
<1>7. 0 \in T
  <2>1. 1..0 = {} /\ 0 \in 0..n
    BY <1>1
  <2>2. SumFunctionOnSet(f, 1..0) = 0
    BY <2>1, SumEmpty
  <2> QED
    BY <1>4, <2>1, <2>2 DEF Flat, Worth
<1>8. ASSUME NEW k \in 1..n, k - 1 \in T PROVE k \in T
  <2>1. PICK j \in Nat : k = j + 1 /\ j = k - 1 /\ j \in 0..n /\ k \in 0..n
    <3>1. k - 1 \in Nat /\ k = (k - 1) + 1 /\ k - 1 \in 0..n
      BY <1>1
    <3> QED
      BY <3>1
  <2>2. Worth(c[j]) = SumFunctionOnSet(f, 1..j) /\ c[j] \in Standing
    BY <1>4, <1>8, <2>1
  <2>3. Worth(c[k]) = Worth(c[j]) + f[k]
    <3>1. PICK trade \in Trade : trade = trades[k]
      BY <1>1
    <3>2. c[k] = ApplyTrade(c[j], trade) /\ ~Rounded(c[j], trade)
      BY <1>4, <1>6, <2>1, <3>1
    <3> QED
      BY <1>3, <2>2, <3>1, <3>2, WorthMoves
  <2>4. SumFunctionOnSet(f, 1..k) = SumFunctionOnSet(f, 1..j) + f[k]
    <3>1. \A i \in 1..(j + 1) : f[i] \in Int
      BY <1>1, <1>3, <2>1
    <3> QED
      BY <2>1, <3>1, SumExtend
  <2> QED
    BY <2>1, <2>2, <2>3, <2>4
<1>9. 0..n \subseteq T
  <2> HIDE DEF T
  <2> QED
    BY <1>1, <1>7, <1>8, CountTo
<1>10. n \in T /\ c[n] \in Standing
  BY <1>1, <1>4, <1>9
<1>11. PICK p \in Standing : p = ComputePosition(trades)
  BY <1>4, <1>10
<1>12. Worth(p) = CashFlow(trades)
  BY <1>4, <1>5, <1>10, <1>11
<1>13. p.realized = CashFlow(trades) + p.quantity * p.cost
  <2>1. PICK x \in Int, y \in Int : x = p.realized /\ y = p.quantity * p.cost
    BY DEF Standing
  <2>2. x - y = CashFlow(trades)
    BY <1>12, <2>1 DEF Worth
  <2> QED
    BY <2>1, <2>2
<1> QED
  BY <1>11, <1>13

-----------------------------------------------------------------------------
(* The timeline has every execution once, and every execution is of some   *)
(* lots.                                                                   *)

\* Every trade is of something: executions have lots, an open order has a
\* remainder, and a thread that is to fill nothing has an order that is closed.
ToFill ==
  \A t \in Threads : (pc[t] = "commit" /\ lots[t] = 0) => job[t].intent \notin Open

LotsPositive ==
  /\ \A x \in Made : exec[x].lots # 0
  /\ \A i \in Open : order[i].filled # order[i].request.lots
  /\ ToFill

\* The timeline has every execution once.
Enumerated ==
  /\ \A x \in Made : \E n \in 1..Len(timeline) : timeline[n] = x
  /\ \A m, n \in 1..Len(timeline) : timeline[m] = timeline[n] => m = n

\* A step of one thread in tables where no order opens.
LEMMA ToFillKept ==
  ASSUME ToFill, NEW t \in Threads,
         \A i \in Intents : i \in Open' => i \in Open,
         \A u \in Threads : pc[u] = "commit" => job[u].intent \in Intents,
         \A u \in Threads \ {t} : pc'[u] = pc[u] /\ job'[u] = job[u] /\ lots'[u] = lots[u],
         pc'[t] = "commit" => lots'[t] # 0 \/ job'[t].intent \notin Open'
  PROVE  ToFill'
  BY DEF ToFill

\* Who commits has an order.
LEMMA CommitKnown ==
  ASSUME IInv
  PROVE  \A u \in Threads : pc[u] = "commit" => /\ job[u] \in Requests
                                                 /\ job[u].intent \in Intents
                                                 /\ job[u].intent \in Existing
<1> SUFFICES ASSUME NEW u \in Threads, pc[u] = "commit"
             PROVE  /\ job[u] \in Requests /\ job[u].intent \in Intents
                    /\ job[u].intent \in Existing
  OBVIOUS
<1>1. job[u] \in Requests /\ order[job[u].intent] # None
  BY DEF IInv, TypeOK, Stands
<1>2. job[u].intent \in Intents
  BY <1>1, SimulationAssumption
<1> QED
  BY <1>1, <1>2 DEF Existing

\* The other threads keep what they would fill.
Idles(t) == \A u \in Threads \ {t} : pc'[u] = pc[u] /\ job'[u] = job[u] /\ lots'[u] = lots[u]

\* Who returns fills nothing.
LEMMA ReturnIdles ==
  ASSUME IInv, NEW t \in Threads, Return(t)
  PROVE  Idles(t) /\ pc'[t] = "idle"
<1>1. /\ pc' = [pc EXCEPT ![t] = "idle"] /\ job' = [job EXCEPT ![t] = None]
      /\ lots' = [lots EXCEPT ![t] = 0]
  BY DEF Return, Goto
<1>2. /\ DOMAIN pc = Threads /\ DOMAIN job = Threads /\ DOMAIN lots = Threads
  BY DEF IInv, TypeOK
<1> QED
  BY <1>1, <1>2 DEF Idles

\* Steps of a thread that leave orders and executions alone.
LEMMA LocalLots ==
  ASSUME IInv, LotsPositive, Enumerated, UNCHANGED <<order, exec, timeline>>,
         NEW t \in Threads, Idles(t),
         pc'[t] = "commit" => lots'[t] # 0 \/ job'[t].intent \notin Open
  PROVE  LotsPositive' /\ Enumerated'
<1>1. Made' = Made /\ Open' = Open
  BY DEF Made, Open, Existing
<1>2. Enumerated'
  BY <1>1 DEF Enumerated
<1>3. ToFill'
  BY <1>1, CommitKnown, ToFillKept DEF LotsPositive, Idles
<1> QED
  BY <1>1, <1>2, <1>3 DEF LotsPositive

\* Steps that do not come to commit.
LEMMA QuietLots ==
  ASSUME IInv, LotsPositive, Enumerated, NEW t \in Threads,
         \/ \E s \in Signals, v \in Verdicts : ReviewRead(t, s, v)
         \/ \E r \in Requests : CreateLookup(t, r)
         \/ \E x \in Execs : SyncAgain(t, x)
         \/ ReviewWrite(t) \/ CreateAccount(t) \/ CreateDecide(t) \/ CreateRefused(t)
         \/ CreateConflict(t) \/ FillRefused(t) \/ FillPick(t) \/ SyncBook(t) \/ SyncRaise(t)
  PROVE  LotsPositive' /\ Enumerated'
<1>1. UNCHANGED <<order, exec, timeline>>
  BY DEF ReviewRead, CreateLookup, SyncAgain, ReviewWrite, CreateAccount, CreateDecide,
         CreateRefused, CreateConflict, FillRefused, FillPick, SyncBook, SyncRaise, tables
<1>2. Idles(t) /\ pc'[t] # "commit"
  <2>0. DOMAIN pc = Threads /\ DOMAIN job = Threads /\ DOMAIN lots = Threads
    BY DEF IInv, TypeOK
  <2>1. Return(t) => Idles(t) /\ pc'[t] # "commit"
    BY ReturnIdles
  <2>2. ReviewWrite(t) \/ CreateRefused(t) \/ CreateConflict(t) \/ FillRefused(t) => Return(t)
    BY DEF ReviewWrite, CreateRefused, CreateConflict, FillRefused
  <2>3. ASSUME NEW s \in Signals, NEW v \in Verdicts, ReviewRead(t, s, v)
        PROVE  Idles(t) /\ pc'[t] # "commit"
    BY <2>0, <2>3 DEF ReviewRead, Goto, Idles
  <2>4. ASSUME NEW r \in Requests, CreateLookup(t, r) PROVE Idles(t) /\ pc'[t] # "commit"
    BY <2>0, <2>4 DEF CreateLookup, Goto, Idles
  <2>5. ASSUME NEW x \in Execs, SyncAgain(t, x) PROVE Idles(t) /\ pc'[t] # "commit"
    BY <2>0, <2>5 DEF SyncAgain, Goto, Idles
  <2>6. CreateAccount(t) \/ CreateDecide(t) => Idles(t) /\ pc'[t] # "commit"
    BY <2>0 DEF CreateAccount, CreateDecide, Goto, Idles
  <2>7. FillPick(t) \/ SyncBook(t) \/ SyncRaise(t) => Idles(t) /\ pc'[t] # "commit"
    BY <2>0 DEF FillPick, SyncBook, SyncRaise, Goto, Idles, locals
  <2> QED
    BY <2>1, <2>2, <2>3, <2>4, <2>5, <2>6, <2>7
<1> QED
  BY <1>1, <1>2, LocalLots

\* What is to be filled is read from the order: nothing, if it is full.
LEMMA ReadLots ==
  ASSUME IInv, LotsPositive, Enumerated, NEW t \in Threads,
         FillIsolated(t) \/ \E i \in Intents : FillRead(t, i)
  PROVE  LotsPositive' /\ Enumerated'
<1>0. DOMAIN pc = Threads /\ DOMAIN job = Threads /\ DOMAIN lots = Threads
  BY DEF IInv, TypeOK
<1>1. CASE FillIsolated(t)
  <2>1. UNCHANGED <<order, exec, timeline>> /\ Idles(t)
    BY <1>0, <1>1 DEF FillIsolated, Goto, Idles, tables
  <2>2. lots'[t] = job[t].lots /\ job[t] \in Requests
    BY <1>0, <1>1 DEF FillIsolated, IInv, TypeOK, Stands
  <2>3. lots'[t] # 0
    BY <2>2, SimulationAssumption
  <2> QED
    BY <2>1, <2>3, LocalLots
<1>2. ASSUME NEW i \in Intents, FillRead(t, i) PROVE LotsPositive' /\ Enumerated'
  <2>1. UNCHANGED <<order, exec, timeline>> /\ Idles(t)
    BY <1>0, <1>2 DEF FillRead, Goto, Idles, tables
  <2>2. i \in Existing /\ job'[t] = order[i].request
    BY <1>0, <1>2 DEF FillRead, Account
  <2>3. lots'[t] \in {order[i].request.lots - order[i].filled, 1}
    BY <1>0, <1>2 DEF FillRead
  <2>4. order[i].request.intent = i
    BY <2>2 DEF IInv, TablesOK, Attributed
  <2>5. lots'[t] # 0 \/ i \notin Open
    <3>1. i \in Open => order[i].filled # order[i].request.lots
      BY DEF LotsPositive
    <3>2. PICK m \in Nat, n \in Nat : m = order[i].request.lots /\ n = order[i].filled
      BY <2>2, RowsKnown
    <3>3. m # n => m - n # 0
      OBVIOUS
    <3> QED
      BY <2>3, <3>1, <3>2, <3>3
  <2> QED
    BY <2>1, <2>2, <2>4, <2>5, LocalLots
<1> QED
  BY <1>1, <1>2

\* A cancelled order is not open.
LEMMA CancelLots ==
  ASSUME IInv, IInv', LotsPositive, Enumerated, NEW i \in Intents, CancelOrder(i)
  PROVE  LotsPositive' /\ Enumerated'
<1>1. UNCHANGED <<exec, timeline, pc, job, lots>>
  BY DEF CancelOrder, locals
<1>2. /\ Existing' = Existing
      /\ \A j \in Existing : /\ order'[j].request = order[j].request
                             /\ order'[j].filled = order[j].filled
                             /\ order'[j].status \in {order[j].status, "cancelled"}
  BY CancelEffect
<1>3. \A j \in Open' : j \in Open
  BY <1>2 DEF Open
<1>4. Made' = Made /\ Enumerated'
  <2>1. Made' = Made
    BY <1>1 DEF Made
  <2> QED
    BY <1>1, <2>1 DEF Enumerated
<1>5. \A j \in Open' : order'[j].filled # order'[j].request.lots
  BY <1>2, <1>3 DEF LotsPositive, Open
<1>6. ToFill'
  BY <1>1, <1>3 DEF ToFill, LotsPositive
<1> QED
  BY <1>1, <1>4, <1>5, <1>6 DEF LotsPositive

\* A new order is open, and has nothing filled.
LEMMA InsertLots ==
  ASSUME IInv, IInv', LotsPositive, Enumerated, NEW t \in Threads, CreateInsert(t)
  PROVE  LotsPositive' /\ Enumerated'
<1>0. DOMAIN pc = Threads /\ DOMAIN job = Threads /\ DOMAIN lots = Threads
  BY DEF IInv, TypeOK
<1>1. PICK r \in Requests : /\ r = job[t] /\ r.isolated \in BOOLEAN
                           /\ r.side \in Sides /\ r.lots \in Nat
  BY JobKnown DEF CreateInsert
<1>2. /\ Existing' = Existing \cup {r.intent} /\ r.intent \notin Existing
      /\ order'[r.intent] = [request |-> r, status |-> "pending", filled |-> 0, value |-> 0]
      /\ \A j \in Existing : order'[j] = order[j]
  BY <1>1, InsertEffect
<1>3. UNCHANGED <<exec, timeline, lots>>
  BY DEF CreateInsert
<1>4. Made' = Made /\ Enumerated'
  <2>1. Made' = Made
    BY <1>3 DEF Made
  <2> QED
    BY <1>3, <2>1 DEF Enumerated
<1>5. \A j \in Open' : j = r.intent \/ (j \in Open /\ order'[j] = order[j])
  BY <1>2 DEF Open
<1>6. r.lots # 0
  BY SimulationAssumption
<1>7. \A j \in Open' : order'[j].filled # order'[j].request.lots
  BY <1>2, <1>5, <1>6 DEF LotsPositive
<1>8. pc'[t] # "commit" /\ \A u \in Threads \ {t} : pc'[u] = pc[u] /\ job'[u] = job[u]
  BY <1>0 DEF CreateInsert, Goto
<1>9. ASSUME NEW u \in Threads, pc'[u] = "commit", lots'[u] = 0
      PROVE  job'[u].intent \notin Open'
  <2>1. u # t /\ pc[u] = "commit" /\ lots[u] = 0 /\ job'[u] = job[u]
    BY <1>3, <1>8, <1>9
  <2>2. job[u].intent \notin Open /\ job[u].intent \in Existing
    BY <2>1, CommitKnown DEF LotsPositive, ToFill
  <2> QED
    BY <1>2, <1>5, <2>1, <2>2
<1>10. ToFill'
  BY <1>9 DEF ToFill
<1> QED
  BY <1>3, <1>4, <1>7, <1>10 DEF LotsPositive

\* A mark changes neither the executions there are nor their lots.
LEMMA MarkLots ==
  ASSUME IInv, LotsPositive, Enumerated, NEW t \in Threads,
         FillIsolate(t) \/ SyncNote(t) \/ SyncFail(t)
  PROVE  LotsPositive' /\ Enumerated'
<1> DEFINE x == work[t]
<1>1. /\ pc[t] \in {"isolate", "note", "fail"} /\ Return(t) /\ UNCHANGED <<order, timeline>>
  BY DEF FillIsolate, SyncNote, SyncFail
<1>2. x \in Made /\ x \in Execs
  BY <1>1 DEF IInv, Stands, Made
<1>3. PICK status \in {"synced", "failed", "isolated"} : SetSync(x, status)
  BY DEF FillIsolate, SyncNote, SyncFail
<1>4. /\ exec'[x] = [intent |-> exec[x].intent, lots |-> exec[x].lots, sync |-> status]
      /\ \A y \in Execs : y # x => exec'[y] = exec[y]
  BY <1>2, <1>3 DEF SetSync, IInv, TypeOK
<1>5. exec'[x].lots = exec[x].lots /\ exec'[x] # None
  <2>1. exec'[x] \in ExecRow
    BY <1>2, <1>4 DEF IInv, TypeOK, Made, ExecRow
  <2> QED
    BY <1>4, <2>1, SimulationAssumption
<1>6. Made' = Made
  BY <1>2, <1>4, <1>5 DEF Made
<1>7. \A y \in Made : exec'[y].lots = exec[y].lots
  BY <1>4, <1>5 DEF Made
<1>8. Open' = Open
  BY <1>1 DEF Open, Existing
<1>9. Idles(t) /\ pc'[t] = "idle"
  BY <1>1, ReturnIdles
<1>10. ToFill'
  BY <1>8, <1>9, CommitKnown, ToFillKept DEF LotsPositive, Idles
<1>11. Enumerated'
  BY <1>1, <1>6 DEF Enumerated
<1> QED
  BY <1>1, <1>6, <1>7, <1>8, <1>10, <1>11 DEF LotsPositive

\* A fill is of the lots its thread has, which are some if its order is open,
\* and its execution is new.
LEMMA CommitLots ==
  ASSUME IInv, TimelineOK, LotsPositive, Enumerated, NEW t \in Threads, FillCommit(t)
  PROVE  LotsPositive' /\ Enumerated'
<1> DEFINE i == job[t].intent
           row(x) == [request |-> order[i].request, filled |-> order[i].filled + lots[t],
                      value |-> order[i].value + lots[t] * Prices[x],
                      status |-> IF order[i].filled + lots[t] >= order[i].request.lots
                                 THEN "filled" ELSE "partially_filled"]
<1>0. /\ DOMAIN pc = Threads /\ DOMAIN job = Threads /\ DOMAIN lots = Threads
      /\ DOMAIN order = Intents /\ DOMAIN exec = Execs
  BY DEF IInv, TypeOK
<1>1. PICK x \in Execs, at \in since[t]..Len(timeline) :
        /\ Free(x)
        /\ exec' = [exec EXCEPT ![x] = [intent |-> i, lots |-> lots[t], sync |-> "pending"]]
        /\ timeline' = InsertAt(timeline, at + 1, x)
        /\ order' = [order EXCEPT ![i] = row(x)]
  BY DEF FillCommit
<1>2. /\ timeline \in Seq(Execs) /\ Len(timeline) \in Nat /\ since[t] \in Nat
      /\ at \in Nat /\ at <= Len(timeline)
  BY DEF TimelineOK
<1>3. exec[x] = None /\ x \notin Made
  BY <1>1 DEF Free, Made
<1>4. i \in Intents /\ i \in Existing /\ lots[t] \in Nat
  BY CommitKnown DEF FillCommit, IInv, TypeOK
<1>5. /\ exec'[x] = [intent |-> i, lots |-> lots[t], sync |-> "pending"]
      /\ \A y \in Execs : y # x => exec'[y] = exec[y]
  BY <1>0, <1>1
<1>6. exec'[x].lots = lots[t] /\ exec'[x] # None
  <2>1. exec'[x] \in ExecRow
    BY <1>4, <1>5 DEF ExecRow
  <2> QED
    BY <1>5, <2>1, SimulationAssumption
<1>7. Made' = Made \cup {x} /\ \A y \in Made : y # x /\ exec'[y] = exec[y]
  BY <1>3, <1>5, <1>6 DEF Made
<1>8. /\ Len(timeline') = Len(timeline) + 1
      /\ \A m \in 1..at : timeline'[m] = timeline[m]
      /\ timeline'[at + 1] = x
      /\ \A m \in (at + 2)..(Len(timeline) + 1) : timeline'[m] = timeline[m - 1]
  BY <1>1, <1>2, InsertedAt
<1>9. i \in Open /\ lots[t] # 0 /\ pc[t] = "commit"
  <2>1. i \in Open /\ pc[t] = "commit"
    BY <1>4 DEF FillCommit, Fillable, Open
  <2> QED
    BY <2>1 DEF LotsPositive, ToFill
<1>10. order'[i] = row(x) /\ \A j \in Intents : j # i => order'[j] = order[j]
  BY <1>0, <1>1, <1>4
<1>11. \A j \in Existing' : j \in Intents /\ (j # i => j \in Existing /\ order'[j] = order[j])
  BY <1>10 DEF Existing
<1>12. order'[i].status = "partially_filled" => order'[i].filled # order'[i].request.lots
  <2>1. PICK m \in Nat, n \in Nat : m = order[i].request.lots /\ n = order[i].filled
    BY <1>4, RowsKnown
  <2>2. PICK k \in Nat : k = lots[t]
    BY <1>4
  <2>3. n + k >= m => order'[i].status = "filled"
    BY <1>10, <2>1, <2>2
  <2>4. ~(n + k >= m) => n + k # m
    OBVIOUS
  <2> QED
    BY <1>10, <2>1, <2>2, <2>3, <2>4
<1>13. \A j \in Open' : j \in Open /\ order'[j].filled # order'[j].request.lots
  <2> SUFFICES ASSUME NEW j \in Open'
               PROVE  j \in Open /\ order'[j].filled # order'[j].request.lots
    OBVIOUS
  <2>1. j \in Existing' /\ order'[j].status \in {"pending", "partially_filled"}
    BY DEF Open
  <2>2. CASE j = i
    <3>1. order'[i].status \in {"filled", "partially_filled"}
      BY <1>10
    <3> QED
      BY <1>9, <1>12, <2>1, <2>2, <3>1
  <2>3. CASE j # i
    BY <1>11, <2>1, <2>3 DEF Open, LotsPositive
  <2> QED
    BY <2>2, <2>3
<1>14. ToFill'
  <2>1. Idles(t) /\ pc'[t] # "commit"
    BY <1>0 DEF FillCommit, Goto, Idles
  <2> QED
    BY <1>13, <2>1, CommitKnown, ToFillKept DEF LotsPositive, Idles
<1>15. \A y \in Made' : exec'[y].lots # 0
  BY <1>6, <1>7, <1>9 DEF LotsPositive
<1>16. \A y \in Made' : \E n \in 1..Len(timeline') : timeline'[n] = y
  <2> SUFFICES ASSUME NEW y \in Made' PROVE \E n \in 1..Len(timeline') : timeline'[n] = y
    OBVIOUS
  <2>1. CASE y = x
    <3>1. at + 1 \in 1..Len(timeline')
      BY <1>2, <1>8
    <3> QED
      BY <1>8, <2>1, <3>1
  <2>2. CASE y # x
    <3>1. PICK n \in 1..Len(timeline) : timeline[n] = y
      BY <1>7, <2>2 DEF Enumerated
    <3>2. CASE n <= at
      <4>1. n \in 1..at /\ n \in 1..Len(timeline')
        BY <1>2, <1>8, <3>2
      <4> QED
        BY <1>8, <3>1, <4>1
    <3>3. CASE n > at
      <4>1. /\ n + 1 \in (at + 2)..(Len(timeline) + 1) /\ n + 1 \in 1..Len(timeline')
            /\ (n + 1) - 1 = n
        BY <1>2, <1>8, <3>3
      <4> QED
        BY <1>8, <3>1, <4>1
    <3> QED
      BY <1>2, <3>2, <3>3
  <2> QED
    BY <2>1, <2>2
<1> DEFINE Was(m) == IF m <= at THEN m ELSE m - 1
<1>17. ASSUME NEW m \in 1..Len(timeline'), m # at + 1
       PROVE  Was(m) \in 1..Len(timeline) /\ timeline'[m] = timeline[Was(m)]
  <2>1. CASE m <= at
    BY <1>2, <1>8, <2>1
  <2>2. CASE m > at
    <3>1. m \in (at + 2)..(Len(timeline) + 1) /\ m - 1 \in 1..Len(timeline)
      BY <1>2, <1>8, <1>17, <2>2
    <3> QED
      BY <1>2, <1>8, <2>2, <3>1
  <2> QED
    BY <1>2, <2>1, <2>2
<1>18. ASSUME NEW m \in 1..Len(timeline'), NEW n \in 1..Len(timeline'),
              timeline'[m] = timeline'[n]
       PROVE  m = n
  <2>1. ASSUME NEW k \in 1..Len(timeline'), k # at + 1 PROVE timeline'[k] # x
    BY <1>3, <1>17, <2>1 DEF TimelineOK
  <2>2. CASE m = at + 1 \/ n = at + 1
    BY <1>8, <1>18, <2>1, <2>2
  <2>3. CASE m # at + 1 /\ n # at + 1
    <3>1. Was(m) \in 1..Len(timeline) /\ Was(n) \in 1..Len(timeline)
          /\ timeline[Was(m)] = timeline[Was(n)]
      BY <1>17, <1>18, <2>3
    <3>2. Was(m) = Was(n)
      BY <3>1 DEF Enumerated
    <3> QED
      BY <1>2, <2>3, <3>2
  <2> QED
    BY <2>2, <2>3
<1>19. Enumerated'
  BY <1>16, <1>18 DEF Enumerated
<1> QED
  BY <1>13, <1>14, <1>15, <1>19 DEF LotsPositive

\* Whatever happens, trades are of something and the timeline has them once.
LEMMA LotsNext ==
  ASSUME IInv, IInv', TimelineOK, LotsPositive, Enumerated, [Next]_vars
  PROVE  LotsPositive' /\ Enumerated'
<1>1. ASSUME NEW t \in Threads, Request(t) \/ Call(t) PROVE LotsPositive' /\ Enumerated'
  <2>1. CASE Call(t)
    BY <2>1, QuietLots, ReadLots DEF Call
  <2>2. CASE Request(t)
    BY <2>2, QuietLots, ReadLots, InsertLots, CommitLots, MarkLots DEF Request
  <2> QED
    BY <1>1, <2>1, <2>2
<1>2. ASSUME NEW i \in Intents, CancelOrder(i) PROVE LotsPositive' /\ Enumerated'
  BY <1>2, CancelLots
<1>3. ASSUME UNCHANGED <<order, exec, timeline>>, UNCHANGED <<pc, job, lots>> \/ Crash
      PROVE  LotsPositive' /\ Enumerated'
  <2>1. Made' = Made /\ Open' = Open
    BY <1>3 DEF Made, Open, Existing
  <2>2. ToFill'
    <3>1. CASE UNCHANGED <<pc, job, lots>>
      BY <2>1, <3>1 DEF LotsPositive, ToFill
    <3>2. CASE Crash
      BY <3>2 DEF Crash, ToFill
    <3> QED
      BY <1>3, <3>1, <3>2
  <2>3. Enumerated'
    BY <1>3, <2>1 DEF Enumerated
  <2> QED
    BY <1>3, <2>1, <2>2, <2>3 DEF LotsPositive
<1>4. ASSUME NEW s \in Signals, ExpireSignal(s) PROVE LotsPositive' /\ Enumerated'
  BY <1>3, <1>4 DEF ExpireSignal, locals
<1>5. ASSUME NEW x \in Execs, NEW n \in {1, 2}, CorrectTrade(x, n)
      PROVE  LotsPositive' /\ Enumerated'
  BY <1>3, <1>5 DEF CorrectTrade, locals
<1>6. Crash => LotsPositive' /\ Enumerated'
  BY <1>3 DEF Crash, tables
<1>7. UNCHANGED vars => LotsPositive' /\ Enumerated'
  BY <1>3 DEF vars, tables, locals
<1> QED
  BY <1>1, <1>2, <1>4, <1>5, <1>6, <1>7 DEF Next

-----------------------------------------------------------------------------
(* The books, read from the timeline.                                      *)

\* Sequences of trades.
Trades == Seq(Trade)

\* What the books are read from.
Books == IInv /\ TimelineOK /\ LotsPositive /\ Enumerated

\* An execution is a trade.
LEMMA TradeKnown ==
  ASSUME Books, NEW x \in Made
  PROVE  /\ TradeOf(x) \in Trade /\ Signed(TradeOf(x)) = SignedLots(x)
         /\ SignedLots(x) \in Int
<1>1. /\ x \in Execs /\ exec[x].lots \in Nat \ {0} /\ exec[x].intent \in Existing
  BY RowsKnown DEF Books, LotsPositive
<1>2. order[exec[x].intent].request.side \in {"buy", "sell"}
  BY <1>1, RowsKnown DEF Books, Sides
<1>3. Prices[x] \in Nat
  BY <1>1, SimulationAssumption
<1> QED
  BY <1>1, <1>2, <1>3 DEF TradeOf, Trade, Signed, SignedLots

\* The trades with an execution more, if it is of one of the orders.
Joined(S, trades, x) == IF exec[x].intent \in S THEN Append(trades, TradeOf(x)) ELSE trades

\* The trades of some orders, execution by execution.
LEMMA TradesSteps ==
  ASSUME Books, NEW S
  PROVE  \E c \in [0..Len(timeline) -> Trades] :
           /\ c[0] = <<>> /\ c[Len(timeline)] = TradesOf(S)
           /\ \A k \in 1..Len(timeline) : c[k] = Joined(S, c[k - 1], timeline[k])
<1> DEFINE n == Len(timeline)
           F == [x \in Trades \X (1..n) |-> Joined(S, x[1], timeline[x[2]])]
           Folded(g) == g = [s \in SUBSET (DOMAIN timeline) |->
                               IF s = {} THEN <<>>
                               ELSE Joined(S, g[s \ {Max(s)}], timeline[Max(s)])]
           h == CHOOSE g : Folded(g)
<1>1. n \in Nat /\ DOMAIN timeline = 1..n
  BY DEF Books, TimelineOK
<1>2. ASSUME NEW a \in Trades, NEW k \in 1..n PROVE Joined(S, a, timeline[k]) \in Trades
  BY TradeKnown DEF Joined, Books, TimelineOK, Trades
<1>3. F \in [Trades \X (1..n) -> Trades] /\ <<>> \in Trades
  <2>1. <<>> \in Trades
    BY DEF Trades
  <2> QED
    BY <1>2, <2>1
<1>4. ASSUME NEW a \in Trades, NEW k \in 1..n PROVE F[<<a, k>>] = Joined(S, a, timeline[k])
  OBVIOUS
<1>5. \E g : Folded(g)
  <2>1. PICK g \in [SUBSET (1..n) -> Trades] : Folds(g, <<>>, F, n)
    <3> HIDE DEF F
    <3> QED
      BY <1>1, <1>3, FoldExists
  <2>2. ASSUME NEW s \in SUBSET (1..n), s # {}
        PROVE  g[s] = Joined(S, g[s \ {Max(s)}], timeline[Max(s)])
    <3>1. g[s] = F[<<g[s \ {Max(s)}], Max(s)>>]
      BY <2>1, <2>2 DEF Folds
    <3>2. g[s \ {Max(s)}] \in Trades /\ Max(s) \in 1..n
      BY <1>1, <2>1, <2>2, TopIsOne
    <3> HIDE DEF F
    <3> QED
      BY <1>4, <3>1, <3>2
  <2>3. g[{}] = <<>>
    BY <2>1 DEF Folds
  <2>4. Folded(g)
    BY <1>1, <2>1, <2>2, <2>3
  <2> QED
    BY <2>4
<1>6. Folded(h)
  <2> HIDE DEF Folded
  <2> QED
    BY <1>5
<1>7. TradesOf(S) = h[1..n]
  BY <1>1 DEF TradesOf, Joined, FoldLeft, MapThenFoldSet
<1>8. h[{}] = <<>>
  <2> HIDE DEF h
  <2> QED
    BY <1>6
<1>9. ASSUME NEW s \in SUBSET (1..n), s # {}, h[s \ {Max(s)}] \in Trades
      PROVE  h[s] = F[<<h[s \ {Max(s)}], Max(s)>>]
  <2> HIDE DEF h
  <2>1. h[s] = Joined(S, h[s \ {Max(s)}], timeline[Max(s)])
    BY <1>1, <1>6, <1>9
  <2>2. Max(s) \in 1..n
    BY <1>1, <1>9, TopIsOne
  <2> HIDE DEF F
  <2> QED
    BY <1>4, <1>9, <2>1, <2>2
<1>10. PICK c : Walks(c, Trades, <<>>, F, n) /\ c[n] = h[1..n]
  <2>1. FoldsIn(h, Trades, <<>>, F, n)
    <3> HIDE DEF F, h
    <3> QED
      BY <1>3, <1>8, <1>9 DEF FoldsIn
  <2> HIDE DEF F, h, n, Folded
  <2> QED
    BY <1>1, <2>1, FoldWalk
<1>11. ASSUME NEW k \in 1..n PROVE c[k] = Joined(S, c[k - 1], timeline[k])
  <2>1. k - 1 \in 0..n
    BY <1>1
  <2>2. c[k - 1] \in Trades /\ c[k] = F[<<c[k - 1], k>>]
    BY <1>10, <2>1 DEF Walks
  <2> HIDE DEF F
  <2> QED
    BY <1>4, <2>2
<1> HIDE DEF h
<1> QED
  BY <1>7, <1>10, <1>11 DEF Walks

\* One trade more adds its lots.
LEMMA NetAppend ==
  ASSUME NEW trades \in Trades, NEW trade \in Trade
  PROVE  /\ Net(trades) \in Int /\ Signed(trade) \in Int
         /\ Net(Append(trades, trade)) = Net(trades) + Signed(trade)
<1> DEFINE n == Len(trades)
           longer == Append(trades, trade)
           f == [k \in DOMAIN trades |-> Signed(trades[k])]
           g == [k \in DOMAIN longer |-> Signed(longer[k])]
<1>1. /\ n \in Nat /\ DOMAIN trades = 1..n /\ DOMAIN longer = 1..(n + 1)
      /\ longer[n + 1] = trade
      /\ \A k \in 1..n : longer[k] = trades[k] /\ trades[k] \in Trade
  BY DEF Trades
<1>2. \A x \in Trade : Signed(x) \in Int
  BY DEF Trade, Signed
<1>3. f \in [1..n -> Int] /\ g \in [1..(n + 1) -> Int] /\ g[n + 1] = Signed(trade)
  <2>1. \A k \in 1..(n + 1) : longer[k] \in Trade
    <3> SUFFICES ASSUME NEW k \in 1..(n + 1) PROVE longer[k] \in Trade
      OBVIOUS
    <3>1. k \in 1..n \/ k = n + 1
      BY <1>1
    <3> HIDE DEF longer
    <3> QED
      BY <1>1, <3>1
  <2> HIDE DEF longer
  <2> QED
    BY <1>1, <1>2, <2>1
<1>4. \A k \in 1..n : g[k] = f[k]
  <2> HIDE DEF longer
  <2>1. \A k \in 1..n : k \in 1..(n + 1)
    BY <1>1
  <2> QED
    BY <1>1, <2>1
<1>5. Net(trades) = SumFunction(f) /\ Net(longer) = SumFunction(g)
  BY DEF Net
<1> HIDE DEF f, g, n, longer
<1>6. SumFunction(g) = SumFunction(f) + g[n + 1] /\ SumFunction(f) \in Int
  BY <1>1, <1>3, <1>4, SumAppend, SumWhole
<1> QED
  BY <1>2, <1>3, <1>5, <1>6 DEF longer

\* The trades of some orders are trades, and add up to the lots of their
\* executions.
LEMMA TradesCover ==
  ASSUME Books, NEW S
  PROVE  /\ TradesOf(S) \in Seq(Trade)
         /\ Net(TradesOf(S)) = SumFunction([x \in MadeFor(S) |-> SignedLots(x)])
<1> DEFINE n == Len(timeline)
           Seen(k) == {x \in Made : exec[x].intent \in S /\ \E j \in 1..k : timeline[j] = x}
           f == [x \in Made |-> SignedLots(x)]
<1>1. /\ n \in Nat /\ \A k \in 1..n : timeline[k] \in Made
  BY DEF Books, TimelineOK
<1>2. PICK c \in [0..n -> Trades] :
        /\ c[0] = <<>> /\ c[n] = TradesOf(S)
        /\ \A k \in 1..n : c[k] = Joined(S, c[k - 1], timeline[k])
  BY TradesSteps
<1>3. (\A x \in Made : f[x] \in Int /\ f[x] = SignedLots(x)) /\ IsFiniteSet(Made)
  <2>1. Made \subseteq Execs
    BY DEF Made
  <2>2. IsFiniteSet(Made)
    BY <2>1, ExecsFinite, FS_Subset
  <2> QED
    BY <2>2, TradeKnown
<1>4. \A k \in 0..n : /\ Seen(k) \subseteq Made /\ IsFiniteSet(Seen(k))
                     /\ \A x \in Seen(k) : f[x] \in Int
  <2> SUFFICES ASSUME NEW k \in 0..n
               PROVE  /\ Seen(k) \subseteq Made /\ IsFiniteSet(Seen(k))
                      /\ \A x \in Seen(k) : f[x] \in Int
    OBVIOUS
  <2>1. Seen(k) \subseteq Made
    OBVIOUS
  <2> HIDE DEF f, Seen
  <2> QED
    BY <1>3, <2>1, FS_Subset
<1> HIDE DEF f
<1> DEFINE T == {k \in 0..n : Net(c[k]) = SumFunctionOnSet(f, Seen(k))}
<1>5. 0 \in T
  <2>1. Seen(0) = {} /\ 0 \in 0..n
    BY <1>1
  <2>2. Net(<<>>) = 0
    <3> DEFINE g == [k \in DOMAIN <<>> |-> Signed(<<>>[k])]
    <3>1. DOMAIN g = {} /\ Net(<<>>) = SumFunction(g)
      BY DEF Net
    <3>2. SumFunction(g) = SumFunctionOnSet(g, {})
      BY <3>1 DEF SumFunction, FoldFunction, SumFunctionOnSet
    <3> QED
      BY <3>1, <3>2, SumEmpty
  <2> HIDE DEF Seen
  <2> QED
    BY <1>2, <2>1, <2>2, SumEmpty
<1>6. ASSUME NEW k \in 1..n, k - 1 \in T PROVE k \in T
  <2>1. PICK j \in Nat : k = j + 1 /\ j = k - 1 /\ j \in 0..n /\ k \in 0..n
    <3>1. k - 1 \in Nat /\ k = (k - 1) + 1 /\ k - 1 \in 0..n
      BY <1>1
    <3> QED
      BY <3>1
  <2>2. Net(c[j]) = SumFunctionOnSet(f, Seen(j)) /\ c[j] \in Trades
    BY <1>2, <1>6, <2>1
  <2>3. PICK x \in Made : x = timeline[k]
    BY <1>1
  <2>4. x \notin Seen(j)
    <3>1. \A i \in 1..j : timeline[i] # x
      BY <1>1, <2>1, <2>3 DEF Books, Enumerated
    <3> QED
      BY <3>1
  <2>5. \A y : (\E i \in 1..k : timeline[i] = y) <=> (y = x \/ \E i \in 1..j : timeline[i] = y)
    <3>1. \A i : i \in 1..k <=> (i \in 1..j \/ i = k)
      BY <2>1
    <3> QED
      BY <2>3, <3>1
  <2>6. CASE exec[x].intent \in S
    <3>1. Seen(k) = Seen(j) \cup {x}
      BY <2>5, <2>6
    <3>2. SumFunctionOnSet(f, Seen(j) \cup {x}) = SumFunctionOnSet(f, Seen(j)) + f[x]
      <4>1. IsFiniteSet(Seen(j)) /\ (\A y \in Seen(j) : f[y] \in Int) /\ f[x] \in Int
        BY <1>3, <1>4, <2>1
      <4> HIDE DEF Seen
      <4> QED
        BY <2>4, <4>1, SumAdd
    <3>3. Net(c[k]) = Net(c[j]) + SignedLots(x)
      <4>1. c[k] = Append(c[j], TradeOf(x))
        BY <1>2, <2>1, <2>3, <2>6 DEF Joined
      <4>2. TradeOf(x) \in Trade /\ Signed(TradeOf(x)) = SignedLots(x)
        BY TradeKnown
      <4> QED
        BY <2>2, <4>1, <4>2, NetAppend
    <3> HIDE DEF Seen
    <3> QED
      BY <1>3, <2>1, <2>2, <3>1, <3>2, <3>3
  <2>7. CASE exec[x].intent \notin S
    <3>1. Seen(k) = Seen(j)
      BY <2>5, <2>7
    <3>2. c[k] = c[j]
      BY <1>2, <2>1, <2>3, <2>7 DEF Joined
    <3> HIDE DEF Seen
    <3> QED
      BY <2>1, <2>2, <3>1, <3>2
  <2> QED
    BY <2>6, <2>7
<1>7. 0..n \subseteq T
  <2> HIDE DEF T
  <2> QED
    BY <1>1, <1>5, <1>6, CountTo
<1>8. Seen(n) = MadeFor(S)
  BY DEF MadeFor, Books, Enumerated
<1> HIDE DEF Seen
<1>9. SumFunction([x \in MadeFor(S) |-> SignedLots(x)]) = SumFunctionOnSet(f, MadeFor(S))
  <2> DEFINE M == MadeFor(S)
             g == [x \in M |-> SignedLots(x)]
  <2>1. SumFunction(g) = SumFunctionOnSet(g, M)
    BY DEF SumFunction, FoldFunction, SumFunctionOnSet
  <2>2. IsFiniteSet(M) /\ (\A x \in M : f[x] \in Int)
    BY <1>1, <1>4, <1>8
  <2>3. \A x \in M : g[x] = f[x]
    BY <1>3 DEF MadeFor
  <2> HIDE DEF M, g
  <2>4. \A x \in M : g[x] \in Int
    BY <2>2, <2>3
  <2>5. SumFunctionOnSet(g, M) = SumFunctionOnSet(f, M)
    BY <2>2, <2>3, <2>4, SumSame
  <2> QED
    BY <2>1, <2>5 DEF M, g
<1>10. n \in T /\ c[n] \in Trades
  <2>1. n \in 0..n
    BY <1>1
  <2> HIDE DEF T
  <2> QED
    BY <1>2, <1>7, <2>1
<1> QED
  BY <1>2, <1>8, <1>9, <1>10 DEF Trades

\* The books are always such as they are read from.
LEMMA BooksKept == Spec => []Books
<1>1. Init => TimelineOK /\ NothingLost /\ LotsPositive /\ Enumerated
  <2> SUFFICES ASSUME Init PROVE LotsPositive /\ Enumerated
    BY BooksInit
  <2>1. Made = {} /\ Open = {} /\ Len(timeline) = 0
    BY DEF Init, Made, Open, Existing
  <2>2. ToFill
    BY DEF Init, ToFill
  <2> QED
    BY <2>1, <2>2 DEF LotsPositive, Enumerated
<1>2. /\ IInv /\ TimelineOK /\ NothingLost /\ LotsPositive /\ Enumerated
      /\ IInv' /\ [Next]_vars
      => TimelineOK' /\ NothingLost' /\ LotsPositive' /\ Enumerated'
  BY BooksNext, LotsNext DEF BooksInv
<1>3. Spec => [](TimelineOK /\ NothingLost /\ LotsPositive /\ Enumerated)
  BY Inductive, <1>1, <1>2, PTL DEF Spec
<1> QED
  BY Inductive, <1>3, PTL DEF Books

\* Whatever is filled, in whatever order executions come to be sorted: the
\* loop of account_snapshot and compute_positions arrive at the same position,
\* average cost and result, FIFO matching leaves as many lots open and accounts
\* for everything that was paid and received, and the position an order is
\* evaluated against is what the executions of its account add up to.
THEOREM BooksTellOneStory == Spec => []BooksAgree
<1>1. ASSUME Books PROVE BooksAgree
  <2>1. PICK trades \in Seq(Trade) : trades = TradesOf(Existing)
    BY <1>1, TradesCover
  <2>2. /\ AccountPosition(trades) = ComputePosition(trades)
        /\ AccountPosition(trades).quantity = Net(trades)
    BY OnePosition
  <2>3. /\ OpenLots(MatchClosed(trades)) = Net(trades)
        /\ MatchClosed(trades).closed = CashFlow(trades) + OpenLotsAtCost(MatchClosed(trades))
    BY MatchingAddsUp
  <2>4. ASSUME NEW a \in BOOLEAN
        PROVE  Position(a) = AccountPosition(TradesOf(Account(a))).quantity
    <3>1. PICK own \in Seq(Trade) : own = TradesOf(Account(a))
      BY <1>1, TradesCover
    <3>2. Net(own) = Position(a)
      BY <1>1, <3>1, TradesCover DEF Position, PositionOf
    <3> QED
      BY <3>1, <3>2, OnePosition
  <2> QED
    BY <2>1, <2>2, <2>3, <2>4 DEF BooksAgree
<1> QED
  BY <1>1, BooksKept, PTL

\* What was paid and received is also the realised result or the position at
\* its cost, through every reversal, as long as no average cost was rounded:
\* the code divides decimals and the model whole numbers, and what a division
\* leaves over is in neither account.
THEOREM BooksAreExact == Spec => [](Unrounded(TradesOf(Existing)) => ResultsAgree)
<1>1. ASSUME Books, BooksAgree, Unrounded(TradesOf(Existing)) PROVE ResultsAgree
  <2>1. PICK trades \in Seq(Trade) : trades = TradesOf(Existing)
    BY <1>1, TradesCover
  <2>2. ComputePosition(trades).realized
          = CashFlow(trades) + ComputePosition(trades).quantity * ComputePosition(trades).cost
    BY <1>1, <2>1, AverageAddsUp
  <2> QED
    BY <1>1, <2>1, <2>2 DEF ResultsAgree, CostsAddUp
<1>2. Books /\ BooksAgree => (Unrounded(TradesOf(Existing)) => ResultsAgree)
  BY <1>1
<1> QED
  BY <1>2, BooksKept, BooksTellOneStory, PTL
=============================================================================
