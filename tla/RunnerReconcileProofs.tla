------------------------- MODULE RunnerReconcileProofs -------------------------
(***************************************************************************)
(* What a reconciliation pass records was a difference while it ran or is a *)
(* misread word, what lasts is recorded or imported, and each change of a   *)
(* balance or a position is reported: for any orders, keys, passes and      *)
(* window of trades.                                                        *)
(***************************************************************************)
EXTENDS RunnerReconcile, TLAPS

RowStatuses == Statuses \cup {Absent}
OrderStates == States \cup {Absent}
AllWords    == States \cup {"open", "closed", Absent}
Snapshots   == [Keys -> Amounts \cup {Absent}]
Places      == {"idle", "account", "rows", "fills", "recover", "write"}

\* Where a pass has been shown the account, and where it has read the rows.
SeenAccount == {"rows", "fills", "recover", "write"}
SeenRows    == {"fills", "recover", "write"}

\* The types of what a pass holds, and of what is said of the account.
PassTypes ==
  /\ ext \in [Passes -> [Orders -> AllWords]]
  /\ asked \in [Passes -> SUBSET Orders]
  /\ extFills \in [Passes -> SUBSET (1..Len(trades))]
  /\ extAccount \in [Passes -> Snapshots]
  /\ loc \in [Passes -> [Orders -> RowStatuses]]
  /\ locKnown \in [Passes -> SUBSET known]
  /\ locFills \in [Passes -> SUBSET fills]
  /\ first \in [Passes -> Keys \cup {Absent}]
  /\ before \in [Passes -> Amounts \cup {Absent}]
  /\ said \in Snapshots

\* Rows come before orders at the exchange.
Grounded == \A o \in Orders : venue[o] # Absent => row[o] # Absent

\* A pass knows of no rows before it reads them, and then of no orders but
\* theirs; it reads a snapshot before its transaction if no status differs.
Fresh ==
  \A p \in Passes :
    /\ pc[p] \notin SeenRows => asked[p] = {} /\ \A o \in Orders : loc[p][o] = Absent
    /\ pc[p] \in SeenRows => \A o \in Orders : loc[p][o] = Absent => ext[p][o] = Absent
    /\ pc[p] = "write" => \A o \in Orders : loc[p][o] = Converted(ext[p][o])

\* The row of an order is what its state is called.
Right(o) == row[o] = Converted(venue[o])

\* An order that has not differed yet is what the pass was shown, in one of the
\* words for it, and has read.
OrdersAgree ==
  Running(Watched) => \A o \in Orders \ differed :
    /\ ext[Watched][o] # Absent => ext[Watched][o] \in Words(venue[o]) /\ venue[o] # Absent
    /\ loc[Watched][o] # Absent => loc[Watched][o] = row[o] /\ row[o] # Absent
    /\ o \in asked[Watched] => ext[Watched][o] # Absent

\* A fill that has not differed yet was shown and is of an order read as known.
FillsAgree ==
  \A n \in fills \ differed :
    /\ pc[Watched] \in SeenAccount => n \in extFills[Watched]
    /\ pc[Watched] \in SeenRows => trades[n] \in locKnown[Watched]

\* A key that has not differed yet is as shown and as in the last snapshot.
AccountAgrees ==
  pc[Watched] \in SeenAccount => \A k \in Keys \ differed :
    /\ extAccount[Watched][k] = account[k] /\ baseline[k] = account[k]
    /\ pc[Watched] = "write" /\ first[Watched] = k => before[Watched] = account[k]

\* The history of differences contains those of now; what lasts is one, and no
\* word of the exchange is taken for the row.
Noted == Running(Watched) => Different \subseteq differed /\ lasting \subseteq Different \ Alike

IInv == TypeOK /\ PassTypes /\ Grounded /\ Fresh /\ Noted
        /\ OrdersAgree /\ FillsAgree /\ AccountAgrees

-----------------------------------------------------------------------------
\* What each state and each word is taken for.
LEMMA StatusOfWords ==
  /\ Converted(Absent) = Absent
  /\ Converted("live") = "SUBMITTED" /\ Converted("partially_filled") = "PARTIALLY_FILLED"
  /\ Converted("filled") = "FILLED" /\ Converted("canceled") = "CANCELLED"
<1>1. Absent \notin States
  BY ReconcileAssumption
<1>2. Converted(Absent) = Absent
  BY DEF Converted
<1>3. \A w \in States : Converted(w) = EXTERNAL_STATUS[w]
  BY <1>1 DEF Converted, EXTERNAL_STATUS, States
<1>4. EXTERNAL_STATUS["live"] = "SUBMITTED"
  BY DEF EXTERNAL_STATUS
<1>5. EXTERNAL_STATUS["partially_filled"] = "PARTIALLY_FILLED"
  BY DEF EXTERNAL_STATUS
<1>6. EXTERNAL_STATUS["filled"] = "FILLED"
  BY DEF EXTERNAL_STATUS
<1>7. EXTERNAL_STATUS["canceled"] = "CANCELLED"
  BY DEF EXTERNAL_STATUS
<1> QED
  BY <1>2, <1>3, <1>4, <1>5, <1>6, <1>7 DEF States

\* The lists have a word for every state, and for no order none.
LEMMA ListWords ==
  \A v \in States : ListWord[v] \in {"open", "closed", "canceled"} /\ ListWord[v] # Absent
<1>1. ListWord["filled"] = "closed" /\ ListWord["canceled"] = "canceled"
  BY DEF ListWord, States
<1>2. ListWord["live"] = "open" /\ ListWord["partially_filled"] = "open"
  BY DEF ListWord, States
<1> QED
  BY <1>1, <1>2, ReconcileAssumption DEF States

\* The words for an order are words exactly if there is the order.
LEMMA WordsOfStates ==
  ASSUME NEW v \in OrderStates
  PROVE  /\ \A w \in Words(v) : w \in AllWords /\ (w = Absent <=> v = Absent)
         /\ v \in Words(v) /\ (v # Absent => ListWord[v] \in Words(v))
<1>1. Absent \notin States
  BY ReconcileAssumption
<1> QED
  BY <1>1, ListWords DEF Words, OrderStates, AllWords, States

\* Two states are never called the same, and only no order is called none.
LEMMA StatesTold ==
  /\ \A u, v \in OrderStates : Converted(u) = Converted(v) => u = v
  /\ \A v \in OrderStates : Converted(v) = Absent <=> v = Absent
<1>1. Absent \notin Statuses
  BY ReconcileAssumption
<1> QED
  BY <1>1, StatusOfWords DEF OrderStates, States, Statuses, OPEN_STATUSES

\* A transition ends in a status.
LEMMA TransitionsType == \A s \in Statuses : TRANSITIONS[s] \subseteq Statuses
<1>1. \A s \in Statuses \ OPEN_STATUSES : TRANSITIONS[s] = {}
  BY DEF TRANSITIONS, Statuses, OPEN_STATUSES
<1>2. TRANSITIONS["PENDING_SUBMIT"] \subseteq Statuses
  BY DEF TRANSITIONS, Statuses, OPEN_STATUSES
<1>3. TRANSITIONS["SUBMITTED"] \subseteq Statuses
  BY DEF TRANSITIONS, Statuses, OPEN_STATUSES
<1>4. TRANSITIONS["PARTIALLY_FILLED"] \subseteq Statuses
  BY DEF TRANSITIONS, Statuses, OPEN_STATUSES
<1>5. TRANSITIONS["UNKNOWN"] \subseteq Statuses
  BY DEF TRANSITIONS, Statuses, OPEN_STATUSES
<1> QED
  BY <1>1, <1>2, <1>3, <1>4, <1>5 DEF OPEN_STATUSES

\* Trades are only added, at the end.
LEMMA TradesAdded ==
  ASSUME TypeOK, NEW o \in Orders, trades' = Append(trades, o)
  PROVE  /\ trades' \in Seq(Orders) /\ Len(trades') = Len(trades) + 1
         /\ \A n \in 1..Len(trades) : trades'[n] = trades[n]
<1> QED BY DEF TypeOK

\* What an update does to a row.
LEMMA TransitionStep ==
  ASSUME TypeOK, NEW o \in Orders, NEW s, Transition(o, s)
  PROVE  /\ s \in Statuses
         /\ row' = [row EXCEPT ![o] = s]
         /\ had' \in [Orders -> SUBSET OPEN_STATUSES]
<1>1. PICK current \in Read(o) : s \in TRANSITIONS[current]
  BY DEF Transition
<1>2. had[o] \subseteq OPEN_STATUSES /\ row[o] \in RowStatuses
  BY DEF TypeOK, RowStatuses
<1>3. current \in Statuses
  BY <1>1, <1>2 DEF Read, Statuses, RowStatuses
<1>4. s \in Statuses
  BY <1>1, <1>3, TransitionsType
<1>5. {s} \cap OPEN_STATUSES \subseteq OPEN_STATUSES
  OBVIOUS
<1> HIDE DEF OPEN_STATUSES
<1>6. had' \in [Orders -> SUBSET OPEN_STATUSES]
  BY <1>2, <1>5 DEF Transition, TypeOK
<1> QED
  BY <1>4, <1>6 DEF Transition

\* What a step beside the passes does.
LEMMA BesideStep ==
  ASSUME TypeOK, Grounded, Beside
  PROVE  /\ UNCHANGED <<fills, baseline, passes, told>>
         /\ trades' \in Seq(Orders) /\ Len(trades') >= Len(trades)
         /\ \A n \in 1..Len(trades) : trades'[n] = trades[n]
         /\ moves' \in Nat /\ account' \in Snapshots
         /\ venue' \in [Orders -> OrderStates] /\ row' \in [Orders -> RowStatuses]
         /\ had' \in [Orders -> SUBSET OPEN_STATUSES]
         /\ known \subseteq known' /\ known' \subseteq Orders
         /\ row' = row \/ venue' = venue
         /\ \A o \in Orders : row[o] # Absent => row'[o] # Absent
         /\ \A o \in Orders : venue'[o] # Absent => row'[o] # Absent
<1> USE DEF Snapshots
<1> HIDE DEF Statuses, OPEN_STATUSES
<1>1. CASE Move
  BY <1>1 DEF Move, TypeOK, tables, RowStatuses, OrderStates, Grounded
<1>2. CASE \E o \in Orders : Trade(o)
  <2>1. PICK o \in Orders : Trade(o)
    BY <1>2
  <2>2. trades' \in Seq(Orders) /\ Len(trades') = Len(trades) + 1
        /\ (\A n \in 1..Len(trades) : trades'[n] = trades[n]) /\ Len(trades) \in Nat
    BY <2>1, TradesAdded DEF Trade, TypeOK
  <2>3. venue[o] # Absent
    BY <2>1, ReconcileAssumption DEF Trade, States
  <2>4. venue' \in [Orders -> OrderStates]
        /\ \A q \in Orders : venue'[q] # Absent => venue[q] # Absent
    BY <2>1, <2>3 DEF Trade, TypeOK, States, OrderStates
  <2> QED
    BY <2>1, <2>2, <2>4 DEF Trade, TypeOK, tables, RowStatuses, Grounded
<1>3. CASE \E o \in Orders : Arrive(o) \/ Cancel(o)
  <2>1. PICK o \in Orders : Arrive(o) \/ Cancel(o)
    BY <1>3
  <2>2. row[o] # Absent
    BY <2>1, ReconcileAssumption DEF Arrive, Cancel, States, Grounded
  <2>3. venue' \in [Orders -> OrderStates]
        /\ \A q \in Orders : venue'[q] # Absent => row[q] # Absent
    BY <2>1, <2>2 DEF Arrive, Cancel, TypeOK, States, OrderStates, Grounded
  <2>4. UNCHANGED <<trades, account, moves, tables, passes, told>>
    BY <2>1 DEF Arrive, Cancel
  <2> QED
    BY <2>3, <2>4 DEF TypeOK, tables, RowStatuses
<1>4. CASE \E o \in Orders : Insert(o) \/ NoAnswer(o) \/ \E s \in Answers(o) : Apply(o, s)
  <2>1. PICK o \in Orders : Insert(o) \/ NoAnswer(o) \/ \E s \in Answers(o) : Apply(o, s)
    BY <1>4
  <2>2. UNCHANGED <<world, fills, baseline, passes, told>>
        /\ known \subseteq known' /\ known' \subseteq Orders
    BY <2>1 DEF Insert, NoAnswer, Apply, TypeOK
  <2>3. had' \in [Orders -> SUBSET OPEN_STATUSES]
        /\ (row' = row \/ \E s \in Statuses : row' = [row EXCEPT ![o] = s])
    <3>1. CASE Insert(o)
      BY <3>1 DEF Insert, TypeOK, Statuses, OPEN_STATUSES
    <3>2. CASE \E s : Transition(o, s)
      BY <3>2, TransitionStep
    <3>3. CASE UNCHANGED <<row, had>>
      BY <3>3 DEF TypeOK
    <3> QED
      BY <2>1, <3>1, <3>2, <3>3 DEF NoAnswer, Apply
  <2>4. Absent \notin Statuses
    BY ReconcileAssumption
  <2>5. row' \in [Orders -> RowStatuses] /\ \A q \in Orders : row[q] # Absent => row'[q] # Absent
    BY <2>3, <2>4 DEF TypeOK, RowStatuses
  <2> QED
    BY <2>2, <2>3, <2>5 DEF TypeOK, Grounded, world, OrderStates
<1> QED
  BY <1>1, <1>2, <1>3, <1>4 DEF Beside

\* What the watched pass has noted after a step in which it goes on or begins.
LEMMA WatchStep ==
  ASSUME Watch, Running(Watched)'
  PROVE  /\ Different' \subseteq differed'
         /\ lasting' \subseteq (Different' \ Alike') \ Written
         /\ \A k \in still' : k \in Keys /\ account'[k] = account[k]
         /\ Running(Watched) => /\ differed \subseteq differed' /\ lasting' \subseteq lasting
                                /\ still' \subseteq still
<1> HIDE DEF Different, Alike, Written
<1>1. differed' = (IF Running(Watched) THEN differed ELSE Different) \cup Different'
  BY Zenon DEF Watch
<1>2. lasting' = (((IF Running(Watched) THEN lasting ELSE Different) \cap Different') \ Alike')
                 \ Written
  BY Zenon DEF Watch
<1>3. still' = {k \in Keys : account'[k] = account[k] /\ (Running(Watched) => k \in still)}
  BY Zenon DEF Watch
<1> QED
  BY <1>1, <1>2, <1>3

\* What is imported: fills of orders the Runner knows, shown as trades.
LEMMA ImportedFills ==
  ASSUME TypeOK, PassTypes, NEW p \in Passes
  PROVE  \A n \in Imported(p) : /\ n \in 1..Len(trades) /\ trades[n] \in known
                                /\ n \in extFills[p] /\ trades[n] \in locKnown[p]
  BY DEF PassTypes, Imported, OwnFills

\* A fill that is stored has differed: it was missing, or nothing shows it.
LEMMA StoredDiffers ==
  ASSUME NEW n \in 1..Len(trades), n \notin fills, trades[n] \in known,
         UNCHANGED world, n \in fills'
  PROVE  n \in Different \/ n \in Different'
<1>1. CASE n \in Recent
  BY <1>1 DEF Different
<1>2. CASE n \notin Recent
  <2>1. n \notin Recent'
    BY <1>2 DEF Recent, world
  <2> QED
    BY <2>1 DEF Different
<1> QED
  BY <1>1, <1>2

-----------------------------------------------------------------------------
\* A step leaves alone what pass q holds.
Same(q) ==
  /\ pc'[q] = pc[q] /\ ext'[q] = ext[q] /\ asked'[q] = asked[q] /\ extFills'[q] = extFills[q]
  /\ extAccount'[q] = extAccount[q] /\ loc'[q] = loc[q] /\ locKnown'[q] = locKnown[q]
  /\ locFills'[q] = locFills[q] /\ first'[q] = first[q] /\ before'[q] = before[q]

\* What pass p has let go of when it is over.
Left(p) ==
  /\ pc'[p] = "idle" /\ asked'[p] = {} /\ loc'[p] = [o \in Orders |-> Absent]

\* Leave does so, and touches no other pass.
LEMMA LeaveStep ==
  ASSUME TypeOK, PassTypes, NEW p \in Passes, Leave(p), UNCHANGED <<trades, known>>,
         fills \subseteq fills', said' \in Snapshots
  PROVE  /\ PassTypes' /\ pc' \in [Passes -> Places]
         /\ Left(p) /\ \A q \in Passes \ {p} : Same(q)
<1>1. pc' \in [Passes -> Places] /\ ext' \in [Passes -> [Orders -> AllWords]]
      /\ asked' \in [Passes -> SUBSET Orders] /\ loc' \in [Passes -> [Orders -> RowStatuses]]
  BY DEF TypeOK, PassTypes, Leave, Goto, Places, RowStatuses, AllWords, NoOrders
<1>2. extFills' \in [Passes -> SUBSET (1..Len(trades))]
      /\ extAccount' \in [Passes -> Snapshots]
  BY DEF PassTypes, Leave, NoKeys, Snapshots
<1>3. locFills' \in [Passes -> SUBSET fills'] /\ locKnown' \in [Passes -> SUBSET known]
      /\ first' \in [Passes -> Keys \cup {Absent}] /\ before' \in [Passes -> Amounts \cup {Absent}]
  BY DEF PassTypes, Leave
<1>4. Left(p) /\ \A q \in Passes \ {p} : Same(q)
  BY DEF TypeOK, PassTypes, Leave, Goto, Left, Same, NoOrders
<1> QED
  BY <1>1, <1>2, <1>3, <1>4 DEF PassTypes

\* What the last snapshot of a key and what was said of it are after a pass.
LEMMA StoreTypes ==
  ASSUME TypeOK, PassTypes, NEW p \in Passes, Store(p)
  PROVE  baseline' \in Snapshots /\ said' \in Snapshots
<1>1. \A k \in Keys : /\ extAccount[p][k] \in Amounts \cup {Absent}
                      /\ baseline[k] \in Amounts \cup {Absent} /\ said[k] \in Amounts \cup {Absent}
  BY DEF TypeOK, PassTypes, Snapshots
<1>2. baseline' = [k \in Keys |-> IF k \in Shown(p) THEN extAccount[p][k] ELSE baseline[k]]
  BY DEF Store
<1>3. said' = [k \in Keys |-> IF k \in Announced(p) THEN extAccount[p][k] ELSE said[k]]
  BY DEF Store
<1> HIDE DEF Shown, Announced
<1> QED
  BY <1>1, <1>2, <1>3 DEF Snapshots

\* A pass that is over has stored what it imports and the account, or nothing.
LEMMA LeavingStep ==
  ASSUME TypeOK, PassTypes, NEW p \in Passes, Commit(p) \/ CommitAccount(p) \/ Fail(p)
  PROVE  /\ UNCHANGED <<world, row, had, known>>
         /\ fills \subseteq fills' /\ fills' \subseteq fills \cup Imported(p)
         /\ baseline' \in Snapshots
         /\ PassTypes' /\ pc' \in [Passes -> Places]
         /\ Left(p) /\ \A q \in Passes \ {p} : Same(q)
<1>1. /\ UNCHANGED <<world, row, had, known>> /\ Leave(p)
      /\ fills \subseteq fills' /\ fills' \subseteq fills \cup Imported(p)
  BY DEF Commit, CommitAccount, Store, Fail, tables
<1>2. baseline' \in Snapshots /\ said' \in Snapshots
  <2>1. CASE Store(p)
    BY <2>1, StoreTypes
  <2>2. CASE Fail(p)
    BY <2>2 DEF Fail, tables, told, TypeOK, PassTypes, Snapshots
  <2> QED
    BY <2>1, <2>2 DEF Commit, CommitAccount
<1> QED
  BY <1>1, <1>2, LeaveStep DEF world

\* The other steps of a pass: they change what it holds and nothing else.
Reads(p) ==
  \/ ShowOrders(p) \/ ShowAccount(p) \/ ReadOrders(p) \/ ReadFills(p)
  \/ (\E o \in Orders : Recover(p, o)) \/ (\E k \in Keys : ReadBaseline(p, k))

\* They do so.
LEMMA ReadingStep ==
  ASSUME TypeOK, PassTypes, NEW p \in Passes, Reads(p)
  PROVE  /\ UNCHANGED <<world, tables, told>>
         /\ PassTypes' /\ pc' \in [Passes -> Places]
         /\ \A q \in Passes \ {p} : Same(q)
<1> USE DEF Reads
<1>1. UNCHANGED <<world, tables, told>>
  BY DEF ShowOrders, ShowAccount, ReadOrders, ReadFills, Recover, ReadBaseline
<1>2. pc' \in [Passes -> Places]
  BY DEF TypeOK, Places, Goto, ShowOrders, ShowAccount, ReadOrders, ReadFills, Recover, ReadBaseline
<1>3. \A q \in Passes \ {p} : Same(q)
  BY DEF TypeOK, PassTypes, Same, Goto,
         ShowOrders, ShowAccount, ReadOrders, ReadFills, Recover, ReadBaseline
<1>4. ext' \in [Passes -> [Orders -> AllWords]]
  <2>1. CASE ShowOrders(p)
    <3>1. PICK S \in SUBSET {o \in Orders : venue[o] # Absent} :
            ext' = [ext EXCEPT ![p] = [o \in Orders |-> IF o \in S THEN ListWord[venue[o]] ELSE Absent]]
      BY <2>1 DEF ShowOrders
    <3>2. \A o \in S : ListWord[venue[o]] \in AllWords
      BY WordsOfStates DEF TypeOK, OrderStates
    <3>3. [o \in Orders |-> IF o \in S THEN ListWord[venue[o]] ELSE Absent] \in [Orders -> AllWords]
      BY <3>2 DEF AllWords
    <3> QED
      BY <3>1, <3>3 DEF PassTypes
  <2>2. CASE \E o \in Orders : Recover(p, o)
    <3>1. PICK o \in Orders : \E w \in Words(venue[o]) : ext' = [ext EXCEPT ![p][o] = w]
      BY <2>2 DEF Recover
    <3>3. PICK w \in Words(venue[o]) : ext' = [ext EXCEPT ![p][o] = w]
      BY <3>1
    <3>2. w \in AllWords
      BY WordsOfStates DEF TypeOK, OrderStates
    <3> QED
      BY <3>2, <3>3 DEF PassTypes
  <2>3. CASE ReadOrders(p)
    BY <2>3 DEF TypeOK, PassTypes, ReadOrders, AllWords
  <2> QED
    BY <2>1, <2>2, <2>3 DEF PassTypes, ShowAccount, ReadFills, ReadBaseline
<1>5. asked' \in [Passes -> SUBSET Orders] /\ loc' \in [Passes -> [Orders -> RowStatuses]]
  <2>1. CASE \E o \in Orders : Recover(p, o)
    BY <2>1 DEF PassTypes, Recover
  <2>2. CASE ReadOrders(p)
    BY <2>2 DEF TypeOK, PassTypes, RowStatuses, ReadOrders
  <2> QED
    BY <2>1, <2>2 DEF PassTypes, ShowOrders, ShowAccount, ReadFills, ReadBaseline
<1>6. extFills' \in [Passes -> SUBSET (1..Len(trades))]
  <2>1. Recent \subseteq 1..Len(trades)
    BY DEF Recent
  <2>2. CASE ShowAccount(p)
    BY <2>1, <2>2 DEF PassTypes, ShowAccount
  <2> QED
    BY <2>2 DEF PassTypes, ShowOrders, ReadOrders, ReadFills, Recover, ReadBaseline
<1>7. locFills' \in [Passes -> SUBSET fills] /\ locKnown' \in [Passes -> SUBSET known]
  <2>1. CASE ReadOrders(p)
    BY <2>1 DEF PassTypes, ReadOrders
  <2>2. CASE ReadFills(p)
    BY <2>2 DEF PassTypes, ReadFills
  <2> QED
    BY <2>1, <2>2 DEF PassTypes, ShowOrders, ShowAccount, Recover, ReadBaseline
<1>8. extAccount' \in [Passes -> Snapshots]
  <2>1. CASE ShowAccount(p)
    BY <2>1 DEF TypeOK, PassTypes, Snapshots, ShowAccount
  <2> QED
    BY <2>1 DEF PassTypes, ShowOrders, ReadOrders, ReadFills, Recover, ReadBaseline
<1>9. first' \in [Passes -> Keys \cup {Absent}] /\ before' \in [Passes -> Amounts \cup {Absent}]
  <2>1. CASE \E k \in Keys : ReadBaseline(p, k)
    BY <2>1 DEF TypeOK, PassTypes, ReadBaseline
  <2> QED
    BY <2>1 DEF PassTypes, ShowOrders, ShowAccount, ReadOrders, ReadFills, Recover
<1> QED
  BY <1>1, <1>2, <1>3, <1>4, <1>5, <1>6, <1>7, <1>8, <1>9 DEF PassTypes, world, tables, told

\* What every step of a pass does and does not.
LEMMA PassStep ==
  ASSUME TypeOK, PassTypes, NEW p \in Passes, Pass(p)
  PROVE  /\ UNCHANGED <<world, row, had, known>>
         /\ fills \subseteq fills' /\ fills' \subseteq fills \cup Imported(p)
         /\ baseline' \in Snapshots
         /\ PassTypes' /\ pc' \in [Passes -> Places]
         /\ \A q \in Passes \ {p} : Same(q)
<1>1. CASE Commit(p) \/ CommitAccount(p) \/ Fail(p)
  BY <1>1, LeavingStep
<1>2. CASE Reads(p)
  BY <1>2, ReadingStep DEF tables, TypeOK, Snapshots
<1> QED
  BY <1>1, <1>2 DEF Pass, Reads

\* The types are kept.
LEMMA TypesKept ==
  ASSUME IInv, [Next]_vars
  PROVE  TypeOK' /\ PassTypes'
<1> USE DEF IInv
<1>1. CASE UNCHANGED vars
  BY <1>1 DEF TypeOK, PassTypes, vars, world, tables, passes, notes, told
<1>2. CASE Beside
  <2>1. 1..Len(trades) \subseteq 1..Len(trades')
    <3>1. Len(trades) \in Nat /\ Len(trades') \in Nat
      BY <1>2, BesideStep DEF TypeOK
    <3> QED
      BY <1>2, <3>1, BesideStep
  <2>2. fills' \subseteq {n \in 1..Len(trades') : trades'[n] \in known'}
    BY <1>2, <2>1, BesideStep DEF TypeOK
  <2>3. TypeOK'
    BY <1>2, <2>2, BesideStep DEF TypeOK, RowStatuses, OrderStates, Snapshots, passes
  <2>4. PassTypes'
    BY <1>2, <2>1, BesideStep DEF PassTypes, passes, told
  <2> QED
    BY <2>3, <2>4
<1>3. CASE \E p \in Passes : Pass(p)
  <2>1. PICK p \in Passes : Pass(p)
    BY <1>3
  <2>2. PassTypes' /\ pc' \in [Passes -> Places] /\ baseline' \in Snapshots
    BY <2>1, PassStep
  <2>3. UNCHANGED <<world, row, had, known>>
    BY <2>1, PassStep
  <2>4. fills' \subseteq {n \in 1..Len(trades) : trades[n] \in known}
    BY <2>1, PassStep, ImportedFills DEF TypeOK
  <2> QED
    BY <2>2, <2>3, <2>4 DEF TypeOK, Places, Snapshots, world
<1> QED
  BY <1>1, <1>2, <1>3 DEF Next

\* Rows stay, and come before orders.
LEMMA GroundedKept ==
  ASSUME IInv, [Next]_vars
  PROVE  Grounded'
<1> USE DEF IInv
<1>1. CASE UNCHANGED vars
  BY <1>1 DEF Grounded, vars, world, tables
<1>2. CASE Beside
  BY <1>2, BesideStep DEF Grounded
<1>3. CASE \E p \in Passes : Pass(p)
  BY <1>3, PassStep DEF Grounded, world
<1> QED
  BY <1>1, <1>2, <1>3 DEF Next

\* Passes know of no rows before they read them.
LEMMA FreshKept ==
  ASSUME IInv, [Next]_vars
  PROVE  Fresh'
<1> USE DEF IInv
<1>1. CASE UNCHANGED passes
  BY <1>1 DEF Fresh, passes
<1>2. CASE \E p \in Passes : Pass(p)
  <2>1. PICK p \in Passes : Pass(p)
    BY <1>2
  <2>2. SUFFICES
          /\ pc'[p] \notin SeenRows => asked'[p] = {} /\ \A o \in Orders : loc'[p][o] = Absent
          /\ pc'[p] \in SeenRows => \A o \in Orders : loc'[p][o] = Absent => ext'[p][o] = Absent
          /\ pc'[p] = "write" => \A o \in Orders : loc'[p][o] = Converted(ext'[p][o])
    <3>1. \A q \in Passes, o \in Orders : Converted(ext[q][o])' = Converted(ext'[q][o])
      BY DEF Converted
    <3> QED
      BY <2>1, <3>1, PassStep DEF Fresh, Same
  <2>3. CASE Commit(p) \/ CommitAccount(p) \/ Fail(p)
    BY <2>3, LeavingStep DEF Left, SeenRows
  <2>4. CASE ShowOrders(p) \/ ShowAccount(p)
    BY <2>4 DEF ShowOrders, ShowAccount, Goto, Running, SeenRows, Fresh, TypeOK
  <2>5. CASE ReadOrders(p)
    BY <2>5 DEF ReadOrders, Goto, SeenRows, Fresh, TypeOK, PassTypes
  <2>6. CASE ReadFills(p)
    BY <2>6 DEF ReadFills, Goto, SeenRows, Fresh, TypeOK
  <2>7. CASE \E o \in Orders : Recover(p, o)
    BY <2>7 DEF Recover, Unshown, SeenRows, Fresh, TypeOK, PassTypes
  <2>8. CASE \E k \in Keys : ReadBaseline(p, k)
    BY <2>8 DEF ReadBaseline, AllAsked, WritesFirst, OrderDiffs, Goto, SeenRows, Fresh, TypeOK
  <2> QED
    BY <2>1, <2>3, <2>4, <2>5, <2>6, <2>7, <2>8 DEF Pass
<1>3. CASE Beside
  BY <1>1, <1>3, BesideStep
<1> QED
  BY <1>1, <1>2, <1>3 DEF Next, vars

-----------------------------------------------------------------------------
\* While the watched pass runs, what it holds is changed by its own steps only,
\* which change neither the exchange nor the tables.
LEMMA WatchedStep ==
  ASSUME IInv, [Next]_vars, Running(Watched)'
  PROVE  \/ /\ Running(Watched) /\ Same(Watched)
            /\ row' = row \/ venue' = venue
            /\ account' = account \/ baseline' = baseline
            /\ \A o \in Orders : row[o] # Absent => row'[o] # Absent
            /\ known \subseteq known'
         \/ Reads(Watched) /\ UNCHANGED <<world, tables>>
<1> USE DEF IInv
<1>1. CASE UNCHANGED vars
  BY <1>1 DEF vars, world, tables, passes, Same, Running
<1>2. CASE Beside
  BY <1>2, BesideStep DEF passes, Same, Running
<1>3. CASE \E p \in Passes : Pass(p)
  <2>1. PICK p \in Passes : Pass(p)
    BY <1>3
  <2>2. CASE p # Watched
    BY <2>1, <2>2, PassStep, ReconcileAssumption DEF Same, Running, world
  <2>3. CASE p = Watched
    <3>1. ~(Commit(p) \/ CommitAccount(p) \/ Fail(p))
      BY <2>3, LeavingStep DEF Left, Running
    <3>2. Reads(p)
      BY <2>1, <3>1 DEF Pass, Reads
    <3> QED
      BY <2>3, <3>2, ReadingStep
  <2> QED
    BY <2>2, <2>3
<1> QED
  BY <1>1, <1>2, <1>3 DEF Next

\* What differs is a matter of the exchange and the tables.
LEMMA DifferenceStays ==
  ASSUME UNCHANGED vars
  PROVE  Different' = Different /\ Alike' = Alike /\ Running(Watched)' = Running(Watched)
  BY DEF Different, Alike, Words, Converted, vars, world, tables, passes, Recent, Running

\* After every step, what differs is noted, and what lasts is still different.
LEMMA NotedKept ==
  ASSUME IInv, [Next]_vars
  PROVE  Noted'
<1> USE DEF IInv
<1> SUFFICES ASSUME Running(Watched)'
             PROVE  (Different \subseteq differed /\ lasting \subseteq Different \ Alike)'
  BY DEF Noted
<1>1. CASE UNCHANGED vars
  BY <1>1, DifferenceStays DEF Noted, vars, notes
<1>2. CASE Watch
  BY <1>2, WatchStep
<1> QED
  BY <1>1, <1>2 DEF Next

\* Once noted, always noted while the pass runs; and what differs now is noted.
LEMMA DifferedGrows ==
  ASSUME IInv, [Next]_vars, Running(Watched)'
  PROVE  /\ Different' \subseteq differed'
         /\ Running(Watched) => differed \subseteq differed' /\ Different \subseteq differed
<1> USE DEF IInv
<1>1. CASE UNCHANGED vars
  BY <1>1, DifferenceStays DEF Noted, vars, notes
<1>2. CASE Watch
  BY <1>2, WatchStep DEF Noted
<1> QED
  BY <1>1, <1>2 DEF Next

\* An order that has not been noted was never in a state unlike its row, and is
\* in none now.
LEMMA Unnoted ==
  ASSUME IInv, [Next]_vars, Running(Watched)', NEW o \in Orders, o \notin differed'
  PROVE  /\ row'[o] # Absent => row'[o] = Converted(venue'[o])
         /\ Running(Watched) => o \notin differed
         /\ Running(Watched) /\ row[o] # Absent => row[o] = Converted(venue[o])
<1>1. o \notin Different' /\ (Running(Watched) => o \notin differed /\ o \notin Different)
  BY DifferedGrows
<1>2. \A q \in Orders : Converted(venue[q])' = Converted(venue'[q])
  BY DEF Converted
<1>3. o \notin Different => (row[o] # Absent => row[o] = Converted(venue[o]))
  BY DEF Different
<1>4. o \notin Different' => (row'[o] # Absent => row'[o] = Converted(venue'[o]))
  BY <1>2 DEF Different
<1> QED
  BY <1>1, <1>3, <1>4

\* The row and the order stay as they are while they are alike.
LEMMA AlikeStay ==
  ASSUME TypeOK, TypeOK', NEW o \in Orders, row' = row \/ venue' = venue,
         row[o] # Absent, row'[o] # Absent,
         row[o] = Converted(venue[o]), row'[o] = Converted(venue'[o])
  PROVE  row'[o] = row[o] /\ venue'[o] = venue[o]
<1>1. venue[o] \in OrderStates /\ venue'[o] \in OrderStates
  BY DEF TypeOK, OrderStates
<1> QED
  BY <1>1, StatesTold

\* The orders agree after every step.
LEMMA OrdersKept ==
  ASSUME IInv, [Next]_vars
  PROVE  OrdersAgree'
<1> USE DEF IInv
<1> DEFINE W == Watched
<1>0. \A q \in Orders : Words(venue[q])' = Words(venue'[q])
  BY DEF Words
<1> SUFFICES ASSUME Running(W)', NEW o \in Orders, o \notin differed'
             PROVE  /\ ext'[W][o] # Absent => ext'[W][o] \in Words(venue'[o]) /\ venue'[o] # Absent
                    /\ loc'[W][o] # Absent => loc'[W][o] = row'[o] /\ row'[o] # Absent
                    /\ o \in asked'[W] => ext'[W][o] # Absent
  BY <1>0 DEF OrdersAgree
<1>1. Running(W) => o \notin differed
  BY Unnoted
<1>2. row'[o] # Absent => row'[o] = Converted(venue'[o])
  BY Unnoted
<1>3. Running(W) /\ row[o] # Absent => row[o] = Converted(venue[o])
  BY Unnoted
<1>4. venue[o] # Absent => row[o] # Absent
  BY DEF Grounded
<1>5. venue[o] \in OrderStates /\ (\A w \in Words(venue[o]) : w = Absent <=> venue[o] = Absent)
      /\ (venue[o] # Absent => ListWord[venue[o]] \in Words(venue[o]))
  <2>1. venue[o] \in OrderStates
    BY DEF TypeOK, OrderStates
  <2> QED
    BY <2>1, WordsOfStates
<1>6. CASE Running(W) /\ Same(W) /\ (row' = row \/ venue' = venue)
           /\ (row[o] # Absent => row'[o] # Absent)
  <2>1. row[o] # Absent => row'[o] = row[o] /\ venue'[o] = venue[o]
    <3>1. TypeOK'
      BY TypesKept
    <3> QED
      BY <3>1, <1>2, <1>3, <1>6, AlikeStay
  <2> QED
    BY <1>1, <1>4, <1>6, <2>1 DEF Same, OrdersAgree
<1>7. CASE UNCHANGED <<world, tables>> /\ ShowOrders(W)
  <2>1. loc'[W][o] = Absent /\ asked'[W] = {}
    BY <1>7, ReconcileAssumption DEF ShowOrders, Running, Fresh, SeenRows
  <2>2. ext'[W][o] # Absent => ext'[W][o] = ListWord[venue[o]] /\ venue[o] # Absent
    BY <1>7, ReconcileAssumption DEF ShowOrders, PassTypes
  <2> QED
    BY <1>5, <1>7, <2>1, <2>2 DEF world
<1>8. CASE /\ UNCHANGED <<world, tables>>
           /\ ShowAccount(W) \/ ReadFills(W) \/ \E k \in Keys : ReadBaseline(W, k)
  <2>1. Running(W) /\ UNCHANGED <<ext, asked, loc>>
    BY <1>8 DEF ShowAccount, ReadFills, ReadBaseline, AllAsked, Running
  <2> QED
    BY <1>1, <1>8, <2>1 DEF OrdersAgree, world, tables
<1>9. CASE UNCHANGED <<world, tables>> /\ ReadOrders(W)
  <2>1. Running(W) /\ asked'[W] = {} /\ loc'[W][o] = row[o]
        /\ ext'[W][o] = IF row[o] = Absent THEN Absent ELSE ext[W][o]
    BY <1>9, ReconcileAssumption DEF ReadOrders, Running, Fresh, SeenRows, PassTypes
  <2> QED
    BY <1>1, <1>9, <2>1 DEF OrdersAgree, world, tables
<1>10. CASE UNCHANGED <<world, tables>> /\ \E q \in Orders : Recover(W, q)
  <2>1. PICK q \in Orders : Recover(W, q)
    BY <1>10
  <2>2. Running(W) /\ loc' = loc
        /\ (o # q => ext'[W][o] = ext[W][o] /\ (o \in asked'[W] => o \in asked[W]))
    BY <2>1, ReconcileAssumption DEF Recover, Running, PassTypes
  <2>3. o = q => ext'[W][o] \in Words(venue[o]) /\ loc[W][o] # Absent
    BY <2>1, ReconcileAssumption DEF Recover, Unshown, PassTypes
  <2>4. loc[W][o] # Absent => venue[o] # Absent /\ loc[W][o] = row[o]
    BY <1>1, <1>3, <1>5, <2>2, StatesTold DEF OrdersAgree
  <2> QED
    BY <1>1, <1>5, <1>10, <2>2, <2>3, <2>4 DEF OrdersAgree, world, tables
<1> QED
  BY <1>6, <1>7, <1>8, <1>9, <1>10, WatchedStep DEF Reads

\* Fills agree after every step.
LEMMA FillsKept ==
  ASSUME IInv, [Next]_vars
  PROVE  FillsAgree'
<1> USE DEF IInv
<1> DEFINE W == Watched
<1> SUFFICES ASSUME NEW n \in fills', n \notin differed', pc'[W] \in SeenAccount
             PROVE  /\ n \in extFills'[W]
                    /\ pc'[W] \in SeenRows => trades'[n] \in locKnown'[W]
  BY DEF FillsAgree, SeenAccount, SeenRows
<1>1. Running(W)'
  BY DEF Running, SeenAccount
<1>2. n \notin Different' /\ (Running(W) => n \notin differed /\ n \notin Different)
  BY <1>1, DifferedGrows
<1>3. n \in fills => trades'[n] = trades[n] /\ trades[n] \in known
  <2>1. n \in fills => n \in 1..Len(trades) /\ trades[n] \in known
    BY DEF TypeOK
  <2>2. CASE UNCHANGED vars
    BY <2>1, <2>2 DEF vars, world
  <2>3. CASE Beside
    BY <2>1, <2>3, BesideStep
  <2>4. CASE \E p \in Passes : Pass(p)
    BY <2>1, <2>4, PassStep DEF world
  <2> QED
    BY <2>2, <2>3, <2>4 DEF Next
<1>4. Running(W) => n \in fills
  <2> SUFFICES ASSUME Running(W), n \notin fills PROVE FALSE
    OBVIOUS
  <2>1. PICK p \in Passes : Pass(p)
    BY BesideStep DEF Next, vars, tables
  <2>2. n \in Imported(p) /\ UNCHANGED world
    BY <2>1, PassStep
  <2>3. n \in 1..Len(trades) /\ trades[n] \in known
    BY <2>2, ImportedFills
  <2>4. n \in Different \/ n \in Different'
    BY <2>2, <2>3, StoredDiffers
  <2> QED
    BY <1>2, <2>4
<1>5. CASE Same(W) /\ Running(W)
  BY <1>2, <1>3, <1>4, <1>5 DEF FillsAgree, Same
<1>6. CASE UNCHANGED <<world, tables>> /\ (ShowOrders(W) \/ ShowAccount(W))
  <2>1. ~ShowOrders(W)
    BY ReconcileAssumption DEF ShowOrders, Goto, SeenAccount, TypeOK
  <2>2. pc'[W] = "rows" /\ extFills'[W] = Recent
    BY <1>6, <2>1, ReconcileAssumption DEF ShowAccount, Goto, TypeOK, PassTypes
  <2>3. Recent' = Recent
    BY <1>6 DEF Recent, world
  <2> QED
    BY <1>2, <2>2, <2>3 DEF Different, SeenRows
<1>7. CASE UNCHANGED <<world, tables>> /\ ReadOrders(W)
  <2>1. Running(W) /\ pc[W] = "rows" /\ extFills'[W] = extFills[W] /\ locKnown'[W] = known
    BY <1>7, ReconcileAssumption DEF ReadOrders, Running, PassTypes
  <2> QED
    BY <1>2, <1>3, <1>4, <2>1 DEF FillsAgree, SeenAccount
<1>8. CASE /\ UNCHANGED <<world, tables>>
           /\ \/ ReadFills(W) \/ (\E k \in Keys : ReadBaseline(W, k))
              \/ \E o \in Orders : Recover(W, o)
  <2>1. Running(W) /\ pc[W] \in SeenRows /\ UNCHANGED <<extFills, locKnown>>
    BY <1>8 DEF ReadFills, ReadBaseline, Recover, AllAsked, Running, SeenRows
  <2>2. pc[W] \in SeenAccount
    BY <2>1 DEF SeenAccount, SeenRows
  <2> QED
    BY <1>2, <1>3, <1>4, <2>1, <2>2 DEF FillsAgree
<1> QED
  BY <1>1, <1>5, <1>6, <1>7, <1>8, WatchedStep DEF Reads

\* The account agrees after every step.
LEMMA AccountKept ==
  ASSUME IInv, [Next]_vars
  PROVE  AccountAgrees'
<1> USE DEF IInv
<1> DEFINE W == Watched
<1> SUFFICES ASSUME NEW k \in Keys, k \notin differed', pc'[W] \in SeenAccount
             PROVE  /\ extAccount'[W][k] = account'[k] /\ baseline'[k] = account'[k]
                    /\ pc'[W] = "write" /\ first'[W] = k => before'[W] = account'[k]
  BY DEF AccountAgrees
<1>1. Running(W)'
  BY DEF Running, SeenAccount
<1>2. k \notin Different' /\ (Running(W) => k \notin differed /\ k \notin Different)
  BY <1>1, DifferedGrows
<1>3. baseline'[k] = account'[k] /\ (Running(W) => baseline[k] = account[k])
  BY <1>2 DEF Different
<1>4. CASE Same(W) /\ Running(W) /\ (account' = account \/ baseline' = baseline)
  BY <1>2, <1>3, <1>4 DEF Same, AccountAgrees
<1>5. CASE UNCHANGED <<world, tables>> /\ (ShowOrders(W) \/ ShowAccount(W))
  <2>1. ~ShowOrders(W)
    BY ReconcileAssumption DEF ShowOrders, Goto, SeenAccount, TypeOK
  <2>2. pc'[W] = "rows" /\ extAccount'[W] = account /\ account' = account
    BY <1>5, <2>1, ReconcileAssumption DEF ShowAccount, Goto, TypeOK, PassTypes, world
  <2> QED
    BY <1>3, <2>2
<1>6. CASE /\ UNCHANGED <<world, tables>>
           /\ ReadOrders(W) \/ ReadFills(W) \/ \E o \in Orders : Recover(W, o)
  <2>1. Running(W) /\ pc[W] \in SeenAccount /\ extAccount' = extAccount /\ pc'[W] # "write"
    BY <1>6, ReconcileAssumption
    DEF ReadOrders, ReadFills, Recover, Running, SeenAccount, Goto, TypeOK
  <2> QED
    BY <1>2, <1>3, <1>6, <2>1 DEF AccountAgrees, world
<1>7. CASE UNCHANGED <<world, tables>> /\ \E q \in Keys : ReadBaseline(W, q)
  <2>1. PICK q \in Keys : ReadBaseline(W, q)
    BY <1>7
  <2>2. Running(W) /\ pc[W] \in SeenAccount /\ extAccount' = extAccount
        /\ first'[W] = q /\ before'[W] = baseline[q]
    BY <2>1, ReconcileAssumption DEF ReadBaseline, AllAsked, Running, SeenAccount, PassTypes
  <2> QED
    BY <1>2, <1>3, <1>7, <2>2 DEF AccountAgrees, world
<1> QED
  BY <1>1, <1>4, <1>5, <1>6, <1>7, WatchedStep DEF Reads

-----------------------------------------------------------------------------
\* In the initial state nothing runs and nothing is recorded.
LEMMA InitInv == Init => IInv
<1> SUFFICES ASSUME Init PROVE IInv
  OBVIOUS
<1> USE DEF Init, NoOrders, NoKeys
<1>1. TypeOK
  <2>1. trades \in Seq(Orders) /\ Len(trades) = 0
    OBVIOUS
  <2> QED
    BY <2>1, ReconcileAssumption DEF TypeOK
<1>2. PassTypes
  BY DEF PassTypes, RowStatuses, AllWords, Snapshots
<1>3. Grounded /\ Fresh
  BY DEF Grounded, Fresh, SeenRows
<1>4. Noted /\ OrdersAgree /\ FillsAgree /\ AccountAgrees
  BY ReconcileAssumption
  DEF Noted, OrdersAgree, FillsAgree, AccountAgrees, Running, SeenAccount, SeenRows
<1> QED
  BY <1>1, <1>2, <1>3, <1>4 DEF IInv

\* The invariant is kept by every step.
LEMMA StepInv == IInv /\ [Next]_vars => IInv'
  BY TypesKept, GroundedKept, FreshKept, NotedKept, OrdersKept, FillsKept, AccountKept DEF IInv

\* Every variable has its type, and every fill is of an order whose number the
\* Runner knows.
THEOREM TypeCorrect == Spec => []TypeOK
<1>1. IInv => TypeOK
  BY DEF IInv
<1> QED
  BY <1>1, InitInv, StepInv, PTL DEF Spec

\* What a pass that is about to commit records has been noted, or is misread.
LEMMA ReportedWasNoted ==
  ASSUME IInv, Commits(Watched)
  PROVE  Reported(Watched) \ Misread(Watched) \subseteq differed
<1> USE DEF IInv
<1> DEFINE W == Watched
<1>1. pc[W] \in {"recover", "write"} /\ (pc[W] = "recover" => Unshown(W) = {})
  BY DEF Commits, Commit, CommitAccount, AllAsked
<1>2. OrderDiffs(W) \ Misread(W) \subseteq differed
  <2> SUFFICES ASSUME NEW o \in Orders, o \notin differed,
                      loc[W][o] # Converted(ext[W][o])
               PROVE  o \in Misread(W)
    BY DEF OrderDiffs
  <2>1. pc[W] = "recover"
    BY <1>1, ReconcileAssumption DEF Fresh
  <2>2. loc[W][o] # Absent
    BY <2>1, StatusOfWords, ReconcileAssumption DEF Fresh, SeenRows
  <2>3. ext[W][o] # Absent
    BY <1>1, <2>1, <2>2 DEF Unshown, OrdersAgree, Running
  <2>4. ext[W][o] \in Words(venue[o]) /\ venue[o] # Absent /\ loc[W][o] = row[o] /\ row[o] # Absent
    BY <2>1, <2>2, <2>3 DEF OrdersAgree, Running
  <2>5. row[o] = Converted(venue[o])
    <3>1. o \notin Different
      BY <2>1 DEF Noted, Running
    <3> QED
      BY <2>4, <3>1 DEF Different
  <2>6. ext[W][o] = ListWord[venue[o]] /\ venue[o] \in States
    BY <2>4, <2>5 DEF Words, TypeOK
  <2> QED
    BY <2>4, <2>5, <2>6 DEF Misread
<1>3. FillDiffs(W) \subseteq differed
  <2>1. locFills[W] \subseteq fills
    BY ReconcileAssumption DEF PassTypes
  <2> QED
    BY <1>1, <2>1 DEF FillDiffs, OwnFills, FillsAgree, SeenAccount, SeenRows
<1>4. AccountDiffs(W) \subseteq differed
  <2> SUFFICES ASSUME NEW k \in Keys, k \notin differed PROVE Old(W, k) = extAccount[W][k]
    BY DEF AccountDiffs, Shown
  <2> QED
    BY <1>1 DEF Old, AccountAgrees, SeenAccount
<1> HIDE DEF Misread, OrderDiffs, FillDiffs, AccountDiffs, W
<1> QED
  BY <1>2, <1>3, <1>4 DEF Reported, W

\* No false alarm but by misread words: each difference a pass records was one
\* at some moment while it ran, whatever moved, was written or was committed
\* meanwhile.
THEOREM NoFalseAlarm == Spec => DifferencesWereReal
<1>1. IInv /\ [Next]_vars
      => [Commits(Watched) =>
            Reported(Watched) \ Misread(Watched) \subseteq differed \cup Different']_vars
  BY ReportedWasNoted
<1> QED
  BY <1>1, InitInv, StepInv, PTL DEF Spec, DifferencesWereReal

-----------------------------------------------------------------------------
\* What the watched pass holds of a difference that lasts: a word for another
\* status than the row's, a fill that is only stored, or one that is only shown.
LastingAgrees ==
  Running(Watched) => \A x \in lasting :
    /\ x \in Orders => /\ Converted(ext[Watched][x]) # row[x]
                       /\ pc[Watched] \in SeenRows => loc[Watched][x] = row[x]
    /\ x \in Nat /\ x \in fills =>
         /\ pc[Watched] \in SeenAccount => x \notin extFills[Watched]
         /\ pc[Watched] \in {"recover", "write"} => x \in locFills[Watched]
    /\ x \in Nat /\ x \notin fills =>
         /\ pc[Watched] \in SeenAccount => x \in extFills[Watched]
         /\ pc[Watched] \in SeenRows => trades[x] \in locKnown[Watched]

\* An order that differs has a row.
LEMMA DifferentOrder ==
  ASSUME TypeOK, NEW o \in Orders, o \in Different
  PROVE  row[o] # Absent
<1>1. fills \subseteq Nat /\ Recent \subseteq Nat
  BY DEF TypeOK, Recent
<1>2. o \notin Nat /\ o \notin Keys
  BY ReconcileAssumption
<1> HIDE DEF Recent
<1> QED
  BY <1>1, <1>2 DEF Different

\* A fill that differs is only stored, or it is only shown and its order known.
LEMMA DifferentFill ==
  ASSUME TypeOK, NEW n \in Nat, n \in Different
  PROVE  \/ n \in fills /\ n \notin Recent
         \/ n \notin fills /\ n \in Recent /\ trades[n] \in known
  BY ReconcileAssumption DEF TypeOK, Different, Recent

\* A trade keeps its number.
LEMMA TradesStay ==
  ASSUME IInv, [Next]_vars
  PROVE  /\ fills \subseteq fills'
         /\ \A n \in 1..Len(trades) : trades'[n] = trades[n]
<1>1. CASE UNCHANGED vars
  BY <1>1 DEF vars, world, tables
<1>2. CASE Beside
  BY <1>2, BesideStep DEF IInv
<1>3. CASE \E p \in Passes : Pass(p)
  BY <1>3, PassStep DEF IInv, world
<1> QED
  BY <1>1, <1>2, <1>3 DEF Next

\* A fill that lasts as a difference stays what it is, stored only or shown only.
LEMMA FillStaysSo ==
  ASSUME IInv, TypeOK', [Next]_vars, NEW n \in Nat, n \in Different, n \in Different',
         n \in fills'
  PROVE  n \in fills
<1> SUFFICES ASSUME n \notin fills PROVE FALSE
  OBVIOUS
<1>1. PICK p \in Passes : Pass(p)
  BY BesideStep DEF Next, vars, tables, IInv
<1>2. UNCHANGED world
  BY <1>1, PassStep DEF IInv
<1>3. Recent' = Recent
  BY <1>2 DEF Recent, world
<1>4. n \in Recent
  BY DifferentFill DEF IInv
<1>5. n \notin Recent'
  <2> HIDE DEF Recent
  <2> QED
    BY ReconcileAssumption DEF Different, TypeOK
<1> QED
  BY <1>3, <1>4, <1>5

\* What a step of the passes or beside them does to lasting differences.
LEMMA LastingStep ==
  ASSUME IInv, [Next]_vars, Running(Watched)'
  PROVE  /\ lasting' \subseteq Different' \ Alike'
         /\ \A o \in Orders : o \in lasting' => row'[o] = row[o] \/ UNCHANGED vars
         /\ Running(Watched) => lasting' \subseteq lasting /\ lasting' \subseteq Different
<1>1. CASE UNCHANGED vars
  BY <1>1, DifferenceStays DEF IInv, Noted, vars, notes
<1>2. CASE Watch
  <2>1. lasting' \subseteq (Different' \ Alike') \ Written
    BY <1>2, WatchStep
  <2>2. \A o \in Orders : o \in lasting' => row'[o] = row[o]
    BY <2>1 DEF Written
  <2> QED
    BY <1>2, <2>1, <2>2, WatchStep DEF IInv, Noted
<1> QED
  BY <1>1, <1>2 DEF Next

\* The orders that last agree after every step.
LEMMA LastingOrdersKept ==
  ASSUME IInv, IInv', LastingAgrees, [Next]_vars, Running(Watched)',
         NEW o \in Orders, o \in lasting'
  PROVE  /\ Converted(ext'[Watched][o]) # row'[o]
         /\ pc'[Watched] \in SeenRows => loc'[Watched][o] = row'[o]
<1> DEFINE W == Watched
<1>1. row'[o] = row[o] /\ (Running(W) => o \in lasting)
  BY LastingStep DEF vars, tables
<1>2. row'[o] # Absent
  <2>1. o \in Different' /\ (fills \subseteq Nat)'
    BY LastingStep DEF IInv, TypeOK
  <2>2. (Recent \subseteq Nat)'
    BY DEF IInv, TypeOK, Recent
  <2>3. o \notin Nat /\ o \notin Keys
    BY ReconcileAssumption
  <2> HIDE DEF Recent
  <2> QED
    BY <2>1, <2>2, <2>3 DEF Different
<1>3. \A w \in Words(venue'[o]) : Converted(w) # row'[o]
  <2>1. o \notin Alike'
    BY LastingStep
  <2>2. Words(venue[o])' = Words(venue'[o]) /\ \A w : Converted(w)' = Converted(w)
    BY DEF Words, Converted
  <2> QED
    BY <2>1, <2>2 DEF Alike
<1>4. Converted(Absent) # row'[o]
  BY <1>2, StatusOfWords
<1>5. CASE Same(W) /\ Running(W)
  BY <1>1, <1>5 DEF Same, LastingAgrees
<1>6. CASE UNCHANGED <<world, tables>> /\ ShowOrders(W)
  <2>1. ext'[W][o] = Absent \/ (venue[o] # Absent /\ ext'[W][o] = ListWord[venue[o]])
    BY <1>6, ReconcileAssumption DEF ShowOrders, IInv, PassTypes
  <2>2. venue[o] # Absent => ListWord[venue[o]] \in Words(venue[o])
    BY DEF Words
  <2>3. pc'[W] = "account"
    BY <1>6, ReconcileAssumption DEF ShowOrders, Goto, IInv, TypeOK
  <2> QED
    BY <1>3, <1>4, <1>6, <2>1, <2>2, <2>3 DEF world, SeenRows
<1>7. CASE UNCHANGED <<world, tables>> /\ ReadOrders(W)
  <2>1. Running(W) /\ loc'[W][o] = row[o]
        /\ ext'[W][o] = IF row[o] = Absent THEN Absent ELSE ext[W][o]
    BY <1>7, ReconcileAssumption DEF ReadOrders, Running, IInv, PassTypes
  <2> QED
    BY <1>1, <1>2, <2>1 DEF LastingAgrees
<1>8. CASE /\ UNCHANGED <<world, tables>>
           /\ \/ ShowAccount(W) \/ ReadFills(W) \/ (\E k \in Keys : ReadBaseline(W, k))
              \/ \E q \in Orders : Recover(W, q)
  <2>1. Running(W) /\ loc' = loc /\ (pc'[W] \in SeenRows => pc[W] \in SeenRows)
    BY <1>8, ReconcileAssumption
    DEF ShowAccount, ReadFills, ReadBaseline, Recover, AllAsked, Running, Goto, SeenRows, IInv, TypeOK
  <2>2. ext'[W][o] = ext[W][o] \/ ext'[W][o] \in Words(venue[o])
    BY <1>8, ReconcileAssumption DEF ShowAccount, ReadFills, ReadBaseline, Recover, IInv, PassTypes
  <2> QED
    BY <1>1, <1>3, <1>8, <2>1, <2>2 DEF LastingAgrees, world
<1> QED
  BY <1>5, <1>6, <1>7, <1>8, WatchedStep DEF Reads

\* The fills that last agree after every step.
LEMMA LastingFillsKept ==
  ASSUME IInv, IInv', LastingAgrees, [Next]_vars, Running(Watched)',
         NEW n \in Nat, n \in lasting'
  PROVE  /\ n \in fills' =>
              /\ pc'[Watched] \in SeenAccount => n \notin extFills'[Watched]
              /\ pc'[Watched] \in {"recover", "write"} => n \in locFills'[Watched]
         /\ n \notin fills' =>
              /\ pc'[Watched] \in SeenAccount => n \in extFills'[Watched]
              /\ pc'[Watched] \in SeenRows => trades'[n] \in locKnown'[Watched]
<1> DEFINE W == Watched
<1>1. n \in Different' /\ (Running(W) => n \in lasting /\ n \in Different)
  BY LastingStep
<1>2. \/ n \in fills' /\ n \notin Recent'
      \/ n \notin fills' /\ n \in Recent' /\ trades'[n] \in known'
  <2> HIDE DEF Recent
  <2>1. n \notin Orders /\ n \notin Keys
    BY ReconcileAssumption
  <2> QED
    BY <1>1, <2>1 DEF Different
<1>3. Running(W) => (n \in fills' <=> n \in fills)
  BY <1>1, FillStaysSo, TradesStay DEF IInv
<1>4. Running(W) => trades'[n] = trades[n]
  <2>1. Running(W) => n \in 1..Len(trades)
    BY <1>1, DifferentFill DEF IInv, TypeOK, Recent
  <2> QED
    BY <2>1, TradesStay
<1>5. CASE Same(W) /\ Running(W)
  BY <1>1, <1>3, <1>4, <1>5 DEF Same, LastingAgrees
<1>6. CASE UNCHANGED <<world, tables>> /\ (ShowOrders(W) \/ ShowAccount(W))
  <2>1. pc'[W] \in {"account", "rows"}
        /\ (pc'[W] = "rows" => extFills'[W] = Recent)
    BY <1>6, ReconcileAssumption DEF ShowOrders, ShowAccount, Goto, IInv, TypeOK, PassTypes
  <2>2. Recent' = Recent
    BY <1>6 DEF Recent, world
  <2> HIDE DEF Recent
  <2> QED
    BY <1>2, <2>1, <2>2 DEF SeenAccount, SeenRows
<1>7. CASE UNCHANGED <<world, tables>> /\ ReadOrders(W)
  <2>1. Running(W) /\ pc[W] = "rows" /\ extFills'[W] = extFills[W] /\ pc'[W] = "fills"
        /\ locKnown'[W] = known'
    BY <1>7, ReconcileAssumption DEF ReadOrders, Running, Goto, IInv, TypeOK, PassTypes, tables
  <2> HIDE DEF Recent
  <2> QED
    BY <1>1, <1>2, <1>3, <2>1 DEF LastingAgrees, SeenAccount
<1>8. CASE /\ UNCHANGED <<world, tables>>
           /\ \/ ReadFills(W) \/ (\E k \in Keys : ReadBaseline(W, k))
              \/ \E o \in Orders : Recover(W, o)
  <2>1. Running(W) /\ pc[W] \in SeenRows /\ UNCHANGED <<extFills, locKnown>>
    BY <1>8 DEF ReadFills, ReadBaseline, Recover, AllAsked, Running, SeenRows
  <2>2. pc[W] \in SeenAccount
    BY <2>1 DEF SeenAccount, SeenRows
  <2>3. locFills'[W] = IF pc[W] = "fills" THEN fills ELSE locFills[W]
    BY <1>8, ReconcileAssumption DEF ReadFills, ReadBaseline, Recover, AllAsked, IInv, PassTypes
  <2>4. pc[W] \in {"fills", "recover", "write"}
    BY <2>1 DEF SeenRows
  <2> QED
    BY <1>1, <1>3, <1>4, <2>1, <2>2, <2>3, <2>4 DEF LastingAgrees
<1> QED
  BY <1>5, <1>6, <1>7, <1>8, WatchedStep DEF Reads

\* A difference that lasts is recorded by the pass, or it is a fill it imports.
LEMMA LastingIsFound ==
  ASSUME IInv, LastingAgrees, Commits(Watched),
         NEW x \in lasting, x \in Different', x \notin Keys
  PROVE  x \in Reported(Watched)
<1> USE DEF IInv
<1> DEFINE W == Watched
<1>1. pc[W] \in {"recover", "write"} /\ Store(W)
  BY DEF Commits, Commit, CommitAccount, AllAsked
<1>2. Running(W) /\ pc[W] \in SeenAccount /\ pc[W] \in SeenRows
  BY <1>1 DEF Running, SeenAccount, SeenRows
<1>3. UNCHANGED <<world, row>> /\ fills' = fills \cup Imported(W)
  BY <1>1 DEF Store
<1>4. x \in Different
  BY <1>2 DEF Noted
<1>5. CASE x \in Orders
  BY <1>2, <1>5 DEF LastingAgrees, OrderDiffs, Reported
<1>6. CASE x \in Nat
  <2>1. CASE x \in fills
    BY <1>1, <1>2, <1>6, <2>1 DEF LastingAgrees, FillDiffs, OwnFills, Reported
  <2>2. CASE x \notin fills
    <3>1. x \in OwnFills(W)
      BY <1>2, <1>6, <2>2 DEF LastingAgrees, OwnFills
    <3>2. x \notin locFills[W]
      BY <2>2, ReconcileAssumption DEF PassTypes
    <3>3. x \in fills'
      BY <1>3, <3>1, <3>2 DEF Imported
    <3>4. x \in Recent
      BY <1>4, <1>6, <2>2, DifferentFill
    <3>5. x \in Recent'
      BY <1>3, <3>4 DEF Recent, world
    <3>6. x \notin Orders
      BY <1>6, ReconcileAssumption
    <3> HIDE DEF Recent
    <3> QED
      BY <3>3, <3>5, <3>6 DEF Different
  <2> QED
    BY <2>1, <2>2
<1>7. x \in Orders \/ x \in Nat
  <2>1. fills \subseteq Nat /\ Recent \subseteq Nat
    BY DEF TypeOK, Recent
  <2> HIDE DEF Recent
  <2> QED
    BY <1>4, <2>1 DEF Different
<1> QED
  BY <1>5, <1>6, <1>7

\* Nothing that lasts is overlooked: a row that stayed as it was and never was
\* what a word of the exchange is taken for is recorded, a missing fill is
\* imported.
THEOREM NothingLastingOverlooked == Spec => LastingDifferencesFound
<1> DEFINE Inv == IInv /\ LastingAgrees
<1>1. Init => Inv
  <2>1. Init => LastingAgrees
    BY DEF Init, LastingAgrees
  <2> QED
    BY <2>1, InitInv
<1>2. Inv /\ [Next]_vars => Inv'
  <2> SUFFICES ASSUME IInv, LastingAgrees, [Next]_vars PROVE LastingAgrees'
    BY StepInv
  <2>1. IInv'
    BY StepInv
  <2>2. \A o \in Orders : Converted(ext[Watched][o])' = Converted(ext'[Watched][o])
    BY DEF Converted
  <2> QED
    BY <2>1, <2>2, LastingOrdersKept, LastingFillsKept DEF LastingAgrees
<1>3. Inv /\ [Next]_vars
      => [Commits(Watched) => (lasting \cap Different') \ Keys \subseteq Reported(Watched)]_vars
  BY LastingIsFound
<1> HIDE DEF Inv
<1> QED
  BY <1>1, <1>2, <1>3, PTL DEF Spec, LastingDifferencesFound

-----------------------------------------------------------------------------
\* What was last said of a key is its last snapshot, but for those stored behind
\* the back of a pass; and what the watched pass was shown of a key that has
\* stood still is its amount.
Told ==
  /\ \A k \in Keys \ overtaken : said[k] = baseline[k]
  /\ pc[Watched] \in SeenAccount => \A k \in still : extAccount[Watched][k] = account[k]

\* After a pass that stores, what was said of its keys is what it stores, but
\* for those stored behind its back.
LEMMA StoreTells ==
  ASSUME IInv, Told, NEW p \in Passes, Store(p)
  PROVE  /\ \A k \in Keys \ overtaken' : said'[k] = baseline'[k]
         /\ \A k \in Shown(p) : baseline'[k] = extAccount[p][k]
<1>1. baseline' = [k \in Keys |-> IF k \in Shown(p) THEN extAccount[p][k] ELSE baseline[k]]
      /\ said' = [k \in Keys |-> IF k \in Announced(p) THEN extAccount[p][k] ELSE said[k]]
      /\ overtaken' = (overtaken \cup Stale(p)) \ Announced(p)
  BY DEF Store
<1>2. Announced(p) \subseteq Shown(p) /\ Shown(p) \subseteq Keys
  BY DEF Announced, AccountDiffs, Shown
<1>3. \A k \in Shown(p) \ (Announced(p) \cup Stale(p)) : extAccount[p][k] = baseline[k]
  BY DEF Announced, AccountDiffs, Stale
<1> HIDE DEF Shown, Announced, Stale
<1> QED
  BY <1>1, <1>2, <1>3 DEF Told

\* What was said stays what was stored.
LEMMA SaidKept ==
  ASSUME IInv, Told, [Next]_vars
  PROVE  \A k \in Keys \ overtaken' : said'[k] = baseline'[k]
<1> USE DEF IInv
<1>1. CASE UNCHANGED <<tables, told>>
  BY <1>1 DEF tables, told, Told
<1>2. CASE Beside
  BY <1>2, BesideStep DEF told, Told
<1>3. CASE \E p \in Passes : Pass(p)
  <2>1. PICK p \in Passes : Pass(p)
    BY <1>3
  <2>2. CASE Store(p)
    BY <2>2, StoreTells
  <2>3. CASE ~Store(p)
    <3>1. Reads(p) \/ Fail(p)
      BY <2>1, <2>3 DEF Pass, Reads, Commit, CommitAccount
    <3> QED
      BY <1>1, <3>1, ReadingStep DEF Fail
  <2> QED
    BY <2>2, <2>3
<1> QED
  BY <1>1, <1>2, <1>3 DEF Next, vars, notes

\* What the watched pass was shown is the account where it stands still.
LEMMA ShownStands ==
  ASSUME IInv, Told, [Next]_vars, pc'[Watched] \in SeenAccount, NEW k \in still'
  PROVE  extAccount'[Watched][k] = account'[k]
<1> USE DEF IInv
<1> DEFINE W == Watched
<1>1. Running(W)'
  BY DEF Running, SeenAccount
<1>2. account'[k] = account[k] /\ (Running(W) => k \in still)
  <2>1. CASE UNCHANGED vars
    BY <2>1 DEF vars, world, notes
  <2>2. CASE Watch
    BY <1>1, <2>2, WatchStep
  <2> QED
    BY <2>1, <2>2 DEF Next
<1>3. CASE Same(W) /\ Running(W)
  BY <1>2, <1>3 DEF Same, Told
<1>4. CASE ShowOrders(W) \/ ShowAccount(W)
  BY <1>2, <1>4, ReconcileAssumption
  DEF ShowOrders, ShowAccount, Goto, SeenAccount, TypeOK, PassTypes
<1>5. CASE \/ ReadOrders(W) \/ ReadFills(W) \/ (\E q \in Keys : ReadBaseline(W, q))
           \/ \E o \in Orders : Recover(W, o)
  <2>1. Running(W) /\ pc[W] \in SeenAccount /\ extAccount' = extAccount
    BY <1>5 DEF ReadOrders, ReadFills, ReadBaseline, Recover, AllAsked, Running, SeenAccount
  <2> QED
    BY <1>2, <2>1 DEF Told
<1> QED
  BY <1>1, <1>3, <1>4, <1>5, WatchedStep DEF Reads

\* No change of a balance or a position that the snapshot shows goes by
\* unreported, also when passes overlap and an older snapshot is stored after a
\* newer one, but for the keys stored between another pass's read and write.
THEOREM ChangesAreReported == Spec => ChangesReported
<1> DEFINE Inv == IInv /\ Told
<1>1. Init => Inv
  <2>1. Init => Told
    BY DEF Init, Told, NoKeys, SeenAccount
  <2> QED
    BY <2>1, InitInv
<1>2. Inv /\ [Next]_vars => Inv'
  <2> SUFFICES ASSUME IInv, Told, [Next]_vars PROVE Told'
    BY StepInv
  <2> QED
    BY SaidKept, ShownStands DEF Told
<1>3. Inv /\ [Next]_vars
      => [Commits(Watched) =>
            \A k \in (still \cap Shown(Watched)) \ overtaken' : said'[k] = account[k]]_vars
  <2> SUFFICES ASSUME IInv, Told, Commits(Watched),
                      NEW k \in (still \cap Shown(Watched)) \ overtaken'
               PROVE  said'[k] = account[k]
    OBVIOUS
  <2>1. Store(Watched) /\ pc[Watched] \in SeenAccount
    BY DEF Commits, Commit, CommitAccount, AllAsked, SeenAccount
  <2>2. k \in Keys
    BY DEF Shown
  <2>3. said'[k] = extAccount[Watched][k]
    BY <2>1, <2>2, StoreTells, ReconcileAssumption
  <2> QED
    BY <2>1, <2>3 DEF Told
<1> HIDE DEF Inv
<1> QED
  BY <1>1, <1>2, <1>3, PTL DEF Spec, ChangesReported
=============================================================================
