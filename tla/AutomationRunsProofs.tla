------------------------- MODULE AutomationRunsProofs -------------------------
(***************************************************************************)
(* The safety of the automation runs, for any jobs, request threads,       *)
(* workers, runs, crashes and store errors: no unfinished run is forgotten *)
(* (IInv), a run has one executor (Exclusive, with Quiet), a run that is   *)
(* over stays over (EveryWrite), retries follow the run they repeat        *)
(* (RetryInv) and one scheduled run of a job is under way (CronInv).       *)
(***************************************************************************)
EXTENDS AutomationRuns, SequenceTheorems, FiniteSetTheorems, TLAPS

\* Every run somebody works on, is about to or has been asked about is in the
\* table.
Refs ==
  /\ \A p \in Processes : \A n \in 1..Len(queue[p]) : queue[p][n] \in Known
  /\ \A p \in Processes, w \in Workers : worker[p][w].stage # "idle" => worker[p][w].run \in Known
  /\ pending \subseteq Known
  /\ marked # 0 => marked \in pending
  /\ api # "recovering" => pending = {}
  /\ \A c \in Callers :
       /\ pc[c] \in {"dispatch", "ack"} => target[c] \in Known
       /\ pc[c] \in {"check", "find", "create", "silence"} => request[c] \in Request
       /\ pc[c] = "silence" => request[c].parent \in Known

\* Where an unfinished run may be.  A worker that has written the end of its
\* run does not count: should the run be unfinished again, somebody else has it.
Somewhere(r) ==
  \/ r \in lost \/ r \in beyond \/ r \in pending
  \/ \E p \in Processes : \E n \in 1..Len(queue[p]) : queue[p][n] = r
  \/ \E c \in Callers : pc[c] = "dispatch" /\ target[c] = r
  \/ \E p \in Processes, w \in Workers :
       worker[p][w].run = r /\ worker[p][w].stage \in {"taken", "running"}

Kept == \A r \in Active : Somewhere(r)

IInv == TypeOK /\ Refs /\ Kept

-----------------------------------------------------------------------------
\* The newer runs are finitely many.
LEMMA NewerCounted ==
  ASSUME NEW r \in Runs
  PROVE  IsFiniteSet(Newer(r)) /\ Cardinality(Newer(r)) \in Nat
<1>1. IsFiniteSet(Runs)
  BY FS_Interval, AutomationAssumption DEF Runs
<1>2. Newer(r) \subseteq Runs
  BY DEF Newer, Known
<1> QED
  BY <1>1, <1>2, FS_Subset, FS_CardinalityType

\* SetStatus changes one status and nothing else.
LEMMA SetStatusStep ==
  ASSUME TypeOK, NEW r \in Known, NEW s \in {"queued", "running", "succeeded", "failed"},
         SetStatus(r, s)
  PROVE  /\ run' \in [Runs -> {None} \cup RunRow]
         /\ Known' = Known
         /\ Active' \subseteq Active \cup {r}
         /\ s \notin {"queued", "running"} => Active' \subseteq Active \ {r}
<1>1. run[r] \in RunRow
  BY DEF TypeOK, Known
<1>2. [job |-> run[r].job, trigger |-> run[r].trigger, attempt |-> run[r].attempt,
       parent |-> run[r].parent, status |-> s, acked |-> run[r].acked] \in RunRow
  BY <1>1 DEF RunRow
<1>3. run' \in [Runs -> {None} \cup RunRow] /\ run'[r].status = s /\ run'[r] \in RunRow
      /\ \A q \in Runs \ {r} : run'[q] = run[q]
  BY <1>2 DEF TypeOK, SetStatus, Known
<1>4. Known' = Known
  BY <1>1, <1>3, AutomationAssumption DEF Known
<1> QED
  BY <1>3, <1>4 DEF Active, Known

\* Acknowledge changes no status.
LEMMA AcknowledgeStep ==
  ASSUME TypeOK, NEW r \in Known, Acknowledge(r)
  PROVE  /\ run' \in [Runs -> {None} \cup RunRow]
         /\ Known' = Known /\ Active' = Active
<1>1. run[r] \in RunRow
  BY DEF TypeOK, Known
<1>2. [job |-> run[r].job, trigger |-> run[r].trigger, attempt |-> run[r].attempt,
       parent |-> run[r].parent, status |-> run[r].status, acked |-> TRUE] \in RunRow
  BY <1>1 DEF RunRow
<1>3. run' \in [Runs -> {None} \cup RunRow] /\ run'[r].status = run[r].status /\ run'[r] \in RunRow
      /\ \A q \in Runs \ {r} : run'[q] = run[q]
  BY <1>2 DEF TypeOK, Acknowledge, Known
<1>4. Known' = Known
  BY <1>1, <1>3, AutomationAssumption DEF Known
<1> QED
  BY <1>3, <1>4 DEF Active, Known

\* The calls that read: they neither write a run nor hold one to hand over.
LEMMA CallsThatRead ==
  ASSUME IInv, NEW c \in Callers,
         \/ \E j \in Jobs, trigger \in Triggers : Submit(c, j, trigger)
         \/ SubmitCheck(c) \/ SubmitFind(c)
         \/ \E r \in Runs : Retry(c, r) \/ AckRead(c, r)
  PROVE  IInv'
<1> USE DEF IInv
<1>1. UNCHANGED <<enabled, run, execs, apis, notes>> /\ Known' = Known /\ Active' = Active
  BY DEF Submit, SubmitCheck, SubmitFind, Retry, AckRead, Known, Active
<1>2. pc[c] # "dispatch"
  BY DEF Submit, SubmitCheck, SubmitFind, Retry, AckRead
<1>3. /\ pc' \in [Callers -> {"idle", "check", "find", "create", "dispatch", "silence", "ack"}]
      /\ pc'[c] # "dispatch"
      /\ \A d \in Callers \ {c} : pc'[d] = pc[d]
  BY DEF TypeOK, Submit, SubmitCheck, SubmitFind, Retry, AckRead, Goto, Return
<1>4. /\ request' \in [Callers -> {None} \cup Request] /\ target' \in [Callers -> 0..MaxRuns]
      /\ \A d \in Callers \ {c} : request'[d] = request[d] /\ target'[d] = target[d]
      /\ pc'[c] = "ack" => target'[c] \in Known
      /\ pc'[c] \in {"check", "find", "create", "silence"} => request'[c] \in Request
      /\ pc'[c] = "silence" => request'[c].parent \in Known
  <2>1. CASE \E j \in Jobs, trigger \in Triggers : Submit(c, j, trigger)
    <3>1. PICK j \in Jobs, trigger \in Triggers : Submit(c, j, trigger)
      BY <2>1
    <3>2. [job |-> j, trigger |-> trigger, attempt |-> 1, parent |-> 0] \in Request
      BY AutomationAssumption DEF Request
    <3> QED
      BY <3>1, <3>2 DEF TypeOK, Submit, Goto
  <2>2. CASE SubmitCheck(c) \/ SubmitFind(c)
    <3>1. pc[c] \in {"check", "find"} /\ request[c] \in Request
      BY <2>2 DEF Refs, SubmitCheck, SubmitFind
    <3>2. CASE Return(c)
      BY <3>2, AutomationAssumption DEF TypeOK, Return, Goto
    <3>3. CASE UNCHANGED <<request, target>> /\ pc'[c] \in {"find", "create"}
      BY <3>1, <3>3 DEF TypeOK
    <3> QED
      BY <2>2, <3>2, <3>3 DEF TypeOK, SubmitCheck, SubmitFind, Goto
  <2>3. CASE \E r \in Runs : Retry(c, r)
    <3>1. PICK r \in Runs : Retry(c, r)
      BY <2>3
    <3>2. run[r] \in RunRow /\ r \in Known
      BY <3>1 DEF Retry, Known, TypeOK
    <3>3. [job |-> run[r].job, trigger |-> "retry", attempt |-> run[r].attempt + 1, parent |-> r]
            \in Request
      BY <3>2, AutomationAssumption DEF Request, RunRow, Triggers, Runs
    <3> QED
      BY <3>1, <3>2, <3>3 DEF TypeOK, Retry, Goto
  <2>4. CASE \E r \in Runs : AckRead(c, r)
    BY <2>4, AutomationAssumption DEF TypeOK, AckRead, Goto, Runs, Known
  <2> QED
    BY <2>1, <2>2, <2>3, <2>4
<1>5. TypeOK'
  BY <1>1, <1>3, <1>4 DEF TypeOK, execs, apis, notes
<1>6. Refs'
  BY <1>1, <1>3, <1>4 DEF Refs, execs, apis
<1>7. Kept'
  BY <1>1, <1>2, <1>3, <1>4 DEF Kept, Somewhere, execs, apis, notes
<1> QED
  BY <1>5, <1>6, <1>7

\* A run is created, in its caller's hands.
LEMMA CreateKeeps ==
  ASSUME IInv, NEW c \in Callers, SubmitCreate(c)
  PROVE  IInv'
<1> USE DEF IInv
<1>1. PICK r \in Runs :
        /\ run[r] = None
        /\ run' = [run EXCEPT ![r] =
             [job |-> request[c].job, trigger |-> request[c].trigger,
              attempt |-> request[c].attempt, parent |-> request[c].parent,
              status |-> "queued", acked |-> FALSE]]
        /\ target' = [target EXCEPT ![c] = r]
  BY DEF SubmitCreate
<1>2. pc[c] = "create" /\ pc' = [pc EXCEPT ![c] = "dispatch"] /\ request[c] \in Request
      /\ UNCHANGED <<enabled, execs, apis, request, notes>>
  BY DEF SubmitCreate, Goto, Refs
<1>3. [job |-> request[c].job, trigger |-> request[c].trigger,
       attempt |-> request[c].attempt, parent |-> request[c].parent,
       status |-> "queued", acked |-> FALSE] \in RunRow
  BY <1>2 DEF Request, RunRow
<1>4. run' \in [Runs -> {None} \cup RunRow] /\ run'[r] \in RunRow
      /\ \A q \in Runs \ {r} : run'[q] = run[q]
  BY <1>1, <1>3 DEF TypeOK
<1>5. Known' = Known \cup {r} /\ Active' \subseteq Active \cup {r}
  BY <1>4, AutomationAssumption DEF Known, Active
<1>6. r \in 0..MaxRuns
  BY AutomationAssumption DEF Runs
<1>7. TypeOK'
  BY <1>1, <1>2, <1>4, <1>6 DEF TypeOK, execs, apis, notes
<1>8. Refs'
  BY <1>1, <1>2, <1>5 DEF TypeOK, Refs, execs, apis
<1>9. Kept'
  <2> SUFFICES ASSUME NEW q \in Active' PROVE Somewhere(q)'
    BY DEF Kept
  <2>1. CASE q = r
    BY <1>1, <1>2, <2>1 DEF TypeOK, Somewhere
  <2>2. CASE q \in Active
    <3>1. \A d \in Callers : pc[d] = "dispatch" => pc'[d] = "dispatch" /\ target'[d] = target[d]
      BY <1>1, <1>2 DEF TypeOK
    <3>2. UNCHANGED <<queue, worker, pending, lost, beyond>>
      BY <1>2 DEF execs, apis, notes
    <3>3. Somewhere(q)
      BY <2>2 DEF Kept
    <3> QED
      BY <3>1, <3>2, <3>3 DEF Somewhere
  <2> QED
    BY <1>5, <2>1, <2>2
<1> QED
  BY <1>7, <1>8, <1>9

\* What Return leaves of a call.
LEMMA ReturnStep ==
  ASSUME TypeOK, NEW c \in Callers, Return(c)
  PROVE  /\ pc' \in [Callers -> {"idle", "check", "find", "create", "dispatch", "silence", "ack"}]
         /\ request' \in [Callers -> {None} \cup Request]
         /\ target' \in [Callers -> 0..MaxRuns]
         /\ pc'[c] = "idle"
         /\ \A d \in Callers \ {c} : pc'[d] = pc[d] /\ request'[d] = request[d] /\ target'[d] = target[d]
  BY AutomationAssumption DEF TypeOK, Return, Goto

\* A run is put at the end of a queue, which loses none.
LEMMA Enqueued ==
  ASSUME TypeOK, NEW p \in Processes, NEW r \in Runs, queue' = [queue EXCEPT ![p] = Append(@, r)]
  PROVE  /\ queue' \in [Processes -> Seq(Runs)]
         /\ \A q \in Processes : \A n \in 1..Len(queue'[q]) :
              queue'[q][n] = r \/ \E m \in 1..Len(queue[q]) : queue'[q][n] = queue[q][m]
         /\ \A q \in Processes : \A m \in 1..Len(queue[q]) :
              \E n \in 1..Len(queue'[q]) : queue'[q][n] = queue[q][m]
         /\ \E n \in 1..Len(queue'[p]) : queue'[p][n] = r
<1>1. queue[p] \in Seq(Runs)
  BY DEF TypeOK
<1>2. queue'[p] = Append(queue[p], r) /\ \A q \in Processes \ {p} : queue'[q] = queue[q]
  BY DEF TypeOK
<1>3. /\ Append(queue[p], r) \in Seq(Runs) /\ Len(Append(queue[p], r)) = Len(queue[p]) + 1
      /\ \A i \in 1..Len(queue[p]) : Append(queue[p], r)[i] = queue[p][i]
      /\ Append(queue[p], r)[Len(queue[p]) + 1] = r
      /\ Len(queue[p]) \in Nat
  BY <1>1, AppendProperties
<1>4. queue' \in [Processes -> Seq(Runs)]
  BY <1>3 DEF TypeOK
<1>5. \A n \in 1..Len(queue'[p]) : queue'[p][n] = r \/ \E m \in 1..Len(queue[p]) : queue'[p][n] = queue[p][m]
  <2> SUFFICES ASSUME NEW n \in 1..Len(queue'[p])
               PROVE  queue'[p][n] = r \/ \E m \in 1..Len(queue[p]) : queue'[p][n] = queue[p][m]
    OBVIOUS
  <2>1. n \in 1..Len(queue[p]) \/ n = Len(queue[p]) + 1
    BY <1>2, <1>3
  <2> QED
    BY <1>2, <1>3, <2>1
<1>6. /\ \A m \in 1..Len(queue[p]) : \E n \in 1..Len(queue'[p]) : queue'[p][n] = queue[p][m]
      /\ \E n \in 1..Len(queue'[p]) : queue'[p][n] = r
  <2>1. Len(queue[p]) + 1 \in 1..Len(queue'[p]) /\ \A m \in 1..Len(queue[p]) : m \in 1..Len(queue'[p])
    BY <1>2, <1>3
  <2> QED
    BY <1>2, <1>3, <2>1
<1>7. ASSUME NEW q \in Processes, NEW n \in 1..Len(queue'[q])
      PROVE  queue'[q][n] = r \/ \E m \in 1..Len(queue[q]) : queue'[q][n] = queue[q][m]
  <2>1. CASE q = p
    BY <1>5, <1>7, <2>1
  <2>2. CASE q # p
    BY <1>2, <1>7, <2>2
  <2> QED
    BY <2>1, <2>2
<1>8. ASSUME NEW q \in Processes, NEW m \in 1..Len(queue[q])
      PROVE  \E n \in 1..Len(queue'[q]) : queue'[q][n] = queue[q][m]
  <2>1. CASE q = p
    BY <1>6, <1>8, <2>1
  <2>2. CASE q # p
    BY <1>2, <1>8, <2>2
  <2> QED
    BY <2>1, <2>2
<1> QED
  BY <1>4, <1>6, <1>7, <1>8

\* The created run is handed over.
LEMMA DispatchKeeps ==
  ASSUME IInv, NEW c \in Callers, SubmitDispatch(c)
  PROVE  IInv'
<1> USE DEF IInv
<1> DEFINE p == ProcessOf(c)
<1>1. pc[c] = "dispatch" /\ queue' = [queue EXCEPT ![p] = Append(@, target[c])] /\ Return(c)
      /\ UNCHANGED <<enabled, run, worker, apis, notes>>
  BY DEF SubmitDispatch
<1>2. target[c] \in Known /\ target[c] \in Runs /\ p \in Processes
  BY <1>1 DEF Refs, Known, ProcessOf, Processes
<1> HIDE DEF p
<1>3. /\ queue' \in [Processes -> Seq(Runs)]
      /\ \A q \in Processes : \A n \in 1..Len(queue'[q]) :
           queue'[q][n] = target[c] \/ \E m \in 1..Len(queue[q]) : queue'[q][n] = queue[q][m]
      /\ \A q \in Processes : \A m \in 1..Len(queue[q]) :
           \E n \in 1..Len(queue'[q]) : queue'[q][n] = queue[q][m]
      /\ \E n \in 1..Len(queue'[p]) : queue'[p][n] = target[c]
  BY <1>1, <1>2, Enqueued
<1>4. Known' = Known /\ Active' = Active
  BY <1>1 DEF Known, Active
<1>5. TypeOK'
  BY <1>1, <1>3, ReturnStep DEF TypeOK, apis, notes
<1>6. Refs'
  <2>1. ASSUME NEW q \in Processes, NEW n \in 1..Len(queue'[q]) PROVE queue'[q][n] \in Known'
    <3>1. queue'[q][n] = target[c] \/ \E m \in 1..Len(queue[q]) : queue'[q][n] = queue[q][m]
      BY <1>3
    <3>2. \A m \in 1..Len(queue[q]) : queue[q][m] \in Known
      BY DEF Refs
    <3> QED
      BY <1>2, <1>4, <3>1, <3>2
  <2>2. UNCHANGED <<worker, pending, marked, api>>
    BY <1>1 DEF apis
  <2> QED
    BY <1>1, <1>4, <2>1, <2>2, ReturnStep DEF Refs
<1>7. Kept'
  <2> SUFFICES ASSUME NEW r \in Active PROVE Somewhere(r)'
    BY <1>4 DEF Kept
  <2>1. CASE r = target[c]
    BY <1>2, <1>3, <2>1 DEF Somewhere
  <2>2. CASE r # target[c]
    <3>1. UNCHANGED <<worker, pending, lost, beyond>>
      BY <1>1 DEF apis, notes
    <3>2. \A d \in Callers : pc[d] = "dispatch" /\ target[d] = r
                           => pc'[d] = "dispatch" /\ target'[d] = r
      BY <1>1, <2>2, ReturnStep
    <3>3. \A q \in Processes : (\E m \in 1..Len(queue[q]) : queue[q][m] = r)
                             => \E n \in 1..Len(queue'[q]) : queue'[q][n] = r
      BY <1>3
    <3>4. Somewhere(r)
      BY DEF Kept
    <3> QED
      BY <3>1, <3>2, <3>3, <3>4 DEF Somewhere
  <2> QED
    BY <2>1, <2>2
<1> QED
  BY <1>5, <1>6, <1>7

\* The created run fails, or is lost with its call.
LEMMA DispatchFailsKeeps ==
  ASSUME IInv, NEW c \in Callers, SubmitRaise(c) \/ SubmitLoses(c)
  PROVE  IInv'
<1> USE DEF IInv
<1>1. pc[c] = "dispatch" /\ Return(c) /\ UNCHANGED <<enabled, execs, apis, beyond, taken, switches>>
  BY DEF SubmitRaise, SubmitLoses, notes
<1>2. target[c] \in Known /\ target[c] \in Runs
  BY <1>1 DEF Refs, Known
<1>3. CASE SubmitRaise(c)
  <2>1. /\ run' \in [Runs -> {None} \cup RunRow] /\ Known' = Known
        /\ Active' \subseteq Active \ {target[c]} /\ UNCHANGED notes
    BY <1>2, <1>3, SetStatusStep DEF SubmitRaise
  <2>2. TypeOK' /\ Refs'
    BY <1>1, <2>1, ReturnStep DEF TypeOK, Refs, execs, apis, notes
  <2>3. Kept'
    BY <1>1, <2>1, ReturnStep DEF Kept, Somewhere, execs, apis, notes
  <2> QED
    BY <2>2, <2>3
<1>4. CASE SubmitLoses(c)
  <2>1. UNCHANGED run /\ lost' = lost \cup {target[c]} /\ faults' = faults + 1
        /\ Known' = Known /\ Active' = Active
    BY <1>4 DEF SubmitLoses, Known, Active
  <2>2. TypeOK' /\ Refs'
    <3>1. lost' \subseteq Runs /\ faults' \in Nat
      BY <1>2, <2>1 DEF TypeOK
    <3>2. TypeOK'
      BY <1>1, <2>1, <3>1, ReturnStep DEF TypeOK, execs, apis
    <3>3. Refs'
      BY <1>1, <2>1, ReturnStep DEF Refs, execs, apis
    <3> QED
      BY <3>2, <3>3
  <2>3. Kept'
    BY <1>1, <2>1, ReturnStep DEF Kept, Somewhere, execs, apis
  <2> QED
    BY <2>2, <2>3
<1> QED
  BY <1>3, <1>4

\* Alerts are acknowledged.
LEMMA AcksKeep ==
  ASSUME IInv, NEW c \in Callers, RetrySilence(c) \/ AckWrite(c)
  PROVE  IInv'
<1> USE DEF IInv
<1>1. CASE RetrySilence(c)
  <2>1. pc[c] = "silence" /\ request[c].parent \in Known /\ request[c] \in Request
        /\ Acknowledge(request[c].parent) /\ pc' = [pc EXCEPT ![c] = "check"]
        /\ UNCHANGED <<enabled, execs, apis, request, target, notes>>
    BY <1>1 DEF RetrySilence, Goto, Refs
  <2>2. run' \in [Runs -> {None} \cup RunRow] /\ Known' = Known /\ Active' = Active
    BY <2>1, AcknowledgeStep
  <2>3. TypeOK' /\ Refs'
    BY <2>1, <2>2 DEF TypeOK, Refs, execs, apis, notes
  <2>4. Kept'
    BY <2>1, <2>2 DEF TypeOK, Kept, Somewhere, execs, apis, notes
  <2> QED
    BY <2>3, <2>4
<1>2. CASE AckWrite(c)
  <2>1. pc[c] = "ack" /\ target[c] \in Known /\ Acknowledge(target[c]) /\ Return(c)
        /\ UNCHANGED <<enabled, execs, apis, notes>>
    BY <1>2 DEF AckWrite, Refs
  <2>2. run' \in [Runs -> {None} \cup RunRow] /\ Known' = Known /\ Active' = Active
    BY <2>1, AcknowledgeStep
  <2>3. TypeOK' /\ Refs'
    BY <2>1, <2>2, ReturnStep DEF TypeOK, Refs, execs, apis, notes
  <2>4. Kept'
    BY <2>1, <2>2, ReturnStep DEF Kept, Somewhere, execs, apis, notes
  <2> QED
    BY <2>3, <2>4
<1> QED
  BY <1>1, <1>2

\* The first of a queue is taken out, and no other.
LEMMA Dequeued ==
  ASSUME TypeOK, NEW p \in Processes, queue[p] # <<>>, queue' = [queue EXCEPT ![p] = Tail(@)]
  PROVE  /\ queue' \in [Processes -> Seq(Runs)]
         /\ Head(queue[p]) \in Runs /\ \E n \in 1..Len(queue[p]) : Head(queue[p]) = queue[p][n]
         /\ \A q \in Processes : \A n \in 1..Len(queue'[q]) :
              \E m \in 1..Len(queue[q]) : queue'[q][n] = queue[q][m]
         /\ \A q \in Processes : \A m \in 1..Len(queue[q]) :
              \/ q = p /\ queue[q][m] = Head(queue[p])
              \/ \E n \in 1..Len(queue'[q]) : queue'[q][n] = queue[q][m]
<1>1. queue[p] \in Seq(Runs)
  BY DEF TypeOK
<1>2. queue'[p] = Tail(queue[p]) /\ \A q \in Processes \ {p} : queue'[q] = queue[q]
  BY DEF TypeOK
<1>3. /\ Tail(queue[p]) \in Seq(Runs) /\ Len(Tail(queue[p])) = Len(queue[p]) - 1
      /\ \A i \in 1..Len(Tail(queue[p])) : Tail(queue[p])[i] = queue[p][i + 1]
      /\ Head(queue[p]) = queue[p][1] /\ Head(queue[p]) \in Runs
      /\ Len(queue[p]) \in Nat /\ Len(queue[p]) >= 1
  <2>1. Len(queue[p]) \in Nat /\ Len(queue[p]) # 0
    BY <1>1, EmptySeq
  <2> QED
    BY <1>1, <2>1, HeadTailProperties
<1>4. queue' \in [Processes -> Seq(Runs)]
  BY <1>3 DEF TypeOK
<1>5. \A n \in 1..Len(queue'[p]) : \E m \in 1..Len(queue[p]) : queue'[p][n] = queue[p][m]
  <2> SUFFICES ASSUME NEW n \in 1..Len(queue'[p]) PROVE \E m \in 1..Len(queue[p]) : queue'[p][n] = queue[p][m]
    OBVIOUS
  <2>1. n \in 1..Len(Tail(queue[p])) /\ n + 1 \in 1..Len(queue[p])
    <3>1. n \in 1..Len(Tail(queue[p]))
      BY <1>2
    <3> QED
      BY <1>3, <3>1
  <2>2. queue'[p][n] = queue[p][n + 1]
    BY <1>2, <1>3, <2>1
  <2> QED
    BY <2>1, <2>2
<1>6. \A m \in 1..Len(queue[p]) : queue[p][m] = Head(queue[p])
                                  \/ \E n \in 1..Len(queue'[p]) : queue'[p][n] = queue[p][m]
  <2> SUFFICES ASSUME NEW m \in 1..Len(queue[p]), m # 1
               PROVE  \E n \in 1..Len(queue'[p]) : queue'[p][n] = queue[p][m]
    BY <1>3
  <2>1. m - 1 \in 1..Len(Tail(queue[p])) /\ (m - 1) + 1 = m
    BY <1>3
  <2>2. Tail(queue[p])[m - 1] = queue[p][(m - 1) + 1]
    BY <1>3, <2>1
  <2> QED
    BY <1>2, <2>1, <2>2
<1>7. \E n \in 1..Len(queue[p]) : Head(queue[p]) = queue[p][n]
  <2>1. 1 \in 1..Len(queue[p])
    BY <1>3
  <2> QED
    BY <1>3, <2>1
<1>8. \A q \in Processes \ {p} : \A n \in 1..Len(queue[q]) :
        /\ \E m \in 1..Len(queue[q]) : queue'[q][n] = queue[q][m]
        /\ \E m \in 1..Len(queue'[q]) : queue'[q][m] = queue[q][n]
  BY <1>2
<1>9. \A q \in Processes : \A n \in 1..Len(queue'[q]) : \E m \in 1..Len(queue[q]) : queue'[q][n] = queue[q][m]
  BY <1>2, <1>5, <1>8
<1>10. \A q \in Processes : \A m \in 1..Len(queue[q]) :
         \/ q = p /\ queue[q][m] = Head(queue[p])
         \/ \E n \in 1..Len(queue'[q]) : queue'[q][n] = queue[q][m]
  <2> SUFFICES ASSUME NEW q \in Processes, NEW m \in 1..Len(queue[q])
               PROVE  \/ q = p /\ queue[q][m] = Head(queue[p])
                      \/ \E n \in 1..Len(queue'[q]) : queue'[q][n] = queue[q][m]
    OBVIOUS
  <2>1. CASE q = p
    BY <1>6, <2>1
  <2>2. CASE q # p
    BY <1>8, <2>2
  <2> QED
    BY <2>1, <2>2
<1> QED
  BY <1>3, <1>4, <1>7, <1>9, <1>10

\* What SetWorker does.
LEMMA SetWorkerStep ==
  ASSUME TypeOK, NEW p \in Processes, NEW w \in Workers, NEW r \in 0..MaxRuns,
         NEW stage \in {"idle", "taken", "running", "audit"}, SetWorker(p, w, r, stage)
  PROVE  /\ worker' \in [Processes -> [Workers ->
              [run : 0..MaxRuns, stage : {"idle", "taken", "running", "audit"}]]]
         /\ worker'[p][w].run = r /\ worker'[p][w].stage = stage
         /\ \A q \in Processes, v \in Workers : <<q, v>> # <<p, w>> => worker'[q][v] = worker[q][v]
  BY DEF TypeOK, SetWorker

\* A worker takes a run from its queue.
LEMMA TakeKeeps ==
  ASSUME IInv, NEW p \in Processes, NEW w \in Workers, WorkerTake(p, w)
  PROVE  IInv'
<1> USE DEF IInv
<1> DEFINE t == Head(queue[p])
<1>1. /\ worker[p][w].stage = "idle" /\ queue[p] # <<>> /\ SetWorker(p, w, t, "taken")
      /\ queue' = [queue EXCEPT ![p] = Tail(@)]
      /\ UNCHANGED <<enabled, run, apis, callers, notes>>
  BY DEF WorkerTake
<1>2. /\ queue' \in [Processes -> Seq(Runs)]
      /\ t \in Runs /\ \E n \in 1..Len(queue[p]) : t = queue[p][n]
      /\ \A q \in Processes : \A n \in 1..Len(queue'[q]) :
           \E m \in 1..Len(queue[q]) : queue'[q][n] = queue[q][m]
      /\ \A q \in Processes : \A m \in 1..Len(queue[q]) :
           \/ q = p /\ queue[q][m] = t
           \/ \E n \in 1..Len(queue'[q]) : queue'[q][n] = queue[q][m]
  BY <1>1, Dequeued
<1>3. t \in Known /\ t \in 0..MaxRuns
  BY <1>2, AutomationAssumption DEF Refs, Runs
<1> HIDE DEF t
<1>4. /\ worker' \in [Processes -> [Workers ->
           [run : 0..MaxRuns, stage : {"idle", "taken", "running", "audit"}]]]
      /\ worker'[p][w].run = t /\ worker'[p][w].stage = "taken"
      /\ \A q \in Processes, v \in Workers : <<q, v>> # <<p, w>> => worker'[q][v] = worker[q][v]
  BY <1>1, <1>3, SetWorkerStep
<1>5. Known' = Known /\ Active' = Active
  BY <1>1 DEF Known, Active
<1>6. TypeOK'
  BY <1>1, <1>2, <1>4 DEF TypeOK, apis, callers, notes
<1>7. Refs'
  <2>1. ASSUME NEW q \in Processes, NEW n \in 1..Len(queue'[q]) PROVE queue'[q][n] \in Known
    <3>1. \E m \in 1..Len(queue[q]) : queue'[q][n] = queue[q][m]
      BY <1>2
    <3>2. \A m \in 1..Len(queue[q]) : queue[q][m] \in Known
      BY DEF Refs
    <3> QED
      BY <3>1, <3>2
  <2>2. \A q \in Processes, v \in Workers : worker'[q][v].stage # "idle" => worker'[q][v].run \in Known
    BY <1>3, <1>4 DEF Refs
  <2> QED
    BY <1>1, <1>5, <2>1, <2>2 DEF Refs, apis, callers
<1>8. Kept'
  <2> SUFFICES ASSUME NEW r \in Active PROVE Somewhere(r)'
    BY <1>5 DEF Kept
  <2>1. CASE r = t
    BY <1>4, <2>1 DEF Somewhere
  <2>2. CASE r # t
    <3>1. UNCHANGED <<pending, lost, beyond, pc, target>>
      BY <1>1 DEF apis, callers, notes
    <3>2. \A q \in Processes, v \in Workers :
            worker[q][v].run = r /\ worker[q][v].stage \in {"taken", "running"}
              => worker'[q][v] = worker[q][v]
      BY <1>1, <1>4
    <3>3. ASSUME NEW q \in Processes, NEW m \in 1..Len(queue[q]), queue[q][m] = r
          PROVE  \E n \in 1..Len(queue'[q]) : queue'[q][n] = r
      <4>1. queue[q][m] # t
        BY <2>2, <3>3
      <4> QED
        BY <1>2, <3>3, <4>1
    <3>4. Somewhere(r)
      BY DEF Kept
    <3> QED
      BY <3>1, <3>2, <3>3, <3>4 DEF Somewhere
  <2> QED
    BY <2>1, <2>2
<1> QED
  BY <1>6, <1>7, <1>8

\* A worker starts its run, ends it or loses it.
LEMMA WorkKeeps ==
  ASSUME IInv, NEW p \in Processes, NEW w \in Workers,
         \/ WorkerStart(p, w) \/ WorkerSucceed(p, w) \/ WorkerAudit(p, w)
         \/ WorkerFail(p, w) \/ WorkerLoses(p, w)
  PROVE  IInv'
<1> USE DEF IInv
<1> DEFINE t == worker[p][w].run
<1>1. worker[p][w].stage # "idle" /\ UNCHANGED <<enabled, queue, apis, callers, beyond, taken, switches>>
  BY DEF WorkerStart, WorkerSucceed, WorkerAudit, WorkerFail, WorkerLoses, notes
<1>2. t \in Known /\ t \in 0..MaxRuns /\ t \in Runs
  BY <1>1 DEF Refs, TypeOK, Known
<1> HIDE DEF t
<1>3. 0 \in 0..MaxRuns
  BY AutomationAssumption
<1>4. \E r \in {0, t}, stage \in {"idle", "running", "audit"} :
        /\ SetWorker(p, w, r, stage)
        /\ stage # "idle" => r = t
        /\ stage # "running" => t \notin Active' \/ t \in lost' \/ worker[p][w].stage = "audit"
  <2>1. CASE WorkerStart(p, w)
    BY <2>1 DEF WorkerStart, t
  <2>2. CASE WorkerSucceed(p, w)
    BY <1>2, <2>2, SetStatusStep DEF WorkerSucceed, t
  <2>3. CASE WorkerAudit(p, w)
    BY <2>3 DEF WorkerAudit
  <2>4. CASE WorkerFail(p, w)
    BY <1>2, <2>4, SetStatusStep DEF WorkerFail, t
  <2>5. CASE WorkerLoses(p, w)
    BY <2>5 DEF WorkerLoses, t
  <2> QED
    BY <2>1, <2>2, <2>3, <2>4, <2>5
<1>5. /\ run' \in [Runs -> {None} \cup RunRow] /\ Known' = Known
      /\ Active' \subseteq Active \cup {t}
      /\ t \notin Active => t \notin Active' \/ WorkerStart(p, w)
  <2>1. CASE WorkerStart(p, w) \/ WorkerSucceed(p, w) \/ WorkerFail(p, w)
    BY <1>2, <2>1, SetStatusStep DEF WorkerStart, WorkerSucceed, WorkerFail, t
  <2>2. CASE WorkerAudit(p, w) \/ WorkerLoses(p, w)
    BY <2>2 DEF WorkerAudit, WorkerLoses, TypeOK, Known, Active
  <2> QED
    BY <2>1, <2>2
<1>6. lost \subseteq lost' /\ lost' \subseteq lost \cup {t} /\ faults' \in Nat
  BY DEF WorkerStart, WorkerSucceed, WorkerAudit, WorkerFail, WorkerLoses, notes, TypeOK, t
<1>7. PICK r \in {0, t}, stage \in {"idle", "running", "audit"} :
        /\ SetWorker(p, w, r, stage)
        /\ stage # "idle" => r = t
        /\ stage # "running" => t \notin Active' \/ t \in lost' \/ worker[p][w].stage = "audit"
  BY <1>4
<1>8. /\ worker' \in [Processes -> [Workers ->
           [run : 0..MaxRuns, stage : {"idle", "taken", "running", "audit"}]]]
      /\ worker'[p][w].run = r /\ worker'[p][w].stage = stage
      /\ \A q \in Processes, v \in Workers : <<q, v>> # <<p, w>> => worker'[q][v] = worker[q][v]
  BY <1>2, <1>3, <1>7, SetWorkerStep
<1>9. TypeOK'
  BY <1>1, <1>2, <1>5, <1>6, <1>8 DEF TypeOK, apis, callers
<1>10. Refs'
  <2>1. \A q \in Processes, v \in Workers : worker'[q][v].stage # "idle" => worker'[q][v].run \in Known
    BY <1>2, <1>7, <1>8 DEF Refs
  <2> QED
    BY <1>1, <1>5, <2>1 DEF Refs, apis, callers
<1>11. Kept'
  <2> SUFFICES ASSUME NEW x \in Active' PROVE Somewhere(x)'
    BY DEF Kept
  <2>1. CASE stage = "running" /\ x = t
    BY <1>7, <1>8, <2>1 DEF Somewhere
  <2>2. CASE x = t /\ x \in lost'
    BY <2>2 DEF Somewhere
  <2>3. CASE x # t \/ worker[p][w].stage = "audit"
    <3>1. x \in Active \/ (stage = "running" /\ x = t)
      <4>1. WorkerStart(p, w) => worker[p][w].stage # "audit"
        BY DEF WorkerStart
      <4>2. x \in Active \/ x = t
        BY <1>5
      <4>3. CASE x = t /\ x \notin Active
        BY <1>5, <2>3, <4>1, <4>3, Zenon
      <4> QED
        BY <4>2, <4>3
    <3>2. UNCHANGED <<pending, pc, target, queue, beyond>>
      BY <1>1 DEF apis, callers
    <3>3. \A q \in Processes, v \in Workers :
            worker[q][v].run = x /\ worker[q][v].stage \in {"taken", "running"}
              => worker'[q][v] = worker[q][v]
      BY <1>8, <2>3 DEF t
    <3>4. CASE x \in Active
      <4>1. Somewhere(x)
        BY <3>4 DEF Kept
      <4> QED
        BY <1>6, <3>2, <3>3, <4>1 DEF Somewhere
    <3> QED
      BY <2>1, <3>1, <3>4
  <2> QED
    BY <1>7, <2>1, <2>2, <2>3
<1> QED
  BY <1>9, <1>10, <1>11

\* The API starts and takes up what it finds.
LEMMA RecoverKeeps ==
  ASSUME IInv, Recover
  PROVE  IInv'
<1> USE DEF IInv
<1>1. CASE ApiStart
  <2>1. pending' = Unfinished /\ api' = "recovering" /\ lost' = {}
        /\ beyond' = beyond \cup {r \in lost : Cardinality(Newer(r)) >= Window}
        /\ taken' \subseteq taken \cup Active
        /\ UNCHANGED <<enabled, run, execs, marked, callers, faults, switches>>
    BY <1>1 DEF ApiStart, Unfinished
  <2>2. Known' = Known /\ Active' = Active /\ Active \subseteq Known /\ Active \subseteq Runs
    BY <2>1 DEF Known, Active
  <2>3. marked = 0 /\ pending = {} /\ Unfinished \subseteq Known /\ Unfinished \subseteq Runs
    BY <1>1, <2>2 DEF ApiStart, Refs, Unfinished
  <2>4. TypeOK'
    BY <2>1, <2>2, <2>3 DEF TypeOK, execs, callers
  <2>5. Refs'
    BY <2>1, <2>2, <2>3 DEF Refs, execs, callers
  <2>6. Kept'
    <3> SUFFICES ASSUME NEW r \in Active PROVE Somewhere(r)'
      BY <2>2 DEF Kept
    <3>1. Somewhere(r)
      BY DEF Kept
    <3>2. CASE r \in lost
      <4>1. Cardinality(Newer(r)) >= Window \/ Cardinality(Newer(r)) < Window
        BY NewerCounted, AutomationAssumption DEF Active, Known
      <4>2. r \in beyond' \/ r \in pending'
        BY <2>1, <2>2, <3>2, <4>1 DEF Unfinished, Listed
      <4> QED
        BY <4>2 DEF Somewhere
    <3>3. CASE r \notin lost
      BY <2>1, <2>3, <3>1, <3>3 DEF Somewhere, execs, callers
    <3> QED
      BY <3>2, <3>3
  <2> QED
    BY <2>4, <2>5, <2>6
<1>2. CASE \E r \in Runs : RecoverMark(r)
  <2>1. PICK r \in Runs : RecoverMark(r)
    BY <1>2
  <2>2. r \in pending /\ r \in Known /\ SetStatus(r, "queued") /\ marked' = r /\ api = "recovering"
        /\ UNCHANGED <<enabled, execs, api, pending, callers, notes>>
    BY <2>1 DEF RecoverMark, Refs
  <2>3. run' \in [Runs -> {None} \cup RunRow] /\ Known' = Known /\ Active' \subseteq Active \cup {r}
    BY <2>2, SetStatusStep
  <2>4. r \in 0..MaxRuns
    BY AutomationAssumption DEF Runs
  <2>5. TypeOK'
    BY <2>2, <2>3, <2>4 DEF TypeOK, execs, callers, notes
  <2>6. Refs'
    BY <2>2, <2>3 DEF Refs, execs, callers
  <2>7. Kept'
    BY <2>2, <2>3 DEF Kept, Somewhere, execs, callers, notes
  <2> QED
    BY <2>5, <2>6, <2>7
<1>3. CASE RecoverSubmit
  <2>1. marked # 0 /\ queue' = [queue EXCEPT !["api"] = Append(@, marked)]
        /\ pending' = pending \ {marked} /\ marked' = 0
        /\ UNCHANGED <<enabled, run, worker, api, callers, notes>>
    BY <1>3 DEF RecoverSubmit
  <2>2. marked \in Known /\ marked \in Runs /\ "api" \in Processes /\ 0 \in 0..MaxRuns
    BY <2>1, AutomationAssumption DEF Refs, Known, Processes
  <2>3. /\ queue' \in [Processes -> Seq(Runs)]
        /\ \A q \in Processes : \A n \in 1..Len(queue'[q]) :
             queue'[q][n] = marked \/ \E m \in 1..Len(queue[q]) : queue'[q][n] = queue[q][m]
        /\ \A q \in Processes : \A m \in 1..Len(queue[q]) :
             \E n \in 1..Len(queue'[q]) : queue'[q][n] = queue[q][m]
        /\ \E n \in 1..Len(queue'["api"]) : queue'["api"][n] = marked
    BY <2>1, <2>2, Enqueued
  <2>4. Known' = Known /\ Active' = Active
    BY <2>1 DEF Known, Active
  <2>5. TypeOK'
    BY <2>1, <2>2, <2>3 DEF TypeOK, callers, notes
  <2>6. Refs'
    <3>1. ASSUME NEW q \in Processes, NEW n \in 1..Len(queue'[q]) PROVE queue'[q][n] \in Known'
      <4>1. queue'[q][n] = marked \/ \E m \in 1..Len(queue[q]) : queue'[q][n] = queue[q][m]
        BY <2>3
      <4>2. \A m \in 1..Len(queue[q]) : queue[q][m] \in Known
        BY DEF Refs
      <4> QED
        BY <2>2, <2>4, <4>1, <4>2
    <3> QED
      BY <2>1, <2>4, <3>1 DEF Refs, callers
  <2>7. Kept'
    <3> SUFFICES ASSUME NEW r \in Active PROVE Somewhere(r)'
      BY <2>4 DEF Kept
    <3>1. CASE r = marked
      BY <2>2, <2>3, <3>1 DEF Somewhere
    <3>2. CASE r # marked
      <4>1. UNCHANGED <<worker, pc, target, lost, beyond>> /\ (r \in pending => r \in pending')
        BY <2>1, <3>2 DEF callers, notes
      <4>2. \A q \in Processes : (\E m \in 1..Len(queue[q]) : queue[q][m] = r)
                               => \E n \in 1..Len(queue'[q]) : queue'[q][n] = r
        BY <2>3
      <4>3. Somewhere(r)
        BY DEF Kept
      <4> QED
        BY <4>1, <4>2, <4>3 DEF Somewhere
    <3> QED
      BY <3>1, <3>2
  <2> QED
    BY <2>5, <2>6, <2>7
<1>4. CASE ApiUp
  <2>1. pending = {} /\ api' = "up" /\ UNCHANGED <<enabled, run, execs, pending, marked, callers, notes>>
    BY <1>4 DEF ApiUp
  <2>2. Known' = Known /\ Active' = Active
    BY <2>1 DEF Known, Active
  <2> QED
    BY <2>1, <2>2 DEF TypeOK, Refs, Kept, Somewhere, execs, callers, notes
<1> QED
  BY <1>1, <1>2, <1>3, <1>4 DEF Recover

\* What a process holds is lost with it.
LEMMA CrashKeeps ==
  ASSUME IInv, NEW p \in Processes, Crash(p)
  PROVE  IInv'
<1> USE DEF IInv
<1>1. /\ lost' = lost \cup Held(p) \cup (IF p = "api" THEN pending ELSE {})
      /\ queue' = [queue EXCEPT ![p] = <<>>]
      /\ worker' = [worker EXCEPT ![p] = [w \in Workers |-> Idle]]
      /\ api' = IF p = "api" THEN "down" ELSE api
      /\ pending' = IF p = "api" THEN {} ELSE pending
      /\ marked' = IF p = "api" THEN 0 ELSE marked
      /\ faults' = faults + 1
      /\ UNCHANGED <<enabled, run, beyond, taken, switches>>
  BY DEF Crash
<1>2. \A c \in Callers : IF ProcessOf(c) = p THEN pc'[c] = "idle" /\ request'[c] = None /\ target'[c] = 0
                         ELSE pc'[c] = pc[c] /\ request'[c] = request[c] /\ target'[c] = target[c]
  BY DEF Crash
<1>3. Known' = Known /\ Active' = Active
  BY <1>1 DEF Known, Active
<1>4. 0 \in 0..MaxRuns /\ <<>> \in Seq(Runs)
  BY AutomationAssumption
<1>5. Held(p) \subseteq Runs
  <2>1. Queued(p) \subseteq Runs
    BY DEF Queued, TypeOK
  <2>2. Working(p) \subseteq Runs
    BY DEF Working, TypeOK, Runs
  <2>3. Handing(p) \subseteq Runs
    BY DEF Handing, Refs, Known
  <2> QED
    BY <2>1, <2>2, <2>3 DEF Held
<1>6. TypeOK'
  <2>1. /\ pc' \in [Callers -> {"idle", "check", "find", "create", "dispatch", "silence", "ack"}]
        /\ request' \in [Callers -> {None} \cup Request]
        /\ target' \in [Callers -> 0..MaxRuns]
    BY <1>4 DEF Crash, TypeOK
  <2>2. queue' \in [Processes -> Seq(Runs)]
    BY <1>1, <1>4 DEF TypeOK
  <2>3. worker' \in [Processes -> [Workers ->
           [run : 0..MaxRuns, stage : {"idle", "taken", "running", "audit"}]]]
    BY <1>1, <1>4 DEF TypeOK, Idle
  <2>4. api' \in {"down", "recovering", "up"} /\ pending' \subseteq Runs /\ marked' \in 0..MaxRuns
    BY <1>1, <1>4 DEF TypeOK
  <2>5. lost' \subseteq Runs
    BY <1>1, <1>5 DEF TypeOK
  <2> QED
    BY <1>1, <2>1, <2>2, <2>3, <2>4, <2>5 DEF TypeOK
<1>7. Refs'
  <2>1. \A q \in Processes : \A n \in 1..Len(queue'[q]) : queue'[q][n] \in Known
    <3>1. queue'[p] = <<>> /\ \A q \in Processes \ {p} : queue'[q] = queue[q]
      BY <1>1 DEF TypeOK
    <3> QED
      BY <3>1 DEF Refs
  <2>2. \A q \in Processes, v \in Workers : worker'[q][v].stage # "idle" => worker'[q][v].run \in Known
    BY <1>1 DEF TypeOK, Refs, Idle
  <2>3. pending' \subseteq Known /\ (marked' # 0 => marked' \in pending') /\ (api' # "recovering" => pending' = {})
    BY <1>1 DEF Refs
  <2>4. \A c \in Callers :
          /\ pc'[c] \in {"dispatch", "ack"} => target'[c] \in Known
          /\ pc'[c] \in {"check", "find", "create", "silence"} => request'[c] \in Request
          /\ pc'[c] = "silence" => request'[c].parent \in Known
    BY <1>2 DEF Refs
  <2> QED
    BY <1>3, <2>1, <2>2, <2>3, <2>4 DEF Refs
<1>8. Kept'
  <2> SUFFICES ASSUME NEW r \in Active, r \notin lost' PROVE Somewhere(r)'
    BY <1>3 DEF Kept, Somewhere
  <2>1. r \notin Queued(p) /\ r \notin Working(p) /\ r \notin Handing(p) /\ r \notin lost
        /\ (p = "api" => r \notin pending)
    BY <1>1 DEF Held
  <2>2. r # 0
    BY AutomationAssumption DEF Active, Known, Runs
  <2>3. \A n \in 1..Len(queue[p]) : queue[p][n] # r
    BY <2>1 DEF Queued
  <2>4. \A w \in Workers : worker[p][w].run # r
    BY <2>1, <2>2 DEF Working
  <2>5. \A c \in Callers : ProcessOf(c) = p /\ pc[c] = "dispatch" => target[c] # r
    BY <2>1 DEF Handing
  <2>6. \A q \in Processes \ {p} : queue'[q] = queue[q] /\ worker'[q] = worker[q]
    BY <1>1 DEF TypeOK
  <2>7. Somewhere(r)
    BY DEF Kept
  <2> QED
    BY <1>1, <1>2, <2>1, <2>3, <2>4, <2>5, <2>6, <2>7 DEF Somewhere
<1> QED
  BY <1>6, <1>7, <1>8

-----------------------------------------------------------------------------
\* At the beginning the table is empty.
LEMMA InitInv == Init => IInv
<1> SUFFICES ASSUME Init PROVE IInv
  OBVIOUS
<1> USE DEF Init
<1>1. 0 \in 0..MaxRuns /\ <<>> \in Seq(Runs)
  BY AutomationAssumption
<1>2. TypeOK
  BY <1>1 DEF TypeOK, Idle
<1>3. Refs /\ Kept
  BY <1>1 DEF Refs, Kept, Known, Active, Idle
<1> QED
  BY <1>2, <1>3 DEF IInv

\* Every step keeps the invariant.
LEMMA StepInv == IInv /\ [Next]_vars => IInv'
<1> SUFFICES ASSUME IInv, [Next]_vars PROVE IInv'
  OBVIOUS
<1>1. ASSUME NEW c \in Callers, Call(c) PROVE IInv'
  BY <1>1, CallsThatRead, CreateKeeps, DispatchKeeps, DispatchFailsKeeps, AcksKeep DEF Call
<1>2. ASSUME NEW p \in Processes, NEW w \in Workers, Work(p, w) PROVE IInv'
  BY <1>2, TakeKeeps, WorkKeeps DEF Work
<1>3. ASSUME NEW j \in Jobs, UpdateJob(j) PROVE IInv'
  <2>1. enabled' \in [Jobs -> BOOLEAN] /\ switches' \in Nat
    BY <1>3 DEF UpdateJob, IInv, TypeOK
  <2>2. UNCHANGED <<run, execs, apis, callers, lost, beyond, taken, faults>> /\ Known' = Known /\ Active' = Active
    BY <1>3 DEF UpdateJob, Known, Active
  <2> QED
    BY <2>1, <2>2 DEF IInv, TypeOK, Refs, Kept, Somewhere, execs, apis, callers
<1>4. CASE UNCHANGED vars
  <2>1. Known' = Known /\ Active' = Active
    BY <1>4 DEF vars, Known, Active
  <2> QED
    BY <1>4, <2>1 DEF vars, IInv, TypeOK, Refs, Kept, Somewhere, execs, apis, callers, notes
<1>5. CASE Next
  BY <1>1, <1>2, <1>3, <1>5, CallsThatRead, DispatchFailsKeeps, WorkKeeps, RecoverKeeps, CrashKeeps
  DEF Next
<1> QED
  BY <1>4, <1>5

\* Every variable has its type.
THEOREM TypeCorrect == Spec => []TypeOK
<1>1. IInv => TypeOK
  BY DEF IInv
<1> QED
  BY <1>1, InitInv, StepInv, PTL DEF Spec

-----------------------------------------------------------------------------
\* Who has run r, in which place.
QueuedAt(r, p, n)  == n \in 1..Len(queue[p]) /\ queue[p][n] = r
WorkedBy(r, p, w)  == worker[p][w].run = r
HandedBy(r, c)     == pc[c] = "dispatch" /\ target[c] = r

IsQueued(r)  == \E p \in Processes, n \in Nat : QueuedAt(r, p, n)
IsWorked(r)  == \E p \in Processes, w \in Workers : WorkedBy(r, p, w)
IsHanded(r)  == \E c \in Callers : HandedBy(r, c)
IsWaiting(r) == r \in pending

\* One has it at most, and only while it is not over: but for the worker that
\* has written its end.
OneHas(r) ==
  /\ \A p, q \in Processes : \A n, m \in Nat : QueuedAt(r, p, n) /\ QueuedAt(r, q, m) => p = q /\ n = m
  /\ \A p, q \in Processes : \A w, v \in Workers : WorkedBy(r, p, w) /\ WorkedBy(r, q, v) => p = q /\ w = v
  /\ \A c, d \in Callers : HandedBy(r, c) /\ HandedBy(r, d) => c = d
  /\ IsQueued(r)  => ~IsWorked(r) /\ ~IsHanded(r) /\ ~IsWaiting(r)
  /\ IsWorked(r)  => ~IsHanded(r) /\ ~IsWaiting(r)
  /\ IsHanded(r)  => ~IsWaiting(r)

LiveWhileHad(r) ==
  /\ IsQueued(r) \/ IsHanded(r) \/ IsWaiting(r) => r \in Active
  /\ \A p \in Processes, w \in Workers : WorkedBy(r, p, w) /\ worker[p][w].stage # "audit" => r \in Active

\* An idle worker has none, and nothing runs in the API while it is down.
Quiet ==
  /\ \A p \in Processes, w \in Workers : worker[p][w].stage = "idle" <=> worker[p][w].run = 0
  /\ api = "down" => /\ queue["api"] = <<>>
                     /\ \A w \in Workers : worker["api"][w].stage = "idle"
                     /\ \A c \in Threads : pc[c] = "idle"

Exclusive == \A r \in Runs \ taken : OneHas(r) /\ LiveWhileHad(r)

\* SetStatus leaves the other runs and the other columns alone.
LEMMA SetStatusFields ==
  ASSUME TypeOK, NEW r \in Known, NEW s \in {"queued", "running", "succeeded", "failed"},
         SetStatus(r, s)
  PROVE  /\ \A q \in Runs \ {r} : run'[q] = run[q]
         /\ run'[r] = [job |-> run[r].job, trigger |-> run[r].trigger, attempt |-> run[r].attempt,
                       parent |-> run[r].parent, status |-> s, acked |-> run[r].acked]
         /\ Active \ {r} \subseteq Active'
         /\ s \in {"queued", "running"} => r \in Active'
<1>1. /\ \A q \in Runs \ {r} : run'[q] = run[q]
      /\ run'[r] = [job |-> run[r].job, trigger |-> run[r].trigger, attempt |-> run[r].attempt,
                    parent |-> run[r].parent, status |-> s, acked |-> run[r].acked]
  BY DEF TypeOK, SetStatus, Known
<1>2. Known' = Known
  BY SetStatusStep
<1>3. run'[r].status = s
  BY <1>1
<1> QED
  BY <1>1, <1>2, <1>3 DEF Active, Known

\* Acknowledge sets one flag.
LEMMA AcknowledgeFields ==
  ASSUME TypeOK, NEW r \in Known, Acknowledge(r)
  PROVE  /\ \A q \in Runs \ {r} : run'[q] = run[q]
         /\ run'[r] = [job |-> run[r].job, trigger |-> run[r].trigger, attempt |-> run[r].attempt,
                       parent |-> run[r].parent, status |-> run[r].status, acked |-> TRUE]
  BY DEF TypeOK, Acknowledge, Known

\* Where the runs of a queue stand after one was put to its end.
LEMMA EnqueuedAt ==
  ASSUME TypeOK, NEW p \in Processes, NEW r \in Runs, queue' = [queue EXCEPT ![p] = Append(@, r)]
  PROVE  \A q \in Processes, n \in Nat, x \in Runs :
           QueuedAt(x, q, n)' => QueuedAt(x, q, n) \/ (x = r /\ q = p /\ n = Len(queue[p]) + 1)
<1>1. queue[p] \in Seq(Runs)
  BY DEF TypeOK
<1>2. queue'[p] = Append(queue[p], r) /\ \A q \in Processes \ {p} : queue'[q] = queue[q]
  BY DEF TypeOK
<1>3. /\ Len(Append(queue[p], r)) = Len(queue[p]) + 1
      /\ \A i \in 1..Len(queue[p]) : Append(queue[p], r)[i] = queue[p][i]
      /\ Append(queue[p], r)[Len(queue[p]) + 1] = r
      /\ Len(queue[p]) \in Nat
  BY <1>1, AppendProperties
<1> SUFFICES ASSUME NEW q \in Processes, NEW n \in Nat, NEW x \in Runs,
                    n \in 1..Len(queue'[q]), queue'[q][n] = x
             PROVE  (n \in 1..Len(queue[q]) /\ queue[q][n] = x)
                    \/ (x = r /\ q = p /\ n = Len(queue[p]) + 1)
  BY DEF QueuedAt
<1>4. CASE q # p
  BY <1>2, <1>4
<1>5. CASE q = p
  <2>1. n \in 1..Len(queue[p]) \/ n = Len(queue[p]) + 1
    BY <1>2, <1>3, <1>5
  <2> QED
    BY <1>2, <1>3, <1>5, <2>1
<1> QED
  BY <1>4, <1>5

\* And after the first was taken out: one place further, and not the first.
LEMMA DequeuedAt ==
  ASSUME TypeOK, NEW p \in Processes, queue[p] # <<>>, queue' = [queue EXCEPT ![p] = Tail(@)]
  PROVE  /\ QueuedAt(Head(queue[p]), p, 1)
         /\ \A q \in Processes, n \in Nat, x \in Runs :
              QueuedAt(x, q, n)' => IF q = p THEN QueuedAt(x, q, n + 1) /\ n + 1 # 1
                                    ELSE QueuedAt(x, q, n)
<1>1. queue[p] \in Seq(Runs)
  BY DEF TypeOK
<1>2. queue'[p] = Tail(queue[p]) /\ \A q \in Processes \ {p} : queue'[q] = queue[q]
  BY DEF TypeOK
<1>3. /\ Len(Tail(queue[p])) = Len(queue[p]) - 1
      /\ \A i \in 1..Len(Tail(queue[p])) : Tail(queue[p])[i] = queue[p][i + 1]
      /\ Head(queue[p]) = queue[p][1]
      /\ Len(queue[p]) \in Nat /\ Len(queue[p]) >= 1
  <2>1. Len(queue[p]) \in Nat /\ Len(queue[p]) # 0
    BY <1>1, EmptySeq
  <2> QED
    BY <1>1, <2>1, HeadTailProperties
<1>4. QueuedAt(Head(queue[p]), p, 1)
  BY <1>3 DEF QueuedAt
<1>5. ASSUME NEW n \in Nat, NEW x \in Runs, QueuedAt(x, p, n)'
      PROVE  QueuedAt(x, p, n + 1) /\ n + 1 # 1
  <2>1. n \in 1..Len(Tail(queue[p])) /\ Tail(queue[p])[n] = x
    BY <1>2, <1>5 DEF QueuedAt
  <2>2. n + 1 \in 1..Len(queue[p]) /\ n + 1 # 1
    BY <1>3, <2>1
  <2> QED
    BY <1>3, <2>1, <2>2 DEF QueuedAt
<1>6. ASSUME NEW q \in Processes \ {p}, NEW n \in Nat, NEW x \in Runs, QueuedAt(x, q, n)'
      PROVE  QueuedAt(x, q, n)
  BY <1>2, <1>6 DEF QueuedAt
<1> QED
  BY <1>4, <1>5, <1>6

\* Who has a run is decided by those who had it, if a step only takes it away.
LEMMA Frame ==
  ASSUME NEW r \in Runs \ taken, OneHas(r), LiveWhileHad(r), NEW f \in [Processes -> Nat],
         \A p \in Processes, n \in Nat : QueuedAt(r, p, n)' => QueuedAt(r, p, n + f[p]),
         \A p \in Processes, w \in Workers :
           WorkedBy(r, p, w)' => /\ WorkedBy(r, p, w)
                                 /\ worker'[p][w].stage # "audit" => worker[p][w].stage # "audit",
         \A c \in Callers : HandedBy(r, c)' => HandedBy(r, c),
         r \in pending' => r \in pending,
         r \in Active => r \in Active'
  PROVE  OneHas(r)' /\ LiveWhileHad(r)'
<1> USE DEF IsQueued, IsWorked, IsHanded, IsWaiting
<1>1. IsQueued(r)' => IsQueued(r)
  <2> SUFFICES ASSUME NEW p \in Processes, NEW n \in Nat, QueuedAt(r, p, n)' PROVE IsQueued(r)
    OBVIOUS
  <2>1. n + f[p] \in Nat /\ QueuedAt(r, p, n + f[p])
    OBVIOUS
  <2> HIDE DEF QueuedAt
  <2> QED
    BY <2>1
<1>2. (IsWorked(r)' => IsWorked(r)) /\ (IsHanded(r)' => IsHanded(r)) /\ (IsWaiting(r)' => IsWaiting(r))
  BY DEF WorkedBy, HandedBy
<1>3. ASSUME NEW p \in Processes, NEW q \in Processes, NEW n \in Nat, NEW m \in Nat,
             QueuedAt(r, p, n)', QueuedAt(r, q, m)'
      PROVE  p = q /\ n = m
  <2>1. n + f[p] \in Nat /\ m + f[q] \in Nat /\ QueuedAt(r, p, n + f[p]) /\ QueuedAt(r, q, m + f[q])
    BY <1>3
  <2>2. p = q /\ n + f[p] = m + f[q]
    <3> HIDE DEF QueuedAt
    <3> QED
      BY <2>1 DEF OneHas
  <2> QED
    BY <2>2
<1>4. LiveWhileHad(r)'
  BY <1>1, <1>2 DEF LiveWhileHad, WorkedBy
<1>5. OneHas(r)'
  <2>1. \A c, d \in Callers : HandedBy(r, c)' /\ HandedBy(r, d)' => c = d
    BY DEF OneHas
  <2>2. \A p, q \in Processes : \A w, v \in Workers : WorkedBy(r, p, w)' /\ WorkedBy(r, q, v)' => p = q /\ w = v
    BY DEF OneHas
  <2>3. /\ IsQueued(r)'  => ~IsWorked(r)' /\ ~IsHanded(r)' /\ ~IsWaiting(r)'
        /\ IsWorked(r)'  => ~IsHanded(r)' /\ ~IsWaiting(r)'
        /\ IsHanded(r)'  => ~IsWaiting(r)'
    <3> HIDE DEF IsQueued, IsWorked, IsHanded, IsWaiting
    <3> QED
      BY <1>1, <1>2 DEF OneHas
  <2> QED
    BY <1>3, <2>1, <2>2, <2>3 DEF OneHas
<1> QED
  BY <1>4, <1>5

\* The same where the queues stand still.
LEMMA FrameQueues ==
  ASSUME NEW r \in Runs \ taken, OneHas(r), LiveWhileHad(r), UNCHANGED queue,
         \A p \in Processes, w \in Workers :
           WorkedBy(r, p, w)' => /\ WorkedBy(r, p, w)
                                 /\ worker'[p][w].stage # "audit" => worker[p][w].stage # "audit",
         \A c \in Callers : HandedBy(r, c)' => HandedBy(r, c),
         r \in pending' => r \in pending,
         r \in Active => r \in Active'
  PROVE  OneHas(r)' /\ LiveWhileHad(r)'
<1> DEFINE f == [p \in Processes |-> 0]
<1>1. f \in [Processes -> Nat]
  OBVIOUS
<1>2. \A p \in Processes, n \in Nat : QueuedAt(r, p, n)' => QueuedAt(r, p, n + f[p])
  BY DEF QueuedAt
<1> HIDE DEF f
<1> QED
  BY <1>1, <1>2, Frame

\* Calls but for the handing over, and what they write of the runs.
LEMMA CallsExclude ==
  ASSUME IInv, Exclusive, NEW c \in Callers,
         \/ \E j \in Jobs, trigger \in Triggers : Submit(c, j, trigger)
         \/ SubmitCheck(c) \/ SubmitFind(c)
         \/ \E r \in Runs : Retry(c, r) \/ AckRead(c, r)
         \/ RetrySilence(c) \/ AckWrite(c) \/ SubmitLoses(c)
  PROVE  Exclusive'
<1> USE DEF IInv
<1>1. UNCHANGED <<queue, worker, pending, taken>>
  BY DEF Submit, SubmitCheck, SubmitFind, Retry, AckRead, RetrySilence, AckWrite, SubmitLoses,
         execs, apis, notes
<1>2. Active' = Active
  <2>1. CASE RetrySilence(c) \/ AckWrite(c)
    BY <2>1, AcknowledgeStep DEF RetrySilence, AckWrite, Refs
  <2>2. CASE UNCHANGED run
    BY <2>2 DEF Active, Known
  <2> QED
    BY <2>1, <2>2 DEF Submit, SubmitCheck, SubmitFind, Retry, AckRead, SubmitLoses
<1>3. pc'[c] # "dispatch" /\ \A d \in Callers \ {c} : pc'[d] = pc[d] /\ target'[d] = target[d]
  BY DEF TypeOK, Submit, SubmitCheck, SubmitFind, Retry, AckRead, RetrySilence, AckWrite, SubmitLoses,
         Goto, Return
<1> SUFFICES ASSUME NEW r \in Runs \ taken PROVE OneHas(r)' /\ LiveWhileHad(r)'
  BY <1>1 DEF Exclusive
<1>4. \A d \in Callers : HandedBy(r, d)' => HandedBy(r, d)
  BY <1>3 DEF HandedBy
<1>5. \A p \in Processes, w \in Workers :
        WorkedBy(r, p, w)' => /\ WorkedBy(r, p, w)
                              /\ worker'[p][w].stage # "audit" => worker[p][w].stage # "audit"
  BY <1>1 DEF WorkedBy
<1> QED
  BY <1>1, <1>2, <1>4, <1>5, FrameQueues DEF Exclusive

\* A created run is new to everybody but its caller.
LEMMA CreateExcludes ==
  ASSUME IInv, Quiet, Exclusive, NEW c \in Callers, SubmitCreate(c)
  PROVE  Exclusive'
<1> USE DEF IInv
<1>1. PICK t \in Runs :
        /\ run[t] = None
        /\ run' = [run EXCEPT ![t] =
             [job |-> request[c].job, trigger |-> request[c].trigger,
              attempt |-> request[c].attempt, parent |-> request[c].parent,
              status |-> "queued", acked |-> FALSE]]
        /\ target' = [target EXCEPT ![c] = t]
  BY DEF SubmitCreate
<1>2. pc[c] = "create" /\ pc' = [pc EXCEPT ![c] = "dispatch"] /\ request[c] \in Request
      /\ UNCHANGED <<queue, worker, pending, taken>>
  BY DEF SubmitCreate, Goto, Refs, execs, apis, notes
<1>3. [job |-> request[c].job, trigger |-> request[c].trigger,
       attempt |-> request[c].attempt, parent |-> request[c].parent,
       status |-> "queued", acked |-> FALSE] \in RunRow
  BY <1>2 DEF Request, RunRow
<1>4. Active' = Active \cup {t} /\ t \notin Known
  BY <1>1, <1>3, AutomationAssumption DEF TypeOK, Active, Known
<1>5. pc'[c] = "dispatch" /\ target'[c] = t
      /\ \A d \in Callers \ {c} : pc'[d] = pc[d] /\ target'[d] = target[d]
  BY <1>1, <1>2 DEF TypeOK
<1> SUFFICES ASSUME NEW r \in Runs \ taken PROVE OneHas(r)' /\ LiveWhileHad(r)'
  BY <1>2 DEF Exclusive
<1>6. CASE r = t
  <2>1. ~IsQueued(t)' /\ ~IsWorked(t)' /\ ~IsWaiting(t)'
    <3>1. \A p \in Processes : \A n \in 1..Len(queue[p]) : queue[p][n] # t
      BY <1>4 DEF Refs
    <3>2. \A p \in Processes, w \in Workers : worker[p][w].run # t
      BY <1>4, AutomationAssumption DEF Refs, Quiet, Runs
    <3> QED
      BY <1>2, <1>4, <3>1, <3>2 DEF Refs, IsQueued, IsWorked, IsWaiting, QueuedAt, WorkedBy
  <2>2. \A d \in Callers : HandedBy(t, d)' => d = c
    BY <1>2, <1>4, <1>5 DEF HandedBy, Refs
  <2>3. t \in Active'
    BY <1>4
  <2> QED
    BY <1>6, <2>1, <2>2, <2>3 DEF OneHas, LiveWhileHad, IsQueued, IsWorked, IsWaiting
<1>7. CASE r # t
  <2>1. \A d \in Callers : HandedBy(r, d)' => HandedBy(r, d)
    BY <1>5, <1>7 DEF HandedBy
  <2>2. \A p \in Processes, w \in Workers :
          WorkedBy(r, p, w)' => /\ WorkedBy(r, p, w)
                                /\ worker'[p][w].stage # "audit" => worker[p][w].stage # "audit"
    BY <1>2 DEF WorkedBy
  <2> QED
    BY <1>2, <1>4, <2>1, <2>2, FrameQueues DEF Exclusive
<1> QED
  BY <1>6, <1>7

\* A run that is refused is nobody's.
LEMMA RaiseExcludes ==
  ASSUME IInv, Exclusive, NEW c \in Callers, SubmitRaise(c)
  PROVE  Exclusive'
<1> USE DEF IInv
<1>0. PICK t \in Known : t = target[c]
  BY DEF SubmitRaise, Refs
<1>1. pc[c] = "dispatch" /\ t \in Runs /\ SetStatus(t, "failed") /\ Return(c)
      /\ UNCHANGED <<queue, worker, pending, taken>>
  BY <1>0 DEF SubmitRaise, Known, execs, apis, notes
<1>2. Active \ {t} \subseteq Active'
  BY <1>1, SetStatusFields
<1>3. HandedBy(t, c)
  BY <1>0, <1>1 DEF HandedBy
<1>4. \A r \in Runs : \A d \in Callers : HandedBy(r, d)' => HandedBy(r, d) /\ d # c
  BY <1>1, ReturnStep DEF HandedBy
<1> SUFFICES ASSUME NEW r \in Runs \ taken PROVE OneHas(r)' /\ LiveWhileHad(r)'
  BY <1>1 DEF Exclusive
<1>5. CASE r = t
  <2>1. OneHas(t) /\ IsHanded(t)
    BY <1>3, <1>5 DEF Exclusive, IsHanded
  <2>2. ~IsQueued(t) /\ ~IsWorked(t) /\ ~IsWaiting(t)
    BY <2>1 DEF OneHas
  <2>3. ~IsQueued(t)' /\ ~IsWorked(t)' /\ ~IsWaiting(t)'
    BY <1>1, <2>2 DEF IsQueued, IsWorked, IsWaiting, QueuedAt, WorkedBy
  <2>4. ~IsHanded(t)'
    BY <1>3, <1>4, <1>5, <2>1 DEF OneHas, IsHanded
  <2> QED
    BY <1>5, <2>3, <2>4 DEF OneHas, LiveWhileHad, IsQueued, IsWorked, IsWaiting, IsHanded
<1>6. CASE r # t
  <2>1. \A p \in Processes, w \in Workers :
          WorkedBy(r, p, w)' => /\ WorkedBy(r, p, w)
                                /\ worker'[p][w].stage # "audit" => worker[p][w].stage # "audit"
    BY <1>1 DEF WorkedBy
  <2> QED
    BY <1>1, <1>2, <1>4, <1>6, <2>1, FrameQueues DEF Exclusive
<1> QED
  BY <1>5, <1>6

\* A run that is handed over goes from its caller to the end of a queue.
LEMMA DispatchExcludes ==
  ASSUME IInv, Exclusive, NEW c \in Callers, SubmitDispatch(c)
  PROVE  Exclusive'
<1> USE DEF IInv
<1>1. PICK t \in Known : t = target[c]
  BY DEF SubmitDispatch, Refs
<1>2. PICK p \in Processes : p = ProcessOf(c)
  BY DEF ProcessOf, Processes
<1>3. pc[c] = "dispatch" /\ t \in Runs /\ queue' = [queue EXCEPT ![p] = Append(@, t)] /\ Return(c)
      /\ UNCHANGED <<run, worker, pending, taken>>
  BY <1>1, <1>2 DEF SubmitDispatch, Known, apis, notes
<1>4. Active' = Active
  BY <1>3 DEF Active, Known
<1>5. HandedBy(t, c)
  BY <1>1, <1>3 DEF HandedBy
<1>6. \A r \in Runs : \A d \in Callers : HandedBy(r, d)' => HandedBy(r, d) /\ d # c
  BY <1>3, ReturnStep DEF HandedBy
<1>7. \A q \in Processes, n \in Nat, x \in Runs :
        QueuedAt(x, q, n)' => QueuedAt(x, q, n) \/ (x = t /\ q = p /\ n = Len(queue[p]) + 1)
  BY <1>3, EnqueuedAt
<1> SUFFICES ASSUME NEW r \in Runs \ taken PROVE OneHas(r)' /\ LiveWhileHad(r)'
  BY <1>3 DEF Exclusive
<1>8. CASE r = t
  <2>1. OneHas(t) /\ IsHanded(t) /\ LiveWhileHad(t)
    BY <1>5, <1>8 DEF Exclusive, IsHanded
  <2>2. ~IsQueued(t) /\ ~IsWorked(t) /\ ~IsWaiting(t) /\ t \in Active
    BY <2>1 DEF OneHas, LiveWhileHad
  <2>3. ~IsWorked(t)' /\ ~IsWaiting(t)'
    BY <1>3, <2>2 DEF IsWorked, IsWaiting, WorkedBy
  <2>4. ~IsHanded(t)'
    BY <1>3, <1>5, <1>6, <2>1 DEF OneHas, IsHanded
  <2>5. \A q \in Processes, n \in Nat : QueuedAt(t, q, n)' => q = p /\ n = Len(queue[p]) + 1
    <3> SUFFICES ASSUME NEW q \in Processes, NEW n \in Nat, QueuedAt(t, q, n)'
                 PROVE  q = p /\ n = Len(queue[p]) + 1
      OBVIOUS
    <3>1. ~QueuedAt(t, q, n)
      BY <2>2 DEF IsQueued
    <3> HIDE DEF QueuedAt
    <3> QED
      BY <1>3, <1>7, <3>1
  <2> QED
    BY <1>4, <1>8, <2>2, <2>3, <2>4, <2>5 DEF OneHas, LiveWhileHad, IsWorked, IsHanded
<1>9. CASE r # t
  <2>1. \A q \in Processes, w \in Workers :
          WorkedBy(r, q, w)' => /\ WorkedBy(r, q, w)
                                /\ worker'[q][w].stage # "audit" => worker[q][w].stage # "audit"
    BY <1>3 DEF WorkedBy
  <2>2. PICK f \in [Processes -> Nat] : f = [q \in Processes |-> 0]
    OBVIOUS
  <2>3. \A q \in Processes, n \in Nat : QueuedAt(r, q, n)' => QueuedAt(r, q, n + f[q])
    <3>1. \A q \in Processes, n \in Nat : n + f[q] = n
      BY <2>2
    <3> HIDE DEF QueuedAt
    <3> QED
      BY <1>7, <1>9, <3>1
  <2> QED
    BY <1>3, <1>4, <1>6, <1>9, <2>1, <2>3, Frame DEF Exclusive
<1> QED
  BY <1>8, <1>9

\* A run that is taken goes from the head of a queue to a worker.
LEMMA TakeExcludes ==
  ASSUME IInv, Quiet, Exclusive, NEW p \in Processes, NEW w \in Workers, WorkerTake(p, w)
  PROVE  Exclusive'
<1> USE DEF IInv
<1>1. queue[p] # <<>> /\ Head(queue[p]) \in Runs /\ queue' = [queue EXCEPT ![p] = Tail(@)]
  BY Dequeued DEF WorkerTake
<1>2. PICK t \in Runs : t = Head(queue[p])
  BY <1>1
<1>3. /\ worker[p][w].stage = "idle" /\ SetWorker(p, w, t, "taken")
      /\ UNCHANGED <<run, pending, taken, pc, target>>
  BY <1>2 DEF WorkerTake, apis, callers, notes
<1>4. t \in 0..MaxRuns /\ t # 0
  BY AutomationAssumption DEF Runs
<1>5. /\ worker'[p][w].run = t /\ worker'[p][w].stage = "taken"
      /\ \A q \in Processes, v \in Workers : <<q, v>> # <<p, w>> => worker'[q][v] = worker[q][v]
  BY <1>3, <1>4, SetWorkerStep
<1>6. worker[p][w].run = 0
  BY <1>3 DEF Quiet
<1>7. Active' = Active
  BY <1>3 DEF Active, Known
<1>8. /\ QueuedAt(t, p, 1)
      /\ \A q \in Processes, n \in Nat, x \in Runs :
           QueuedAt(x, q, n)' => IF q = p THEN QueuedAt(x, q, n + 1) /\ n + 1 # 1
                                 ELSE QueuedAt(x, q, n)
  BY <1>1, <1>2, DequeuedAt
<1> SUFFICES ASSUME NEW r \in Runs \ taken PROVE OneHas(r)' /\ LiveWhileHad(r)'
  BY <1>3 DEF Exclusive
<1>9. CASE r = t
  <2>1. OneHas(t) /\ IsQueued(t) /\ LiveWhileHad(t)
    <3> HIDE DEF QueuedAt
    <3> QED
      BY <1>8, <1>9 DEF Exclusive, IsQueued
  <2>2. ~IsWorked(t) /\ ~IsHanded(t) /\ ~IsWaiting(t) /\ t \in Active
    BY <2>1 DEF OneHas, LiveWhileHad
  <2>3. ~IsHanded(t)' /\ ~IsWaiting(t)'
    BY <1>3, <2>2 DEF IsHanded, IsWaiting, HandedBy
  <2>4. \A q \in Processes, v \in Workers : WorkedBy(t, q, v)' => q = p /\ v = w
    BY <1>5, <2>2 DEF IsWorked, WorkedBy
  <2>5. ASSUME NEW q \in Processes, NEW n \in Nat, QueuedAt(t, q, n)' PROVE FALSE
    <3>1. CASE q = p
      <4>1. QueuedAt(t, p, n + 1) /\ n + 1 # 1 /\ n + 1 \in Nat
        BY <1>8, <2>5, <3>1
      <4> HIDE DEF QueuedAt
      <4> QED
        BY <1>8, <2>1, <4>1 DEF OneHas
    <3>2. CASE q # p
      <4>1. QueuedAt(t, q, n)
        BY <1>8, <2>5, <3>2
      <4> HIDE DEF QueuedAt
      <4> QED
        BY <1>8, <2>1, <3>2, <4>1 DEF OneHas
    <3> QED
      BY <3>1, <3>2
  <2>6. ~IsQueued(t)'
    BY <2>5 DEF IsQueued
  <2> QED
    BY <1>7, <1>9, <2>2, <2>3, <2>4, <2>5, <2>6 DEF OneHas, LiveWhileHad, IsHanded
<1>10. CASE r # t
  <2>1. \A q \in Processes, v \in Workers :
          WorkedBy(r, q, v)' => /\ WorkedBy(r, q, v)
                                /\ worker'[q][v].stage # "audit" => worker[q][v].stage # "audit"
    BY <1>5, <1>10 DEF WorkedBy
  <2>2. PICK f \in [Processes -> Nat] : f = [q \in Processes |-> IF q = p THEN 1 ELSE 0]
    <3>1. [q \in Processes |-> IF q = p THEN 1 ELSE 0] \in [Processes -> Nat]
      OBVIOUS
    <3> QED
      BY <3>1
  <2>3. \A q \in Processes, n \in Nat : QueuedAt(r, q, n)' => QueuedAt(r, q, n + f[q])
    <3>1. \A q \in Processes, n \in Nat : n + f[q] = IF q = p THEN n + 1 ELSE n
      BY <2>2
    <3> HIDE DEF QueuedAt
    <3> QED
      BY <1>8, <3>1
  <2>4. \A c \in Callers : HandedBy(r, c)' => HandedBy(r, c)
    BY <1>3 DEF HandedBy
  <2> QED
    BY <1>3, <1>7, <2>1, <2>3, <2>4, Frame DEF Exclusive
<1> QED
  BY <1>9, <1>10

\* A worker that ends its run, or loses it, leaves it to nobody.
LEMMA WorkExcludes ==
  ASSUME IInv, Quiet, Exclusive, NEW p \in Processes, NEW w \in Workers,
         \/ WorkerStart(p, w) \/ WorkerSucceed(p, w) \/ WorkerAudit(p, w)
         \/ WorkerFail(p, w) \/ WorkerLoses(p, w)
  PROVE  Exclusive'
<1> USE DEF IInv
<1>1. worker[p][w].stage # "idle" /\ UNCHANGED <<queue, pending, taken, pc, target>>
  BY DEF WorkerStart, WorkerSucceed, WorkerAudit, WorkerFail, WorkerLoses, apis, callers, notes
<1>2. PICK t \in Known : t = worker[p][w].run
  BY <1>1 DEF Refs
<1>3. t \in 0..MaxRuns /\ t # 0 /\ 0 \in 0..MaxRuns /\ t \in Runs
  BY AutomationAssumption DEF Known, Runs
<1>4. PICK x \in {0, t}, stage \in {"idle", "running", "audit"} :
        /\ SetWorker(p, w, x, stage)
        /\ stage = "idle" <=> x = 0
        /\ stage # "audit" => worker[p][w].stage # "audit" \/ x = 0
  BY <1>2, <1>3 DEF WorkerStart, WorkerSucceed, WorkerAudit, WorkerFail, WorkerLoses
<1>5. /\ worker'[p][w].run = x /\ worker'[p][w].stage = stage
      /\ \A q \in Processes, v \in Workers : <<q, v>> # <<p, w>> => worker'[q][v] = worker[q][v]
  BY <1>3, <1>4, SetWorkerStep
<1>6. \A r \in Runs : \A q \in Processes, v \in Workers :
        WorkedBy(r, q, v)' => /\ WorkedBy(r, q, v)
                              /\ worker'[q][v].stage # "audit" => worker[q][v].stage # "audit"
  BY <1>2, <1>3, <1>4, <1>5, AutomationAssumption DEF WorkedBy, Runs
<1>7. \A r \in Runs : \A d \in Callers : HandedBy(r, d)' => HandedBy(r, d)
  BY <1>1 DEF HandedBy
<1>8. Active \ {t} \subseteq Active' /\ (WorkerStart(p, w) => t \in Active')
  <2>1. CASE WorkerStart(p, w)
    BY <1>2, <2>1, SetStatusFields DEF WorkerStart
  <2>2. CASE WorkerSucceed(p, w) \/ WorkerFail(p, w)
    <3>1. ~WorkerStart(p, w)
      BY <2>2 DEF WorkerStart, WorkerSucceed, WorkerFail
    <3> QED
      BY <1>2, <2>2, <3>1, SetStatusFields DEF WorkerSucceed, WorkerFail
  <2>3. CASE WorkerAudit(p, w) \/ WorkerLoses(p, w)
    <3>1. UNCHANGED run
      BY <2>3 DEF WorkerAudit, WorkerLoses
    <3>2. WorkerStart(p, w) => t \in Active'
      BY <1>2, SetStatusFields DEF WorkerStart
    <3> QED
      BY <3>1, <3>2 DEF Active, Known
  <2> QED
    BY <2>1, <2>2, <2>3
<1> SUFFICES ASSUME NEW r \in Runs \ taken PROVE OneHas(r)' /\ LiveWhileHad(r)'
  BY <1>1 DEF Exclusive
<1>9. CASE r # t \/ WorkerStart(p, w)
  BY <1>1, <1>6, <1>7, <1>8, <1>9, FrameQueues DEF Exclusive
<1>10. CASE (WorkerAudit(p, w) \/ WorkerLoses(p, w))
  <2>1. Active' = Active
    BY <1>10 DEF WorkerAudit, WorkerLoses, Active, Known
  <2> QED
    BY <1>1, <1>6, <1>7, <2>1, FrameQueues DEF Exclusive
<1>11. CASE r = t /\ (WorkerSucceed(p, w) \/ WorkerFail(p, w))
  <2>1. OneHas(t) /\ WorkedBy(t, p, w)
    BY <1>2, <1>11 DEF Exclusive, WorkedBy
  <2>2. ~IsQueued(t) /\ ~IsHanded(t) /\ ~IsWaiting(t)
    BY <2>1 DEF OneHas, IsWorked, IsQueued
  <2>3. ~IsQueued(t)' /\ ~IsHanded(t)' /\ ~IsWaiting(t)'
    BY <1>1, <2>2 DEF IsQueued, IsHanded, IsWaiting, QueuedAt, HandedBy
  <2>4. \A q \in Processes, v \in Workers : WorkedBy(t, q, v)' => q = p /\ v = w
    BY <1>3, <1>6, <2>1 DEF OneHas
  <2>5. worker'[p][w].run # t \/ worker'[p][w].stage = "audit"
    <3>1. CASE WorkerSucceed(p, w)
      BY <1>2, <1>3, <3>1, SetWorkerStep DEF WorkerSucceed
    <3>2. CASE WorkerFail(p, w)
      BY <1>3, <3>2, SetWorkerStep DEF WorkerFail
    <3> QED
      BY <1>11, <3>1, <3>2
  <2> QED
    BY <1>11, <2>3, <2>4, <2>5 DEF OneHas, LiveWhileHad, IsQueued, IsHanded, WorkedBy
<1> QED
  BY <1>9, <1>10, <1>11

\* What the API takes up nobody has, unless the scheduler has it.
LEMMA StartExcludes ==
  ASSUME IInv, Quiet, Exclusive, ApiStart
  PROVE  Exclusive'
<1> USE DEF IInv
<1>1. api = "down" /\ pending' = Unfinished /\ taken' = taken \cup (Unfinished \cap Held("scheduler"))
      /\ UNCHANGED <<run, queue, worker, pc, target>> /\ Unfinished \subseteq Active
  BY DEF ApiStart, Unfinished, execs, callers
<1>2. Active' = Active
  BY <1>1 DEF Active, Known
<1> SUFFICES ASSUME NEW r \in Runs \ taken' PROVE OneHas(r)' /\ LiveWhileHad(r)'
  BY DEF Exclusive
<1>3. r \in Runs \ taken
  BY <1>1
<1>4. CASE r \notin Unfinished
  <2>1. \A p \in Processes, w \in Workers :
          WorkedBy(r, p, w)' => /\ WorkedBy(r, p, w)
                                /\ worker'[p][w].stage # "audit" => worker[p][w].stage # "audit"
    BY <1>1 DEF WorkedBy
  <2>2. \A c \in Callers : HandedBy(r, c)' => HandedBy(r, c)
    BY <1>1 DEF HandedBy
  <2> QED
    BY <1>1, <1>2, <1>3, <1>4, <2>1, <2>2, FrameQueues DEF Exclusive
<1>5. CASE r \in Unfinished
  <2>1. r \notin Held("scheduler") /\ r # 0
    BY <1>1, <1>5, AutomationAssumption DEF Runs
  <2>2. \A p \in Processes, n \in Nat : ~QueuedAt(r, p, n)
    <3>1. \A n \in Nat : ~QueuedAt(r, "scheduler", n)
      BY <2>1 DEF Held, Queued, QueuedAt
    <3>2. \A n \in Nat : ~QueuedAt(r, "api", n)
      BY <1>1 DEF Quiet, QueuedAt
    <3> QED
      BY <3>1, <3>2 DEF Processes
  <2>3. \A p \in Processes, w \in Workers : ~WorkedBy(r, p, w)
    <3>1. \A w \in Workers : ~WorkedBy(r, "scheduler", w)
      BY <2>1 DEF Held, Working, WorkedBy
    <3>2. \A w \in Workers : ~WorkedBy(r, "api", w)
      BY <1>1, <2>1 DEF Quiet, WorkedBy, Processes
    <3> QED
      BY <3>1, <3>2 DEF Processes
  <2>4. \A c \in Callers : ~HandedBy(r, c)
    <3>1. \A c \in Jobs : ~HandedBy(r, c)
      BY <2>1 DEF Held, Handing, HandedBy, ProcessOf, Callers
    <3>2. \A c \in Threads : ~HandedBy(r, c)
      BY <1>1 DEF Quiet, HandedBy
    <3> QED
      BY <3>1, <3>2 DEF Callers
  <2>5. ~IsQueued(r)' /\ ~IsWorked(r)' /\ ~IsHanded(r)'
    BY <1>1, <2>2, <2>3, <2>4 DEF IsQueued, IsWorked, IsHanded, QueuedAt, WorkedBy, HandedBy
  <2> QED
    BY <1>1, <1>2, <1>5, <2>5 DEF OneHas, LiveWhileHad, IsQueued, IsWorked, IsHanded
<1> QED
  BY <1>4, <1>5

\* The other steps of a recovery.
LEMMA RecoverExcludes ==
  ASSUME IInv, Quiet, Exclusive, Recover
  PROVE  Exclusive'
<1> USE DEF IInv
<1>1. CASE ApiStart
  BY <1>1, StartExcludes
<1>2. CASE ApiUp \/ \E x \in Runs : RecoverMark(x)
  <2>1. UNCHANGED <<queue, worker, pending, pc, target, taken>>
    BY <1>2 DEF ApiUp, RecoverMark, execs, callers, notes
  <2>2. Active \subseteq Active'
    <3>1. CASE ApiUp
      BY <3>1 DEF ApiUp, Active, Known
    <3>2. CASE \E x \in Runs : RecoverMark(x)
      <4>1. PICK x \in Runs : RecoverMark(x)
        BY <3>2
      <4> QED
        BY <4>1, SetStatusFields DEF RecoverMark, Refs
    <3> QED
      BY <1>2, <3>1, <3>2
  <2> SUFFICES ASSUME NEW r \in Runs \ taken PROVE OneHas(r)' /\ LiveWhileHad(r)'
    BY <2>1 DEF Exclusive
  <2>3. \A p \in Processes, w \in Workers :
          WorkedBy(r, p, w)' => /\ WorkedBy(r, p, w)
                                /\ worker'[p][w].stage # "audit" => worker[p][w].stage # "audit"
    BY <2>1 DEF WorkedBy
  <2>4. \A c \in Callers : HandedBy(r, c)' => HandedBy(r, c)
    BY <2>1 DEF HandedBy
  <2> QED
    BY <2>1, <2>2, <2>3, <2>4, FrameQueues DEF Exclusive
<1>3. CASE RecoverSubmit
  <2>1. PICK t \in Known : t = marked
    BY <1>3 DEF RecoverSubmit, Refs
  <2>2. t \in pending /\ t \in Runs /\ queue' = [queue EXCEPT !["api"] = Append(@, t)]
        /\ pending' = pending \ {t} /\ UNCHANGED <<run, worker, pc, target, taken>>
    BY <1>3, <2>1 DEF RecoverSubmit, Refs, Known, callers, notes
  <2>3. PICK p \in Processes : p = "api"
    BY DEF Processes
  <2>4. Active' = Active
    BY <2>2 DEF Active, Known
  <2>5. \A q \in Processes, n \in Nat, x \in Runs :
          QueuedAt(x, q, n)' => QueuedAt(x, q, n) \/ (x = t /\ q = p /\ n = Len(queue[p]) + 1)
    BY <2>2, <2>3, EnqueuedAt
  <2> SUFFICES ASSUME NEW r \in Runs \ taken PROVE OneHas(r)' /\ LiveWhileHad(r)'
    BY <2>2 DEF Exclusive
  <2>6. CASE r = t
    <3>1. OneHas(t) /\ IsWaiting(t) /\ LiveWhileHad(t)
      BY <2>2, <2>6 DEF Exclusive, IsWaiting
    <3>2. ~IsQueued(t) /\ ~IsWorked(t) /\ ~IsHanded(t) /\ t \in Active
      BY <3>1 DEF OneHas, LiveWhileHad
    <3>3. ~IsWorked(t)' /\ ~IsHanded(t)' /\ ~IsWaiting(t)'
      BY <2>2, <3>2 DEF IsWorked, IsWaiting, IsHanded, WorkedBy, HandedBy
    <3>4. \A q \in Processes, n \in Nat : QueuedAt(t, q, n)' => q = p /\ n = Len(queue[p]) + 1
      <4> SUFFICES ASSUME NEW q \in Processes, NEW n \in Nat, QueuedAt(t, q, n)'
                   PROVE  q = p /\ n = Len(queue[p]) + 1
        OBVIOUS
      <4>1. ~QueuedAt(t, q, n)
        BY <3>2 DEF IsQueued
      <4> HIDE DEF QueuedAt
      <4> QED
        BY <2>2, <2>5, <4>1
    <3> QED
      BY <2>4, <2>6, <3>2, <3>3, <3>4 DEF OneHas, LiveWhileHad, IsWorked, IsHanded
  <2>7. CASE r # t
    <3>1. \A q \in Processes, w \in Workers :
            WorkedBy(r, q, w)' => /\ WorkedBy(r, q, w)
                                  /\ worker'[q][w].stage # "audit" => worker[q][w].stage # "audit"
      BY <2>2 DEF WorkedBy
    <3>2. PICK f \in [Processes -> Nat] : f = [q \in Processes |-> 0]
      OBVIOUS
    <3>3. \A q \in Processes, n \in Nat : QueuedAt(r, q, n)' => QueuedAt(r, q, n + f[q])
      <4>1. \A q \in Processes, n \in Nat : n + f[q] = n
        BY <3>2
      <4> HIDE DEF QueuedAt
      <4> QED
        BY <2>5, <2>7, <4>1
    <3>4. \A c \in Callers : HandedBy(r, c)' => HandedBy(r, c)
      BY <2>2 DEF HandedBy
    <3> QED
      BY <2>2, <2>4, <3>1, <3>3, <3>4, Frame DEF Exclusive
  <2> QED
    BY <2>6, <2>7
<1> QED
  BY <1>1, <1>2, <1>3 DEF Recover

\* A crash takes runs away from whoever had them.
LEMMA CrashExcludes ==
  ASSUME IInv, Exclusive, NEW p \in Processes, Crash(p)
  PROVE  Exclusive'
<1> USE DEF IInv
<1>1. /\ queue' = [queue EXCEPT ![p] = <<>>]
      /\ worker' = [worker EXCEPT ![p] = [w \in Workers |-> Idle]]
      /\ pending' \subseteq pending /\ UNCHANGED <<run, taken>>
  BY DEF Crash
<1>2. Active' = Active
  BY <1>1 DEF Active, Known
<1>3. \A c \in Callers : pc'[c] = "idle" \/ (pc'[c] = pc[c] /\ target'[c] = target[c])
  BY DEF Crash
<1> SUFFICES ASSUME NEW r \in Runs \ taken PROVE OneHas(r)' /\ LiveWhileHad(r)'
  BY <1>1 DEF Exclusive
<1>4. PICK f \in [Processes -> Nat] : f = [q \in Processes |-> 0]
  OBVIOUS
<1>5. \A q \in Processes, n \in Nat : QueuedAt(r, q, n)' => QueuedAt(r, q, n + f[q])
  <2>1. \A q \in Processes, n \in Nat : n + f[q] = n
    BY <1>4
  <2>2. queue'[p] = <<>> /\ \A q \in Processes \ {p} : queue'[q] = queue[q]
    BY <1>1 DEF TypeOK
  <2> QED
    BY <2>1, <2>2 DEF QueuedAt
<1>6. \A q \in Processes, w \in Workers :
        WorkedBy(r, q, w)' => /\ WorkedBy(r, q, w)
                              /\ worker'[q][w].stage # "audit" => worker[q][w].stage # "audit"
  <2>1. \A q \in Processes, w \in Workers : worker'[q][w] = IF q = p THEN Idle ELSE worker[q][w]
    BY <1>1 DEF TypeOK
  <2> QED
    BY <2>1, AutomationAssumption DEF WorkedBy, Idle, Runs
<1>7. \A c \in Callers : HandedBy(r, c)' => HandedBy(r, c)
  BY <1>3 DEF HandedBy
<1> QED
  BY <1>1, <1>2, <1>5, <1>6, <1>7, Frame DEF Exclusive

\* Idle workers and a process that is down stay without runs.
LEMMA QuietKept ==
  ASSUME IInv, Quiet, [Next]_vars
  PROVE  Quiet'
<1> USE DEF IInv
<1>0. "api" \in Processes
  BY DEF Processes
<1>1. CASE UNCHANGED <<queue, worker, api>> /\ \A c \in Threads : pc'[c] = "idle" \/ pc'[c] = pc[c] \/ api # "down"
  BY <1>1 DEF Quiet
<1>2. ASSUME NEW c \in Callers,
             \/ Call(c) \/ SubmitLoses(c)
             \/ \E j \in Jobs, trigger \in Triggers : Submit(c, j, trigger)
             \/ \E r \in Runs : Retry(c, r) \/ AckRead(c, r)
      PROVE  Quiet'
  <2>1. UNCHANGED <<worker, api>>
    BY <1>2 DEF Call, Submit, SubmitCheck, SubmitFind, SubmitCreate, SubmitDispatch, SubmitRaise,
                SubmitLoses, Retry, RetrySilence, AckRead, AckWrite, execs, apis
  <2>2. \A d \in Callers : pc'[d] = pc[d] \/ d = c
    BY <1>2 DEF Call, Submit, SubmitCheck, SubmitFind, SubmitCreate, SubmitDispatch, SubmitRaise,
                SubmitLoses, Retry, RetrySilence, AckRead, AckWrite, Goto, Return, TypeOK
  <2>3. c \in Threads => api # "down"
    <3>1. CASE pc[c] # "idle"
      BY <3>1 DEF Quiet
    <3>2. CASE pc[c] = "idle"
      BY <1>2, <3>2, AutomationAssumption
      DEF Call, Submit, SubmitCheck, SubmitFind, SubmitCreate, SubmitDispatch, SubmitRaise,
          SubmitLoses, Retry, RetrySilence, AckRead, AckWrite
    <3> QED
      BY <3>1, <3>2
  <2>4. UNCHANGED queue \/ SubmitDispatch(c)
    BY <1>2 DEF Call, Submit, SubmitCheck, SubmitFind, SubmitCreate, SubmitRaise,
                SubmitLoses, Retry, RetrySilence, AckRead, AckWrite, execs
  <2>5. SubmitDispatch(c) /\ c \notin Threads => queue'["api"] = queue["api"]
    BY <1>0 DEF SubmitDispatch, ProcessOf, Callers, TypeOK
  <2> QED
    BY <2>1, <2>2, <2>3, <2>4, <2>5 DEF Quiet, Callers
<1>3. ASSUME NEW p \in Processes, NEW w \in Workers, Work(p, w) \/ WorkerLoses(p, w)
      PROVE  Quiet'
  <2>1. UNCHANGED <<api, pc>> /\ (worker[p][w].stage # "idle" \/ queue[p] # <<>>)
    BY <1>3 DEF Work, WorkerTake, WorkerStart, WorkerSucceed, WorkerAudit, WorkerFail, WorkerLoses,
                apis, callers
  <2>2. \E r \in 0..MaxRuns, stage \in {"idle", "taken", "running", "audit"} :
          SetWorker(p, w, r, stage) /\ (stage = "idle" <=> r = 0)
    <3>1. CASE WorkerTake(p, w)
      <4>1. Head(queue[p]) \in Runs
        BY <3>1, Dequeued DEF WorkerTake
      <4>2. Head(queue[p]) \in 0..MaxRuns /\ Head(queue[p]) # 0
        BY <4>1, AutomationAssumption DEF Runs
      <4> QED
        BY <3>1, <4>2 DEF WorkerTake
    <3>2. CASE worker[p][w].stage # "idle"
      <4>1. worker[p][w].run \in 0..MaxRuns /\ worker[p][w].run # 0 /\ 0 \in 0..MaxRuns
        BY <3>2, AutomationAssumption DEF TypeOK, Quiet
      <4> QED
        BY <1>3, <3>1, <4>1 DEF Work, WorkerStart, WorkerSucceed, WorkerAudit, WorkerFail, WorkerLoses
    <3> QED
      BY <1>3, <3>1, <3>2 DEF Work, WorkerStart, WorkerSucceed, WorkerAudit, WorkerFail, WorkerLoses
  <2>3. PICK r \in 0..MaxRuns, stage \in {"idle", "taken", "running", "audit"} :
          SetWorker(p, w, r, stage) /\ (stage = "idle" <=> r = 0)
    BY <2>2
  <2>4. /\ worker'[p][w].run = r /\ worker'[p][w].stage = stage
        /\ \A q \in Processes, v \in Workers : <<q, v>> # <<p, w>> => worker'[q][v] = worker[q][v]
    BY <2>3, SetWorkerStep
  <2>5. \A q \in Processes, v \in Workers : worker'[q][v].stage = "idle" <=> worker'[q][v].run = 0
    BY <2>3, <2>4 DEF Quiet
  <2>6. api = "down" => p # "api"
    BY <2>1 DEF Quiet
  <2>7. p # "api" => queue'["api"] = queue["api"]
    BY <1>0, <1>3 DEF Work, WorkerTake, WorkerStart, WorkerSucceed, WorkerAudit, WorkerFail, WorkerLoses, TypeOK
  <2> QED
    BY <1>0, <2>1, <2>4, <2>5, <2>6, <2>7 DEF Quiet
<1>4. CASE Recover
  <2>1. UNCHANGED <<worker, pc>>
    BY <1>4 DEF Recover, ApiStart, RecoverMark, RecoverSubmit, ApiUp, execs, callers
  <2>2. api' = "down" => api = "down" /\ UNCHANGED queue
    BY <1>4 DEF Recover, ApiStart, RecoverMark, RecoverSubmit, ApiUp, execs, Refs
  <2> QED
    BY <2>1, <2>2 DEF Quiet
<1>5. ASSUME NEW p \in Processes, Crash(p) PROVE Quiet'
  <2>1. \A q \in Processes, w \in Workers : worker'[q][w] = IF q = p THEN Idle ELSE worker[q][w]
    BY <1>5 DEF Crash, TypeOK
  <2>2. \A q \in Processes : queue'[q] = IF q = p THEN <<>> ELSE queue[q]
    BY <1>5 DEF Crash, TypeOK
  <2>3. api' = IF p = "api" THEN "down" ELSE api
    BY <1>5 DEF Crash
  <2>4. \A c \in Callers : pc'[c] = IF ProcessOf(c) = p THEN "idle" ELSE pc[c]
    BY <1>5 DEF Crash
  <2>5. \A c \in Threads : c \in Callers /\ ProcessOf(c) = "api"
    BY AutomationAssumption DEF Callers, ProcessOf
  <2> QED
    BY <1>0, <2>1, <2>2, <2>3, <2>4, <2>5 DEF Quiet, Idle
<1>6. CASE \E j \in Jobs : UpdateJob(j)
  BY <1>1, <1>6 DEF UpdateJob, execs, apis, callers
<1>7. CASE UNCHANGED vars
  BY <1>1, <1>7 DEF vars, execs, apis, callers
<1> QED
  BY <1>2, <1>3, <1>4, <1>5, <1>6, <1>7 DEF Next

\* Who has a run, after any step.
LEMMA ExclusiveKept ==
  ASSUME IInv, Quiet, Exclusive, [Next]_vars
  PROVE  Exclusive'
<1>1. ASSUME NEW c \in Callers, Call(c) PROVE Exclusive'
  BY <1>1, CallsExclude, CreateExcludes, DispatchExcludes, RaiseExcludes DEF Call
<1>2. ASSUME NEW p \in Processes, NEW w \in Workers, Work(p, w) PROVE Exclusive'
  BY <1>2, TakeExcludes, WorkExcludes DEF Work
<1>3. CASE UNCHANGED <<run, queue, worker, pending, pc, target, taken>>
  <2>1. Active' = Active
    BY <1>3 DEF Active, Known
  <2> SUFFICES ASSUME NEW r \in Runs \ taken PROVE OneHas(r)' /\ LiveWhileHad(r)'
    BY <1>3 DEF Exclusive
  <2>2. \A p \in Processes, w \in Workers :
          WorkedBy(r, p, w)' => /\ WorkedBy(r, p, w)
                                /\ worker'[p][w].stage # "audit" => worker[p][w].stage # "audit"
    BY <1>3 DEF WorkedBy
  <2>3. \A c \in Callers : HandedBy(r, c)' => HandedBy(r, c)
    BY <1>3 DEF HandedBy
  <2> QED
    BY <1>3, <2>1, <2>2, <2>3, FrameQueues DEF Exclusive
<1>4. CASE UNCHANGED vars \/ \E j \in Jobs : UpdateJob(j)
  BY <1>3, <1>4 DEF vars, UpdateJob, execs, apis, callers, notes
<1>5. CASE Next
  BY <1>1, <1>2, <1>4, <1>5, CallsExclude, WorkExcludes, RecoverExcludes, CrashExcludes DEF Next
<1> QED
  BY <1>4, <1>5

-----------------------------------------------------------------------------
\* Both invariants together.
XInv == IInv /\ Quiet /\ Exclusive

LEMMA InitX == Init => XInv
<1> SUFFICES ASSUME Init PROVE Quiet /\ Exclusive
  BY InitInv DEF XInv
<1>1. \A r \in Runs : r # 0
  BY AutomationAssumption DEF Runs
<1>2. Quiet
  BY DEF Init, Quiet, Idle, Callers, Processes
<1>3. Exclusive
  BY <1>1 DEF Init, Exclusive, OneHas, LiveWhileHad, IsQueued, IsWorked, IsHanded, IsWaiting,
              QueuedAt, WorkedBy, HandedBy, Idle
<1> QED
  BY <1>2, <1>3

LEMMA StepX == XInv /\ [Next]_vars => XInv'
  BY StepInv, QuietKept, ExclusiveKept DEF XInv

\* A set with no two elements has one at most.
LEMMA AtMostOne ==
  ASSUME NEW S, \A x, y \in S : x = y
  PROVE  Cardinality(S) \in {0, 1} /\ (S = {} => Cardinality(S) = 0)
<1>1. CASE S = {}
  BY <1>1, FS_EmptySet
<1>2. CASE S # {}
  <2>1. PICK x \in S : TRUE
    BY <1>2
  <2>2. S = {x}
    BY <2>1
  <2> QED
    BY <1>2, <2>2, FS_Singleton
<1> QED
  BY <1>1, <1>2

\* A run has one executor, and one place there, unless the API took it up from
\* the scheduler.
THEOREM OneExecutorPerRun == Spec => []OneExecutor
<1>1. XInv => OneExecutor
  <2> SUFFICES ASSUME XInv, NEW r \in Runs \ taken
               PROVE  Cardinality({q \in Processes \X (1..MaxRuns) : q[2] <= Len(queue[q[1]]) /\ queue[q[1]][q[2]] = r})
                      + Cardinality({x \in Processes \X Workers : worker[x[1]][x[2]].run = r})
                      + Cardinality({c \in Callers : pc[c] = "dispatch" /\ target[c] = r}) <= 1
    BY DEF OneExecutor
  <2> DEFINE A == {q \in Processes \X (1..MaxRuns) : q[2] <= Len(queue[q[1]]) /\ queue[q[1]][q[2]] = r}
             B == {x \in Processes \X Workers : worker[x[1]][x[2]].run = r}
             C == {c \in Callers : pc[c] = "dispatch" /\ target[c] = r}
  <2>1. OneHas(r)
    BY DEF XInv, Exclusive
  <2>2. \A q \in A : q[1] \in Processes /\ q[2] \in Nat /\ QueuedAt(r, q[1], q[2]) /\ q = <<q[1], q[2]>>
    <3> SUFFICES ASSUME NEW q \in A
                 PROVE  q[1] \in Processes /\ q[2] \in Nat /\ QueuedAt(r, q[1], q[2]) /\ q = <<q[1], q[2]>>
      OBVIOUS
    <3>1. q[1] \in Processes /\ q[2] \in 1..MaxRuns /\ q = <<q[1], q[2]>>
      OBVIOUS
    <3>2. queue[q[1]] \in Seq(Runs)
      BY <3>1 DEF XInv, IInv, TypeOK
    <3>3. Len(queue[q[1]]) \in Nat /\ MaxRuns \in Nat
      BY <3>2, AutomationAssumption
    <3> QED
      BY <3>1, <3>3 DEF QueuedAt
  <2>3. \A x \in B : x[1] \in Processes /\ x[2] \in Workers /\ WorkedBy(r, x[1], x[2]) /\ x = <<x[1], x[2]>>
    BY DEF WorkedBy
  <2>4. \A c \in C : c \in Callers /\ HandedBy(r, c)
    BY DEF HandedBy
  <2> HIDE DEF A, B, C
  <2>5. \A x, y \in A : x = y
    <3> HIDE DEF QueuedAt
    <3> QED
      BY <2>1, <2>2 DEF OneHas
  <2>6. \A x, y \in B : x = y
    <3> HIDE DEF WorkedBy
    <3> QED
      BY <2>1, <2>3 DEF OneHas
  <2>7. \A x, y \in C : x = y
    BY <2>1, <2>4 DEF OneHas
  <2>8. (A # {} => B = {} /\ C = {}) /\ (B # {} => C = {})
    <3> HIDE DEF QueuedAt, WorkedBy, HandedBy
    <3>1. (A # {} => IsQueued(r)) /\ (B # {} => IsWorked(r)) /\ (C # {} => IsHanded(r))
      BY <2>2, <2>3, <2>4 DEF IsQueued, IsWorked, IsHanded
    <3> QED
      BY <2>1, <3>1 DEF OneHas
  <2>9. /\ Cardinality(A) \in {0, 1} /\ (A = {} => Cardinality(A) = 0)
        /\ Cardinality(B) \in {0, 1} /\ (B = {} => Cardinality(B) = 0)
        /\ Cardinality(C) \in {0, 1} /\ (C = {} => Cardinality(C) = 0)
    BY <2>5, <2>6, <2>7, AtMostOne
  <2>10. Cardinality(A) + Cardinality(B) + Cardinality(C) <= 1
    BY <2>8, <2>9
  <2> QED
    BY <2>10 DEF A, B, C
<1> QED
  BY <1>1, InitX, StepX, PTL DEF Spec
-----------------------------------------------------------------------------
\* What a step does to the table of runs.  Who sets a status has a run that is
\* not over, or one the API took from the scheduler, or lets it fail.
Written ==
  \/ UNCHANGED run
  \/ \E c \in Callers : SubmitCreate(c)
  \/ \E c \in Callers : pc[c] = "silence" /\ request[c].parent \in Known /\ Acknowledge(request[c].parent)
  \/ \E c \in Callers : pc[c] = "ack" /\ target[c] \in Known /\ Acknowledge(target[c])
  \/ \E r \in Known, s \in {"queued", "running", "succeeded", "failed"} :
       SetStatus(r, s) /\ (r \in Active \/ r \in taken \/ s = "failed")

LEMMA EveryWrite ==
  ASSUME XInv, [Next]_vars
  PROVE  Written
<1> USE DEF XInv, IInv
<1>1. ASSUME NEW c \in Callers, Call(c) \/ SubmitLoses(c) PROVE Written
  <2>1. CASE SubmitCreate(c)
    BY <2>1 DEF Written
  <2>2. CASE SubmitRaise(c)
    <3>1. target[c] \in Known /\ SetStatus(target[c], "failed")
      BY <2>2 DEF SubmitRaise, Refs
    <3> QED
      BY <3>1 DEF Written
  <2>3. CASE RetrySilence(c)
    <3>1. pc[c] = "silence" /\ request[c].parent \in Known /\ Acknowledge(request[c].parent)
      BY <2>3 DEF RetrySilence, Refs
    <3> QED
      BY <3>1 DEF Written
  <2>4. CASE AckWrite(c)
    <3>1. pc[c] = "ack" /\ target[c] \in Known /\ Acknowledge(target[c])
      BY <2>4 DEF AckWrite, Refs
    <3> QED
      BY <3>1 DEF Written
  <2>5. CASE SubmitCheck(c) \/ SubmitFind(c) \/ SubmitDispatch(c) \/ SubmitLoses(c)
    BY <2>5 DEF SubmitCheck, SubmitFind, SubmitDispatch, SubmitLoses, Written
  <2> QED
    BY <1>1, <2>1, <2>2, <2>3, <2>4, <2>5 DEF Call
<1>2. ASSUME NEW p \in Processes, NEW w \in Workers, Work(p, w) \/ WorkerLoses(p, w) PROVE Written
  <2>1. CASE WorkerStart(p, w) \/ WorkerSucceed(p, w) \/ WorkerFail(p, w)
    <3>1. PICK r \in Known : r = worker[p][w].run
      BY <2>1 DEF WorkerStart, WorkerSucceed, WorkerFail, Refs
    <3>2. \/ SetStatus(r, "failed")
          \/ worker[p][w].stage # "audit" /\ \E s \in {"running", "succeeded"} : SetStatus(r, s)
      BY <2>1, <3>1 DEF WorkerStart, WorkerSucceed, WorkerFail
    <3>3. worker[p][w].stage # "audit" => r \in Active \/ r \in taken
      BY <3>1 DEF Exclusive, LiveWhileHad, WorkedBy, Known
    <3> QED
      BY <3>2, <3>3 DEF Written
  <2>2. CASE WorkerTake(p, w) \/ WorkerAudit(p, w) \/ WorkerLoses(p, w)
    BY <2>2 DEF WorkerTake, WorkerAudit, WorkerLoses, Written
  <2> QED
    BY <1>2, <2>1, <2>2 DEF Work
<1>3. CASE Recover
  <2>1. ASSUME NEW r \in Runs, RecoverMark(r) PROVE Written
    <3>1. r \in Known /\ r \in pending /\ SetStatus(r, "queued")
      BY <2>1 DEF RecoverMark, Refs
    <3>2. r \in Active \/ r \in taken
      BY <3>1 DEF Exclusive, LiveWhileHad, IsWaiting, Known
    <3> QED
      BY <3>1, <3>2 DEF Written
  <2>2. CASE ApiStart \/ RecoverSubmit \/ ApiUp
    BY <2>2 DEF ApiStart, RecoverSubmit, ApiUp, Written
  <2> QED
    BY <1>3, <2>1, <2>2 DEF Recover
<1>4. ASSUME \/ \E c \in Callers, j \in Jobs, trigger \in Triggers : Submit(c, j, trigger)
             \/ \E c \in Callers, r \in Runs : Retry(c, r) \/ AckRead(c, r)
             \/ \E j \in Jobs : UpdateJob(j)
             \/ \E p \in Processes : Crash(p)
             \/ UNCHANGED vars
      PROVE  Written
  BY <1>4 DEF Submit, Retry, AckRead, UpdateJob, Crash, vars, Written
<1> QED
  BY <1>1, <1>2, <1>3, <1>4 DEF Next

\* SubmitCreate fills a row that was free.
LEMMA CreateFields ==
  ASSUME TypeOK, NEW c \in Callers, SubmitCreate(c)
  PROVE  \A q \in Known : run'[q] = run[q]
  BY DEF SubmitCreate, TypeOK, Known

\* A run that is over stays over, but for a success whose audit fails and for a
\* run the API took up from the scheduler.
THEOREM OverRunsStayOver == Spec => OverIsOver
<1>1. ASSUME XInv, [Next]_vars
      PROVE  \A r \in Ended \ taken :
               \/ run'[r].status = run[r].status
               \/ run[r].status = "succeeded" /\ run'[r].status = "failed"
  <2> USE <1>1 DEF XInv, IInv
  <2> SUFFICES ASSUME NEW r \in Ended \ taken
               PROVE  \/ run'[r].status = run[r].status
                      \/ run[r].status = "succeeded" /\ run'[r].status = "failed"
    OBVIOUS
  <2>1. r \in Known /\ r \in Runs /\ r \notin Active /\ run[r].status \in {"succeeded", "failed"}
    BY DEF Ended, Active, Known, TypeOK, RunRow
  <2>2. ASSUME NEW t \in Known, Acknowledge(t) PROVE run'[r].status = run[r].status
    <3>1. /\ \A q \in Runs \ {t} : run'[q] = run[q]
          /\ run'[t] = [job |-> run[t].job, trigger |-> run[t].trigger, attempt |-> run[t].attempt,
                        parent |-> run[t].parent, status |-> run[t].status, acked |-> TRUE]
      BY <2>2, AcknowledgeFields
    <3>2. run'[t].status = run[t].status
      BY <3>1
    <3> QED
      BY <2>1, <3>1, <3>2
  <2>3. ASSUME NEW t \in Known, NEW s \in {"queued", "running", "succeeded", "failed"}, SetStatus(t, s),
               t \in Active \/ t \in taken \/ s = "failed"
        PROVE  run'[r].status = run[r].status \/ run'[r].status = "failed"
    <3>1. /\ \A q \in Runs \ {t} : run'[q] = run[q]
          /\ run'[t] = [job |-> run[t].job, trigger |-> run[t].trigger, attempt |-> run[t].attempt,
                        parent |-> run[t].parent, status |-> s, acked |-> run[t].acked]
      BY <2>3, SetStatusFields
    <3>2. run'[t].status = s
      BY <3>1
    <3>3. t = r => s = "failed"
      BY <2>1, <2>3
    <3> QED
      BY <2>1, <3>1, <3>2, <3>3
  <2>4. ASSUME NEW c \in Callers, SubmitCreate(c) PROVE run'[r] = run[r]
    BY <2>1, <2>4, CreateFields
  <2> QED
    BY <2>1, <2>2, <2>3, <2>4, EveryWrite DEF Written
<1>2. XInv /\ [Next]_vars =>
        [\A r \in Ended \ taken :
               \/ run'[r].status = run[r].status
               \/ run[r].status = "succeeded" /\ run'[r].status = "failed"]_vars
  BY <1>1
<1> QED
  BY <1>2, InitX, StepX, PTL DEF Spec, OverIsOver
-----------------------------------------------------------------------------
\* What may become of one run in a step.
Kin(r) ==
  /\ r \in Known'
  /\ run'[r].job = run[r].job /\ run'[r].trigger = run[r].trigger
  /\ run'[r].attempt = run[r].attempt /\ run'[r].parent = run[r].parent
Lasting(r) ==
  /\ run[r].acked => run'[r].acked
  /\ r \notin taken /\ run[r].status = "failed" => run'[r].status = "failed"
  /\ r \notin taken /\ r \in Active' => r \in Active
Acks(c, r) ==
  \/ pc[c] = "silence" /\ request[c].parent = r
  \/ pc[c] = "ack" /\ target[c] = r
\* The next free row is filled with what was asked for.
Creates(c, r) ==
  /\ pc[c] = "create" /\ pc'[c] = "dispatch" /\ r \in Runs /\ r \notin Known /\ Known' = Known \cup {r}
  /\ \A s \in 1..(r - 1) : s \in Runs => s \in Known
  /\ run'[r].job = request[c].job /\ run'[r].trigger = request[c].trigger
  /\ run'[r].attempt = request[c].attempt /\ run'[r].parent = request[c].parent
  /\ run'[r].acked = FALSE

LEMMA AcknowledgeKin ==
  ASSUME XInv, NEW t \in Known, Acknowledge(t)
  PROVE  /\ Known' = Known
         /\ \A r \in Known : Kin(r) /\ Lasting(r) /\ (run'[r].acked => run[r].acked \/ r = t)
<1> USE DEF XInv, IInv
<1>1. Known' = Known /\ Active' = Active
  BY AcknowledgeStep
<1>2. /\ \A q \in Runs \ {t} : run'[q] = run[q]
      /\ run'[t] = [job |-> run[t].job, trigger |-> run[t].trigger, attempt |-> run[t].attempt,
                    parent |-> run[t].parent, status |-> run[t].status, acked |-> TRUE]
  BY AcknowledgeFields
<1>3. /\ run'[t].job = run[t].job /\ run'[t].trigger = run[t].trigger
      /\ run'[t].attempt = run[t].attempt /\ run'[t].parent = run[t].parent
      /\ run'[t].status = run[t].status /\ run'[t].acked
  BY <1>2
<1> SUFFICES ASSUME NEW r \in Known PROVE Kin(r) /\ Lasting(r) /\ (run'[r].acked => run[r].acked \/ r = t)
  BY <1>1
<1>4. CASE r = t
  BY <1>1, <1>3, <1>4 DEF Kin, Lasting
<1>5. CASE r # t
  <2>1. run'[r] = run[r]
    BY <1>2, <1>5 DEF Known
  <2> QED
    BY <1>1, <2>1 DEF Kin, Lasting
<1> QED
  BY <1>4, <1>5

LEMMA SetStatusKin ==
  ASSUME XInv, NEW t \in Known, NEW s \in {"queued", "running", "succeeded", "failed"}, SetStatus(t, s),
         t \in Active \/ t \in taken \/ s = "failed"
  PROVE  /\ Known' = Known
         /\ \A r \in Known : Kin(r) /\ Lasting(r) /\ (run'[r].acked => run[r].acked)
<1> USE DEF XInv, IInv
<1>1. /\ Known' = Known /\ Active' \subseteq Active \cup {t}
      /\ s \notin {"queued", "running"} => Active' \subseteq Active \ {t}
  BY SetStatusStep
<1>2. /\ \A q \in Runs \ {t} : run'[q] = run[q]
      /\ run'[t] = [job |-> run[t].job, trigger |-> run[t].trigger, attempt |-> run[t].attempt,
                    parent |-> run[t].parent, status |-> s, acked |-> run[t].acked]
  BY SetStatusFields
<1>3. /\ run'[t].job = run[t].job /\ run'[t].trigger = run[t].trigger
      /\ run'[t].attempt = run[t].attempt /\ run'[t].parent = run[t].parent
      /\ run'[t].status = s /\ run'[t].acked = run[t].acked
  BY <1>2
<1> SUFFICES ASSUME NEW r \in Known PROVE Kin(r) /\ Lasting(r) /\ (run'[r].acked => run[r].acked)
  BY <1>1
<1>4. CASE r = t
  <2>1. r \notin taken /\ run[r].status = "failed" => s = "failed"
    BY <1>4 DEF Active
  <2>2. r \notin taken /\ r \in Active' => r \in Active
    BY <1>1, <1>4
  <2> QED
    BY <1>1, <1>3, <1>4, <2>1, <2>2 DEF Kin, Lasting
<1>5. CASE r # t
  <2>1. run'[r] = run[r] /\ (r \in Active' => r \in Active)
    BY <1>1, <1>2, <1>5 DEF Known
  <2> QED
    BY <1>1, <2>1 DEF Kin, Lasting
<1> QED
  BY <1>4, <1>5

LEMMA CreateKin ==
  ASSUME XInv, NEW c \in Callers, SubmitCreate(c)
  PROVE  /\ \E r \in Runs : Creates(c, r)
         /\ \A r \in Known : Kin(r) /\ Lasting(r) /\ (run'[r].acked => run[r].acked)
<1> USE DEF XInv, IInv
<1>1. PICK r \in Runs :
        /\ run[r] = None /\ \A s \in 1..(r - 1) : run[s] # None
        /\ run' = [run EXCEPT ![r] =
             [job |-> request[c].job, trigger |-> request[c].trigger,
              attempt |-> request[c].attempt, parent |-> request[c].parent,
              status |-> "queued", acked |-> FALSE]]
  BY DEF SubmitCreate
<1>2. pc[c] = "create" /\ pc'[c] = "dispatch" /\ request[c] \in Request
  BY DEF SubmitCreate, Refs, Goto, TypeOK
<1>3. run'[r] = [job |-> request[c].job, trigger |-> request[c].trigger,
                 attempt |-> request[c].attempt, parent |-> request[c].parent,
                 status |-> "queued", acked |-> FALSE]
      /\ \A q \in Runs \ {r} : run'[q] = run[q]
  BY <1>1 DEF TypeOK
<1>4. run'[r] \in RunRow
  BY <1>2, <1>3 DEF Request, RunRow
<1>5. Known' = Known \cup {r} /\ r \notin Known
  BY <1>1, <1>3, <1>4, AutomationAssumption DEF Known
<1>6. Creates(c, r)
  <2>1. \A s \in 1..(r - 1) : s \in Runs => s \in Known
    BY <1>1 DEF Known
  <2>2. /\ run'[r].job = request[c].job /\ run'[r].trigger = request[c].trigger
        /\ run'[r].attempt = request[c].attempt /\ run'[r].parent = request[c].parent
        /\ run'[r].acked = FALSE
    BY <1>3
  <2> QED
    BY <1>2, <1>5, <2>1, <2>2 DEF Creates
<1>7. \A q \in Known : run'[q] = run[q] /\ q \in Known' /\ (q \in Active' => q \in Active)
  BY <1>3, <1>5 DEF Known, Active
<1> QED
  BY <1>6, <1>7 DEF Kin, Lasting

\* What a step does to the table: what it leaves alone, and who writes the rest.
LEMMA TableStep ==
  ASSUME XInv, [Next]_vars
  PROVE  /\ \A r \in Known : Kin(r) /\ Lasting(r)
         /\ \A r \in Known : run'[r].acked => run[r].acked \/ \E c \in Callers : Acks(c, r)
         /\ Known' = Known \/ \E c \in Callers, r \in Runs : Creates(c, r)
<1>1. CASE UNCHANGED run
  <2>1. Known' = Known /\ Active' = Active
    BY <1>1 DEF Known, Active
  <2> QED
    BY <1>1, <2>1 DEF Kin, Lasting
<1>2. ASSUME NEW c \in Callers, SubmitCreate(c)
      PROVE  /\ \A r \in Known : Kin(r) /\ Lasting(r) /\ (run'[r].acked => run[r].acked)
             /\ \E r \in Runs : Creates(c, r)
  BY <1>2, CreateKin
<1>3. ASSUME NEW c \in Callers, NEW t \in Known, Acks(c, t), Acknowledge(t)
      PROVE  /\ \A r \in Known : Kin(r) /\ Lasting(r) /\ (run'[r].acked => run[r].acked \/ Acks(c, r))
             /\ Known' = Known
  <2>1. /\ \A r \in Known : Kin(r) /\ Lasting(r) /\ (run'[r].acked => run[r].acked \/ r = t)
        /\ Known' = Known
    BY <1>3, AcknowledgeKin
  <2> HIDE DEF Acks, Kin, Lasting
  <2> QED
    BY <1>3, <2>1
<1>4. ASSUME NEW t \in Known, NEW s \in {"queued", "running", "succeeded", "failed"}, SetStatus(t, s),
             t \in Active \/ t \in taken \/ s = "failed"
      PROVE  /\ \A r \in Known : Kin(r) /\ Lasting(r) /\ (run'[r].acked => run[r].acked)
             /\ Known' = Known
  BY <1>4, SetStatusKin
<1>5. \/ UNCHANGED run
      \/ \E c \in Callers : SubmitCreate(c)
      \/ \E c \in Callers, t \in Known : Acks(c, t) /\ Acknowledge(t)
      \/ \E t \in Known, s \in {"queued", "running", "succeeded", "failed"} :
           SetStatus(t, s) /\ (t \in Active \/ t \in taken \/ s = "failed")
  BY EveryWrite DEF Written, Acks
<1> HIDE DEF Kin, Lasting, Acks, Creates
<1> QED
  BY <1>1, <1>2, <1>3, <1>4, <1>5

\* What becomes of a call that is on its way to a new run or to an
\* acknowledgement.
Same(c) == request'[c] = request[c] /\ target'[c] = target[c]
CallMoves(c) ==
  \/ pc'[c] \in {"idle", "dispatch"}
  \/ pc'[c] = pc[c] /\ Same(c)
  \/ pc[c] = "check" /\ Same(c) /\ pc'[c] = IF request[c].trigger = "scheduled" THEN "find" ELSE "create"
  \/ pc[c] = "find" /\ pc'[c] = "create" /\ Same(c) /\ UNCHANGED run /\ ActiveScheduled(request[c].job) = {}
  \/ pc[c] = "silence" /\ pc'[c] = "check" /\ Same(c) /\ Acknowledge(request[c].parent)
  \/ pc'[c] = "check" /\ request'[c].parent = 0
       /\ (request'[c].trigger = "scheduled" => c \in Jobs /\ request'[c].job = c)
  \/ \E r \in Known :
       /\ run[r].status = "failed" /\ UNCHANGED run
       /\ request'[c].parent = r /\ request'[c].trigger = "retry"
       /\ request'[c].job = run[r].job /\ request'[c].attempt = run[r].attempt + 1
       /\ pc'[c] = "silence" \/ (pc'[c] = "check" /\ run[r].acked)
  \/ UNCHANGED run /\ pc'[c] = "ack" /\ target'[c] \in Known /\ run[target'[c]].status = "failed"

LEMMA CallStep ==
  ASSUME XInv, [Next]_vars, NEW d \in Callers
  PROVE  CallMoves(d)
<1> USE DEF XInv, IInv
<1>0. /\ pc \in [Callers -> {"idle", "check", "find", "create", "dispatch", "silence", "ack"}]
      /\ request \in [Callers -> {None} \cup Request] /\ target \in [Callers -> 0..MaxRuns]
  BY DEF TypeOK
<1>1. CASE UNCHANGED callers
  BY <1>1 DEF callers, CallMoves, Same
<1>2. ASSUME NEW c \in Callers, c # d,
             \/ Call(c) \/ SubmitLoses(c)
             \/ \E j \in Jobs, trigger \in Triggers : Submit(c, j, trigger)
             \/ \E r \in Runs : Retry(c, r) \/ AckRead(c, r)
      PROVE  CallMoves(d)
  <2>1. pc'[d] = pc[d] /\ request'[d] = request[d] /\ target'[d] = target[d]
    BY <1>0, <1>2 DEF Call, Submit, SubmitCheck, SubmitFind, SubmitCreate, SubmitDispatch, SubmitRaise,
                SubmitLoses, Retry, RetrySilence, AckRead, AckWrite, Goto, Return
  <2> QED
    BY <2>1 DEF CallMoves, Same
<1>3. ASSUME NEW j \in Jobs, NEW trigger \in Triggers, Submit(d, j, trigger) PROVE CallMoves(d)
  <2>1. pc'[d] = "check" /\ request'[d] = [job |-> j, trigger |-> trigger, attempt |-> 1, parent |-> 0]
        /\ (trigger = "scheduled" => d \in Jobs /\ j = d)
    BY <1>0, <1>3 DEF Submit, Goto
  <2>2. request'[d].parent = 0 /\ request'[d].trigger = trigger /\ request'[d].job = j
    BY <2>1
  <2> QED
    BY <2>1, <2>2 DEF CallMoves
<1>4. CASE SubmitCheck(d)
  <2>1. CASE Return(d)
    BY <1>0, <2>1 DEF Return, Goto, CallMoves
  <2>2. CASE UNCHANGED <<request, target>> /\ Goto(d, IF request[d].trigger = "scheduled" THEN "find" ELSE "create")
    BY <1>0, <1>4, <2>2 DEF SubmitCheck, Goto, CallMoves, Same
  <2> QED
    BY <1>4, <2>1, <2>2 DEF SubmitCheck
<1>5. CASE SubmitFind(d)
  <2>1. CASE Return(d)
    BY <1>0, <2>1 DEF Return, Goto, CallMoves
  <2>2. CASE ActiveScheduled(request[d].job) = {} /\ UNCHANGED <<request, target>> /\ Goto(d, "create")
    BY <1>0, <1>5, <2>2 DEF SubmitFind, Goto, CallMoves, Same
  <2> QED
    BY <1>5, <2>1, <2>2 DEF SubmitFind
<1>6. CASE RetrySilence(d)
  BY <1>0, <1>6 DEF RetrySilence, Goto, CallMoves, Same
<1>7. ASSUME NEW r \in Runs, Retry(d, r) PROVE CallMoves(d)
  <2>1. request'[d] = [job |-> run[r].job, trigger |-> "retry", attempt |-> run[r].attempt + 1, parent |-> r]
        /\ UNCHANGED run /\ r \in Known /\ run[r].status = "failed"
        /\ pc'[d] = IF NeedsAck(r) THEN "silence" ELSE "check"
    BY <1>0, <1>7 DEF Retry, Goto
  <2>2. /\ request'[d].parent = r /\ request'[d].trigger = "retry"
        /\ request'[d].job = run[r].job /\ request'[d].attempt = run[r].attempt + 1
    BY <2>1
  <2>3. pc'[d] = "silence" \/ (pc'[d] = "check" /\ run[r].acked)
    BY <2>1 DEF NeedsAck
  <2> QED
    BY <2>1, <2>2, <2>3 DEF CallMoves
<1>8. ASSUME NEW r \in Runs, AckRead(d, r) PROVE CallMoves(d)
  BY <1>0, <1>8 DEF AckRead, Goto, CallMoves
<1>9. CASE SubmitCreate(d) \/ SubmitDispatch(d) \/ SubmitRaise(d) \/ SubmitLoses(d) \/ AckWrite(d)
  BY <1>0, <1>9 DEF SubmitCreate, SubmitDispatch, SubmitRaise, SubmitLoses, AckWrite, Return, Goto, CallMoves
<1>10. ASSUME NEW p \in Processes, Crash(p) PROVE CallMoves(d)
  <2>1. pc'[d] = "idle" \/ (pc'[d] = pc[d] /\ request'[d] = request[d] /\ target'[d] = target[d])
    BY <1>10 DEF Crash
  <2> QED
    BY <2>1 DEF CallMoves, Same
<1>11. CASE \/ \E p \in Processes, w \in Workers : Work(p, w) \/ WorkerLoses(p, w)
            \/ Recover \/ \E j \in Jobs : UpdateJob(j)
  BY <1>1, <1>11 DEF Work, WorkerTake, WorkerStart, WorkerSucceed, WorkerAudit, WorkerFail, WorkerLoses,
                     Recover, ApiStart, RecoverMark, RecoverSubmit, ApiUp, UpdateJob
<1>12. CASE UNCHANGED vars
  BY <1>1, <1>12 DEF vars
<1>13. ASSUME NEW c \in Callers,
             \/ Call(c) \/ SubmitLoses(c)
             \/ \E j \in Jobs, trigger \in Triggers : Submit(c, j, trigger)
             \/ \E r \in Runs : Retry(c, r) \/ AckRead(c, r)
       PROVE CallMoves(d)
  <2>1. CASE c = d
    BY <1>3, <1>4, <1>5, <1>6, <1>7, <1>8, <1>9, <1>13, <2>1 DEF Call
  <2> QED
    BY <1>2, <1>13, <2>1
<1> QED
  BY <1>10, <1>11, <1>12, <1>13 DEF Next
\* A run the API took stays one it took.
LEMMA TakenGrows ==
  ASSUME [Next]_vars
  PROVE  taken \subseteq taken'
<1>1. CASE UNCHANGED taken
  BY <1>1
<1>2. CASE ApiStart
  BY <1>2 DEF ApiStart
<1>3. CASE UNCHANGED notes \/ UNCHANGED vars
  BY <1>1, <1>3 DEF notes, vars
<1>4. ASSUME NEW c \in Callers, Call(c) \/ SubmitLoses(c) PROVE UNCHANGED taken
  BY <1>4 DEF Call, SubmitCheck, SubmitFind, SubmitCreate, SubmitDispatch, SubmitRaise, RetrySilence,
              AckWrite, SubmitLoses, notes
<1>5. ASSUME NEW p \in Processes, NEW w \in Workers, Work(p, w) \/ WorkerLoses(p, w) PROVE UNCHANGED taken
  BY <1>5 DEF Work, WorkerTake, WorkerStart, WorkerSucceed, WorkerAudit, WorkerFail, WorkerLoses, notes
<1>6. CASE \/ \E c \in Callers, j \in Jobs, trigger \in Triggers : Submit(c, j, trigger)
           \/ \E c \in Callers, r \in Runs : Retry(c, r) \/ AckRead(c, r)
           \/ \E j \in Jobs : UpdateJob(j)
           \/ \E p \in Processes : Crash(p)
  BY <1>1, <1>6 DEF Submit, Retry, AckRead, UpdateJob, Crash, notes
<1>7. CASE Recover
  BY <1>1, <1>2, <1>7 DEF Recover, RecoverMark, RecoverSubmit, ApiUp, notes
<1> QED
  BY <1>1, <1>3, <1>4, <1>5, <1>6, <1>7 DEF Next

-----------------------------------------------------------------------------
\* What a call is about to write follows from the run it has read: that run is
\* still there, still failed unless the API took it, and acknowledged once the
\* call is past that.
Failed(r) == r \in taken \/ run[r].status = "failed"
Follows(job, attempt, parent) ==
  parent # 0 => parent \in Known /\ job = run[parent].job /\ attempt = run[parent].attempt + 1
Promised(c) ==
  /\ pc[c] \in {"check", "find", "create", "silence"} =>
       Follows(request[c].job, request[c].attempt, request[c].parent)
  /\ pc[c] \in {"check", "find", "create"} /\ request[c].parent # 0 => run[request[c].parent].acked
  /\ pc[c] = "silence" => request[c].parent \in Known /\ Failed(request[c].parent)
  /\ pc[c] = "ack" => target[c] \in Known /\ Failed(target[c])
Followed(r) ==
  /\ Follows(run[r].job, run[r].attempt, run[r].parent)
  /\ run[r].parent # 0 => run[r].parent < r /\ run[run[r].parent].acked
  /\ run[r].acked => Failed(r)
RetryInv ==
  /\ \A r \in Known : \A s \in 1..(r - 1) : s \in Runs => s \in Known
  /\ \A r \in Known : Followed(r)
  /\ \A c \in Callers : Promised(c)

\* What was read of a run stays true of it.
LEMMA ReadLasts ==
  ASSUME XInv, [Next]_vars, NEW r \in Known
  PROVE  /\ r \in Known' /\ run'[r].job = run[r].job /\ run'[r].attempt = run[r].attempt
         /\ run'[r].parent = run[r].parent
         /\ run[r].acked => run'[r].acked
         /\ Failed(r) => Failed(r)'
  BY TableStep, TakenGrows DEF Kin, Lasting, Failed

\* A run found too old when the API started stays that old.
Old == \A r \in beyond : Cardinality(Newer(r)) >= Window

LEMMA BeyondStep ==
  ASSUME [Next]_vars
  PROVE  beyond' \subseteq beyond \cup {r \in lost : Cardinality(Newer(r)) >= Window}
<1>1. CASE UNCHANGED vars
  BY <1>1 DEF vars, notes
<1>2. ASSUME NEW c \in Callers, Call(c) \/ SubmitLoses(c) PROVE UNCHANGED beyond
  BY <1>2 DEF Call, SubmitCheck, SubmitFind, SubmitCreate, SubmitDispatch, SubmitRaise,
              RetrySilence, AckWrite, SubmitLoses, notes
<1>3. ASSUME NEW p \in Processes, NEW w \in Workers, Work(p, w) \/ WorkerLoses(p, w)
      PROVE  UNCHANGED beyond
  BY <1>3 DEF Work, WorkerTake, WorkerStart, WorkerSucceed, WorkerAudit, WorkerFail, WorkerLoses, notes
<1>4. CASE \/ \E c \in Callers, j \in Jobs, trigger \in Triggers : Submit(c, j, trigger)
           \/ \E c \in Callers, r \in Runs : Retry(c, r) \/ AckRead(c, r)
           \/ \E j \in Jobs : UpdateJob(j)
           \/ \E p \in Processes : Crash(p)
  BY <1>4 DEF Submit, Retry, AckRead, UpdateJob, Crash, notes
<1>5. CASE ApiStart
  BY <1>5 DEF ApiStart
<1>6. CASE (\E r \in Runs : RecoverMark(r)) \/ RecoverSubmit \/ ApiUp
  BY <1>6 DEF RecoverMark, RecoverSubmit, ApiUp, notes
<1> QED
  BY <1>1, <1>2, <1>3, <1>4, <1>5, <1>6 DEF Next, Recover

LEMMA OldKept ==
  ASSUME XInv, Old, [Next]_vars
  PROVE  Old'
<1> SUFFICES ASSUME NEW r \in beyond' PROVE Cardinality(Newer(r)') >= Window
  BY DEF Old
<1>1. r \in Runs /\ Cardinality(Newer(r)) >= Window
  BY BeyondStep DEF Old, XInv, IInv, TypeOK
<1>2. Newer(r) \subseteq Newer(r)' /\ Newer(r)' \subseteq Runs
  BY ReadLasts DEF Newer, Known
<1>3. IsFiniteSet(Newer(r)')
  <2>1. IsFiniteSet(Runs)
    BY FS_Interval, AutomationAssumption DEF Runs
  <2> QED
    BY <1>2, <2>1, FS_Subset
<1> DEFINE S == Newer(r)
           T == Newer(r)'
<1> HIDE DEF S, T
<1>4. Cardinality(S) <= Cardinality(T) /\ Cardinality(S) \in Nat /\ Cardinality(T) \in Nat
  BY <1>2, <1>3, FS_Subset, FS_CardinalityType DEF S, T
<1> QED
  BY <1>1, <1>4, AutomationAssumption DEF S, T

\* No unfinished run is forgotten: an executor or a caller has it, the API is
\* about to take it up, what had it was lost after the API last started, or
\* there were Window newer ones when it did.
THEOREM NoRunForgotten == Spec => []NoneForgotten
<1>1. IInv /\ Old => NoneForgotten
  <2> SUFFICES ASSUME IInv, Old, NEW r \in Active
               PROVE  r \in Held("api") \cup Held("scheduler") \cup pending \cup lost \cup beyond
    BY DEF NoneForgotten, Old
  <2>1. Somewhere(r) /\ r # 0
    BY AutomationAssumption DEF IInv, Kept, Active, Known, Runs
  <2>2. \A p \in Processes : p \in {"api", "scheduler"}
    BY DEF Processes
  <2>3. ASSUME NEW p \in Processes, NEW n \in 1..Len(queue[p]), queue[p][n] = r PROVE r \in Held(p)
    BY <2>3 DEF Held, Queued
  <2>4. ASSUME NEW p \in Processes, NEW w \in Workers, worker[p][w].run = r PROVE r \in Held(p)
    BY <2>1, <2>4 DEF Held, Working
  <2>5. ASSUME NEW c \in Callers, pc[c] = "dispatch", target[c] = r PROVE r \in Held(ProcessOf(c))
    BY <2>5 DEF Held, Handing
  <2>6. \A c \in Callers : ProcessOf(c) \in {"api", "scheduler"}
    BY DEF ProcessOf
  <2> QED
    BY <2>1, <2>2, <2>3, <2>4, <2>5, <2>6 DEF Somewhere
<1>2. Init => Old
  BY DEF Init, Old
<1>3. XInv /\ Old /\ [Next]_vars => Old'
  BY OldKept
<1> QED
  BY <1>1, <1>2, <1>3, InitX, StepX, PTL DEF Spec, XInv

LEMMA FollowsLasts ==
  ASSUME XInv, [Next]_vars, NEW job, NEW attempt, NEW parent, Follows(job, attempt, parent)
  PROVE  Follows(job, attempt, parent)'
  BY ReadLasts DEF Follows

LEMMA PromisedKept ==
  ASSUME XInv, RetryInv, [Next]_vars, NEW c \in Callers
  PROVE  Promised(c)'
<1> USE DEF XInv
<1>1. Promised(c) /\ CallMoves(c)
  BY CallStep DEF RetryInv
<1>2. CASE pc'[c] \in {"idle", "dispatch"}
  BY <1>2 DEF Promised
<1>3. CASE Same(c) /\ \/ pc'[c] = pc[c]
                      \/ pc[c] \in {"check", "find"} /\ pc'[c] \in {"find", "create"}
  <2>1. request'[c] = request[c] /\ target'[c] = target[c]
    BY <1>3 DEF Same
  <2>2. pc'[c] \in {"check", "find", "create", "silence"} =>
          Follows(request[c].job, request[c].attempt, request[c].parent)'
    <3>1. pc'[c] \in {"check", "find", "create", "silence"} => pc[c] \in {"check", "find", "create", "silence"}
      BY <1>3
    <3>2. PICK job, attempt, parent : job = request[c].job /\ attempt = request[c].attempt /\ parent = request[c].parent
      OBVIOUS
    <3>3. Follows(job, attempt, parent) => Follows(job, attempt, parent)'
      BY FollowsLasts
    <3>4. job = request'[c].job /\ attempt = request'[c].attempt /\ parent = request'[c].parent
      BY <2>1, <3>2
    <3> QED
      BY <1>1, <3>1, <3>2, <3>3, <3>4 DEF Promised
  <2>3. pc'[c] \in {"check", "find", "create"} /\ request'[c].parent # 0 => run'[request'[c].parent].acked
    <3>1. pc'[c] \in {"check", "find", "create"} => pc[c] \in {"check", "find", "create"}
      BY <1>3
    <3>2. pc[c] \in {"check", "find", "create"} /\ request[c].parent # 0 =>
            request[c].parent \in Known /\ run[request[c].parent].acked
      BY <1>1 DEF Promised, Follows
    <3> QED
      BY <2>1, <3>1, <3>2, ReadLasts
  <2>4. pc'[c] = "silence" => request'[c].parent \in Known' /\ Failed(request[c].parent)'
    BY <1>1, <1>3, <2>1, ReadLasts DEF Promised
  <2>5. pc'[c] = "ack" => target'[c] \in Known' /\ Failed(target[c])'
    BY <1>1, <1>3, <2>1, ReadLasts DEF Promised
  <2> QED
    BY <2>1, <2>2, <2>3, <2>4, <2>5 DEF Promised, Failed, Follows
<1>4. CASE pc[c] = "silence" /\ pc'[c] = "check" /\ Same(c) /\ Acknowledge(request[c].parent)
  <2>1. PICK t \in Known : t = request[c].parent
    BY <1>1, <1>4 DEF Promised
  <2>2. request'[c] = request[c] /\ t \in Known' /\ run'[t].job = run[t].job /\ run'[t].attempt = run[t].attempt
    BY <1>4, ReadLasts DEF Same
  <2>3. run'[t].acked
    <3>1. run'[t] = [job |-> run[t].job, trigger |-> run[t].trigger, attempt |-> run[t].attempt,
                     parent |-> run[t].parent, status |-> run[t].status, acked |-> TRUE]
      BY <1>4, <2>1, AcknowledgeFields DEF IInv
    <3> QED
      BY <3>1
  <2>4. Follows(request[c].job, request[c].attempt, request[c].parent)
    BY <1>1, <1>4 DEF Promised
  <2> QED
    BY <1>4, <2>1, <2>2, <2>3, <2>4 DEF Promised, Follows
<1>5. CASE pc'[c] = "check" /\ request'[c].parent = 0
  BY <1>5 DEF Promised, Follows
<1>6. ASSUME NEW r \in Known,
             run[r].status = "failed", UNCHANGED run,
             request'[c].parent = r,
             request'[c].job = run[r].job, request'[c].attempt = run[r].attempt + 1,
             pc'[c] = "silence" \/ (pc'[c] = "check" /\ run[r].acked)
      PROVE  Promised(c)'
  <2>1. Known' = Known
    BY <1>6 DEF Known
  <2> QED
    BY <1>6, <2>1 DEF Promised, Follows, Failed
<1>7. CASE UNCHANGED run /\ pc'[c] = "ack" /\ target'[c] \in Known /\ run[target'[c]].status = "failed"
  <2>1. Known' = Known
    BY <1>7 DEF Known
  <2> QED
    BY <1>7, <2>1 DEF Promised, Failed
<1>8. CASE \E r \in Known :
             /\ run[r].status = "failed" /\ UNCHANGED run
             /\ request'[c].parent = r /\ request'[c].trigger = "retry"
             /\ request'[c].job = run[r].job /\ request'[c].attempt = run[r].attempt + 1
             /\ pc'[c] = "silence" \/ (pc'[c] = "check" /\ run[r].acked)
  <2>1. PICK r \in Known :
             /\ run[r].status = "failed" /\ UNCHANGED run
             /\ request'[c].parent = r
             /\ request'[c].job = run[r].job /\ request'[c].attempt = run[r].attempt + 1
             /\ pc'[c] = "silence" \/ (pc'[c] = "check" /\ run[r].acked)
    BY <1>8
  <2> QED
    BY <1>6, <2>1
<1> HIDE DEF Same, Promised
<1> QED
  BY <1>1, <1>2, <1>3, <1>4, <1>5, <1>7, <1>8 DEF CallMoves

LEMMA FollowedKept ==
  ASSUME XInv, RetryInv, [Next]_vars, NEW r \in Known'
  PROVE  /\ Followed(r)'
         /\ \A s \in 1..(r - 1) : s \in Runs => s \in Known'
<1> USE DEF XInv, IInv
<1>1. CASE r \in Known
  <2>1. Followed(r) /\ \A s \in 1..(r - 1) : s \in Runs => s \in Known
    BY <1>1 DEF RetryInv
  <2>2. \A s \in Known : s \in Known'
    BY ReadLasts
  <2>3. /\ run'[r].job = run[r].job /\ run'[r].attempt = run[r].attempt
        /\ run'[r].parent = run[r].parent /\ (Failed(r) => Failed(r)')
    BY <1>1, ReadLasts
  <2>4. run[r].parent # 0 =>
          /\ run[r].parent \in Known /\ run[r].parent \in Known' /\ run'[run[r].parent].acked
          /\ run'[run[r].parent].job = run[run[r].parent].job
          /\ run'[run[r].parent].attempt = run[run[r].parent].attempt
    BY <2>1, ReadLasts DEF Followed, Follows
  <2>5. run'[r].acked => run[r].acked \/ \E c \in Callers : Acks(c, r)
    BY <1>1, TableStep
  <2>6. ASSUME NEW c \in Callers, Acks(c, r) PROVE Failed(r)
    <3>1. Promised(c)
      BY DEF RetryInv
    <3> QED
      BY <2>6, <3>1 DEF Acks, Promised
  <2>7. run'[r].acked => Failed(r)'
    BY <2>1, <2>3, <2>5, <2>6 DEF Followed
  <2> QED
    BY <2>1, <2>2, <2>3, <2>4, <2>7 DEF Followed, Follows
<1>2. CASE r \notin Known
  <2>1. PICK c \in Callers : Creates(c, r)
    BY <1>2, TableStep DEF Creates
  <2>2. Promised(c) /\ pc[c] = "create" /\ request[c] \in Request
    BY <2>1 DEF RetryInv, Creates, Refs
  <2>3. \A s \in Known : s \in Known'
    BY ReadLasts
  <2>4. run'[r].parent # 0 =>
          /\ run'[r].parent \in Known /\ run'[r].parent \in Known' /\ run'[run'[r].parent].acked
          /\ run'[r].job = run'[run'[r].parent].job /\ run'[r].attempt = run'[run'[r].parent].attempt + 1
    <3>1. PICK parent : parent = run'[r].parent
      OBVIOUS
    <3>2. parent # 0 => /\ parent \in Known /\ run[parent].acked /\ run'[r].job = run[parent].job
                        /\ run'[r].attempt = run[parent].attempt + 1
      BY <2>1, <2>2, <3>1 DEF Creates, Promised, Follows
    <3> QED
      BY <3>1, <3>2, ReadLasts
  <2>5. run'[r].parent # 0 => run'[r].parent < r
    <3> SUFFICES ASSUME run'[r].parent # 0 PROVE run'[r].parent < r
      OBVIOUS
    <3>1. PICK s \in Known : s = run'[r].parent
      BY <2>4
    <3>2. s \in Nat /\ r \in Nat /\ r \in Runs /\ r # s /\ r >= 1
      BY <1>2, <2>1, AutomationAssumption DEF Known, Runs, Creates
    <3>3. ~(r \in 1..(s - 1))
      BY <1>2, <3>1, <3>2 DEF RetryInv
    <3> QED
      BY <3>1, <3>2, <3>3
  <2> QED
    BY <2>1, <2>3, <2>4, <2>5 DEF Followed, Follows, Creates
<1> QED
  BY <1>1, <1>2

\* A retry is the next attempt of a failed run of the same job whose alert has
\* been acknowledged; no alert is silenced before it is raised.
THEOREM RetriesComeAfter == Spec => []RetriesFollow
<1>1. Init => RetryInv
  <2> SUFFICES ASSUME Init PROVE RetryInv
    OBVIOUS
  <2>1. Known = {}
    BY DEF Init, Known
  <2>2. \A c \in Callers : pc[c] = "idle"
    BY DEF Init
  <2> QED
    BY <2>1, <2>2 DEF RetryInv, Promised
<1>2. XInv /\ RetryInv /\ [Next]_vars => RetryInv'
  BY PromisedKept, FollowedKept DEF RetryInv
<1>3. RetryInv => RetriesFollow
  BY DEF RetryInv, RetriesFollow, Followed, Follows, Failed
<1> QED
  BY <1>1, <1>2, <1>3, InitX, StepX, PTL DEF Spec

-----------------------------------------------------------------------------
\* The cron of a job submits the runs of its job and of no other, one call at a
\* time; once it has found none under way, only it could start one.
Mine(c) ==
  pc[c] \in {"check", "find", "create", "silence"} /\ request[c].trigger = "scheduled" =>
    c \in Jobs /\ request[c].job = c
Scheduled(j) == {r \in Active \ taken : run[r].job = j /\ run[r].trigger = "scheduled"}
Clear(c) ==
  pc[c] = "create" /\ request[c].trigger = "scheduled" => Scheduled(request[c].job) = {}
CronInv == (\A c \in Callers : Mine(c) /\ Clear(c)) /\ ScheduledAlone

LEMMA MineKept ==
  ASSUME XInv, CronInv, [Next]_vars, NEW c \in Callers
  PROVE  Mine(c)'
<1>1. Mine(c) /\ CallMoves(c)
  BY CallStep DEF CronInv
<1>2. CASE Same(c) /\ \/ pc'[c] = pc[c]
                      \/ pc[c] \in {"check", "find", "silence"} /\ pc'[c] \in {"check", "find", "create"}
  <2>1. request'[c] = request[c]
    BY <1>2 DEF Same
  <2>2. pc'[c] \in {"check", "find", "create", "silence"} => pc[c] \in {"check", "find", "create", "silence"}
    BY <1>2
  <2> QED
    BY <1>1, <2>1, <2>2 DEF Mine
<1>3. CASE pc'[c] \in {"idle", "dispatch", "ack"}
  BY <1>3 DEF Mine
<1>4. CASE request'[c].trigger = "retry" \/ (request'[c].trigger = "scheduled" => c \in Jobs /\ request'[c].job = c)
  BY <1>4 DEF Mine
<1> HIDE DEF Mine, Same
<1> QED
  BY <1>1, <1>2, <1>3, <1>4 DEF CallMoves

\* Which scheduled runs of a job there are after a step: those there were, and
\* one its cron has created.
LEMMA ScheduledStep ==
  ASSUME XInv, CronInv, [Next]_vars, NEW j, NEW r \in Scheduled(j)'
  PROVE  r \in Scheduled(j) \/ (j \in Jobs /\ Creates(j, r) /\ request[j].trigger = "scheduled" /\ request[j].job = j)
<1> USE DEF XInv, IInv
<1>1. r \in Known' /\ r \in Active' /\ r \notin taken /\ run'[r].job = j /\ run'[r].trigger = "scheduled"
  BY TakenGrows DEF Scheduled, Active
<1>2. CASE r \in Known
  BY <1>1, <1>2, TableStep DEF Kin, Lasting, Scheduled
<1>3. CASE r \notin Known
  <2>1. PICK c \in Callers : Creates(c, r)
    BY <1>1, <1>3, TableStep DEF Creates
  <2>2. request[c].trigger = "scheduled" /\ request[c].job = j /\ pc[c] = "create"
    BY <1>1, <2>1 DEF Creates
  <2>3. c \in Jobs /\ c = j
    BY <2>2 DEF CronInv, Mine
  <2> QED
    BY <2>1, <2>2, <2>3
<1> QED
  BY <1>2, <1>3

LEMMA ClearKept ==
  ASSUME XInv, CronInv, [Next]_vars, NEW c \in Callers
  PROVE  Clear(c)'
<1> SUFFICES ASSUME pc'[c] = "create", request'[c].trigger = "scheduled",
                    NEW r \in Scheduled(request[c].job)'
             PROVE  FALSE
  BY DEF Clear
<1>1. CallMoves(c) /\ Mine(c)' /\ Clear(c)
  BY CallStep, MineKept DEF CronInv
<1>2. PICK j : j = request'[c].job
  OBVIOUS
<1>3. j \in Jobs /\ c = j /\ request'[c] = request[c] /\ r \in Scheduled(j)'
  BY <1>1, <1>2 DEF Mine, CallMoves, Same, Scheduled
<1>4. Scheduled(j) = {}
  <2>1. CASE pc[c] = "create"
    BY <1>1, <1>2, <1>3, <2>1 DEF Clear
  <2>2. CASE ActiveScheduled(request[c].job) = {}
    BY <1>2, <1>3, <2>2 DEF Scheduled, ActiveScheduled
  <2>3. pc[c] = "check" => request[c].trigger # "scheduled" \/ pc'[c] = "find"
    BY <1>1, <1>3 DEF CallMoves, Same
  <2> QED
    BY <1>1, <1>3, <2>1, <2>2, <2>3 DEF CallMoves
<1>5. Creates(j, r)
  BY <1>3, <1>4, ScheduledStep
<1> QED
  BY <1>3, <1>5 DEF Creates

\* At most one scheduled run of a job is under way, as long as the API takes up
\* none the scheduler has.
THEOREM OneScheduledRun == Spec => []ScheduledAlone
<1>1. Init => CronInv
  <2> SUFFICES ASSUME Init PROVE CronInv
    OBVIOUS
  <2>1. Active = {} /\ \A c \in Callers : pc[c] = "idle"
    BY DEF Init, Active, Known
  <2> QED
    BY <2>1 DEF CronInv, Mine, Clear, ScheduledAlone
<1>2. XInv /\ CronInv /\ [Next]_vars => CronInv'
  <2> SUFFICES ASSUME XInv, CronInv, [Next]_vars PROVE CronInv'
    OBVIOUS
  <2>1. \A c \in Callers : Mine(c)' /\ Clear(c)'
    BY MineKept, ClearKept
  <2>2. ASSUME NEW j, NEW r \in Scheduled(j)', NEW s \in Scheduled(j)' PROVE r = s
    <3>1. CASE r \in Scheduled(j) /\ s \in Scheduled(j)
      BY <3>1 DEF CronInv, ScheduledAlone, Scheduled
    <3>2. CASE \/ j \in Jobs /\ Creates(j, r) /\ request[j].trigger = "scheduled" /\ request[j].job = j
               \/ j \in Jobs /\ Creates(j, s) /\ request[j].trigger = "scheduled" /\ request[j].job = j
      <4>1. Clear(j) /\ pc[j] = "create"
        BY <3>2 DEF CronInv, Callers, Creates
      <4>2. Scheduled(j) = {}
        BY <3>2, <4>1 DEF Clear
      <4>3. Creates(j, r) /\ Creates(j, s)
        BY <4>2, ScheduledStep
      <4> QED
        BY <4>3 DEF Creates
    <3> QED
      BY <3>1, <3>2, ScheduledStep
  <2>3. ScheduledAlone'
    <3> SUFFICES ASSUME NEW r \in (Active \ taken)', NEW s \in (Active \ taken)',
                        run'[r].trigger = "scheduled", run'[s].trigger = "scheduled",
                        run'[r].job = run'[s].job
                 PROVE  r = s
      BY DEF ScheduledAlone
    <3>1. PICK j : j = run'[r].job
      OBVIOUS
    <3>2. r \in Scheduled(j)' /\ s \in Scheduled(j)'
      BY <3>1 DEF Scheduled
    <3> QED
      BY <2>2, <3>2
  <2> QED
    BY <2>1, <2>3 DEF CronInv
<1>3. CronInv => ScheduledAlone
  BY DEF CronInv
<1> QED
  BY <1>1, <1>2, <1>3, InitX, StepX, PTL DEF Spec
=============================================================================
