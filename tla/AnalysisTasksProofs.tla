------------------------- MODULE AnalysisTasksProofs -------------------------
(***************************************************************************)
(* For any number of request threads, executor threads, tasks and restarts: *)
(* a task is in one place at most, a request has one live task, what is     *)
(* over stays over, and a research run shows "running" only while somebody  *)
(* is on it. The steps that move nothing (a request that is not handing     *)
(* over a task, a worker that goes on with its own) are dealt with once.    *)
(***************************************************************************)
EXTENDS AnalysisTasks, TLAPS

\* At the start nothing is anywhere.
LEMMA PlacesInit == Init => PlacesInv
  BY DEF Init, PlacesInv, OnePlace, Handing, Busy, Made, NoClient, NoWorker

\* A step that leaves queue and workers alone and hands over no other task
\* keeps every task where it was.
LEMMA RequestsKeepPlaces ==
  ASSUME PlacesInv,
         UNCHANGED <<made, queue, worker>>,
         DOMAIN client' = Clients,
         \A c \in Clients : Handing(c)' => Handing(c) /\ client'[c].task = client[c].task
  PROVE  PlacesInv'
  <1>1. \A c \in Clients : Handing(c)' => client'[c].task \in Made'
    BY DEF PlacesInv, Made
  <1>2. \A c, d \in Clients :
           Handing(c)' /\ Handing(d)' /\ client'[c].task = client'[d].task => c = d
    BY DEF PlacesInv, OnePlace
  <1>3. \A i \in DOMAIN queue : \A c \in Clients : Handing(c)' => client'[c].task # queue[i]
    BY DEF PlacesInv, OnePlace
  <1>4. \A c \in Clients, w \in Workers :
           Handing(c)' /\ Busy(w) => client'[c].task # worker[w].task
    BY DEF PlacesInv, OnePlace
  <1> QED BY <1>1, <1>2, <1>3, <1>4 DEF PlacesInv, OnePlace, Busy, Made

\* A step in which workers only go on with, or let go of, their own tasks
\* keeps every task where it was.
LEMMA WorkersKeepPlaces ==
  ASSUME PlacesInv,
         UNCHANGED <<made, queue, client>>,
         DOMAIN worker' = Workers,
         \A w \in Workers : Busy(w)' => Busy(w) /\ worker'[w].task = worker[w].task
  PROVE  PlacesInv'
  <1>1. \A w \in Workers : Busy(w)' => worker'[w].task \in Made'
    BY DEF PlacesInv, Made
  <1>2. \A v, w \in Workers :
           Busy(v)' /\ Busy(w)' /\ worker'[v].task = worker'[w].task => v = w
    BY DEF PlacesInv, OnePlace
  <1>3. \A i \in DOMAIN queue : \A w \in Workers : Busy(w)' => worker'[w].task # queue[i]
    BY DEF PlacesInv, OnePlace
  <1>4. \A c \in Clients, w \in Workers :
           Handing(c) /\ Busy(w)' => client[c].task # worker'[w].task
    BY DEF PlacesInv, OnePlace
  <1> QED BY <1>1, <1>2, <1>3, <1>4 DEF PlacesInv, OnePlace, Handing, Made

\* A new row has an id that is nowhere yet, and goes into the hands of the
\* request that created it.
LEMMA CreateKeepsPlaces ==
  ASSUME PlacesInv, NEW c \in Clients, CreateRow(c)
  PROVE  PlacesInv'
  <1>1. /\ made' = made + 1 /\ made \in Nat
        /\ UNCHANGED <<queue, worker>>
        /\ client' = [client EXCEPT ![c] = [pc |-> "enqueue", task |-> made']]
    BY DEF CreateRow, PlacesInv
  <1>2. DOMAIN client' = Clients /\ client'[c].task = made' /\ ~Handing(c)
    BY <1>1 DEF PlacesInv, CreateRow, Handing
  <1>3. \A d \in Clients \ {c} : client'[d] = client[d]
    BY <1>1 DEF PlacesInv
  <1>4. made' \notin Made /\ made' \in Made' /\ Made \subseteq Made'
    BY <1>1 DEF Made
  <1>5. \A d \in Clients : Handing(d)' => client'[d].task \in Made'
    BY <1>2, <1>3, <1>4 DEF PlacesInv, Handing
  <1>6. \A d, e \in Clients :
           Handing(d)' /\ Handing(e)' /\ client'[d].task = client'[e].task => d = e
    BY <1>2, <1>3, <1>4 DEF PlacesInv, OnePlace, Handing
  <1>7. \A i \in DOMAIN queue : \A d \in Clients : Handing(d)' => client'[d].task # queue[i]
    BY <1>2, <1>3, <1>4 DEF PlacesInv, OnePlace, Handing
  <1>8. \A d \in Clients, w \in Workers :
           Handing(d)' /\ Busy(w) => client'[d].task # worker[w].task
    BY <1>2, <1>3, <1>4 DEF PlacesInv, OnePlace, Handing
  <1>9. /\ \A i \in DOMAIN queue : queue[i] \in Made'
        /\ \A w \in Workers : Busy(w) => worker[w].task \in Made'
    BY <1>4 DEF PlacesInv
  <1> QED BY <1>1, <1>2, <1>5, <1>6, <1>7, <1>8, <1>9 DEF PlacesInv, OnePlace, Busy

\* Handing over: the task leaves the request and is at the end of the queue.
LEMMA EnqueueKeepsPlaces ==
  ASSUME PlacesInv, NEW c \in Clients, Enqueue(c)
  PROVE  PlacesInv'
  <1> DEFINE t == client[c].task
  <1>1. /\ Handing(c) /\ t \in Made /\ t \in Nat /\ queue \in Seq(Nat)
        /\ queue' = Append(queue, t)
        /\ client' = [client EXCEPT ![c] = NoClient]
        /\ UNCHANGED <<made, worker>>
    BY DEF Enqueue, PlacesInv, Handing, Made
  <1>2. /\ queue' \in Seq(Nat)
        /\ DOMAIN queue' = DOMAIN queue \cup {Len(queue) + 1}
        /\ Len(queue) + 1 \notin DOMAIN queue
        /\ \A i \in DOMAIN queue : queue'[i] = queue[i]
        /\ queue'[Len(queue) + 1] = t
    BY <1>1
  <1>3. /\ DOMAIN client' = Clients
        /\ \A d \in Clients : Handing(d)' => d # c /\ client'[d] = client[d]
        /\ \A d \in Clients : Handing(d)' => Handing(d)
    BY <1>1 DEF PlacesInv, Handing, NoClient
  <1>4. \A i \in DOMAIN queue : queue[i] # t
    BY <1>1 DEF PlacesInv, OnePlace
  <1>5. \A w \in Workers : Busy(w) => worker[w].task # t
    BY <1>1 DEF PlacesInv, OnePlace
  <1>6. \A d \in Clients : Handing(d)' => client'[d].task # t
    BY <1>1, <1>3 DEF PlacesInv, OnePlace
  <1>7. \A i, j \in DOMAIN queue' : queue'[i] = queue'[j] => i = j
    BY <1>2, <1>4 DEF PlacesInv, OnePlace
  <1>8. \A i \in DOMAIN queue' :
           /\ queue'[i] \in Made
           /\ \A w \in Workers : Busy(w) => worker[w].task # queue'[i]
           /\ \A d \in Clients : Handing(d)' => client'[d].task # queue'[i]
    BY <1>1, <1>2, <1>3, <1>5, <1>6 DEF PlacesInv, OnePlace
  <1>9. /\ \A d \in Clients : Handing(d)' => client'[d].task \in Made
        /\ \A d, e \in Clients :
              Handing(d)' /\ Handing(e)' /\ client'[d].task = client'[e].task => d = e
        /\ \A d \in Clients, w \in Workers :
              Handing(d)' /\ Busy(w) => client'[d].task # worker[w].task
    BY <1>3 DEF PlacesInv, OnePlace
  <1> QED BY <1>1, <1>2, <1>3, <1>7, <1>8, <1>9 DEF PlacesInv, OnePlace, Busy, Made

\* Taking: the task leaves the head of the queue; if it is to be run it is
\* with the worker, which had none.
LEMMA TakeKeepsPlaces ==
  ASSUME PlacesInv, NEW w \in Workers, Take(w)
  PROVE  PlacesInv'
  <1> DEFINE t == Head(queue)
  <1>1. /\ ~Busy(w) /\ queue \in Seq(Nat) /\ queue # <<>>
        /\ queue' = Tail(queue)
        /\ UNCHANGED <<made, client>>
    BY DEF Take, PlacesInv, Busy
  <1>2. /\ DOMAIN worker' = Workers
        /\ \A v \in Workers \ {w} : worker'[v] = worker[v]
        /\ Busy(w)' => worker'[w].task = t
    BY DEF Take, PlacesInv, Busy, NoWorker
  <1>3. /\ queue' \in Seq(Nat)
        /\ 1 \in DOMAIN queue /\ t = queue[1]
        /\ \A i \in DOMAIN queue' :
              i \in Nat /\ i + 1 \in DOMAIN queue /\ i + 1 # 1 /\ queue'[i] = queue[i + 1]
    BY <1>1
  <1>4. t \in Made /\ \A i \in DOMAIN queue' : queue'[i] # t
    BY <1>3 DEF PlacesInv, OnePlace
  <1>5. \A v \in Workers : v # w /\ Busy(v)' => Busy(v) /\ worker'[v].task = worker[v].task
    BY <1>2 DEF Busy
  <1>6. /\ \A v \in Workers : Busy(v) => worker[v].task # t
        /\ \A c \in Clients : Handing(c) => client[c].task # t
    BY <1>3 DEF PlacesInv, OnePlace
  <1>7. /\ \A i, j \in DOMAIN queue' : queue'[i] = queue'[j] => i = j
        /\ \A i \in DOMAIN queue' : queue'[i] \in Made
    BY <1>3 DEF PlacesInv, OnePlace
  <1>8. \A v \in Workers : Busy(v)' => worker'[v].task \in Made
    BY <1>2, <1>4, <1>5 DEF PlacesInv
  <1>9. \A u, v \in Workers :
           Busy(u)' /\ Busy(v)' /\ worker'[u].task = worker'[v].task => u = v
    BY <1>2, <1>5, <1>6 DEF PlacesInv, OnePlace
  <1>10. \A i \in DOMAIN queue' :
            /\ \A v \in Workers : Busy(v)' => worker'[v].task # queue'[i]
            /\ \A c \in Clients : Handing(c) => client[c].task # queue'[i]
    <2> SUFFICES ASSUME NEW i \in DOMAIN queue'
                 PROVE  /\ \A v \in Workers : Busy(v)' => worker'[v].task # queue'[i]
                        /\ \A c \in Clients : Handing(c) => client[c].task # queue'[i]
      OBVIOUS
    <2>1. i + 1 \in DOMAIN queue /\ queue'[i] = queue[i + 1] /\ queue'[i] # t
      BY <1>3, <1>4
    <2>2. /\ \A v \in Workers : Busy(v) => worker[v].task # queue'[i]
          /\ \A c \in Clients : Handing(c) => client[c].task # queue'[i]
      BY <2>1 DEF PlacesInv, OnePlace
    <2> QED BY <1>2, <1>5, <2>1, <2>2
  <1>11. \A c \in Clients, v \in Workers :
            Handing(c) /\ Busy(v)' => client[c].task # worker'[v].task
    BY <1>2, <1>5, <1>6 DEF PlacesInv, OnePlace
  <1> QED BY <1>1, <1>2, <1>3, <1>7, <1>8, <1>9, <1>10, <1>11
          DEF PlacesInv, OnePlace, Handing, Made

\* Every other step of a request leaves it with nothing to hand over.
LEMMA RequestStep ==
  ASSUME PlacesInv, NEW c \in Clients, ClientStep(c), ~CreateRow(c), ~Enqueue(c)
  PROVE  PlacesInv'
  <1> DEFINE Quiet == /\ UNCHANGED <<made, queue, worker>>
                      /\ DOMAIN client' = Clients
                      /\ \A d \in Clients \ {c} : client'[d] = client[d]
                      /\ client'[c].pc # "enqueue"
  <1>1. DOMAIN client = Clients BY DEF PlacesInv
  <1>2. CreateTask(c) => Quiet BY <1>1 DEF CreateTask, NoClient
  <1>3. RetryTask(c) => Quiet BY <1>1 DEF RetryTask, NoClient
  <1>4. ReadTask(c) => Quiet BY <1>1 DEF ReadTask, NoClient
  <1>5. StopTask(c) => Quiet BY <1>1 DEF StopTask, NoClient
  <1>6. SyncRun(c) => Quiet BY <1>1 DEF SyncRun, NoClient
  <1>7. FindActive(c) => Quiet BY <1>1 DEF FindActive, NoClient
  <1>8. Duplicate(c) => Quiet BY <1>1 DEF Duplicate, Answered, NoClient
  <1>9. ExpireFound(c) => Quiet BY <1>1 DEF ExpireFound, NoClient
  <1>10. RefreshFound(c) => Quiet BY <1>1 DEF RefreshFound, Answered, NoClient
  <1>11. Quiet BY <1>2, <1>3, <1>4, <1>5, <1>6, <1>7, <1>8, <1>9, <1>10 DEF ClientStep
  <1> QED BY <1>11, RequestsKeepPlaces DEF Handing

\* Every step of a worker but Take goes on with its task or lets go of it.
LEMMA WorkerKeepsOn ==
  ASSUME PlacesInv, NEW w \in Workers, WorkerStep(w), ~Take(w)
  PROVE  PlacesInv'
  <1> DEFINE Keeps == /\ UNCHANGED <<made, queue, client>>
                      /\ DOMAIN worker' = Workers
                      /\ \A v \in Workers \ {w} : worker'[v] = worker[v]
                      /\ Busy(w)
                      /\ Busy(w)' => worker'[w].task = worker[w].task
  <1>1. DOMAIN worker = Workers BY DEF PlacesInv
  <1>2. Claim(w) => Keeps BY <1>1 DEF Claim, Busy, NoWorker
  <1>3. Analyse(w) => Keeps BY <1>1 DEF Analyse, Busy, NoWorker, Outcome
  <1>4. StartRun(w) => Keeps BY <1>1 DEF StartRun, Busy, NoWorker
  <1>14. OpenRun(w) => Keeps BY <1>1 DEF OpenRun, Busy, NoWorker
  <1>15. CompleteRun(w) => Keeps BY <1>1 DEF CompleteRun, Busy, NoWorker, Outcome
  <1>5. SaveProgress(w) => Keeps BY <1>1 DEF SaveProgress, Busy, NoWorker, Advance
  <1>6. CheckStopped(w) => Keeps BY <1>1 DEF CheckStopped, Busy, NoWorker, Advance
  <1>7. GiveUp(w) => Keeps BY <1>1 DEF GiveUp, Busy, NoWorker, Outcome
  <1>8. RunModule(w) => Keeps BY <1>1 DEF RunModule, Busy, NoWorker, Advance
  <1>9. CloseRun(w) => Keeps BY <1>1 DEF CloseRun, Busy, NoWorker, Outcome
  <1>10. Raise(w) => Keeps BY <1>1 DEF Raise, Busy, NoWorker, Outcome
  <1>11. CheckCurrent(w) => Keeps BY <1>1 DEF CheckCurrent, Busy, NoWorker
  <1>12. Store(w) => Keeps BY <1>1 DEF Store, Busy, NoWorker
  <1>13. Keeps BY <1>2, <1>3, <1>4, <1>5, <1>6, <1>7, <1>8, <1>9, <1>10, <1>11, <1>12,
            <1>14, <1>15 DEF WorkerStep
  <1> QED BY <1>13, WorkersKeepPlaces DEF Busy

\* A restart empties queue and threads.
LEMMA RestartKeepsPlaces ==
  ASSUME PlacesInv, Restart
  PROVE  PlacesInv'
  BY DEF Restart, PlacesInv, OnePlace, Handing, Busy, Made, NoClient, NoWorker

\* Every step keeps the invariant.
LEMMA PlacesNext == PlacesInv /\ [Next]_vars => PlacesInv'
  <1> SUFFICES ASSUME PlacesInv, [Next]_vars PROVE PlacesInv'
    OBVIOUS
  <1>1. CASE UNCHANGED vars
    BY <1>1, RequestsKeepPlaces DEF vars, Handing, PlacesInv
  <1>2. ASSUME NEW c \in Clients, ClientStep(c) PROVE PlacesInv'
    <2>1. CASE CreateRow(c) BY <2>1, CreateKeepsPlaces
    <2>2. CASE Enqueue(c) BY <2>2, EnqueueKeepsPlaces
    <2> QED BY <1>2, <2>1, <2>2, RequestStep
  <1>3. ASSUME NEW w \in Workers, WorkerStep(w) PROVE PlacesInv'
    <2>1. CASE Take(w) BY <2>1, TakeKeepsPlaces
    <2> QED BY <1>3, <2>1, WorkerKeepsOn
  <1>4. CASE Restart
    BY <1>4, RestartKeepsPlaces
  <1> QED BY <1>1, <1>2, <1>3, <1>4 DEF Next

\* The ids that are in somebody's hands, in the queue or with a worker were
\* given to a row, and each is in one of these places only.
THEOREM PlacesInvariant == Spec => []PlacesInv
  BY PlacesInit, PlacesNext, PTL DEF Spec

\* No two executor threads ever run one task (src/apps/api/domains/tasks/
\* service.py:503-511 claims a task in two steps), for any number of threads.
THEOREM TaskInOnePlace == Spec => []OnePlace
  <1>1. PlacesInv => OnePlace BY DEF PlacesInv
  <1> QED BY <1>1, PlacesInvariant, PTL

(***************************************************************************)
(* What the tables go through.                                              *)
(***************************************************************************)

\* No row is created, none changes its fingerprint, and none comes to life but
\* one whose stop a worker overwrites.
Steady ==
    /\ made' = made
    /\ late \subseteq late'
    /\ \A t \in Made : rows'[t].req = rows[t].req
    /\ StaysOver

\* Workers that are busy have different tasks, which were given to rows.
LEMMA OwnTasks ==
  ASSUME PlacesInv, ClaimInv, NEW w \in Workers, Busy(w)
  PROVE  /\ worker[w].task \in Made /\ worker[w].task \in DOMAIN rows
         /\ Made \subseteq DOMAIN rows
         /\ \A v \in Workers \ {w} : Busy(v) => worker[v].task # worker[w].task
  <1>1. made \in Nat /\ made <= MaxTasks /\ MaxTasks \in Nat /\ DOMAIN rows = 1 .. MaxTasks
    BY BoundsAssumption DEF PlacesInv, ClaimInv, Ids
  <1>2. Made \subseteq DOMAIN rows
    BY <1>1 DEF Made
  <1> QED BY <1>2 DEF PlacesInv, OnePlace

\* A stop: whatever a worker is about to overwrite is noted in late.
LEMMA StopIsSteady ==
  ASSUME PlacesInv, ClaimInv, NEW t, NEW s \in Stopped,
         rows' = WithStatus(t, s), NoteLate(t), UNCHANGED <<made, worker>>
  PROVE  ClaimInv' /\ Steady
  <1>1. /\ late \subseteq late'
        /\ \A w \in Workers : worker[w].pc = "claim" /\ worker[w].task = t => t \in late'
    BY DEF NoteLate, Claiming
  <1>2. /\ DOMAIN rows' = DOMAIN rows
        /\ \A u \in DOMAIN rows : u # t => rows'[u] = rows[u]
        /\ \A u \in DOMAIN rows : u = t => rows'[u].req = rows[u].req /\ rows'[u].status = s
    BY DEF WithStatus
  <1>3. Made \subseteq DOMAIN rows
    BY BoundsAssumption DEF PlacesInv, ClaimInv, Made, Ids
  <1>4. s \notin Live BY DEF Stopped, Live
  <1>5. Steady BY <1>1, <1>2, <1>3, <1>4 DEF Steady, StaysOver
  <1>6. \A w \in Workers : worker'[w].pc = "claim" =>
          rows'[worker'[w].task].status = "queued" \/ worker'[w].task \in late'
    <2> SUFFICES ASSUME NEW w \in Workers, worker[w].pc = "claim"
                 PROVE  rows'[worker[w].task].status = "queued" \/ worker[w].task \in late'
      OBVIOUS
    <2>1. CASE worker[w].task = t BY <1>1, <2>1
    <2>2. CASE worker[w].task # t
      <3>1. worker[w].task \in DOMAIN rows BY OwnTasks DEF Busy
      <3> QED BY <1>1, <1>2, <2>2, <3>1 DEF ClaimInv
    <2> QED BY <2>1, <2>2
  <1> QED BY <1>2, <1>5, <1>6 DEF ClaimInv

\* A step that touches neither rows nor workers.
LEMMA RequestIsSteady ==
  ASSUME PlacesInv, ClaimInv, UNCHANGED <<rows, made, worker, late>>
  PROVE  ClaimInv' /\ Steady
  BY DEF ClaimInv, Steady, StaysOver

\* A worker that rewrites its own row, not to bring it to life unless it was
\* about to, leaves the claims of the others alone.
LEMMA RewriteIsSteady ==
  ASSUME PlacesInv, ClaimInv, NEW w \in Workers, Busy(w),
         UNCHANGED <<made, late>>,
         DOMAIN rows' = DOMAIN rows,
         \A t \in DOMAIN rows : t # worker[w].task => rows'[t] = rows[t],
         rows'[worker[w].task].req = rows[worker[w].task].req,
         rows'[worker[w].task].status \in Live =>
             rows[worker[w].task].status \in Live \/ worker[w].task \in late,
         \A v \in Workers \ {w} : worker'[v] = worker[v],
         worker'[w].pc # "claim"
  PROVE  ClaimInv' /\ Steady
  <1>1. Steady BY OwnTasks DEF Steady, StaysOver
  <1>2. \A v \in Workers : worker'[v].pc = "claim" =>
          rows'[worker'[v].task].status = "queued" \/ worker'[v].task \in late'
    <2> SUFFICES ASSUME NEW v \in Workers, v # w, worker[v].pc = "claim"
                 PROVE  rows'[worker[v].task].status = "queued" \/ worker[v].task \in late
      OBVIOUS
    <2>1. worker[v].task \in DOMAIN rows /\ worker[v].task # worker[w].task
      BY OwnTasks DEF Busy
    <2> QED BY <2>1 DEF ClaimInv
  <1> QED BY <1>1, <1>2 DEF ClaimInv

\* A worker that leaves the rows alone and does not begin a claim.
LEMMA WorkerIsSteady ==
  ASSUME PlacesInv, ClaimInv, NEW w \in Workers, UNCHANGED <<rows, made, late>>,
         \A v \in Workers \ {w} : worker'[v] = worker[v],
         worker'[w].pc # "claim"
  PROVE  ClaimInv' /\ Steady
  BY DEF ClaimInv, Steady, StaysOver

\* Every step of a worker is steady.
LEMMA WorkersAreSteady ==
  ASSUME PlacesInv, ClaimInv, NEW w \in Workers, WorkerStep(w)
  PROVE  ClaimInv' /\ Steady
  <1> DEFINE Idle == /\ UNCHANGED <<rows, made, late>>
                     /\ \A v \in Workers \ {w} : worker'[v] = worker[v]
                     /\ worker'[w].pc # "claim"
  <1>1. DOMAIN worker = Workers BY DEF PlacesInv
  <1>2. ASSUME Take(w) PROVE ClaimInv' /\ Steady
    <2>1. /\ UNCHANGED <<rows, made, late>>
          /\ \A v \in Workers \ {w} : worker'[v] = worker[v]
          /\ worker'[w].pc = "claim" => rows[worker'[w].task].status = "queued"
      BY <1>1, <1>2 DEF Take, NoWorker
    <2> QED BY <2>1 DEF ClaimInv, Steady, StaysOver
  <1>3. ASSUME Claim(w) PROVE ClaimInv' /\ Steady
    <2> DEFINE t == worker[w].task
    <2>1. /\ Busy(w) /\ worker[w].pc = "claim" /\ rows' = WithStatus(t, "running")
          /\ UNCHANGED <<made, late>>
          /\ \A v \in Workers \ {w} : worker'[v] = worker[v]
          /\ worker'[w].pc # "claim"
      BY <1>1, <1>3 DEF Claim, Busy
    <2>2. /\ DOMAIN rows' = DOMAIN rows
          /\ \A u \in DOMAIN rows : u # t => rows'[u] = rows[u]
          /\ rows'[t].req = rows[t].req
      BY <2>1, OwnTasks DEF WithStatus
    <2>3. rows[t].status \in Live \/ t \in late
      BY <2>1 DEF ClaimInv, Live
    <2> QED BY <2>1, <2>2, <2>3, RewriteIsSteady
  <1>4. ASSUME SaveProgress(w) PROVE ClaimInv' /\ Steady
    <2> DEFINE t == worker[w].task
    <2>1. /\ Busy(w) /\ UNCHANGED <<made, late>>
          /\ \A v \in Workers \ {w} : worker'[v] = worker[v]
          /\ worker'[w].pc # "claim"
      BY <1>1, <1>4 DEF SaveProgress, Advance, Busy
    <2>2. /\ DOMAIN rows' = DOMAIN rows
          /\ \A u \in DOMAIN rows : u # t => rows'[u] = rows[u]
          /\ rows'[t].req = rows[t].req /\ rows'[t].status = rows[t].status
      BY <1>4, <2>1, OwnTasks DEF SaveProgress
    <2> QED BY <2>1, <2>2, RewriteIsSteady
  <1>5. ASSUME Store(w) PROVE ClaimInv' /\ Steady
    <2> DEFINE t == worker[w].task
    <2>1. /\ Busy(w) /\ UNCHANGED <<made, late>>
          /\ \A v \in Workers \ {w} : worker'[v] = worker[v]
          /\ worker'[w].pc # "claim"
      BY <1>1, <1>5 DEF Store, Busy, NoWorker
    <2>2. /\ DOMAIN rows' = DOMAIN rows
          /\ \A u \in DOMAIN rows : u # t => rows'[u] = rows[u]
          /\ rows'[t].req = rows[t].req /\ rows'[t].status \in {"succeeded", "failed"}
      BY <1>5, <2>1, OwnTasks DEF Store, Stored
    <2>3. rows'[t].status \notin Live BY <2>2 DEF Live
    <2> QED BY <2>1, <2>2, <2>3, RewriteIsSteady
  <1>6. Analyse(w) => Idle BY <1>1 DEF Analyse, Outcome
  <1>14. OpenRun(w) => Idle BY <1>1 DEF OpenRun
  <1>15. CompleteRun(w) => Idle BY <1>1 DEF CompleteRun, Outcome
  <1>7. StartRun(w) => Idle BY <1>1 DEF StartRun
  <1>8. CheckStopped(w) => Idle BY <1>1 DEF CheckStopped, Advance
  <1>9. GiveUp(w) => Idle BY <1>1 DEF GiveUp, Outcome
  <1>10. RunModule(w) => Idle BY <1>1 DEF RunModule, Advance
  <1>11. CloseRun(w) => Idle BY <1>1 DEF CloseRun, Outcome
  <1>12. Raise(w) => Idle BY <1>1 DEF Raise, Outcome
  <1>13. CheckCurrent(w) => Idle BY <1>1 DEF CheckCurrent, NoWorker
  <1> QED BY <1>2, <1>3, <1>4, <1>5, <1>6, <1>7, <1>8, <1>9, <1>10, <1>11, <1>12, <1>13, <1>14, <1>15,
         WorkerIsSteady DEF WorkerStep

(***************************************************************************)
(* The submission lock.                                                     *)
(***************************************************************************)

Inside(c) == client[c].pc \in {"found", "foundsync", "create"}

\* What a submission under the lock may rely on.
Looked(c) ==
    /\ Inside(c) => c \in lock
    /\ client[c].pc \in {"found", "foundsync"} =>
          /\ client[c].task \in Made
          /\ rows[client[c].task].req = client[c].req
          /\ \A t \in Made :
                t > client[c].task /\ rows[t].req = client[c].req => ~Undisturbed(t)
    /\ client[c].pc = "create" =>
          \A t \in Made : rows[t].req = client[c].req => ~Undisturbed(t)

\* A steady step disturbs no row that was not.
LEMMA SteadyRows ==
  ASSUME Steady
  PROVE  /\ Made' = Made
         /\ \A t \in Made : rows'[t].req = rows[t].req /\ (~Undisturbed(t) => ~Undisturbed(t)')
  BY DEF Steady, StaysOver, Undisturbed, Made

\* A steady step in which the lock is taken or left in order.
LEMMA LockKept ==
  ASSUME LockInv, Steady,
         \A c, d \in lock' : c = d,
         \A c \in Clients : Looked(c)'
  PROVE  LockInv'
  BY SteadyRows DEF LockInv, Looked, Inside

\* A submission that a steady step passes by keeps what it relies on.
LEMMA LookedKept ==
  ASSUME LockInv, Steady, NEW c \in Clients,
         client'[c] = client[c], c \in lock => c \in lock'
  PROVE  Looked(c)'
  <1>1. Looked(c) BY DEF LockInv, Looked, Inside
  <1>2. (Inside(c) => c \in lock)'
    BY <1>1 DEF Looked, Inside
  <1>3. client[c].pc \in {"found", "foundsync"} =>
          /\ client[c].task \in Made'
          /\ rows'[client[c].task].req = client[c].req
          /\ \A t \in Made' :
                t > client[c].task /\ rows'[t].req = client[c].req => ~Undisturbed(t)'
    BY <1>1, SteadyRows DEF Looked
  <1>4. client[c].pc = "create" =>
          \A t \in Made' : rows'[t].req = client[c].req => ~Undisturbed(t)'
    BY <1>1, SteadyRows DEF Looked
  <1> QED BY <1>2, <1>3, <1>4 DEF Looked

\* A step of one request outside the critical section.
LEMMA OutsideKeepsLock ==
  ASSUME LockInv, Steady, NEW c \in Clients,
         \A d \in Clients \ {c} : client'[d] = client[d],
         lock' = lock \/ lock' = lock \ {c},
         ~Inside(c)'
  PROVE  LockInv'
  <1>1. \A a, b \in lock' : a = b BY DEF LockInv
  <1>2. \A d \in Clients \ {c} : Looked(d)'
    <2> TAKE d \in Clients \ {c}
    <2>1. d \in lock => d \in lock' OBVIOUS
    <2> QED BY <2>1, LookedKept
  <1>3. Looked(c)' BY DEF Looked, Inside
  <1> QED BY <1>1, <1>2, <1>3, LockKept

\* Steps that leave requests and lock alone.
LEMMA WorkersKeepLock ==
  ASSUME LockInv, Steady, UNCHANGED <<client, lock>>
  PROVE  LockInv'
  <1>1. \A c \in Clients : Looked(c)' BY LookedKept
  <1>2. \A c, d \in lock' : c = d BY DEF LockInv
  <1> QED BY <1>1, <1>2, LockKept

\* Looking: the lock was free, so no other submission is inside.
LEMMA FindKeepsLock ==
  ASSUME TasksInv, NEW c \in Clients, FindActive(c), Steady
  PROVE  LockInv'
  <1>1. /\ lock = {} /\ lock' = {c} /\ UNCHANGED <<rows, made, late>>
        /\ DOMAIN client = Clients /\ LockInv
    BY DEF FindActive, LockFree, TasksInv, PlacesInv
  <1>2. \A d \in Clients \ {c} : client'[d] = client[d]
    BY <1>1 DEF FindActive
  <1>3. \A d \in Clients \ {c} : Looked(d)'
    <2> TAKE d \in Clients \ {c}
    <2>1. ~Inside(d) BY <1>1 DEF LockInv, Inside
    <2> QED BY <1>2, <2>1 DEF Looked, Inside
  <1>4. Looked(c)'
    <2> DEFINE req == client[c].req
    <2>1. CASE Actives(req) = {} /\ client' = [client EXCEPT ![c] = [pc |-> "create", req |-> req]]
      <3>1. client'[c] = [pc |-> "create", req |-> req] BY <1>1, <2>1
      <3>2. \A t \in Made : rows[t].req = req => ~Undisturbed(t)
        BY <2>1 DEF Actives, Undisturbed
      <3> QED BY <1>1, <3>1, <3>2 DEF Looked, Inside, Undisturbed, Made
    <2>2. ASSUME NEW t \in Actives(req), \A u \in Actives(req) : u <= t,
                 client' = [client EXCEPT ![c] = [pc |-> "found", req |-> req, task |-> t]]
          PROVE  Looked(c)'
      <3>1. client'[c] = [pc |-> "found", req |-> req, task |-> t] BY <1>1, <2>2
      <3>2. t \in Made /\ rows[t].req = req BY DEF Actives
      <3>3. \A u \in Made : u > t /\ rows[u].req = req => ~Undisturbed(u)
        <4> SUFFICES ASSUME NEW u \in Made, u > t, rows[u].req = req PROVE ~Undisturbed(u)
          OBVIOUS
        <4>1. ~(u <= t) BY <3>2 DEF Made
        <4>2. u \notin Actives(req) BY <2>2, <4>1
        <4> QED BY <4>2 DEF Actives, Undisturbed
      <3> QED BY <1>1, <3>1, <3>2, <3>3 DEF Looked, Inside, Undisturbed, Made
    <2> QED BY <2>1, <2>2 DEF FindActive
  <1> QED BY <1>1, <1>3, <1>4, LockKept

\* Timing out what was found keeps what was found.
LEMMA ExpireKeepsLock ==
  ASSUME TasksInv, NEW c \in Clients, ExpireFound(c), Steady
  PROVE  LockInv'
  <1>1. /\ client[c].pc = "found" /\ LockInv /\ lock' = lock
        /\ client'[c] = [pc |-> "foundsync", req |-> client[c].req, task |-> client[c].task]
        /\ \A d \in Clients \ {c} : client'[d] = client[d]
    BY DEF ExpireFound, TasksInv, PlacesInv
  <1>2. \A d \in Clients \ {c} : Looked(d)' BY <1>1, LookedKept
  <1>3. Looked(c)
    BY <1>1 DEF LockInv, Looked, Inside
  <1>4. Looked(c)'
    <2>1. c \in lock' BY <1>1, <1>3 DEF Looked, Inside
    <2>2. /\ client[c].task \in Made'
          /\ rows'[client[c].task].req = client[c].req
          /\ \A t \in Made' :
                t > client[c].task /\ rows'[t].req = client[c].req => ~Undisturbed(t)'
      BY <1>1, <1>3, SteadyRows DEF Looked
    <2> QED BY <1>1, <2>1, <2>2 DEF Looked
  <1>5. \A a, b \in lock' : a = b BY <1>1 DEF LockInv
  <1> QED BY <1>1, <1>2, <1>4, <1>5, LockKept

\* What was found is over: so is every older row, and every newer one was
\* when it was looked for.
LEMMA RefreshKeepsLock ==
  ASSUME TasksInv, NEW c \in Clients, RefreshFound(c), Steady
  PROVE  LockInv'
  <1> DEFINE u == client[c].task
             req == client[c].req
  <1>1. /\ client[c].pc = "foundsync" /\ LockInv /\ DOMAIN client = Clients
        /\ UNCHANGED <<rows, made, late>>
    BY DEF RefreshFound, TasksInv, PlacesInv
  <1>2. CASE rows[u].status \in Live /\ Answered(c, u)
    <2>1. /\ lock' = lock \ {c} /\ ~Inside(c)'
          /\ \A d \in Clients \ {c} : client'[d] = client[d]
      BY <1>1, <1>2 DEF Answered, Inside, NoClient
    <2> QED BY <1>1, <2>1, OutsideKeepsLock
  <1>3. CASE /\ rows[u].status \notin Live /\ UNCHANGED lock
             /\ client' = [client EXCEPT ![c] = [pc |-> "create", req |-> @.req]]
    <2>1. /\ client'[c] = [pc |-> "create", req |-> req]
          /\ \A d \in Clients \ {c} : client'[d] = client[d]
      BY <1>1, <1>3
    <2>2. /\ c \in lock /\ u \in Made /\ rows[u].req = req
          /\ \A t \in Made : t > u /\ rows[t].req = req => ~Undisturbed(t)
          /\ \A t \in Made : t < u /\ rows[t].req = rows[u].req => ~Undisturbed(t)
      BY <1>1 DEF LockInv
    <2>3. \A t \in Made : rows[t].req = req => ~Undisturbed(t)
      <3> SUFFICES ASSUME NEW t \in Made, rows[t].req = req PROVE ~Undisturbed(t)
        OBVIOUS
      <3>1. t < u \/ t = u \/ t > u BY <2>2 DEF Made
      <3>2. CASE t = u BY <1>3, <3>2 DEF Undisturbed
      <3> QED BY <2>2, <3>1, <3>2
    <2>4. \A t \in Made' : rows'[t].req = req => ~Undisturbed(t)'
      BY <1>1, <2>3 DEF Made, Undisturbed
    <2>5. Looked(c)' BY <1>3, <2>1, <2>2, <2>4 DEF Looked
    <2>6. \A d \in Clients \ {c} : Looked(d)' BY <1>1, <1>3, <2>1, LookedKept
    <2>7. \A a, b \in lock' : a = b BY <1>1, <1>3 DEF LockInv
    <2> QED BY <1>1, <2>5, <2>6, <2>7, LockKept
  <1> QED BY <1>2, <1>3 DEF RefreshFound

\* A new row is the newest, and every older one with its fingerprint is over.
LEMMA CreateKeepsInv ==
  ASSUME TasksInv, NEW c \in Clients, CreateRow(c)
  PROVE  ClaimInv' /\ LockInv' /\ StaysOver
  <1>1. /\ PlacesInv /\ ClaimInv /\ LockInv /\ DOMAIN client = Clients
        /\ made \in Nat /\ made < MaxTasks /\ MaxTasks \in Nat /\ DOMAIN rows = 1 .. MaxTasks
    BY BoundsAssumption DEF TasksInv, PlacesInv, ClaimInv, CreateRow, Ids
  <1> DEFINE req == client[c].req
             new == [status |-> "queued", req |-> req, run |-> 0, partial |-> FALSE]
  <1>2. /\ made' = made + 1 /\ rows' = [rows EXCEPT ![made + 1] = new]
        /\ lock' = lock \ {c} /\ UNCHANGED <<worker, late>>
        /\ client[c].pc = "create"
        /\ client'[c].pc = "enqueue"
        /\ \A d \in Clients \ {c} : client'[d] = client[d]
    BY <1>1 DEF CreateRow
  <1>3. /\ made + 1 \in DOMAIN rows /\ DOMAIN rows' = DOMAIN rows
        /\ Made' = Made \cup {made + 1} /\ Made \subseteq DOMAIN rows
        /\ \A t \in Made : t < made + 1
    BY <1>1, <1>2 DEF Made
  <1>4. /\ rows'[made + 1] = new
        /\ \A t \in Made : rows'[t] = rows[t]
    BY <1>2, <1>3
  <1>5. StaysOver BY <1>4 DEF StaysOver
  <1>6. ClaimInv'
    <2>1. \A w \in Workers : worker[w].pc = "claim" => worker[w].task \in Made
      BY <1>1 DEF PlacesInv, Busy
    <2>2. made' <= MaxTasks BY <1>1, <1>2
    <2> QED BY <1>1, <1>2, <1>3, <1>4, <2>1, <2>2 DEF ClaimInv
  <1>7. /\ c \in lock
        /\ \A t \in Made : rows[t].req = req => ~Undisturbed(t)
        /\ \A d \in Clients \ {c} : ~Inside(d)
    BY <1>1, <1>2 DEF LockInv, Inside
  <1>8. \A t \in Made : Undisturbed(t)' => Undisturbed(t)
    BY <1>2, <1>4 DEF Undisturbed
  <1>9. \A t, u \in Made' : t < u /\ rows'[t].req = rows'[u].req => ~Undisturbed(t)'
    <2> SUFFICES ASSUME NEW t \in Made', NEW u \in Made', t < u, rows'[t].req = rows'[u].req
                 PROVE  ~Undisturbed(t)'
      OBVIOUS
    <2>1. t \in Made
      <3>1. CASE u \in Made BY <1>1, <1>3, <3>1 DEF Made
      <3>2. CASE u = made + 1 BY <1>1, <1>3, <3>2 DEF Made
      <3> QED BY <1>3, <3>1, <3>2
    <2>2. CASE u \in Made
      <3>1. ~Undisturbed(t) BY <1>1, <1>4, <2>1, <2>2 DEF LockInv
      <3> QED BY <1>8, <2>1, <3>1
    <2>3. CASE u = made + 1
      <3>1. rows[t].req = req BY <1>4, <2>1, <2>3
      <3> QED BY <1>7, <1>8, <2>1, <3>1
    <2> QED BY <1>3, <2>2, <2>3
  <1>10. \A d \in Clients : ~Inside(d)'
    BY <1>2, <1>7 DEF Inside
  <1>11. \A a, b \in lock' : a = b BY <1>1, <1>2 DEF LockInv
  <1>12. LockInv' BY <1>9, <1>10, <1>11 DEF LockInv, Inside
  <1> QED BY <1>5, <1>6, <1>12

\* Every step of a request keeps the invariant.
LEMMA RequestKeepsInv ==
  ASSUME TasksInv, NEW c \in Clients, ClientStep(c)
  PROVE  ClaimInv' /\ LockInv' /\ StaysOver
  <1>1. PlacesInv /\ ClaimInv /\ LockInv /\ DOMAIN client = Clients
    BY DEF TasksInv, PlacesInv
  <1> DEFINE Outside == /\ \A d \in Clients \ {c} : client'[d] = client[d]
                        /\ lock' = lock \/ lock' = lock \ {c}
                        /\ ~Inside(c)'
             Reads == UNCHANGED <<rows, made, worker, late>>
  <1>2. Steady => StaysOver BY DEF Steady
  <1>3. ASSUME Outside, Reads PROVE ClaimInv' /\ LockInv' /\ StaysOver
    BY <1>1, <1>2, <1>3, RequestIsSteady, OutsideKeepsLock
  <1>4. CreateTask(c) => Outside /\ Reads BY <1>1 DEF CreateTask, Inside
  <1>5. RetryTask(c) => Outside /\ Reads BY <1>1 DEF RetryTask, Inside
  <1>6. ReadTask(c) => Outside /\ Reads BY <1>1 DEF ReadTask, Inside
  <1>7. SyncRun(c) => Outside /\ Reads BY <1>1 DEF SyncRun, Inside, NoClient
  <1>8. Duplicate(c) => Outside /\ Reads BY <1>1 DEF Duplicate, Answered, Inside, NoClient
  <1>9. Enqueue(c) => Outside /\ Reads BY <1>1 DEF Enqueue, Inside, NoClient
  <1>10. ASSUME StopTask(c) PROVE ClaimInv' /\ LockInv' /\ StaysOver
    <2>1. Outside /\ UNCHANGED <<made, worker>>
      BY <1>1, <1>10 DEF StopTask, Inside
    <2>2. PICK s \in Stopped : rows' = WithStatus(client[c].task, s) /\ NoteLate(client[c].task)
      BY <1>10 DEF StopTask
    <2>3. ClaimInv' /\ Steady BY <1>1, <2>1, <2>2, StopIsSteady
    <2> QED BY <1>1, <1>2, <2>1, <2>3, OutsideKeepsLock
  <1>11. ASSUME FindActive(c) PROVE ClaimInv' /\ LockInv' /\ StaysOver
    <2>1. Reads BY <1>11 DEF FindActive
    <2>2. ClaimInv' /\ Steady BY <1>1, <2>1, RequestIsSteady
    <2> QED BY <1>2, <1>11, <2>2, FindKeepsLock
  <1>12. ASSUME ExpireFound(c) PROVE ClaimInv' /\ LockInv' /\ StaysOver
    <2>1. /\ rows' = WithStatus(client[c].task, "timeout") /\ NoteLate(client[c].task)
          /\ UNCHANGED <<made, worker>> /\ "timeout" \in Stopped
      BY <1>12 DEF ExpireFound, Stopped
    <2>2. ClaimInv' /\ Steady BY <1>1, <2>1, StopIsSteady
    <2> QED BY <1>2, <1>12, <2>2, ExpireKeepsLock
  <1>13. ASSUME RefreshFound(c) PROVE ClaimInv' /\ LockInv' /\ StaysOver
    <2>1. Reads BY <1>13 DEF RefreshFound
    <2>2. ClaimInv' /\ Steady BY <1>1, <2>1, RequestIsSteady
    <2> QED BY <1>2, <1>13, <2>2, RefreshKeepsLock
  <1>14. CreateRow(c) => ClaimInv' /\ LockInv' /\ StaysOver
    BY CreateKeepsInv
  <1> QED BY <1>3, <1>4, <1>5, <1>6, <1>7, <1>8, <1>9, <1>10, <1>11, <1>12, <1>13, <1>14
          DEF ClientStep

\* Every step keeps the invariant and brings no task that is over to life
\* unless its stop came late.
LEMMA TasksNext == TasksInv /\ [Next]_vars => TasksInv' /\ (StaysOver \/ UNCHANGED vars)
  <1> SUFFICES ASSUME TasksInv, [Next]_vars
               PROVE  TasksInv' /\ (StaysOver \/ UNCHANGED vars)
    OBVIOUS
  <1>1. PlacesInv' BY PlacesNext DEF TasksInv
  <1>2. PlacesInv /\ ClaimInv /\ LockInv BY DEF TasksInv
  <1>3. CASE UNCHANGED vars
    <2>1. ClaimInv' /\ Steady BY <1>2, <1>3, RequestIsSteady DEF vars
    <2>2. LockInv' BY <1>2, <1>3, <2>1, WorkersKeepLock DEF vars
    <2> QED BY <1>1, <1>3, <2>1, <2>2 DEF TasksInv
  <1>4. ASSUME NEW c \in Clients, ClientStep(c) PROVE TasksInv' /\ StaysOver
    BY <1>1, <1>4, RequestKeepsInv DEF TasksInv
  <1>5. ASSUME NEW w \in Workers, WorkerStep(w) PROVE TasksInv' /\ StaysOver
    <2>1. ClaimInv' /\ Steady BY <1>2, <1>5, WorkersAreSteady
    <2>2. UNCHANGED <<client, lock>>
      BY <1>5 DEF WorkerStep, Take, Claim, Analyse, OpenRun, CompleteRun, StartRun, SaveProgress, CheckStopped,
                  GiveUp, RunModule, CloseRun, Raise, CheckCurrent, Store
    <2>3. LockInv' BY <1>2, <2>1, <2>2, WorkersKeepLock
    <2> QED BY <1>1, <2>1, <2>3 DEF TasksInv, Steady
  <1>6. CASE Restart
    <2>1. /\ UNCHANGED <<rows, made, late>> /\ lock' = {}
          /\ \A c \in Clients : client'[c].pc = "idle"
          /\ \A w \in Workers : worker'[w].pc = "idle"
      BY <1>6 DEF Restart, NoClient, NoWorker
    <2>2. ClaimInv' BY <1>2, <2>1 DEF ClaimInv
    <2>3. LockInv' BY <1>2, <2>1 DEF LockInv, Undisturbed, Made
    <2>4. StaysOver BY <2>1 DEF StaysOver
    <2> QED BY <1>1, <2>2, <2>3, <2>4 DEF TasksInv
  <1> QED BY <1>3, <1>4, <1>5, <1>6 DEF Next

\* At the start there is no row and the lock is free.
LEMMA TasksInit == Init => TasksInv
  <1> SUFFICES ASSUME Init PROVE TasksInv
    OBVIOUS
  <1>1. PlacesInv BY PlacesInit
  <1>2. ClaimInv
    BY BoundsAssumption DEF Init, ClaimInv, NoWorker
  <1>3. LockInv
    BY DEF Init, LockInv, Made, NoClient
  <1> QED BY <1>1, <1>2, <1>3 DEF TasksInv

\* The invariant of the tasks: places, claims and the submission lock.
THEOREM TasksInvariant == Spec => []TasksInv
  <1>1. TasksInv /\ [Next]_vars => TasksInv' BY TasksNext
  <1> QED BY TasksInit, <1>1, PTL DEF Spec

\* submit_task answers one request with one live task
\* (src/apps/api/domains/tasks/service.py:67-84), for any number of threads.
THEOREM OneLiveTask == Spec => []OneLivePerRequest
  <1>1. TasksInv => OneLivePerRequest
    <2> SUFFICES ASSUME TasksInv, NEW t \in Made, NEW u \in Made,
                        rows[t].req = rows[u].req, Undisturbed(t), Undisturbed(u)
                 PROVE  t = u
      BY DEF OneLivePerRequest
    <2>1. t < u \/ t = u \/ u < t BY DEF Made
    <2> QED BY <2>1 DEF TasksInv, LockInv
  <1> QED BY <1>1, TasksInvariant, PTL

\* A task that is over stays so, but for the stop that a worker overwrites.
THEOREM OverStaysOver == Spec => OverIsOver
  <1>1. TasksInv /\ [Next]_vars => [StaysOver]_vars BY TasksNext
  <1> QED BY <1>1, TasksInvariant, PTL DEF Spec, OverIsOver

(***************************************************************************)
(* Types, and the research runs that show "running".                        *)
(***************************************************************************)

\* The tables hold what they may.
RowsOK ==
    /\ made \in 0 .. MaxTasks
    /\ rows \in [Ids -> Row \cup {NoRow}]
    /\ \A t \in Made : rows[t] # NoRow

\* Whoever is about to stop a task, or has stopped one, has read its row.
StopsKnown == \A c \in Clients :
    client[c].pc \in {"stop", "sync"} => client[c].task \in Made

\* A worker in this state has opened its research run and not closed it.
OnRun(s) == s.pc \in {"record", "progress", "loop", "module", "giveup"}

\* The runs nobody answers for.
Excused == broken \cup untold

\* RunSettles holds because of them alone: a worker that only writes its row
\* has closed its run before.
RunsHeld == \A r \in Ids : runs[r] = "running" =>
    r \in Excused \/ \E w \in Workers : OnRun(worker[w]) /\ worker[w].run = r

TypesInv == TypeOK /\ StopsKnown /\ RunsHeld

\* A row that was created has all its fields.
LEMMA RowFields ==
  ASSUME TypeOK, NEW t \in Made
  PROVE  /\ t \in Ids /\ rows[t] \in Row
         /\ rows[t].status \in Status /\ rows[t].req \in Fingerprints
         /\ rows[t].run \in {0} \cup Ids /\ rows[t].partial \in BOOLEAN
         /\ rows[t].req.base \in Requests
  <1>1. t \in Ids BY BoundsAssumption DEF TypeOK, Made, Ids
  <1>2. rows[t] \in Row BY <1>1 DEF TypeOK
  <1> QED BY <1>1, <1>2 DEF Row, Fingerprints

\* What a request carries in each place of its handler.
LEMMA ClientFields ==
  ASSUME TypeOK, NEW c \in Clients
  PROVE  /\ client[c].pc \in {"submit", "create", "found", "foundsync"} =>
               client[c].req \in Fingerprints
         /\ client[c].pc \in {"found", "foundsync", "stop", "sync", "enqueue"} =>
               client[c].task \in Ids
  <1>1. client[c] \in ClientState BY DEF TypeOK
  <1> QED BY <1>1 DEF ClientState

\* What a worker carries in each place of its execution.
LEMMA WorkerFields ==
  ASSUME TypeOK, NEW w \in Workers
  PROVE  /\ Busy(w) => worker[w].task \in Ids /\ worker[w].run \in {0} \cup Ids
         /\ OnRun(worker[w]) => worker[w].run \in Ids
         /\ worker[w].pc \in {"claim", "analyse"} => worker[w].run = 0
         /\ worker[w].pc \in {"progress", "module"} => worker[w].todo \in 1 .. Modules
         /\ worker[w].pc = "loop" => worker[w].todo \in 0 .. Modules
         /\ worker[w].pc = "giveup" => worker[w].seen \in Stopped
         /\ worker[w].pc \in {"check", "store"} =>
               worker[w].out \in {"ok", "partial", "no", "raised"}
  <1>1. worker[w] \in WorkerState BY DEF TypeOK
  <1> QED BY <1>1 DEF WorkerState, Busy, OnRun

\* One row is rewritten.
LEMMA RowWritten ==
  ASSUME TypeOK, NEW t \in Made, NEW r \in Row, made' = made,
         rows' = [rows EXCEPT ![t] = r]
  PROVE  RowsOK'
  <1>1. Made \subseteq Ids /\ r # NoRow
    BY RowFields DEF Row, NoRow, Status, Live, Stopped
  <1>2. rows' \in [Ids -> Row \cup {NoRow}]
    BY <1>1 DEF TypeOK
  <1>3. \A u \in Made : rows'[u] # NoRow
    BY <1>1 DEF TypeOK
  <1> QED BY <1>2, <1>3 DEF RowsOK, TypeOK, Made

\* A status is written.
LEMMA StatusWritten ==
  ASSUME TypeOK, NEW t \in Made, NEW s \in Status, made' = made, rows' = WithStatus(t, s)
  PROVE  RowsOK'
  <1> DEFINE r == [status |-> s, req |-> rows[t].req, run |-> rows[t].run,
                   partial |-> rows[t].partial]
  <1>1. r \in Row BY RowFields DEF Row
  <1>2. rows' = [rows EXCEPT ![t] = r] BY DEF WithStatus
  <1> HIDE DEF r
  <1> QED BY <1>1, <1>2, RowWritten

\* A request goes on to another place of its handler.
LEMMA ClientGoes ==
  ASSUME TypeOK, StopsKnown, NEW c \in Clients, NEW s \in ClientState,
         Made \subseteq Made',
         s.pc \in {"stop", "sync"} => s.task \in Made,
         client' = [client EXCEPT ![c] = s]
  PROVE  client' \in [Clients -> ClientState] /\ StopsKnown'
  <1>1. client \in [Clients -> ClientState] BY DEF TypeOK
  <1>2. client' \in [Clients -> ClientState] BY <1>1
  <1>3. client'[c] = s /\ \A d \in Clients : d # c => client'[d] = client[d] BY <1>1
  <1> QED BY <1>2, <1>3 DEF StopsKnown

\* A worker goes on to another place of its execution.
LEMMA WorkerGoes ==
  ASSUME TypeOK, NEW w \in Workers, NEW s \in WorkerState,
         worker' = [worker EXCEPT ![w] = s]
  PROVE  /\ worker' \in [Workers -> WorkerState]
         /\ worker'[w] = s /\ \A v \in Workers : v # w => worker'[v] = worker[v]
  BY DEF TypeOK

\* What a request writes besides its own place.
RestOK ==
    /\ runs \in [Ids -> RunStatus]
    /\ queue \in Seq(Ids)
    /\ lock \subseteq Clients
    /\ worker \in [Workers -> WorkerState]
    /\ late \subseteq Ids
    /\ broken \subseteq {0} \cup Ids
    /\ untold \subseteq Ids
    /\ crashes \in 0 .. MaxCrashes

\* The run that a stop is carried over to gets a status of its own, never "running".
LEMMA SyncedTypes ==
  ASSUME TypeOK, NEW t \in Made
  PROVE  /\ Synced(t) \in [Ids -> RunStatus]
         /\ \A r \in Ids : Synced(t)[r] = "running" => runs[r] = "running"
  <1>1. /\ runs \in [Ids -> RunStatus]
        /\ rows[t].run \in {0} \cup Ids
    BY RowFields DEF TypeOK
  <1>2. CASE Evaluation(t) /\ rows[t].status \in Stopped /\ rows[t].run # 0
    <2>1. Synced(t) = [runs EXCEPT ![rows[t].run] = rows[t].status]
      BY <1>2 DEF Synced
    <2>2. rows[t].status \in RunStatus /\ rows[t].status # "running"
      BY <1>2 DEF RunStatus, Stopped
    <2>3. \A r \in Ids : Synced(t)[r] = IF r = rows[t].run THEN rows[t].status ELSE runs[r]
      BY <1>1, <1>2, <2>1
    <2> QED BY <1>1, <2>1, <2>2, <2>3
  <1>3. CASE ~(Evaluation(t) /\ rows[t].status \in Stopped /\ rows[t].run # 0)
    BY <1>1, <1>3 DEF Synced
  <1> QED BY <1>2, <1>3

\* A stop is noted under the id of a row.
LEMMA NotedTypes ==
  ASSUME TypeOK, NEW t \in Made, NoteLate(t)
  PROVE  late' \subseteq Ids
  BY RowFields DEF NoteLate, TypeOK

\* The requests that leave the tables alone and are not under the lock.
LEMMA AskingTypes ==
  ASSUME TypeOK, StopsKnown, NEW c \in Clients,
         CreateTask(c) \/ RetryTask(c) \/ ReadTask(c)
  PROVE  client' \in [Clients -> ClientState] /\ StopsKnown'
  <1>1. CASE CreateTask(c)
    <2>1. PICK b \in Requests, r \in {0} \cup Ids :
             client' = [client EXCEPT ![c] = [pc |-> "submit", req |-> [base |-> b, run |-> r]]]
      BY <1>1 DEF CreateTask
    <2>2. [base |-> b, run |-> r] \in Fingerprints BY DEF Fingerprints
    <2> DEFINE s == [pc |-> "submit", req |-> [base |-> b, run |-> r]]
    <2>3. s \in ClientState /\ s.pc = "submit" BY <2>2 DEF ClientState
    <2>4. Made \subseteq Made' BY <1>1 DEF CreateTask, Made
    <2> HIDE DEF s
    <2> QED BY <2>1, <2>3, <2>4, ClientGoes DEF s
  <1>2. CASE RetryTask(c)
    <2>1. PICK t \in Made :
             client' = [client EXCEPT ![c] =
                [pc |-> "submit",
                 req |-> IF Evaluation(t) /\ rows[t].run # 0
                           THEN [base |-> rows[t].req.base, run |-> rows[t].run]
                           ELSE rows[t].req]]
      BY <1>2 DEF RetryTask
    <2> DEFINE q == IF Evaluation(t) /\ rows[t].run # 0
                      THEN [base |-> rows[t].req.base, run |-> rows[t].run]
                      ELSE rows[t].req
               s == [pc |-> "submit", req |-> q]
    <2>2. rows[t].req \in Fingerprints /\ rows[t].req.base \in Requests /\ rows[t].run \in {0} \cup Ids
      BY RowFields
    <2>3. [base |-> rows[t].req.base, run |-> rows[t].run] \in Fingerprints
      BY <2>2 DEF Fingerprints
    <2>4. q \in Fingerprints BY <2>2, <2>3
    <2> HIDE DEF q
    <2>5. s \in ClientState /\ s.pc = "submit" BY <2>4 DEF ClientState
    <2>6. Made \subseteq Made' BY <1>2 DEF RetryTask, Made
    <2>7. client' = [client EXCEPT ![c] = s] BY <2>1 DEF q
    <2> HIDE DEF s
    <2> QED BY <2>5, <2>6, <2>7, ClientGoes
  <1>3. CASE ReadTask(c)
    <2>1. PICK t \in Made : client' = [client EXCEPT ![c] = [pc |-> "stop", task |-> t]]
      BY <1>3 DEF ReadTask
    <2> DEFINE s == [pc |-> "stop", task |-> t]
    <2>2. t \in Ids BY RowFields
    <2>3. s \in ClientState /\ s.task = t BY <2>2 DEF ClientState
    <2>4. Made \subseteq Made' BY <1>3 DEF ReadTask, Made
    <2> HIDE DEF s
    <2> QED BY <2>1, <2>3, <2>4, ClientGoes DEF s
  <1> QED BY <1>1, <1>2, <1>3

\* The request that stops a task.
LEMMA StoppingTypes ==
  ASSUME TypeOK, StopsKnown, NEW c \in Clients, StopTask(c) \/ SyncRun(c)
  PROVE  RowsOK' /\ RestOK' /\ client' \in [Clients -> ClientState] /\ StopsKnown'
  <1> DEFINE t == client[c].task
  <1>1. t \in Made /\ t \in Ids
    BY ClientFields DEF StopsKnown, StopTask, SyncRun
  <1>2. Made \subseteq Made' BY DEF StopTask, SyncRun, Made
  <1>3. CASE StopTask(c)
    <2>1. PICK s \in Stopped : rows' = WithStatus(t, s)
      BY <1>3 DEF StopTask
    <2>2. s \in Status BY DEF Status
    <2>3. RowsOK' BY <1>1, <1>3, <2>1, <2>2, StatusWritten DEF StopTask
    <2>4. late' \subseteq Ids BY <1>1, <1>3, NotedTypes DEF StopTask
    <2>5. RestOK' BY <1>3, <2>4 DEF StopTask, RestOK, TypeOK
    <2> DEFINE n == [pc |-> "sync", task |-> t]
    <2>6. n \in ClientState /\ n.task = t /\ client' = [client EXCEPT ![c] = n]
      BY <1>1, <1>3 DEF ClientState, StopTask
    <2> HIDE DEF n
    <2> QED BY <1>1, <1>2, <2>3, <2>5, <2>6, ClientGoes
  <1>4. CASE SyncRun(c)
    <2>1. RowsOK' BY <1>4 DEF SyncRun, RowsOK, TypeOK, Made
    <2>2. runs' \in [Ids -> RunStatus] BY <1>1, <1>4, SyncedTypes DEF SyncRun
    <2>3. RestOK' BY <1>4, <2>2 DEF SyncRun, RestOK, TypeOK
    <2>4. NoClient \in ClientState /\ NoClient.pc = "idle" BY DEF NoClient, ClientState
    <2>5. client' = [client EXCEPT ![c] = NoClient] BY <1>4 DEF SyncRun
    <2> QED BY <1>2, <2>1, <2>3, <2>4, <2>5, ClientGoes
  <1> QED BY <1>3, <1>4

\* The submission looks for its request under the lock.
LEMMA FindTypes ==
  ASSUME TypeOK, StopsKnown, NEW c \in Clients, FindActive(c)
  PROVE  RowsOK' /\ RestOK' /\ client' \in [Clients -> ClientState] /\ StopsKnown'
  <1> DEFINE q == client[c].req
  <1>1. q \in Fingerprints BY ClientFields DEF FindActive
  <1>2. Made \subseteq Made' /\ RowsOK' BY DEF FindActive, RowsOK, TypeOK, Made
  <1>3. lock' \subseteq Clients BY DEF FindActive, TypeOK
  <1>4. RestOK' BY <1>3 DEF FindActive, RestOK, TypeOK
  <1>5. PICK s \in ClientState :
           s.pc \in {"create", "found"} /\ client' = [client EXCEPT ![c] = s]
    <2> HIDE DEF q
    <2>1. [pc |-> "create", req |-> q] \in ClientState BY <1>1 DEF ClientState
    <2>2. CASE client' = [client EXCEPT ![c] = [pc |-> "create", req |-> q]]
      BY <2>1, <2>2
    <2>3. ASSUME NEW t \in Made,
                 client' = [client EXCEPT ![c] = [pc |-> "found", req |-> q, task |-> t]]
          PROVE  \E s \in ClientState :
                    s.pc \in {"create", "found"} /\ client' = [client EXCEPT ![c] = s]
      <3>1. t \in Ids BY RowFields
      <3>2. [pc |-> "found", req |-> q, task |-> t] \in ClientState
        BY <1>1, <3>1 DEF ClientState
      <3> QED BY <2>3, <3>2
    <2>4. \/ client' = [client EXCEPT ![c] = [pc |-> "create", req |-> q]]
          \/ \E t \in Made :
                client' = [client EXCEPT ![c] = [pc |-> "found", req |-> q, task |-> t]]
      BY DEF FindActive, Actives, q
    <2> QED BY <2>2, <2>3, <2>4
  <1> QED BY <1>2, <1>4, <1>5, ClientGoes

\* What it has found is a duplicate, or times out and is read again.
LEMMA FoundTypes ==
  ASSUME TypeOK, StopsKnown, LockInv, NEW c \in Clients,
         Duplicate(c) \/ ExpireFound(c) \/ RefreshFound(c)
  PROVE  RowsOK' /\ RestOK' /\ client' \in [Clients -> ClientState] /\ StopsKnown'
  <1> DEFINE t == client[c].task
             q == client[c].req
  <1>1. t \in Made /\ t \in Ids /\ q \in Fingerprints
    BY ClientFields DEF LockInv, Duplicate, ExpireFound, RefreshFound
  <1>2. Made \subseteq Made' BY DEF Duplicate, ExpireFound, RefreshFound, Made
  <1>3. /\ [pc |-> "create", req |-> q] \in ClientState
        /\ [pc |-> "foundsync", req |-> q, task |-> t] \in ClientState
        /\ NoClient \in ClientState /\ NoClient.pc = "idle"
    BY <1>1 DEF ClientState, NoClient
  <1>4. CASE Duplicate(c)
    <2>1. RowsOK' BY <1>4 DEF Duplicate, RowsOK, TypeOK, Made
    <2>2. RestOK' BY <1>4 DEF Duplicate, Answered, RestOK, TypeOK
    <2>3. client' = [client EXCEPT ![c] = NoClient] BY <1>4 DEF Duplicate, Answered
    <2> QED BY <1>2, <1>3, <2>1, <2>2, <2>3, ClientGoes
  <1>5. CASE ExpireFound(c)
    <2>1. rows' = WithStatus(t, "timeout") /\ made' = made BY <1>5 DEF ExpireFound
    <2>2. "timeout" \in Status BY DEF Status, Stopped
    <2>3. RowsOK' BY <1>1, <2>1, <2>2, StatusWritten
    <2>4. late' \subseteq Ids BY <1>1, <1>5, NotedTypes DEF ExpireFound
    <2>5. RestOK' BY <1>5, <2>4 DEF ExpireFound, RestOK, TypeOK
    <2> DEFINE n == [pc |-> "foundsync", req |-> q, task |-> t]
    <2>6. n \in ClientState /\ n.pc = "foundsync" /\ client' = [client EXCEPT ![c] = n]
      BY <1>3, <1>5 DEF ExpireFound
    <2> HIDE DEF n
    <2> QED BY <1>2, <2>3, <2>5, <2>6, ClientGoes
  <1>6. CASE RefreshFound(c)
    <2>1. RowsOK' BY <1>6 DEF RefreshFound, RowsOK, TypeOK, Made
    <2>2. runs' \in [Ids -> RunStatus] BY <1>1, <1>6, SyncedTypes DEF RefreshFound
    <2>3. lock' \subseteq Clients BY <1>6 DEF RefreshFound, Answered, TypeOK
    <2>4. RestOK' BY <1>6, <2>2, <2>3 DEF RefreshFound, RestOK, TypeOK
    <2>5. \/ client' = [client EXCEPT ![c] = NoClient]
          \/ client' = [client EXCEPT ![c] = [pc |-> "create", req |-> q]]
      BY <1>6 DEF RefreshFound, Answered
    <2>6. CASE client' = [client EXCEPT ![c] = NoClient]
      BY <1>2, <1>3, <2>1, <2>4, <2>6, ClientGoes
    <2>7. CASE client' = [client EXCEPT ![c] = [pc |-> "create", req |-> q]]
      <3> DEFINE n == [pc |-> "create", req |-> q]
      <3>1. n \in ClientState /\ n.pc = "create" /\ client' = [client EXCEPT ![c] = n]
        BY <1>3, <2>7
      <3> HIDE DEF n
      <3> QED BY <1>2, <2>1, <2>4, <3>1, ClientGoes
    <2> QED BY <2>5, <2>6, <2>7
  <1> QED BY <1>4, <1>5, <1>6

\* A new row, and its way to the executor.
LEMMA CreateTypes ==
  ASSUME TypeOK, StopsKnown, NEW c \in Clients, CreateRow(c)
  PROVE  RowsOK' /\ RestOK' /\ client' \in [Clients -> ClientState] /\ StopsKnown'
  <1> DEFINE r == [status |-> "queued", req |-> client[c].req, run |-> 0, partial |-> FALSE]
             n == [pc |-> "enqueue", task |-> made']
  <1>1. /\ made \in Nat /\ MaxTasks \in Nat /\ made' = made + 1 /\ made' \in 0 .. MaxTasks
        /\ Made \subseteq Ids
    BY BoundsAssumption DEF CreateRow, TypeOK, Made, Ids
  <1>2. made' \in Ids /\ Made \subseteq Made' /\ Made' = Made \cup {made'}
    BY <1>1 DEF Made, Ids
  <1>3. r \in Row /\ r # NoRow
    <2>1. client[c].req \in Fingerprints BY ClientFields DEF CreateRow
    <2> QED BY <2>1 DEF Row, Status, Live, NoRow
  <1>4. rows' = [rows EXCEPT ![made'] = r] BY DEF CreateRow
  <1>5. n \in ClientState /\ n.pc = "enqueue" /\ client' = [client EXCEPT ![c] = n]
    BY <1>2 DEF ClientState, CreateRow
  <1> HIDE DEF r, n
  <1>6. rows' \in [Ids -> Row \cup {NoRow}] /\ \A u \in Made' : rows'[u] # NoRow
    BY <1>1, <1>2, <1>3, <1>4 DEF TypeOK
  <1>7. RowsOK' BY <1>1, <1>6 DEF RowsOK
  <1>8. RestOK' BY DEF CreateRow, RestOK, TypeOK
  <1> QED BY <1>2, <1>5, <1>7, <1>8, ClientGoes

LEMMA EnqueueTypes ==
  ASSUME TypeOK, StopsKnown, NEW c \in Clients, Enqueue(c)
  PROVE  RowsOK' /\ RestOK' /\ client' \in [Clients -> ClientState] /\ StopsKnown'
  <1>1. client[c].task \in Ids BY ClientFields DEF Enqueue
  <1>2. queue' \in Seq(Ids) BY <1>1 DEF Enqueue, TypeOK
  <1>3. RestOK' BY <1>2 DEF Enqueue, RestOK, TypeOK
  <1>4. RowsOK' /\ Made \subseteq Made' BY DEF Enqueue, RowsOK, TypeOK, Made
  <1>5. NoClient \in ClientState /\ NoClient.pc = "idle" BY DEF NoClient, ClientState
  <1>6. client' = [client EXCEPT ![c] = NoClient] BY DEF Enqueue
  <1> QED BY <1>3, <1>4, <1>5, <1>6, ClientGoes

\* Every step of a request.
LEMMA RequestTypes ==
  ASSUME TypeOK, StopsKnown, LockInv, NEW c \in Clients, ClientStep(c)
  PROVE  RowsOK' /\ RestOK' /\ client' \in [Clients -> ClientState] /\ StopsKnown'
  <1>1. CASE CreateTask(c) \/ RetryTask(c) \/ ReadTask(c)
    <2>1. UNCHANGED <<rows, made, runs, queue, lock, worker, late, broken, untold, crashes>>
      BY <1>1 DEF CreateTask, RetryTask, ReadTask
    <2>2. RowsOK' BY <2>1 DEF RowsOK, TypeOK, Made
    <2>3. RestOK' BY <2>1 DEF RestOK, TypeOK
    <2> QED BY <1>1, <2>2, <2>3, AskingTypes
  <1> QED BY <1>1, StoppingTypes, FindTypes, FoundTypes, CreateTypes, EnqueueTypes DEF ClientStep

\* A request opens no research run.
LEMMA RequestOpensNoRun ==
  ASSUME TypeOK, StopsKnown, LockInv, RunsHeld, NEW c \in Clients, ClientStep(c)
  PROVE  RunsHeld'
  <1>1. UNCHANGED <<worker, broken, untold>>
    BY DEF ClientStep, CreateTask, RetryTask, ReadTask, StopTask, SyncRun, FindActive,
           Duplicate, ExpireFound, RefreshFound, CreateRow, Enqueue
  <1>2. \A r \in Ids : runs'[r] = "running" => runs[r] = "running"
    <2>1. CASE SyncRun(c) \/ RefreshFound(c)
      <3>1. client[c].task \in Made /\ runs' = Synced(client[c].task)
        BY <2>1 DEF SyncRun, RefreshFound, StopsKnown, LockInv
      <3> QED BY <3>1, SyncedTypes
    <2>2. CASE ~SyncRun(c) /\ ~RefreshFound(c)
      BY <2>2 DEF ClientStep, CreateTask, RetryTask, ReadTask, StopTask, FindActive,
                  Duplicate, ExpireFound, CreateRow, Enqueue
    <2> QED BY <2>1, <2>2
  <1> QED BY <1>1, <1>2 DEF RunsHeld, Excused

\* What a worker's step leaves alone.
Apart ==
    /\ queue' \in Seq(Ids)
    /\ Excused \subseteq Excused' /\ broken' \subseteq {0} \cup Ids /\ untold' \subseteq Ids
    /\ UNCHANGED <<made, lock, client, late, crashes>>

\* The runs that show "running" are held if the worker that moves holds its
\* run until it has given it another status, and holds what it has opened.
LEMMA HoldersKept ==
  ASSUME RunsHeld, NEW w \in Workers, NEW s,
         worker'[w] = s, \A v \in Workers : v # w => worker'[v] = worker[v],
         Excused \subseteq Excused',
         \A r \in Ids : runs'[r] = "running" =>
             \/ OnRun(s) /\ s.run = r
             \/ /\ runs[r] = "running"
                /\ OnRun(worker[w]) /\ worker[w].run = r => r \in Excused'
  PROVE  RunsHeld'
  <1> SUFFICES ASSUME NEW r \in Ids, runs'[r] = "running"
               PROVE  r \in Excused' \/ \E v \in Workers : OnRun(worker'[v]) /\ worker'[v].run = r
    BY DEF RunsHeld, OnRun
  <1>1. CASE OnRun(s) /\ s.run = r BY <1>1
  <1>2. CASE runs[r] = "running" /\ (OnRun(worker[w]) /\ worker[w].run = r => r \in Excused')
    <2>1. CASE r \in Excused BY <2>1
    <2>2. CASE r \notin Excused
      <3>1. PICK v \in Workers : OnRun(worker[v]) /\ worker[v].run = r
        BY <1>2, <2>2 DEF RunsHeld
      <3> QED BY <1>2, <3>1
    <2> QED BY <2>1, <2>2
  <1> QED BY <1>1, <1>2

\* Before the analysis: the worker has no run yet.
LEMMA TakingTypes ==
  ASSUME TypeOK, RunsHeld, PlacesInv, NEW w \in Workers, Take(w) \/ Claim(w)
  PROVE  RowsOK' /\ runs' \in [Ids -> RunStatus] /\ Apart
         /\ worker' \in [Workers -> WorkerState] /\ RunsHeld'
  <1> DEFINE t == worker[w].task
  <1>1. ~OnRun(worker[w]) BY DEF Take, Claim, OnRun
  <1>2. UNCHANGED <<runs, made, lock, client, late, broken, untold, crashes>>
    BY DEF Take, Claim
  <1>3. ASSUME NEW s \in WorkerState, worker' = [worker EXCEPT ![w] = s]
        PROVE  worker' \in [Workers -> WorkerState] /\ RunsHeld'
    <2>1. /\ worker' \in [Workers -> WorkerState] /\ worker'[w] = s
          /\ \A v \in Workers : v # w => worker'[v] = worker[v]
      BY <1>3, WorkerGoes
    <2> QED BY <1>1, <1>2, <2>1, HoldersKept DEF Excused
  <1>4. NoWorker \in WorkerState BY DEF NoWorker, WorkerState
  <1>5. CASE Take(w)
    <2> DEFINE n == [pc |-> "claim", task |-> Head(queue), run |-> 0]
    <2>1. Head(queue) \in Ids /\ queue' \in Seq(Ids) BY <1>5 DEF Take, TypeOK
    <2>2. n \in WorkerState BY <2>1 DEF WorkerState
    <2>3. \/ worker' = [worker EXCEPT ![w] = n]
          \/ worker' = [worker EXCEPT ![w] = NoWorker]
      BY <1>5 DEF Take
    <2> HIDE DEF n
    <2>4. RowsOK' BY <1>5 DEF Take, RowsOK, TypeOK, Made
    <2>5. runs' \in [Ids -> RunStatus] /\ Apart BY <1>2, <2>1 DEF Apart, Excused, TypeOK
    <2> QED BY <1>3, <1>4, <2>2, <2>3, <2>4, <2>5
  <1>6. CASE Claim(w)
    <2>1. t \in Made /\ t \in Ids /\ worker[w].run = 0
      BY <1>6, WorkerFields DEF Claim, PlacesInv, Busy
    <2>2. "running" \in Status BY DEF Status, Live
    <2>3. RowsOK' BY <1>6, <2>1, <2>2, StatusWritten DEF Claim
    <2> DEFINE n == [pc |-> "analyse", task |-> t, run |-> worker[w].run]
    <2>4. n \in WorkerState BY <2>1 DEF WorkerState
    <2>5. worker' = [worker EXCEPT ![w] = n] BY <1>6 DEF Claim
    <2> HIDE DEF n
    <2>6. runs' \in [Ids -> RunStatus] /\ Apart BY <1>2, <1>6 DEF Claim, Apart, Excused, TypeOK
    <2> QED BY <1>3, <2>3, <2>4, <2>5, <2>6
  <1> QED BY <1>5, <1>6

\* The steps in which a worker goes on to the state s.
LEMMA GoesOnTypes ==
  ASSUME TypeOK, RunsHeld, NEW w \in Workers, NEW s \in WorkerState,
         worker' = [worker EXCEPT ![w] = s], Excused \subseteq Excused',
         \A r \in Ids : runs'[r] = "running" =>
             \/ OnRun(s) /\ s.run = r
             \/ /\ runs[r] = "running"
                /\ OnRun(worker[w]) /\ worker[w].run = r => r \in Excused'
  PROVE  worker' \in [Workers -> WorkerState] /\ RunsHeld'
  <1>1. /\ worker' \in [Workers -> WorkerState] /\ worker'[w] = s
        /\ \A v \in Workers : v # w => worker'[v] = worker[v]
    BY WorkerGoes
  <1> QED BY <1>1, HoldersKept

\* The run an analysis works on is one there may be.
LEMMA RunOfType ==
  ASSUME TypeOK, NEW t \in Made
  PROVE  RunOf(t) \in Ids /\ (rows[t].req.run # 0 => RunOf(t) = rows[t].req.run)
  <1>1. t \in Ids /\ rows[t].req.run \in {0} \cup Ids BY RowFields DEF Fingerprints
  <1> QED BY <1>1 DEF RunOf

\* A single analysis: what it opens it closes, or the failure is noted.
LEMMA SingleTypes ==
  ASSUME TypeOK, RunsHeld, PlacesInv, NEW w \in Workers,
         Analyse(w) \/ OpenRun(w) \/ CompleteRun(w)
  PROVE  RowsOK' /\ runs' \in [Ids -> RunStatus] /\ Apart
         /\ worker' \in [Workers -> WorkerState] /\ RunsHeld'
  <1> DEFINE t == worker[w].task
             run == worker[w].run
  <1>1. /\ t \in Made /\ t \in Ids /\ run \in {0} \cup Ids
        /\ worker[w].pc = "record" => run \in Ids
    BY WorkerFields DEF Analyse, OpenRun, CompleteRun, PlacesInv, Busy, OnRun
  <1>2. RowsOK' BY DEF Analyse, OpenRun, CompleteRun, RowsOK, TypeOK, Made
  <1>3. RunOf(t) \in Ids /\ (rows[t].req.run # 0 => RunOf(t) = rows[t].req.run)
    BY <1>1, RunOfType
  <1>4. CASE OpenRun(w)
    <2>1. runs' = [runs EXCEPT ![RunOf(t)] = "running"] BY <1>4 DEF OpenRun
    <2> DEFINE n == [pc |-> "record", task |-> t, run |-> RunOf(t)]
    <2>2. n \in WorkerState /\ OnRun(n) /\ n.run = RunOf(t)
      BY <1>1, <1>3 DEF WorkerState, OnRun
    <2>3. worker' = [worker EXCEPT ![w] = n] BY <1>4 DEF OpenRun
    <2> HIDE DEF n
    <2>4. runs' \in [Ids -> RunStatus] BY <1>3, <2>1 DEF TypeOK, RunStatus
    <2>5. ~OnRun(worker[w]) BY <1>4 DEF OpenRun, OnRun
    <2>6. Apart /\ Excused \subseteq Excused' BY <1>4 DEF OpenRun, Apart, Excused, TypeOK
    <2>7. \A q \in Ids : runs'[q] = "running" =>
             \/ OnRun(n) /\ n.run = q
             \/ /\ runs[q] = "running"
                /\ OnRun(worker[w]) /\ worker[w].run = q => q \in Excused'
      BY <1>3, <2>1, <2>2, <2>5 DEF TypeOK
    <2>8. worker' \in [Workers -> WorkerState] /\ RunsHeld'
      BY <2>2, <2>3, <2>6, <2>7, GoesOnTypes
    <2> QED BY <1>2, <2>4, <2>6, <2>8
  <1>5. ASSUME NEW out \in {"ok", "no", "raised"}, Outcome(w, out), Apart,
               runs' \in [Ids -> RunStatus],
               \A r \in Ids : runs'[r] = "running" =>
                  /\ runs[r] = "running"
                  /\ OnRun(worker[w]) /\ worker[w].run = r => r \in Excused'
        PROVE  RowsOK' /\ worker' \in [Workers -> WorkerState] /\ RunsHeld'
    <2> DEFINE n == [pc |-> "check", task |-> t, run |-> run, out |-> out]
    <2>1. n \in WorkerState BY <1>1 DEF WorkerState
    <2>2. worker' = [worker EXCEPT ![w] = n] BY <1>5 DEF Outcome
    <2> HIDE DEF n
    <2>3. Excused \subseteq Excused' BY <1>5 DEF Apart
    <2> QED BY <1>2, <1>5, <2>1, <2>2, <2>3, GoesOnTypes
  <1>6. CASE Analyse(w)
    <2>1. ~OnRun(worker[w]) BY <1>6 DEF Analyse, OnRun
    <2>2. Apart BY <1>6 DEF Analyse, Apart, Excused, TypeOK
    <2>3. CASE UNCHANGED runs /\ \E out \in {"ok", "no", "raised"} : Outcome(w, out)
      <3>1. runs' \in [Ids -> RunStatus] BY <2>3 DEF TypeOK
      <3> QED BY <1>5, <2>1, <2>2, <2>3, <3>1
    <2>4. CASE /\ rows[t].req.run # 0
               /\ runs' = [runs EXCEPT ![rows[t].req.run] = "failed"]
               /\ Outcome(w, "no")
      <3>1. runs' = [runs EXCEPT ![RunOf(t)] = "failed"] BY <1>3, <2>4
      <3>2. runs' \in [Ids -> RunStatus] /\ \A r \in Ids : runs'[r] = "running" => runs[r] = "running"
        BY <1>3, <3>1 DEF TypeOK, RunStatus
      <3> QED BY <1>5, <2>1, <2>2, <2>4, <3>2
    <2> QED BY <1>6, <2>2, <2>3, <2>4, <1>5 DEF Analyse, TypeOK, RunStatus
  <1>7. CASE CompleteRun(w)
    <2>1. run \in Ids /\ worker[w].pc = "record" BY <1>1, <1>7 DEF CompleteRun
    <2>2. Apart BY <1>7, <2>1 DEF CompleteRun, Apart, Excused, TypeOK
    <2>3. CASE \/ runs' = [runs EXCEPT ![run] = "succeeded"] /\ Outcome(w, "ok")
               \/ runs' = [runs EXCEPT ![run] = "failed"] /\ Outcome(w, "no")
      <3>1. PICK s \in {"succeeded", "failed"}, out \in {"ok", "no", "raised"} :
              runs' = [runs EXCEPT ![run] = s] /\ Outcome(w, out)
        BY <2>3
      <3>2. /\ runs' \in [Ids -> RunStatus]
            /\ \A r \in Ids : runs'[r] = "running" => runs[r] = "running" /\ r # run
        BY <2>1, <3>1 DEF TypeOK, RunStatus
      <3> QED BY <1>5, <2>2, <3>1, <3>2
    <2>4. CASE /\ \E out \in {"ok", "no"} : Outcome(w, out)
               /\ untold' = untold \cup {run} /\ UNCHANGED runs
      <3>1. PICK out \in {"ok", "no", "raised"} : Outcome(w, out) BY <2>4
      <3>2. /\ runs' \in [Ids -> RunStatus] /\ run \in Excused'
            /\ \A r \in Ids : runs'[r] = "running" => runs[r] = "running"
        BY <2>4 DEF TypeOK, Excused
      <3> QED BY <1>5, <2>2, <2>4, <3>1, <3>2
    <2> QED BY <1>7, <2>3, <2>4, <2>2, <1>5 DEF CompleteRun
  <1> QED BY <1>4, <1>6, <1>7

\* The research run is opened, and the row gets its name.
LEMMA OpeningTypes ==
  ASSUME TypeOK, RunsHeld, PlacesInv, NEW w \in Workers, StartRun(w) \/ SaveProgress(w)
  PROVE  RowsOK' /\ runs' \in [Ids -> RunStatus] /\ Apart
         /\ worker' \in [Workers -> WorkerState] /\ RunsHeld'
  <1> DEFINE t == worker[w].task
  <1>1. t \in Made /\ t \in Ids
    BY WorkerFields DEF StartRun, SaveProgress, PlacesInv, Busy
  <1>2. Apart BY DEF StartRun, SaveProgress, Apart, Excused, TypeOK
  <1>3. CASE StartRun(w)
    <2>1. PICK r : /\ r = RunOf(t)
                   /\ runs' = [runs EXCEPT ![r] = "running"]
                   /\ \E k \in 1 .. Modules :
                         worker' = [worker EXCEPT ![w] =
                                      [pc |-> "progress", task |-> t, run |-> r, todo |-> k]]
      BY <1>3 DEF StartRun
    <2>2. r \in Ids BY <1>1, <2>1, RunOfType
    <2>3. PICK k \in 1 .. Modules :
             worker' = [worker EXCEPT ![w] =
                          [pc |-> "progress", task |-> t, run |-> r, todo |-> k]]
      BY <2>1
    <2> DEFINE n == [pc |-> "progress", task |-> t, run |-> r, todo |-> k]
    <2>4. n \in WorkerState /\ OnRun(n) /\ n.run = r
      BY <1>1, <2>2 DEF WorkerState, OnRun
    <2>5. worker' = [worker EXCEPT ![w] = n] BY <2>3
    <2> HIDE DEF n
    <2>6. runs' \in [Ids -> RunStatus]
      BY <2>1, <2>2 DEF TypeOK, RunStatus
    <2>7. ~OnRun(worker[w]) BY <1>3 DEF StartRun, OnRun
    <2>8. \A q \in Ids : runs'[q] = "running" => q = r \/ runs[q] = "running"
      BY <2>1 DEF TypeOK
    <2>9. RowsOK' BY <1>3 DEF StartRun, RowsOK, TypeOK, Made
    <2>10. Excused \subseteq Excused' BY <1>2 DEF Apart
    <2>11. \A q \in Ids : runs'[q] = "running" =>
              \/ OnRun(n) /\ n.run = q
              \/ /\ runs[q] = "running"
                 /\ OnRun(worker[w]) /\ worker[w].run = q => q \in Excused'
      BY <2>4, <2>7, <2>8
    <2>12. worker' \in [Workers -> WorkerState] /\ RunsHeld'
      BY <2>4, <2>5, <2>10, <2>11, GoesOnTypes
    <2> QED BY <1>2, <2>6, <2>9, <2>12
  <1>4. CASE SaveProgress(w)
    <2> DEFINE k == worker[w].todo
               r == [status |-> rows[t].status, req |-> rows[t].req,
                     run |-> worker[w].run, partial |-> FALSE]
               n == [pc |-> "loop", task |-> t, run |-> worker[w].run, todo |-> k]
    <2>1. /\ worker[w].pc = "progress" /\ worker[w].run \in Ids
          /\ k \in 1 .. Modules /\ OnRun(worker[w])
      BY <1>4, WorkerFields DEF SaveProgress, OnRun
    <2>2. r \in Row BY <1>1, <2>1, RowFields DEF Row
    <2>3. rows' = [rows EXCEPT ![t] = r] /\ made' = made BY <1>4 DEF SaveProgress
    <2>4. k \in 0 .. Modules BY <2>1, BoundsAssumption
    <2>5. n \in WorkerState /\ OnRun(n) /\ n.run = worker[w].run
      BY <1>1, <2>1, <2>4 DEF WorkerState, OnRun
    <2>6. worker' = [worker EXCEPT ![w] = n] BY <1>4 DEF SaveProgress, Advance
    <2> HIDE DEF n, r
    <2>7. RowsOK' BY <1>1, <2>2, <2>3, RowWritten
    <2>8. runs' = runs /\ runs' \in [Ids -> RunStatus] BY <1>4 DEF SaveProgress, TypeOK
    <2>9. Excused \subseteq Excused' BY <1>2 DEF Apart
    <2> QED BY <1>2, <2>5, <2>6, <2>7, <2>8, <2>9, GoesOnTypes
  <1> QED BY <1>3, <1>4

\* The modules of the evaluation.
LEMMA ModuleTypes ==
  ASSUME TypeOK, RunsHeld, PlacesInv, NEW w \in Workers, CheckStopped(w) \/ RunModule(w)
  PROVE  RowsOK' /\ runs' \in [Ids -> RunStatus] /\ Apart
         /\ worker' \in [Workers -> WorkerState] /\ RunsHeld'
  <1> DEFINE t == worker[w].task
             run == worker[w].run
  <1>1. /\ t \in Ids /\ run \in Ids /\ OnRun(worker[w])
    BY WorkerFields DEF CheckStopped, RunModule, Busy, OnRun
  <1>2. Apart /\ Excused \subseteq Excused' BY DEF CheckStopped, RunModule, Apart, Excused, TypeOK
  <1>3. RowsOK' BY DEF CheckStopped, RunModule, RowsOK, TypeOK, Made
  <1>4. CASE CheckStopped(w)
    <2> DEFINE k == worker[w].todo
               m == [pc |-> "module", task |-> t, run |-> run, todo |-> k]
               g == [pc |-> "giveup", task |-> t, run |-> run, seen |-> rows[t].status]
    <2>1. k \in 1 .. Modules BY <1>4, WorkerFields DEF CheckStopped
    <2>2. runs' = runs /\ runs' \in [Ids -> RunStatus] BY <1>4 DEF CheckStopped, TypeOK
    <2>3. \/ worker' = [worker EXCEPT ![w] = m]
          \/ rows[t].status \in Stopped /\ worker' = [worker EXCEPT ![w] = g]
      BY <1>4 DEF CheckStopped, Advance
    <2>4. m \in WorkerState /\ OnRun(m) /\ m.run = run
      BY <1>1, <2>1 DEF WorkerState, OnRun
    <2>5. rows[t].status \in Stopped => g \in WorkerState /\ OnRun(g) /\ g.run = run
      BY <1>1 DEF WorkerState, OnRun
    <2> HIDE DEF m, g
    <2>6. CASE worker' = [worker EXCEPT ![w] = m]
      BY <1>2, <1>3, <2>2, <2>4, <2>6, GoesOnTypes
    <2>7. CASE rows[t].status \in Stopped /\ worker' = [worker EXCEPT ![w] = g]
      BY <1>2, <1>3, <2>2, <2>5, <2>7, GoesOnTypes
    <2> QED BY <2>3, <2>6, <2>7
  <1>5. CASE RunModule(w)
    <2> DEFINE k == worker[w].todo
               n == [pc |-> "loop", task |-> t, run |-> run, todo |-> k - 1]
    <2>1. k \in 1 .. Modules BY <1>5, WorkerFields DEF RunModule
    <2>2. k - 1 \in 0 .. Modules BY <2>1, BoundsAssumption
    <2>3. n \in WorkerState /\ OnRun(n) /\ n.run = run
      BY <1>1, <2>2 DEF WorkerState, OnRun
    <2>4. worker' = [worker EXCEPT ![w] = n] BY <1>5 DEF RunModule, Advance
    <2> HIDE DEF n
    <2>5. PICK s \in RunStatus : runs' = [runs EXCEPT ![run] = s]
      BY <1>1, <1>5 DEF RunModule, TypeOK, RunStatus
    <2>6. runs' \in [Ids -> RunStatus] /\ \A r \in Ids : runs'[r] = "running" => runs[r] = "running" \/ r = run
      BY <1>1, <2>5 DEF TypeOK
    <2>7. \A r \in Ids : runs'[r] = "running" =>
             \/ OnRun(n) /\ n.run = r
             \/ /\ runs[r] = "running"
                /\ OnRun(worker[w]) /\ worker[w].run = r => r \in Excused'
      BY <2>3, <2>6
    <2> QED BY <1>2, <1>3, <2>3, <2>4, <2>6, <2>7, GoesOnTypes
  <1> QED BY <1>4, <1>5

\* The end of the evaluation: the run has been given a status, or the error
\* that kept it from one is noted.
LEMMA ClosingTypes ==
  ASSUME TypeOK, RunsHeld, PlacesInv, NEW w \in Workers,
         GiveUp(w) \/ CloseRun(w) \/ Raise(w)
  PROVE  RowsOK' /\ runs' \in [Ids -> RunStatus] /\ Apart
         /\ worker' \in [Workers -> WorkerState] /\ RunsHeld'
  <1> DEFINE t == worker[w].task
             run == worker[w].run
  <1>1. /\ t \in Ids /\ run \in {0} \cup Ids
        /\ GiveUp(w) \/ CloseRun(w) => run \in Ids
    BY WorkerFields DEF GiveUp, CloseRun, Raise, Busy, OnRun
  <1>2. Apart /\ Excused \subseteq Excused'
    BY <1>1 DEF GiveUp, CloseRun, Raise, Apart, Excused, TypeOK
  <1>3. RowsOK' BY DEF GiveUp, CloseRun, Raise, RowsOK, TypeOK, Made
  <1>4. \E out \in {"ok", "partial", "no", "raised"} : Outcome(w, out)
    <2>1. GiveUp(w) => Outcome(w, "no") BY DEF GiveUp
    <2>2. Raise(w) => Outcome(w, "raised") BY DEF Raise
    <2>3. CloseRun(w) => \E out \in {"ok", "partial", "no"} : Outcome(w, out)
      BY DEF CloseRun
    <2> QED BY <2>1, <2>2, <2>3
  <1>5. PICK out \in {"ok", "partial", "no", "raised"} : Outcome(w, out) BY <1>4
  <1> DEFINE n == [pc |-> "check", task |-> t, run |-> run, out |-> out]
  <1>6. n \in WorkerState BY <1>1 DEF WorkerState
  <1>7. worker' = [worker EXCEPT ![w] = n] BY <1>5 DEF Outcome
  <1> HIDE DEF n
  <1>8. CASE Raise(w)
    <2>1. runs' = runs /\ runs' \in [Ids -> RunStatus] /\ run \in Excused'
      BY <1>8 DEF Raise, Excused, TypeOK
    <2> QED BY <1>2, <1>3, <1>6, <1>7, <2>1, GoesOnTypes
  <1>9. CASE GiveUp(w) \/ CloseRun(w)
    <2>1. PICK s \in RunStatus \ {"running"} : runs' = [runs EXCEPT ![run] = s]
      <3>1. CASE GiveUp(w)
        <4>1. worker[w].seen \in Stopped /\ runs' = [runs EXCEPT ![run] = worker[w].seen]
          BY <3>1, WorkerFields DEF GiveUp
        <4> QED BY <4>1 DEF Stopped, RunStatus
      <3>2. CASE CloseRun(w)
        <4>1. PICK v \in {<<"succeeded", "ok">>, <<"partial", "partial">>, <<"failed", "no">>} :
                 runs' = [runs EXCEPT ![run] = v[1]]
          BY <3>2 DEF CloseRun
        <4>2. v[1] \in {"succeeded", "partial", "failed"}
          OBVIOUS
        <4> QED BY <4>1, <4>2 DEF RunStatus
      <3> QED BY <1>9, <3>1, <3>2
    <2>2. runs' \in [Ids -> RunStatus] /\ \A r \in Ids : runs'[r] = "running" => runs[r] = "running" /\ r # run
      BY <1>1, <1>9, <2>1 DEF TypeOK
    <2> QED BY <1>2, <1>3, <1>6, <1>7, <2>2, GoesOnTypes
  <1> QED BY <1>8, <1>9

\* The result goes into the row.
LEMMA StoringTypes ==
  ASSUME TypeOK, RunsHeld, PlacesInv, NEW w \in Workers, CheckCurrent(w) \/ Store(w)
  PROVE  RowsOK' /\ runs' \in [Ids -> RunStatus] /\ Apart
         /\ worker' \in [Workers -> WorkerState] /\ RunsHeld'
  <1> DEFINE t == worker[w].task
             run == worker[w].run
             out == worker[w].out
  <1>1. /\ t \in Made /\ t \in Ids /\ run \in {0} \cup Ids
        /\ out \in {"ok", "partial", "no", "raised"}
    BY WorkerFields DEF CheckCurrent, Store, Busy, PlacesInv
  <1>2. /\ Apart /\ Excused \subseteq Excused' /\ ~OnRun(worker[w])
        /\ runs' = runs /\ runs' \in [Ids -> RunStatus]
    BY DEF CheckCurrent, Store, Apart, Excused, OnRun, TypeOK
  <1>3. NoWorker \in WorkerState BY DEF NoWorker, WorkerState
  <1>4. RowsOK'
    <2>1. CASE CheckCurrent(w) BY <2>1 DEF CheckCurrent, RowsOK, TypeOK, Made
    <2>2. CASE Store(w)
      <3> DEFINE r == [status |-> IF out \in {"ok", "partial"} THEN "succeeded" ELSE "failed",
                       req |-> rows[t].req,
                       run |-> IF out = "raised" THEN rows[t].run ELSE run,
                       partial |-> IF out = "raised" THEN rows[t].partial ELSE out = "partial"]
      <3>1. /\ (IF out \in {"ok", "partial"} THEN "succeeded" ELSE "failed") \in Status
            /\ (IF out = "raised" THEN rows[t].run ELSE run) \in {0} \cup Ids
        BY <1>1, RowFields DEF Status
      <3>2. (IF out = "raised" THEN rows[t].partial ELSE out = "partial") \in BOOLEAN
        BY <1>1, RowFields, Zenon
      <3>3. r \in Row BY <1>1, <3>1, <3>2, RowFields DEF Row
      <3>4. rows' = [rows EXCEPT ![t] = r] /\ made' = made BY <2>2 DEF Store, Stored
      <3> HIDE DEF r
      <3> QED BY <1>1, <3>3, <3>4, RowWritten
    <2> QED BY <2>1, <2>2
  <1>5. CASE worker' = [worker EXCEPT ![w] = NoWorker]
    BY <1>2, <1>3, <1>4, <1>5, GoesOnTypes
  <1>6. CASE worker' = [worker EXCEPT ![w] =
                          [pc |-> "store", task |-> t, run |-> run, out |-> out]]
    <2> DEFINE n == [pc |-> "store", task |-> t, run |-> run, out |-> out]
    <2>1. n \in WorkerState BY <1>1 DEF WorkerState
    <2>2. worker' = [worker EXCEPT ![w] = n] BY <1>6
    <2> HIDE DEF n
    <2> QED BY <1>2, <1>4, <2>1, <2>2, GoesOnTypes
  <1> QED BY <1>5, <1>6 DEF CheckCurrent, Store

\* Every step of a worker.
LEMMA WorkerTypes ==
  ASSUME TypeOK, RunsHeld, PlacesInv, NEW w \in Workers, WorkerStep(w)
  PROVE  RowsOK' /\ runs' \in [Ids -> RunStatus] /\ Apart
         /\ worker' \in [Workers -> WorkerState] /\ RunsHeld'
  BY TakingTypes, SingleTypes, OpeningTypes, ModuleTypes, ClosingTypes, StoringTypes DEF WorkerStep

\* At a restart every run that a worker had open is broken.
LEMMA RestartTypes ==
  ASSUME TypeOK, RunsHeld, Restart
  PROVE  TypeOK' /\ StopsKnown' /\ RunsHeld'
  <1>1. /\ client' = [c \in Clients |-> NoClient] /\ NoClient \in ClientState
        /\ worker' = [w \in Workers |-> NoWorker] /\ NoWorker \in WorkerState
        /\ NoClient.pc = "idle" /\ NoWorker.pc = "idle"
    BY DEF Restart, NoClient, NoWorker, ClientState, WorkerState
  <1>2. /\ \A w \in Workers : Busy(w) => worker[w].run \in broken'
        /\ broken \subseteq broken' /\ broken' \subseteq {0} \cup Ids
    BY WorkerFields DEF Restart, TypeOK, Busy
  <1>3. crashes' \in 0 .. MaxCrashes
    BY BoundsAssumption DEF Restart, TypeOK
  <1>4. queue' \in Seq(Ids) /\ lock' = {} BY DEF Restart
  <1>5. UNCHANGED <<rows, made, runs, late, untold>> BY DEF Restart
  <1>6. client' \in [Clients -> ClientState] /\ worker' \in [Workers -> WorkerState]
    BY <1>1
  <1>7. TypeOK' BY <1>2, <1>3, <1>4, <1>5, <1>6 DEF TypeOK, Made
  <1>8. StopsKnown' BY <1>1 DEF StopsKnown
  <1>9. RunsHeld' BY <1>2, <1>5 DEF RunsHeld, Excused, OnRun, Busy
  <1> QED BY <1>7, <1>8, <1>9

\* Every step keeps the types.
LEMMA TypesNext == TasksInv /\ TasksInv' /\ TypesInv /\ [Next]_vars => TypesInv'
  <1> SUFFICES ASSUME TasksInv, TasksInv', TypesInv, [Next]_vars PROVE TypesInv'
    OBVIOUS
  <1>1. TypeOK /\ StopsKnown /\ RunsHeld /\ PlacesInv /\ LockInv
    BY DEF TypesInv, TasksInv
  <1>2. \A c, d \in lock' : c = d BY DEF TasksInv, LockInv
  <1>3. CASE UNCHANGED vars
    <2>1. TypeOK' BY <1>1, <1>3 DEF vars, TypeOK, Made
    <2>2. StopsKnown' /\ RunsHeld' BY <1>1, <1>3 DEF vars, StopsKnown, RunsHeld, Excused, Made
    <2> QED BY <2>1, <2>2 DEF TypesInv
  <1>4. ASSUME NEW c \in Clients, ClientStep(c) PROVE TypesInv'
    <2>1. RowsOK' /\ RestOK' /\ client' \in [Clients -> ClientState] /\ StopsKnown'
      BY <1>1, <1>4, RequestTypes
    <2>2. TypeOK' BY <1>2, <2>1 DEF TypeOK, RowsOK, RestOK
    <2>3. RunsHeld' BY <1>1, <1>4, RequestOpensNoRun
    <2> QED BY <2>1, <2>2, <2>3 DEF TypesInv
  <1>5. ASSUME NEW w \in Workers, WorkerStep(w) PROVE TypesInv'
    <2>1. /\ RowsOK' /\ runs' \in [Ids -> RunStatus] /\ Apart
          /\ worker' \in [Workers -> WorkerState] /\ RunsHeld'
      BY <1>1, <1>5, WorkerTypes
    <2>2. TypeOK' BY <1>1, <2>1 DEF TypeOK, RowsOK, Apart
    <2>3. StopsKnown' BY <1>1, <2>1 DEF StopsKnown, Apart, Made
    <2> QED BY <2>1, <2>2, <2>3 DEF TypesInv
  <1>6. CASE Restart
    BY <1>1, <1>6, RestartTypes DEF TypesInv
  <1> QED BY <1>3, <1>4, <1>5, <1>6 DEF Next

LEMMA TypesInit == Init => TypesInv
  <1> SUFFICES ASSUME Init PROVE TypesInv
    OBVIOUS
  <1>1. NoClient \in ClientState /\ NoWorker \in WorkerState /\ NoClient.pc = "idle"
    BY DEF NoClient, NoWorker, ClientState, WorkerState
  <1>2. Made = {} BY DEF Init, Made
  <1>3. "none" \in RunStatus /\ "none" # "running" BY DEF RunStatus
  <1>4. TypeOK BY <1>1, <1>2, <1>3, BoundsAssumption DEF Init, TypeOK
  <1>5. StopsKnown BY <1>1 DEF Init, StopsKnown
  <1>6. RunsHeld BY <1>3 DEF Init, RunsHeld
  <1> QED BY <1>4, <1>5, <1>6 DEF TypesInv

\* Types, and the workers that hold the runs shown as running.
THEOREM TypesInvariant == Spec => [](TasksInv /\ TypesInv)
  <1>1. Init => TasksInv /\ TypesInv BY TasksInit, TypesInit
  <1>2. TasksInv /\ TypesInv /\ [Next]_vars => TasksInv' /\ TypesInv'
    BY TasksNext, TypesNext
  <1> QED BY <1>1, <1>2, PTL DEF Spec

\* Tables, queue and threads stay within their types, for any number of
\* threads, tasks, modules and restarts.
THEOREM TypeCorrect == Spec => []TypeOK
  <1>1. TypesInv => TypeOK BY DEF TypesInv
  <1> QED BY <1>1, TypesInvariant, PTL

\* Every way out of an analysis, single or evaluation, closes its research run,
\* but for an error outside a module, the end of the process and the record of
\* a single analysis that failed unheard; also when several workers are on the
\* same run because a retry or a payload names it.
THEOREM RunsSettle == Spec => []RunSettles
  <1>1. TypesInv => RunSettles
    BY DEF TypesInv, RunsHeld, Excused, RunSettles, OnRun, Busy
  <1> QED BY <1>1, TypesInvariant, PTL
=============================================================================
