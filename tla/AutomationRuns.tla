---------------------------- MODULE AutomationRuns ----------------------------
(***************************************************************************)
(* Runs of automation jobs (domains/automation/service.py, repository.py): *)
(* two processes, the API and the scheduler (apps/scheduler/jobs.py), each *)
(* with an executor of its own in memory, share the table of runs.  The    *)
(* API's requests start runs by hand and retry them, the scheduler's cron  *)
(* starts them by time, and the API takes up again, when it starts, what   *)
(* it finds unfinished.  Each read and each write of the table is one step.*)
(***************************************************************************)
EXTENDS Naturals, Sequences, FiniteSets

CONSTANTS
  Jobs,        \* the jobs; each is also the name of its cron thread
  Threads,     \* request threads of the API
  Workers,     \* the threads of one executor
  None,
  Window,      \* how many runs recover_pending_runs lists; 10 000 in the code
  MaxRuns,     \* bound: runs in a behaviour
  MaxFaults,   \* bound: crashes, and store errors that lose a run, together
  MaxSwitches  \* bound: changes of a job's enabled flag

Runs      == 1..MaxRuns
Processes == {"api", "scheduler"}
Callers   == Threads \cup Jobs
ProcessOf(c) == IF c \in Jobs THEN "scheduler" ELSE "api"
Triggers  == {"manual", "scheduled", "retry"}

RunRow  == [job : Jobs, trigger : Triggers, attempt : Nat, parent : 0..MaxRuns,
            status : {"queued", "running", "succeeded", "failed"}, acked : BOOLEAN]
\* What a submission was asked for; parent 0 is none.
Request == [job : Jobs, trigger : Triggers, attempt : Nat, parent : 0..MaxRuns]

ASSUME AutomationAssumption ==
  /\ Window \in Nat
  /\ MaxRuns \in Nat /\ MaxFaults \in Nat /\ MaxSwitches \in Nat
  /\ Jobs \cap Threads = {}
  /\ None \notin RunRow \cup Request

VARIABLES
  enabled,   \* enabled flag of each job, with its override
  run,       \* automation_runs
  queue,     \* the queue of each executor
  worker,    \* what each worker does: its run and how far it is; 0 is none
  api,       \* the API is down, taking up old runs, or up
  pending,   \* runs recover_pending_runs has read and not handed over yet
  marked,    \* the one of them it has set back to queued
  pc,        \* what each caller does next
  request,   \* the submission each caller works for
  target,    \* the run it acknowledges or has created; 0 is none
  lost,      \* runs whose process, worker or caller went since the API last started
  beyond,    \* lost runs that the API, when it started, found too old to list
  taken,     \* runs the API took up although the scheduler had them
  faults, switches

execs   == <<queue, worker>>
apis    == <<api, pending, marked>>
callers == <<pc, request, target>>
notes   == <<lost, beyond, taken, faults, switches>>
vars    == <<enabled, run, execs, apis, callers, notes>>

Idle == [run |-> 0, stage |-> "idle"]

Init ==
  /\ enabled = [j \in Jobs |-> TRUE]
  /\ run     = [r \in Runs |-> None]
  /\ queue   = [p \in Processes |-> <<>>]
  /\ worker  = [p \in Processes |-> [w \in Workers |-> Idle]]
  /\ api     = "down"
  /\ pending = {}
  /\ marked  = 0
  /\ pc      = [c \in Callers |-> "idle"]
  /\ request = [c \in Callers |-> None]
  /\ target  = [c \in Callers |-> 0]
  /\ lost    = {}
  /\ beyond  = {}
  /\ taken   = {}
  /\ faults  = 0
  /\ switches = 0

Known    == {r \in Runs : run[r] # None}
Active   == {r \in Known : run[r].status \in {"queued", "running"}}
Ended    == Known \ Active
Queued(p)  == {queue[p][n] : n \in 1..Len(queue[p])}
Working(p) == {worker[p][w].run : w \in Workers} \ {0}
\* Created and about to be queued by a caller.
Handing(p) == {target[c] : c \in {d \in Callers : ProcessOf(d) = p /\ pc[d] = "dispatch"}}
Held(p)    == Queued(p) \cup Working(p) \cup Handing(p)

SetStatus(r, status) == run' = [run EXCEPT ![r] =
  [job |-> run[r].job, trigger |-> run[r].trigger, attempt |-> run[r].attempt,
   parent |-> run[r].parent, status |-> status, acked |-> run[r].acked]]

Acknowledge(r) == run' = [run EXCEPT ![r] =
  [job |-> run[r].job, trigger |-> run[r].trigger, attempt |-> run[r].attempt,
   parent |-> run[r].parent, status |-> run[r].status, acked |-> TRUE]]

Goto(c, label) == pc' = [pc EXCEPT ![c] = label]

Return(c) ==
  /\ Goto(c, "idle")
  /\ request' = [request EXCEPT ![c] = None]
  /\ target'  = [target EXCEPT ![c] = 0]

-----------------------------------------------------------------------------
(* submit_run, by a request or by the cron of the job.  The scheduler runs *)
(* one dispatch of a job at a time (APScheduler's max_instances).          *)

Submit(c, j, trigger) ==
  /\ pc[c] = "idle"
  /\ IF c \in Jobs THEN c = j /\ trigger = "scheduled" ELSE api = "up" /\ trigger = "manual"
  /\ request' = [request EXCEPT ![c] = [job |-> j, trigger |-> trigger, attempt |-> 1, parent |-> 0]]
  /\ Goto(c, "check")
  /\ UNCHANGED <<enabled, run, execs, apis, target, notes>>

\* A disabled job is refused.
SubmitCheck(c) ==
  /\ pc[c] = "check"
  /\ \/ ~enabled[request[c].job] /\ Return(c)
     \/ /\ enabled[request[c].job]
        /\ Goto(c, IF request[c].trigger = "scheduled" THEN "find" ELSE "create")
        /\ UNCHANGED <<request, target>>
  /\ UNCHANGED <<enabled, run, execs, apis, notes>>

\* Mutant: a run that is running already is not found.
ActiveScheduledQueued(j) ==
  {r \in Known : run[r].job = j /\ run[r].trigger = "scheduled" /\ run[r].status = "queued"}

\* find_active_run
ActiveScheduled(j) == {r \in Active : run[r].job = j /\ run[r].trigger = "scheduled"}

\* Mutant: the run that is not over is handed to the executor once more.
SubmitFindAgain(c) ==
  /\ pc[c] = "find"
  /\ IF ActiveScheduled(request[c].job) # {}
     THEN /\ Goto(c, "dispatch") /\ UNCHANGED request
          /\ \E r \in ActiveScheduled(request[c].job) : target' = [target EXCEPT ![c] = r]
     ELSE Goto(c, "create") /\ UNCHANGED <<request, target>>
  /\ UNCHANGED <<enabled, run, execs, apis, notes>>

\* A scheduled run that is not over stands for the next one.
SubmitFind(c) ==
  /\ pc[c] = "find"
  /\ IF ActiveScheduled(request[c].job) # {} THEN Return(c)
     ELSE Goto(c, "create") /\ UNCHANGED <<request, target>>
  /\ UNCHANGED <<enabled, run, execs, apis, notes>>

SubmitCreate(c) ==
  /\ pc[c] = "create"
  /\ \E r \in Runs :
       /\ run[r] = None /\ \A s \in 1..(r - 1) : run[s] # None
       /\ run' = [run EXCEPT ![r] =
            [job |-> request[c].job, trigger |-> request[c].trigger,
             attempt |-> request[c].attempt, parent |-> request[c].parent,
             status |-> "queued", acked |-> FALSE]]
       /\ target' = [target EXCEPT ![c] = r]
  /\ Goto(c, "dispatch")
  /\ UNCHANGED <<enabled, execs, apis, request, notes>>

SubmitDispatch(c) ==
  LET p == ProcessOf(c) IN
  /\ pc[c] = "dispatch"
  /\ queue' = [queue EXCEPT ![p] = Append(@, target[c])]
  /\ Return(c)
  /\ UNCHANGED <<enabled, run, worker, apis, notes>>

\* The executor refuses the run: it has failed, and so does the call.
SubmitRaise(c) ==
  /\ pc[c] = "dispatch"
  /\ SetStatus(target[c], "failed")
  /\ Return(c)
  /\ UNCHANGED <<enabled, execs, apis, notes>>

\* The audit of a new run raises before it is handed over: the call fails,
\* and the run stays queued.
SubmitLoses(c) ==
  /\ pc[c] = "dispatch" /\ faults < MaxFaults
  /\ faults' = faults + 1
  /\ lost'   = lost \cup {target[c]}
  /\ Return(c)
  /\ UNCHANGED <<enabled, run, execs, apis, beyond, taken, switches>>

-----------------------------------------------------------------------------
(* retry_run, acknowledge_run and update_job, requests of the API.         *)

\* Mutant: the alert of the failed run is left as it is.
NeedsAckNever(r) == FALSE

NeedsAck(r) == ~run[r].acked

\* retry_run reads the run once; the retry is built from what it read.
Retry(c, r) ==
  /\ pc[c] = "idle" /\ c \in Threads /\ api = "up"
  /\ r \in Known /\ run[r].status = "failed"
  /\ request' = [request EXCEPT ![c] =
       [job |-> run[r].job, trigger |-> "retry", attempt |-> run[r].attempt + 1, parent |-> r]]
  /\ Goto(c, IF NeedsAck(r) THEN "silence" ELSE "check")
  /\ UNCHANGED <<enabled, run, execs, apis, target, notes>>

\* The alert is acknowledged before the retry is submitted, or refused.
RetrySilence(c) ==
  /\ pc[c] = "silence"
  /\ Acknowledge(request[c].parent)
  /\ Goto(c, "check")
  /\ UNCHANGED <<enabled, execs, apis, request, target, notes>>

AckRead(c, r) ==
  /\ pc[c] = "idle" /\ c \in Threads /\ api = "up"
  /\ r \in Known /\ run[r].status = "failed" /\ ~run[r].acked
  /\ target' = [target EXCEPT ![c] = r]
  /\ Goto(c, "ack")
  /\ UNCHANGED <<enabled, run, execs, apis, request, notes>>

AckWrite(c) ==
  /\ pc[c] = "ack"
  /\ Acknowledge(target[c])
  /\ Return(c)
  /\ UNCHANGED <<enabled, execs, apis, notes>>

UpdateJob(j) ==
  /\ api = "up" /\ switches < MaxSwitches
  /\ enabled' = [enabled EXCEPT ![j] = ~@]
  /\ switches' = switches + 1
  /\ UNCHANGED <<run, execs, apis, callers, lost, beyond, taken, faults>>

-----------------------------------------------------------------------------
(* _execute_run, in a worker of either process.                            *)

SetWorker(p, w, r, stage) == worker' = [worker EXCEPT ![p][w] = [run |-> r, stage |-> stage]]

\* The next of the queue, unless its row cannot be found; rows are not deleted.
WorkerTake(p, w) ==
  /\ worker[p][w].stage = "idle" /\ queue[p] # <<>>
  /\ SetWorker(p, w, Head(queue[p]), "taken")
  /\ queue' = [queue EXCEPT ![p] = Tail(@)]
  /\ UNCHANGED <<enabled, run, apis, callers, notes>>

\* Whatever the run is by now, it is running.
WorkerStart(p, w) ==
  /\ worker[p][w].stage = "taken"
  /\ SetStatus(worker[p][w].run, "running")
  /\ SetWorker(p, w, worker[p][w].run, "running")
  /\ UNCHANGED <<enabled, queue, apis, callers, notes>>

WorkerSucceed(p, w) ==
  /\ worker[p][w].stage = "running"
  /\ SetStatus(worker[p][w].run, "succeeded")
  /\ SetWorker(p, w, worker[p][w].run, "audit")
  /\ UNCHANGED <<enabled, queue, apis, callers, notes>>

\* The audit of the success ends the work.
WorkerAudit(p, w) ==
  /\ worker[p][w].stage = "audit"
  /\ SetWorker(p, w, 0, "idle")
  /\ UNCHANGED <<enabled, run, queue, apis, callers, notes>>

\* The job raises, or the audit of its success does: the run has failed.
WorkerFail(p, w) ==
  /\ worker[p][w].stage \in {"running", "audit"}
  /\ SetStatus(worker[p][w].run, "failed")
  /\ SetWorker(p, w, 0, "idle")
  /\ UNCHANGED <<enabled, queue, apis, callers, notes>>

\* A write of the status raises outside the try: the future keeps the
\* exception, and the run stays as it is.
WorkerLoses(p, w) ==
  /\ worker[p][w].stage \in {"taken", "running"} /\ faults < MaxFaults
  /\ faults' = faults + 1
  /\ lost'   = lost \cup {worker[p][w].run}
  /\ SetWorker(p, w, 0, "idle")
  /\ UNCHANGED <<enabled, run, queue, apis, callers, beyond, taken, switches>>

-----------------------------------------------------------------------------
(* Starts and crashes; recover_pending_runs.                               *)

\* list_runs without a status: the newest runs, whatever became of them.
Newer(r) == {s \in Known : s > r}
Listed   == {r \in Known : Cardinality(Newer(r)) < Window}

\* Mutant: the runs that were running are thought to be somebody's.
UnfinishedQueued == {r \in Listed : run[r].status = "queued"}
\* Mutant: the failed runs are taken up with the others.
UnfinishedFailed == {r \in Listed : run[r].status # "succeeded"}

\* The unfinished ones among them, whoever has them.
Unfinished == Listed \cap Active

ApiStart ==
  /\ api = "down"
  /\ api'     = "recovering"
  /\ pending' = Unfinished
  /\ lost'    = {}
  /\ beyond'  = beyond \cup {r \in lost : Cardinality(Newer(r)) >= Window}
  /\ taken'   = taken \cup (Unfinished \cap Held("scheduler"))
  /\ UNCHANGED <<enabled, run, execs, marked, callers, faults, switches>>

RecoverMark(r) ==
  /\ api = "recovering" /\ marked = 0 /\ r \in pending
  /\ SetStatus(r, "queued")
  /\ marked' = r
  /\ UNCHANGED <<enabled, execs, api, pending, callers, notes>>

\* Mutant: the run is put aside before it is submitted.
RecoverSubmitTooLate ==
  /\ marked # 0
  /\ pending' = pending \ {marked}
  /\ marked'  = 0
  /\ queue'   = [queue EXCEPT !["api"] = Append(@, marked')]
  /\ UNCHANGED <<enabled, run, worker, api, callers, notes>>

RecoverSubmit ==
  /\ marked # 0
  /\ queue'   = [queue EXCEPT !["api"] = Append(@, marked)]
  /\ pending' = pending \ {marked}
  /\ marked'  = 0
  /\ UNCHANGED <<enabled, run, worker, api, callers, notes>>

ApiUp ==
  /\ api = "recovering" /\ pending = {}
  /\ api' = "up"
  /\ UNCHANGED <<enabled, run, execs, pending, marked, callers, notes>>

\* A process stops: its queue, its workers and its calls are gone.  The
\* scheduler is back at once, and takes up nothing.
Crash(p) ==
  LET mine == {c \in Callers : ProcessOf(c) = p} IN
  /\ faults < MaxFaults
  /\ p = "api" => api # "down"
  /\ faults'  = faults + 1
  /\ lost'    = lost \cup Held(p) \cup (IF p = "api" THEN pending ELSE {})
  /\ queue'   = [queue EXCEPT ![p] = <<>>]
  /\ worker'  = [worker EXCEPT ![p] = [w \in Workers |-> Idle]]
  /\ api'     = IF p = "api" THEN "down" ELSE api
  /\ pending' = IF p = "api" THEN {} ELSE pending
  /\ marked'  = IF p = "api" THEN 0 ELSE marked
  /\ pc'      = [c \in Callers |-> IF c \in mine THEN "idle" ELSE pc[c]]
  /\ request' = [c \in Callers |-> IF c \in mine THEN None ELSE request[c]]
  /\ target'  = [c \in Callers |-> IF c \in mine THEN 0 ELSE target[c]]
  /\ UNCHANGED <<enabled, run, beyond, taken, switches>>

-----------------------------------------------------------------------------
Call(c) ==
  \/ SubmitCheck(c) \/ SubmitFind(c) \/ SubmitCreate(c) \/ SubmitDispatch(c) \/ SubmitRaise(c)
  \/ RetrySilence(c) \/ AckWrite(c)

Work(p, w) ==
  \/ WorkerTake(p, w) \/ WorkerStart(p, w) \/ WorkerSucceed(p, w) \/ WorkerAudit(p, w)
  \/ WorkerFail(p, w)

Recover == ApiStart \/ (\E r \in Runs : RecoverMark(r)) \/ RecoverSubmit \/ ApiUp

Next ==
  \/ \E c \in Callers : Call(c) \/ SubmitLoses(c)
  \/ \E c \in Callers, j \in Jobs, trigger \in Triggers : Submit(c, j, trigger)
  \/ \E c \in Callers, r \in Runs : Retry(c, r) \/ AckRead(c, r)
  \/ \E j \in Jobs : UpdateJob(j)
  \/ \E p \in Processes, w \in Workers : Work(p, w) \/ WorkerLoses(p, w)
  \/ Recover
  \/ \E p \in Processes : Crash(p)

Spec == Init /\ [][Next]_vars

\* Calls and workers go on while their process does, and the API is started
\* again after a crash.
FairSpec ==
  /\ Spec
  /\ \A c \in Callers : WF_vars(Call(c))
  /\ \A p \in Processes, w \in Workers : WF_vars(Work(p, w))
  /\ WF_vars(Recover)

-----------------------------------------------------------------------------
(* Properties.                                                             *)

\* Every variable has its type.
TypeOK ==
  /\ enabled \in [Jobs -> BOOLEAN]
  /\ run \in [Runs -> {None} \cup RunRow]
  /\ queue \in [Processes -> Seq(Runs)]
  /\ worker \in [Processes -> [Workers ->
       [run : 0..MaxRuns, stage : {"idle", "taken", "running", "audit"}]]]
  /\ api \in {"down", "recovering", "up"}
  /\ pending \subseteq Runs /\ marked \in 0..MaxRuns
  /\ pc \in [Callers -> {"idle", "check", "find", "create", "dispatch", "silence", "ack"}]
  /\ request \in [Callers -> {None} \cup Request]
  /\ target \in [Callers -> 0..MaxRuns]
  /\ lost \subseteq Runs /\ beyond \subseteq Runs /\ taken \subseteq Runs
  /\ faults \in Nat /\ switches \in Nat

\* No unfinished run is forgotten: an executor has it, a caller is about to
\* give it to one, or the API is about to take it up; otherwise its process,
\* its worker or its caller was lost after the API last started, or there were
\* Window newer runs when it did.  Once the API has started, whatever was lost
\* before and is not older than that has an executor again (recover_pending_runs).
NoneForgotten ==
  /\ \A r \in Active : r \in Held("api") \cup Held("scheduler") \cup pending \cup lost \cup beyond
  /\ \A r \in beyond : Cardinality(Newer(r)) >= Window

\* At most one scheduled run of a job is under way (find_active_run), as long
\* as the API takes up none the scheduler has: that one may be over, and
\* another begun, when it is set back to queued.
ScheduledAlone ==
  \A r, s \in Active \ taken :
    (run[r].trigger = "scheduled" /\ run[s].trigger = "scheduled" /\ run[r].job = run[s].job)
      => r = s

\* A run has one executor, and one place there, unless the API took it up
\* from the scheduler; so a job's work is not done twice for one run.
OneExecutor ==
  \A r \in Runs \ taken :
    Cardinality({q \in Processes \X (1..MaxRuns) : q[2] <= Len(queue[q[1]]) /\ queue[q[1]][q[2]] = r})
      + Cardinality({x \in Processes \X Workers : worker[x[1]][x[2]].run = r})
      + Cardinality({c \in Callers : pc[c] = "dispatch" /\ target[c] = r}) <= 1

\* A run that is over stays over, but for a success whose audit fails, and for
\* a run the API took up from the scheduler: no recovery, retry or late worker
\* brings it back.
OverIsOver ==
  [][\A r \in Ended \ taken :
       \/ run'[r].status = run[r].status
       \/ run[r].status = "succeeded" /\ run'[r].status = "failed"]_vars

\* A retry is the next attempt of a failed run of the same job whose alert has
\* been acknowledged; an alert is only acknowledged of a run that failed, so
\* none is silenced before it is raised.
RetriesFollow ==
  \A r \in Known :
    /\ run[r].parent # 0 =>
         LET parent == run[run[r].parent] IN
         /\ run[r].parent < r /\ parent.acked
         /\ run[r].job = parent.job /\ run[r].attempt = parent.attempt + 1
    /\ (run[r].acked /\ r \notin taken) => run[r].status = "failed"

\* Every run ends, unless its scheduler, worker or caller was lost while the API
\* was up: such a run waits for the next start of the API, and a scheduled one
\* keeps its job from being run until then; or for ever, if Window newer runs
\* are there when the API starts.
EveryRunEnds ==
  \A r \in Runs : (r \in Active) ~> (r \in Ended \cup beyond \/ (r \in lost /\ api # "down"))
=============================================================================
