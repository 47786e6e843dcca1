--------------------------- MODULE AnalysisTasks ---------------------------
(***************************************************************************)
(* The analysis tasks of the API (src/apps/api/domains/tasks): request      *)
(* threads submit, poll, cancel and retry tasks, two executor threads run   *)
(* them, and every one of them rewrites the same rows of SQLite.            *)
(*                                                                         *)
(* One call of apps.api.store is one action: store._lock and the            *)
(* transaction make it atomic, and the UPDATEs are unconditional, so a      *)
(* decision taken on a row is stale as soon as the row has been read.       *)
(* Timeouts are a choice: a poll finds any live task expired or not.        *)
(* Payloads, step details, reports and evidence are left out; of a research *)
(* run there is its status only. The modules a retry leaves out are no part *)
(* of the fingerprint here: two requests told apart by them alone are one.  *)
(***************************************************************************)
EXTENDS Naturals, Sequences, FiniteSets

CONSTANTS
    Workers,     \* the threads of _executor
    Clients,     \* the request threads of the API
    Requests,    \* what a user may ask for: kind, symbol, market, timeframe, payload
    Evaluations, \* those of kind "evaluation": several modules on one research run
    MaxTasks,    \* bound: rows of analysis_tasks
    Modules,     \* bound: modules of one evaluation
    MaxCrashes   \* bound: restarts of the API process

ASSUME EvaluationsAssumption == Evaluations \subseteq Requests
ASSUME BoundsAssumption == MaxTasks \in Nat /\ Modules \in Nat /\ MaxCrashes \in Nat

VARIABLES
    rows,     \* analysis_tasks
    made,     \* how many rows there are: ids are given in the order of creation
    runs,     \* research_runs: the status of the run each task has created
    queue,    \* the work queue of the executor, in memory
    lock,     \* the client that holds _submit_lock
    client,   \* per request thread: where it is and the copy it works on
    worker,   \* per executor thread: the task it executes and what it found
    late,     \* history: tasks ended while a worker was about to mark them running
    broken,   \* history: runs whose worker raised or was killed
    untold,   \* history: runs whose single analysis could not be recorded to the end
    crashes

vars == <<rows, made, runs, queue, lock, client, worker, late, broken, untold, crashes>>

Ids == 1 .. MaxTasks
Live == {"queued", "running"}
Stopped == {"cancelled", "timeout"}
Status == Live \cup Stopped \cup {"succeeded", "failed"}
RunStatus == {"none", "running", "succeeded", "partial", "failed"} \cup Stopped

\* The request of a row is its fingerprint: what was asked, and the research
\* run it goes on with (0: none).
Fingerprints == [base : Requests, run : {0} \cup Ids]
Row == [status : Status, req : Fingerprints, run : {0} \cup Ids, partial : BOOLEAN]
NoRow == [status |-> "none"]

Made == 1 .. made
Evaluation(t) == rows[t].req.base \in Evaluations

NoClient == [pc |-> "idle"]
NoWorker == [pc |-> "idle"]

Init ==
    /\ rows = [t \in Ids |-> NoRow]
    /\ made = 0
    /\ runs = [r \in Ids |-> "none"]
    /\ queue = <<>>
    /\ lock = {}
    /\ client = [c \in Clients |-> NoClient]
    /\ worker = [w \in Workers |-> NoWorker]
    /\ late = {}
    /\ broken = {}
    /\ untold = {}
    /\ crashes = 0

(***************************************************************************)
(* Request threads                                                          *)
(***************************************************************************)

\* What store.update_analysis_task(t, {"status": s}) leaves in the table.
WithStatus(t, s) ==
    [rows EXCEPT ![t] = [status |-> s, req |-> @.req, run |-> @.run, partial |-> @.partial]]

\* A worker has read that t is queued and has not yet written that it runs.
Claiming(t) == \E w \in Workers : worker[w].pc = "claim" /\ worker[w].task = t

\* A stop is written while a worker is about to overwrite it.
NoteLate(t) == late' = IF Claiming(t) THEN late \cup {t} ELSE late

\* Room under the bound MaxTasks for one more submission.
Submitting == {c \in Clients : client[c].pc \in {"submit", "found", "foundsync", "create"}}
Room == made + Cardinality(Submitting) < MaxTasks

\* POST /analysis/tasks: a request on its way to submit_task; its payload may
\* name a research run.
CreateTask(c) ==
    /\ client[c].pc = "idle"
    /\ Room
    /\ \E b \in Requests, r \in {0} \cup {q \in Ids : runs[q] # "none"} :
          client' = [client EXCEPT ![c] = [pc |-> "submit", req |-> [base |-> b, run |-> r]]]
    /\ UNCHANGED <<rows, made, runs, queue, lock, worker, late, broken, untold, crashes>>

\* POST .../retry: a task that is over, or succeeded in part, is submitted
\* again, an evaluation with the research run its result names.
RetryTask(c) ==
    /\ client[c].pc = "idle"
    /\ Room
    /\ \E t \in Made :
          /\ \/ rows[t].status \in Stopped \cup {"failed"}
             \/ rows[t].status = "succeeded" /\ rows[t].partial
          /\ client' = [client EXCEPT ![c] =
                [pc |-> "submit",
                 req |-> IF Evaluation(t) /\ rows[t].run # 0
                           THEN [base |-> rows[t].req.base, run |-> rows[t].run]
                           ELSE rows[t].req]]
    /\ UNCHANGED <<rows, made, runs, queue, lock, worker, late, broken, untold, crashes>>

\* POST .../cancel, or GET of a task, a list or the event stream: the handler
\* has its copy of a live row. Nothing is done to one that is over.
ReadTask(c) ==
    /\ client[c].pc = "idle"
    /\ \E t \in Made :
          /\ rows[t].status \in Live
          /\ client' = [client EXCEPT ![c] = [pc |-> "stop", task |-> t]]
    /\ UNCHANGED <<rows, made, runs, queue, lock, worker, late, broken, untold, crashes>>

\* cancel_task and refresh_timeout write on the strength of that copy.
StopTask(c) ==
    /\ client[c].pc = "stop"
    /\ LET t == client[c].task IN
          /\ \E s \in Stopped : rows' = WithStatus(t, s)
          /\ client' = [client EXCEPT ![c] = [pc |-> "sync", task |-> t]]
          /\ NoteLate(t)
    /\ UNCHANGED <<made, runs, queue, lock, worker, broken, untold, crashes>>

\* _sync_evaluation_terminal: the research run the row names gets its status.
Synced(t) ==
    IF Evaluation(t) /\ rows[t].status \in Stopped /\ rows[t].run # 0
      THEN [runs EXCEPT ![rows[t].run] = rows[t].status]
      ELSE runs

SyncRun(c) ==
    /\ client[c].pc = "sync"
    /\ runs' = Synced(client[c].task)
    /\ client' = [client EXCEPT ![c] = NoClient]
    /\ UNCHANGED <<rows, made, queue, lock, worker, late, broken, untold, crashes>>

\* find_active_analysis_task: the newest live row with this fingerprint.
Actives(req) == {t \in Made : rows[t].req = req /\ rows[t].status \in Live}

\* Mistake: submit_task without its lock.
LockFreeAlways(c) == TRUE

LockFree(c) == lock = {}

\* submit_task takes _submit_lock and looks for the request.
FindActive(c) ==
    /\ client[c].pc = "submit"
    /\ LockFree(c)
    /\ lock' = lock \cup {c}
    /\ LET req == client[c].req IN
          \/ /\ Actives(req) = {}
             /\ client' = [client EXCEPT ![c] = [pc |-> "create", req |-> req]]
          \/ \E t \in Actives(req) :
                /\ \A u \in Actives(req) : u <= t
                /\ client' = [client EXCEPT ![c] = [pc |-> "found", req |-> req, task |-> t]]
    /\ UNCHANGED <<rows, made, runs, queue, worker, late, broken, untold, crashes>>

\* Mistake: The duplicate is submitted to the executor like a new task.
DuplicateEnqueued(c, t) ==
    /\ lock' = lock \ {c}
    /\ client' = [client EXCEPT ![c] = [pc |-> "enqueue", task |-> t]]

\* What a submission does when its request is answered by the row t: the
\* caller gets that row, and the lock is free.
Answered(c, t) ==
    /\ lock' = lock \ {c}
    /\ client' = [client EXCEPT ![c] = NoClient]

\* The active row has not expired: the submission is a duplicate of it.
Duplicate(c) ==
    /\ client[c].pc = "found"
    /\ Answered(c, client[c].task)
    /\ UNCHANGED <<rows, made, runs, queue, worker, late, broken, untold, crashes>>

\* It has expired: it is timed out first.
ExpireFound(c) ==
    /\ client[c].pc = "found"
    /\ rows' = WithStatus(client[c].task, "timeout")
    /\ client' = [client EXCEPT ![c] = [pc |-> "foundsync", req |-> @.req, task |-> @.task]]
    /\ NoteLate(client[c].task)
    /\ UNCHANGED <<made, runs, queue, lock, worker, broken, untold, crashes>>

\* The row is read again; it may have come back to life meanwhile.
RefreshFound(c) ==
    /\ client[c].pc = "foundsync"
    /\ LET t == client[c].task IN
          /\ runs' = Synced(t)
          /\ \/ rows[t].status \in Live /\ Answered(c, t)
             \/ /\ rows[t].status \notin Live
                /\ client' = [client EXCEPT ![c] = [pc |-> "create", req |-> @.req]]
                /\ UNCHANGED lock
    /\ UNCHANGED <<rows, made, queue, worker, late, broken, untold, crashes>>

\* create_analysis_task, and the lock is released.
CreateRow(c) ==
    /\ client[c].pc = "create"
    /\ made < MaxTasks
    /\ made' = made + 1
    /\ rows' = [rows EXCEPT ![made'] =
                  [status |-> "queued", req |-> client[c].req, run |-> 0, partial |-> FALSE]]
    /\ lock' = lock \ {c}
    /\ client' = [client EXCEPT ![c] = [pc |-> "enqueue", task |-> made']]
    /\ UNCHANGED <<runs, queue, worker, late, broken, untold, crashes>>

\* _executor.submit, outside the lock.
Enqueue(c) ==
    /\ client[c].pc = "enqueue"
    /\ queue' = Append(queue, client[c].task)
    /\ client' = [client EXCEPT ![c] = NoClient]
    /\ UNCHANGED <<rows, made, runs, lock, worker, late, broken, untold, crashes>>

(***************************************************************************)
(* Executor threads: _execute_task and _run_evaluation. A worker record     *)
(* holds the task, the research run and modules still to do, and what the   *)
(* analysis came to.                                                        *)
(***************************************************************************)

\* Mistake: _execute_task without the test of the status it read.
TakeAny(w) ==
    /\ worker[w].pc = "idle"
    /\ queue # <<>>
    /\ queue' = Tail(queue)
    /\ worker' = [worker EXCEPT ![w] = [pc |-> "claim", task |-> Head(queue), run |-> 0]]
    /\ UNCHANGED <<rows, made, runs, lock, client, late, broken, untold, crashes>>

\* The thread takes the oldest id and reads its row; only a queued task is run.
Take(w) ==
    /\ worker[w].pc = "idle"
    /\ queue # <<>>
    /\ queue' = Tail(queue)
    /\ worker' = [worker EXCEPT ![w] =
         IF rows[Head(queue)].status = "queued"
           THEN [pc |-> "claim", task |-> Head(queue), run |-> 0]
           ELSE NoWorker]
    /\ UNCHANGED <<rows, made, runs, lock, client, late, broken, untold, crashes>>

\* It is marked running, whatever has become of it since.
Claim(w) ==
    /\ worker[w].pc = "claim"
    /\ rows' = WithStatus(worker[w].task, "running")
    /\ worker' = [worker EXCEPT ![w] = [pc |-> "analyse", task |-> @.task, run |-> @.run]]
    /\ UNCHANGED <<made, runs, queue, lock, client, late, broken, untold, crashes>>

\* The analysis is over: ok, partly ok, not ok, or it raised.
Outcome(w, out) ==
    worker' = [worker EXCEPT ![w] = [pc |-> "check", task |-> @.task, run |-> @.run, out |-> out]]

\* The research run an analysis works on: the one its request names, or one of
\* its own.
RunOf(t) == IF rows[t].req.run # 0 THEN rows[t].req.run ELSE t

\* A single analysis (pa, news or ensemble) is over without a research run of
\* its own; of the one its request names it may leave that it failed.
Analyse(w) ==
    /\ worker[w].pc = "analyse"
    /\ ~Evaluation(worker[w].task)
    /\ \/ UNCHANGED runs /\ \E out \in {"ok", "no", "raised"} : Outcome(w, out)
       \/ /\ rows[worker[w].task].req.run # 0
          /\ runs' = [runs EXCEPT ![rows[worker[w].task].req.run] = "failed"]
          /\ Outcome(w, "no")
    /\ UNCHANGED <<rows, made, queue, lock, client, late, broken, untold, crashes>>

\* Or it is recorded: start_module marks the run running.
OpenRun(w) ==
    /\ worker[w].pc = "analyse"
    /\ ~Evaluation(worker[w].task)
    /\ LET t == worker[w].task IN
          /\ runs' = [runs EXCEPT ![RunOf(t)] = "running"]
          /\ worker' = [worker EXCEPT ![w] = [pc |-> "record", task |-> t, run |-> RunOf(t)]]
    /\ UNCHANGED <<rows, made, queue, lock, client, late, broken, untold, crashes>>

\* complete_module closes it, or fail_module where a failed record fails the
\* ensemble. An error of the record itself is swallowed, and the run stays.
CompleteRun(w) ==
    /\ worker[w].pc = "record"
    /\ LET r == worker[w].run IN
          \/ /\ \/ runs' = [runs EXCEPT ![r] = "succeeded"] /\ Outcome(w, "ok")
                \/ runs' = [runs EXCEPT ![r] = "failed"] /\ Outcome(w, "no")
             /\ UNCHANGED untold
          \/ /\ \E out \in {"ok", "no"} : Outcome(w, out)
             /\ untold' = untold \cup {r}
             /\ UNCHANGED runs
    /\ UNCHANGED <<rows, made, queue, lock, client, late, broken, crashes>>

\* An evaluation goes on with the run its request names or creates one, and
\* marks it running.
StartRun(w) ==
    /\ worker[w].pc = "analyse"
    /\ Evaluation(worker[w].task)
    /\ LET t == worker[w].task
           r == RunOf(t) IN
          /\ runs' = [runs EXCEPT ![r] = "running"]
          /\ \E k \in 1 .. Modules :
                worker' = [worker EXCEPT ![w] =
                             [pc |-> "progress", task |-> t, run |-> r, todo |-> k]]
    /\ UNCHANGED <<rows, made, queue, lock, client, late, broken, untold, crashes>>

\* The evaluation goes on, with so many modules to do.
Advance(w, pc, todo) ==
    worker' = [worker EXCEPT ![w] =
                 [pc |-> pc, task |-> @.task, run |-> @.run, todo |-> todo]]

\* save_progress: the row names the research run.
SaveProgress(w) ==
    /\ worker[w].pc = "progress"
    /\ rows' = [rows EXCEPT ![worker[w].task] =
         [status |-> @.status, req |-> @.req, run |-> worker[w].run, partial |-> FALSE]]
    /\ Advance(w, "loop", worker[w].todo)
    /\ UNCHANGED <<made, runs, queue, lock, client, late, broken, untold, crashes>>

\* Before each module the row is read (the code does it twice, with another
\* save_progress between): a task that was stopped is given up.
CheckStopped(w) ==
    /\ worker[w].pc = "loop"
    /\ worker[w].todo > 0
    /\ LET status == rows[worker[w].task].status IN
          \/ status \notin Stopped /\ Advance(w, "module", worker[w].todo)
          \/ /\ status \in Stopped
             /\ worker' = [worker EXCEPT ![w] =
                   [pc |-> "giveup", task |-> @.task, run |-> @.run, seen |-> status]]
    /\ UNCHANGED <<rows, made, runs, queue, lock, client, late, broken, untold, crashes>>

\* Mistake: Giving up leaves the run alone: cancelling is supposed to have marked it.
GiveUpSilently(w) ==
    /\ worker[w].pc = "giveup"
    /\ Outcome(w, "no")
    /\ UNCHANGED <<rows, made, runs, queue, lock, client, late, broken, untold, crashes>>

\* Giving up marks the run with the status that was read.
GiveUp(w) ==
    /\ worker[w].pc = "giveup"
    /\ runs' = [runs EXCEPT ![worker[w].run] = worker[w].seen]
    /\ Outcome(w, "no")
    /\ UNCHANGED <<rows, made, queue, lock, client, late, broken, untold, crashes>>

\* One module: complete_module or, for an error of its own, fail_module; or the
\* run is left as it was, or as start_module left it.
RunModule(w) ==
    /\ worker[w].pc = "module"
    /\ \E s \in {"succeeded", "failed", "running", runs[worker[w].run]} :
          runs' = [runs EXCEPT ![worker[w].run] = s]
    /\ Advance(w, "loop", worker[w].todo - 1)
    /\ UNCHANGED <<rows, made, queue, lock, client, late, broken, untold, crashes>>

\* After the last module the run gets its verdict; the row is not read first.
CloseRun(w) ==
    /\ worker[w].pc = "loop"
    /\ worker[w].todo = 0
    /\ \E v \in {<<"succeeded", "ok">>, <<"partial", "partial">>, <<"failed", "no">>} :
          /\ runs' = [runs EXCEPT ![worker[w].run] = v[1]]
          /\ Outcome(w, v[2])
    /\ UNCHANGED <<rows, made, queue, lock, client, late, broken, untold, crashes>>

\* An error outside a module: resolving the instrument before the run is
\* opened, or recording the decision before it is closed.
Raise(w) ==
    /\ \/ worker[w].pc = "analyse"
       \/ worker[w].pc = "loop" /\ worker[w].todo = 0
    /\ Evaluation(worker[w].task)
    /\ Outcome(w, "raised")
    /\ broken' = broken \cup {worker[w].run}
    /\ UNCHANGED <<rows, made, runs, queue, lock, client, late, untold, crashes>>

\* The row is read once more: a task that was stopped keeps its status.
CheckCurrent(w) ==
    /\ worker[w].pc = "check"
    /\ worker' = [worker EXCEPT ![w] =
         IF rows[@.task].status \in Stopped THEN NoWorker
         ELSE [pc |-> "store", task |-> @.task, run |-> @.run, out |-> @.out]]
    /\ UNCHANGED <<rows, made, runs, queue, lock, client, late, broken, untold, crashes>>

\* Mistake: An error is not stored.
StoredUnlessRaised(t, r, out) ==
    IF out = "raised" THEN rows
    ELSE [rows EXCEPT ![t].status = IF out = "no" THEN "failed" ELSE "succeeded",
                      ![t].run = r,
                      ![t].partial = out = "partial"]

\* What is stored: after an error the result stays as it was.
Stored(t, r, out) ==
    [rows EXCEPT ![t] =
        [status |-> IF out \in {"ok", "partial"} THEN "succeeded" ELSE "failed",
         req |-> @.req,
         run |-> IF out = "raised" THEN @.run ELSE r,
         partial |-> IF out = "raised" THEN @.partial ELSE out = "partial"]]

Store(w) ==
    /\ worker[w].pc = "store"
    /\ rows' = Stored(worker[w].task, worker[w].run, worker[w].out)
    /\ worker' = [worker EXCEPT ![w] = NoWorker]
    /\ UNCHANGED <<made, runs, queue, lock, client, late, broken, untold, crashes>>

(***************************************************************************)
(* The process dies: queue, threads and lock are gone, the tables stay, and *)
(* no code reads the unfinished rows again.                                 *)
(***************************************************************************)
Restart ==
    /\ crashes < MaxCrashes
    /\ crashes' = crashes + 1
    /\ queue' = <<>>
    /\ lock' = {}
    /\ client' = [c \in Clients |-> NoClient]
    /\ worker' = [w \in Workers |-> NoWorker]
    /\ broken' = broken \cup {worker[w].run : w \in {v \in Workers : worker[v].pc # "idle"}}
    /\ UNCHANGED <<rows, made, runs, late, untold>>

ClientStep(c) ==
    \/ CreateTask(c) \/ RetryTask(c) \/ ReadTask(c) \/ StopTask(c) \/ SyncRun(c)
    \/ FindActive(c) \/ Duplicate(c) \/ ExpireFound(c) \/ RefreshFound(c)
    \/ CreateRow(c) \/ Enqueue(c)

WorkerStep(w) ==
    \/ Take(w) \/ Claim(w) \/ Analyse(w) \/ OpenRun(w) \/ CompleteRun(w)
    \/ StartRun(w) \/ SaveProgress(w) \/ CheckStopped(w) \/ GiveUp(w) \/ RunModule(w)
    \/ CloseRun(w) \/ Raise(w) \/ CheckCurrent(w) \/ Store(w)

Next ==
    \/ \E c \in Clients : ClientStep(c)
    \/ \E w \in Workers : WorkerStep(w)
    \/ Restart

Spec == Init /\ [][Next]_vars

\* The operating system runs every thread; a request that is in its handler
\* goes on (users are not obliged to do anything).
InHandler(c) ==
    \/ StopTask(c) \/ SyncRun(c) \/ FindActive(c) \/ Duplicate(c) \/ ExpireFound(c)
    \/ RefreshFound(c) \/ CreateRow(c) \/ Enqueue(c)

FairSpec ==
    /\ Spec
    /\ \A c \in Clients : WF_vars(InHandler(c))
    /\ \A w \in Workers : WF_vars(WorkerStep(w))

(***************************************************************************)
(* Properties                                                               *)
(***************************************************************************)

ClientState ==
    [pc : {"idle"}]
    \cup [pc : {"submit", "create"}, req : Fingerprints]
    \cup [pc : {"found", "foundsync"}, req : Fingerprints, task : Ids]
    \cup [pc : {"stop", "sync", "enqueue"}, task : Ids]

WorkerState ==
    [pc : {"idle"}]
    \cup [pc : {"claim", "analyse"}, task : Ids, run : {0}]
    \cup [pc : {"record"}, task : Ids, run : Ids]
    \cup [pc : {"progress", "module"}, task : Ids, run : Ids, todo : 1 .. Modules]
    \cup [pc : {"loop"}, task : Ids, run : Ids, todo : 0 .. Modules]
    \cup [pc : {"giveup"}, task : Ids, run : Ids, seen : Stopped]
    \cup [pc : {"check", "store"}, task : Ids, run : {0} \cup Ids,
          out : {"ok", "partial", "no", "raised"}]

\* Types of the variables: rows, in-memory queue and the threads' local state.
TypeOK ==
    /\ made \in 0 .. MaxTasks
    /\ rows \in [Ids -> Row \cup {NoRow}] /\ \A t \in Made : rows[t] # NoRow
    /\ runs \in [Ids -> RunStatus]
    /\ queue \in Seq(Ids)
    /\ lock \in SUBSET Clients /\ \A c, d \in lock : c = d
    /\ client \in [Clients -> ClientState]
    /\ worker \in [Workers -> WorkerState]
    /\ late \subseteq Ids
    /\ broken \subseteq {0} \cup Ids /\ untold \subseteq Ids
    /\ crashes \in 0 .. MaxCrashes

Busy(w) == worker[w].pc # "idle"
Handing(c) == client[c].pc = "enqueue"

\* A task is in one place at most: in the hands of the request that created
\* it, once in the queue, or with one worker. _execute_task has no claim of its
\* own (it reads "queued" and writes "running" in two steps), so this is all
\* that keeps two threads from running one task.
OnePlace ==
    /\ \A i, j \in DOMAIN queue : queue[i] = queue[j] => i = j
    /\ \A v, w \in Workers : Busy(v) /\ Busy(w) /\ worker[v].task = worker[w].task => v = w
    /\ \A c, d \in Clients :
          Handing(c) /\ Handing(d) /\ client[c].task = client[d].task => c = d
    /\ \A i \in DOMAIN queue :
          /\ \A w \in Workers : Busy(w) => worker[w].task # queue[i]
          /\ \A c \in Clients : Handing(c) => client[c].task # queue[i]
    /\ \A c \in Clients, w \in Workers :
          Handing(c) /\ Busy(w) => client[c].task # worker[w].task

\* The inductive form: the ids that are somewhere were given to a row, so the
\* id of the next row is nowhere yet.
PlacesInv ==
    /\ made \in Nat
    /\ queue \in Seq(Nat)
    /\ DOMAIN client = Clients
    /\ DOMAIN worker = Workers
    /\ \A i \in DOMAIN queue : queue[i] \in Made
    /\ \A c \in Clients : Handing(c) => client[c].task \in Made
    /\ \A w \in Workers : Busy(w) => worker[w].task \in Made
    /\ OnePlace

\* A worker claims what is still queued, or what was stopped under its hands.
ClaimInv ==
    /\ DOMAIN rows = Ids
    /\ made <= MaxTasks
    /\ \A w \in Workers : worker[w].pc = "claim" =>
          rows[worker[w].task].status = "queued" \/ worker[w].task \in late

\* Live other than by a worker overwriting a stop.
Undisturbed(t) == rows[t].status \in Live /\ t \notin late

\* The inductive form of OneLivePerRequest: when a row is created every older
\* one with its fingerprint is over, because the lock lets one submission at
\* a time look and create, and what it has found is the newest.
LockInv ==
    /\ \A c, d \in lock : c = d
    /\ \A c \in Clients : client[c].pc \in {"found", "foundsync", "create"} => c \in lock
    /\ \A t, u \in Made : t < u /\ rows[t].req = rows[u].req => ~Undisturbed(t)
    /\ \A c \in Clients : client[c].pc \in {"found", "foundsync"} =>
          /\ client[c].task \in Made
          /\ rows[client[c].task].req = client[c].req
          /\ \A t \in Made :
                t > client[c].task /\ rows[t].req = client[c].req => ~Undisturbed(t)
    /\ \A c \in Clients : client[c].pc = "create" =>
          \A t \in Made : rows[t].req = client[c].req => ~Undisturbed(t)

TasksInv == PlacesInv /\ ClaimInv /\ LockInv

\* Two live tasks never answer the same request, unless one of them was
\* stopped just before a worker overwrote the stop (submit_task's lock is not
\* taken by the workers).
OneLivePerRequest ==
    \A t, u \in Made :
        rows[t].req = rows[u].req /\ Undisturbed(t) /\ Undisturbed(u) => t = u

\* A task that is over is never queued or running again, unless it was stopped
\* between a worker's reading and claiming it.
StaysOver == \A t \in Made :
    rows[t].status \notin Live /\ rows'[t].status \in Live => t \in late

OverIsOver == [][StaysOver]_vars

\* A research run shows "running" only while a worker is on it, because the
\* worker raised or died, or because the record of a single analysis failed,
\* which pa_analyze and analyze swallow. Every other way out of an analysis
\* closes it, also when several tasks work on one run.
RunSettles ==
    \A r \in Ids : runs[r] = "running" =>
        r \in broken \cup untold \/ \E w \in Workers : Busy(w) /\ worker[w].run = r

\* Somebody has the task: the request that created it, the queue or a worker.
Held(t) ==
    \/ \E i \in DOMAIN queue : queue[i] = t
    \/ \E c \in Clients : Handing(c) /\ client[c].task = t
    \/ \E w \in Workers : Busy(w) /\ worker[w].task = t

\* A live task that is held comes to an end, whatever errors its analysis meets
\* and however it is stopped and retried, unless the process is restarted. (A
\* restart loses every task that is held.)
TasksEnd ==
    \A t \in Ids, k \in 0 .. MaxCrashes :
        (t \in Made /\ rows[t].status \in Live /\ Held(t) /\ crashes = k)
            ~> (t \in Made /\ (rows[t].status \notin Live \/ crashes > k))

=============================================================================
