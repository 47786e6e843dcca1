------------------------- MODULE ReconcileScheduler -------------------------
(***************************************************************************)
(* The scheduler of periodic reconciliations                               *)
(* (apps/okx_runner/reconcile_scheduler.py) and the routes that start and  *)
(* stop it (apps/okx_runner/main.py).                                      *)
(*                                                                         *)
(* One object is shared by all request threads.  Its lock covers short     *)
(* sections only.  configure tests under it that no loop is alive and then *)
(* assigns; start tests without it, creates the thread under it and        *)
(* launches the thread without it; a stop sets the shared event, looks up  *)
(* the thread and joins it in three steps more.                            *)
(***************************************************************************)
EXTENDS Naturals, FiniteSets

CONSTANTS
  Users,     \* request threads that start or stop the scheduler
  Accounts,  \* accounts it can be configured for
  None,      \* not configured
  MaxLoops,  \* bound: loop threads created in a behaviour
  MaxFaults  \* bound: run records that cannot be written

ASSUME SchedulerAssumption ==
  None \notin Accounts /\ MaxLoops \in Nat \ {0} /\ MaxFaults \in Nat

Loops == 1..MaxLoops

VARIABLES
  account,  \* _account_id, and the callable closed over it
  stop,     \* the _stop event is set
  current,  \* _thread: 0 or the loop created last
  loop,     \* what each loop thread is doing
  request,  \* what each request thread is doing
  mine,     \* the loop thread a request has created or is joining
  raced,    \* a start passed its test while another was past it
  bypassed, \* a configure passed its test while a loop was about to be launched
  faults

schedulerVars == <<account, stop, current, loop, request, mine, raced, bypassed, faults>>

SchedulerInit ==
  /\ account  = None
  /\ stop     = FALSE
  /\ current  = 0
  /\ loop     = [g \in Loops |-> "none"]
  /\ request  = [c \in Users |-> "idle"]
  /\ mine     = [c \in Users |-> 0]
  /\ raced    = FALSE
  /\ bypassed = FALSE
  /\ faults   = 0

\* The loops at work.
Live == {g \in Loops : loop[g] \in {"check", "run", "wait"}}

\* Mutant: is_running for is_alive: a loop asked to stop passes for one that
\* has stopped.
AliveUnlessStopped(g) == g \in Live /\ ~stop

\* Thread.is_alive: false of a thread created but not started yet.
IsAlive(g) == g \in Live

Step(c, label) == request' = [request EXCEPT ![c] = label]

\* Past the test, the loop not launched yet.
Starting(c) == request[c] \in {"create", "launch"}

-----------------------------------------------------------------------------
(* POST schedule/start: configure, then start.                             *)

\* Nobody is between the test and the assignment of configure; the other
\* sections under _lock are single steps.
LockFree == \A d \in Users : request[d] # "assign"

\* Mutant: the configuration is replaced under a running loop.
ConfigureAnyTime(c) ==
  /\ request[c] = "idle"
  /\ LockFree
  /\ Step(c, "assign")
  /\ bypassed' = (bypassed \/ \E d \in Users : request[d] = "launch")
  /\ UNCHANGED <<account, stop, current, loop, mine, raced, faults>>

\* While the current thread is alive, configure raises and nothing follows.  A
\* thread that is created but not launched yet is not alive, and its launch
\* does not wait for the lock.
Configure(c) ==
  /\ request[c] = "idle"
  /\ LockFree
  /\ ~IsAlive(current)
  /\ Step(c, "assign")
  /\ bypassed' = (bypassed \/ \E d \in Users : request[d] = "launch")
  /\ UNCHANGED <<account, stop, current, loop, mine, raced, faults>>

Assign(c) ==
  /\ request[c] = "assign"
  /\ account' \in Accounts
  /\ Step(c, "start")
  /\ UNCHANGED <<stop, current, loop, mine, raced, bypassed, faults>>

\* Outside the lock: another loop alive means there is nothing to do.
ScheduleCheck(c) ==
  /\ request[c] = "start"
  /\ Step(c, IF IsAlive(current) THEN "idle" ELSE "create")
  /\ raced' = (raced \/ (~IsAlive(current) /\ \E d \in Users : Starting(d)))
  /\ UNCHANGED <<account, stop, current, loop, mine, bypassed, faults>>

ScheduleCreate(c) ==
  /\ request[c] = "create"
  /\ LockFree
  /\ \E g \in Loops :
       /\ loop[g] = "none"
       /\ \A h \in 1..(g - 1) : loop[h] # "none"
       /\ loop'    = [loop EXCEPT ![g] = "created"]
       /\ current' = g
       /\ mine'    = [mine EXCEPT ![c] = g]
  /\ stop' = FALSE
  /\ Step(c, "launch")
  /\ UNCHANGED <<account, raced, bypassed, faults>>

\* Thread.start, after the lock was released.
ScheduleLaunch(c) ==
  /\ request[c] = "launch"
  /\ loop' = [loop EXCEPT ![mine[c]] = "check"]
  /\ mine' = [mine EXCEPT ![c] = 0]
  /\ Step(c, "idle")
  /\ UNCHANGED <<account, stop, current, raced, bypassed, faults>>

-----------------------------------------------------------------------------
(* POST schedule/stop.                                                     *)

StopSet(c) ==
  /\ request[c] = "idle"
  /\ stop' = TRUE
  /\ Step(c, "grab")
  /\ UNCHANGED <<account, current, loop, mine, raced, bypassed, faults>>

StopGrab(c) ==
  /\ request[c] = "grab"
  /\ mine' = [mine EXCEPT ![c] = current]
  /\ Step(c, "join")
  /\ UNCHANGED <<account, stop, current, loop, raced, bypassed, faults>>

\* The join succeeds, times out, finds no thread, or raises RuntimeError for
\* a thread that was not started yet: the request is over in any case.
StopJoin(c) ==
  /\ request[c] = "join"
  /\ mine' = [mine EXCEPT ![c] = 0]
  /\ Step(c, "idle")
  /\ UNCHANGED <<account, stop, current, loop, raced, bypassed, faults>>

-----------------------------------------------------------------------------
(* The loop thread.                                                        *)

\* Mutant: the loop never looks at the event again.
LoopCheckNever(g) ==
  /\ loop[g] = "check"
  /\ loop' = [loop EXCEPT ![g] = "run"]
  /\ UNCHANGED <<account, stop, current, request, mine, raced, bypassed, faults>>

LoopCheck(g) ==
  /\ loop[g] = "check"
  /\ loop' = [loop EXCEPT ![g] = IF stop THEN "ended" ELSE "run"]
  /\ UNCHANGED <<account, stop, current, request, mine, raced, bypassed, faults>>

\* One reconciliation; an exception of it is caught and recorded.  Writing
\* the record is not protected: an error there ends the thread.
LoopRun(g) ==
  /\ loop[g] = "run"
  /\ \/ loop' = [loop EXCEPT ![g] = "wait"] /\ UNCHANGED faults
     \/ /\ faults < MaxFaults
        /\ faults' = faults + 1
        /\ loop' = [loop EXCEPT ![g] = "ended"]
  /\ UNCHANGED <<account, stop, current, request, mine, raced, bypassed>>

\* The interval is over, or the event was set.
LoopWait(g) ==
  /\ loop[g] = "wait"
  /\ loop' = [loop EXCEPT ![g] = "check"]
  /\ UNCHANGED <<account, stop, current, request, mine, raced, bypassed, faults>>

-----------------------------------------------------------------------------
Request(c) ==
  \/ Assign(c) \/ ScheduleCheck(c) \/ ScheduleCreate(c) \/ ScheduleLaunch(c)
  \/ StopGrab(c) \/ StopJoin(c)

Looping(g) == LoopCheck(g) \/ LoopRun(g) \/ LoopWait(g)

SchedulerNext ==
  \/ \E c \in Users : Request(c) \/ StopSet(c) \/ Configure(c)
  \/ \E g \in Loops : Looping(g)

SchedulerSpec == SchedulerInit /\ [][SchedulerNext]_schedulerVars

\* Threads are scheduled: a request that began and a loop that was launched
\* go on.  Nobody has to start or stop the scheduler.
SchedulerFairSpec ==
  /\ SchedulerSpec
  /\ \A c \in Users : WF_schedulerVars(Request(c))
  /\ \A g \in Loops : WF_schedulerVars(Looping(g))

-----------------------------------------------------------------------------
(* Properties.                                                             *)

\* Every variable has its type.
SchedulerTypeOK ==
  /\ account \in Accounts \cup {None}
  /\ stop \in BOOLEAN
  /\ current \in 0..MaxLoops
  /\ loop \in [Loops -> {"none", "created", "check", "run", "wait", "ended"}]
  /\ request \in [Users -> {"idle", "assign", "start", "create", "launch", "grab", "join"}]
  /\ mine \in [Users -> 0..MaxLoops]
  /\ raced \in BOOLEAN /\ bypassed \in BOOLEAN
  /\ faults \in 0..MaxFaults

\* Whatever sequence of starts, stops, join timeouts and failed runs, by any
\* number of request threads: at most one loop reconciles, and it is the
\* current one, unless two starts passed the test for a live thread before
\* either had launched its own.
OneLoop == ~raced => \A g \in Live : g = current

\* A stop takes effect even if its join timed out: every loop ends before
\* anything is started again, unless two starts crossed.
StopEndsTheLoop == stop ~> (Live = {} \/ raced)

\* What configure raises "cannot reconfigure a running scheduler" for: the
\* account never changes under a running loop, unless two starts crossed, or a
\* configure tested a thread that was about to be launched, which is not alive
\* when it is tested and may be when the account is assigned.
AccountStandsWhileLooping ==
  [][account' # account => Live = {} \/ raced \/ bypassed]_schedulerVars

-----------------------------------------------------------------------------
\* While no starts have crossed: one request at a time is past the test, and
\* until it has launched its loop none is at work.
Orderly ==
  /\ Live \subseteq {current}
  /\ \A c \in Users :
       /\ Starting(c) => Live = {} /\ \A d \in Users : Starting(d) => d = c
       /\ request[c] = "launch" => mine[c] = current

\* Between the test and the assignment of a configure that met no thread about
\* to be launched no loop comes to life: a new one needs the lock to be created.
Undisturbed ==
  (\E c \in Users : request[c] = "assign") =>
    Live = {} /\ \A d \in Users : request[d] # "launch"

\* The inductive invariant behind OneLoop and AccountStandsWhileLooping.
OneLoopInv ==
  SchedulerTypeOK /\ (~raced => Orderly) /\ (~raced /\ ~bypassed => Undisturbed)
=============================================================================
