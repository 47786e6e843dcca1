---------------------------- MODULE PrivateStream ----------------------------
(***************************************************************************)
(* The private push stream of the runner: WsManager (ws_manager.py), which *)
(* requests start and stop from several threads, and the clients it makes  *)
(* (private_ws.py), each with the thread of an event loop of its own that  *)
(* connects, compensates by REST after a disconnection, and tries again.   *)
(*                                                                         *)
(* A client and the thread made for it have one number.  Messages are left *)
(* out: the manager gives the client nobody to hand them to.               *)
(*                                                                         *)
(* Names that other modules of background workers have as well carry the   *)
(* component's: BackgroundProofs extends them all.                         *)
(***************************************************************************)
EXTENDS Naturals, FiniteSets

CONSTANTS
  Callers,       \* request threads that start or stop the stream
  MaxReconnect,  \* max_reconnect
  MaxClients,    \* bound: clients made in a behaviour
  MaxUnwritten   \* bound: clients whose evidence cannot be written

Clients == 1..MaxClients

ASSUME StreamAssumption ==
  MaxReconnect \in Nat /\ MaxClients \in Nat /\ MaxUnwritten \in Nat

VARIABLES
  managed,    \* WsManager._client; 0 is none
  spawned,    \* WsManager._thread; 0 is none
  caller,     \* what each caller does next in start
  own,        \* the client it has made
  chosen,     \* the thread it is about to start
  thread,     \* each thread: none, made, alive, dead
  arun,       \* where each client's arun is
  stopEvent,  \* each client's stop event
  attempt,    \* sessions each client has tried
  collided,   \* a start went past the check while another was under way
  unwritten   \* clients ended by evidence that could not be written

manager     == <<managed, spawned>>
starts      == <<caller, own, chosen>>
client      == <<arun, stopEvent, attempt>>
streamNotes == <<collided, unwritten>>
streamVars  == <<manager, starts, thread, client, streamNotes>>

StreamInit ==
  /\ managed   = 0
  /\ spawned   = 0
  /\ caller    = [t \in Callers |-> "idle"]
  /\ own       = [t \in Callers |-> 0]
  /\ chosen    = [t \in Callers |-> 0]
  /\ thread    = [c \in Clients |-> "none"]
  /\ arun      = [c \in Clients |-> "new"]
  /\ stopEvent = [c \in Clients |-> FALSE]
  /\ attempt   = [c \in Clients |-> 0]
  /\ collided  = FALSE
  /\ unwritten = {}

CallerGoes(t, label) == caller' = [caller EXCEPT ![t] = label]

-----------------------------------------------------------------------------
(* WsManager.start, one step for each access to what threads share.        *)

\* Mutant: a client that was asked to stop no longer counts.
OccupiedByRunning == spawned # 0 /\ thread[spawned] = "alive" /\ ~stopEvent[managed]

\* The thread is there, be it only about to end.
Occupied == spawned # 0 /\ thread[spawned] = "alive"

\* With a thread alive the request is answered as it is.
StartCheck(t) ==
  /\ caller[t] = "idle"
  /\ ~Occupied
  /\ CallerGoes(t, "make")
  /\ collided' = (collided \/ \E u \in Callers \ {t} : caller[u] # "idle")
  /\ UNCHANGED <<manager, own, chosen, thread, client, unwritten>>

\* The credentials cannot be loaded.
StartFail(t) ==
  /\ caller[t] = "make"
  /\ CallerGoes(t, "idle")
  /\ UNCHANGED <<manager, own, chosen, thread, client, streamNotes>>

StartMake(t) ==
  /\ caller[t] = "make"
  /\ \E c \in Clients :
       /\ \A d \in Clients : d < c <=> \/ thread[d] # "none"
                                      \/ \E u \in Callers : own[u] = d
       /\ managed' = c
       /\ own' = [own EXCEPT ![t] = c]
  /\ CallerGoes(t, "thread")
  /\ UNCHANGED <<spawned, chosen, thread, client, streamNotes>>

StartThread(t) ==
  /\ caller[t] = "thread"
  /\ spawned' = own[t]
  /\ thread' = [thread EXCEPT ![own[t]] = "made"]
  /\ own' = [own EXCEPT ![t] = 0]
  /\ CallerGoes(t, "choose")
  /\ UNCHANGED <<managed, chosen, client, streamNotes>>

\* The thread to start is read from the manager again.
StartChoose(t) ==
  /\ caller[t] = "choose"
  /\ chosen' = [chosen EXCEPT ![t] = spawned]
  /\ CallerGoes(t, "launch")
  /\ UNCHANGED <<manager, own, thread, client, streamNotes>>

\* A thread that was started already raises, and the request fails.
StartLaunch(t) ==
  /\ caller[t] = "launch"
  /\ thread' = IF thread[chosen[t]] = "made" THEN [thread EXCEPT ![chosen[t]] = "alive"]
               ELSE thread
  /\ chosen' = [chosen EXCEPT ![t] = 0]
  /\ CallerGoes(t, "idle")
  /\ UNCHANGED <<manager, own, client, streamNotes>>

\* WsManager.stop: the request; waiting for the thread to end, ten seconds at
\* most, changes nothing.
Stop ==
  /\ managed # 0
  /\ stopEvent' = [stopEvent EXCEPT ![managed] = TRUE]
  /\ UNCHANGED <<manager, starts, thread, arun, attempt, streamNotes>>

-----------------------------------------------------------------------------
(* OkxPrivateWs.arun, in the thread of its own.                            *)

At(c, place) == thread[c] = "alive" /\ arun[c] = place
Move(c, place) == arun' = [arun EXCEPT ![c] = place]

Finish(c) ==
  /\ Move(c, "ended")
  /\ thread' = [thread EXCEPT ![c] = "dead"]
  /\ UNCHANGED streamNotes

\* _flush_evidence, or the directory made for it, raises where nothing in arun
\* catches it: the thread dies of it.
EvidenceFails(c) ==
  /\ Cardinality(unwritten) < MaxUnwritten
  /\ Move(c, "ended")
  /\ thread' = [thread EXCEPT ![c] = "dead"]
  /\ unwritten' = unwritten \cup {c}
  /\ UNCHANGED collided

\* The step goes on to its next place, its evidence written or not.
Go(c, place) == Move(c, place) /\ UNCHANGED <<thread, streamNotes>>

\* The stop event is cleared, and with it a stop requested before.
Begin(c) ==
  /\ At(c, "new")
  /\ Go(c, "check") \/ EvidenceFails(c)
  /\ stopEvent' = [stopEvent EXCEPT ![c] = FALSE]
  /\ UNCHANGED <<manager, starts, attempt>>

\* The condition of the loop; attempts are counted over the client's life.
MayTry(c) == ~stopEvent[c] /\ attempt[c] <= MaxReconnect

Try(c) ==
  /\ At(c, "check")
  /\ MayTry(c)
  /\ Go(c, "connecting")
  /\ attempt' = [attempt EXCEPT ![c] = @ + 1]
  /\ UNCHANGED <<manager, starts, stopEvent>>

\* The evidence is written a last time, with nothing to follow.
GiveUp(c) ==
  /\ At(c, "check")
  /\ ~MayTry(c)
  /\ Finish(c)
  /\ UNCHANGED <<manager, starts, stopEvent, attempt>>

\* The login is acknowledged and the channels are subscribed to.
Connect(c) ==
  /\ At(c, "connecting")
  /\ Go(c, "connected")
  /\ UNCHANGED <<manager, starts, stopEvent, attempt>>

\* A session ends.  If it raised, the exception is written to the evidence in
\* the handler that caught it.
Lose(c) ==
  /\ Go(c, "lost") \/ EvidenceFails(c)
  /\ UNCHANGED <<manager, starts, stopEvent, attempt>>

\* The connection or the login fails.
ConnectFails(c) == At(c, "connecting") /\ Lose(c)

\* The stream is closed by the other side, or raises; so does the evidence of a
\* message that cannot be written.
Drop(c) == At(c, "connected") /\ Lose(c)

\* Mutant: no watcher; a quiet stream does not see the stop event.
WatchStopNever(c) == FALSE /\ UNCHANGED streamVars

\* The watcher polls the stop event and closes the socket of a client that is
\* to stop; without its login acknowledged the session raises then.
WatchStop(c) ==
  /\ At(c, "connecting") \/ At(c, "connected")
  /\ stopEvent[c]
  /\ Lose(c)

\* A session that ended without being asked to is a disconnection, whether it
\* raised or not.
AfterSession(c) ==
  /\ At(c, "lost")
  /\ \/ stopEvent[c] /\ Finish(c)
     \/ ~stopEvent[c] /\ Go(c, "compensate")
  /\ UNCHANGED <<manager, starts, stopEvent, attempt>>

\* Mutant: a failure of the REST call is fatal.
CompensateRaises(c) ==
  /\ At(c, "compensate")
  /\ Go(c, "settled") \/ Finish(c)
  /\ UNCHANGED <<manager, starts, stopEvent, attempt>>

\* The account is read by REST, with no effect but on the evidence.  A failure
\* of it, or of writing it down, is logged and not fatal, unless the log cannot
\* be written either.
Compensate(c) ==
  /\ At(c, "compensate")
  /\ Go(c, "settled") \/ EvidenceFails(c)
  /\ UNCHANGED <<manager, starts, stopEvent, attempt>>

\* The retry is written to the evidence.
AfterCompensation(c) ==
  /\ At(c, "settled")
  /\ \/ stopEvent[c] /\ Finish(c)
     \/ ~stopEvent[c] /\ (Go(c, "backoff") \/ EvidenceFails(c))
  /\ UNCHANGED <<manager, starts, stopEvent, attempt>>

\* The sleep before the next attempt; a stop does not wake it.
Backoff(c) ==
  /\ At(c, "backoff")
  /\ Go(c, "check")
  /\ UNCHANGED <<manager, starts, stopEvent, attempt>>

-----------------------------------------------------------------------------
StartStream(t) ==
  \/ StartFail(t) \/ StartMake(t) \/ StartThread(t) \/ StartChoose(t) \/ StartLaunch(t)

Loop(c) ==
  \/ Begin(c) \/ Try(c) \/ GiveUp(c) \/ Connect(c) \/ ConnectFails(c) \/ WatchStop(c)
  \/ AfterSession(c) \/ Compensate(c) \/ AfterCompensation(c) \/ Backoff(c)

StreamNext ==
  \/ \E t \in Callers : StartCheck(t) \/ StartStream(t)
  \/ Stop
  \/ \E c \in Clients : Loop(c) \/ Drop(c)

StreamSpec == StreamInit /\ [][StreamNext]_streamVars

\* An event loop goes on; that the stream drops is up to the exchange.
StreamFairSpec == StreamSpec /\ \A c \in Clients : WF_streamVars(Loop(c))

-----------------------------------------------------------------------------
(* Properties.                                                             *)

\* Every variable has its type.
StreamTypeOK ==
  /\ managed \in 0..MaxClients /\ spawned \in 0..MaxClients
  /\ caller \in [Callers -> {"idle", "make", "thread", "choose", "launch"}]
  /\ own \in [Callers -> 0..MaxClients] /\ chosen \in [Callers -> 0..MaxClients]
  /\ thread \in [Clients -> {"none", "made", "alive", "dead"}]
  /\ arun \in [Clients -> {"new", "check", "connecting", "connected", "lost",
                           "compensate", "settled", "backoff", "ended"}]
  /\ stopEvent \in [Clients -> BOOLEAN]
  /\ attempt \in [Clients -> 0..(MaxReconnect + 1)]
  /\ collided \in BOOLEAN
  /\ unwritten \subseteq Clients

Alive == {c \in Clients : thread[c] = "alive"}

\* Unless two starts crossed, at most one stream is alive, and it is the one
\* stop speaks to: the check in start sees a thread that is only winding down.
OneStream ==
  ~collided => \A c \in Alive : c = spawned /\ (c = managed \/ stopEvent[c])

\* A stream ends because it was asked to, after max_reconnect tries beyond the
\* first, or because its evidence could not be written; nothing the exchange
\* does, at any place of the loop, and no failed compensation ends it.
EndsForAReason ==
  \A c \in Clients :
    arun[c] = "ended" => \/ stopEvent[c] \/ attempt[c] = MaxReconnect + 1
                         \/ c \in unwritten

\* Once its loop has begun, a client that is asked to stop does stop, wherever
\* it is: connected to a quiet stream, compensating, or waiting to try again.
StopTakesEffect ==
  \A c \in Clients : (stopEvent[c] /\ arun[c] # "new") ~> (arun[c] = "ended")
=============================================================================
