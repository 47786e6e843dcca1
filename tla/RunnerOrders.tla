---------------------------- MODULE RunnerOrders ----------------------------
(***************************************************************************)
(* The order lifecycle of the OKX Runner (apps/okx_runner/engine.py).      *)
(*                                                                         *)
(* FastAPI runs every request in a worker thread, so several submits,      *)
(* cancels, amendments and recovery passes interleave.  A request is cut   *)
(* where another one can see or change something it depends on: at each    *)
(* call of the exchange, at each committed write, and between the SELECT   *)
(* that checks a status and the UPDATE that follows it, since sqlite3      *)
(* opens its transaction only at the first write.  The answer of the       *)
(* exchange is kept in the thread and may be stale when it is applied.     *)
(*                                                                         *)
(* The exchange is external: it is modelled by what the adapter can answer *)
(* (an order it accepted, late or never; fills; cancellations).            *)
(***************************************************************************)
EXTENDS Naturals, FiniteSets

CONSTANTS
  Intents,      \* client order ids: one per intent (engine.client_order_id)
  Threads,      \* worker threads of the API server
  None,         \* no intent
  Lots,         \* quantity of an order, in the lots it can be filled by
  Terms,        \* the quantity/price pairs an amendment can ask for
  FirstTerms,   \* the pair an order is submitted with
  MaxCrashes    \* bound: crashes of the Runner process in a behaviour

ASSUME ConstantsAssumption ==
  /\ None \notin Intents
  /\ Lots \in Nat \ {0}
  /\ FirstTerms \notin Terms
  /\ MaxCrashes \in Nat

VARIABLES
  \* table orders, by client_order_id
  status,   \* "ABSENT" without a row
  known,    \* external_order_id is set
  filled,   \* filled_quantity
  terms,    \* quantity and price
  \* what each thread is doing
  pc,
  cur,      \* the intent it works on
  answer,   \* the status and fill it is about to write
  ask,      \* the terms of an amendment
  todo,     \* the rows a recovery pass has still to query
  \* the exchange, by client order id
  placed,   \* "none", "open" or "cancelled"
  done,     \* what was filled
  accepted, \* the amendments it accepted
  wire,     \* submissions sent that the exchange has not decided yet
  \* history and bound
  sent,     \* number of adapter.submit_order calls per intent
  crashes

row   == <<status, known, filled, terms>>
regs  == <<cur, answer, ask, todo>>
venue == <<placed, done, accepted, wire>>
vars  == <<row, pc, regs, venue, sent, crashes>>

-----------------------------------------------------------------------------
(* Statuses, their transitions and the words of the exchange.              *)

FinalStatuses == {"FILLED", "CANCELLED", "REJECTED"}
OpenStatuses  == {"PENDING_SUBMIT", "SUBMITTED", "PARTIALLY_FILLED", "UNKNOWN"}
Statuses      == FinalStatuses \cup OpenStatuses

\* The rows TRANSITIONS admits, as pairs; a final status has no step.
Transitions ==
       {"PENDING_SUBMIT"} \X {"SUBMITTED", "PARTIALLY_FILLED", "FILLED", "REJECTED", "UNKNOWN"}
  \cup {"SUBMITTED"} \X {"PARTIALLY_FILLED", "FILLED", "CANCELLED", "REJECTED", "UNKNOWN"}
  \cup {"PARTIALLY_FILLED"} \X {"FILLED", "CANCELLED", "UNKNOWN"}
  \cup {"UNKNOWN"} \X {"SUBMITTED", "PARTIALLY_FILLED", "FILLED", "CANCELLED", "REJECTED"}

Allowed(from, to) == <<from, to>> \in Transitions

ExternalTable ==
  [live |-> "SUBMITTED", open |-> "SUBMITTED", submitted |-> "SUBMITTED",
   partially_filled |-> "PARTIALLY_FILLED", filled |-> "FILLED",
   canceled |-> "CANCELLED", cancelled |-> "CANCELLED",
   rejected |-> "REJECTED", unknown |-> "UNKNOWN"]

ExternalStatus(word) ==
  IF word \in DOMAIN ExternalTable THEN ExternalTable[word] ELSE "UNKNOWN"

\* The words the adapter passes on for an order of the exchange: OKX's own
\* state, or the library's unified one.
Words(c) ==
  IF placed[c] = "cancelled" THEN {"canceled"}
  ELSE IF done[c] = 0        THEN {"live", "open"}
  ELSE IF done[c] = Lots     THEN {"filled", "closed"}
  ELSE                            {"partially_filled", "open"}

\* A status to write: told by the exchange, with a fill, or decided locally,
\* which leaves the execution columns alone (COALESCE with NULL).
Told(s, n) == [status |-> s, filled |-> n, told |-> TRUE]
Local(s)   == [status |-> s, filled |-> 0, told |-> FALSE]
NoAnswer   == Local("none")
Answers(c) == {Told(ExternalStatus(w), done[c]) : w \in Words(c)}

\* Mutant: an acknowledgement is taken for the cancellation itself.
BareAckPresumed == Told("CANCELLED", 0)

\* The acknowledgement of an order, a cancel or an amendment carries an id
\* and nothing else: no status reads as "submitted", no fill as 0.
BareAck == Told(ExternalStatus("submitted"), 0)

Working(c) == placed[c] = "open" /\ done[c] < Lots

Init ==
  /\ status   = [c \in Intents |-> "ABSENT"]
  /\ known    = [c \in Intents |-> FALSE]
  /\ filled   = [c \in Intents |-> 0]
  /\ terms    = [c \in Intents |-> FirstTerms]
  /\ pc       = [t \in Threads |-> "idle"]
  /\ cur      = [t \in Threads |-> None]
  /\ answer   = [t \in Threads |-> NoAnswer]
  /\ ask      = [t \in Threads |-> FirstTerms]
  /\ todo     = [t \in Threads |-> {}]
  /\ placed   = [c \in Intents |-> "none"]
  /\ done     = [c \in Intents |-> 0]
  /\ accepted = [c \in Intents |-> {}]
  /\ wire     = {}
  /\ sent     = [c \in Intents |-> 0]
  /\ crashes  = 0

-----------------------------------------------------------------------------
(* Helpers: a thread moves, with an answer to apply, or returns.           *)

Goto(t, label) == pc' = [pc EXCEPT ![t] = label] /\ UNCHANGED regs

Apply(t, label, a) ==
  /\ pc'     = [pc EXCEPT ![t] = label]
  /\ answer' = [answer EXCEPT ![t] = a]
  /\ UNCHANGED <<cur, ask, todo>>

Return(t) ==
  /\ pc'     = [pc EXCEPT ![t] = "idle"]
  /\ cur'    = [cur EXCEPT ![t] = None]
  /\ answer' = [answer EXCEPT ![t] = NoAnswer]
  /\ ask'    = [ask EXCEPT ![t] = FirstTerms]
  /\ todo'   = [todo EXCEPT ![t] = {}]

-----------------------------------------------------------------------------
(* submit                                                                  *)

\* The lookup by client order id found nothing and the risk gate approved
\* (RunnerRisk models the gate).  A replay or a refusal changes nothing.
SubmitLookup(t, c) ==
  /\ pc[t] = "idle"
  /\ status[c] = "ABSENT"
  /\ pc'  = [pc EXCEPT ![t] = "insert"]
  /\ cur' = [cur EXCEPT ![t] = c]
  /\ UNCHANGED <<answer, ask, todo, row, venue, sent, crashes>>

\* Mutant: the loser of the insert sends as well.
SubmitInsertTwice(t) ==
  /\ pc[t] = "insert"
  /\ status' = [status EXCEPT ![cur[t]] = IF @ = "ABSENT" THEN "PENDING_SUBMIT" ELSE @]
  /\ Goto(t, "send")
  /\ UNCHANGED <<known, filled, terms, venue, sent, crashes>>

\* INSERT of the PENDING_SUBMIT row, or IntegrityError and a replay.
SubmitInsert(t) ==
  /\ pc[t] = "insert"
  /\ \/ /\ status[cur[t]] = "ABSENT"
        /\ status' = [status EXCEPT ![cur[t]] = "PENDING_SUBMIT"]
        /\ Goto(t, "send")
     \/ /\ status[cur[t]] # "ABSENT"
        /\ Return(t)
        /\ UNCHANGED status
  /\ UNCHANGED <<known, filled, terms, venue, sent, crashes>>

SubmitSend(t) ==
  /\ pc[t] = "send"
  /\ sent' = [sent EXCEPT ![cur[t]] = @ + 1]
  /\ wire' = wire \cup {cur[t]}
  /\ Goto(t, "await")
  /\ UNCHANGED <<row, placed, done, accepted, crashes>>

SubmitAnswered(t) ==
  /\ pc[t] = "await"
  /\ placed[cur[t]] # "none"
  /\ \E a \in Answers(cur[t]) \cup {BareAck} : Apply(t, "read", a)
  /\ UNCHANGED <<row, venue, sent, crashes>>

\* TimeoutError or ConnectionError: ask the exchange before deciding.
SubmitTimedOut(t) ==
  /\ pc[t] = "await"
  /\ Goto(t, "query")
  /\ UNCHANGED <<row, venue, sent, crashes>>

\* Any other exception: the exchange refused, or the library's own network
\* exception, which is neither TimeoutError nor ConnectionError.
SubmitRaised(t) ==
  /\ pc[t] = "await"
  /\ Apply(t, "read", Local("REJECTED"))
  /\ UNCHANGED <<row, venue, sent, crashes>>

\* fetch_order_by_client_id after a timeout; it may raise in its turn.
SubmitQuery(t) ==
  /\ pc[t] = "query"
  /\ \/ placed[cur[t]] # "none" /\ \E a \in Answers(cur[t]) : Apply(t, "read", a)
     \/ placed[cur[t]] = "none" /\ Apply(t, "read", Local("UNKNOWN"))
     \/ Return(t)
  /\ UNCHANGED <<row, venue, sent, crashes>>

-----------------------------------------------------------------------------
(* _transition: SELECT and check, then UPDATE in a transaction of its own. *)

\* The answer repeats the status, makes a step of the table, or raises
\* ValueError, which ends the request or the whole recovery pass.
TransitionRead(t) ==
  LET from == status[cur[t]]
      to   == answer[t].status
  IN
  /\ pc[t] = "read"
  /\ \/ from = to /\ Goto(t, "refresh")
     \/ Allowed(from, to) /\ Goto(t, "write")
     \/ from # to /\ ~Allowed(from, to) /\ Return(t)
  /\ UNCHANGED <<row, venue, sent, crashes>>

\* The UPDATE by order id, whatever the status has become since the SELECT.
TransitionWrite(t) ==
  LET c == cur[t]
      a == answer[t]
  IN
  /\ pc[t] \in {"refresh", "write"}
  /\ status' = [status EXCEPT ![c] = IF pc[t] = "write" THEN a.status ELSE @]
  /\ known'  = [known EXCEPT ![c] = @ \/ a.told]
  /\ filled' = [filled EXCEPT ![c] = IF a.told THEN a.filled ELSE @]
  /\ \/ todo[t] = {} /\ Return(t)
     \/ /\ todo[t] # {}
        /\ pc'     = [pc EXCEPT ![t] = "recover"]
        /\ cur'    = [cur EXCEPT ![t] = None]
        /\ answer' = [answer EXCEPT ![t] = NoAnswer]
        /\ UNCHANGED <<ask, todo>>
  /\ UNCHANGED <<terms, venue, sent, crashes>>

-----------------------------------------------------------------------------
(* cancel and amend                                                        *)

CancelRead(t, c) ==
  /\ pc[t] = "idle"
  /\ status[c] \in OpenStatuses
  /\ cur' = [cur EXCEPT ![t] = c]
  /\ \/ /\ known[c]
        /\ pc' = [pc EXCEPT ![t] = "cancel"]
        /\ UNCHANGED answer
     \/ /\ ~known[c]
        /\ pc' = [pc EXCEPT ![t] = "read"]
        /\ answer' = [answer EXCEPT ![t] = Local("UNKNOWN")]
  /\ UNCHANGED <<ask, todo, row, venue, sent, crashes>>

\* adapter.cancel_order: done and answered, done and the answer lost, or
\* an error without effect.
CancelSend(t) ==
  /\ pc[t] = "cancel"
  /\ \/ /\ Working(cur[t])
        /\ placed' = [placed EXCEPT ![cur[t]] = "cancelled"]
        /\ \/ \E a \in {Told("CANCELLED", done[cur[t]]), BareAck} : Apply(t, "read", a)
           \/ Return(t)
     \/ Return(t) /\ UNCHANGED placed
  /\ UNCHANGED <<row, done, accepted, wire, sent, crashes>>

AmendRead(t, c) ==
  /\ pc[t] = "idle"
  /\ status[c] \in OpenStatuses
  /\ known[c]
  /\ pc'  = [pc EXCEPT ![t] = "amend"]
  /\ cur' = [cur EXCEPT ![t] = c]
  /\ \E v \in Terms : ask' = [ask EXCEPT ![t] = v]
  /\ UNCHANGED <<answer, todo, row, venue, sent, crashes>>

\* Mutant: the amendment is recorded even if the exchange refused it.
AmendSendUnchecked(t) ==
  /\ pc[t] = "amend"
  /\ Apply(t, "note", BareAck)
  /\ UNCHANGED <<row, venue, sent, crashes>>

AmendSend(t) ==
  /\ pc[t] = "amend"
  /\ \/ /\ Working(cur[t])
        /\ accepted' = [accepted EXCEPT ![cur[t]] = @ \cup {ask[t]}]
        /\ \/ \E a \in Answers(cur[t]) \cup {BareAck} : Apply(t, "note", a)
           \/ Return(t)
     \/ Return(t) /\ UNCHANGED accepted
  /\ UNCHANGED <<row, placed, done, wire, sent, crashes>>

\* The amended request is written to the row whatever its status is by now.
AmendNote(t) ==
  /\ pc[t] = "note"
  /\ terms' = [terms EXCEPT ![cur[t]] = ask[t]]
  /\ Goto(t, "read")
  /\ UNCHANGED <<status, known, filled, venue, sent, crashes>>

-----------------------------------------------------------------------------
(* recover_open_orders                                                     *)

RecoverRead(t) ==
  LET open == {c \in Intents : status[c] \in OpenStatuses} IN
  /\ pc[t] = "idle"
  /\ open # {}
  /\ pc'   = [pc EXCEPT ![t] = "recover"]
  /\ todo' = [todo EXCEPT ![t] = open]
  /\ UNCHANGED <<cur, answer, ask, row, venue, sent, crashes>>

Found(c, ifNone) == IF placed[c] = "none" THEN {Local(ifNone)} ELSE Answers(c)

\* Mutants: a row stays on the list after it was queried; an order not found
\* is taken for one the exchange turned down.
RecoverFetchSame(t) ==
  /\ pc[t] = "recover"
  /\ \E c \in todo[t], a \in {Local("UNKNOWN")} :
       /\ pc'     = [pc EXCEPT ![t] = "read"]
       /\ cur'    = [cur EXCEPT ![t] = c]
       /\ answer' = [answer EXCEPT ![t] = a]
  /\ UNCHANGED <<ask, todo, row, venue, sent, crashes>>

RecoverFetchDead(t) ==
  /\ pc[t] = "recover"
  /\ \E c \in todo[t] : \E a \in Found(c, "REJECTED") :
       /\ pc'     = [pc EXCEPT ![t] = "read"]
       /\ cur'    = [cur EXCEPT ![t] = c]
       /\ answer' = [answer EXCEPT ![t] = a]
       /\ todo'   = [todo EXCEPT ![t] = @ \ {c}]
  /\ UNCHANGED <<ask, row, venue, sent, crashes>>

\* One row of the list: what the exchange says of it, UNKNOWN if nothing,
\* or an error that ends the pass.
RecoverFetch(t) ==
  /\ pc[t] = "recover"
  /\ \/ /\ \E c \in todo[t] : \E a \in Found(c, "UNKNOWN") :
             /\ pc'     = [pc EXCEPT ![t] = "read"]
             /\ cur'    = [cur EXCEPT ![t] = c]
             /\ answer' = [answer EXCEPT ![t] = a]
             /\ todo'   = [todo EXCEPT ![t] = @ \ {c}]
        /\ UNCHANGED ask
     \/ Return(t)
  /\ UNCHANGED <<row, venue, sent, crashes>>

-----------------------------------------------------------------------------
(* The process and the exchange.                                           *)

Crash ==
  /\ crashes < MaxCrashes
  /\ crashes' = crashes + 1
  /\ pc'      = [t \in Threads |-> "idle"]
  /\ cur'     = [t \in Threads |-> None]
  /\ answer'  = [t \in Threads |-> NoAnswer]
  /\ ask'     = [t \in Threads |-> FirstTerms]
  /\ todo'    = [t \in Threads |-> {}]
  /\ UNCHANGED <<row, venue, sent>>

VenueDecide(c) ==
  /\ c \in wire
  /\ wire' = wire \ {c}
  /\ \/ placed' = [placed EXCEPT ![c] = "open"]
     \/ UNCHANGED placed
  /\ UNCHANGED <<row, pc, regs, done, accepted, sent, crashes>>

VenueFill(c) ==
  /\ Working(c)
  /\ done' = [done EXCEPT ![c] = @ + 1]
  /\ UNCHANGED <<row, pc, regs, placed, accepted, wire, sent, crashes>>

VenueCancel(c) ==
  /\ Working(c)
  /\ placed' = [placed EXCEPT ![c] = "cancelled"]
  /\ UNCHANGED <<row, pc, regs, done, accepted, wire, sent, crashes>>

-----------------------------------------------------------------------------
\* The steps a running thread takes by itself once a request has begun.
Continue(t) ==
  \/ SubmitInsert(t) \/ SubmitSend(t) \/ SubmitAnswered(t) \/ SubmitTimedOut(t)
  \/ SubmitRaised(t) \/ SubmitQuery(t)
  \/ TransitionRead(t) \/ TransitionWrite(t)
  \/ CancelSend(t) \/ AmendSend(t) \/ AmendNote(t) \/ RecoverFetch(t)

Begin(t) ==
  \/ \E c \in Intents : SubmitLookup(t, c) \/ CancelRead(t, c) \/ AmendRead(t, c)
  \/ RecoverRead(t)

Exchange == \E c \in Intents : VenueDecide(c) \/ VenueFill(c) \/ VenueCancel(c)

Next ==
  \/ \E t \in Threads : Begin(t) \/ Continue(t)
  \/ Crash
  \/ Exchange

Spec == Init /\ [][Next]_vars

\* A request that began goes on: the thread is scheduled and every call of
\* the adapter returns or raises.  Crashes, new requests and the exchange
\* owe nothing.
FairSpec == Spec /\ \A t \in Threads : WF_vars(Continue(t))

-----------------------------------------------------------------------------
(* Properties.                                                             *)

\* Every variable has its type; in particular a stored status is always one
\* of the seven the Runner knows, whatever word the exchange answers.
Labels == {"idle", "insert", "send", "await", "query", "read", "refresh", "write",
           "cancel", "amend", "note", "recover"}
AllTerms == Terms \cup {FirstTerms}
AnswerType == [status : Statuses \cup {"none"}, filled : 0..Lots, told : BOOLEAN]

RowType ==
  /\ status \in [Intents -> Statuses \cup {"ABSENT"}]
  /\ known \in [Intents -> BOOLEAN]
  /\ filled \in [Intents -> 0..Lots]
  /\ terms \in [Intents -> AllTerms]

ThreadType ==
  /\ pc \in [Threads -> Labels]
  /\ cur \in [Threads -> Intents \cup {None}]
  /\ answer \in [Threads -> AnswerType]
  /\ ask \in [Threads -> AllTerms]
  /\ todo \in [Threads -> SUBSET Intents]

VenueType ==
  /\ placed \in [Intents -> {"none", "open", "cancelled"}]
  /\ done \in [Intents -> 0..Lots]
  /\ accepted \in [Intents -> SUBSET Terms]
  /\ wire \subseteq Intents

TypeOK ==
  /\ RowType
  /\ ThreadType
  /\ VenueType
  /\ sent \in [Intents -> Nat]
  /\ crashes \in 0..MaxCrashes

\* An intent reaches adapter.submit_order at most once, however many times
\* it is submitted, by however many threads, across crashes and recovery.
AtMostOneSubmission == \A c \in Intents : sent[c] <= 1

\* The local row never claims more than the exchange did: a row known at
\* the exchange exists there, its fill is no larger, and FILLED or CANCELLED
\* say what really became of it.  (REJECTED is not in the list: submit also
\* stores it for an order whose answer was lost, and which works.)
Justified(c) ==
  /\ known[c] => placed[c] # "none"
  /\ filled[c] <= done[c]
  /\ status[c] = "FILLED" => done[c] = Lots
  /\ status[c] = "CANCELLED" => placed[c] = "cancelled"
  /\ status[c] \in {"SUBMITTED", "PARTIALLY_FILLED"} => known[c]
LocalNeverAheadOfVenue == \A c \in Intents : Justified(c)

\* The quantity and price of a row are those it was submitted with or some
\* the exchange has accepted: no amendment is recorded that was refused.
LocalTermsWereAccepted ==
  \A c \in Intents : terms[c] \in accepted[c] \cup {FirstTerms}

\* A recorded intent is not forgotten: as long as the process has not
\* crashed, one that was not sent yet has a thread about to send it, even
\* if recovery or a cancel has marked its row UNKNOWN meanwhile.
NoIntentForgotten ==
  crashes = 0 =>
    \A c \in Intents :
      status[c] # "ABSENT" /\ sent[c] = 0 =>
        \E t \in Threads : pc[t] = "send" /\ cur[t] = c

\* The lifecycle implements the promise of OrderIntent for every intent:
\* recorded, then sent, and a verdict on nothing that was not sent.
stageOf   == [c \in Intents |-> IF status[c] = "ABSENT" THEN "new"
                                ELSE IF sent[c] = 0 THEN "recorded" ELSE "sent"]
verdictOf == [c \in Intents |-> IF status[c] \in FinalStatuses THEN status[c] ELSE "open"]
Promise == INSTANCE OrderIntent WITH stage <- stageOf, verdict <- verdictOf
KeepsPromise == Promise!Spec

\* A request that began ends: no chain of timeouts, stale rows and answers
\* keeps a worker thread, a recovery pass over every open row included.
RequestsReturn == \A t \in Threads : pc[t] # "idle" ~> pc[t] = "idle"

\* What _transition raises "cannot transition final order" for: a final
\* status is never left, even with several workers.
FinalIsFinal ==
  [][\A c \in Intents : status[c] \in FinalStatuses => status'[c] = status[c]]_vars

-----------------------------------------------------------------------------
(* The inductive invariant behind AtMostOneSubmission, the comparison with *)
(* the exchange and the refinement: what is true of an intent, and what a  *)
(* thread may count on between two of its steps.                           *)

\* An answer is never ahead of the exchange either, however old it is.
Witnessed(a, c) ==
  /\ a.status \in Statuses \ {"PENDING_SUBMIT", "REJECTED"}
  /\ placed[c] # "none"
  /\ a.filled <= done[c]
  /\ a.status = "FILLED" => done[c] = Lots
  /\ a.status = "CANCELLED" => placed[c] = "cancelled"

IntentOK(c) ==
  /\ sent[c] <= 1
  /\ sent[c] = 0 => c \notin wire /\ placed[c] = "none"
  /\ status[c] = "ABSENT" => sent[c] = 0
  /\ status[c] \in FinalStatuses => sent[c] = 1
  /\ placed[c] = "none" => done[c] = 0
  /\ c \in wire => placed[c] = "none"
  /\ Justified(c)
  /\ terms[c] \in accepted[c] \cup {FirstTerms}

ThreadOK(t) ==
  /\ pc[t] \notin {"idle", "recover"} => cur[t] \in Intents
  /\ pc[t] \notin {"idle", "recover", "insert"} => status[cur[t]] # "ABSENT"
  /\ pc[t] = "send" => sent[cur[t]] = 0
  /\ pc[t] \in {"await", "query"} => sent[cur[t]] = 1
  /\ pc[t] \in {"read", "refresh", "write", "note"} =>
       \/ answer[t] = Local("UNKNOWN")
       \/ answer[t] = Local("REJECTED") /\ sent[cur[t]] = 1
       \/ answer[t].told /\ Witnessed(answer[t], cur[t])
  /\ pc[t] = "note" => ask[t] \in accepted[cur[t]]
  /\ pc[t] = "amend" => ask[t] \in Terms
  /\ \A d \in todo[t] : status[d] # "ABSENT"

\* Two threads never stand before the same submission.
Sending(t, c) == pc[t] = "send" /\ cur[t] = c
OneSender ==
  \A t, u \in Threads : \A c \in Intents : Sending(t, c) /\ Sending(u, c) => t = u

LifecycleInv ==
  /\ TypeOK
  /\ \A c \in Intents : IntentOK(c)
  /\ \A t \in Threads : ThreadOK(t)
  /\ OneSender
=============================================================================
