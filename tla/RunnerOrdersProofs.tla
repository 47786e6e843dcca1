------------------------- MODULE RunnerOrdersProofs -------------------------
(***************************************************************************)
(* Proofs about RunnerOrders for any set of intents and threads, any order *)
(* size and any number of crashes.                                         *)
(*                                                                         *)
(* LifecycleInv is inductive.  A step of a thread touches its own registers*)
(* (OthersStay) and moves the shared state forward only (Advances), so the *)
(* other threads keep what they count on (StepKeeps); one lemma per action *)
(* adds what that action does.                                             *)
(***************************************************************************)
EXTENDS RunnerOrders, TLAPS

\* A step of thread t leaves the registers of the others alone.
OthersStay(t) == \A u \in Threads \ {t} :
  pc'[u] = pc[u] /\ cur'[u] = cur[u] /\ answer'[u] = answer[u] /\ ask'[u] = ask[u] /\ todo'[u] = todo[u]

\* A step only moves an intent on; t alone may submit one, from "send".
Advances(t) == \A d \in Intents :
  /\ status[d] # "ABSENT" => status'[d] # "ABSENT"
  /\ sent'[d] = sent[d] \/ (sent[d] = 0 /\ Sending(t, d))
  /\ placed[d] # "none" => placed'[d] # "none"
  /\ placed[d] = "cancelled" => placed'[d] = "cancelled"
  /\ done[d] <= done'[d]
  /\ done[d] = Lots => done'[d] = Lots
  /\ accepted[d] \subseteq accepted'[d]

\* A thread that moves keeps its registers and the type of all.
LEMMA GotoMoves ==
  ASSUME NEW t \in Threads, NEW l \in Labels, ThreadType, Goto(t, l)
  PROVE  /\ ThreadType'
         /\ OthersStay(t)
         /\ pc'[t] = l /\ cur'[t] = cur[t] /\ answer'[t] = answer[t]
         /\ ask'[t] = ask[t] /\ todo'[t] = todo[t]
  BY DEF ThreadType, Goto, OthersStay, regs

\* A thread that takes an answer keeps its other registers.
LEMMA ApplyMoves ==
  ASSUME NEW t \in Threads, NEW l \in Labels, NEW a \in AnswerType, ThreadType, Apply(t, l, a)
  PROVE  /\ ThreadType'
         /\ OthersStay(t)
         /\ pc'[t] = l /\ cur'[t] = cur[t] /\ answer'[t] = a
         /\ ask'[t] = ask[t] /\ todo'[t] = todo[t]
  BY DEF ThreadType, Apply, OthersStay

\* The statuses decided locally are answers.
LEMMA NoAnswerType == NoAnswer \in AnswerType /\ Local("UNKNOWN") \in AnswerType /\ Local("REJECTED") \in AnswerType
  BY ConstantsAssumption DEF NoAnswer, Local, AnswerType, Statuses, OpenStatuses, FinalStatuses

\* A thread that returns holds nothing.
LEMMA ReturnMoves ==
  ASSUME NEW t \in Threads, ThreadType, Return(t)
  PROVE  /\ ThreadType'
         /\ OthersStay(t)
         /\ pc'[t] = "idle"
         /\ ThreadOK(t)'
<1>1. ThreadType' /\ OthersStay(t) /\ pc'[t] = "idle" /\ todo'[t] = {}
  BY NoAnswerType DEF ThreadType, Return, OthersStay, Labels, AllTerms
<1>. QED BY <1>1 DEF ThreadOK

\* What an answer says of the exchange stays true, however late it is used.
LEMMA WitnessStays ==
  ASSUME NEW t \in Threads, NEW c \in Intents, NEW a \in AnswerType, VenueType, VenueType', Advances(t),
         Witnessed(a, c)
  PROVE  Witnessed(a, c)'
  BY ConstantsAssumption DEF Witnessed, Advances, VenueType, AnswerType

\* The frame of every thread step: what the others count on is kept.
LEMMA StepKeeps ==
  ASSUME NEW t \in Threads, LifecycleInv, OthersStay(t), Advances(t),
         pc'[t] = "send" => \A u \in Threads \ {t} : pc[u] = "send" => cur[u] # cur'[t],
         TypeOK', ThreadOK(t)', \A d \in Intents : IntentOK(d)'
  PROVE  LifecycleInv'
<1> USE DEF LifecycleInv
<1>1. ASSUME NEW u \in Threads, u # t PROVE ThreadOK(u)'
  <2>1. pc'[u] = pc[u] /\ cur'[u] = cur[u] /\ answer'[u] = answer[u] /\ ask'[u] = ask[u] /\ todo'[u] = todo[u]
    BY <1>1 DEF OthersStay
  <2>2. ThreadOK(u)
    OBVIOUS
  <2>3. \A d \in todo[u] : d \in Intents
    BY DEF TypeOK, ThreadType
  <2>4. pc[u] = "send" /\ cur[u] \in Intents => ~Sending(t, cur[u])
    BY <1>1 DEF OneSender, Sending
  <2>5. cur[u] \in Intents /\ Witnessed(answer[u], cur[u]) => Witnessed(answer[u], cur[u])'
    BY <2>1, WitnessStays DEF TypeOK, ThreadType
  <2>6. CASE pc[u] \in {"idle", "recover"}
    BY <2>1, <2>2, <2>3, <2>6 DEF ThreadOK, Advances
  <2>7. CASE pc[u] \notin {"idle", "recover"}
    BY <2>1, <2>2, <2>3, <2>4, <2>5, <2>7 DEF ThreadOK, Advances
  <2>. QED BY <2>6, <2>7
<1>2. OneSender'
  BY DEF OneSender, Sending, OthersStay, TypeOK, ThreadType
<1>. QED BY <1>1, <1>2

\* Whatever the adapter answers about an order is backed by the exchange.
LEMMA AnswersWitnessed ==
  ASSUME NEW c \in Intents, VenueType, placed[c] # "none", NEW a \in Answers(c) \cup {BareAck}
  PROVE  /\ a \in AnswerType
         /\ a.told
         /\ Witnessed(a, c)
<1> USE ConstantsAssumption
<1>1. PICK w \in Words(c) \cup {"submitted"}, n \in {0, done[c]} :
        /\ a = Told(ExternalStatus(w), n)
        /\ w = "submitted" => n = 0
        /\ w # "submitted" => n = done[c] /\ w \in Words(c)
  BY DEF Answers, BareAck, Words
<1>2. ExternalStatus("canceled") = "CANCELLED" /\ ExternalStatus("live") = "SUBMITTED"
      /\ ExternalStatus("open") = "SUBMITTED" /\ ExternalStatus("filled") = "FILLED"
      /\ ExternalStatus("closed") = "UNKNOWN" /\ ExternalStatus("submitted") = "SUBMITTED"
      /\ ExternalStatus("partially_filled") = "PARTIALLY_FILLED"
  BY DEF ExternalStatus, ExternalTable
<1>3. w \in {"canceled", "live", "open", "filled", "closed", "submitted", "partially_filled"}
  BY DEF Words
<1>. QED
  BY <1>1, <1>2, <1>3 DEF Words, Told, AnswerType, Witnessed, VenueType, Statuses, OpenStatuses, FinalStatuses

\* A step that changes registers only keeps what is said of the intents.
LEMMA Unmoved ==
  ASSUME LifecycleInv, ThreadType', UNCHANGED <<row, venue, sent, crashes>>
  PROVE  /\ TypeOK'
         /\ \A t \in Threads : Advances(t)
         /\ \A d \in Intents : IntentOK(d)'
<1> USE ConstantsAssumption DEF LifecycleInv, row, venue
<1>1. TypeOK'
  BY DEF TypeOK, RowType, VenueType
<1>2. ASSUME NEW t \in Threads PROVE Advances(t)
  BY DEF TypeOK, VenueType, Advances
<1>3. ASSUME NEW d \in Intents PROVE IntentOK(d)'
  BY DEF IntentOK, Justified
<1>. QED BY <1>1, <1>2, <1>3

\* A request that takes an answer the exchange backs.
LEMMA ApplyKeeps ==
  ASSUME NEW t \in Threads, NEW l \in {"read", "note"}, NEW a \in AnswerType, LifecycleInv,
         Apply(t, l, a), UNCHANGED <<row, sent, crashes>>,
         VenueType', Advances(t), \A d \in Intents : IntentOK(d)',
         pc[t] \notin {"idle", "recover", "insert"},
         l = "note" => ask[t] \in accepted'[cur[t]],
         \/ a = Local("UNKNOWN")
         \/ a = Local("REJECTED") /\ sent[cur[t]] = 1
         \/ a.told /\ Witnessed(a, cur[t])'
  PROVE  LifecycleInv'
<1> USE DEF LifecycleInv
<1>1. /\ ThreadType' /\ OthersStay(t)
      /\ pc'[t] = l /\ cur'[t] = cur[t] /\ answer'[t] = a /\ ask'[t] = ask[t] /\ todo'[t] = todo[t]
  BY ApplyMoves DEF TypeOK, Labels
<1>2. TypeOK'
  BY <1>1 DEF TypeOK, RowType, row
<1>3. ThreadOK(t)'
  BY <1>1 DEF ThreadOK, Witnessed, row
<1>. QED BY <1>1, <1>2, <1>3, StepKeeps

\* A request that ends.
LEMMA ReturnKeeps ==
  ASSUME NEW t \in Threads, LifecycleInv, Return(t), UNCHANGED <<row, sent, crashes>>,
         VenueType', Advances(t), \A d \in Intents : IntentOK(d)'
  PROVE  LifecycleInv'
<1> USE DEF LifecycleInv
<1>1. ThreadType' /\ OthersStay(t) /\ pc'[t] = "idle" /\ ThreadOK(t)'
  BY ReturnMoves DEF TypeOK
<1>2. TypeOK'
  BY <1>1 DEF TypeOK, RowType, row
<1>. QED BY <1>1, <1>2, StepKeeps

\* The two cases again, when the exchange does not move.
LEMMA UnmovedApply ==
  ASSUME NEW t \in Threads, NEW l \in {"read", "note"}, NEW a \in AnswerType, LifecycleInv,
         Apply(t, l, a), UNCHANGED <<row, venue, sent, crashes>>,
         pc[t] \notin {"idle", "recover", "insert"},
         l = "note" => ask[t] \in accepted[cur[t]],
         \/ a = Local("UNKNOWN")
         \/ a = Local("REJECTED") /\ sent[cur[t]] = 1
         \/ a.told /\ Witnessed(a, cur[t])
  PROVE  LifecycleInv'
<1>1. ThreadType'
  BY ApplyMoves DEF LifecycleInv, TypeOK, Labels
<1>2. TypeOK' /\ Advances(t) /\ \A d \in Intents : IntentOK(d)'
  BY <1>1, Unmoved
<1>3. Witnessed(a, cur[t]) => Witnessed(a, cur[t])'
  BY DEF Witnessed, Apply, venue
<1>4. l = "note" => ask[t] \in accepted'[cur[t]]
  BY DEF venue
<1>. QED BY <1>2, <1>3, <1>4, ApplyKeeps DEF TypeOK

LEMMA UnmovedReturn ==
  ASSUME NEW t \in Threads, LifecycleInv, Return(t), UNCHANGED <<row, venue, sent, crashes>>
  PROVE  LifecycleInv'
<1>1. ThreadType'
  BY ReturnMoves DEF LifecycleInv, TypeOK
<1>2. TypeOK' /\ Advances(t) /\ \A d \in Intents : IntentOK(d)'
  BY <1>1, Unmoved
<1>. QED BY <1>2, ReturnKeeps DEF TypeOK

\* submit found no row.
LEMMA SubmitLookupKeeps ==
  ASSUME NEW t \in Threads, NEW c \in Intents, LifecycleInv, SubmitLookup(t, c)
  PROVE  LifecycleInv'
<1> USE DEF LifecycleInv
<1>1. ThreadType' /\ OthersStay(t)
  BY DEF SubmitLookup, TypeOK, ThreadType, OthersStay, Labels
<1>2. ThreadOK(t)'
  BY DEF SubmitLookup, TypeOK, ThreadType, ThreadOK, row
<1>3. Advances(t) /\ TypeOK' /\ \A d \in Intents : IntentOK(d)'
  BY <1>1, Unmoved DEF SubmitLookup
<1>4. pc'[t] # "send"
  BY DEF SubmitLookup, TypeOK, ThreadType
<1>. QED BY <1>1, <1>2, <1>3, <1>4, StepKeeps

\* The winner of the insert is the only sender: the others saw a row.
LEMMA SubmitInsertKeeps ==
  ASSUME NEW t \in Threads, LifecycleInv, SubmitInsert(t)
  PROVE  LifecycleInv'
<1> USE DEF LifecycleInv
<1>c. cur[t] \in Intents
  BY DEF SubmitInsert, ThreadOK
<1>1. CASE status[cur[t]] = "ABSENT"
  <2>1. /\ status' = [status EXCEPT ![cur[t]] = "PENDING_SUBMIT"]
        /\ Goto(t, "send")
    BY <1>1 DEF SubmitInsert
  <2>2. /\ ThreadType' /\ OthersStay(t)
        /\ pc'[t] = "send" /\ cur'[t] = cur[t] /\ todo'[t] = todo[t]
    BY <2>1, GotoMoves DEF TypeOK, Labels
  <2>3. TypeOK'
    BY <1>c, <2>1, <2>2 DEF SubmitInsert, TypeOK, RowType, VenueType, venue, Statuses, OpenStatuses
  <2>6. Advances(t)
    BY <1>1, <1>c, <2>1, ConstantsAssumption DEF SubmitInsert, TypeOK, RowType, VenueType, Advances, venue
  <2>7. ASSUME NEW d \in Intents PROVE IntentOK(d)'
    BY <1>1, <1>c, <2>1 DEF SubmitInsert, TypeOK, RowType, IntentOK, Justified, venue, FinalStatuses
  <2>4. ThreadOK(t)'
    BY <1>1, <1>c, <2>1, <2>2, <2>6 DEF ThreadOK, SubmitInsert, TypeOK, ThreadType, RowType, IntentOK, Advances
  <2>5. ASSUME NEW u \in Threads, u # t PROVE pc[u] = "send" => cur[u] # cur[t]
    BY <1>1 DEF ThreadOK
  <2>. QED BY <2>2, <2>3, <2>4, <2>5, <2>6, <2>7, StepKeeps
<1>2. CASE status[cur[t]] # "ABSENT"
  <2>1. Return(t) /\ UNCHANGED <<row, venue, sent, crashes>>
    BY <1>2 DEF SubmitInsert, row
  <2>. QED BY <2>1, UnmovedReturn
<1>. QED BY <1>1, <1>2

\* The one sender of the intent submits it.
LEMMA SubmitSendKeeps ==
  ASSUME NEW t \in Threads, LifecycleInv, SubmitSend(t)
  PROVE  LifecycleInv'
<1> USE DEF LifecycleInv
<1>c. cur[t] \in Intents /\ sent[cur[t]] = 0 /\ pc[t] = "send"
  BY DEF SubmitSend, ThreadOK
<1>1. /\ ThreadType' /\ OthersStay(t)
      /\ pc'[t] = "await" /\ cur'[t] = cur[t] /\ todo'[t] = todo[t]
  BY GotoMoves DEF SubmitSend, TypeOK, Labels
<1>2. TypeOK'
  BY <1>c, <1>1 DEF SubmitSend, TypeOK, RowType, VenueType, row
<1>3. Advances(t)
  BY <1>c, ConstantsAssumption DEF SubmitSend, TypeOK, VenueType, Advances, Sending, row
<1>4. ASSUME NEW d \in Intents PROVE IntentOK(d)'
  BY <1>c DEF SubmitSend, TypeOK, IntentOK, Justified, ThreadOK, row
<1>5. ThreadOK(t)'
  BY <1>c, <1>1, <1>2 DEF SubmitSend, ThreadOK, TypeOK, row
<1>. QED BY <1>1, <1>2, <1>3, <1>4, <1>5, StepKeeps

\* The exchange answers the submission.
LEMMA SubmitAnsweredKeeps ==
  ASSUME NEW t \in Threads, LifecycleInv, SubmitAnswered(t)
  PROVE  LifecycleInv'
<1>1. PICK a \in Answers(cur[t]) \cup {BareAck} : Apply(t, "read", a)
  BY DEF SubmitAnswered
<1>2. cur[t] \in Intents /\ a \in AnswerType /\ a.told /\ Witnessed(a, cur[t])
  BY AnswersWitnessed DEF SubmitAnswered, LifecycleInv, TypeOK, ThreadOK
<1>. QED BY <1>1, <1>2, UnmovedApply DEF SubmitAnswered

\* The submission times out.
LEMMA SubmitTimedOutKeeps ==
  ASSUME NEW t \in Threads, LifecycleInv, SubmitTimedOut(t)
  PROVE  LifecycleInv'
<1> USE DEF LifecycleInv
<1>1. /\ ThreadType' /\ OthersStay(t)
      /\ pc'[t] = "query" /\ cur'[t] = cur[t] /\ todo'[t] = todo[t]
  BY GotoMoves DEF SubmitTimedOut, TypeOK, Labels
<1>2. TypeOK' /\ Advances(t) /\ \A d \in Intents : IntentOK(d)'
  BY <1>1, Unmoved DEF SubmitTimedOut
<1>3. ThreadOK(t)'
  BY <1>1 DEF SubmitTimedOut, ThreadOK, row, venue
<1>. QED BY <1>1, <1>2, <1>3, StepKeeps

\* The submission fails in another way.
LEMMA SubmitRaisedKeeps ==
  ASSUME NEW t \in Threads, LifecycleInv, SubmitRaised(t)
  PROVE  LifecycleInv'
<1>1. sent[cur[t]] = 1
  BY DEF SubmitRaised, LifecycleInv, ThreadOK
<1>. QED BY <1>1, NoAnswerType, UnmovedApply DEF SubmitRaised

\* The query after a timeout.
LEMMA SubmitQueryKeeps ==
  ASSUME NEW t \in Threads, LifecycleInv, SubmitQuery(t)
  PROVE  LifecycleInv'
<1>c. cur[t] \in Intents
  BY DEF SubmitQuery, LifecycleInv, ThreadOK
<1>1. CASE placed[cur[t]] # "none" /\ \E a \in Answers(cur[t]) : Apply(t, "read", a)
  <2>1. PICK a \in Answers(cur[t]) : Apply(t, "read", a)
    BY <1>1
  <2>2. a \in AnswerType /\ a.told /\ Witnessed(a, cur[t])
    BY <1>c, <1>1, AnswersWitnessed DEF LifecycleInv, TypeOK
  <2>. QED BY <2>1, <2>2, UnmovedApply DEF SubmitQuery
<1>2. CASE Apply(t, "read", Local("UNKNOWN"))
  BY <1>2, NoAnswerType, UnmovedApply DEF SubmitQuery
<1>3. CASE Return(t)
  BY <1>3, UnmovedReturn DEF SubmitQuery
<1>. QED BY <1>1, <1>2, <1>3 DEF SubmitQuery

\* The check of _transition.
LEMMA TransitionReadKeeps ==
  ASSUME NEW t \in Threads, LifecycleInv, TransitionRead(t)
  PROVE  LifecycleInv'
<1> USE DEF LifecycleInv
<1>1. ASSUME NEW l \in {"refresh", "write"}, Goto(t, l)
      PROVE  LifecycleInv'
  <2>1. /\ ThreadType' /\ OthersStay(t)
        /\ pc'[t] = l /\ cur'[t] = cur[t] /\ answer'[t] = answer[t] /\ todo'[t] = todo[t]
    BY <1>1, GotoMoves DEF TypeOK, Labels
  <2>2. TypeOK' /\ Advances(t) /\ \A d \in Intents : IntentOK(d)'
    BY <2>1, Unmoved DEF TransitionRead
  <2>3. ThreadOK(t)'
    BY <2>1 DEF TransitionRead, ThreadOK, Witnessed, row, venue
  <2>. QED BY <2>1, <2>2, <2>3, StepKeeps
<1>2. CASE Return(t)
  BY <1>2, UnmovedReturn DEF TransitionRead
<1>. QED BY <1>1, <1>2 DEF TransitionRead

\* The UPDATE of _transition: the status written is backed by the exchange or local.
LEMMA TransitionWriteKeeps ==
  ASSUME NEW t \in Threads, LifecycleInv, TransitionWrite(t)
  PROVE  LifecycleInv'
<1> USE DEF LifecycleInv
<1> DEFINE c == cur[t]
           a == answer[t]
<1>1. /\ c \in Intents /\ status[c] # "ABSENT" /\ a \in AnswerType
      /\ \/ a = Local("UNKNOWN")
         \/ a = Local("REJECTED") /\ sent[c] = 1
         \/ a.told /\ Witnessed(a, c)
  BY DEF TransitionWrite, ThreadOK, TypeOK, ThreadType
<1>2. /\ a.status \in Statuses /\ a.filled \in 0..Lots /\ a.told \in BOOLEAN
      /\ a.told => Witnessed(a, c)
      /\ ~a.told => a.status = "UNKNOWN" \/ (a.status = "REJECTED" /\ sent[c] = 1)
  <2>1. CASE a = Local("UNKNOWN") \/ (a = Local("REJECTED") /\ sent[c] = 1)
    BY <1>1, <2>1 DEF Local, AnswerType, Statuses, OpenStatuses, FinalStatuses
  <2>2. CASE a.told /\ Witnessed(a, c)
    BY <1>1, <2>2 DEF Witnessed, AnswerType
  <2>. QED BY <1>1, <2>1, <2>2
<1>3. /\ ThreadType' /\ OthersStay(t) /\ pc'[t] \in {"idle", "recover"}
      /\ \A d \in todo'[t] : d \in todo[t]
  <2>1. CASE Return(t)
    BY <2>1, ReturnMoves DEF TypeOK, Return, ThreadType
  <2>2. CASE todo[t] # {} /\ ~Return(t)
    BY <2>2, NoAnswerType DEF TransitionWrite, TypeOK, ThreadType, OthersStay, Labels
  <2>. QED BY <2>1, <2>2 DEF TransitionWrite
<1>4. RowType'
  BY <1>1, <1>2 DEF TransitionWrite, TypeOK, RowType
<1>5. ASSUME NEW d \in Intents PROVE IntentOK(d)' /\ (status[d] # "ABSENT" => status'[d] # "ABSENT")
  <2>1. CASE d # c
    BY <2>1 DEF TransitionWrite, TypeOK, RowType, IntentOK, Justified, venue
  <2>2. CASE d = c
    <3>1. /\ status'[c] \in {status[c], a.status}
          /\ known'[c] = (known[c] \/ a.told)
          /\ filled'[c] \in {filled[c], IF a.told THEN a.filled ELSE filled[c]}
          /\ terms'[c] = terms[c]
      BY <1>1 DEF TransitionWrite, TypeOK, RowType
    <3>2. IntentOK(c)
      BY <1>1
    <3>. QED BY <1>1, <1>2, <2>2, <3>1, <3>2 DEF TransitionWrite, IntentOK, Justified, Witnessed, venue,
           Statuses, OpenStatuses, FinalStatuses, TypeOK, RowType, VenueType
  <2>. QED BY <2>1, <2>2
<1>6. TypeOK' /\ Advances(t)
  BY <1>3, <1>4, <1>5, ConstantsAssumption DEF TransitionWrite, TypeOK, VenueType, Advances, venue
<1>7. ThreadOK(t)'
  BY <1>3, <1>5 DEF ThreadOK, TypeOK, ThreadType
<1>. QED BY <1>3, <1>5, <1>6, <1>7, StepKeeps

\* cancel reads the order.
LEMMA CancelReadKeeps ==
  ASSUME NEW t \in Threads, NEW c \in Intents, LifecycleInv, CancelRead(t, c)
  PROVE  LifecycleInv'
<1> USE DEF LifecycleInv
<1>1. /\ pc[t] = "idle" /\ status[c] # "ABSENT"
      /\ cur' = [cur EXCEPT ![t] = c]
      /\ UNCHANGED <<ask, todo, row, venue, sent, crashes>>
  BY DEF CancelRead, OpenStatuses
<1>2. CASE pc' = [pc EXCEPT ![t] = "cancel"] /\ UNCHANGED answer
  <2>1. ThreadType' /\ OthersStay(t) /\ pc'[t] = "cancel" /\ ThreadOK(t)'
    BY <1>1, <1>2 DEF TypeOK, ThreadType, OthersStay, ThreadOK, Labels, row
  <2>. QED BY <1>1, <2>1, Unmoved, StepKeeps
<1>3. CASE pc' = [pc EXCEPT ![t] = "read"] /\ answer' = [answer EXCEPT ![t] = Local("UNKNOWN")]
  <2>1. ThreadType' /\ OthersStay(t) /\ pc'[t] = "read" /\ answer'[t] = Local("UNKNOWN")
        /\ cur'[t] = c /\ todo'[t] = todo[t]
    BY <1>1, <1>3, NoAnswerType DEF TypeOK, ThreadType, OthersStay, Labels
  <2>2. ThreadOK(t)'
    BY <1>1, <2>1 DEF ThreadOK, row
  <2>. QED BY <1>1, <2>1, <2>2, Unmoved, StepKeeps
<1>. QED BY <1>2, <1>3 DEF CancelRead

\* amend reads the order.
LEMMA AmendReadKeeps ==
  ASSUME NEW t \in Threads, NEW c \in Intents, LifecycleInv, AmendRead(t, c)
  PROVE  LifecycleInv'
<1> USE DEF LifecycleInv
<1>1. PICK v \in Terms :
        /\ pc'  = [pc EXCEPT ![t] = "amend"]
        /\ cur' = [cur EXCEPT ![t] = c]
        /\ ask' = [ask EXCEPT ![t] = v]
        /\ status[c] # "ABSENT"
        /\ UNCHANGED <<answer, todo, row, venue, sent, crashes>>
  BY DEF AmendRead, OpenStatuses
<1>2. ThreadType' /\ OthersStay(t) /\ pc'[t] = "amend" /\ ThreadOK(t)'
  BY <1>1 DEF TypeOK, ThreadType, OthersStay, ThreadOK, Labels, AllTerms, row
<1>. QED BY <1>1, <1>2, Unmoved, StepKeeps

\* cancel at the exchange.
LEMMA CancelSendKeeps ==
  ASSUME NEW t \in Threads, LifecycleInv, CancelSend(t)
  PROVE  LifecycleInv'
<1> USE DEF LifecycleInv
<1>1. cur[t] \in Intents /\ pc[t] = "cancel"
  BY DEF CancelSend, ThreadOK
<1>2. CASE Working(cur[t]) /\ placed' = [placed EXCEPT ![cur[t]] = "cancelled"]
  <2>1. VenueType'
    BY <1>1, <1>2 DEF CancelSend, TypeOK, VenueType
  <2>2. Advances(t)
    BY <1>1, <1>2, ConstantsAssumption DEF CancelSend, Advances, Working, TypeOK, VenueType, row
  <2>3. ASSUME NEW d \in Intents PROVE IntentOK(d)'
    BY <1>1, <1>2 DEF CancelSend, IntentOK, Justified, Working, TypeOK, VenueType, row
  <2>4. CASE \E a \in {Told("CANCELLED", done[cur[t]]), BareAck} : Apply(t, "read", a)
    <3>1. PICK a \in {Told("CANCELLED", done[cur[t]]), BareAck} : Apply(t, "read", a)
      BY <2>4
    <3>2. a \in AnswerType /\ a.told /\ Witnessed(a, cur[t])'
      <4>1. CASE a = BareAck
        <5>1. a \in AnswerType /\ a.told /\ Witnessed(a, cur[t])
          BY <1>1, <1>2, <4>1, AnswersWitnessed DEF TypeOK, Working
        <5>. QED BY <1>1, <2>1, <2>2, <3>1, <5>1, WitnessStays DEF TypeOK, Apply
      <4>2. CASE a = Told("CANCELLED", done[cur[t]])
        <5>1. /\ a.status = "CANCELLED" /\ a.filled = done[cur[t]] /\ a.told
              /\ a \in AnswerType
          BY <1>1, <4>2 DEF Told, AnswerType, Statuses, FinalStatuses, TypeOK, VenueType
        <5>2. placed'[cur[t]] = "cancelled" /\ done' = done /\ cur'[t] = cur[t]
          BY <1>1, <1>2, <3>1 DEF CancelSend, TypeOK, VenueType, Apply
        <5>. QED BY <1>1, <2>1, <5>1, <5>2, ConstantsAssumption
               DEF Witnessed, Statuses, FinalStatuses, VenueType, TypeOK
      <4>. QED BY <4>1, <4>2
    <3>. QED BY <1>1, <2>1, <2>2, <2>3, <3>1, <3>2, ApplyKeeps DEF CancelSend
  <2>5. CASE Return(t)
    BY <2>1, <2>2, <2>3, <2>5, ReturnKeeps DEF CancelSend
  <2>. QED BY <1>2, <2>4, <2>5 DEF CancelSend
<1>3. CASE Return(t) /\ UNCHANGED placed
  BY <1>3, UnmovedReturn DEF CancelSend, venue
<1>. QED BY <1>2, <1>3 DEF CancelSend

\* amend at the exchange.
LEMMA AmendSendKeeps ==
  ASSUME NEW t \in Threads, LifecycleInv, AmendSend(t)
  PROVE  LifecycleInv'
<1> USE DEF LifecycleInv
<1>1. cur[t] \in Intents /\ pc[t] = "amend" /\ ask[t] \in Terms
  BY DEF AmendSend, ThreadOK
<1>2. CASE Working(cur[t]) /\ accepted' = [accepted EXCEPT ![cur[t]] = @ \cup {ask[t]}]
  <2>1. VenueType' /\ ask[t] \in accepted'[cur[t]]
    BY <1>1, <1>2 DEF AmendSend, TypeOK, VenueType
  <2>2. Advances(t)
    BY <1>1, <1>2, ConstantsAssumption DEF AmendSend, Advances, TypeOK, VenueType, row
  <2>3. ASSUME NEW d \in Intents PROVE IntentOK(d)'
    <3>1. accepted[d] \subseteq accepted'[d]
      BY <2>2 DEF Advances
    <3>. QED BY <3>1 DEF AmendSend, IntentOK, Justified, row
  <2>4. CASE \E a \in Answers(cur[t]) \cup {BareAck} : Apply(t, "note", a)
    <3>1. PICK a \in Answers(cur[t]) \cup {BareAck} : Apply(t, "note", a)
      BY <2>4
    <3>2. a \in AnswerType /\ a.told /\ Witnessed(a, cur[t])
      BY <1>1, <1>2, AnswersWitnessed DEF TypeOK, Working
    <3>3. Witnessed(a, cur[t])'
      BY <3>1, <3>2 DEF Witnessed, AmendSend, Apply
    <3>. QED BY <1>1, <2>1, <2>2, <2>3, <3>1, <3>2, <3>3, ApplyKeeps DEF AmendSend
  <2>5. CASE Return(t)
    BY <2>1, <2>2, <2>3, <2>5, ReturnKeeps DEF AmendSend
  <2>. QED BY <1>2, <2>4, <2>5 DEF AmendSend
<1>3. CASE Return(t) /\ UNCHANGED accepted
  BY <1>3, UnmovedReturn DEF AmendSend, venue
<1>. QED BY <1>2, <1>3 DEF AmendSend

\* amend writes the terms the exchange accepted.
LEMMA AmendNoteKeeps ==
  ASSUME NEW t \in Threads, LifecycleInv, AmendNote(t)
  PROVE  LifecycleInv'
<1> USE DEF LifecycleInv
<1>1. /\ cur[t] \in Intents /\ pc[t] = "note" /\ ask[t] \in accepted[cur[t]]
      /\ terms' = [terms EXCEPT ![cur[t]] = ask[t]]
      /\ UNCHANGED <<status, known, filled, venue, sent, crashes>>
  BY DEF AmendNote, ThreadOK
<1>2. /\ ThreadType' /\ OthersStay(t)
      /\ pc'[t] = "read" /\ cur'[t] = cur[t] /\ answer'[t] = answer[t] /\ todo'[t] = todo[t]
  BY GotoMoves DEF AmendNote, TypeOK, Labels
<1>3. TypeOK'
  BY <1>1, <1>2 DEF TypeOK, RowType, VenueType, ThreadType, venue
<1>4. Advances(t)
  BY <1>1, ConstantsAssumption DEF Advances, TypeOK, VenueType, venue
<1>5. ASSUME NEW d \in Intents PROVE IntentOK(d)'
  BY <1>1 DEF IntentOK, Justified, TypeOK, RowType, venue
<1>6. ThreadOK(t)'
  BY <1>1, <1>2 DEF ThreadOK, Witnessed, venue
<1>. QED BY <1>2, <1>3, <1>4, <1>5, <1>6, StepKeeps

\* recovery lists the open rows.
LEMMA RecoverReadKeeps ==
  ASSUME NEW t \in Threads, LifecycleInv, RecoverRead(t)
  PROVE  LifecycleInv'
<1> USE DEF LifecycleInv
<1>1. ThreadType' /\ OthersStay(t) /\ pc'[t] = "recover" /\ ThreadOK(t)'
  BY DEF RecoverRead, TypeOK, ThreadType, OthersStay, ThreadOK, Labels, OpenStatuses, row
<1>. QED BY <1>1, Unmoved, StepKeeps DEF RecoverRead

\* recovery queries a row.
LEMMA RecoverFetchKeeps ==
  ASSUME NEW t \in Threads, LifecycleInv, RecoverFetch(t)
  PROVE  LifecycleInv'
<1> USE DEF LifecycleInv
<1>1. CASE Return(t)
  BY <1>1, UnmovedReturn DEF RecoverFetch
<1>2. CASE ~Return(t)
  <2>1. PICK c \in todo[t] : \E a \in Found(c, "UNKNOWN") :
          /\ pc'     = [pc EXCEPT ![t] = "read"]
          /\ cur'    = [cur EXCEPT ![t] = c]
          /\ answer' = [answer EXCEPT ![t] = a]
          /\ todo'   = [todo EXCEPT ![t] = @ \ {c}]
          /\ UNCHANGED <<ask, row, venue, sent, crashes>>
    BY <1>2 DEF RecoverFetch
  <2>2. PICK a \in Found(c, "UNKNOWN") :
          /\ pc'     = [pc EXCEPT ![t] = "read"]
          /\ cur'    = [cur EXCEPT ![t] = c]
          /\ answer' = [answer EXCEPT ![t] = a]
          /\ todo'   = [todo EXCEPT ![t] = @ \ {c}]
          /\ UNCHANGED <<ask, row, venue, sent, crashes>>
    BY <2>1
  <2>3. c \in Intents /\ status[c] # "ABSENT"
    BY DEF TypeOK, ThreadType, ThreadOK
  <2>4. a \in AnswerType /\ (a = Local("UNKNOWN") \/ (a.told /\ Witnessed(a, c)))
    BY <2>3, AnswersWitnessed, NoAnswerType DEF Found, TypeOK
  <2>5. /\ ThreadType' /\ OthersStay(t) /\ pc'[t] = "read" /\ cur'[t] = c /\ answer'[t] = a
        /\ todo'[t] \subseteq todo[t]
    BY <2>2, <2>3, <2>4 DEF TypeOK, ThreadType, OthersStay, Labels
  <2>6. ThreadOK(t)'
    BY <2>2, <2>3, <2>4, <2>5 DEF ThreadOK, Witnessed, row, venue
  <2>. QED BY <2>2, <2>5, <2>6, Unmoved, StepKeeps
<1>. QED BY <1>1, <1>2

\* A crash empties the registers.
LEMMA CrashKeeps ==
  ASSUME LifecycleInv, Crash
  PROVE  LifecycleInv'
<1> USE DEF LifecycleInv
<1>1. TypeOK'
  BY NoAnswerType, ConstantsAssumption DEF Crash, TypeOK, ThreadType, RowType, VenueType, Labels, AllTerms, row, venue
<1>2. ASSUME NEW d \in Intents PROVE IntentOK(d)'
  BY DEF Crash, IntentOK, Justified, row, venue
<1>3. (\A u \in Threads : ThreadOK(u)') /\ OneSender'
  BY DEF Crash, ThreadOK, OneSender, Sending
<1>. QED BY <1>1, <1>2, <1>3

\* OneSender depends on the thread registers alone.
LEMMA SendersStay ==
  ASSUME OneSender, pc' = pc, cur' = cur
  PROVE  OneSender'
  BY DEF OneSender, Sending

\* The exchange decides, fills and cancels.
LEMMA ExchangeKeeps ==
  ASSUME LifecycleInv, Exchange
  PROVE  LifecycleInv'
<1> USE DEF LifecycleInv
<1>1. PICK c \in Intents : VenueDecide(c) \/ VenueFill(c) \/ VenueCancel(c)
  BY DEF Exchange
<1>2. UNCHANGED <<row, pc, regs, accepted, sent, crashes>>
  BY <1>1 DEF VenueDecide, VenueFill, VenueCancel
<1>3. TypeOK'
  <2>1. VenueType'
    BY <1>1, ConstantsAssumption DEF VenueDecide, VenueFill, VenueCancel, Working, TypeOK, VenueType
  <2>. QED BY <1>2, <2>1 DEF TypeOK, RowType, ThreadType, row, regs
<1>4. ASSUME NEW d \in Intents PROVE IntentOK(d)'
  BY <1>1, <1>2, ConstantsAssumption
     DEF VenueDecide, VenueFill, VenueCancel, Working, TypeOK, VenueType, RowType, IntentOK, Justified, row
<1>5. ASSUME NEW t \in Threads PROVE Advances(t)
  BY <1>1, <1>2, ConstantsAssumption
     DEF VenueDecide, VenueFill, VenueCancel, Working, TypeOK, VenueType, IntentOK, Advances, row
<1>6. ASSUME NEW t \in Threads PROVE ThreadOK(t)'
  <2>1. pc'[t] = pc[t] /\ cur'[t] = cur[t] /\ answer'[t] = answer[t] /\ ask'[t] = ask[t] /\ todo'[t] = todo[t]
    BY <1>2 DEF regs
  <2>2. /\ cur[t] \in Intents /\ Witnessed(answer[t], cur[t]) => Witnessed(answer[t], cur[t])'
        /\ cur[t] \in Intents => accepted[cur[t]] = accepted'[cur[t]]
    BY <1>2, <1>3, <1>5, <2>1, WitnessStays DEF TypeOK, ThreadType
  <2>. QED BY <1>2, <2>1, <2>2 DEF ThreadOK, row, TypeOK, ThreadType
<1>7. OneSender'
  <2>1. pc' = pc /\ cur' = cur
    BY <1>2 DEF regs
  <2>. QED BY <2>1, SendersStay
<1>. QED BY <1>3, <1>4, <1>6, <1>7

\* The empty ledger, idle threads and an exchange that knows nothing.
LEMMA InitKeeps == Init => LifecycleInv
<1> SUFFICES ASSUME Init PROVE LifecycleInv
  OBVIOUS
<1> USE ConstantsAssumption DEF Init
<1>1. TypeOK
  BY NoAnswerType DEF TypeOK, RowType, ThreadType, VenueType, Labels, AllTerms
<1>2. ASSUME NEW c \in Intents PROVE IntentOK(c)
  BY DEF IntentOK, Justified, FinalStatuses
<1>3. ASSUME NEW t \in Threads PROVE ThreadOK(t)
  BY DEF ThreadOK
<1>4. OneSender
  BY DEF OneSender, Sending
<1>. QED BY <1>1, <1>2, <1>3, <1>4 DEF LifecycleInv

\* Nothing moves, nothing breaks.
LEMMA StutterKeeps ==
  ASSUME LifecycleInv, UNCHANGED vars
  PROVE  LifecycleInv'
<1> USE DEF LifecycleInv, vars, row, regs, venue
<1>1. TypeOK'
  BY DEF TypeOK, RowType, ThreadType, VenueType
<1>2. ASSUME NEW c \in Intents PROVE IntentOK(c)'
  BY DEF IntentOK, Justified
<1>3. ASSUME NEW t \in Threads PROVE ThreadOK(t)'
  BY DEF ThreadOK, Witnessed
<1>4. OneSender'
  BY DEF OneSender, Sending
<1>. QED BY <1>1, <1>2, <1>3, <1>4

\* The inductive invariant holds in every reachable state.
THEOREM LifecycleInvariant == Spec => []LifecycleInv
<1>1. Init => LifecycleInv
  BY InitKeeps
<1>2. LifecycleInv /\ [Next]_vars => LifecycleInv'
  <2> SUFFICES ASSUME LifecycleInv, [Next]_vars PROVE LifecycleInv'
    OBVIOUS
  <2>1. ASSUME NEW t \in Threads, Begin(t) PROVE LifecycleInv'
    BY <2>1, SubmitLookupKeeps, CancelReadKeeps, AmendReadKeeps, RecoverReadKeeps DEF Begin
  <2>2. ASSUME NEW t \in Threads, Continue(t) PROVE LifecycleInv'
    BY <2>2, SubmitInsertKeeps, SubmitSendKeeps, SubmitAnsweredKeeps, SubmitTimedOutKeeps,
       SubmitRaisedKeeps, SubmitQueryKeeps, TransitionReadKeeps, TransitionWriteKeeps,
       CancelSendKeeps, AmendSendKeeps, AmendNoteKeeps, RecoverFetchKeeps DEF Continue
  <2>3. CASE Crash
    BY <2>3, CrashKeeps
  <2>4. CASE Exchange
    BY <2>4, ExchangeKeeps
  <2>5. CASE UNCHANGED vars
    BY <2>5, StutterKeeps
  <2>. QED BY <2>1, <2>2, <2>3, <2>4, <2>5 DEF Next
<1>. QED BY <1>1, <1>2, PTL DEF Spec

\* Only known statuses and well-formed rows are ever stored.
THEOREM TypeCorrect == Spec => []TypeOK
<1>1. LifecycleInv => TypeOK
  BY DEF LifecycleInv
<1>. QED BY <1>1, LifecycleInvariant, PTL

\* However submits, timeouts, crashes and recovery passes interleave, one
\* intent reaches adapter.submit_order at most once (engine.submit).
THEOREM SubmittedAtMostOnce == Spec => []AtMostOneSubmission
<1>1. LifecycleInv => AtMostOneSubmission
  BY DEF LifecycleInv, IntentOK, AtMostOneSubmission
<1>. QED BY <1>1, LifecycleInvariant, PTL

\* A row never claims a fill, a cancellation or an existence the exchange has
\* not had, although answers are applied late and out of order.
THEOREM RowsNeverAhead == Spec => []LocalNeverAheadOfVenue
<1>1. LifecycleInv => LocalNeverAheadOfVenue
  BY DEF LifecycleInv, IntentOK, LocalNeverAheadOfVenue
<1>. QED BY <1>1, LifecycleInvariant, PTL

\* Quantity and price of a row were submitted or accepted (engine.amend).
THEOREM TermsWereAccepted == Spec => []LocalTermsWereAccepted
<1>1. LifecycleInv => LocalTermsWereAccepted
  BY DEF LifecycleInv, IntentOK, LocalTermsWereAccepted
<1>. QED BY <1>1, LifecycleInvariant, PTL

\* A thread that is not about to send moves, no row appears: every sender
\* is still there.
LEMMA SenderStands ==
  ASSUME NEW t \in Threads, LifecycleInv, NoIntentForgotten, OthersStay(t), pc[t] # "send",
         UNCHANGED <<sent, crashes>>,
         \A c \in Intents : status'[c] # "ABSENT" => status[c] # "ABSENT"
  PROVE  NoIntentForgotten'
<1> SUFFICES ASSUME crashes = 0, NEW c \in Intents, status[c] # "ABSENT", sent[c] = 0
             PROVE  \E u \in Threads : pc'[u] = "send" /\ cur'[u] = c
  BY DEF NoIntentForgotten
<1>1. PICK u \in Threads : pc[u] = "send" /\ cur[u] = c
  BY DEF NoIntentForgotten
<1>2. pc'[u] = "send" /\ cur'[u] = c
  BY <1>1 DEF OthersStay
<1>. QED BY <1>2

\* The steps of a thread that is not about to send.
LEMMA OthersRemember ==
  ASSUME NEW t \in Threads, LifecycleInv, NoIntentForgotten, Begin(t) \/ Continue(t),
         ~SubmitSend(t), status[cur[t]] = "ABSENT" => ~SubmitInsert(t)
  PROVE  NoIntentForgotten'
<1> USE DEF LifecycleInv, TypeOK
<1>1. CASE Begin(t)
  <2>1. OthersStay(t) /\ pc[t] # "send" /\ UNCHANGED <<row, sent, crashes>>
    BY <1>1 DEF Begin, SubmitLookup, CancelRead, AmendRead, RecoverRead, ThreadType, OthersStay
  <2>. QED BY <2>1, SenderStands DEF row
<1>2. CASE SubmitInsert(t) /\ status[cur[t]] # "ABSENT"
  <2>1. OthersStay(t) /\ pc[t] # "send" /\ UNCHANGED <<row, sent, crashes>>
    BY <1>2, ReturnMoves DEF SubmitInsert, row
  <2>. QED BY <2>1, SenderStands DEF row
<1>3. CASE SubmitAnswered(t) \/ SubmitRaised(t) \/ SubmitTimedOut(t) \/ SubmitQuery(t)
  <2>1. OthersStay(t) /\ pc[t] # "send" /\ UNCHANGED <<row, sent, crashes>>
    BY <1>3 DEF SubmitAnswered, SubmitRaised, SubmitTimedOut, SubmitQuery, Apply, Goto, Return,
       regs, ThreadType, OthersStay
  <2>. QED BY <2>1, SenderStands DEF row
<1>4. CASE TransitionRead(t) \/ CancelSend(t) \/ AmendSend(t)
  <2>1. OthersStay(t) /\ pc[t] # "send" /\ UNCHANGED <<row, sent, crashes>>
    BY <1>4 DEF TransitionRead, CancelSend, AmendSend, Apply, Goto, Return, regs, ThreadType, OthersStay
  <2>. QED BY <2>1, SenderStands DEF row
<1>5. CASE AmendNote(t)
  <2>1. OthersStay(t) /\ pc[t] # "send" /\ UNCHANGED <<status, sent, crashes>>
    BY <1>5, GotoMoves DEF AmendNote, Labels
  <2>. QED BY <2>1, SenderStands
<1>6. CASE RecoverFetch(t)
  <2>1. OthersStay(t) /\ pc[t] # "send" /\ UNCHANGED <<row, sent, crashes>>
    BY <1>6 DEF RecoverFetch, Return, ThreadType, OthersStay
  <2>. QED BY <2>1, SenderStands DEF row
<1>7. CASE TransitionWrite(t)
  <2>1. OthersStay(t) /\ pc[t] # "send" /\ UNCHANGED <<sent, crashes>>
    BY <1>7 DEF TransitionWrite, Return, ThreadType, OthersStay
  <2>2. cur[t] \in Intents /\ status[cur[t]] # "ABSENT"
    BY <1>7 DEF TransitionWrite, ThreadOK
  <2>3. \A c \in Intents : status'[c] # "ABSENT" => status[c] # "ABSENT"
    BY <1>7, <2>2 DEF TransitionWrite, RowType
  <2>. QED BY <2>1, <2>3, SenderStands
<1>. QED BY <1>1, <1>2, <1>3, <1>4, <1>5, <1>6, <1>7 DEF Continue

\* Whatever step is taken, the recorded intents are remembered.
LEMMA NextRemembers ==
  ASSUME LifecycleInv, NoIntentForgotten, [Next]_vars
  PROVE  NoIntentForgotten'
<1> USE DEF LifecycleInv, TypeOK
<1>1. ASSUME NEW t \in Threads, SubmitInsert(t), status[cur[t]] = "ABSENT"
      PROVE  NoIntentForgotten'
  <2>1. /\ pc[t] = "insert" /\ UNCHANGED <<sent, crashes>>
        /\ status' = [status EXCEPT ![cur[t]] = "PENDING_SUBMIT"]
        /\ OthersStay(t) /\ pc'[t] = "send" /\ cur'[t] = cur[t]
    BY <1>1, GotoMoves DEF SubmitInsert, Labels
  <2>. SUFFICES ASSUME crashes = 0, NEW c \in Intents, status'[c] # "ABSENT", sent[c] = 0
                PROVE  \E u \in Threads : pc'[u] = "send" /\ cur'[u] = c
    BY <2>1 DEF NoIntentForgotten
  <2>2. CASE c = cur[t]
    BY <2>1, <2>2
  <2>3. CASE c # cur[t]
    <3>1. status[c] # "ABSENT"
      BY <2>1, <2>3 DEF RowType
    <3>2. PICK u \in Threads : pc[u] = "send" /\ cur[u] = c
      BY <3>1 DEF NoIntentForgotten
    <3>3. pc'[u] = "send" /\ cur'[u] = c
      BY <2>1, <3>2 DEF OthersStay
    <3>. QED BY <3>3
  <2>. QED BY <2>2, <2>3
<1>2. ASSUME NEW t \in Threads, SubmitSend(t)
      PROVE  NoIntentForgotten'
  <2>1. /\ cur[t] \in Intents /\ sent' = [sent EXCEPT ![cur[t]] = @ + 1]
        /\ OthersStay(t) /\ UNCHANGED <<status, crashes>>
    BY <1>2, GotoMoves DEF SubmitSend, ThreadOK, Labels, row
  <2>. SUFFICES ASSUME crashes = 0, NEW c \in Intents, status[c] # "ABSENT", sent'[c] = 0
                PROVE  \E u \in Threads : pc'[u] = "send" /\ cur'[u] = c
    BY <2>1 DEF NoIntentForgotten
  <2>2. c # cur[t] /\ sent[c] = 0
    BY <2>1
  <2>3. PICK u \in Threads : pc[u] = "send" /\ cur[u] = c
    BY <2>2 DEF NoIntentForgotten
  <2>4. pc'[u] = "send" /\ cur'[u] = c
    BY <2>1, <2>2, <2>3 DEF OthersStay
  <2>. QED BY <2>4
<1>3. ASSUME NEW t \in Threads, Begin(t) \/ Continue(t)
      PROVE  NoIntentForgotten'
  BY <1>1, <1>2, <1>3, OthersRemember
<1>4. CASE Crash
  BY <1>4 DEF Crash, NoIntentForgotten
<1>5. CASE Exchange
  BY <1>5 DEF Exchange, VenueDecide, VenueFill, VenueCancel, NoIntentForgotten, row, regs
<1>6. CASE UNCHANGED vars
  BY <1>6 DEF vars, row, regs, NoIntentForgotten
<1>. QED BY <1>3, <1>4, <1>5, <1>6 DEF Next

\* Until the process crashes, a recorded intent that was not sent yet has a
\* thread about to send it, whatever recovery or a cancel made of its row
\* meanwhile (engine.submit, engine.recover_open_orders).
THEOREM IntentsRemembered == Spec => []NoIntentForgotten
<1>1. Init => NoIntentForgotten
  BY DEF Init, NoIntentForgotten
<1>2. LifecycleInv /\ NoIntentForgotten /\ [Next]_vars => NoIntentForgotten'
  BY NextRemembers
<1>. QED BY <1>1, <1>2, LifecycleInvariant, PTL DEF Spec

\* Every step is a step of the promise or leaves it alone: the three steps
\* that touch a status or submit are Record, Send, and Decide or Revise.
LEMMA StepKeepsPromise ==
  ASSUME LifecycleInv, LifecycleInv', [Next]_vars
  PROVE  [Promise!Next]_<<stageOf, verdictOf>>
<1>1. CASE UNCHANGED <<status, sent>>
  BY <1>1 DEF stageOf, verdictOf
<1>2. ASSUME NEW t \in Threads, SubmitInsert(t), ~UNCHANGED <<status, sent>>
      PROVE  Promise!Next
  <2>1. cur[t] \in Intents /\ status[cur[t]] = "ABSENT" /\ sent[cur[t]] = 0 /\ sent' = sent
        /\ status' = [status EXCEPT ![cur[t]] = "PENDING_SUBMIT"]
    BY <1>2 DEF SubmitInsert, LifecycleInv, ThreadOK, IntentOK
  <2>2. stageOf' = [stageOf EXCEPT ![cur[t]] = "recorded"] /\ verdictOf' = verdictOf /\ stageOf[cur[t]] = "new"
    BY <2>1 DEF stageOf, verdictOf, FinalStatuses, LifecycleInv, TypeOK, RowType
  <2>. QED BY <2>1, <2>2 DEF Promise!Next, Promise!Record
<1>3. ASSUME NEW t \in Threads, SubmitSend(t)
      PROVE  Promise!Next
  <2>1. cur[t] \in Intents /\ status[cur[t]] # "ABSENT" /\ sent[cur[t]] = 0 /\ status' = status
    BY <1>3 DEF SubmitSend, LifecycleInv, ThreadOK, row
  <2>3. sent' = [sent EXCEPT ![cur[t]] = 1]
    BY <1>3, <2>1 DEF SubmitSend, LifecycleInv, TypeOK
  <2>2. stageOf' = [stageOf EXCEPT ![cur[t]] = "sent"] /\ verdictOf' = verdictOf /\ stageOf[cur[t]] = "recorded"
    BY <2>1, <2>3 DEF stageOf, verdictOf, LifecycleInv, TypeOK
  <2>. QED BY <2>1, <2>2 DEF Promise!Next, Promise!Send
<1>4. ASSUME NEW t \in Threads, TransitionWrite(t), ~UNCHANGED <<status, sent>>
      PROVE  [Promise!Next]_<<stageOf, verdictOf>>
  <2> DEFINE c == cur[t]
             s == answer[t].status
  <2>1. /\ c \in Intents /\ status[c] # "ABSENT" /\ sent' = sent
        /\ s \in Statuses
        /\ status' = [status EXCEPT ![c] = s]
    <3>1. c \in Intents /\ status[c] # "ABSENT" /\ sent' = sent
      BY <1>4 DEF TransitionWrite, LifecycleInv, ThreadOK
    <3>2. s \in Statuses
      BY <1>4 DEF TransitionWrite, LifecycleInv, ThreadOK, Local, Witnessed, Statuses, OpenStatuses, FinalStatuses
    <3>3. pc[t] = "write"
      BY <1>4, <3>1 DEF TransitionWrite, LifecycleInv, TypeOK, RowType
    <3>4. status' = [status EXCEPT ![c] = s]
      BY <1>4, <3>3 DEF TransitionWrite
    <3>. QED BY <3>1, <3>2, <3>4
  <2>2. s \in FinalStatuses => sent[c] = 1
    BY <2>1 DEF LifecycleInv, IntentOK, TypeOK, RowType
  <2>3. stageOf' = stageOf
    BY <2>1 DEF stageOf, Statuses, OpenStatuses, FinalStatuses, LifecycleInv, TypeOK, RowType
  <2>4. verdictOf' = [verdictOf EXCEPT ![c] = IF s \in FinalStatuses THEN s ELSE "open"]
    BY <2>1 DEF verdictOf, LifecycleInv, TypeOK, RowType
  <2>5. CASE verdictOf[c] # "open"
    BY <2>1, <2>3, <2>4, <2>5 DEF Promise!Next, Promise!Revise, Promise!Verdicts, FinalStatuses
  <2>6. CASE verdictOf[c] = "open" /\ s \in FinalStatuses
    <3>1. stageOf[c] = "sent"
      BY <2>1, <2>2, <2>6 DEF stageOf
    <3>. QED BY <2>1, <2>3, <2>4, <2>6, <3>1 DEF Promise!Next, Promise!Decide, Promise!Verdicts, FinalStatuses
  <2>7. CASE verdictOf[c] = "open" /\ s \notin FinalStatuses
    <3>1. verdictOf' = verdictOf
      BY <2>1, <2>4, <2>7 DEF verdictOf
    <3>. QED BY <2>3, <3>1
  <2>. QED BY <2>5, <2>6, <2>7
<1>5. ASSUME ~UNCHANGED <<status, sent>>
      PROVE  \E t \in Threads : SubmitInsert(t) \/ SubmitSend(t) \/ TransitionWrite(t)
  BY <1>5 DEF Next, Begin, Continue, Crash, Exchange, VenueDecide, VenueFill, VenueCancel,
     SubmitLookup, CancelRead, AmendRead, RecoverRead, SubmitAnswered, SubmitTimedOut, SubmitRaised,
     SubmitQuery, TransitionRead, CancelSend, AmendSend, AmendNote, RecoverFetch, vars, row
<1>. QED BY <1>1, <1>2, <1>3, <1>4, <1>5

\* The lifecycle implements OrderIntent for every value of the constants.
THEOREM PromiseKept == Spec => KeepsPromise
<1>1. Init => Promise!Init
  BY DEF Init, Promise!Init, stageOf, verdictOf, FinalStatuses
<1>2. LifecycleInv /\ LifecycleInv' /\ [Next]_vars => [Promise!Next]_<<stageOf, verdictOf>>
  BY StepKeepsPromise
<1>. QED BY <1>1, <1>2, LifecycleInvariant, PTL DEF Spec, KeepsPromise, Promise!Spec
=============================================================================
