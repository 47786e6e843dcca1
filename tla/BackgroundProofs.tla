--------------------------- MODULE BackgroundProofs ---------------------------
(***************************************************************************)
(* What the three workers of the background promise, whatever threads      *)
(* interleave with them:                                                   *)
(*   - the alert centre (Alerts): a signal is notified once, and what was  *)
(*     passed by a check is accounted for;                                 *)
(*   - the reconciliation scheduler (ReconcileScheduler): it never runs    *)
(*     two loops, unless two starts cross;                                 *)
(*   - the private stream (PrivateStream): one stream at a time,           *)
(*     compensated for before it is begun again, ended only for a reason.  *)
(* They share no state; each theorem is about one of the specifications.   *)
(***************************************************************************)
EXTENDS Alerts, ReconcileScheduler, PrivateStream, Sums

-----------------------------------------------------------------------------
(* The alert centre: types.                                                *)

\* The latest of some times is one of them.
LEMMA LatestIsOne == ASSUME NEW S \in SUBSET Times, S # {} PROVE Max(S) \in S
<1> DEFINE ahead == {n \in Nat : EndOfTime - n \in S}
<1>1. EndOfTime \in Nat /\ S \subseteq 0..EndOfTime
  BY AlertsAssumption DEF Times
<1>2. ahead # {}
  <2>1. PICK x \in S : TRUE
    OBVIOUS
  <2>2. EndOfTime - x \in Nat /\ EndOfTime - (EndOfTime - x) = x
    BY <1>1
  <2> QED
    BY <2>1, <2>2
<1>3. PICK n \in ahead : \A m \in ahead : ~ (m < n)
  <2> HIDE DEF ahead
  <2>1. ahead \in SUBSET Nat
    BY DEF ahead
  <2> QED
    BY <1>2, <2>1, Descent
<1>4. ASSUME NEW y \in S PROVE EndOfTime - n >= y
  <2>1. EndOfTime - y \in Nat /\ EndOfTime - (EndOfTime - y) = y /\ y \in Nat
    BY <1>1
  <2>2. EndOfTime - y \in ahead
    BY <2>1
  <2>3. ~ (EndOfTime - y < n)
    BY <1>3, <2>2
  <2> QED
    BY <1>1, <2>1, <2>3
<1>5. EndOfTime - n \in S /\ \A y \in S : EndOfTime - n >= y
  BY <1>4
<1> QED
  BY <1>5 DEF Max

\* The rule as a check may have read it.
Rows == [there : BOOLEAN, enabled : BOOLEAN, checked : 0..clock]

\* The times are numbers, and signals are times of the past.
LEMMA NumbersKnown ==
  ASSUME TypeOK
  PROVE  /\ clock \in Nat /\ clock <= EndOfTime /\ EndOfTime \in Nat
         /\ 0..clock \subseteq Times /\ signals \subseteq 0..clock /\ signals \subseteq Times
<1>1. clock \in Nat /\ clock <= EndOfTime /\ EndOfTime \in Nat
  BY AlertsAssumption DEF TypeOK, Times
<1> QED
  BY <1>1 DEF TypeOK, Times

\* Nothing but the clock's step moves the clock, and signals are never withdrawn.
LEMMA TimeKeepsTypes ==
  ASSUME TypeOK, Tick \/ \E n \in Times : Publish(n)
  PROVE  TypeOK'
<1>1. clock' \in Times /\ clock <= clock' /\ clock \in Nat /\ clock' \in Nat
  <2>1. CASE Tick
    BY <2>1, NumbersKnown DEF Tick, Times
  <2>2. CASE \E n \in Times : Publish(n)
    BY <2>2, NumbersKnown DEF Publish, TypeOK
  <2> QED
    BY <2>1, <2>2
<1>2. 0..clock \subseteq 0..clock' /\ 1..clock \subseteq 1..clock'
  BY <1>1
<1>3. signals \subseteq signals' /\ signals' \subseteq 1..clock'
  BY <1>2 DEF Tick, Publish, table, TypeOK
<1>4. UNCHANGED <<rule, events, pc, copy, now, found, crossed, sent, again, excused>>
  BY DEF Tick, Publish, table, locals, notes
<1>5. lost' \subseteq Times
  <2>1. CASE Tick
    BY <2>1 DEF Tick, notes, TypeOK
  <2>2. CASE \E n \in Times : Publish(n)
    BY <2>2 DEF Publish, TypeOK
  <2> QED
    BY <2>1, <2>2
<1>6. rule \in Rows' /\ copy \in [Checkers -> Rows']
  <2>1. Rows \subseteq Rows'
    BY <1>2 DEF Rows
  <2>2. rule \in Rows /\ copy \in [Checkers -> Rows]
    BY DEF TypeOK, Rows
  <2> QED
    BY <2>1, <2>2
<1>7. now \in [Checkers -> 0..clock'] /\ found \in [Checkers -> signals' \cup {0}]
  BY <1>2, <1>3 DEF TypeOK
<1>8. events \subseteq signals' /\ crossed \in [Checkers -> BOOLEAN]
      /\ pc \in [Checkers -> {"idle", "start", "look", "save", "send", "insert"}]
      /\ sent \cup again \cup excused \subseteq Times
  BY <1>3 DEF TypeOK
<1> QED
  BY <1>1, <1>3, <1>4, <1>5, <1>6, <1>7, <1>8 DEF TypeOK, Rows

\* The rule can be edited and deleted.
LEMMA EditsKeepTypes ==
  ASSUME TypeOK, Delete \/ \E b \in BOOLEAN : Enable(b)
  PROVE  TypeOK'
<1>1. UNCHANGED <<clock, signals, pc, copy, now, found, crossed, sent, again, excused, lost>>
  BY DEF Delete, Enable, locals, notes
<1>2. events' \subseteq signals
  BY DEF Delete, Enable, TypeOK
<1>3. rule' \in Rows
  <2>1. rule.enabled \in BOOLEAN /\ rule.checked \in 0..clock
    BY DEF TypeOK
  <2>2. CASE Delete
    BY <2>1, <2>2 DEF Delete, Rows
  <2>3. CASE \E b \in BOOLEAN : Enable(b)
    BY <2>1, <2>3 DEF Enable, Rows
  <2> QED
    BY <2>2, <2>3
<1> QED
  BY <1>1, <1>2, <1>3 DEF TypeOK, Rows

\* A check that is over leaves nothing behind.
LEMMA LeaveEffect ==
  ASSUME TypeOK, NEW t \in Checkers, Leave(t)
  PROVE  /\ pc' \in [Checkers -> {"idle", "start", "look", "save", "send", "insert"}]
         /\ copy' \in [Checkers -> Rows] /\ now' \in [Checkers -> 0..clock]
         /\ found' \in [Checkers -> signals \cup {0}] /\ crossed' \in [Checkers -> BOOLEAN]
         /\ pc'[t] = "idle" /\ copy'[t].checked = 0 /\ found'[t] = 0
         /\ \A u \in Checkers \ {t} :
              pc'[u] = pc[u] /\ copy'[u] = copy[u] /\ now'[u] = now[u] /\ found'[u] = found[u]
              /\ crossed'[u] = crossed[u]
<1>1. 0 \in 0..clock
  BY NumbersKnown
<1>2. copy' \in [Checkers -> Rows] /\ copy'[t].checked = 0
  <2>1. [there |-> TRUE, enabled |-> TRUE, checked |-> 0] \in Rows
    BY <1>1 DEF Rows
  <2> QED
    BY <2>1 DEF Leave, TypeOK, Rows
<1>3. crossed' \in [Checkers -> BOOLEAN]
  BY DEF Leave, TypeOK
<1>4. pc' \in [Checkers -> {"idle", "start", "look", "save", "send", "insert"}] /\ pc'[t] = "idle"
  BY DEF Leave, Goto, TypeOK
<1>5. /\ now' \in [Checkers -> 0..clock] /\ found' \in [Checkers -> signals \cup {0}]
      /\ found'[t] = 0
  BY <1>1 DEF Leave, TypeOK
<1>6. \A u \in Checkers \ {t} :
        pc'[u] = pc[u] /\ copy'[u] = copy[u] /\ now'[u] = now[u] /\ found'[u] = found[u]
        /\ crossed'[u] = crossed[u]
  BY DEF Leave, Goto, TypeOK
<1> QED
  BY <1>2, <1>3, <1>4, <1>5, <1>6

\* What a check holds are times of the past.
LEMMA LocalsKnown ==
  ASSUME TypeOK, NEW t \in Checkers
  PROVE  /\ now[t] \in 0..clock /\ now[t] \in Nat /\ copy[t].checked \in Nat
         /\ found[t] \in signals \cup {0} /\ found[t] \in Nat /\ found[t] \in Times
         /\ rule.checked \in Nat /\ rule.checked <= clock
         /\ signals \subseteq Nat /\ 0 \notin signals
<1>1. now[t] \in 0..clock /\ found[t] \in signals \cup {0} /\ copy[t].checked \in 0..clock
      /\ rule.checked \in 0..clock /\ signals \subseteq 1..clock
  BY DEF TypeOK
<1>2. 0 \in Times /\ signals \subseteq Times /\ clock \in Nat
  BY NumbersKnown DEF Times
<1>3. signals \subseteq Nat /\ 0 \notin signals
  BY <1>1, <1>2
<1>4. found[t] \in Nat /\ found[t] \in Times
  <2>1. CASE found[t] \in signals
    BY <1>2, <1>3, <2>1
  <2>2. CASE found[t] = 0
    BY <1>2, <2>2
  <2> QED
    BY <1>1, <2>1, <2>2
<1>5. now[t] \in Nat /\ copy[t].checked \in Nat /\ rule.checked \in Nat /\ rule.checked <= clock
  BY <1>1, <1>2
<1> QED
  BY <1>1, <1>3, <1>4, <1>5

\* The checks other than that of t are where they were.
Apart(t) ==
  \A u \in Checkers \ {t} :
    pc'[u] = pc[u] /\ copy'[u] = copy[u] /\ now'[u] = now[u] /\ found'[u] = found[u]

\* A check begins with the rule as it is, and crosses those under way.
LEMMA ReadEffect ==
  ASSUME TypeOK, NEW t \in Checkers, Read(t)
  PROVE  /\ TypeOK' /\ Apart(t) /\ pc[t] = "idle" /\ pc'[t] = "start" /\ copy'[t] = rule
         /\ now'[t] = now[t] /\ found'[t] = found[t]
         /\ crossed'[t] <=> \E v \in Checkers : Deciding(v)
         /\ \A u \in Checkers \ {t} : crossed'[u] <=> crossed[u] \/ Deciding(u)
         /\ UNCHANGED <<clock, signals, rule, events, sent, again, excused, lost>>
<1>1. UNCHANGED <<clock, signals, rule, events, now, found, sent, again, excused, lost>>
  BY DEF Read, table
<1>2. /\ crossed'[t] <=> \E v \in Checkers : Deciding(v)
      /\ \A u \in Checkers \ {t} : crossed'[u] <=> crossed[u] \/ Deciding(u)
  BY DEF Read
<1>3. crossed' \in [Checkers -> BOOLEAN]
  BY DEF Read
<1>4. /\ pc' \in [Checkers -> {"idle", "start", "look", "save", "send", "insert"}]
      /\ pc[t] = "idle" /\ pc'[t] = "start" /\ copy'[t] = rule
      /\ \A u \in Checkers \ {t} : pc'[u] = pc[u] /\ copy'[u] = copy[u]
  BY DEF Read, Goto, TypeOK
<1>5. copy' \in [Checkers -> Rows]
  BY DEF Read, TypeOK, Rows
<1>6. TypeOK'
  BY <1>1, <1>3, <1>4, <1>5 DEF TypeOK, Rows
<1> QED
  BY <1>1, <1>2, <1>4, <1>6 DEF Apart

\* A check that is not due is over; one that is takes its time.
LEMMA StartEffect ==
  ASSUME TypeOK, NEW t \in Checkers, Start(t)
  PROVE  /\ TypeOK' /\ Apart(t) /\ pc[t] = "start"
         /\ \/ pc'[t] = "look" /\ now'[t] = clock /\ copy'[t] = copy[t] /\ crossed'[t] = crossed[t]
            \/ pc'[t] = "idle" /\ copy'[t].checked = 0
         /\ \A u \in Checkers \ {t} : crossed'[u] = crossed[u]
         /\ UNCHANGED <<clock, signals, rule, events, sent, again, excused, lost>>
<1>1. UNCHANGED <<clock, signals, rule, events, sent, again, excused, lost>> /\ pc[t] = "start"
  BY DEF Start, table
<1>2. CASE Due(t)
  <2>1. now' = [now EXCEPT ![t] = clock] /\ Goto(t, "look") /\ UNCHANGED <<copy, found, crossed>>
    BY <1>2 DEF Start
  <2>2. clock \in 0..clock
    BY NumbersKnown
  <2>3. pc' \in [Checkers -> {"idle", "start", "look", "save", "send", "insert"}]
        /\ pc'[t] = "look" /\ \A u \in Checkers \ {t} : pc'[u] = pc[u]
    BY <2>1 DEF Goto, TypeOK
  <2>4. now' \in [Checkers -> 0..clock]
        /\ now'[t] = clock /\ \A u \in Checkers \ {t} : now'[u] = now[u]
    BY <2>1, <2>2 DEF TypeOK
  <2>5. TypeOK'
    BY <1>1, <2>1, <2>3, <2>4 DEF TypeOK
  <2> QED
    BY <1>1, <2>1, <2>3, <2>4, <2>5 DEF Apart
<1>3. CASE ~Due(t)
  <2>1. Leave(t)
    BY <1>3 DEF Start
  <2>2. TypeOK'
    BY <1>1, <2>1, LeaveEffect DEF TypeOK, Rows
  <2> QED
    BY <1>1, <2>1, <2>2, LeaveEffect DEF Apart
<1> QED
  BY <1>2, <1>3

\* What a look finds is new, and what it passes over is lost.
LEMMA LookEffect ==
  ASSUME TypeOK, NEW t \in Checkers, Look(t)
  PROVE  /\ TypeOK' /\ Apart(t) /\ pc[t] = "look" /\ pc'[t] = "save"
         /\ now'[t] = now[t] /\ copy'[t] = copy[t]
         /\ found'[t] = 0 \/ copy[t].checked < found'[t]
         /\ \A n \in signals : copy[t].checked < n => n = found'[t] \/ n \in lost'
         /\ lost \subseteq lost'
         /\ UNCHANGED <<clock, signals, rule, events, sent, again, excused, crossed>>
<1> DEFINE new == {n \in signals : n > copy[t].checked}
           m == IF new = {} THEN 0 ELSE Max(new)
<1>1. UNCHANGED <<clock, signals, rule, events, sent, again, excused, crossed, now, copy>>
      /\ pc[t] = "look"
  BY DEF Look, table
<1>2. /\ pc' \in [Checkers -> {"idle", "start", "look", "save", "send", "insert"}]
      /\ pc'[t] = "save" /\ \A u \in Checkers \ {t} : pc'[u] = pc[u]
  BY DEF Look, Goto, TypeOK
<1>3. found' = [found EXCEPT ![t] = m] /\ lost' = lost \cup (new \ {m})
  BY DEF Look
<1>4. m = 0 \/ m \in new
  <2> HIDE DEF new
  <2>1. new \in SUBSET Times
    BY NumbersKnown DEF new
  <2> QED
    BY <2>1, LatestIsOne
<1>5. \A n \in new : copy[t].checked < n /\ n \in signals
  <2>1. copy[t].checked \in Nat /\ signals \subseteq Nat
    BY NumbersKnown DEF TypeOK
  <2> QED
    BY <2>1
<1>6. \A n \in signals : copy[t].checked < n => n \in new
  <2>1. copy[t].checked \in Nat /\ signals \subseteq Nat
    BY NumbersKnown DEF TypeOK
  <2> QED
    BY <2>1
<1>7. new \subseteq signals /\ signals \subseteq Times
  BY NumbersKnown
<1> HIDE DEF new, m
<1>8. /\ found'[t] = m /\ \A u \in Checkers \ {t} : found'[u] = found[u]
      /\ found' \in [Checkers -> signals \cup {0}]
  BY <1>3, <1>4, <1>5 DEF TypeOK
<1>9. lost' \subseteq Times
  BY <1>3, <1>7 DEF TypeOK
<1>10. TypeOK'
  BY <1>1, <1>2, <1>8, <1>9 DEF TypeOK
<1> QED
  BY <1>1, <1>2, <1>3, <1>4, <1>5, <1>6, <1>8, <1>10 DEF Apart

\* A save stores the time of the evaluation; what it found goes out, unless
\* there is nothing or the time is quiet.
LEMMA SaveEffect ==
  ASSUME TypeOK, NEW t \in Checkers, Save(t)
  PROVE  /\ TypeOK' /\ Apart(t) /\ pc[t] = "save"
         /\ rule'.there = rule.there /\ (rule.there => rule'.checked = now[t])
         /\ \/ pc'[t] = "send" /\ copy'[t] = copy[t] /\ found'[t] = found[t] /\ found[t] # 0
            \/ /\ pc'[t] = "idle" /\ copy'[t].checked = 0 /\ found'[t] = 0
               /\ found[t] = 0 \/ found[t] \in lost'
         /\ found[t] = 0 \/ found[t] \in excused' \/ (~crossed[t] /\ found[t] <= now[t])
         /\ 0 \notin excused => excused \subseteq excused' /\ 0 \notin excused'
         /\ lost \cap signals \subseteq lost'
         /\ \A u \in Checkers \ {t} : crossed'[u] = crossed[u]
         /\ UNCHANGED <<clock, signals, events, sent, again>>
<1> DEFINE hushed == now[t] \in Quiet
<1>1. UNCHANGED <<clock, signals, events, sent, again>> /\ pc[t] = "save"
  BY DEF Save
<1>2. now[t] \in 0..clock /\ found[t] \in signals \cup {0} /\ found[t] \in Nat /\ now[t] \in Nat
      /\ found[t] \in Times /\ signals \subseteq Nat
  BY LocalsKnown
<1>3. rule' \in Rows /\ rule'.there = rule.there /\ (rule.there => rule'.checked = now[t])
  <2>1. rule.enabled \in BOOLEAN /\ rule \in Rows
    BY DEF TypeOK, Rows
  <2>2. rule' = IF rule.there
                THEN [there |-> TRUE, enabled |-> rule.enabled, checked |-> now[t]] ELSE rule
    BY DEF Save, CheckedAt
  <2>3. CASE rule.there
    <3>1. rule' = [there |-> TRUE, enabled |-> rule.enabled, checked |-> now[t]]
      BY <2>2, <2>3
    <3>2. rule' \in Rows
      BY <1>2, <2>1, <3>1 DEF Rows
    <3>3. rule.there = TRUE
      BY <2>3 DEF TypeOK
    <3> QED
      BY <3>1, <3>2, <3>3
  <2>4. CASE ~rule.there
    BY <2>1, <2>2, <2>4
  <2> QED
    BY <2>3, <2>4
<1>4. lost' = IF hushed THEN (lost \cup {found[t]}) \ {0} ELSE lost
  BY DEF Save
<1>5. excused' = IF crossed[t] \/ found[t] > now[t]
                 THEN (excused \cup {found[t]}) \ {0} ELSE excused
  BY DEF Save
<1>6. /\ 0 \notin excused => excused \subseteq excused' /\ 0 \notin excused'
      /\ excused' \subseteq Times
      /\ found[t] = 0 \/ found[t] \in excused' \/ (~crossed[t] /\ found[t] <= now[t])
  <2>1. CASE crossed[t] \/ found[t] > now[t]
    BY <1>2, <1>5, <2>1 DEF TypeOK
  <2>2. CASE ~(crossed[t] \/ found[t] > now[t])
    BY <1>2, <1>5, <2>2 DEF TypeOK
  <2> QED
    BY <2>1, <2>2
<1>7. /\ lost \cap signals \subseteq lost' /\ lost' \subseteq Times
      /\ hushed => found[t] = 0 \/ found[t] \in lost'
  <2>1. 0 \notin signals
    BY NumbersKnown DEF TypeOK
  <2>2. lost \subseteq Times
    BY DEF TypeOK
  <2> HIDE DEF hushed
  <2> QED
    BY <1>2, <1>4, <2>1, <2>2
<1>8. CASE found[t] # 0 /\ ~hushed
  <2>1. Goto(t, "send") /\ UNCHANGED <<copy, now, found, crossed>>
    BY <1>8 DEF Save, locals
  <2>2. /\ pc' \in [Checkers -> {"idle", "start", "look", "save", "send", "insert"}]
        /\ pc'[t] = "send" /\ \A u \in Checkers \ {t} : pc'[u] = pc[u]
    BY <2>1 DEF Goto, TypeOK
  <2>3. TypeOK'
    BY <1>1, <1>3, <1>6, <1>7, <2>1, <2>2 DEF TypeOK, Rows
  <2> QED
    BY <1>1, <1>3, <1>6, <1>7, <1>8, <2>1, <2>2, <2>3 DEF Apart
<1>9. CASE ~(found[t] # 0 /\ ~hushed)
  <2>1. Leave(t)
    BY <1>9 DEF Save
  <2>2. TypeOK'
    BY <1>1, <1>3, <1>6, <1>7, <2>1, LeaveEffect DEF TypeOK, Rows
  <2> HIDE DEF hushed
  <2>3. Apart(t) /\ \A u \in Checkers \ {t} : crossed'[u] = crossed[u]
    BY <2>1, LeaveEffect DEF Apart
  <2>4. pc'[t] = "idle" /\ copy'[t].checked = 0 /\ found'[t] = 0
    BY <2>1, LeaveEffect
  <2>5. found[t] = 0 \/ found[t] \in lost'
    BY <1>7, <1>9
  <2> QED
    BY <1>1, <1>3, <1>6, <1>7, <2>2, <2>3, <2>4, <2>5
<1> QED
  BY <1>8, <1>9

\* What has been sent before is sent again.
LEMMA SendEffect ==
  ASSUME TypeOK, NEW t \in Checkers, Send(t)
  PROVE  /\ TypeOK' /\ Apart(t) /\ pc[t] = "send" /\ pc'[t] = "insert"
         /\ copy'[t] = copy[t] /\ found'[t] = found[t] /\ now'[t] = now[t]
         /\ sent' = sent \cup {found[t]} /\ again' = again \cup (sent \cap {found[t]})
         /\ UNCHANGED <<clock, signals, rule, events, crossed, excused, lost>>
<1>1. UNCHANGED <<clock, signals, rule, events, crossed, excused, lost, copy, now, found>>
      /\ pc[t] = "send"
  BY DEF Send, table, locals
<1>2. /\ pc' \in [Checkers -> {"idle", "start", "look", "save", "send", "insert"}]
      /\ pc'[t] = "insert" /\ \A u \in Checkers \ {t} : pc'[u] = pc[u]
  BY DEF Send, Goto, TypeOK
<1>3. sent' = sent \cup {found[t]} /\ again' = again \cup (sent \cap {found[t]})
  BY DEF Send
<1>4. found[t] \in Times
  BY LocalsKnown
<1>5. TypeOK'
  BY <1>1, <1>2, <1>3, <1>4 DEF TypeOK
<1> QED
  BY <1>1, <1>2, <1>3, <1>5 DEF Apart

\* A check ends with the event of what it found, if the rule is there, ...
LEMMA InsertEffect ==
  ASSUME TypeOK, NEW t \in Checkers, Insert(t), found[t] # 0
  PROVE  /\ TypeOK' /\ Apart(t) /\ pc[t] = "insert" /\ pc'[t] = "idle" /\ copy'[t].checked = 0
         /\ events \subseteq events' /\ (rule.there => found[t] \in events')
         /\ \A u \in Checkers \ {t} : crossed'[u] = crossed[u]
         /\ UNCHANGED <<clock, signals, rule, sent, again, excused, lost>>
<1>1. UNCHANGED <<clock, signals, rule, sent, again, excused, lost>> /\ pc[t] = "insert"
      /\ Leave(t) /\ events' = IF rule.there THEN events \cup {found[t]} ELSE events
  BY DEF Insert
<1>2. found[t] \in signals /\ events' \subseteq signals
  BY <1>1 DEF TypeOK
<1>3. TypeOK'
  BY <1>1, <1>2, LeaveEffect DEF TypeOK, Rows
<1> QED
  BY <1>1, <1>3, LeaveEffect DEF Apart

\* ... or without.
LEMMA CutOffEffect ==
  ASSUME TypeOK, NEW t \in Checkers, CutOff(t)
  PROVE  /\ TypeOK' /\ Apart(t) /\ pc'[t] = "idle" /\ copy'[t].checked = 0
         /\ lost \subseteq lost' /\ (pc[t] \in {"send", "insert"} => found[t] \in lost')
         /\ \A u \in Checkers \ {t} : crossed'[u] = crossed[u]
         /\ UNCHANGED <<clock, signals, rule, events, sent, again, excused>>
<1>1. UNCHANGED <<clock, signals, rule, events, sent, again, excused>> /\ Leave(t)
      /\ lost' = IF pc[t] \in {"send", "insert"} THEN lost \cup {found[t]} ELSE lost
  BY DEF CutOff, table
<1>2. lost' \subseteq Times
  <2>1. found[t] \in Times
    BY LocalsKnown
  <2> QED
    BY <1>1, <2>1 DEF TypeOK
<1>3. TypeOK'
  BY <1>1, <1>2, LeaveEffect DEF TypeOK, Rows
<1> QED
  BY <1>1, <1>3, LeaveEffect DEF Apart

-----------------------------------------------------------------------------
(* The alert centre: notified once.                                        *)

\* Two checks that have not saved yet have crossed.
Alone == \A t, u \in Checkers : (t # u /\ Deciding(t) /\ Deciding(u)) => crossed[t]

\* A signal that was notified, or is about to be, is passed: no check that may
\* still save will find it or set the rule back before it.
Seen(n) == n \in sent \/ \E u \in Checkers : pc[u] \in {"send", "insert"} /\ found[u] = n

Passed(n) ==
  /\ rule.there => n <= rule.checked
  /\ \A t \in Checkers : Deciding(t) => /\ n <= copy[t].checked
                                        /\ pc[t] \in {"look", "save"} => n <= now[t]

SeenPassed == \A n \in Times \ excused : Seen(n) => Passed(n)

\* One check at most is about to notify it, and it is not notified yet.
SendsOnce ==
  \A t \in Checkers : (pc[t] = "send" /\ found[t] \notin excused) =>
    /\ found[t] \notin sent
    /\ \A u \in Checkers \ {t} : pc[u] = "send" => found[u] # found[t]

\* What is found is newer than the last check.
FoundNew ==
  /\ 0 \notin excused
  /\ \A t \in Checkers : /\ pc[t] = "save" => found[t] = 0 \/ copy[t].checked < found[t]
                         /\ pc[t] \in {"send", "insert"} => found[t] # 0

OnceInv == TypeOK /\ Alone /\ SeenPassed /\ SendsOnce /\ FoundNew /\ NotifiedOnce

\* The steps of users and publishers move no check and set no rule back.
LEMMA OnceFrame ==
  ASSUME OnceInv, TypeOK', UNCHANGED <<pc, copy, now, found, crossed, sent, again, excused>>,
         rule'.there => rule.there, rule.there => rule'.checked = rule.checked
  PROVE  OnceInv'
<1>1. Alone' /\ SendsOnce' /\ FoundNew' /\ NotifiedOnce'
  BY DEF OnceInv, Alone, SendsOnce, FoundNew, NotifiedOnce, Deciding
<1>2. ASSUME NEW n \in Times \ excused', Seen(n)' PROVE Passed(n)'
  <2>1. Passed(n)
    BY <1>2 DEF OnceInv, SeenPassed, Seen
  <2> QED
    BY <2>1 DEF Passed, Deciding
<1> QED
  BY <1>1, <1>2 DEF OnceInv, SeenPassed

\* A check that is over, or sends on what it has, leaves the others to themselves.
LEMMA EndKeepsOnce ==
  ASSUME OnceInv, TypeOK', NEW t \in Checkers, Apart(t), pc'[t] = "idle",
         \A u \in Checkers \ {t} : crossed'[u] = crossed[u],
         UNCHANGED <<rule, sent, again, excused>>
  PROVE  OnceInv'
<1>1. Alone'
  BY DEF OnceInv, Alone, Apart, Deciding
<1>2. SendsOnce' /\ FoundNew' /\ NotifiedOnce'
  BY DEF OnceInv, SendsOnce, FoundNew, NotifiedOnce, Apart
<1>3. ASSUME NEW n \in Times \ excused', Seen(n)' PROVE Passed(n)'
  <2>1. Passed(n)
    BY <1>3 DEF OnceInv, SeenPassed, Seen, Apart
  <2> QED
    BY <2>1 DEF Passed, Deciding, Apart
<1> QED
  BY <1>1, <1>2, <1>3 DEF OnceInv, SeenPassed

\* A check that begins has the last check that is stored.
LEMMA ReadKeepsOnce ==
  ASSUME OnceInv, NEW t \in Checkers, Read(t)
  PROVE  OnceInv'
<1>1. TypeOK
  BY DEF OnceInv
<1>2. /\ TypeOK' /\ Apart(t) /\ pc[t] = "idle" /\ pc'[t] = "start" /\ copy'[t] = rule
      /\ found'[t] = found[t] /\ UNCHANGED <<rule, sent, again, excused>> /\ rule.there
  BY <1>1, ReadEffect DEF Read
<1>3. /\ crossed'[t] <=> \E v \in Checkers : Deciding(v)
      /\ \A u \in Checkers \ {t} : crossed'[u] <=> crossed[u] \/ Deciding(u)
  BY <1>1, ReadEffect
<1>4. \A u \in Checkers \ {t} : Deciding(u)' <=> Deciding(u)
  BY <1>2 DEF Deciding, Apart
<1>5. Alone'
  BY <1>3, <1>4 DEF Alone
<1>6. SendsOnce' /\ FoundNew' /\ NotifiedOnce'
  BY <1>2 DEF OnceInv, SendsOnce, FoundNew, NotifiedOnce, Apart
<1>7. ASSUME NEW n \in Times \ excused', Seen(n)' PROVE Passed(n)'
  <2>1. Passed(n)
    BY <1>2, <1>7 DEF OnceInv, SeenPassed, Seen, Apart
  <2> QED
    BY <1>2, <1>4, <2>1 DEF Passed, Apart
<1> QED
  BY <1>2, <1>5, <1>6, <1>7 DEF OnceInv, SeenPassed

\* A check that takes its time is ahead of all that was notified.
LEMMA StartKeepsOnce ==
  ASSUME OnceInv, NEW t \in Checkers, Start(t)
  PROVE  OnceInv'
<1>1. TypeOK
  BY DEF OnceInv
<1>2. /\ TypeOK' /\ Apart(t) /\ pc[t] = "start" /\ UNCHANGED <<rule, sent, again, excused>>
      /\ \A u \in Checkers \ {t} : crossed'[u] = crossed[u]
  BY <1>1, StartEffect
<1>3. CASE pc'[t] = "idle"
  BY <1>2, <1>3, EndKeepsOnce
<1>4. CASE pc'[t] # "idle"
  <2>1. pc'[t] = "look" /\ now'[t] = clock /\ copy'[t] = copy[t] /\ crossed'[t] = crossed[t]
    BY <1>1, <1>4, StartEffect
  <2>2. \A u \in Checkers : (Deciding(u)' <=> Deciding(u)) /\ crossed'[u] = crossed[u]
    BY <1>2, <2>1 DEF Deciding, Apart
  <2>3. Alone'
    BY <2>2 DEF OnceInv, Alone
  <2>4. SendsOnce' /\ FoundNew' /\ NotifiedOnce'
    BY <1>2, <2>1 DEF OnceInv, SendsOnce, FoundNew, NotifiedOnce, Apart
  <2>5. ASSUME NEW n \in Times \ excused', Seen(n)' PROVE Passed(n)'
    <3>1. Passed(n)
      BY <1>2, <2>1, <2>5 DEF OnceInv, SeenPassed, Seen, Apart
    <3>2. n <= copy[t].checked /\ copy[t].checked \in 0..clock
      BY <1>1, <1>2, <3>1 DEF Passed, Deciding, TypeOK
    <3>3. n <= clock
      BY <1>1, <3>2, NumbersKnown DEF Times
    <3> QED
      BY <1>2, <2>1, <2>2, <3>1, <3>2, <3>3 DEF Passed, Apart
  <2> QED
    BY <1>2, <2>3, <2>4, <2>5 DEF OnceInv, SeenPassed
<1> QED
  BY <1>3, <1>4

\* A look finds nothing that was notified.
LEMMA LookKeepsOnce ==
  ASSUME OnceInv, NEW t \in Checkers, Look(t)
  PROVE  OnceInv'
<1>1. TypeOK
  BY DEF OnceInv
<1>2. /\ TypeOK' /\ Apart(t) /\ pc[t] = "look" /\ pc'[t] = "save" /\ copy'[t] = copy[t]
      /\ now'[t] = now[t] /\ UNCHANGED <<rule, sent, again, excused, crossed>>
      /\ found'[t] = 0 \/ copy[t].checked < found'[t]
  BY <1>1, LookEffect
<1>3. \A u \in Checkers : Deciding(u)' <=> Deciding(u)
  BY <1>2 DEF Deciding, Apart
<1>4. Alone'
  BY <1>2, <1>3 DEF OnceInv, Alone
<1>5. SendsOnce' /\ FoundNew' /\ NotifiedOnce'
  BY <1>2 DEF OnceInv, SendsOnce, FoundNew, NotifiedOnce, Apart
<1>6. ASSUME NEW n \in Times \ excused', Seen(n)' PROVE Passed(n)'
  <2>1. Passed(n)
    BY <1>2, <1>6 DEF OnceInv, SeenPassed, Seen, Apart
  <2> QED
    BY <1>2, <1>3, <2>1 DEF Passed, Apart
<1> QED
  BY <1>2, <1>4, <1>5, <1>6 DEF OnceInv, SeenPassed

\* Who sends is the only one to send it, and the first.
LEMMA SendKeepsOnce ==
  ASSUME OnceInv, NEW t \in Checkers, Send(t)
  PROVE  OnceInv'
<1>1. TypeOK
  BY DEF OnceInv
<1>2. /\ TypeOK' /\ Apart(t) /\ pc[t] = "send" /\ pc'[t] = "insert" /\ copy'[t] = copy[t]
      /\ found'[t] = found[t] /\ UNCHANGED <<rule, excused, crossed>>
      /\ sent' = sent \cup {found[t]} /\ again' = again \cup (sent \cap {found[t]})
  BY <1>1, SendEffect
<1>3. \A u \in Checkers : Deciding(u)' <=> Deciding(u)
  BY <1>2 DEF Deciding, Apart
<1>4. Alone'
  BY <1>2, <1>3 DEF OnceInv, Alone
<1>5. SendsOnce'
  BY <1>2 DEF OnceInv, SendsOnce, Apart
<1>6. FoundNew' /\ NotifiedOnce'
  BY <1>2 DEF OnceInv, SendsOnce, FoundNew, NotifiedOnce, Apart
<1>7. ASSUME NEW n \in Times \ excused', Seen(n)' PROVE Passed(n)'
  <2>1. Passed(n)
    BY <1>2, <1>7 DEF OnceInv, SeenPassed, Seen, Apart
  <2> QED
    BY <1>2, <1>3, <2>1 DEF Passed, Apart, Deciding
<1> QED
  BY <1>2, <1>4, <1>5, <1>6, <1>7 DEF OnceInv, SeenPassed

\* A save of a check that crossed none makes the rule pass what it found, and
\* there is no other that might set it back.
LEMMA SaveKeepsOnce ==
  ASSUME OnceInv, NEW t \in Checkers, Save(t)
  PROVE  OnceInv'
<1>1. TypeOK
  BY DEF OnceInv
<1>2. /\ TypeOK' /\ Apart(t) /\ pc[t] = "save"
      /\ rule'.there = rule.there /\ (rule.there => rule'.checked = now[t])
      /\ pc'[t] = "send" \/ pc'[t] = "idle"
      /\ pc'[t] = "send" => found'[t] = found[t] /\ found[t] # 0
      /\ found[t] = 0 \/ found[t] \in excused' \/ (~crossed[t] /\ found[t] <= now[t])
      /\ \A u \in Checkers \ {t} : crossed'[u] = crossed[u]
      /\ UNCHANGED <<sent, again>>
  BY <1>1, SaveEffect
<1>3. excused \subseteq excused' /\ 0 \notin excused'
  BY <1>1, SaveEffect DEF OnceInv, FoundNew
<1>4. /\ ~Deciding(t)' /\ Deciding(t)
      /\ \A u \in Checkers \ {t} : Deciding(u)' <=> Deciding(u)
  BY <1>2 DEF Deciding, Apart
<1>5. Alone'
  BY <1>2, <1>4 DEF OnceInv, Alone
<1>6. FoundNew' /\ NotifiedOnce'
  BY <1>2, <1>3 DEF OnceInv, FoundNew, NotifiedOnce, Apart
<1>7. ASSUME NEW n \in Times \ excused', Seen(n)
      PROVE  Passed(n)' /\ (found[t] # 0 => n # found[t])
  <2>1. Passed(n)
    BY <1>3, <1>7 DEF OnceInv, SeenPassed
  <2>2. n <= now[t] /\ n <= copy[t].checked
    BY <1>2, <1>4, <2>1 DEF Passed
  <2>3. found[t] # 0 => n # found[t]
    <3>1. found[t] = 0 \/ copy[t].checked < found[t]
      BY <1>2 DEF OnceInv, FoundNew
    <3>2. copy[t].checked \in Nat /\ found[t] \in Nat
      BY <1>1, LocalsKnown
    <3> QED
      BY <2>2, <3>1, <3>2
  <2>4. Passed(n)'
    BY <1>2, <1>4, <2>1, <2>2 DEF Passed, Apart
  <2> QED
    BY <2>3, <2>4
<1>8. ASSUME pc'[t] = "send", found[t] \notin excused'
      PROVE  /\ ~Seen(found[t]) /\ ~crossed[t] /\ found[t] <= now[t]
             /\ \A u \in Checkers \ {t} : ~Deciding(u)
  <2>1. found[t] \in Times /\ found[t] # 0 /\ ~crossed[t] /\ found[t] <= now[t]
    BY <1>1, <1>2, <1>8, LocalsKnown
  <2>2. ~Seen(found[t])
    BY <1>7, <1>8, <2>1
  <2>3. \A u \in Checkers \ {t} : ~Deciding(u)
    BY <1>4, <2>1 DEF OnceInv, Alone
  <2> QED
    BY <2>1, <2>2, <2>3
<1>9. ASSUME NEW n \in Times \ excused', Seen(n)' PROVE Passed(n)'
  <2>1. CASE Seen(n)
    BY <1>7, <2>1
  <2>2. CASE ~Seen(n)
    <3>1. n = found[t] /\ pc'[t] = "send"
      BY <1>2, <1>9, <2>2 DEF Seen, Apart
    <3> QED
      BY <1>2, <1>4, <1>8, <1>9, <3>1 DEF Passed
  <2> QED
    BY <2>1, <2>2
<1>10. SendsOnce'
  <2> SUFFICES ASSUME NEW v \in Checkers, pc'[v] = "send", found'[v] \notin excused'
               PROVE  /\ found'[v] \notin sent'
                      /\ \A u \in Checkers \ {v} : pc'[u] = "send" => found'[u] # found'[v]
    BY DEF SendsOnce
  <2>1. CASE v = t
    BY <1>2, <1>8, <2>1 DEF Seen, Apart
  <2>2. CASE v # t
    <3>1. /\ found[v] \notin sent
          /\ \A u \in Checkers \ {v} : pc[u] = "send" => found[u] # found[v]
          /\ pc[v] = "send" /\ found'[v] = found[v]
      BY <1>2, <1>3, <2>2 DEF OnceInv, SendsOnce, Apart
    <3>2. pc'[t] = "send" => found'[t] # found[v]
      BY <1>2, <1>8, <2>2, <3>1 DEF Seen
    <3> QED
      BY <1>2, <2>2, <3>1, <3>2 DEF Apart
  <2> QED
    BY <2>1, <2>2
<1> QED
  BY <1>2, <1>5, <1>6, <1>9, <1>10 DEF OnceInv, SeenPassed

\* Nothing was found in the initial state ...
LEMMA OnceInit == ASSUME Init PROVE OnceInv
<1>1. EndOfTime \in Nat \ {0}
  BY AlertsAssumption
<1>2. clock \in Times /\ clock = 1
  BY <1>1 DEF Init, Times
<1>3. rule \in Rows /\ copy \in [Checkers -> Rows]
  <2>1. rule = [there |-> TRUE, enabled |-> TRUE, checked |-> 0]
    BY DEF Init
  <2>2. rule \in Rows
    BY <1>2, <2>1 DEF Rows
  <2>3. copy = [t \in Checkers |-> rule]
    BY DEF Init
  <2> QED
    BY <2>2, <2>3
<1>4. now \in [Checkers -> 0..clock] /\ found \in [Checkers -> signals \cup {0}]
  BY <1>2 DEF Init
<1>5. crossed \in [Checkers -> BOOLEAN]
  BY DEF Init
<1>6. /\ pc \in [Checkers -> {"idle", "start", "look", "save", "send", "insert"}]
      /\ signals = {} /\ events = {} /\ sent = {} /\ again = {} /\ excused = {} /\ lost = {}
      /\ \A t \in Checkers : pc[t] = "idle"
  BY DEF Init
<1>7. TypeOK
  BY <1>2, <1>3, <1>4, <1>5, <1>6 DEF TypeOK, Rows
<1> QED
  BY <1>6, <1>7 DEF OnceInv, Alone, SeenPassed, Seen, SendsOnce, FoundNew, NotifiedOnce, Deciding

\* ... and each step keeps it.
LEMMA OnceNext == ASSUME OnceInv, [Next]_vars PROVE OnceInv'
<1>1. TypeOK /\ FoundNew
  BY DEF OnceInv
<1>2. CASE Tick \/ (\E n \in Times : Publish(n)) \/ Delete \/ (\E b \in BOOLEAN : Enable(b))
  <2>1. TypeOK'
    BY <1>1, <1>2, TimeKeepsTypes, EditsKeepTypes
  <2>2. UNCHANGED <<pc, copy, now, found, crossed, sent, again, excused>>
    BY <1>2 DEF Tick, Publish, Delete, Enable, locals, notes
  <2>3. (rule'.there => rule.there) /\ (rule.there => rule'.checked = rule.checked)
    BY <1>2 DEF Tick, Publish, Delete, Enable, table
  <2> QED
    BY <2>1, <2>2, <2>3, OnceFrame
<1>3. ASSUME NEW t \in Checkers, Check(t) PROVE OnceInv'
  <2>1. CASE Insert(t)
    <3>1. found[t] # 0
      BY <1>1, <2>1 DEF Insert, FoundNew
    <3> QED
      BY <1>1, <2>1, <3>1, InsertEffect, EndKeepsOnce
  <2>2. CASE CutOff(t)
    BY <1>1, <2>2, CutOffEffect, EndKeepsOnce
  <2> QED
    BY <1>3, <2>1, <2>2, ReadKeepsOnce, StartKeepsOnce, LookKeepsOnce, SaveKeepsOnce, SendKeepsOnce
       DEF Check
<1>4. CASE UNCHANGED vars
  BY <1>4 DEF OnceInv, TypeOK, Alone, SeenPassed, Seen, Passed, SendsOnce, FoundNew, NotifiedOnce,
              Deciding, vars, table, locals, notes
<1> QED
  BY <1>2, <1>3, <1>4 DEF Next

\* OnceInv is inductive.
LEMMA Once == Spec => []OnceInv
<1>1. Init => OnceInv
  BY OnceInit
<1>2. OnceInv /\ [Next]_vars => OnceInv'
  BY OnceNext
<1> QED
  BY <1>1, <1>2, PTL DEF Spec

\* Every variable of the alert centre has its type.
THEOREM AlertTypes == Spec => []TypeOK
  BY Once, PTL DEF OnceInv

\* Whoever checks, whenever and however often: a signal is notified once, unless
\* checks overlapped before the one that found it had saved its time, or it was
\* published after that check had taken its time (check_rule, _save_check).
THEOREM NotifiedAtMostOnce == Spec => []NotifiedOnce
  BY Once, PTL DEF OnceInv

-----------------------------------------------------------------------------
(* The alert centre: nothing else lost.                                    *)

\* What has become of a signal that a check has passed.
Accounted(n) ==
  \/ n \in events
  \/ \E t \in Checkers : pc[t] \in {"send", "insert"} /\ found[t] = n
  \/ n \in lost

\* Those before the last check are accounted for, and those before the last
\* check that any of the checks under way knows of.
Kept ==
  rule.there =>
    \A n \in signals :
      (n <= rule.checked \/ \E t \in Checkers : n <= copy[t].checked) => Accounted(n)

\* Who is about to save has found what his time passes, or it is lost.
Looked ==
  \A t \in Checkers : pc[t] = "save" =>
    \A n \in signals : (copy[t].checked < n /\ n <= now[t]) => n = found[t] \/ n \in lost

LostInv == Kept /\ Looked

\* A signal accounted for stays so while its check stays, or hands it on.
LEMMA AccountsStay ==
  ASSUME TypeOK, NEW t \in Checkers, Apart(t),
         events \subseteq events', lost \cap signals \subseteq lost',
         NEW n \in signals, Accounted(n),
         (pc[t] \in {"send", "insert"} /\ found[t] = n)
           => \/ pc'[t] \in {"send", "insert"} /\ found'[t] = n
              \/ n \in events' \/ n \in lost'
  PROVE  Accounted(n)'
<1>1. CASE n \in events \/ n \in lost
  BY <1>1 DEF Accounted
<1>2. ASSUME NEW u \in Checkers, pc[u] \in {"send", "insert"}, found[u] = n PROVE Accounted(n)'
  <2>1. CASE u = t
    BY <1>2, <2>1 DEF Accounted
  <2>2. CASE u # t
    <3>1. pc'[u] \in {"send", "insert"} /\ found'[u] = n
      BY <1>2, <2>2 DEF Apart
    <3> QED
      BY <3>1 DEF Accounted
  <2> QED
    BY <2>1, <2>2
<1> QED
  BY <1>1, <1>2 DEF Accounted

\* What a check that ends, or goes on without saving, has to show: it forgets no
\* signal and knows of no check the rule does not.
LEMMA CheckKeepsLost ==
  ASSUME TypeOK, LostInv, NEW t \in Checkers, Apart(t),
         UNCHANGED <<signals, rule>>, events \subseteq events', lost \cap signals \subseteq lost',
         \A n \in signals : n <= copy'[t].checked => n <= copy[t].checked \/ n <= rule.checked,
         rule.there => ((pc[t] \in {"send", "insert"} /\ found[t] \in signals)
           => \/ pc'[t] \in {"send", "insert"} /\ found'[t] = found[t]
              \/ found[t] \in events' \/ found[t] \in lost'),
         pc'[t] = "save" =>
           \A n \in signals : (copy'[t].checked < n /\ n <= now'[t]) => n = found'[t] \/ n \in lost'
  PROVE  LostInv'
<1>1. ASSUME rule'.there, NEW n \in signals',
             n <= rule'.checked \/ \E u \in Checkers : n <= copy'[u].checked
      PROVE  Accounted(n)'
  <2>1. n <= rule.checked \/ \E u \in Checkers : n <= copy[u].checked
    BY <1>1 DEF Apart
  <2>2. Accounted(n)
    BY <1>1, <2>1 DEF LostInv, Kept
  <2> QED
    BY <1>1, <2>2, AccountsStay
<1>2. ASSUME NEW u \in Checkers, pc'[u] = "save", NEW n \in signals',
             copy'[u].checked < n, n <= now'[u]
      PROVE  n = found'[u] \/ n \in lost'
  <2>1. CASE u = t
    BY <1>2, <2>1
  <2>2. CASE u # t
    BY <1>2, <2>2 DEF LostInv, Looked, Apart
  <2> QED
    BY <2>1, <2>2
<1> QED
  BY <1>1, <1>2 DEF LostInv, Kept, Looked

\* The time of the check that is saved passes what its copy has passed, what it
\* has found and what is lost.
LEMMA SaveKeepsLost ==
  ASSUME TypeOK, LostInv, NEW t \in Checkers, Save(t)
  PROVE  LostInv'
<1>1. /\ Apart(t) /\ pc[t] = "save" /\ pc'[t] # "save"
      /\ rule'.there = rule.there /\ (rule.there => rule'.checked = now[t])
      /\ \/ pc'[t] = "send" /\ copy'[t] = copy[t] /\ found'[t] = found[t]
         \/ copy'[t].checked = 0 /\ (found[t] = 0 \/ found[t] \in lost')
      /\ lost \cap signals \subseteq lost' /\ UNCHANGED <<signals, events>>
  BY SaveEffect
<1>2. /\ signals \subseteq Nat /\ 0 \notin signals /\ copy[t].checked \in Nat /\ now[t] \in Nat
  BY LocalsKnown
<1>3. ASSUME rule'.there, NEW n \in signals',
             n <= rule'.checked \/ \E u \in Checkers : n <= copy'[u].checked
      PROVE  Accounted(n)'
  <2>1. n \in signals /\ n \in Nat /\ n # 0 /\ rule.there
    BY <1>1, <1>2, <1>3
  <2>2. n <= now[t] \/ \E u \in Checkers : n <= copy[u].checked
    <3>1. n <= copy'[t].checked => n <= copy[t].checked
      BY <1>1, <2>1
    <3> QED
      BY <1>1, <1>3, <2>1, <3>1 DEF Apart
  <2>3. CASE \E u \in Checkers : n <= copy[u].checked
    <3>1. Accounted(n)
      BY <2>1, <2>3 DEF LostInv, Kept
    <3> QED
      BY <1>1, <2>1, <3>1, AccountsStay
  <2>4. CASE n <= now[t] /\ ~(n <= copy[t].checked)
    <3>1. copy[t].checked < n
      BY <1>2, <2>1, <2>4
    <3>2. n = found[t] \/ n \in lost
      BY <1>1, <2>1, <2>4, <3>1 DEF LostInv, Looked
    <3> QED
      BY <1>1, <2>1, <3>2 DEF Accounted
  <2> QED
    BY <2>2, <2>3, <2>4
<1>4. ASSUME NEW u \in Checkers, pc'[u] = "save", NEW n \in signals',
             copy'[u].checked < n, n <= now'[u]
      PROVE  n = found'[u] \/ n \in lost'
  <2>1. u # t
    BY <1>1, <1>4
  <2> QED
    BY <1>1, <1>4, <2>1 DEF LostInv, Looked, Apart
<1> QED
  BY <1>3, <1>4 DEF LostInv, Kept, Looked

\* A signal that comes with a time that was passed is lost as it comes.
LEMMA PublishKeepsLost ==
  ASSUME TypeOK, LostInv, NEW m \in Times, Publish(m)
  PROVE  LostInv'
<1>1. /\ signals' = signals \cup {m} /\ lost \subseteq lost'
      /\ UNCHANGED <<rule, events, pc, copy, now, found>>
  BY DEF Publish, locals
<1>2. (m <= rule.checked \/ \E t \in Checkers : m <= copy[t].checked) => m \in lost'
  BY DEF Publish
<1>3. \A t \in Checkers : (pc[t] = "save" /\ m <= now[t]) => m \in lost'
  BY DEF Publish
<1>4. \A n \in signals : Accounted(n) => Accounted(n)'
  BY <1>1 DEF Accounted
<1>5. m \in lost' => Accounted(m)'
  BY DEF Accounted
<1>6. Kept'
  BY <1>1, <1>2, <1>4, <1>5 DEF LostInv, Kept
<1>7. Looked'
  BY <1>1, <1>3 DEF LostInv, Looked
<1> QED
  BY <1>6, <1>7 DEF LostInv

\* Nothing was passed in the initial state ...
LEMMA LostInit == ASSUME Init PROVE LostInv
  BY DEF Init, LostInv, Kept, Looked

\* ... and each step accounts for what it passes.
LEMMA LostNext == ASSUME OnceInv, LostInv, [Next]_vars PROVE LostInv'
<1>1. TypeOK /\ FoundNew
  BY DEF OnceInv
<1>2. ASSUME NEW t \in Checkers, Check(t) PROVE LostInv'
  <2>0. /\ signals \subseteq Nat /\ 0 \notin signals /\ copy[t].checked \in Nat
    BY <1>1, LocalsKnown
  <2>1. CASE Read(t)
    <3>1. /\ Apart(t) /\ UNCHANGED <<signals, rule, events, lost>> /\ pc[t] = "idle"
          /\ pc'[t] = "start" /\ copy'[t] = rule
      BY <1>1, <2>1, ReadEffect
    <3> QED
      BY <1>1, <3>1, CheckKeepsLost
  <2>2. CASE Start(t)
    <3>1. /\ Apart(t) /\ UNCHANGED <<signals, rule, events, lost>> /\ pc[t] = "start"
          /\ pc'[t] # "save" /\ (copy'[t] = copy[t] \/ copy'[t].checked = 0)
      BY <1>1, <2>2, StartEffect
    <3>2. ASSUME NEW n \in signals, n <= copy'[t].checked PROVE n <= copy[t].checked
      <4>1. n \in Nat /\ n # 0
        BY <2>0
      <4>2. copy'[t].checked # 0
        BY <3>2, <4>1
      <4> QED
        BY <3>1, <3>2, <4>2
    <3> QED
      BY <1>1, <3>1, <3>2, CheckKeepsLost
  <2>3. CASE Look(t)
    <3>1. /\ Apart(t) /\ UNCHANGED <<signals, rule, events>> /\ lost \subseteq lost'
          /\ pc[t] = "look"
          /\ copy'[t] = copy[t]
          /\ \A n \in signals : copy[t].checked < n => n = found'[t] \/ n \in lost'
      BY <1>1, <2>3, LookEffect
    <3> QED
      BY <1>1, <3>1, CheckKeepsLost
  <2>4. CASE Save(t)
    BY <1>1, <2>4, SaveKeepsLost
  <2>5. CASE Send(t)
    <3>1. /\ Apart(t) /\ UNCHANGED <<signals, rule, events, lost>> /\ pc'[t] = "insert"
          /\ copy'[t] = copy[t] /\ found'[t] = found[t]
      BY <1>1, <2>5, SendEffect
    <3> QED
      BY <1>1, <3>1, CheckKeepsLost
  <2>6. CASE Insert(t)
    <3>1. found[t] # 0
      BY <1>1, <2>6 DEF Insert, FoundNew
    <3>2. /\ Apart(t) /\ UNCHANGED <<signals, rule, lost>> /\ events \subseteq events'
          /\ pc'[t] = "idle" /\ copy'[t].checked = 0 /\ (rule.there => found[t] \in events')
      BY <1>1, <2>6, <3>1, InsertEffect
    <3>3. ASSUME NEW n \in signals, n <= copy'[t].checked PROVE n <= copy[t].checked
      <4>1. n \in Nat /\ n # 0
        BY <2>0
      <4>2. copy'[t].checked # 0
        BY <3>3, <4>1
      <4> QED
        BY <3>2, <3>3, <4>2
    <3> QED
      BY <1>1, <3>2, <3>3, CheckKeepsLost
  <2>7. CASE CutOff(t)
    <3>1. /\ Apart(t) /\ UNCHANGED <<signals, rule, events>> /\ lost \subseteq lost'
          /\ pc'[t] = "idle" /\ copy'[t].checked = 0
          /\ (pc[t] \in {"send", "insert"} => found[t] \in lost')
      BY <1>1, <2>7, CutOffEffect
    <3>2. ASSUME NEW n \in signals, n <= copy'[t].checked PROVE n <= copy[t].checked
      <4>1. n \in Nat /\ n # 0
        BY <2>0
      <4>2. copy'[t].checked # 0
        BY <3>2, <4>1
      <4> QED
        BY <3>1, <3>2, <4>2
    <3> QED
      BY <1>1, <3>1, <3>2, CheckKeepsLost
  <2> QED
    BY <1>2, <2>1, <2>2, <2>3, <2>4, <2>5, <2>6, <2>7 DEF Check
<1>3. CASE \E n \in Times : Publish(n)
  BY <1>1, <1>3, PublishKeepsLost
<1>4. CASE Tick \/ UNCHANGED vars \/ \E b \in BOOLEAN : Enable(b)
  <2>1. /\ UNCHANGED <<signals, events, pc, copy, now, found, lost>>
        /\ rule'.there => rule.there /\ rule'.checked = rule.checked
    BY <1>4 DEF Tick, Enable, vars, table, locals, notes
  <2> QED
    BY <2>1 DEF LostInv, Kept, Looked, Accounted
<1>5. CASE Delete
  <2>1. UNCHANGED <<signals, pc, copy, now, found, lost>> /\ ~rule'.there
    BY <1>5 DEF Delete, locals, notes
  <2> QED
    BY <2>1 DEF LostInv, Kept, Looked
<1> QED
  BY <1>2, <1>3, <1>4, <1>5 DEF Next

\* A signal that the last check has passed has its event or is about to have it,
\* unless it came too late, gave way to a later one, was found in the quiet
\* period, or its check was cut off after it had saved its time.
THEOREM SignalsAreAccountedFor == Spec => []NothingElseLost
<1>1. Init => LostInv
  BY LostInit
<1>2. OnceInv /\ LostInv /\ [Next]_vars => LostInv'
  BY LostNext
<1>3. LostInv => NothingElseLost
  BY DEF LostInv, Kept, Accounted, NothingElseLost
<1> QED
  BY <1>1, <1>2, <1>3, Once, PTL DEF Spec

-----------------------------------------------------------------------------
(* The reconciliation scheduler.                                           *)

\* The bounds are numbers.
LEMMA Bounds == MaxLoops \in Nat /\ MaxFaults \in Nat
  BY SchedulerAssumption

\* Nothing is at work in an initial state.
LEMMA OneLoopInit == SchedulerInit => OneLoopInv
<1> SUFFICES ASSUME SchedulerInit PROVE OneLoopInv
  OBVIOUS
<1>1. Live = {}
  BY DEF SchedulerInit, Live
<1>2. SchedulerTypeOK
  <2>1. account \in Accounts \cup {None} /\ stop \in BOOLEAN /\ raced \in BOOLEAN
        /\ bypassed \in BOOLEAN
    BY Bounds DEF SchedulerInit
  <2>2. current \in 0..MaxLoops
    BY Bounds DEF SchedulerInit
  <2>3. loop \in [Loops -> {"none", "created", "check", "run", "wait", "ended"}]
    BY DEF SchedulerInit
  <2>4. request \in [Users -> {"idle", "assign", "start", "create", "launch", "grab", "join"}]
    BY DEF SchedulerInit
  <2>5. mine \in [Users -> 0..MaxLoops]
    BY Bounds DEF SchedulerInit
  <2>6. faults \in 0..MaxFaults
    BY Bounds DEF SchedulerInit
  <2> QED
    BY <2>1, <2>2, <2>3, <2>4, <2>5, <2>6 DEF SchedulerTypeOK
<1>3. Orderly
  BY <1>1 DEF SchedulerInit, Orderly, Starting
<1>4. Undisturbed
  BY DEF SchedulerInit, Undisturbed
<1> QED
  BY <1>2, <1>3, <1>4 DEF OneLoopInv

\* What a step of a request thread does to the loops.
LEMMA RequestOneLoop ==
  ASSUME OneLoopInv, NEW c \in Users,
         Request(c) \/ StopSet(c) \/ Configure(c)
  PROVE  SchedulerTypeOK' /\ (~raced' => Orderly')
<1> USE Bounds DEF OneLoopInv, SchedulerTypeOK, Step
<1>1. CASE Configure(c)
  BY <1>1 DEF Configure, IsAlive, Live, Orderly, Starting
<1>8. CASE Assign(c)
  BY <1>8 DEF Assign, Live, Orderly, Starting
<1>2. CASE ScheduleCheck(c)
  <2>1. SchedulerTypeOK'
    BY <1>2 DEF ScheduleCheck
  <2>2. ASSUME ~raced' PROVE Orderly'
    <3>1. Orderly
      BY <1>2, <2>2 DEF ScheduleCheck
    <3>2. CASE IsAlive(current)
      BY <1>2, <3>1, <3>2 DEF ScheduleCheck, IsAlive, Live, Orderly, Starting
    <3>3. CASE ~IsAlive(current)
      <4>1. Live = {} /\ Live' = {}
        BY <1>2, <3>1, <3>3 DEF ScheduleCheck, IsAlive, Live, Orderly
      <4>2. \A d \in Users : ~Starting(d)
        BY <1>2, <2>2, <3>3 DEF ScheduleCheck
      <4>3. \A d \in Users : Starting(d)' => d = c
        BY <1>2, <4>2 DEF ScheduleCheck, Starting
      <4> QED
        BY <1>2, <3>1, <3>3, <4>1, <4>3 DEF ScheduleCheck, Orderly
    <3> QED
      BY <3>2, <3>3
  <2> QED
    BY <2>1, <2>2
<1>3. CASE ScheduleCreate(c)
  <2>1. PICK g \in Loops : /\ loop'    = [loop EXCEPT ![g] = "created"]
                           /\ current' = g
                           /\ mine'    = [mine EXCEPT ![c] = g]
    BY <1>3 DEF ScheduleCreate
  <2>2. request' = [request EXCEPT ![c] = "launch"] /\ Starting(c)
    BY <1>3 DEF ScheduleCreate, Starting
  <2>3. SchedulerTypeOK'
    <3>1. g \in 0..MaxLoops
      BY DEF Loops
    <3>2. /\ current' \in 0..MaxLoops
          /\ mine' \in [Users -> 0..MaxLoops]
          /\ request' \in [Users -> {"idle", "assign", "start", "create", "launch", "grab", "join"}]
      BY <2>1, <2>2, <3>1
    <3>3. loop' \in [Loops -> {"none", "created", "check", "run", "wait", "ended"}]
      BY <2>1
    <3>4. stop' = FALSE /\ UNCHANGED <<account, faults, raced, bypassed>>
      BY <1>3 DEF ScheduleCreate
    <3> QED
      BY <3>2, <3>3, <3>4
  <2>4. ASSUME Orderly PROVE Orderly'
    <3>1. Live = {} /\ \A d \in Users : Starting(d) => d = c
      BY <2>2, <2>4 DEF Orderly
    <3>2. Live' = {}
      BY <2>1, <3>1 DEF Live
    <3>3. \A d \in Users : Starting(d)' => d = c
      BY <2>2, <3>1 DEF Starting
    <3>4. \A d \in Users : request'[d] = "launch" => mine'[d] = current'
      BY <2>1, <3>3 DEF Starting
    <3> QED
      BY <3>2, <3>3, <3>4 DEF Orderly
  <2> QED
    BY <1>3, <2>3, <2>4 DEF ScheduleCreate
<1>4. CASE ScheduleLaunch(c)
  <2>1. SchedulerTypeOK'
    <3>1. loop' \in [Loops -> {"none", "created", "check", "run", "wait", "ended"}]
      BY <1>4 DEF ScheduleLaunch
    <3>2. mine' \in [Users -> 0..MaxLoops]
      BY <1>4 DEF ScheduleLaunch
    <3> QED
      BY <1>4, <3>1, <3>2 DEF ScheduleLaunch
  <2>2. ASSUME Orderly PROVE Orderly'
    <3>1. Live = {} /\ mine[c] = current /\ \A d \in Users : Starting(d) => d = c
      BY <1>4, <2>2 DEF ScheduleLaunch, Orderly, Starting
    <3>2. Live' \subseteq {current'}
      BY <1>4, <3>1 DEF ScheduleLaunch, Live
    <3>3. \A d \in Users : ~Starting(d)'
      BY <1>4, <3>1 DEF ScheduleLaunch, Starting
    <3> QED
      BY <3>2, <3>3 DEF Orderly, Starting
  <2> QED
    BY <1>4, <2>1, <2>2 DEF ScheduleLaunch
<1>5. CASE StopSet(c)
  BY <1>5 DEF StopSet, Live, Orderly, Starting
<1>6. CASE StopGrab(c)
  BY <1>6 DEF StopGrab, Live, Orderly, Starting
<1>7. CASE StopJoin(c)
  BY <1>7 DEF StopJoin, Live, Orderly, Starting
<1> QED
  BY <1>1, <1>2, <1>3, <1>4, <1>5, <1>6, <1>7, <1>8 DEF Request

\* No step of a request disturbs a configure that met no launch: creating a loop
\* needs the lock, and launching one a loop created before.
LEMMA RequestUndisturbed ==
  ASSUME OneLoopInv, NEW c \in Users, Request(c) \/ StopSet(c) \/ Configure(c),
         ~raced', ~bypassed'
  PROVE  Undisturbed'
<1> USE DEF OneLoopInv, SchedulerTypeOK, Step
<1>1. ~raced /\ ~bypassed /\ Orderly /\ Undisturbed
  BY DEF Request, Assign, ScheduleCheck, ScheduleCreate, ScheduleLaunch, StopGrab, StopJoin,
         StopSet, Configure
<1>2. CASE Configure(c)
  <2>1. Live = {} /\ \A d \in Users : request[d] # "launch"
    BY <1>1, <1>2 DEF Configure, IsAlive, Orderly
  <2> QED
    BY <1>2, <2>1 DEF Configure, Undisturbed, Live
<1>3. CASE ScheduleCreate(c)
  BY <1>3 DEF ScheduleCreate, LockFree, Undisturbed
<1>4. CASE ScheduleLaunch(c)
  BY <1>1, <1>4 DEF ScheduleLaunch, Undisturbed
<1>5. CASE Assign(c) \/ ScheduleCheck(c) \/ StopGrab(c) \/ StopJoin(c) \/ StopSet(c)
  <2>1. UNCHANGED loop
    BY <1>5 DEF Assign, ScheduleCheck, StopGrab, StopJoin, StopSet
  <2>2. \A d \in Users : request'[d] \in {"assign", "launch"} => request'[d] = request[d]
    BY <1>5 DEF Assign, ScheduleCheck, StopGrab, StopJoin, StopSet
  <2> QED
    BY <1>1, <2>1, <2>2 DEF Undisturbed, Live
<1> QED
  BY <1>2, <1>3, <1>4, <1>5 DEF Request

\* A loop at work stays the only one or ends.
LEMMA LoopingOneLoop ==
  ASSUME OneLoopInv, NEW g \in Loops, Looping(g)
  PROVE  OneLoopInv'
<1>1. g \in Live /\ Live' \subseteq Live
  BY DEF OneLoopInv, SchedulerTypeOK, Looping, LoopCheck, LoopRun, LoopWait, Live
<1>2. SchedulerTypeOK'
  BY SchedulerAssumption DEF OneLoopInv, SchedulerTypeOK, Looping, LoopCheck, LoopRun, LoopWait
<1>3. UNCHANGED <<current, request, mine, raced>>
  BY DEF Looping, LoopCheck, LoopRun, LoopWait
<1>4. UNCHANGED bypassed
  BY DEF Looping, LoopCheck, LoopRun, LoopWait
<1>5. Orderly => Orderly'
  BY <1>1, <1>3 DEF Orderly, Starting
<1>6. Undisturbed => Undisturbed'
  BY <1>1, <1>3 DEF Undisturbed
<1> QED
  BY <1>2, <1>3, <1>4, <1>5, <1>6 DEF OneLoopInv

\* OneLoopInv is inductive, whatever requests interleave.
THEOREM OneLoopInvariant == SchedulerSpec => []OneLoopInv
<1>1. OneLoopInv /\ [SchedulerNext]_schedulerVars => OneLoopInv'
  <2> SUFFICES ASSUME OneLoopInv, [SchedulerNext]_schedulerVars PROVE OneLoopInv'
    OBVIOUS
  <2>1. CASE UNCHANGED schedulerVars
    BY <2>1 DEF OneLoopInv, Orderly, Undisturbed, SchedulerTypeOK, Live, Starting, schedulerVars
  <2>2. CASE \E c \in Users : Request(c) \/ StopSet(c) \/ Configure(c)
    BY <2>2, RequestOneLoop, RequestUndisturbed DEF OneLoopInv
  <2>3. CASE \E g \in Loops : Looping(g)
    BY <2>3, LoopingOneLoop
  <2> QED
    BY <2>1, <2>2, <2>3 DEF SchedulerNext
<1> QED
  BY <1>1, OneLoopInit, PTL DEF SchedulerSpec

\* Whatever sequence of starts, stops, join timeouts and failed runs: at most
\* one loop reconciles and it is the current one, unless two starts crossed.
THEOREM OneLoopAtATime == SchedulerSpec => []OneLoop
<1>1. OneLoopInv => OneLoop
  BY DEF OneLoopInv, Orderly, OneLoop
<1> QED
  BY <1>1, OneLoopInvariant, PTL

\* The account a loop reconciles is never exchanged under it, unless two
\* starts crossed or a configure met a loop that was about to be launched.
THEOREM AccountStands == SchedulerSpec => AccountStandsWhileLooping
<1>1. OneLoopInv /\ [SchedulerNext]_schedulerVars
        => [account' # account => Live = {} \/ raced \/ bypassed]_schedulerVars
  <2> SUFFICES ASSUME OneLoopInv, SchedulerNext, account' # account, ~raced, ~bypassed
               PROVE  Live = {}
    BY DEF schedulerVars
  <2>1. PICK d \in Users : Assign(d)
    BY DEF SchedulerNext, Request, Configure, ScheduleCheck, ScheduleCreate, ScheduleLaunch,
           StopSet, StopGrab, StopJoin, Looping, LoopCheck, LoopRun, LoopWait
  <2> QED
    BY <2>1 DEF Assign, OneLoopInv, Undisturbed
<1> QED
  BY <1>1, OneLoopInvariant, PTL DEF SchedulerSpec, AccountStandsWhileLooping

-----------------------------------------------------------------------------
(* The private stream.                                                     *)

\* While no two starts have crossed, one caller at most is in start, no thread
\* is alive meanwhile, and what it has made is what the manager holds.
AloneInStart ==
  ~collided =>
    /\ \A t, u \in Callers : caller[t] # "idle" /\ caller[u] # "idle" => t = u
    /\ \A t \in Callers : caller[t] # "idle" => Alive = {}
    /\ \A t \in Callers : caller[t] = "thread" => own[t] = managed
    /\ \A t \in Callers : caller[t] \in {"choose", "launch"} => spawned = managed
    /\ \A t \in Callers : caller[t] = "launch" => chosen[t] = spawned
    /\ \A c \in Alive : c = spawned /\ c = managed

StreamInv == StreamTypeOK /\ AloneInStart /\ EndsForAReason

-----------------------------------------------------------------------------
\* The steps of start keep the types.
LEMMA StartTypes ==
  ASSUME StreamTypeOK, NEW t \in Callers, StartCheck(t) \/ StartStream(t)
  PROVE  StreamTypeOK'
<1>1. UNCHANGED client /\ collided' \in BOOLEAN /\ UNCHANGED unwritten
  BY DEF StreamTypeOK, streamNotes, StartCheck, StartStream, StartFail, StartMake, StartThread, StartChoose,
         StartLaunch
<1>2. \E place \in {"idle", "make", "thread", "choose", "launch"} :
        caller' = [caller EXCEPT ![t] = place]
  BY DEF CallerGoes, StartCheck, StartStream, StartFail, StartMake, StartThread, StartChoose,
         StartLaunch
<1>3. caller' \in [Callers -> {"idle", "make", "thread", "choose", "launch"}]
  BY <1>2 DEF StreamTypeOK
<1>4. Clients \subseteq 0..MaxClients /\ 0 \in 0..MaxClients
  BY StreamAssumption DEF Clients
<1>5. managed' \in 0..MaxClients /\ own' \in [Callers -> 0..MaxClients]
  BY <1>4 DEF StreamTypeOK, StartCheck, StartStream, StartFail, StartMake, StartThread,
           StartChoose, StartLaunch,
              manager
<1>6. spawned' \in 0..MaxClients /\ chosen' \in [Callers -> 0..MaxClients]
  BY <1>4 DEF StreamTypeOK, StartCheck, StartStream, StartFail, StartMake, StartThread,
           StartChoose, StartLaunch,
              manager
<1>7. thread' \in [Clients -> {"none", "made", "alive", "dead"}]
  BY DEF StreamTypeOK, StartCheck, StartStream, StartFail, StartMake, StartThread, StartChoose,
         StartLaunch
<1> QED
  BY <1>1, <1>3, <1>5, <1>6, <1>7 DEF StreamTypeOK, client

\* Starts do not touch the clients' loops.
LEMMA StartKeeps ==
  ASSUME StreamInv, NEW t \in Callers, StartCheck(t) \/ StartStream(t)
  PROVE  StreamInv'
<1>1. StreamTypeOK'
  BY StartTypes DEF StreamInv
<1>2. UNCHANGED <<client, unwritten>>
  BY DEF streamNotes, StartCheck, StartStream, StartFail, StartMake, StartThread, StartChoose, StartLaunch
<1>3. EndsForAReason'
  BY <1>2 DEF StreamInv, EndsForAReason, client
<1>4. AloneInStart'
  <2> SUFFICES ASSUME ~collided' PROVE AloneInStart'
    BY DEF AloneInStart
  <2>1. CASE StartCheck(t)
    <3>1. ~collided /\ \A u \in Callers \ {t} : caller[u] = "idle"
      BY <2>1 DEF StartCheck
    <3>2. Alive = {} /\ Alive' = {}
      <4>1. \A c \in Alive : c = spawned /\ c # 0 /\ thread[c] = "alive"
        BY <3>1, StreamAssumption DEF StreamInv, AloneInStart, Alive, Clients
      <4> QED
        BY <2>1, <4>1 DEF StartCheck, Occupied, Alive
    <3>3. caller' = [caller EXCEPT ![t] = "make"]
      BY <2>1 DEF StartCheck, CallerGoes
    <3>4. caller' \in [Callers -> {"idle", "make"}]
          /\ \A u \in Callers : caller'[u] # "idle" => u = t
      BY <3>1, <3>3 DEF StreamInv, StreamTypeOK
    <3> QED
      BY <3>2, <3>4 DEF AloneInStart
  <2>2. CASE StartFail(t)
    BY <2>2 DEF StreamInv, StreamTypeOK, AloneInStart, Alive, StartFail, CallerGoes, streamNotes, manager
  <2>3. CASE StartMake(t)
    BY <2>3 DEF StreamInv, StreamTypeOK, AloneInStart, Alive, StartMake, CallerGoes, streamNotes
  <2>4. CASE StartThread(t)
    BY <2>4 DEF StreamInv, StreamTypeOK, AloneInStart, Alive, StartThread, CallerGoes, streamNotes
  <2>5. CASE StartChoose(t)
    BY <2>5 DEF StreamInv, StreamTypeOK, AloneInStart, Alive, StartChoose, CallerGoes, streamNotes, manager
  <2>6. CASE StartLaunch(t)
    BY <2>6 DEF StreamInv, StreamTypeOK, AloneInStart, Alive, StartLaunch, CallerGoes, streamNotes, manager
  <2> QED
    BY <2>1, <2>2, <2>3, <2>4, <2>5, <2>6 DEF StartStream
<1> QED
  BY <1>1, <1>3, <1>4 DEF StreamInv

\* A request to stop sets a flag.
LEMMA StopKeeps == ASSUME StreamInv, Stop PROVE StreamInv'
  BY DEF StreamInv, StreamTypeOK, AloneInStart, Alive, EndsForAReason, Stop, manager,
         starts, streamNotes

\* No thread comes alive in a step of a loop.
LEMMA LoopAlone ==
  ASSUME StreamInv, UNCHANGED <<manager, starts, collided>>, Alive' \subseteq Alive
  PROVE  AloneInStart'
  BY DEF StreamInv, AloneInStart, manager, starts

\* What a step of a client's loop does to the client: it goes on to a place of
\* arun, or ends, and if it ends it has a reason.
LoopEnds(c) ==
  /\ arun' = [arun EXCEPT ![c] = "ended"]
  /\ thread' = [thread EXCEPT ![c] = "dead"]
  /\ unwritten' \in {unwritten, unwritten \cup {c}}
  /\ stopEvent'[c] \/ attempt'[c] = MaxReconnect + 1 \/ c \in unwritten'

LoopGoes(c) ==
  /\ \E place \in {"check", "connecting", "connected", "lost", "compensate", "settled",
                   "backoff"} : arun' = [arun EXCEPT ![c] = place]
  /\ UNCHANGED <<thread, unwritten>>

LEMMA LoopEffect ==
  ASSUME StreamTypeOK, NEW c \in Clients, Loop(c) \/ Drop(c)
  PROVE  /\ UNCHANGED <<manager, starts, collided>>
         /\ \/ LoopEnds(c) \/ LoopGoes(c)
         /\ attempt' \in {attempt, [attempt EXCEPT ![c] = @ + 1]}
         /\ attempt' # attempt => attempt[c] <= MaxReconnect /\ arun[c] = "check"
         /\ stopEvent' \in {stopEvent, [stopEvent EXCEPT ![c] = FALSE]}
         /\ arun[c] # "ended" /\ (stopEvent' # stopEvent => arun[c] = "new")
<1> USE DEF StreamTypeOK, At, Go, Move, Finish, EvidenceFails, streamNotes, LoopEnds, LoopGoes
<1>1. CASE Begin(c)
  BY <1>1 DEF Begin
<1>2. CASE Try(c)
  BY <1>2 DEF Try, MayTry
<1>3. CASE GiveUp(c)
  BY <1>3, StreamAssumption DEF GiveUp, MayTry
<1>4. CASE Connect(c)
  BY <1>4 DEF Connect
<1>5. CASE ConnectFails(c) \/ WatchStop(c) \/ Drop(c)
  BY <1>5 DEF ConnectFails, WatchStop, Drop, Lose
<1>6. CASE AfterSession(c)
  BY <1>6 DEF AfterSession
<1>7. CASE Compensate(c)
  BY <1>7 DEF Compensate
<1>8. CASE AfterCompensation(c)
  BY <1>8 DEF AfterCompensation
<1>9. CASE Backoff(c)
  BY <1>9 DEF Backoff
<1> QED
  BY <1>1, <1>2, <1>3, <1>4, <1>5, <1>6, <1>7, <1>8, <1>9 DEF Loop

\* The steps of a client's loop keep the invariant.
LEMMA LoopKeeps == ASSUME StreamInv, NEW c \in Clients, Loop(c) \/ Drop(c) PROVE StreamInv'
<1>1. /\ UNCHANGED <<manager, starts, collided>>
      /\ LoopEnds(c) \/ LoopGoes(c)
      /\ attempt' \in {attempt, [attempt EXCEPT ![c] = @ + 1]}
      /\ attempt' # attempt => attempt[c] <= MaxReconnect /\ arun[c] = "check"
      /\ stopEvent' \in {stopEvent, [stopEvent EXCEPT ![c] = FALSE]}
      /\ arun[c] # "ended" /\ (stopEvent' # stopEvent => arun[c] = "new")
  BY LoopEffect DEF StreamInv
<1>2. Alive' \subseteq Alive
  BY <1>1 DEF LoopEnds, LoopGoes, Alive, StreamInv, StreamTypeOK
<1>3. AloneInStart'
  BY <1>1, <1>2, LoopAlone
<1>4. StreamTypeOK'
  <2>1. attempt' \in [Clients -> 0..(MaxReconnect + 1)]
    <3>1. CASE attempt' = attempt
      BY <3>1 DEF StreamInv, StreamTypeOK
    <3>2. CASE attempt' # attempt
      <4>1. attempt[c] + 1 \in 0..(MaxReconnect + 1) /\ attempt' = [attempt EXCEPT ![c] = @ + 1]
        BY <1>1, <3>2, StreamAssumption DEF StreamInv, StreamTypeOK
      <4> QED
        BY <4>1 DEF StreamInv, StreamTypeOK
    <3> QED
      BY <3>1, <3>2
  <2>2. stopEvent' \in [Clients -> BOOLEAN]
    BY <1>1 DEF StreamInv, StreamTypeOK
  <2>3. /\ thread' \in [Clients -> {"none", "made", "alive", "dead"}]
        /\ arun' \in [Clients -> {"new", "check", "connecting", "connected", "lost",
                                  "compensate", "settled", "backoff", "ended"}]
        /\ unwritten' \subseteq Clients
    BY <1>1 DEF StreamInv, StreamTypeOK, LoopEnds, LoopGoes
  <2> QED
    BY <1>1, <2>1, <2>2, <2>3 DEF StreamInv, StreamTypeOK, manager, starts
<1>5. EndsForAReason'
  <2> SUFFICES ASSUME NEW d \in Clients, arun'[d] = "ended"
               PROVE  stopEvent'[d] \/ attempt'[d] = MaxReconnect + 1 \/ d \in unwritten'
    BY DEF EndsForAReason
  <2>1. CASE d = c
    BY <1>1, <2>1 DEF StreamInv, StreamTypeOK, LoopEnds, LoopGoes
  <2>2. CASE d # c
    <3>1. arun[d] = "ended" /\ stopEvent'[d] = stopEvent[d] /\ attempt'[d] = attempt[d]
          /\ unwritten \subseteq unwritten'
      BY <1>1, <2>2 DEF StreamInv, StreamTypeOK, LoopEnds, LoopGoes
    <3> QED
      BY <3>1 DEF StreamInv, EndsForAReason
  <2> QED
    BY <2>1, <2>2
<1> QED
  BY <1>3, <1>4, <1>5 DEF StreamInv

\* The invariant is inductive.
THEOREM StreamInductive == StreamSpec => []StreamInv
<1>1. StreamInit => StreamInv
  <2> SUFFICES ASSUME StreamInit PROVE StreamInv
    OBVIOUS
  <2>1. 0 \in 0..MaxClients /\ 0 \in 0..(MaxReconnect + 1)
    BY StreamAssumption
  <2>2. StreamTypeOK
    BY <2>1 DEF StreamInit, StreamTypeOK
  <2>3. AloneInStart
    BY DEF StreamInit, AloneInStart, Alive
  <2>4. EndsForAReason
    BY DEF StreamInit, EndsForAReason
  <2> QED
    BY <2>2, <2>3, <2>4 DEF StreamInv
<1>2. StreamInv /\ [StreamNext]_streamVars => StreamInv'
  <2> SUFFICES ASSUME StreamInv, [StreamNext]_streamVars PROVE StreamInv'
    OBVIOUS
  <2>1. CASE StreamNext
    BY <2>1, StartKeeps, StopKeeps, LoopKeeps DEF StreamNext
  <2>2. CASE UNCHANGED streamVars
    BY <2>2 DEF StreamInv, StreamTypeOK, AloneInStart, Alive, EndsForAReason,
           streamVars, manager, starts, client, streamNotes
  <2> QED
    BY <2>1, <2>2
<1> QED
  BY <1>1, <1>2, PTL DEF StreamSpec

\* Every variable keeps its type.
THEOREM StreamTypes == StreamSpec => []StreamTypeOK
  BY StreamInductive, PTL DEF StreamInv

\* Unless two starts crossed, one stream at most is alive, and stop speaks to it.
THEOREM OneStreamAtATime == StreamSpec => []OneStream
<1>1. StreamInv => OneStream
  BY DEF StreamInv, AloneInStart, OneStream
<1> QED
  BY <1>1, StreamInductive, PTL

\* A stream ends because it was asked to, because its tries are used up, or
\* because its evidence could not be written.
THEOREM StreamEndsForAReason == StreamSpec => []EndsForAReason
  BY StreamInductive, PTL DEF StreamInv
=============================================================================
