------------------------------- MODULE Alerts --------------------------------
(***************************************************************************)
(* The alert centre (domains/alerts/service.py): one rule of the type       *)
(* signal_created and those who check it: the monitor thread, requests     *)
(* that check one rule or all of them, and the automation worker.          *)
(*                                                                         *)
(* A check reads the rule, evaluates it, saves its time as last_checked_at *)
(* and only then notifies and stores the event, each under the lock of the *)
(* store for itself: other checks, publications and edits come in between. *)
(***************************************************************************)
EXTENDS Integers, FiniteSets, FiniteSetsExt

CONSTANTS
  Monitors,    \* checkers that keep to frequency_minutes: the monitor thread
  Requests,    \* checkers that do not (force)
  Frequency,   \* frequency_minutes
  Quiet,       \* the times of the quiet period
  EndOfTime    \* bound: the clock

Checkers == Monitors \cup Requests
Times    == 0..EndOfTime

ASSUME AlertsAssumption ==
  /\ EndOfTime \in Nat \ {0} /\ Frequency \in Nat /\ Quiet \subseteq Times
  /\ Monitors \cap Requests = {}

VARIABLES
  clock,
  signals,   \* the signals of the rule's symbol, by ts_epoch
  rule,      \* alert_rules: whether it is there, enabled, last_checked_at (0: never)
  events,    \* alert_events, by the signal
  pc,        \* what each checker does next
  copy,      \* the rule as it read it
  now,       \* the time it took for the check
  found,     \* the signal it found, 0 if none
  \* History: the signals notified, and those notified again; the checks that
  \* another one overlapped before they had saved, and the signals found by one
  \* or by a check that had taken its time before; and the signals that came
  \* too late, gave way to a later one, fell into the quiet period, or whose
  \* check was cut off.
  sent, again, crossed, excused, lost

table  == <<signals, rule, events>>
locals == <<copy, now, found>>
notes  == <<sent, again, crossed, excused, lost>>
vars   == <<clock, table, pc, locals, notes>>

Init ==
  /\ clock   = 1
  /\ signals = {}
  /\ rule    = [there |-> TRUE, enabled |-> TRUE, checked |-> 0]
  /\ events  = {}
  /\ pc      = [t \in Checkers |-> "idle"]
  /\ copy    = [t \in Checkers |-> rule]
  /\ now     = [t \in Checkers |-> 0]
  /\ found   = [t \in Checkers |-> 0]
  /\ sent    = {}
  /\ again   = {}
  /\ crossed = [t \in Checkers |-> FALSE]
  /\ excused = {}
  /\ lost    = {}

Goto(t, label) == pc' = [pc EXCEPT ![t] = label]

\* It has read the rule and not saved its check.
Deciding(t) == pc[t] \in {"start", "look", "save"}

\* The check is over; its variables go with it.
Leave(t) ==
  /\ Goto(t, "idle")
  /\ copy'    = [copy EXCEPT ![t] = [there |-> TRUE, enabled |-> TRUE, checked |-> 0]]
  /\ now'     = [now EXCEPT ![t] = 0]
  /\ found'   = [found EXCEPT ![t] = 0]
  /\ crossed' = [crossed EXCEPT ![t] = FALSE]

-----------------------------------------------------------------------------
Tick ==
  /\ clock < EndOfTime
  /\ clock' = clock + 1
  /\ UNCHANGED <<table, pc, locals, notes>>

\* add_signal: ts is the publisher's, and older than the insertion.  Late is
\* one that a check has passed already, also if an overlapping one has set
\* last_checked_at back since.
Publish(n) ==
  /\ n \in 1..clock \ signals
  /\ signals' = signals \cup {n}
  /\ lost' = IF \/ n <= rule.checked
                \/ \E t \in Checkers : \/ n <= copy[t].checked
                                      \/ (pc[t] = "save" /\ n <= now[t])
             THEN lost \cup {n} ELSE lost
  /\ UNCHANGED <<clock, rule, events, pc, locals, sent, again, crossed, excused>>

\* update_rule writes the columns it was given, and no others.
Enable(b) ==
  /\ rule.there /\ rule.enabled # b
  /\ rule' = [there |-> TRUE, enabled |-> b, checked |-> rule.checked]
  /\ UNCHANGED <<clock, signals, events, pc, locals, notes>>

\* delete_rule; its events go with it (ON DELETE CASCADE).
Delete ==
  /\ rule.there
  /\ rule'   = [there |-> FALSE, enabled |-> rule.enabled, checked |-> rule.checked]
  /\ events' = {}
  /\ UNCHANGED <<clock, signals, pc, locals, notes>>

-----------------------------------------------------------------------------
\* get_rule, or the SELECT of the enabled rules in check_all_rules, which may
\* check others of them first.
Read(t) ==
  /\ pc[t] = "idle"
  /\ rule.there
  /\ t \in Monitors => rule.enabled
  /\ copy' = [copy EXCEPT ![t] = rule]
  /\ crossed' = [u \in Checkers |->
       IF u = t THEN \E v \in Checkers : Deciding(v) ELSE crossed[u] \/ Deciding(u)]
  /\ Goto(t, "start")
  /\ UNCHANGED <<clock, table, now, found, sent, again, excused, lost>>

\* enabled, and not checked before or, unless forced, long enough ago.
Due(t) ==
  /\ copy[t].enabled
  /\ (t \in Monitors /\ copy[t].checked # 0) => clock - copy[t].checked >= Frequency

\* check_rule takes the time first.
Start(t) ==
  /\ pc[t] = "start"
  /\ IF Due(t)
     THEN /\ now' = [now EXCEPT ![t] = clock]
          /\ Goto(t, "look")
          /\ UNCHANGED <<copy, found, crossed>>
     ELSE Leave(t)
  /\ UNCHANGED <<clock, table, sent, again, excused, lost>>

\* _latest_signal: of those after the last check, the latest only.
Look(t) ==
  LET new == {n \in signals : n > copy[t].checked}
      n   == IF new = {} THEN 0 ELSE Max(new)
  IN
  /\ pc[t] = "look"
  /\ found' = [found EXCEPT ![t] = n]
  /\ lost' = lost \cup (new \ {n})
  /\ Goto(t, "save")
  /\ UNCHANGED <<clock, table, copy, now, sent, again, crossed, excused>>

\* Mutant: the time of the next check is stored.
CheckedAhead(t) == now[t] + Frequency

\* Mutant: the check leaves the rule as it read it.
CheckedBefore(t) == copy[t].checked

\* Mutant: the time of the save is stored, not that of the evaluation.
CheckedAtSave(t) == clock

CheckedAt(t) == now[t]

\* _save_check, before the event; an UPDATE that finds no rule changes none.
\* A trigger in the quiet period is not kept for later.
Save(t) ==
  LET hushed == now[t] \in Quiet IN
  /\ pc[t] = "save"
  /\ rule' = IF rule.there
             THEN [there |-> TRUE, enabled |-> rule.enabled, checked |-> CheckedAt(t)] ELSE rule
  /\ lost' = IF hushed THEN (lost \cup {found[t]}) \ {0} ELSE lost
  /\ excused' = IF crossed[t] \/ found[t] > now[t] THEN (excused \cup {found[t]}) \ {0} ELSE excused
  /\ IF found[t] # 0 /\ ~hushed
     THEN Goto(t, "send") /\ UNCHANGED <<locals, crossed>>
     ELSE Leave(t)
  /\ UNCHANGED <<clock, signals, events, sent, again>>

\* _create_event: the notifier first ...
Send(t) ==
  /\ pc[t] = "send"
  /\ sent'  = sent \cup {found[t]}
  /\ again' = again \cup (sent \cap {found[t]})
  /\ Goto(t, "insert")
  /\ UNCHANGED <<clock, table, locals, crossed, excused, lost>>

\* ... then the row, refused if the rule is gone.
Insert(t) ==
  /\ pc[t] = "insert"
  /\ events' = IF rule.there THEN events \cup {found[t]} ELSE events
  /\ Leave(t)
  /\ UNCHANGED <<clock, signals, rule, sent, again, excused, lost>>

\* The notifier or the store raises, or the process stops, within the check.
CutOff(t) ==
  /\ pc[t] # "idle"
  /\ lost' = IF pc[t] \in {"send", "insert"} THEN lost \cup {found[t]} ELSE lost
  /\ Leave(t)
  /\ UNCHANGED <<clock, table, sent, again, excused>>

-----------------------------------------------------------------------------
Check(t) ==
  Read(t) \/ Start(t) \/ Look(t) \/ Save(t) \/ Send(t) \/ Insert(t) \/ CutOff(t)

Next ==
  \/ Tick \/ Delete
  \/ \E n \in Times : Publish(n)
  \/ \E b \in BOOLEAN : Enable(b)
  \/ \E t \in Checkers : Check(t)

Spec == Init /\ [][Next]_vars

-----------------------------------------------------------------------------
(* Properties.                                                             *)

\* Every variable has its type.
TypeOK ==
  /\ clock \in Times
  /\ signals \subseteq 1..clock
  /\ rule \in [there : BOOLEAN, enabled : BOOLEAN, checked : 0..clock]
  /\ events \subseteq signals
  /\ pc \in [Checkers -> {"idle", "start", "look", "save", "send", "insert"}]
  /\ copy \in [Checkers -> [there : BOOLEAN, enabled : BOOLEAN, checked : 0..clock]]
  /\ now \in [Checkers -> 0..clock]
  /\ found \in [Checkers -> signals \cup {0}]
  /\ crossed \in [Checkers -> BOOLEAN]
  /\ sent \cup again \cup excused \cup lost \subseteq Times

\* Whoever checks, and whenever the check is cut off: a signal is notified
\* once, except if two checks overlapped before the one that found it had saved
\* its time, or it was published after that check had taken its time.
NotifiedOnce == again \subseteq excused

\* A signal that the time of the last check has passed has its event, or is
\* about to have it.  It is lost only if it came with a time already passed, if a
\* later one was there as well, in the quiet period, or if its check was cut
\* off after it had saved its time.
NothingElseLost ==
  \A n \in signals :
    (rule.there /\ n <= rule.checked) =>
      \/ n \in events
      \/ \E t \in Checkers : pc[t] \in {"send", "insert"} /\ found[t] = n
      \/ n \in lost
=============================================================================
