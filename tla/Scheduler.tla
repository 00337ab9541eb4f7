----------------------------- MODULE Scheduler ------------------------------
(***************************************************************************)
(* Scheduled reports: the loop of run_traffic_scheduler.py, the settings   *)
(* form of the dashboard, and the one ReportSettings row both of them read *)
(* and write.  A pass reads the row, spends up to minutes with an SMTP     *)
(* server, and only then records the period as sent; a request reads the   *)
(* whole row and writes the whole row.                                     *)
(*                                                                         *)
(* The clock counts days.  A schedule is its frequency: sending time,      *)
(* weekday and time zone move the boundaries of a period in the same way.  *)
(***************************************************************************)
EXTENDS Naturals

CONSTANTS
    Frequencies,   \* the frequencies an administrator chooses from
    Contacts,      \* SMTP servers and recipients to choose from
    Requests,      \* web requests that may be running at once
    Week,          \* days in a weekly period
    MaxDay,        \* bound: the last day
    MaxEdits,      \* bound: how often the form is saved
    MaxFaults      \* bound: failing sends, failing saves and kills

ASSUME SchedulerAssumption ==
    /\ Frequencies \subseteq {"daily", "weekly"}
    /\ Contacts # {}
    /\ Week \in Nat \ {0}
    /\ {MaxDay, MaxEdits, MaxFaults} \subseteq Nat

\* A period is named by its frequency and its end, as `last_sent_period' is.
Keys == Frequencies \X (0..MaxDay)
NoKey == <<"none", 0>>

VARIABLES
    day,           \* the current day
    row,           \* the ReportSettings row
    pc, now, copy, \* the scheduler: where it is, its `now' and `settings'
    request,       \* what each request has read
    delivered,     \* reports the SMTP server has accepted, by period
    admin,         \* history: what the form saved last
    overlaps,      \* history: saves of the form that undid another write
    changes,       \* history: saves that changed the frequency
    broken,        \* history: accepted reports whose pass did not end well
    edits, faults

passVars == <<pc, now, copy>>
historyVars == <<admin, overlaps, changes, broken>>
vars == <<day, row, passVars, request, delivered, historyVars, edits, faults>>

\* A period that is not complete yet.
Due_Running(f, t) == <<f, IF f = "weekly" THEN t - (t % Week) ELSE t + 1>>

\* scheduled_period: the last complete period, named by its end.
Due(f, t) == <<f, IF f = "weekly" THEN t - (t % Week) ELSE t>>

Key == Due(copy.frequency, now)

Fault == faults < MaxFaults /\ faults' = faults + 1

Init ==
    \E c \in Contacts :
        /\ day = 0
        /\ row = [frequency |-> "off", contact |-> c, last |-> NoKey, error |-> FALSE]
        /\ pc = "sleep" /\ now = 0 /\ copy = row
        /\ request = [r \in Requests |-> [open |-> FALSE, read |-> row]]
        /\ delivered = [k \in Keys |-> 0]
        /\ admin = [frequency |-> "off", contact |-> c]
        /\ overlaps = 0 /\ changes = 0 /\ broken = 0
        /\ edits = 0 /\ faults = 0

-----------------------------------------------------------------------------
\* run_once.

\* The clock is read, then old rows are deleted and the journal is ingested.
Begin ==
    /\ pc = "sleep"
    /\ now' = day
    /\ pc' = "pruned"
    /\ UNCHANGED <<day, row, copy, request, delivered, historyVars, edits, faults>>

\* Settings that are read once and not again in each pass.
Read_Cached ==
    /\ pc = "pruned"
    /\ copy' = row
    /\ pc' = IF row.frequency = "off" \/ Due(row.frequency, now) = copy.last
             THEN "sleep" ELSE "sending"
    /\ UNCHANGED <<day, row, now, request, delivered, historyVars, edits, faults>>

\* A period that failed is given up.
Read_NoRetry ==
    /\ pc = "pruned"
    /\ copy' = row
    /\ pc' = IF \/ row.frequency = "off" \/ row.error
                \/ Due(row.frequency, now) = row.last
             THEN "sleep" ELSE "sending"
    /\ UNCHANGED <<day, row, now, request, delivered, historyVars, edits, faults>>

\* The settings are read; the pass ends here unless a period is due.
Read ==
    /\ pc = "pruned"
    /\ copy' = row
    /\ pc' = IF row.frequency = "off" \/ Due(row.frequency, now) = row.last
             THEN "sleep" ELSE "sending"
    /\ UNCHANGED <<day, row, now, request, delivered, historyVars, edits, faults>>

\* The server accepts the message ...
Deliver ==
    /\ pc = "sending"
    /\ delivered' = [delivered EXCEPT ![Key] = @ + 1]
    /\ pc' = "accepted"
    /\ UNCHANGED <<day, row, now, copy, request, historyVars, edits, faults>>

\* ... or the connection fails first; or its answer is lost, or the session
\* does not end with it, and `send' raises all the same.
SendFails ==
    /\ pc \in {"sending", "accepted"}
    /\ Fault
    /\ pc' = "failed"
    /\ broken' = IF pc = "accepted" THEN broken + 1 ELSE broken
    /\ UNCHANGED <<day, row, now, copy, request, delivered, admin, overlaps,
                   changes, edits>>

\* The whole settings are saved, as `settings.save()' would.
SaveSent_AllFields ==
    /\ pc = "accepted"
    /\ row' = [copy EXCEPT !.last = Key, !.error = FALSE]
    /\ pc' = "sleep"
    /\ UNCHANGED <<day, now, copy, request, delivered, historyVars, edits, faults>>

SaveSent ==
    /\ pc = "accepted"
    /\ row' = [row EXCEPT !.last = Key, !.error = FALSE]
    /\ pc' = "sleep"
    /\ UNCHANGED <<day, now, copy, request, delivered, historyVars, edits, faults>>

\* The failing period is marked as if it had been sent.
SaveError_AsSent ==
    /\ pc = "failed"
    /\ row' = [row EXCEPT !.last = Key, !.error = TRUE]
    /\ pc' = "sleep"
    /\ UNCHANGED <<day, now, copy, request, delivered, historyVars, edits, faults>>

SaveError ==
    /\ pc = "failed"
    /\ row' = [row EXCEPT !.error = TRUE]
    /\ pc' = "sleep"
    /\ UNCHANGED <<day, now, copy, request, delivered, historyVars, edits, faults>>

\* The process is killed, or an error of the database ends it: the service
\* manager starts another.
Interrupt ==
    /\ pc # "down"
    /\ Fault
    /\ pc' = "down"
    /\ broken' = IF pc = "accepted" THEN broken + 1 ELSE broken
    /\ UNCHANGED <<day, row, now, copy, request, delivered, admin, overlaps,
                   changes, edits>>

Restart ==
    /\ pc = "down"
    /\ pc' = "sleep"
    /\ UNCHANGED <<day, row, now, copy, request, delivered, historyVars, edits,
                   faults>>

-----------------------------------------------------------------------------
\* The settings view.

\* get_or_create, and the form made from what it read.
Open(r) ==
    /\ ~request[r].open /\ edits < MaxEdits
    /\ request' = [request EXCEPT ![r] = [open |-> TRUE, read |-> row]]
    /\ UNCHANGED <<day, row, passVars, delivered, historyVars, edits, faults>>

\* A request that does not save: a page view, or a form that is not valid.
Leave(r) ==
    /\ request[r].open
    /\ request' = [request EXCEPT ![r].open = FALSE]
    /\ UNCHANGED <<day, row, passVars, delivered, historyVars, edits, faults>>

\* form.save writes every field: those of the form, and the ones it has read.
Save(r, f, c) ==
    /\ request[r].open /\ edits < MaxEdits
    /\ row' = [request[r].read EXCEPT !.frequency = f, !.contact = c]
    /\ request' = [request EXCEPT ![r].open = FALSE]
    /\ admin' = [frequency |-> f, contact |-> c]
    /\ overlaps' = IF request[r].read.last # row.last THEN overlaps + 1 ELSE overlaps
    /\ changes' = IF f # row.frequency THEN changes + 1 ELSE changes
    /\ edits' = edits + 1
    /\ UNCHANGED <<day, passVars, delivered, broken, faults>>

Tomorrow ==
    /\ day < MaxDay
    /\ day' = day + 1
    /\ UNCHANGED <<row, passVars, request, delivered, historyVars, edits, faults>>

Pass == Begin \/ Read \/ Deliver \/ SaveSent \/ SaveError

Next ==
    \/ Pass \/ SendFails \/ Interrupt \/ Restart
    \/ \E r \in Requests :
          \/ Open(r) \/ Leave(r)
          \/ \E f \in Frequencies \cup {"off"}, c \in Contacts : Save(r, f, c)
    \/ Tomorrow

Spec == Init /\ [][Next]_vars

\* The loop goes on after its sleep, an SMTP session ends, and the service
\* manager restarts a scheduler that failed.  Nobody has to use the form.
FairSpec == Spec /\ WF_vars(Pass) /\ WF_vars(Restart)

-----------------------------------------------------------------------------
\* Properties.

Settings == [frequency : Frequencies \cup {"off"}, contact : Contacts,
             last : Keys \cup {NoKey}, error : BOOLEAN]

TypeOK ==
    /\ day \in 0..MaxDay /\ now \in 0..day
    /\ row \in Settings /\ copy \in Settings
    /\ pc \in {"sleep", "pruned", "sending", "accepted", "failed", "down"}
    /\ request \in [Requests -> [open : BOOLEAN, read : Settings]]
    /\ delivered \in [Keys -> Nat]
    /\ admin \in [frequency : Frequencies \cup {"off"}, contact : Contacts]
    /\ {overlaps, changes, broken} \subseteq Nat
    /\ edits \in 0..MaxEdits /\ faults \in 0..MaxFaults

\* What an administrator saved stays until the form is saved again: a pass that
\* read the settings before and ends after does not bring old ones back.
AdminWins == row.frequency = admin.frequency /\ row.contact = admin.contact

\* A period is recorded as sent only after an SMTP server accepted its report:
\* failures, kills and overlapping saves repeat a report, they never skip one.
SentIsDelivered == row.last # NoKey => delivered[row.last] > 0

\* A report is repeated only for a reason: an accepted report whose session or
\* process ended badly, a save of the form across the end of a pass, or a
\* change of the schedule.
RepeatsExplained ==
    \A k \in Keys : delivered[k] <= 1 + broken + overlaps + changes

\* "Scheduled reports are retried after a failure": when failures, edits and the
\* calendar come to rest, the period that is due has been sent and recorded.
Settles ==
    <>[](row.frequency # "off" =>
            /\ row.last = Due(row.frequency, day)
            /\ delivered[row.last] > 0)

\* run_once: "send a due report at most once per period".
AtMostOnce == \A k \in Keys : delivered[k] <= 1

\* The same, if no save of the form ever overlaps a pass.
AtMostOnceWithoutOverlap == overlaps = 0 => AtMostOnce
=============================================================================
