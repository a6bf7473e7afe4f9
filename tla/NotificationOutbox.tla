------------------------- MODULE NotificationOutbox -------------------------
(***************************************************************************)
(* The e-mail outbox of renewal alerts (renewal-notification.service,      *)
(* process).  Each minute a tick queues a delivery for every recipient of  *)
(* every OPEN alert, reads the ones that are due, and for each sends the   *)
(* mail and then writes what came of it.  Every statement stands alone.  A *)
(* tick that takes longer than a minute overlaps the next; the process may *)
(* be restarted between any two statements; a statement outside a          *)
(* delivery's own try may fail and end the tick; an SMTP server may take a *)
(* mail and fail to say so.                                                *)
(***************************************************************************)
EXTENDS Naturals

CONSTANTS
  Alerts,      \* renewal_alerts rows
  Recipients,  \* the addresses of the policy and its owner
  Ticks,       \* ticks that may run at once
  MaxAttempts, \* 5
  MaxFaults    \* restarts, failed statements and lost answers in view: a bound

ASSUME OutboxAssumption == MaxAttempts \in Nat \ {0} /\ MaxFaults \in Nat

VARIABLES
  enabled,    \* renewal_notification_configurations.enabled
  smtp,       \* whether the server takes mail
  alert,      \* status of each alert
  row,        \* renewal_notification_deliveries
  tries,      \* sendMail calls, by delivery
  mails,      \* mails that reached the recipient
  job,        \* what each tick has read
  faults,     \* restarts, lost answers and failed writes so far
  overlapped  \* whether two ticks ever ran at once

vars == <<enabled, smtp, alert, row, tries, mails, job, faults, overlapped>>
-----------------------------------------------------------------------------
Deliveries == Alerts \X Recipients

None == [status |-> "NONE", attempts |-> 0, due |-> FALSE]
Rows == [status : {"NONE", "PENDING", "FAILED", "SENT"}, attempts : Nat, due : BOOLEAN]

Idle == [op |-> "idle"]
Jobs == {Idle}
  \cup [op : {"queue"}, todo : SUBSET Deliveries]
  \cup [op : {"send"}, todo : SUBSET (Deliveries \X Nat)]
  \cup [op : {"mark", "fail"}, todo : SUBSET (Deliveries \X Nat), now : Deliveries \X Nat]

Init ==
  /\ enabled = FALSE /\ smtp = TRUE
  /\ alert = [a \in Alerts |-> "NONE"]
  /\ row = [d \in Deliveries |-> None]
  /\ tries = [d \in Deliveries |-> 0] /\ mails = [d \in Deliveries |-> 0]
  /\ job = [k \in Ticks |-> Idle]
  /\ faults = 0 /\ overlapped = FALSE
-----------------------------------------------------------------------------
(***************************************************************************)
(* Around the outbox: syncAlerts, IT, the settings page, the server, time. *)
(***************************************************************************)
Raise(a) ==
  /\ alert[a] = "NONE" /\ alert' = [alert EXCEPT ![a] = "OPEN"]
  /\ UNCHANGED <<enabled, smtp, row, tries, mails, job, faults, overlapped>>

\* Acknowledged by IT or resolved by a renewal: its deliveries stay.
Close(a) ==
  /\ alert[a] = "OPEN" /\ alert' = [alert EXCEPT ![a] = "CLOSED"]
  /\ UNCHANGED <<enabled, smtp, row, tries, mails, job, faults, overlapped>>

\* The entitlement is deleted, and by cascade the alert and its deliveries.
Delete(a) ==
  /\ alert[a] \in {"OPEN", "CLOSED"} /\ alert' = [alert EXCEPT ![a] = "GONE"]
  /\ row' = [d \in Deliveries |-> IF d[1] = a THEN None ELSE row[d]]
  /\ UNCHANGED <<enabled, smtp, tries, mails, job, faults, overlapped>>

Save ==
  /\ enabled' = ~enabled
  /\ UNCHANGED <<smtp, alert, row, tries, mails, job, faults, overlapped>>

Outage ==
  /\ smtp' = ~smtp
  /\ UNCHANGED <<enabled, alert, row, tries, mails, job, faults, overlapped>>

\* nextAttemptAt passes.
Elapse(d) ==
  /\ row[d].status = "FAILED" /\ ~row[d].due
  /\ row' = [row EXCEPT ![d].due = TRUE]
  /\ UNCHANGED <<enabled, smtp, alert, tries, mails, job, faults, overlapped>>
-----------------------------------------------------------------------------
(***************************************************************************)
(* process.                                                                *)
(***************************************************************************)
Tick(k) ==
  /\ job[k] = Idle /\ enabled
  /\ job' = [job EXCEPT ![k] = [op |-> "queue", todo |-> {d \in Deliveries : alert[d[1]] = "OPEN"}]]
  /\ overlapped' = (overlapped \/ \E other \in Ticks \ {k} : job[other] # Idle)
  /\ UNCHANGED <<enabled, smtp, alert, row, tries, mails, faults>>

\* upsert with an empty update. A deleted alert ends the tick.
Queue(k) ==
  /\ job[k].op = "queue"
  /\ \E d \in job[k].todo :
       IF alert[d[1]] = "GONE"
       THEN job' = [job EXCEPT ![k] = Idle] /\ UNCHANGED row
       ELSE /\ row' = [row EXCEPT ![d] = IF @ # None THEN @
                         ELSE [status |-> "PENDING", attempts |-> 0, due |-> TRUE]]
            /\ job' = [job EXCEPT ![k].todo = @ \ {d}]
  /\ UNCHANGED <<enabled, smtp, alert, tries, mails, faults, overlapped>>

\* Mutants: deliveries sent before are read again; failed ones never.
WaitingOrSent(d) == row[d].status # "NONE" /\ row[d].attempts < MaxAttempts /\ row[d].due
WaitingAtFirst(d) == row[d].status = "PENDING" /\ row[d].attempts < MaxAttempts /\ row[d].due
Waiting(d) ==
  /\ row[d].status \in {"PENDING", "FAILED"}
  /\ row[d].attempts < MaxAttempts /\ row[d].due

Read(k) ==
  /\ job[k].op = "queue" /\ job[k].todo = {}
  /\ job' = [job EXCEPT ![k] = [op |-> "send",
               todo |-> {<<d, row[d].attempts>> : d \in {e \in Deliveries : Waiting(e)}}]]
  /\ UNCHANGED <<enabled, smtp, alert, row, tries, mails, faults, overlapped>>

Outcome(k, now, op) == job' = [job EXCEPT ![k] = [op |-> op, todo |-> job[k].todo \ {now}, now |-> now]]

\* The last mail sent: the tick is over.
Done(k) ==
  /\ job[k].op = "send" /\ job[k].todo = {} /\ job' = [job EXCEPT ![k] = Idle]
  /\ UNCHANGED <<enabled, smtp, alert, row, tries, mails, faults, overlapped>>

Send(k) ==
  /\ job[k].op = "send"
  /\ \E now \in job[k].todo :
       /\ tries' = [tries EXCEPT ![now[1]] = @ + 1]
       /\ \/ /\ smtp /\ mails' = [mails EXCEPT ![now[1]] = @ + 1]
             /\ Outcome(k, now, "mark") /\ UNCHANGED faults
          \/ /\ ~smtp /\ Outcome(k, now, "fail") /\ UNCHANGED <<mails, faults>>
          \/ \* the mail is taken and the answer lost
             /\ smtp /\ faults < MaxFaults /\ faults' = faults + 1
             /\ mails' = [mails EXCEPT ![now[1]] = @ + 1]
             /\ Outcome(k, now, "fail")
  /\ UNCHANGED <<enabled, smtp, alert, row, overlapped>>

Onward(k) == job' = [job EXCEPT ![k] = [op |-> "send", todo |-> job[k].todo]]

\* A row that is gone, or a failing write, is caught like a failing mail.
MarkSent(k) ==
  /\ job[k].op = "mark"
  /\ LET d == job[k].now[1] IN
       \/ /\ row[d] # None
          /\ row' = [row EXCEPT ![d].status = "SENT", ![d].attempts = @ + 1]
          /\ Onward(k) /\ UNCHANGED faults
       \/ /\ row[d] = None \/ faults < MaxFaults
          /\ faults' = IF row[d] = None THEN faults ELSE faults + 1
          /\ job' = [job EXCEPT ![k].op = "fail"] /\ UNCHANGED row
  /\ UNCHANGED <<enabled, smtp, alert, tries, mails, overlapped>>

After(attempts) == [status |-> "FAILED", attempts |-> attempts + 1, due |-> FALSE]

\* The count is the one the tick read. A row that is gone ends the tick.
MarkFailed(k) ==
  /\ job[k].op = "fail"
  /\ LET d == job[k].now[1] IN
       IF row[d] = None THEN job' = [job EXCEPT ![k] = Idle] /\ UNCHANGED row
       ELSE row' = [row EXCEPT ![d] = After(job[k].now[2])] /\ Onward(k)
  /\ UNCHANGED <<enabled, smtp, alert, tries, mails, faults, overlapped>>

(***************************************************************************)
(* A failure outside the try of one delivery ends the tick: an upsert, the *)
(* read of what is due, transport, or the write in the catch itself.       *)
(***************************************************************************)
CutShort(k) ==
  /\ job[k].op \in {"queue", "fail"}
  /\ faults < MaxFaults /\ faults' = faults + 1
  /\ job' = [job EXCEPT ![k] = Idle]
  /\ UNCHANGED <<enabled, smtp, alert, row, tries, mails, overlapped>>

Restart ==
  /\ faults < MaxFaults /\ faults' = faults + 1
  /\ \E k \in Ticks : job[k] # Idle
  /\ job' = [k \in Ticks |-> Idle]
  /\ UNCHANGED <<enabled, smtp, alert, row, tries, mails, overlapped>>

Step(k) == Tick(k) \/ Queue(k) \/ Read(k) \/ Send(k) \/ MarkSent(k) \/ MarkFailed(k) \/ Done(k)
-----------------------------------------------------------------------------
Next ==
  \/ \E a \in Alerts : Raise(a) \/ Close(a) \/ Delete(a)
  \/ Save \/ Outage \/ Restart
  \/ \E d \in Deliveries : Elapse(d)
  \/ \E k \in Ticks : Step(k) \/ CutShort(k)

Spec == Init /\ [][Next]_vars

\* The timer ticks, a tick goes on, and time passes; nothing is said of the
\* server, the settings or the people.
Fairness == /\ \A k \in Ticks : WF_vars(Step(k))
            /\ \A d \in Deliveries : WF_vars(Elapse(d))
FairSpec == Spec /\ Fairness
-----------------------------------------------------------------------------
TypeOK ==
  /\ enabled \in BOOLEAN /\ smtp \in BOOLEAN /\ overlapped \in BOOLEAN
  /\ alert \in [Alerts -> {"NONE", "OPEN", "CLOSED", "GONE"}]
  /\ row \in [Deliveries -> Rows]
  /\ tries \in [Deliveries -> Nat] /\ mails \in [Deliveries -> Nat]
  /\ job \in [Ticks -> Jobs]
  /\ faults \in 0 .. MaxFaults

(***************************************************************************)
(* What the outbox shows as SENT was sent: no lost update, restart or      *)
(* overlap of ticks makes it claim a mail that never left.                 *)
(***************************************************************************)
SentWasMailed == \A d \in Deliveries : row[d].status = "SENT" => mails[d] > 0

(***************************************************************************)
(* While ticks do not overlap, each mail beyond the first is the price of  *)
(* a restart, a lost answer or a failed write, and so is each attempt      *)
(* beyond the fifth.                                                       *)
(***************************************************************************)
RepeatsNeedFaults ==
  ~overlapped => \A d \in Deliveries : /\ mails[d] <= 1 + faults
                                       /\ tries[d] <= MaxAttempts + faults

(***************************************************************************)
(* A recipient of an OPEN alert is written to or given up on after five    *)
(* attempts, unless the alert is closed or e-mail turned off first.        *)
(***************************************************************************)
Settled(d) == row[d].status = "SENT" \/ row[d].attempts >= MaxAttempts
AlertsGoOut ==
  \A d \in Deliveries : alert[d[1]] = "OPEN" /\ enabled
                          ~> Settled(d) \/ alert[d[1]] # "OPEN" \/ ~enabled
=============================================================================
