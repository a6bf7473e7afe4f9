------------------------------ MODULE Renewals ------------------------------
(***************************************************************************)
(* One digital entitlement (a licence, certificate or domain): its seats,  *)
(* its renewals, and the alerts syncAlerts keeps for it (renewals.service, *)
(* renewals.rules).  assign and renew are SERIALIZABLE transactions: each  *)
(* works on the snapshot it took, and gives up when another one wrote what *)
(* it read or writes.  Everything else is READ COMMITTED or a statement of *)
(* its own.  syncAlerts runs on a timer and inside most requests, a        *)
(* statement at a time.                                                    *)
(***************************************************************************)
EXTENDS Integers, FiniteSets

CONSTANTS
  Horizon,      \* the last day in view: a bound
  Near,         \* days before the expiry that count as EXPIRING (30)
  WarningDays,  \* thresholds of the alert policy
  Seats,        \* totalQuantity
  Grants,       \* digital_assignments rows
  Quantity,     \* the seats each grant asks for
  Clerks,       \* IT requests that may be under way at once
  Timers,       \* the scheduler's syncAlerts
  MaxRenewals   \* renewals in view: a bound

RenewalsAssumption ==
  /\ Horizon \in Nat /\ Near \in Nat /\ MaxRenewals \in Nat
  /\ WarningDays \subseteq Nat
  /\ Seats \in Nat \ {0}
  /\ Quantity \in [Grants -> Nat \ {0}]
  /\ Clerks \cap Timers = {}

VARIABLES
  today,     \* the calendar
  item,      \* the digital_entitlements row
  grant,     \* digital_assignments
  renewals,  \* digital_renewals: from which expiry to which
  enabled,   \* renewal_alert_policies.enabled
  alert,     \* renewal_alerts, by due date and threshold
  job        \* what each request or timer has read

rows == <<item, grant, renewals, enabled, alert>>
vars == <<today, item, grant, renewals, enabled, alert, job>>
-----------------------------------------------------------------------------
Days   == 0 .. Horizon
AlertRows == Days \X WarningDays
Active == {"OPEN", "ACKNOWLEDGED"}

ItemRows == [state : {"none", "live", "deleted"}, expiry : Days,
             status : {"ACTIVE", "EXPIRING", "EXPIRED"}]

Idle == [op |-> "idle"]
Jobs == {Idle}
  \cup [op : {"assign"}, grant : Grants, used : Nat, doomed : BOOLEAN]
  \cup [op : {"revoke"}, grant : Grants]
  \cup [op : {"renew"}, from : Days, to : Days, active : SUBSET AlertRows, doomed : BOOLEAN]
  \cup [op : {"sync", "settle"}]
  \cup [op : {"raise"}, expiry : Days, due : SUBSET WarningDays]
  \cup [op : {"status"}, status : {"ACTIVE", "EXPIRING", "EXPIRED"}]

\* entitlementStatus: the day of the expiry itself still counts.
StatusOf(expiry) == IF expiry < today THEN "EXPIRED"
                    ELSE IF expiry - today <= Near THEN "EXPIRING" ELSE "ACTIVE"
Due(expiry) == {t \in WarningDays : expiry - today <= t}

\* One seat for each unit an active grant holds.
Held == {s \in Grants \X (1 .. Seats) : grant[s[1]] = "ACTIVE" /\ s[2] <= Quantity[s[1]]}

(***************************************************************************)
(* The other transactions that a write turns down. Mutant: they go on.     *)
(***************************************************************************)
NotDooming(k, ops) == job
Dooming(k, ops) == [j \in DOMAIN job |->
                      IF j # k /\ job[j].op \in ops THEN [job[j] EXCEPT !.doomed = TRUE] ELSE job[j]]
Become(k, j, ops) == job' = [Dooming(k, ops) EXCEPT ![k] = j]
-----------------------------------------------------------------------------
Init ==
  /\ today = 0
  /\ item = [state |-> "none", expiry |-> 0, status |-> "ACTIVE"]
  /\ grant = [g \in Grants |-> "FREE"]
  /\ renewals = {}
  /\ enabled = TRUE
  /\ alert = [a \in AlertRows |-> "NONE"]
  /\ job = [k \in Clerks \cup Timers |-> Idle]

NextDay == today < Horizon /\ today' = today + 1 /\ UNCHANGED <<rows, job>>
-----------------------------------------------------------------------------
(***************************************************************************)
(* Records and policies; each ends in syncAlerts.                          *)
(***************************************************************************)
Create(k) ==
  /\ job[k] = Idle /\ item.state = "none"
  /\ \E e \in Days : item' = [state |-> "live", expiry |-> e, status |-> StatusOf(e)]
  /\ Become(k, [op |-> "sync"], {})
  /\ UNCHANGED <<today, grant, renewals, enabled, alert>>

UpdateContract(k) ==
  /\ job[k] = Idle /\ item.state = "live"
  /\ \E e \in Days : item' = [item EXCEPT !.expiry = e, !.status = StatusOf(e)]
  /\ Become(k, [op |-> "sync"], {"renew"})
  /\ UNCHANGED <<today, grant, renewals, enabled, alert>>

SavePolicy(k) ==
  /\ job[k] = Idle
  /\ enabled' = ~enabled
  /\ Become(k, [op |-> "sync"], {})
  /\ UNCHANGED <<today, item, grant, renewals, alert>>

\* Grants, renewals and alerts go with the record.
Remove(k) ==
  /\ job[k] = Idle /\ item.state = "live"
  /\ item' = [item EXCEPT !.state = "deleted"]
  /\ grant' = [g \in Grants |-> "FREE"] /\ renewals' = {}
  /\ alert' = [a \in AlertRows |-> "NONE"]
  /\ Become(k, Idle, {"renew", "assign"})
  /\ UNCHANGED <<today, enabled>>
-----------------------------------------------------------------------------
(***************************************************************************)
(* Seats. Mutant of assign: the check leaves out what is asked for.        *)
(***************************************************************************)
AssignRead(k, g) ==
  /\ job[k] = Idle
  /\ item.state = "live" /\ item.status # "EXPIRED" /\ grant[g] = "FREE"
  /\ Become(k, [op |-> "assign", grant |-> g, used |-> Cardinality(Held), doomed |-> FALSE], {})
  /\ UNCHANGED <<today, rows>>

FitsBefore(used, g) == used <= Seats
Fits(used, g) == used + Quantity[g] <= Seats

AssignCommit(k) ==
  /\ job[k].op = "assign"
  /\ \/ /\ ~job[k].doomed /\ Fits(job[k].used, job[k].grant) /\ grant[job[k].grant] = "FREE"
        /\ grant' = [grant EXCEPT ![job[k].grant] = "ACTIVE"]
        /\ Become(k, Idle, {"assign"})
     \/ /\ job[k].doomed \/ ~Fits(job[k].used, job[k].grant) \/ grant[job[k].grant] # "FREE"
        /\ Become(k, Idle, {}) /\ UNCHANGED grant
  /\ UNCHANGED <<today, item, renewals, enabled, alert>>

\* READ COMMITTED: two requests may both find the grant active.
RevokeRead(k, g) ==
  /\ job[k] = Idle /\ grant[g] = "ACTIVE"
  /\ Become(k, [op |-> "revoke", grant |-> g], {})
  /\ UNCHANGED <<today, rows>>

RevokeCommit(k) ==
  /\ job[k].op = "revoke"
  /\ grant' = IF grant[job[k].grant] = "FREE" THEN grant
              ELSE [grant EXCEPT ![job[k].grant] = "REVOKED"]
  /\ Become(k, Idle, {})
  /\ UNCHANGED <<today, item, renewals, enabled, alert>>
-----------------------------------------------------------------------------
(***************************************************************************)
(* Renewals. The alerts closed are those its snapshot showed active.       *)
(***************************************************************************)
RenewRead(k, to) ==
  /\ job[k] = Idle
  /\ item.state = "live" /\ to > item.expiry
  /\ Cardinality(renewals) < MaxRenewals
  /\ Become(k, [op |-> "renew", from |-> item.expiry, to |-> to, doomed |-> FALSE,
                active |-> {a \in AlertRows : alert[a] \in Active}], {})
  /\ UNCHANGED <<today, rows>>

RenewCommit(k) ==
  /\ job[k].op = "renew"
  /\ \/ /\ ~job[k].doomed
        /\ renewals' = renewals \cup {<<job[k].from, job[k].to>>}
        /\ item' = [item EXCEPT !.expiry = job[k].to, !.status = StatusOf(job[k].to)]
        /\ alert' = [a \in AlertRows |-> IF a \in job[k].active THEN "RESOLVED" ELSE alert[a]]
        /\ Become(k, Idle, {"renew"})
     \/ /\ job[k].doomed
        /\ Become(k, Idle, {}) /\ UNCHANGED <<renewals, item, alert>>
  /\ UNCHANGED <<today, grant, enabled>>

\* Whatever the status of the alert.
Acknowledge(a) ==
  /\ alert[a] # "NONE"
  /\ alert' = [alert EXCEPT ![a] = "ACKNOWLEDGED"]
  /\ job' = IF alert[a] \in Active THEN Dooming("nobody", {"renew"}) ELSE job
  /\ UNCHANGED <<today, item, grant, renewals, enabled>>
-----------------------------------------------------------------------------
(***************************************************************************)
(* syncAlerts: the policies, the entitlements due under one, an upsert for *)
(* each threshold reached, then the statuses. Mutant: a threshold that was *)
(* raised before, for any date, stands for the others.                     *)
(***************************************************************************)
SyncBegin(k) ==
  /\ job[k] = Idle
  /\ Become(k, [op |-> "sync"], {})
  /\ UNCHANGED <<today, rows>>

SyncPolicies(k) ==
  /\ job[k].op = "sync"
  /\ Become(k, IF enabled /\ item.state = "live" /\ Due(item.expiry) # {}
               THEN [op |-> "raise", expiry |-> item.expiry, due |-> Due(item.expiry)]
               ELSE [op |-> "settle"], {})
  /\ UNCHANGED <<today, rows>>

SyncRaiseUnlessRaised(k) ==
  /\ job[k].op = "raise" /\ job[k].due # {}
  /\ \E t \in job[k].due :
       alert' = IF \E a \in AlertRows : alert[a] # "NONE" THEN alert
                ELSE [alert EXCEPT ![<<job[k].expiry, t>>] = "OPEN"]
  /\ Become(k, [op |-> "settle"], {})
  /\ UNCHANGED <<today, item, grant, renewals, enabled>>
SyncRaise(k) ==
  /\ job[k].op = "raise"
  /\ IF job[k].due = {} \/ item.state # "live"
     THEN /\ Become(k, IF job[k].due = {} THEN [op |-> "settle"] ELSE Idle, {})
          /\ UNCHANGED alert
     ELSE \E t \in job[k].due :
            LET a == <<job[k].expiry, t>> IN
            /\ alert' = [alert EXCEPT ![a] = IF @ = "NONE" THEN "OPEN" ELSE @]
            /\ Become(k, [job[k] EXCEPT !.due = @ \ {t}],
                      IF alert[a] \in Active THEN {"renew"} ELSE {})
  /\ UNCHANGED <<today, item, grant, renewals, enabled>>

SyncSettle(k) ==
  /\ job[k].op = "settle"
  /\ Become(k, IF item.state = "live" /\ item.status # StatusOf(item.expiry)
               THEN [op |-> "status", status |-> StatusOf(item.expiry)] ELSE Idle, {})
  /\ UNCHANGED <<today, rows>>

SyncStatus(k) ==
  /\ job[k].op = "status"
  /\ item' = IF item.state = "live" THEN [item EXCEPT !.status = job[k].status] ELSE item
  /\ Become(k, Idle, {"renew"})
  /\ UNCHANGED <<today, grant, renewals, enabled, alert>>

Sync(k) == SyncPolicies(k) \/ SyncRaise(k) \/ SyncSettle(k) \/ SyncStatus(k)
-----------------------------------------------------------------------------
Next ==
  \/ NextDay
  \/ \E k \in Clerks : \/ Create(k) \/ UpdateContract(k) \/ SavePolicy(k) \/ Remove(k)
                       \/ \E g \in Grants : AssignRead(k, g) \/ RevokeRead(k, g)
                       \/ \E to \in Days : RenewRead(k, to)
                       \/ AssignCommit(k) \/ RevokeCommit(k) \/ RenewCommit(k)
  \/ \E a \in AlertRows : Acknowledge(a)
  \/ \E k \in Clerks \cup Timers : SyncBegin(k) \/ Sync(k)

Spec == Init /\ [][Next]_vars

\* The scheduler runs every six hours, and what it began it finishes.
Fairness == \A k \in Timers : WF_vars(SyncBegin(k)) /\ WF_vars(Sync(k))
FairSpec == Spec /\ Fairness
-----------------------------------------------------------------------------
TypeOK ==
  /\ today \in Days
  /\ item \in ItemRows
  /\ grant \in [Grants -> {"FREE", "ACTIVE", "REVOKED"}]
  /\ renewals \subseteq Days \X Days
  /\ enabled \in BOOLEAN
  /\ alert \in [AlertRows -> Active \cup {"NONE", "RESOLVED"}]
  /\ job \in [Clerks \cup Timers -> Jobs]

(***************************************************************************)
(* Requests that each saw seats left never hand out more than were bought. *)
(***************************************************************************)
SeatsWithinTotal ==
  /\ Cardinality(Held) <= Seats
  /\ \A g \in Grants : grant[g] = "ACTIVE" => Quantity[g] <= Seats

(***************************************************************************)
(* The renewal history is a chain: two people who renew at once do not pay *)
(* for the same period twice, and no renewal starts from a date that has   *)
(* been replaced meanwhile.                                                *)
(***************************************************************************)
RenewsWhatIsThere ==
  [][\A r \in renewals' \ renewals : /\ r[1] = item.expiry /\ r[1] < r[2]
                                     /\ item'.expiry = r[2]]_vars

(***************************************************************************)
(* A date that comes within a threshold of an enabled policy gets its      *)
(* alert, unless the date is moved, the policy turned off or the record    *)
(* deleted first.                                                          *)
(***************************************************************************)
Reached(a)  == item.state = "live" /\ enabled /\ item.expiry = a[1] /\ a[2] \in Due(a[1])
Answered(a) == alert[a] # "NONE" \/ item.state # "live" \/ ~enabled \/ item.expiry # a[1]
DueIsAlerted == \A a \in AlertRows : Reached(a) ~> Answered(a)
=============================================================================
