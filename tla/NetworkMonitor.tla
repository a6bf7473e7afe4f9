--------------------------- MODULE NetworkMonitor ---------------------------
(***************************************************************************)
(* Monitoring of one subnet (netmon.poller.ts, netmon.service.ts and the   *)
(* check rule of network.ts).  A poller ticks: it sweeps the subnet when a *)
(* scan is due, then checks the devices that are due.  Meanwhile operators *)
(* scan, pause, resume and remove devices and acknowledge alerts through   *)
(* the API.  A check and a sweep both write the device's row, each from    *)
(* what it read or probed earlier.                                         *)
(*                                                                         *)
(* Devices do not interact, so the addresses of a sweep are probed in one  *)
(* step: for each device alone nothing is lost.                            *)
(***************************************************************************)
EXTENDS Integers

CONSTANTS
  Devices,      \* addresses of the subnet
  Pollers,      \* polling processes running at once; the deployment starts one
  Staff,        \* API requests that may be scanning or acknowledging at once
  Alerts,       \* numbers of the alert rows kept in view, by device: a bound
  Threshold,    \* failureThreshold of the subnet
  MaxCrashes    \* processes that die during a run: a bound

ASSUME NetworkAssumption ==
  /\ Threshold \in Nat \ {0}
  /\ MaxCrashes \in Nat
  /\ Pollers \cap Staff = {}

VARIABLES
  up,           \* which addresses answer: the network itself
  enabled,      \* network_subnets.enabled
  checkDue,     \* devices whose lastCheckedAt is older than the check interval
  device,       \* network_devices
  alert,        \* network_alerts, by device and number
  running,      \* processes whose network_scans row is RUNNING
  orphaned,     \* a RUNNING row was left by a process that died
  job,          \* what each process is doing and has read
  crashes

rows   == <<device, alert>>
clock  == <<up, enabled, checkDue>>
scans  == <<running, orphaned>>
vars   == <<up, enabled, checkDue, device, alert, running, orphaned, job, crashes>>
-----------------------------------------------------------------------------
Workers  == Pollers \cup Staff
Statuses == {"UNKNOWN", "UP", "DOWN", "PAUSED"}
Failures == 0 .. Threshold      \* a longer streak decides nothing more

DeviceRows == [known : BOOLEAN, monitored : BOOLEAN, status : Statuses, failures : Failures]
NoDevice   == [known |-> FALSE, monitored |-> TRUE, status |-> "UNKNOWN", failures |-> 0]

ActiveAlerts(d) == {n \in Alerts : alert[d][n] \in {"OPEN", "ACKNOWLEDGED"}}

(***************************************************************************)
(* Jobs.  A check remembers the row as runDueChecks read it.               *)
(***************************************************************************)
Idle == [op |-> "idle"]
Seen == [status : Statuses, failures : Failures, outcome : {"pending", "reply", "miss"}]
Jobs == {Idle} \cup
        [op : {"claim", "due"}] \cup
        [op : {"write"}, live : SUBSET Devices] \cup
        [op : {"check"}, seen : UNION {[S -> Seen] : S \in SUBSET Devices}] \cup
        [op : {"acknowledge"}, device : Devices, alert : Alerts]

Become(w, j) == job' = [job EXCEPT ![w] = j]
Less(f, d)   == [e \in DOMAIN f \ {d} |-> f[e]]

(***************************************************************************)
(* resolveCheck of a monitored device: runDueChecks never reads another.   *)
(* Mutants: the outcome is stored as the status; a reply leaves the streak *)
(* as it is; only a device that was UP raises an alert.                    *)
(***************************************************************************)
Streak(seen) == IF seen.failures < Threshold THEN seen.failures + 1 ELSE Threshold
Back(seen)   == [status |-> "UP", failures |-> 0,
                 raise |-> FALSE, clear |-> seen.status # "UP"]
Missed(seen) == LET down == Streak(seen) = Threshold IN
                [status |-> IF down THEN "DOWN" ELSE seen.status,
                 failures |-> Streak(seen),
                 raise |-> down /\ seen.status # "DOWN", clear |-> FALSE]

ResolveKeepingStreak(seen) ==
  IF seen.outcome = "reply" THEN [Back(seen) EXCEPT !.failures = seen.failures]
                            ELSE Missed(seen)
ResolveFromUp(seen) ==
  IF seen.outcome = "reply" THEN Back(seen)
                            ELSE [Missed(seen) EXCEPT !.raise = @ /\ seen.status = "UP"]
Resolve(seen) == IF seen.outcome = "reply" THEN Back(seen) ELSE Missed(seen)
-----------------------------------------------------------------------------
Init ==
  /\ up \in [Devices -> BOOLEAN]
  /\ enabled = TRUE /\ checkDue = {}
  /\ device = [d \in Devices |-> NoDevice]
  /\ alert = [d \in Devices |-> [n \in Alerts |-> "FREE"]]
  /\ running = {} /\ orphaned = FALSE
  /\ job = [w \in Workers |-> Idle]
  /\ crashes = 0
-----------------------------------------------------------------------------
(***************************************************************************)
(* Scans: runDueScans of the poller and scanSubnet of the API share sweep. *)
(***************************************************************************)
NoScanRunning == running = {} /\ ~orphaned

\* The busy flag: a tick starts only when the last one has ended. Whether the
\* last scan is old enough for another is left open.
Tick(p) ==
  /\ job[p] = Idle
  /\ \/ enabled /\ NoScanRunning /\ Become(p, [op |-> "claim"])
     \/ Become(p, [op |-> "due"])
  /\ UNCHANGED <<clock, rows, scans, crashes>>

ScanRequest(s) ==
  /\ job[s] = Idle
  /\ enabled /\ NoScanRunning
  /\ Become(s, [op |-> "claim"])
  /\ UNCHANGED <<clock, rows, scans, crashes>>

\* Mutant: every address probed is taken to have answered.
SweepSilentHosts(w) ==
  /\ job[w].op = "claim"
  /\ running' = running \cup {w}
  /\ Become(w, [op |-> "write", live |-> Devices])
  /\ UNCHANGED <<clock, rows, orphaned, crashes>>

\* The scan row is created without looking again for a running one, and every
\* address is probed before anything is written.
Sweep(w) ==
  /\ job[w].op = "claim"
  /\ running' = running \cup {w}
  /\ Become(w, [op |-> "write", live |-> {d \in Devices : up[d]}])
  /\ UNCHANGED <<clock, rows, orphaned, crashes>>

\* A host that answered: its row is created or brought UP; its alerts are not looked at.
SweepWrite(w, d) ==
  /\ job[w].op = "write"
  /\ d \in job[w].live
  /\ device' = [device EXCEPT ![d] = [known |-> TRUE, monitored |-> @.monitored,
                                      status |-> "UP", failures |-> 0]]
  /\ checkDue' = checkDue \ {d}
  /\ Become(w, [job[w] EXCEPT !.live = @ \ {d}])
  /\ UNCHANGED <<up, enabled, alert, scans, crashes>>

\* The poller goes on with its checks, a request is over.
AfterScan(w) == IF w \in Pollers THEN [op |-> "due"] ELSE Idle

\* The scan is COMPLETED when every answer is written, FAILED when a row was
\* created or removed meanwhile or the database refused.
ScanEnd(w) ==
  /\ job[w].op = "write"
  /\ running' = running \ {w}
  /\ Become(w, AfterScan(w))
  /\ UNCHANGED <<clock, rows, orphaned, crashes>>
-----------------------------------------------------------------------------
(***************************************************************************)
(* Checks: runDueChecks reads the due devices once; each is then probed    *)
(* and recorded on its own, up to CHECK_CONCURRENCY at a time.             *)
(***************************************************************************)
DueDevices == {d \in checkDue : enabled /\ device[d].known /\ device[d].monitored}

DueChecks(p) ==
  /\ job[p].op = "due"
  /\ Become(p, [op |-> "check",
                seen |-> [d \in DueDevices |-> [status |-> device[d].status,
                                                failures |-> device[d].failures,
                                                outcome |-> "pending"]]])
  /\ UNCHANGED <<clock, rows, scans, crashes>>

CheckProbe(p, d) ==
  /\ job[p].op = "check"
  /\ d \in DOMAIN job[p].seen
  /\ job[p].seen[d].outcome = "pending"
  /\ Become(p, [job[p] EXCEPT !.seen[d].outcome = IF up[d] THEN "reply" ELSE "miss"])
  /\ UNCHANGED <<clock, rows, scans, crashes>>

\* The alert rows after a check. A number nobody is acknowledging may be used
\* again: its RESOLVED row is history no command reads.
RaiseOrClear(d, r) ==
  \/ r.clear /\ alert' = [alert EXCEPT ![d] = [n \in Alerts |->
                            IF n \in ActiveAlerts(d) THEN "RESOLVED" ELSE alert[d][n]]]
  \/ /\ r.raise /\ ActiveAlerts(d) = {}
     /\ \E n \in Alerts :
          /\ \A s \in Staff : job[s].op = "acknowledge" /\ job[s].device = d
                                => job[s].alert # n
          /\ alert' = [alert EXCEPT ![d][n] = "OPEN"]
  \/ ~r.clear /\ (r.raise => ActiveAlerts(d) # {}) /\ UNCHANGED alert

Record(p, d) ==
  /\ job[p].op = "check"
  /\ d \in DOMAIN job[p].seen
  /\ job[p].seen[d].outcome # "pending"
  /\ LET r == Resolve(job[p].seen[d]) IN
       /\ device' = [device EXCEPT ![d].status = r.status, ![d].failures = r.failures]
       /\ RaiseOrClear(d, r)
  /\ checkDue' = checkDue \ {d}
  /\ Become(p, [job[p] EXCEPT !.seen = Less(@, d)])
  /\ UNCHANGED <<up, enabled, scans, crashes>>

TickEnd(p) ==
  /\ job[p].op = "check"
  /\ DOMAIN job[p].seen = {}
  /\ Become(p, Idle)
  /\ UNCHANGED <<clock, rows, scans, crashes>>
-----------------------------------------------------------------------------
(***************************************************************************)
(* Operators.                                                              *)
(***************************************************************************)
SetMonitored(d, on) ==
  /\ device[d].known
  /\ device' = [device EXCEPT ![d] = [known |-> TRUE, monitored |-> on, failures |-> 0,
                                      status |-> IF on THEN "UNKNOWN" ELSE "PAUSED"]]
  /\ UNCHANGED <<clock, alert, scans, job, crashes>>

\* The alerts go with the row. What was read of it can no longer be written: a
\* device found again at the address gets another id.
RemoveDevice(d) ==
  /\ device[d].known
  /\ device' = [device EXCEPT ![d] = NoDevice]
  /\ alert' = [alert EXCEPT ![d] = [n \in Alerts |-> "FREE"]]
  /\ checkDue' = checkDue \ {d}
  /\ job' = [w \in Workers |->
               CASE job[w].op = "check" -> [job[w] EXCEPT !.seen = Less(@, d)]
                 [] job[w].op = "acknowledge" /\ job[w].device = d -> Idle
                 [] OTHER -> job[w]]
  /\ UNCHANGED <<up, enabled, scans, crashes>>

\* updateSubnet
SetEnabled(on) ==
  /\ enabled' = on
  /\ UNCHANGED <<up, checkDue, rows, scans, job, crashes>>

\* acknowledgeAlert reads the alert only to know that it exists.
AcknowledgeRead(s, d, n) ==
  /\ job[s] = Idle
  /\ alert[d][n] # "FREE"
  /\ Become(s, [op |-> "acknowledge", device |-> d, alert |-> n])
  /\ UNCHANGED <<clock, rows, scans, crashes>>

AcknowledgeCommit(s) ==
  /\ job[s].op = "acknowledge"
  /\ alert' = [alert EXCEPT ![job[s].device][job[s].alert] = "ACKNOWLEDGED"]
  /\ Become(s, Idle)
  /\ UNCHANGED <<clock, device, scans, crashes>>
-----------------------------------------------------------------------------
(***************************************************************************)
(* The world: hosts come and go, time passes, processes die and restart.   *)
(***************************************************************************)
Flip(d) == /\ up' = [up EXCEPT ![d] = ~@]
           /\ UNCHANGED <<enabled, checkDue, rows, scans, job, crashes>>

CheckAges(d) == /\ device[d].known
                /\ checkDue' = checkDue \cup {d}
                /\ UNCHANGED <<up, enabled, rows, scans, job, crashes>>

\* The scan row of a process that dies stays RUNNING.
Crash(w) ==
  /\ job[w] # Idle
  /\ crashes < MaxCrashes
  /\ crashes' = crashes + 1
  /\ running' = running \ {w}
  /\ orphaned' = (orphaned \/ w \in running)
  /\ Become(w, Idle)
  /\ UNCHANGED <<clock, rows>>
-----------------------------------------------------------------------------
SweepStep(w) ==
  \/ Sweep(w) \/ ScanEnd(w)
  \/ \E d \in Devices : SweepWrite(w, d)

PollerStep(p) ==
  \/ Tick(p) \/ DueChecks(p) \/ TickEnd(p) \/ SweepStep(p)
  \/ \E d \in Devices : CheckProbe(p, d) \/ Record(p, d)

StaffStep(s) ==
  \/ ScanRequest(s) \/ SweepStep(s) \/ AcknowledgeCommit(s)
  \/ \E d \in Devices, n \in Alerts : AcknowledgeRead(s, d, n)

Edit(d) == RemoveDevice(d) \/ \E on \in BOOLEAN : SetMonitored(d, on)

Next == \/ \E p \in Pollers : PollerStep(p)
        \/ \E s \in Staff : StaffStep(s)
        \/ \E d \in Devices : Edit(d) \/ Flip(d) \/ CheckAges(d)
        \/ \E on \in BOOLEAN : SetEnabled(on)
        \/ \E w \in Workers : Crash(w)
Spec == Init /\ [][Next]_vars

(***************************************************************************)
(* Fairness.  The poller's interval timer fires again and again, every     *)
(* await of a tick ends (ping, TCP and arp have timeouts) and time passes. *)
(* Nothing is assumed of operators, of the network or of API requests.     *)
(***************************************************************************)
Fairness == /\ \A p \in Pollers : WF_vars(PollerStep(p))
            /\ \A d \in Devices : WF_vars(CheckAges(d))
FairSpec == Spec /\ Fairness
-----------------------------------------------------------------------------
\* Every variable stays within its table's columns.
TypeOK == /\ up \in [Devices -> BOOLEAN] /\ enabled \in BOOLEAN
          /\ checkDue \subseteq Devices
          /\ device \in [Devices -> DeviceRows]
          /\ alert \in [Devices -> [Alerts -> {"FREE", "OPEN", "ACKNOWLEDGED", "RESOLVED"}]]
          /\ running \subseteq Workers /\ orphaned \in BOOLEAN
          /\ job \in [Workers -> Jobs]
          /\ crashes \in 0 .. MaxCrashes

\* A device stored as DOWN has an alert somebody can see (record raises one
\* only when the status it read was not DOWN already). It needs a single
\* poller: a second one may resolve the alert between the first one's read
\* and its write.
DownHasAlert ==
  \A d \in Devices : device[d].status = "DOWN" => ActiveAlerts(d) # {}

Watched(d)    == enabled /\ device[d].known /\ device[d].monitored
Untouched(d)  == <>[][~Edit(d)]_vars

\* An outage that lasts is reported, whatever sweeps with older answers write
\* in between: the device ends DOWN, with an active alert.
OutageReported ==
  \A d \in Devices :
    Untouched(d) /\ <>[](Watched(d) /\ ~up[d]) =>
      <>[](device[d].status = "DOWN" /\ ActiveAlerts(d) # {})

\* A device that answers for good ends UP, with no failures counted.
RecoveryRecorded ==
  \A d \in Devices :
    Untouched(d) /\ <>[](Watched(d) /\ up[d]) =>
      <>[](device[d].status = "UP" /\ device[d].failures = 0)

\* "A single reply brings a device straight back up and clears the alert"
\* (netmon.test.ts). A sweep that gets the reply brings it up and leaves the
\* alert, and later checks see a device that is UP already.
RecoveryClearsAlert ==
  \A d \in Devices :
    Untouched(d) /\ <>[](Watched(d) /\ up[d]) => <>[](ActiveAlerts(d) = {})
=============================================================================
