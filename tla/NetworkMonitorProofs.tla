------------------------ MODULE NetworkMonitorProofs ------------------------
(***************************************************************************)
(* Proofs about NetworkMonitor for every set of devices, processes and     *)
(* alert numbers and every threshold: its variables keep their types, and  *)
(* with a single poller a device stored as DOWN always has an active       *)
(* alert.                                                                  *)
(***************************************************************************)
EXTENDS NetworkMonitor, TLAPS

ScanJobs == {Idle} \cup [op : {"claim", "due"}] \cup [op : {"write"}, live : SUBSET Devices]
CheckJobs == [op : {"check"}, seen : UNION {[S -> Seen] : S \in SUBSET Devices}]
AckJobs == [op : {"acknowledge"}, device : Devices, alert : Alerts]
AlertStates == {"FREE", "OPEN", "ACKNOWLEDGED", "RESOLVED"}

\* A job is what its op says.
LEMMA JobKinds ==
  ASSUME NEW j \in Jobs
  PROVE  /\ j.op = "check" => j \in CheckJobs
         /\ j.op = "write" => j \in [op : {"write"}, live : SUBSET Devices]
         /\ j.op = "acknowledge" => j \in AckJobs
BY DEF Jobs, Idle, CheckJobs, AckJobs

\* The rows seen by a check are rows of devices.
LEMMA SeenRows ==
  ASSUME NEW j \in CheckJobs
  PROVE  /\ DOMAIN j.seen \subseteq Devices
         /\ \A d \in DOMAIN j.seen : j.seen[d] \in Seen
         /\ j.seen \in [DOMAIN j.seen -> Seen]
<1>1. PICK S \in SUBSET Devices : j.seen \in [S -> Seen]
  BY DEF CheckJobs
<1>2. QED
  BY <1>1

\* Checks that remember any rows, or one row less, are jobs.
LEMMA CheckJobsMade ==
  /\ \A S \in SUBSET Devices : \A f \in [S -> Seen] : [op |-> "check", seen |-> f] \in Jobs
  /\ \A j \in CheckJobs, d \in Devices : [j EXCEPT !.seen = Less(@, d)] \in Jobs
<1>1. ASSUME NEW S \in SUBSET Devices, NEW f \in [S -> Seen]
      PROVE  [op |-> "check", seen |-> f] \in CheckJobs
  BY DEF CheckJobs
<1>2. ASSUME NEW j \in CheckJobs, NEW d \in Devices
      PROVE  [j EXCEPT !.seen = Less(@, d)] \in CheckJobs
  <2>1. DOMAIN j.seen \subseteq Devices /\ j.seen \in [DOMAIN j.seen -> Seen]
    BY SeenRows
  <2> DEFINE S == DOMAIN j.seen \ {d}
  <2>2. Less(j.seen, d) \in [S -> Seen] /\ S \in SUBSET Devices
    BY <2>1 DEF Less
  <2>3. Less(j.seen, d) \in UNION {[T -> Seen] : T \in SUBSET Devices}
    BY <2>2
  <2>4. QED
    BY <2>3 DEF CheckJobs
<1>3. CheckJobs \subseteq Jobs
  BY DEF CheckJobs, Jobs
<1>4. QED
  BY <1>1, <1>2, <1>3

\* What a check writes fits the device's row.
LEMMA ResolveTyped ==
  ASSUME NEW s \in Seen
  PROVE  Resolve(s).status \in Statuses /\ Resolve(s).failures \in Failures
<1>1. Streak(s) \in Failures /\ 0 \in Failures
  BY NetworkAssumption DEF Seen, Streak, Failures
<1>2. QED
  BY <1>1 DEF Resolve, Back, Missed, Seen, Statuses
-----------------------------------------------------------------------------
(***************************************************************************)
(* Types.                                                                  *)
(***************************************************************************)
LEMMA InitTypes == Init => TypeOK
<1> SUFFICES ASSUME Init PROVE TypeOK
  OBVIOUS
<1>1. NoDevice \in DeviceRows
  BY NetworkAssumption DEF NoDevice, DeviceRows, Statuses, Failures
<1>2. job \in [Workers -> Jobs]
  BY DEF Init, Jobs
<1>3. QED
  <2>1. device \in [Devices -> DeviceRows] /\ job \in [Workers -> Jobs]
    BY <1>1, <1>2 DEF Init
  <2>2. alert \in [Devices -> [Alerts -> AlertStates]]
    BY DEF Init, AlertStates
  <2>3. crashes \in 0 .. MaxCrashes
    BY NetworkAssumption DEF Init
  <2>4. QED
    BY <2>1, <2>2, <2>3, Zenon DEF Init, TypeOK, AlertStates

LEMMA SweepTypes ==
  ASSUME TypeOK, NEW w \in Workers, SweepStep(w)
  PROVE  TypeOK'
<1> USE DEF TypeOK, Become, rows, clock, scans
<1>1. CASE Sweep(w)
  <2>1. [op |-> "write", live |-> {d \in Devices : up[d]}] \in Jobs
    BY DEF Jobs
  <2>2. QED
    BY <1>1, <2>1 DEF Sweep
<1>2. CASE ScanEnd(w)
  <2>1. AfterScan(w) \in Jobs
    BY DEF AfterScan, Jobs
  <2>2. QED
    BY <1>2, <2>1 DEF ScanEnd
<1>3. ASSUME NEW d \in Devices, SweepWrite(w, d) PROVE TypeOK'
  <2>1. job[w] \in [op : {"write"}, live : SUBSET Devices]
    BY <1>3, JobKinds DEF SweepWrite
  <2>2. [job[w] EXCEPT !.live = @ \ {d}] \in Jobs
    BY <2>1 DEF Jobs
  <2>3. [known |-> TRUE, monitored |-> device[d].monitored, status |-> "UP", failures |-> 0]
          \in DeviceRows
    BY NetworkAssumption DEF DeviceRows, Statuses, Failures
  <2>4. QED
    BY <1>3, <2>2, <2>3 DEF SweepWrite
<1>4. QED
  BY <1>1, <1>2, <1>3 DEF SweepStep

\* The alert rows stay typed, and only a check that clears takes active alerts away.
LEMMA AlertsAfter ==
  ASSUME TypeOK, NEW d \in Devices, NEW s \in Seen, RaiseOrClear(d, Resolve(s))
  PROVE  /\ alert' \in [Devices -> [Alerts -> AlertStates]]
         /\ \A e \in Devices \ {d} : alert'[e] = alert[e]
         /\ Resolve(s).status = "DOWN" =>
              \/ ActiveAlerts(d)' # {}
              \/ s.status = "DOWN" /\ alert' = alert
<1> DEFINE r == Resolve(s)
<1>1. CASE r.clear
  <2>1. alert' = [alert EXCEPT ![d] = [n \in Alerts |->
                    IF n \in ActiveAlerts(d) THEN "RESOLVED" ELSE alert[d][n]]]
    BY <1>1 DEF RaiseOrClear, Resolve, Back, Missed
  <2>2. r.status = "UP"
    BY <1>1 DEF Resolve, Back, Missed
  <2>3. QED
    BY <2>1, <2>2 DEF TypeOK, AlertStates
<1>2. CASE ~r.clear /\ alert' # alert
  <2>1. PICK n \in Alerts : alert' = [alert EXCEPT ![d][n] = "OPEN"]
    BY <1>2 DEF RaiseOrClear
  <2>2. alert'[d][n] = "OPEN"
    BY <2>1 DEF TypeOK
  <2>3. QED
    BY <2>1, <2>2 DEF TypeOK, AlertStates, ActiveAlerts
<1>3. CASE ~r.clear /\ alert' = alert
  <2>1. r.raise => ActiveAlerts(d) # {}
    <3>1. ASSUME NEW n \in Alerts, alert' = [alert EXCEPT ![d][n] = "OPEN"]
          PROVE  ActiveAlerts(d) # {}
      <4>1. alert[d][n] = "OPEN"
        BY <1>3, <3>1 DEF TypeOK
      <4>2. QED
        BY <4>1 DEF ActiveAlerts
    <3>2. QED
      BY <1>3, <3>1 DEF RaiseOrClear
  <2>2. r.status = "DOWN" => r.raise \/ s.status = "DOWN"
    BY DEF Resolve, Back, Missed
  <2>3. QED
    BY <1>3, <2>1, <2>2 DEF TypeOK, AlertStates, ActiveAlerts
<1>4. QED
  BY <1>1, <1>2, <1>3

LEMMA CheckTypes ==
  ASSUME TypeOK, NEW p \in Pollers, NEW d \in Devices, CheckProbe(p, d) \/ Record(p, d)
  PROVE  TypeOK'
<1> USE DEF TypeOK, Become, rows, clock, scans
<1>1. p \in Workers /\ job[p] \in CheckJobs /\ d \in DOMAIN job[p].seen
  BY JobKinds DEF Workers, CheckProbe, Record
<1>2. job[p].seen[d] \in Seen
  BY <1>1, SeenRows
<1>3. CASE CheckProbe(p, d)
  <2> DEFINE o == IF up[d] THEN "reply" ELSE "miss"
             f == [job[p].seen EXCEPT ![d].outcome = o]
  <2>1. [job[p].seen[d] EXCEPT !.outcome = o] \in Seen
    BY <1>2 DEF Seen
  <2>2. f \in [DOMAIN job[p].seen -> Seen]
    BY <1>1, <2>1, SeenRows
  <2>3. [op |-> "check", seen |-> f] \in Jobs
    BY <1>1, <2>2, SeenRows, CheckJobsMade
  <2>4. [job[p] EXCEPT !.seen[d].outcome = o] = [op |-> "check", seen |-> f]
    <3>1. job[p] = [op |-> "check", seen |-> job[p].seen]
      BY <1>1 DEF CheckJobs
    <3>2. QED
      BY <3>1
  <2>5. QED
    BY <1>1, <1>3, <2>3, <2>4 DEF CheckProbe
<1>4. CASE Record(p, d)
  <2> DEFINE r == Resolve(job[p].seen[d])
  <2>1. [device[d] EXCEPT !.status = r.status, !.failures = r.failures] \in DeviceRows
    BY <1>2, ResolveTyped DEF DeviceRows
  <2>2. device' = [device EXCEPT ![d] = [device[d] EXCEPT !.status = r.status,
                                                          !.failures = r.failures]]
    BY <1>4 DEF Record
  <2>3. device' \in [Devices -> DeviceRows]
    BY <2>1, <2>2
  <2>4. alert' \in [Devices -> [Alerts -> AlertStates]]
    BY <1>2, <1>4, AlertsAfter DEF Record
  <2>5. [job[p] EXCEPT !.seen = Less(@, d)] \in Jobs
    BY <1>1, CheckJobsMade
  <2>6. QED
    BY <1>1, <1>4, <2>3, <2>4, <2>5 DEF Record, AlertStates
<1>5. QED
  BY <1>3, <1>4

LEMMA PollerTypes ==
  ASSUME TypeOK, NEW p \in Pollers, PollerStep(p)
  PROVE  TypeOK'
<1> USE DEF TypeOK, Become, rows, clock, scans
<1>1. p \in Workers
  BY DEF Workers
<1>2. CASE Tick(p)
  <2>1. [op |-> "claim"] \in Jobs /\ [op |-> "due"] \in Jobs
    BY DEF Jobs
  <2>2. QED
    BY <1>1, <1>2, <2>1 DEF Tick
<1>3. CASE DueChecks(p)
  <2> DEFINE f == [d \in DueDevices |-> [status |-> device[d].status,
                                         failures |-> device[d].failures,
                                         outcome |-> "pending"]]
  <2>1. DueDevices \in SUBSET Devices
    BY DEF DueDevices
  <2>2. f \in [DueDevices -> Seen]
    BY <2>1 DEF DeviceRows, Seen
  <2>3. [op |-> "check", seen |-> f] \in Jobs
    BY <2>1, <2>2, CheckJobsMade
  <2>4. QED
    BY <1>1, <1>3, <2>3 DEF DueChecks
<1>4. CASE TickEnd(p)
  BY <1>1, <1>4 DEF TickEnd, Jobs
<1>5. CASE SweepStep(p)
  BY <1>1, <1>5, SweepTypes
<1>6. QED
  BY <1>2, <1>3, <1>4, <1>5, CheckTypes DEF PollerStep

LEMMA StaffTypes ==
  ASSUME TypeOK, NEW s \in Staff, StaffStep(s)
  PROVE  TypeOK'
<1> USE DEF TypeOK, Become, rows, clock, scans
<1>1. s \in Workers
  BY DEF Workers
<1>2. CASE ScanRequest(s)
  BY <1>1, <1>2 DEF ScanRequest, Jobs
<1>3. CASE AcknowledgeCommit(s)
  <2>1. job[s] \in AckJobs
    BY <1>1, <1>3, JobKinds DEF AcknowledgeCommit
  <2>2. alert' \in [Devices -> [Alerts -> AlertStates]]
    BY <1>3, <2>1 DEF AcknowledgeCommit, AckJobs, AlertStates
  <2>3. QED
    BY <1>1, <1>3, <2>2 DEF AcknowledgeCommit, Jobs, AlertStates
<1>4. ASSUME NEW d \in Devices, NEW n \in Alerts, AcknowledgeRead(s, d, n) PROVE TypeOK'
  BY <1>1, <1>4 DEF AcknowledgeRead, Jobs
<1>5. QED
  BY <1>1, <1>2, <1>3, <1>4, SweepTypes DEF StaffStep

\* What RemoveDevice makes of the jobs are jobs.
LEMMA JobsAfterRemoval ==
  ASSUME TypeOK, NEW d \in Devices, RemoveDevice(d)
  PROVE  /\ job' \in [Workers -> Jobs]
         /\ \A w \in Workers : job'[w].op = "check" =>
              job[w].op = "check" /\ job'[w].seen = Less(job[w].seen, d)
<1> DEFINE After(w) == CASE job[w].op = "check" -> [job[w] EXCEPT !.seen = Less(@, d)]
                         [] job[w].op = "acknowledge" /\ job[w].device = d -> Idle
                         [] OTHER -> job[w]
<1>1. job' = [w \in Workers |-> After(w)]
  BY DEF RemoveDevice
<1>2. ASSUME NEW w \in Workers
      PROVE  /\ After(w) \in Jobs
             /\ After(w).op = "check" =>
                  job[w].op = "check" /\ After(w).seen = Less(job[w].seen, d)
  <2>1. job[w] \in Jobs /\ Idle \in Jobs /\ Idle.op # "check"
    BY DEF TypeOK, Jobs, Idle
  <2>2. CASE job[w].op = "check"
    <3>1. job[w] \in CheckJobs
      BY <2>1, <2>2, JobKinds
    <3>2. After(w) = [job[w] EXCEPT !.seen = Less(@, d)]
      BY <2>2
    <3>3. After(w).seen = Less(job[w].seen, d)
      BY <3>1, <3>2 DEF CheckJobs
    <3>4. QED
      BY <2>2, <3>1, <3>2, <3>3, CheckJobsMade
  <2>3. CASE job[w].op # "check" /\ job[w].op = "acknowledge" /\ job[w].device = d
    BY <2>1, <2>3
  <2>4. CASE job[w].op # "check" /\ ~(job[w].op = "acknowledge" /\ job[w].device = d)
    BY <2>1, <2>4
  <2>5. QED
    BY <2>2, <2>3, <2>4
<1>3. QED
  BY <1>1, <1>2

LEMMA OperatorTypes ==
  ASSUME TypeOK,
         \/ \E d \in Devices : Edit(d) \/ Flip(d) \/ CheckAges(d)
         \/ \E on \in BOOLEAN : SetEnabled(on)
         \/ \E w \in Workers : Crash(w)
  PROVE  TypeOK'
<1> USE DEF TypeOK, Become, rows, clock, scans
<1>1. ASSUME NEW d \in Devices, NEW on \in BOOLEAN, SetMonitored(d, on) PROVE TypeOK'
  BY <1>1, NetworkAssumption DEF SetMonitored, DeviceRows, Statuses, Failures
<1>2. ASSUME NEW d \in Devices, RemoveDevice(d) PROVE TypeOK'
  <2>1. NoDevice \in DeviceRows
    BY NetworkAssumption DEF NoDevice, DeviceRows, Statuses, Failures
  <2>2. job' \in [Workers -> Jobs]
    BY <1>2, JobsAfterRemoval
  <2>3. QED
    BY <1>2, <2>1, <2>2 DEF RemoveDevice
<1>3. ASSUME NEW d \in Devices, Flip(d) PROVE TypeOK'
  BY <1>3 DEF Flip
<1>4. ASSUME NEW d \in Devices, CheckAges(d) PROVE TypeOK'
  BY <1>4 DEF CheckAges
<1>5. ASSUME NEW on \in BOOLEAN, SetEnabled(on) PROVE TypeOK'
  BY <1>5 DEF SetEnabled
<1>6. ASSUME NEW w \in Workers, Crash(w) PROVE TypeOK'
  <2>1. crashes' \in 0 .. MaxCrashes
    BY <1>6, NetworkAssumption DEF Crash
  <2>2. QED
    BY <1>6, <2>1 DEF Crash, Jobs
<1>7. QED
  BY <1>1, <1>2, <1>3, <1>4, <1>5, <1>6 DEF Edit

LEMMA NextTypes == TypeOK /\ [Next]_vars => TypeOK'
<1> SUFFICES ASSUME TypeOK, [Next]_vars PROVE TypeOK'
  OBVIOUS
<1>1. CASE UNCHANGED vars
  BY <1>1 DEF vars, TypeOK
<1>2. CASE Next
  BY <1>2, PollerTypes, StaffTypes, OperatorTypes DEF Next
<1>3. QED
  BY <1>1, <1>2

\* Every variable stays within its table's columns.
THEOREM TypeCorrect == Spec => []TypeOK
BY InitTypes, NextTypes, PTL DEF Spec
-----------------------------------------------------------------------------
(***************************************************************************)
(* Alerts, with a single poller.  What a check has seen DOWN must still    *)
(* have an alert when the check is recorded: only records and removals     *)
(* take alerts away, and a single poller records one check at a time.      *)
(***************************************************************************)
SeenDownHasAlert ==
  \A p \in Pollers : job[p].op = "check" =>
    \A d \in DOMAIN job[p].seen : job[p].seen[d].status = "DOWN" => ActiveAlerts(d) # {}

IInv == TypeOK /\ DownHasAlert /\ SeenDownHasAlert

\* A step that leaves the alerts alone, stores no new DOWN and sees only rows
\* that are stored, or that were seen before.
NothingNewDown ==
  /\ alert' = alert
  /\ \A d \in Devices : device'[d].status = "DOWN" => device[d].status = "DOWN"
  /\ \A p \in Pollers : job'[p].op = "check" =>
       \A d \in DOMAIN job'[p].seen : job'[p].seen[d].status = "DOWN" =>
         \/ d \in Devices /\ device[d].status = "DOWN"
         \/ /\ job[p].op = "check" /\ d \in DOMAIN job[p].seen
            /\ job[p].seen[d].status = "DOWN"

LEMMA NothingNewDownStep ==
  ASSUME IInv, NothingNewDown
  PROVE  DownHasAlert' /\ SeenDownHasAlert'
<1>1. \A d : ActiveAlerts(d)' = ActiveAlerts(d)
  BY DEF NothingNewDown, ActiveAlerts
<1>2. DownHasAlert'
  BY <1>1 DEF IInv, DownHasAlert, NothingNewDown
<1>3. SeenDownHasAlert'
  BY <1>1 DEF IInv, DownHasAlert, SeenDownHasAlert, NothingNewDown
<1>4. QED
  BY <1>2, <1>3

\* A worker that takes up a job other than a check sees nothing.
LEMMA OtherJob ==
  ASSUME TypeOK, NEW w \in Workers, NEW j, Become(w, j), j.op # "check", alert' = alert,
         \A d \in Devices : device'[d].status = "DOWN" => device[d].status = "DOWN"
  PROVE  NothingNewDown
<1>1. ASSUME NEW p \in Pollers, job'[p].op = "check" PROVE job'[p] = job[p]
  BY <1>1 DEF Become, TypeOK, Workers
<1>2. ASSUME NEW p \in Pollers, job'[p].op = "check", NEW d \in DOMAIN job'[p].seen,
             job'[p].seen[d].status = "DOWN"
      PROVE  job[p].op = "check" /\ d \in DOMAIN job[p].seen /\ job[p].seen[d].status = "DOWN"
  BY <1>1, <1>2
<1>3. QED
  BY <1>2 DEF NothingNewDown

LEMMA SweepQuiet ==
  ASSUME TypeOK, NEW w \in Workers, SweepStep(w)
  PROVE  NothingNewDown
<1> USE DEF rows, clock, scans
<1>1. CASE Sweep(w)
  BY <1>1, OtherJob DEF Sweep
<1>2. CASE ScanEnd(w)
  BY <1>2, OtherJob DEF ScanEnd, AfterScan, Idle
<1>3. ASSUME NEW d \in Devices, SweepWrite(w, d) PROVE NothingNewDown
  <2>1. job[w] \in [op : {"write"}, live : SUBSET Devices]
    BY <1>3, JobKinds DEF SweepWrite, TypeOK
  <2>2. [job[w] EXCEPT !.live = @ \ {d}].op # "check"
    BY <2>1
  <2>3. \A e \in Devices : device'[e].status = "DOWN" => device[e].status = "DOWN"
    BY <1>3 DEF SweepWrite, TypeOK
  <2>4. QED
    BY <1>3, <2>2, <2>3, OtherJob DEF SweepWrite
<1>4. QED
  BY <1>1, <1>2, <1>3 DEF SweepStep

LEMMA PollerQuiet ==
  ASSUME TypeOK, NEW p \in Pollers,
         Tick(p) \/ DueChecks(p) \/ TickEnd(p) \/ \E d \in Devices : CheckProbe(p, d)
  PROVE  NothingNewDown
<1> USE DEF rows, clock, scans
<1>1. p \in Workers
  BY DEF Workers
<1>2. CASE Tick(p)
  BY <1>1, <1>2, OtherJob DEF Tick
<1>3. CASE DueChecks(p)
  <2> DEFINE f == [d \in DueDevices |-> [status |-> device[d].status,
                                         failures |-> device[d].failures,
                                         outcome |-> "pending"]]
  <2>1. job' = [job EXCEPT ![p] = [op |-> "check", seen |-> f]] /\ UNCHANGED rows
    BY <1>3 DEF DueChecks, Become
  <2>2. \A q \in Pollers : q # p => job'[q] = job[q]
    BY <2>1 DEF TypeOK, Workers
  <2>3. job'[p].seen = f /\ DueDevices \subseteq Devices
    BY <1>1, <2>1 DEF TypeOK, DueDevices
  <2>4. \A d \in DOMAIN job'[p].seen :
          job'[p].seen[d].status = "DOWN" => d \in Devices /\ device[d].status = "DOWN"
    BY <2>3
  <2>5. QED
    BY <2>1, <2>2, <2>4 DEF NothingNewDown
<1>4. CASE TickEnd(p)
  BY <1>1, <1>4, OtherJob DEF TickEnd, Idle
<1>5. ASSUME NEW d \in Devices, CheckProbe(p, d) PROVE NothingNewDown
  <2> DEFINE o == IF up[d] THEN "reply" ELSE "miss"
  <2>1. job[p] \in CheckJobs /\ d \in DOMAIN job[p].seen
    BY <1>1, <1>5, JobKinds DEF CheckProbe, TypeOK
  <2>2. job' = [job EXCEPT ![p].seen[d].outcome = o] /\ UNCHANGED rows
    BY <1>5 DEF CheckProbe, Become
  <2>3. \A q \in Pollers : q # p => job'[q] = job[q]
    BY <2>2 DEF TypeOK, Workers
  <2>4. job'[p] = [job[p] EXCEPT !.seen[d].outcome = o]
    BY <1>1, <2>2 DEF TypeOK
  <2>5. job'[p].seen = [job[p].seen EXCEPT ![d].outcome = o]
    <3>1. job[p] = [op |-> "check", seen |-> job[p].seen]
      BY <2>1 DEF CheckJobs
    <3>2. QED
      BY <2>4, <3>1
  <2>6. \A e \in DOMAIN job'[p].seen :
          e \in DOMAIN job[p].seen /\ job'[p].seen[e].status = job[p].seen[e].status
    BY <2>1, <2>5, SeenRows DEF Seen
  <2>7. job[p].op = "check"
    BY <2>1 DEF CheckJobs
  <2>8. QED
    BY <2>2, <2>3, <2>6, <2>7 DEF NothingNewDown
<1>6. QED
  BY <1>2, <1>3, <1>4, <1>5

LEMMA OperatorQuiet ==
  ASSUME TypeOK,
         \/ \E d \in Devices : Flip(d) \/ CheckAges(d) \/ \E on \in BOOLEAN : SetMonitored(d, on)
         \/ \E on \in BOOLEAN : SetEnabled(on)
         \/ \E w \in Workers : Crash(w)
         \/ \E s \in Staff : \/ ScanRequest(s)
                             \/ \E d \in Devices, n \in Alerts : AcknowledgeRead(s, d, n)
  PROVE  NothingNewDown
<1> USE DEF rows, clock, scans
<1>1. ASSUME NEW w \in Workers, Crash(w) PROVE NothingNewDown
  BY <1>1, OtherJob DEF Crash, Idle
<1>2. ASSUME NEW s \in Staff, ScanRequest(s) PROVE NothingNewDown
  BY <1>2, OtherJob DEF ScanRequest, Workers
<1>3. ASSUME NEW s \in Staff, NEW d \in Devices, NEW n \in Alerts, AcknowledgeRead(s, d, n)
      PROVE  NothingNewDown
  BY <1>3, OtherJob DEF AcknowledgeRead, Workers
<1>4. ASSUME NEW d \in Devices, NEW on \in BOOLEAN, SetMonitored(d, on) PROVE NothingNewDown
  <2>1. \A e \in Devices : device'[e].status = "DOWN" => device[e].status = "DOWN"
    BY <1>4 DEF SetMonitored, TypeOK
  <2>2. QED
    BY <1>4, <2>1 DEF SetMonitored, NothingNewDown
<1>5. ASSUME UNCHANGED <<device, alert, job>> PROVE NothingNewDown
  BY <1>5 DEF NothingNewDown
<1>6. QED
  BY <1>1, <1>2, <1>3, <1>4, <1>5 DEF Flip, CheckAges, SetEnabled

\* Acknowledging makes alerts active and checks nothing.
LEMMA AcknowledgeStep ==
  ASSUME IInv, NEW s \in Staff, AcknowledgeCommit(s)
  PROVE  DownHasAlert' /\ SeenDownHasAlert'
<1>1. s \in Workers /\ s \notin Pollers /\ job[s] \in AckJobs
  BY NetworkAssumption, JobKinds DEF IInv, TypeOK, Workers, AcknowledgeCommit
<1>2. \A d \in Devices : ActiveAlerts(d) # {} => ActiveAlerts(d)' # {}
  BY <1>1 DEF IInv, TypeOK, AcknowledgeCommit, ActiveAlerts, AckJobs
<1>3. \A p \in Pollers : job'[p] = job[p]
  BY <1>1 DEF IInv, TypeOK, AcknowledgeCommit, Become, Workers
<1>4. UNCHANGED device
  BY DEF AcknowledgeCommit
<1>5. \A p \in Pollers : job[p].op = "check" => DOMAIN job[p].seen \subseteq Devices
  BY JobKinds, SeenRows DEF IInv, TypeOK, Workers
<1>6. QED
  BY <1>2, <1>3, <1>4, <1>5 DEF IInv, DownHasAlert, SeenDownHasAlert

\* Removing a device removes what was seen of it.
LEMMA RemovalStep ==
  ASSUME IInv, NEW d \in Devices, RemoveDevice(d)
  PROVE  DownHasAlert' /\ SeenDownHasAlert'
<1>1. device'[d].status # "DOWN" /\ \A e \in Devices \ {d} : device'[e] = device[e]
  BY DEF IInv, TypeOK, RemoveDevice, NoDevice
<1>2. \A e \in Devices \ {d} : ActiveAlerts(e)' = ActiveAlerts(e)
  BY DEF IInv, TypeOK, RemoveDevice, ActiveAlerts
<1>3. \A p \in Pollers : job'[p].op = "check" =>
        job[p].op = "check" /\ job'[p].seen = Less(job[p].seen, d)
  BY JobsAfterRemoval DEF IInv, Workers
<1>4. \A p \in Pollers : job[p].op = "check" => DOMAIN job[p].seen \subseteq Devices
  BY JobKinds, SeenRows DEF IInv, TypeOK, Workers
<1>5. DownHasAlert'
  BY <1>1, <1>2 DEF IInv, DownHasAlert
<1>6. SeenDownHasAlert'
  <2> SUFFICES ASSUME NEW p \in Pollers, job'[p].op = "check", NEW e \in DOMAIN job'[p].seen,
                      job'[p].seen[e].status = "DOWN"
               PROVE  ActiveAlerts(e)' # {}
    BY DEF SeenDownHasAlert
  <2>1. /\ job[p].op = "check" /\ e \in DOMAIN job[p].seen \ {d}
        /\ job'[p].seen[e] = job[p].seen[e]
    BY <1>3 DEF Less
  <2>2. ActiveAlerts(e) # {} /\ e \in Devices
    BY <1>4, <2>1 DEF IInv, SeenDownHasAlert
  <2>3. QED
    BY <1>2, <2>1, <2>2
<1>7. QED
  BY <1>5, <1>6

\* The only poller records: what it stores DOWN was seen DOWN, with an alert, or
\* raises one; what it still has to record belongs to other devices.
LEMMA RecordStep ==
  ASSUME \A p, q \in Pollers : p = q, IInv, NEW p \in Pollers, NEW d \in Devices, Record(p, d)
  PROVE  DownHasAlert' /\ SeenDownHasAlert'
<1> DEFINE s == job[p].seen[d]
<1>1. p \in Workers /\ job[p] \in CheckJobs /\ d \in DOMAIN job[p].seen
  BY JobKinds DEF IInv, TypeOK, Workers, Record
<1>2. s \in Seen /\ DOMAIN job[p].seen \subseteq Devices
  BY <1>1, SeenRows
<1>3. /\ device'[d].status = Resolve(s).status
      /\ \A e \in Devices \ {d} : device'[e] = device[e]
  BY DEF IInv, TypeOK, DeviceRows, Record
<1>4. /\ \A e \in Devices \ {d} : alert'[e] = alert[e]
      /\ Resolve(s).status = "DOWN" => \/ ActiveAlerts(d)' # {}
                                       \/ s.status = "DOWN" /\ alert' = alert
  BY <1>2, AlertsAfter DEF IInv, Record
<1>5. \A e \in Devices \ {d} : ActiveAlerts(e)' = ActiveAlerts(e)
  BY <1>4 DEF ActiveAlerts
<1>6. s.status = "DOWN" => ActiveAlerts(d) # {}
  BY <1>1 DEF IInv, SeenDownHasAlert, CheckJobs
<1>7. DownHasAlert'
  <2>1. device'[d].status = "DOWN" => ActiveAlerts(d)' # {}
    BY <1>3, <1>4, <1>6 DEF ActiveAlerts
  <2>2. QED
    BY <1>3, <1>5, <2>1 DEF IInv, DownHasAlert
<1>8. SeenDownHasAlert'
  <2>1. job'[p].seen = Less(job[p].seen, d) /\ job[p].op = "check"
    BY <1>1 DEF IInv, TypeOK, Record, Become, CheckJobs
  <2>2. \A e \in DOMAIN job'[p].seen : job'[p].seen[e].status = "DOWN" => ActiveAlerts(e)' # {}
    BY <1>2, <1>5, <2>1 DEF IInv, SeenDownHasAlert, Less
  <2>3. QED
    BY <2>2 DEF SeenDownHasAlert
<1>9. QED
  BY <1>7, <1>8

\* With one poller, a device stored as DOWN has an active alert, however sweeps,
\* operators and crashes interleave with its checks (record, resolveCheck).
THEOREM DownAlwaysHasAlert ==
  ASSUME \A p, q \in Pollers : p = q
  PROVE  Spec => []DownHasAlert
<1>1. Init => IInv
  BY InitTypes DEF Init, IInv, DownHasAlert, SeenDownHasAlert, NoDevice, Idle, Workers
<1>2. IInv /\ [Next]_vars => IInv'
  <2> SUFFICES ASSUME IInv, [Next]_vars PROVE IInv'
    OBVIOUS
  <2>1. TypeOK'
    BY NextTypes DEF IInv
  <2>2. CASE UNCHANGED vars
    <3>1. NothingNewDown
      BY <2>2 DEF vars, NothingNewDown
    <3>2. QED
      BY <2>1, <3>1, NothingNewDownStep DEF IInv
  <2>3. ASSUME NEW p \in Pollers, PollerStep(p) PROVE DownHasAlert' /\ SeenDownHasAlert'
    <3>1. p \in Workers
      BY DEF Workers
    <3>2. QED
      BY <2>3, <3>1, PollerQuiet, SweepQuiet, RecordStep, NothingNewDownStep
      DEF PollerStep, IInv
  <2>4. ASSUME NEW s \in Staff, StaffStep(s) PROVE DownHasAlert' /\ SeenDownHasAlert'
    <3>1. s \in Workers
      BY DEF Workers
    <3>2. QED
      BY <2>4, <3>1, OperatorQuiet, SweepQuiet, AcknowledgeStep, NothingNewDownStep
      DEF StaffStep, IInv
  <2>5. ASSUME \/ \E d \in Devices : Edit(d) \/ Flip(d) \/ CheckAges(d)
               \/ \E on \in BOOLEAN : SetEnabled(on)
               \/ \E w \in Workers : Crash(w)
        PROVE  DownHasAlert' /\ SeenDownHasAlert'
    <3>1. CASE \E d \in Devices : RemoveDevice(d)
      BY <3>1, RemovalStep
    <3>2. CASE ~ \E d \in Devices : RemoveDevice(d)
      <4>1. NothingNewDown
        BY <2>5, <3>2, OperatorQuiet DEF Edit, IInv
      <4>2. QED
        BY <4>1, NothingNewDownStep
    <3>3. QED
      BY <3>1, <3>2
  <2>6. QED
    BY <2>1, <2>2, <2>3, <2>4, <2>5 DEF Next, IInv
<1>3. QED
  <2>1. IInv => DownHasAlert
    BY DEF IInv
  <2>2. QED
    BY <1>1, <1>2, <2>1, PTL DEF Spec
=============================================================================
