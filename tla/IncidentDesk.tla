---------------------------- MODULE IncidentDesk ----------------------------
(***************************************************************************)
(* One incident record (incidents.service, incidents.rules): its status,   *)
(* who handles it, the assignment that records it, and the text each       *)
(* status asks for.  update and changeStatus read the record, decide, and  *)
(* write in a READ COMMITTED transaction that does not look again.         *)
(* Triggers of the database refuse a handler who is not eligible and keep  *)
(* the handler of an open incident eligible.                               *)
(***************************************************************************)
EXTENDS Naturals

CONSTANTS
  Operators,  \* Admin and IT accounts
  Admins,
  Requests,   \* requests that may be under way at once
  None, Absent

DeskAssumption ==
  /\ Admins \subseteq Operators /\ Admins # {}
  /\ None \notin Operators /\ Absent \notin Operators \cup {None}

VARIABLES
  incident,  \* incidents row
  primary,   \* whom the active PRIMARY row of incident_assignments names
  eligible,  \* active accounts in an active incident response department
  job        \* what each request has read

vars == <<incident, primary, eligible, job>>
-----------------------------------------------------------------------------
Statuses == {"NEW", "ACKNOWLEDGED", "IN_PROGRESS", "MONITORING", "RESOLVED",
             "CLOSED", "CANCELLED"}
Open     == {"NEW", "ACKNOWLEDGED", "IN_PROGRESS", "MONITORING"}
Final    == {"CLOSED", "CANCELLED"}

transitions == [s \in Statuses |->
  CASE s = "NEW"          -> {"ACKNOWLEDGED", "CANCELLED"}
    [] s = "ACKNOWLEDGED" -> {"IN_PROGRESS", "CANCELLED"}
    [] s = "IN_PROGRESS"  -> {"MONITORING", "RESOLVED"}
    [] s = "MONITORING"   -> {"IN_PROGRESS", "RESOLVED"}
    [] s = "RESOLVED"     -> {"IN_PROGRESS", "CLOSED"}
    [] OTHER              -> {}]

\* Staying where one is counts as a transition.
assertIncidentTransition(from, to) == from = to \/ to \in transitions[from]

\* What a status asks for: "fix" stands for resolution, rootCause and
\* correctiveAction, "lessons" for preventiveAction and lessonsLearned.
Texts == {"assessment", "containment", "fix", "lessons"}
Required == [s \in Statuses |->
  CASE s = "IN_PROGRESS" -> {"assessment"}
    [] s = "MONITORING"  -> {"assessment", "containment"}
    [] s = "RESOLVED"    -> {"assessment", "containment", "fix"}
    [] s = "CLOSED"      -> Texts
    [] OTHER             -> {}]

Complete(to, row) ==
  Required[to] \subseteq row.texts /\ (to \in {"NEW", "CANCELLED"} \/ row.handler # None)

Absentee == [status |-> "none", handler |-> None, texts |-> {}]
Records  == [status : Statuses \cup {"none", "deleted"}, handler : Operators \cup {None},
             texts : SUBSET Texts]

Idle == [op |-> "idle"]
Jobs == {Idle}
  \cup [op : {"update"}, to : Operators \cup {None, Absent}, changed : BOOLEAN,
        fill : SUBSET Texts, clear : SUBSET Texts]
  \cup [op : {"status"}, to : Statuses]

Exists == incident.status \in Statuses

Init ==
  /\ incident = Absentee /\ primary = None
  /\ eligible \in SUBSET Operators
  /\ job = [k \in Requests |-> Idle]
-----------------------------------------------------------------------------
(***************************************************************************)
(* Accounts and departments. The triggers keep whoever handles an open     *)
(* incident eligible; a RESOLVED one is not open.                          *)
(***************************************************************************)
Qualify(u) ==
  /\ u \notin eligible /\ eligible' = eligible \cup {u}
  /\ UNCHANGED <<incident, primary, job>>

Disqualify(u) ==
  /\ u \in eligible
  /\ ~(incident.handler = u /\ incident.status \in Open)
  /\ eligible' = eligible \ {u}
  /\ UNCHANGED <<incident, primary, job>>
-----------------------------------------------------------------------------
Create(u) ==
  /\ incident.status = "none" /\ u \in eligible \cup {None}
  /\ \E t \in SUBSET {"assessment"} :
       incident' = [status |-> "NEW", handler |-> u, texts |-> t]
  /\ primary' = u
  /\ UNCHANGED <<eligible, job>>

(***************************************************************************)
(* update: one text filled or emptied, the handler named, taken away or    *)
(* left alone; a form that names the handler it was opened with changes    *)
(* nothing, as far as the request can tell.                                *)
(***************************************************************************)
UpdateRead(k) ==
  /\ job[k] = Idle /\ Exists /\ incident.status \notin Final
  /\ \E to \in eligible \cup {None, Absent}, fill \in SUBSET Texts, clear \in SUBSET Texts :
       /\ fill \cap clear = {} /\ (fill = {} \/ \E t \in Texts : fill = {t})
       /\ clear = {} \/ \E t \in Texts : clear = {t}
       /\ job' = [job EXCEPT ![k] = [op |-> "update", to |-> to, fill |-> fill, clear |-> clear,
                    changed |-> to \notin {Absent, incident.handler}]]
  /\ UNCHANGED <<incident, primary, eligible>>

\* What becomes of the assignment: the active one is released and a new one
\* made. Mutant: the old one stays when nobody follows.
NextPrimaryIfNamed(j) == IF j.changed /\ j.to # None THEN j.to ELSE primary
NextPrimary(j) == IF j.changed THEN j.to ELSE primary

UpdateCommit(k) ==
  /\ job[k].op = "update"
  /\ IF ~Exists \/ job[k].to \notin eligible \cup {None, Absent}
     THEN UNCHANGED <<incident, primary>>
     ELSE /\ incident' = [incident EXCEPT
               !.handler = IF job[k].to = Absent THEN @ ELSE job[k].to,
               !.texts = (@ \cup job[k].fill) \ job[k].clear]
          /\ primary' = NextPrimary(job[k])
  /\ job' = [job EXCEPT ![k] = Idle]
  /\ UNCHANGED eligible

\* changeStatus, for its handler, an Admin, or anyone while there is none.
StatusRead(k, u, to) ==
  /\ job[k] = Idle /\ Exists
  /\ assertIncidentTransition(incident.status, to)
  /\ Complete(to, incident)
  /\ incident.handler = None \/ u \in Admins \/ u = incident.handler
  /\ job' = [job EXCEPT ![k] = [op |-> "status", to |-> to]]
  /\ UNCHANGED <<incident, primary, eligible>>

StatusCommit(k) ==
  /\ job[k].op = "status"
  /\ IF Exists
     THEN /\ incident' = [incident EXCEPT !.status = job[k].to]
          /\ primary' = IF job[k].to \in Final THEN None ELSE primary
     ELSE UNCHANGED <<incident, primary>>
  /\ job' = [job EXCEPT ![k] = Idle]
  /\ UNCHANGED eligible

Remove ==
  /\ Exists /\ incident' = [Absentee EXCEPT !.status = "deleted"] /\ primary' = None
  /\ UNCHANGED <<eligible, job>>
-----------------------------------------------------------------------------
Next ==
  \/ \E u \in Operators : Qualify(u) \/ Disqualify(u)
  \/ \E u \in Operators \cup {None} : Create(u)
  \/ \E k \in Requests : \/ UpdateRead(k) \/ UpdateCommit(k) \/ StatusCommit(k)
                         \/ \E u \in Operators, to \in Statuses : StatusRead(k, u, to)
  \/ Remove

Spec == Init /\ [][Next]_vars
-----------------------------------------------------------------------------
TypeOK ==
  /\ incident \in Records
  /\ primary \in Operators \cup {None}
  /\ eligible \subseteq Operators
  /\ job \in [Requests -> Jobs]

(***************************************************************************)
(* One request at a time: the assignment that is active is the one of the  *)
(* handler, and none is once the record is closed or cancelled.            *)
(***************************************************************************)
AssignmentMatches ==
  Exists => primary = (IF incident.status \in Final THEN None ELSE incident.handler)

(***************************************************************************)
(* One request at a time: a closed record has a handler and every text,    *)
(* though each may be emptied until the day it is closed.                  *)
(***************************************************************************)
ClosedIsComplete ==
  incident.status = "CLOSED" => incident.handler # None /\ incident.texts = Texts

\* Both: what the desk promises of a record.
IncidentsKept == AssignmentMatches /\ ClosedIsComplete
=============================================================================
