---------------------------- MODULE IncidentScreen --------------------------
(***************************************************************************)
(* The page Bao tri & Su co (IncidentManagement.tsx): the register, the    *)
(* form that reports an incident, and the drawer that works on one.        *)
(***************************************************************************)
EXTENDS ScreenSteps

Statuses == {"NEW", "ACKNOWLEDGED", "IN_PROGRESS", "MONITORING", "RESOLVED",
             "CLOSED", "CANCELLED"}
Final    == {"CLOSED", "CANCELLED"}
Working  == Statuses \ Final

\* Which statuses the drawer offers next.
nextStatuses == Table(
  [NEW |-> {"ACKNOWLEDGED", "CANCELLED"}, ACKNOWLEDGED |-> {"IN_PROGRESS", "CANCELLED"},
   IN_PROGRESS |-> {"MONITORING", "RESOLVED"}, MONITORING |-> {"IN_PROGRESS", "RESOLVED"},
   RESOLVED |-> {"IN_PROGRESS", "CLOSED"}, CLOSED |-> {}, CANCELLED |-> {}])

\* What incidents.rules lets through; staying passes too.
assertIncidentTransition == Stay(Statuses) \cup Table(
  [NEW |-> {"ACKNOWLEDGED", "CANCELLED"}, ACKNOWLEDGED |-> {"IN_PROGRESS", "CANCELLED"},
   IN_PROGRESS |-> {"MONITORING", "RESOLVED"}, MONITORING |-> {"IN_PROGRESS", "RESOLVED"},
   RESOLVED |-> {"IN_PROGRESS", "CLOSED"}])

createRoute == Route(Operators, {<<Absent, "NEW">>})
updateRoute == Route(Operators, Stay(Working))
noteRoute   == Route(Operators, Stay(Statuses))
removeRoute == Route({"Admin"}, From(Statuses, Gone))

\* IT may find that the incident is someone else's.
statusRoute == Hiding({"IT"}, Route(Operators, assertIncidentTransition))
-----------------------------------------------------------------------------
\* The summary, then the page of the register it spans.
load == Lists

saveNew    == <<Move(createRoute, {"shut"}), load>>
openDetail == <<Fetch>>

refreshSelected == <<Fetch, load>>
updateIncident  == <<Edit(updateRoute, {})>> \o refreshSelected
changeStatus    == <<Move(statusRoute, {})>> \o refreshSelected
addNote         == <<Edit(noteRoute, {})>> \o refreshSelected
removeIncident  == <<Move(removeRoute, {"leave"}), load>>

\* IncidentCreateModal
submit == Form(Operators, {<<Absent, "NEW">>}, saveNew)

\* IncidentDetail: the form is saved before the status moves.
persist    == Busy("saving", Button(Operators, Stay(Working), updateIncident))
transition == Busy("transitioning",
  Button(Operators, nextStatuses, updateIncident \o changeStatus))
add        == Button(Operators, Stay(Working), addNote)
delete     == Button({"Admin"}, From(Statuses, Gone), removeIncident)

IncidentManagement == Opening(openDetail, Operators, Statuses,
  [submit |-> submit, persist |-> persist, transition |-> transition,
   add |-> add, delete |-> delete])
=============================================================================
