---------------------------- MODULE DisposalScreen --------------------------
(***************************************************************************)
(* The page Thanh ly & huy bo (DisposalManagement.tsx): the register of    *)
(* disposal cases, the form that raises one and the drawer that takes it   *)
(* through its workflow.                                                   *)
(***************************************************************************)
EXTENDS ScreenSteps, TLC

Statuses   == {"DRAFT", "SUBMITTED", "APPROVED", "REJECTED", "IN_EXECUTION", "COMPLETED",
               "CANCELLED"}
Ended      == {"COMPLETED", "CANCELLED", "REJECTED"}
Executable == {"APPROVED", "IN_EXECUTION"}
-----------------------------------------------------------------------------
(***************************************************************************)
(* What disposals.service lets through; who asked for the case, its        *)
(* evidence and the state of its assets decide as well.                    *)
(***************************************************************************)
createRoute    == Hiding(Operators, Route(Operators, {<<Absent, "DRAFT">>}))
submitRoute    == Hiding(Operators, Route(Operators, {<<"DRAFT", "SUBMITTED">>}))
approveRoute   == Hiding({"Admin"}, Route({"Admin"}, {<<"SUBMITTED", "APPROVED">>}))
rejectRoute    == Hiding({"Admin"}, Route({"Admin"}, {<<"SUBMITTED", "REJECTED">>}))
startRoute     == Route(Operators, {<<"APPROVED", "IN_EXECUTION">>})
executionRoute == Route(Operators, Stay(Executable))
completeRoute  == Hiding(Operators, Route(Operators, {<<"IN_EXECUTION", "COMPLETED">>}))
cancelRoute    == Hiding(Operators, Route(Operators, From(Statuses \ Ended, "CANCELLED")))
removeRoute    == Route({"Admin"}, From(Statuses, Gone))
-----------------------------------------------------------------------------
\* The summary, the cases of the filter and the assets that may be chosen.
load == Lists

open == <<Fetch>>

remove        == <<Move(removeRoute, {"leave"}), load>>
action(route) == <<Move(route, {"show"}), load>>
create        == <<Move(createRoute, {"shut", "show"}), load>>
reload        == <<Fetch, load>>
evidence      == <<Edit(executionRoute, {"shut"})>> \o reload
sanitize      == <<Edit(executionRoute, {})>> \o reload

CreateDisposalModal == Form(Operators, {<<Absent, "DRAFT">>}, create)

\* The form stays open whatever becomes of the case it was opened on.
EvidenceForm == Sheet(Operators, Stay(Executable), evidence)

DisposalDetail == [
  sanitize |-> Button(Operators, Stay(Executable), sanitize),
  submit   |-> Button(Operators, {<<"DRAFT", "SUBMITTED">>}, action(submitRoute)),
  reject   |-> Button({"Admin"}, {<<"SUBMITTED", "REJECTED">>}, action(rejectRoute)),
  approve  |-> Button({"Admin"}, {<<"SUBMITTED", "APPROVED">>}, action(approveRoute)),
  start    |-> Button(Operators, {<<"APPROVED", "IN_EXECUTION">>}, action(startRoute)),
  complete |-> Button(Operators, {<<"IN_EXECUTION", "COMPLETED">>}, action(completeRoute)),
  cancel   |-> Button(Operators, From(Statuses \ Ended, "CANCELLED"), action(cancelRoute)),
  delete   |-> Button({"Admin"}, From(Statuses, Gone), remove)]

DisposalManagement == Opening(open, Operators, Statuses,
  [create |-> CreateDisposalModal, evidence |-> EvidenceForm] @@ DisposalDetail)
=============================================================================
