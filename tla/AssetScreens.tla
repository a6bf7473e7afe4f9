---------------------------- MODULE AssetScreens ----------------------------
(***************************************************************************)
(* The pages that keep the register of assets (App.tsx): the register and  *)
(* the hand-over desk, with their forms and the view of one asset; and the *)
(* page where assets are taken in.  An asset is READY, HANDED out (it has  *)
(* a custodian), IDLE (it has none and is not ready), or DISPOSED of.  The *)
(* correction of a status by an administrator is left out.                 *)
(***************************************************************************)
EXTENDS ScreenSteps

Kept     == {"READY", "HANDED", "IDLE"}
Statuses == Kept \cup {"DISPOSED"}

\* Issue and loan, return, and transfer.
Handover == {<<"READY", "HANDED">>, <<"HANDED", "READY">>, <<"HANDED", "IDLE">>}
-----------------------------------------------------------------------------
(***************************************************************************)
(* What the services let through.  Codes, warehouses, people and the       *)
(* department of HCNS decide as well.                                      *)
(***************************************************************************)
createRoute   == Hiding(Operators, Route(Operators, {<<Absent, "READY">>}))
updateRoute   == Hiding(Everybody, Route(Everybody, Stay(Statuses)))
imageRoute    == Hiding(Everybody, Route(Everybody, Stay(Statuses)))
handoverRoute == Hiding(Everybody, Route(Everybody, Handover \cup Stay(Kept)))
bulkRoute     == Hiding(Everybody, Route(Everybody, {<<"READY", "HANDED">>}))
removeRoute   == Route({"Admin"}, From(Statuses, Gone))
removeIdleRoute == Hiding({"IT"}, Route({"IT"}, {<<"READY", Gone>>}))
commitRoute   == createRoute
-----------------------------------------------------------------------------
\* The settings, then the assets with all that the pages choose from: an
\* error anywhere ends it with nothing shown.
refreshServerData(then) == Reload(then)

\* The record, then its picture.
saveNew == <<Move(createRoute, {}), Edit(imageRoute, {}), refreshServerData({"shut"})>>
save    == <<Edit(updateRoute, {}), Edit(imageRoute, {}), refreshServerData({"shut"})>>

\* The asset is fetched for the hand-over paper.
saveAssignment == <<Move(handoverRoute, {}), Call("fetch", NoRoute, {}), refreshServerData({"shut"})>>
saveBulkAssignment == <<Move(bulkRoute, {}), refreshServerData({"shut"})>>

remove     == <<Move(removeRoute, {}), refreshServerData({})>>
removeIdle == <<Move(removeIdleRoute, {}), refreshServerData({})>>

\* AssetModal: no flag keeps it from being sent twice.
AssetModal(moves, run) == OpenForm(Everybody, moves, run)

\* AssignmentModal: hand out what is ready, take back what has a custodian,
\* or transfer anything.
AssignmentModal == Fresh(Form(Everybody, Handover \cup Stay(Statuses), saveAssignment))

\* BulkAssignmentModal, opened on the assets selected that are in stock.
BulkAssignmentModal == Fresh(Form(Everybody, {<<"READY", "HANDED">>}, saveBulkAssignment))

\* AssetDetail: the notes; what else it shows is caught when it fails.
loadOverview == Call("peek", NoRoute, {})
saveNotes    == Busy("notes", Button(Everybody, Stay(Statuses),
  <<Edit(updateRoute, {}), loadOverview, refreshServerData({})>>))

AssetBook == Screen(Everybody, Statuses, <<>>, "place",
  [saveNew        |-> AssetModal({<<Absent, "READY">>}, saveNew),
   save           |-> AssetModal(Stay(Statuses), save),
   saveAssignment |-> AssignmentModal,
   remove         |-> OnRow({"Admin"}, From(Statuses, Gone), remove),
   removeIdle     |-> OnRow({"IT", "HCNS"}, From(Statuses, Gone), removeIdle),
   saveNotes      |-> saveNotes])

OperationsDashboard == Screen(Everybody, Statuses, <<>>, "place",
  [saveAssignment     |-> AssignmentModal,
   saveBulkAssignment |-> BulkAssignmentModal,
   saveNotes          |-> saveNotes])

UnguardedForms == {"saveNew"}

\* Offered to those the API refuses: HCNS makes no asset, IT takes only
\* what is ready off the register and HCNS nothing.
Offered == {"saveNew", "removeIdle"}
-----------------------------------------------------------------------------
(***************************************************************************)
(* BarcodeCenter.  The form for one asset is cleared as it is sent, its    *)
(* picture is not sent at all; a file is staged and then committed, one    *)
(* record standing for its rows.                                           *)
(***************************************************************************)
saveIntake   == <<Move(createRoute, {}), refreshServerData({})>>
importAssets == <<Elsewhere, Move(commitRoute, {}), refreshServerData({"shut"})>>

IntakeForm        == Blind(OpenForm(Everybody, {<<Absent, "READY">>}, saveIntake))
IntakeExcelImport == Form(Everybody, {<<Absent, "READY">>}, importAssets)

BarcodeCenter == Register(Everybody, Statuses,
  [saveIntake |-> IntakeForm, importAssets |-> IntakeExcelImport])

\* HCNS is offered both, and refused.
Intake == {"saveIntake", "importAssets"}
=============================================================================
