--------------------------- MODULE InventoryScreen --------------------------
(***************************************************************************)
(* The page Kiem ke (InventoryManagement.tsx): the sessions, of which one  *)
(* is always chosen, and the count of the chosen one.  One flag covers the *)
(* buttons of the page.  The second fetch that a change of the choice sets *)
(* off beside the handler's own is left out: it asks for the same.         *)
(***************************************************************************)
EXTENDS ScreenSteps

Statuses == {"OPEN", "CLOSED", "CANCELLED"}

(***************************************************************************)
(* What inventory.service lets through; the assets decide as well.         *)
(***************************************************************************)
createRoute == Hiding(Operators, Route(Operators, {<<Absent, "OPEN">>}))
scanRoute   == Hiding(Operators, Route(Operators, Stay({"OPEN"})))
closeRoute  == Route(Operators, {<<"OPEN", "CLOSED">>})
removeRoute == Route({"Admin"}, From(Statuses, Gone))
-----------------------------------------------------------------------------
loadSessions == Reload({})
loadDetail   == <<Fetch>>

\* `run' holds the flag of the page while a task works.
run(command) == Busy("working", command)

createSession == run(OnRow(Operators, {<<Absent, "OPEN">>},
  <<Move(createRoute, {}), loadSessions>> \o loadDetail))
scan  == run(Button(Operators, Stay({"OPEN"}), <<Inner(scanRoute, {})>> \o loadDetail))
close == run(Button(Operators, {<<"OPEN", "CLOSED">>},
  <<Move(closeRoute, {})>> \o loadDetail \o <<loadSessions>>))

\* The session is left only when the list without it is there.
removeSession == run(Button({"Admin"}, From(Statuses, Gone),
  <<Move(removeRoute, {}), Reload({"leave"})>>))

\* What was seen of one asset, from a form in its row.
reconcile == <<Inner(scanRoute, {}), Call("fetch", NoRoute, {"show", "shut"})>>

InventoryRow == Busy("busy", Part(Operators, Stay({"OPEN"}), reconcile))

InventoryManagement == Screen(Operators, Statuses, loadDetail, "chosen",
  [createSession |-> createSession, scan |-> scan, close |-> close,
   removeSession |-> removeSession, reconcile |-> InventoryRow])
=============================================================================
