---------------------------- MODULE NetmonScreens ---------------------------
(***************************************************************************)
(* The pages of the network: subnets, devices, the dashboard, and alerts.  *)
(***************************************************************************)
EXTENDS ScreenSteps

Subnets == {"ENABLED", "DISABLED"}
Devices == {"LINKED", "FREE"}   \* with an asset or without
Alerts  == {"OPEN", "ACKNOWLEDGED"}

(***************************************************************************)
(* What netmon.service lets through; addresses, assets and a scan that     *)
(* runs decide as well.                                                    *)
(***************************************************************************)
createSubnetRoute == Hiding({"Admin"}, Route({"Admin"}, {<<Absent, "ENABLED">>}))
updateSubnetRoute == Route({"Admin"}, Subnets \X Subnets)
scanRoute         == Hiding(Operators, Route(Operators, Stay({"ENABLED"})))
removeSubnetRoute == Route({"Admin"}, From(Subnets, Gone))

updateDeviceRoute == Route(Operators, Stay(Devices))
linkRoute         == Hiding(Operators, Route(Operators, From(Devices, "LINKED")))
unlinkRoute       == Route(Operators, From(Devices, "FREE"))
removeDeviceRoute == Route(Operators, From(Devices, Gone))

acknowledgeRoute  == Route(Operators, From(Alerts, "ACKNOWLEDGED"))
-----------------------------------------------------------------------------
(***************************************************************************)
(* NetworkSubnets.  One flag names the row at work, and the next press on  *)
(* another row takes it over: no button counts on it.                      *)
(***************************************************************************)
loadSubnets == Lists

create == <<Move(createSubnetRoute, {"shut"}), loadSubnets>>
scan   == <<Edit(scanRoute, {}), loadSubnets>>
remove == <<Move(removeSubnetRoute, {}), loadSubnets>>
toggle == <<Move(updateSubnetRoute, {}), loadSubnets>>

NetworkSubnets == Register(Operators, Subnets,
  [create |-> OpenForm({"Admin"}, {<<Absent, "ENABLED">>}, create),
   scan   |-> OnRow(Operators, Stay({"ENABLED"}), scan),
   toggle |-> OnRow({"Admin"}, {<<"ENABLED", "DISABLED">>, <<"DISABLED", "ENABLED">>}, toggle),
   remove |-> OnRow({"Admin"}, From(Subnets, Gone), remove)])
-----------------------------------------------------------------------------
(***************************************************************************)
(* NetworkDeviceDrawer: it loads its device itself.  Every action loads it *)
(* again, then the list of the page behind; a deletion closes the drawer   *)
(* in the end, even one that was refused.                                  *)
(***************************************************************************)
loadDevice == <<Peek>>

act(write) == Busy("busy", Button(Operators, write.moves, write.calls \o loadDevice \o <<Lists>>))

unlink == act([moves |-> {<<"LINKED", "FREE">>}, calls |-> <<Move(unlinkRoute, {})>>])
link   == act([moves |-> {<<"FREE", "LINKED">>}, calls |-> <<Move(linkRoute, {})>>])
watch  == act([moves |-> Stay(Devices), calls |-> <<Edit(updateDeviceRoute, {})>>])
discard == [act([moves |-> From(Devices, Gone), calls |-> <<Move(removeDeviceRoute, {})>>])
              EXCEPT !.run = @ \o <<Always({"leave"})>>]

NetworkDeviceDrawer == [unlink |-> unlink, link |-> link, watch |-> watch, discard |-> discard]

\* Both pages list the devices and open the drawer; both load every so often.
NetworkDevices   == Screen(Operators, Devices, loadDevice, "own", NetworkDeviceDrawer)
NetworkDashboard == NetworkDevices
-----------------------------------------------------------------------------
\* NetworkAlerts: the alerts that are not settled, loaded every so often.
loadAlerts  == Lists
acknowledge == <<Move(acknowledgeRoute, {}), loadAlerts>>

NetworkAlerts == Register(Operators, Alerts,
  [acknowledge |-> Busy("busy", OnRow(Operators, {<<"OPEN", "ACKNOWLEDGED">>}, acknowledge))])

\* The form for a subnet: no flag it can count on.
UnguardedForms == {"create"}
=============================================================================
