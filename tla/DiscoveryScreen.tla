---------------------------- MODULE DiscoveryScreen -------------------------
(***************************************************************************)
(* The page Kham pha & Agent (DiscoveryCenter.tsx): the inbox, whose       *)
(* panel shows the chosen item as the list has it, and the enrolment       *)
(* tokens.                                                                 *)
(***************************************************************************)
EXTENDS ScreenSteps

Waiting  == {"PENDING", "MATCHED", "CONFLICT"}
Statuses == Waiting \cup {"LINKED", "IGNORED", "CREATED"}
-----------------------------------------------------------------------------
(***************************************************************************)
(* What discovery.service lets through.  Assets and warehouses decide as   *)
(* well, and an agent that still has an asset is not opened again.         *)
(***************************************************************************)
linkRoute   == Hiding(Operators, Route(Operators, From(Statuses, "LINKED")))
ignoreRoute == Route(Operators, From(Statuses, "IGNORED"))
reopenRoute == Hiding(Operators, Route(Operators,
  From(Statuses, "PENDING") \cup From(Statuses, "MATCHED") \cup From(Statuses, "CONFLICT")))
createAssetRoute == Hiding(Operators, Route(Operators, From(Waiting, "CREATED")))
revokeAgentRoute == Route({"Admin"}, Stay(Statuses))
createTokenRoute == Route({"Admin"}, {<<Absent, "LIVE">>})
revokeTokenRoute == Route({"Admin"}, From({"LIVE", "REVOKED"}, "REVOKED"))
-----------------------------------------------------------------------------
\* The summary and the inbox of the filter, then an administrator's tokens.
load == Lists

\* The answer goes over its row and is chosen before the list is asked for.
refreshItem(route) == <<Move(route, {"patch", "show"}), load>>

link   == refreshItem(linkRoute)
ignore == refreshItem(ignoreRoute)
reopen == refreshItem(reopenRoute)

\* The register of assets is loaded again before the panel closes.
createAsset == <<Move(createAssetRoute, {}), Call("reload", NoRoute, {"leave"}), load>>
revokeAgent == <<Edit(revokeAgentRoute, {"leave"}), load>>
createToken == <<Move(createTokenRoute, {}), load>>
revokeToken == <<Move(revokeTokenRoute, {}), load>>

\* The panel: the decisions of an item that waits, and the way back.
InboxView == [
  link        |-> Button(Operators, From(Waiting, "LINKED"), link),
  ignore      |-> Button(Operators, From(Waiting, "IGNORED"), ignore),
  createAsset |-> Button(Operators, From(Waiting, "CREATED"), createAsset),
  reopen      |-> Button(Operators,
    {<<"IGNORED", s>> : s \in Waiting}, reopen),
  revokeAgent |-> Button({"Admin"}, Stay(Statuses), revokeAgent)]

AgentSetup == [
  createToken |-> OnRow({"Admin"}, {<<Absent, "LIVE">>}, createToken),
  revokeToken |-> OnRow({"Admin"}, {<<"LIVE", "REVOKED">>}, revokeToken)]

DiscoveryCenter == Screen(Operators, Statuses, <<>>, "live", InboxView)

EnrollmentTokens == Register({"Admin"}, {"LIVE", "REVOKED"}, AgentSetup)
=============================================================================
