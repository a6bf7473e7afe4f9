---------------------------- MODULE RenewalScreen ---------------------------
(***************************************************************************)
(* The page License, SSL & Domain (RenewalManagement.tsx): the register,   *)
(* its drawer with the dialogs over it, and the two dialogs in which an    *)
(* administrator configures the reminders and the Microsoft 365 source.    *)
(* A record that a provider owns is "SOURCED", whatever its term.          *)
(***************************************************************************)
EXTENDS ScreenSteps

Terms    == {"ACTIVE", "EXPIRING", "EXPIRED"}
Statuses == Terms \cup {"SOURCED"}

\* The new term may still be short, or over.
Renewed == From(Terms, "ACTIVE") \cup From(Terms, "EXPIRING") \cup From(Terms, "EXPIRED")
             \cup Stay({"SOURCED"})

\* How a new record starts.
Entered == {<<Absent, s>> : s \in Terms}
-----------------------------------------------------------------------------
(***************************************************************************)
(* What renewals.service lets through; codes, seats and dates decide as    *)
(* well.  The deletion asks neither for seats nor for a provider.          *)
(***************************************************************************)
createRoute == Hiding(Operators, Route(Operators, Entered))
assignRoute == Hiding(Operators, Route(Operators, Stay({"ACTIVE", "EXPIRING"})))
revokeRoute == Hiding(Operators, Route(Operators, Stay(Statuses)))
renewRoute  == Hiding(Operators, Route(Operators, Renewed))
removeRoute == Route({"Admin"}, From(Statuses, Gone))
-----------------------------------------------------------------------------
\* The records of the filter, the summary, the alerts and the policies.
load == Lists

open   == <<Fetch>>
remove == <<Move(removeRoute, {"leave"}), load>>
save   == <<Move(createRoute, {"shut"}), load>>
revoke == <<Edit(revokeRoute, {}), Fetch, load>>

\* Seats are given out: the dialog closes when the drawer shows them.
assign == <<Edit(assignRoute, {}), Call("fetch", NoRoute, {"show", "shut"}), load>>

\* A renewal, or the first term of a record that has none.
renew == <<Move(renewRoute, {"shut"}), Fetch, load>>

CreateDialog == Form(Operators, Entered, save)

\* Neither dialog is disabled while it saves.
AssignDialog == Over(Operators, Stay(Terms), assign)
RenewDialog  == Over(Operators, Renewed, renew)

Detail == [
  onRevoke |-> Button(Operators, Stay(Terms), revoke),
  onDelete |-> Button({"Admin"}, From(Terms, Gone), remove)]

RenewalManagement == Opening(open, Operators, Statuses,
  [save |-> CreateDialog, assign |-> AssignDialog, renew |-> RenewDialog,
   onRevoke |-> Detail.onRevoke, onDelete |-> Detail.onDelete])

\* Seats of an expired licence are offered; the API gives none.
Offered == {"assign"}
-----------------------------------------------------------------------------
(***************************************************************************)
(* The dialogs behind the heading, Admin's.  Policies are put side by side *)
(* with the mailbox, which the page does not show; the Microsoft 365       *)
(* source, not shown either, is put and then read.                         *)
(***************************************************************************)
configureRoute == Route({"Admin"}, Stay({"SET"}))

savePolicies == <<Edit(configureRoute, {}), Inner(configureRoute, {"shut"}), load>>
execute      == <<Inner(configureRoute, {}), Inner(configureRoute, {"shut"}), load>>

PolicyDialog       == Form({"Admin"}, Stay({"SET"}), savePolicies)
Microsoft365Dialog == Form({"Admin"}, Stay({"SET"}), execute)

Configuration == Register({"Admin"}, {"SET"},
  [savePolicies |-> PolicyDialog, execute |-> Microsoft365Dialog])
=============================================================================
