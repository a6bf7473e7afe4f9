--------------------------- MODULE LifecycleRules ---------------------------
(***************************************************************************)
(* The status rules of an asset, as pure operators: which status codes     *)
(* exist, which of them a command accepts and which one it leads to.       *)
(* (lifecycle.rules.ts and the status rules of disposals.rules.ts)         *)
(***************************************************************************)

\* The rows of asset_statuses that the API reads or writes by code.
StatusCodes == {"READY", "IN_USE", "ON_LOAN", "RETURNED", "RESERVED",
                "MAINTENANCE", "LOST", "BROKEN", "DISPOSED"}

AssignmentTypes == {"ASSIGNMENT", "LOAN"}

\* assignmentTarget: only a READY asset is issued; the type decides the result.
Issuable(status)       == status = "READY"
AssignmentTarget(type) == IF type = "LOAN" THEN "ON_LOAN" ELSE "IN_USE"
HandedOut              == {"IN_USE", "ON_LOAN"}

\* returnTarget: the outcome chosen on the form is the new status.
ReturnOutcomes == {"READY", "MAINTENANCE", "BROKEN"}

\* assertTransferAllowed
TransferAllowed(status, intoWarehouse, hasCustodian) ==
  /\ status # "DISPOSED"
  /\ ~(intoWarehouse /\ hasCustodian)

\* assertMaintenanceOpenAllowed, maintenanceTarget. The form also offers
\* DISPOSED, which maintenanceTarget refuses.
Maintainable        == {"READY", "RETURNED", "BROKEN"}
MaintenanceOutcomes == {"READY", "BROKEN"}

\* assertAssetEligibleForDisposal.
DisposalEligible == {"READY", "RETURNED", "BROKEN"}
=============================================================================
