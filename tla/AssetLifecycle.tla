--------------------------- MODULE AssetLifecycle ---------------------------
(***************************************************************************)
(* The asset register and the commands that move an asset between stock,   *)
(* a person's hands and a repair bench (lifecycle.service.ts, and intake,  *)
(* status correction and soft delete of assets.service.ts).                *)
(*                                                                         *)
(* A command that runs in one Serializable transaction and writes the      *)
(* asset's row is one action: PostgreSQL aborts it when the row it read    *)
(* has changed.  A command that runs at the default isolation level, or    *)
(* that checks before it opens its transaction, is two actions: a Read     *)
(* that checks and remembers what the request will write, and a Commit     *)
(* that writes it without looking again.  Anything may happen between.     *)
(***************************************************************************)
EXTENDS LifecycleRules

CONSTANTS
  Assets,        \* asset ids
  People,        \* recipients of assets
  Warehouses,
  Locations,
  LocationOf,    \* the location a warehouse belongs to
  Docs,          \* numbers of the assignments (and repairs) one asset may have: a bound
  Handlers,      \* requests the API may be serving at once between Read and Commit
  Corrections,   \* status codes administrators set directly; {} when they never do
  None

ASSUME LifecycleAssumption ==
  /\ LocationOf \in [Warehouses -> Locations]
  /\ Corrections \subseteq StatusCodes
  /\ None \notin People \cup Warehouses \cup Locations

VARIABLES
  asset,         \* the assets row of each asset
  assignment,    \* asset_assignments, by asset and number
  repair,        \* maintenance_records, by asset and number
  request        \* what each handler has read and is about to write

vars == <<asset, assignment, repair, request>>
-----------------------------------------------------------------------------
(***************************************************************************)
(* Rows.  warehouseId and locationId are always written together, so they  *)
(* are one field: a place is a warehouse (with its location), a bare       *)
(* location, or nowhere.                                                   *)
(***************************************************************************)
InStock(w) == [warehouse |-> w, location |-> LocationOf[w]]
At(l)      == [warehouse |-> None, location |-> l]
Nowhere    == [warehouse |-> None, location |-> None]
Placements == {InStock(w) : w \in Warehouses} \cup {At(l) : l \in Locations}
Places     == Placements \cup {Nowhere}

AssetRows == [register  : {"ABSENT", "LIVE", "DELETED"},
              status    : StatusCodes,
              custodian : People \cup {None},
              place     : Places]

AssignmentRows == [status : {"FREE", "OPEN", "CLOSED", "CANCELLED"},
                   to     : People \cup {None},
                   type   : AssignmentTypes]
UnusedNumber   == [status |-> "FREE", to |-> None, type |-> "ASSIGNMENT"]
\* Mutant: every handover is filed as an assignment.
OpenForUse(p, t) == [status |-> "OPEN", to |-> p, type |-> "ASSIGNMENT"]
OpenFor(p, t)  == [status |-> "OPEN", to |-> p, type |-> t]

RepairStates == {"FREE", "OPEN", "COMPLETED"}

\* deletedAt is null. Mutant: deletedAt is never looked at.
LiveOrDeleted(a)   == asset[a].register # "ABSENT"
Live(a)            == asset[a].register = "LIVE"
OpenAssignments(a) == {d \in Docs : assignment[a][d].status = "OPEN"}
OpenRepairs(a)     == {d \in Docs : repair[a][d] = "OPEN"}
\* Mutants: the migrations leave the CHECK constraint, or the index, out.
NoCustodyCheck(row) == TRUE
NoAssignmentIndex(a) == TRUE
(***************************************************************************)
(* The DB's CHECK constraint assets_custody_excludes_warehouse: a write    *)
(* whose result breaks it rolls the transaction back.                      *)
(***************************************************************************)
CustodyCheck(row) == row.place.warehouse = None \/ row.custodian = None
\* The two partial unique indexes: one OPEN assignment and one OPEN repair per asset.
AssignmentIndexFree(a) == OpenAssignments(a) = {}
RepairIndexFree(a)     == OpenRepairs(a) = {}
-----------------------------------------------------------------------------
(***************************************************************************)
(* Requests between their Read and their Commit.                           *)
(***************************************************************************)
Idle == [op |-> "idle"]

TransferRequests == [op : {"transfer"}, asset : Assets, to : Placements]
CompleteRequests == [op : {"complete"}, asset : Assets, repair : Docs,
                     status : MaintenanceOutcomes, place : Places]
CorrectRequests  == [op : {"correct"}, asset : Assets, status : Corrections]
RemoveRequests   == [op : {"remove"}, asset : Assets, byAdmin : BOOLEAN]
CancelRequests   == [op : {"cancelled"}, asset : Assets, byAdmin : BOOLEAN,
                     docs : SUBSET Docs]
Requests == TransferRequests \cup CompleteRequests \cup CorrectRequests
              \cup RemoveRequests \cup CancelRequests

Begin(h, r) == /\ request[h] = Idle
               /\ request' = [request EXCEPT ![h] = r]
Finish(h)   == request' = [request EXCEPT ![h] = Idle]

\* Assignment rows an uncommitted transaction has updated are locked until it commits.
Locked(a, d) == \E h \in Handlers : /\ request[h].op = "cancelled"
                                    /\ request[h].asset = a
                                    /\ d \in request[h].docs
-----------------------------------------------------------------------------
Init ==
  /\ asset = [a \in Assets |-> [register |-> "ABSENT", status |-> "READY",
                                custodian |-> None, place |-> Nowhere]]
  /\ assignment = [a \in Assets |-> [d \in Docs |-> UnusedNumber]]
  /\ repair = [a \in Assets |-> [d \in Docs |-> "FREE"]]
  /\ request = [h \in Handlers |-> Idle]
-----------------------------------------------------------------------------
(***************************************************************************)
(* Commands that are one action.                                           *)
(***************************************************************************)
\* assets.create: an asset enters the register READY, in a warehouse.
Create(a, w) ==
  /\ asset[a].register = "ABSENT"
  /\ asset' = [asset EXCEPT ![a] = [register |-> "LIVE", status |-> "READY",
                                    custodian |-> None, place |-> InStock(w)]]
  /\ UNCHANGED <<assignment, repair, request>>

\* Mutant: of a handover of several assets only the first gets its document.
IssueWithOneDocument(S, p, l, t) ==
  /\ \A a \in S : /\ Live(a) /\ Issuable(asset[a].status)
                  /\ asset[a].custodian = None /\ AssignmentIndexFree(a)
  /\ \E a \in S, d \in Docs :
       /\ assignment[a][d] = UnusedNumber
       /\ assignment' = [assignment EXCEPT ![a][d] = OpenFor(p, t)]
  /\ asset' = [a \in Assets |->
                 IF a \in S
                 THEN [asset[a] EXCEPT !.status = AssignmentTarget(t),
                                       !.custodian = p, !.place = At(l)]
                 ELSE asset[a]]
  /\ UNCHANGED <<repair, request>>

(***************************************************************************)
(* issue(), once per asset of a handover: every asset of S is issued to p  *)
(* or none is.  Each gets an assignment row of its own.                    *)
(***************************************************************************)
Issue(S, p, l, t) ==
  /\ \A a \in S : /\ Live(a)
                  /\ Issuable(asset[a].status)
                  /\ asset[a].custodian = None
                  /\ AssignmentIndexFree(a)
  /\ \E num \in [S -> Docs] :
       /\ \A a \in S : assignment[a][num[a]] = UnusedNumber
       /\ assignment' = [a \in Assets |->
                           IF a \in S
                           THEN [assignment[a] EXCEPT ![num[a]] = OpenFor(p, t)]
                           ELSE assignment[a]]
  /\ asset' = [a \in Assets |->
                 IF a \in S
                 THEN [asset[a] EXCEPT !.status = AssignmentTarget(t),
                                       !.custodian = p,
                                       !.place = At(l)]
                 ELSE asset[a]]
  /\ UNCHANGED <<repair, request>>

Assign(a, p, l, t)     == Issue({a}, p, l, t)
AssignMany(S, p, l, t) == S # {} /\ Issue(S, p, l, t)

\* Mutant: the return leaves the assignment open.
KeepAssignment(a) ==
  \E d \in OpenAssignments(a) : ~Locked(a, d) /\ UNCHANGED assignment

CloseAssignment(a) ==
  \E d \in OpenAssignments(a) :
    /\ ~Locked(a, d)
    /\ assignment' = [assignment EXCEPT ![a][d].status = "CLOSED"]

StartRepair(a) ==
  /\ RepairIndexFree(a)
  /\ \E m \in Docs : /\ repair[a][m] = "FREE"
                     /\ repair' = [repair EXCEPT ![a][m] = "OPEN"]

(***************************************************************************)
(* returnAsset: closes the open assignment, opens a repair when the device *)
(* came back for one, and puts the asset where it was received.            *)
(***************************************************************************)
ReturnAsset(a, outcome, place) ==
  /\ Live(a)
  /\ asset[a].status \in HandedOut
  /\ outcome = "READY" => place.warehouse # None
  /\ CloseAssignment(a)
  /\ \/ outcome = "MAINTENANCE" /\ StartRepair(a)
     \/ outcome # "MAINTENANCE" /\ UNCHANGED repair
  /\ asset' = [asset EXCEPT ![a].status = outcome,
                            ![a].custodian = None,
                            ![a].place = place]
  /\ UNCHANGED request

OpenMaintenance(a) ==
  /\ Live(a)
  /\ asset[a].status \in Maintainable
  /\ OpenAssignments(a) = {}
  /\ StartRepair(a)
  /\ asset' = [asset EXCEPT ![a].status = "MAINTENANCE", ![a].custodian = None]
  /\ UNCHANGED <<assignment, request>>
-----------------------------------------------------------------------------
(***************************************************************************)
(* Commands that read and write in two steps.                              *)
(***************************************************************************)
TransferRead(h, a, to) ==
  /\ Live(a)
  /\ TransferAllowed(asset[a].status, to.warehouse # None, asset[a].custodian # None)
  /\ to # asset[a].place
  /\ Begin(h, [op |-> "transfer", asset |-> a, to |-> to])
  /\ UNCHANGED <<asset, assignment, repair>>

TransferCommit(h) ==
  LET r == request[h] IN
  /\ r.op = "transfer"
  /\ CustodyCheck([asset[r.asset] EXCEPT !.place = r.to])
  /\ asset' = [asset EXCEPT ![r.asset].place = r.to]
  /\ Finish(h)
  /\ UNCHANGED <<assignment, repair>>

(***************************************************************************)
(* completeMaintenance never looks at deletedAt.  Without a receiving      *)
(* warehouse the asset keeps the place it was read at.                     *)
(***************************************************************************)
CompleteRead(h, a, m, outcome) ==
  /\ repair[a][m] = "OPEN"
  /\ asset[a].status = "MAINTENANCE"
  /\ \E place \in IF outcome = "READY" THEN {InStock(w) : w \in Warehouses}
                                       ELSE {asset[a].place} :
       Begin(h, [op |-> "complete", asset |-> a, repair |-> m,
                 status |-> outcome, place |-> place])
  /\ UNCHANGED <<asset, assignment, repair>>

CompleteCommit(h) ==
  LET r == request[h] IN
  /\ r.op = "complete"
  /\ repair' = [repair EXCEPT ![r.asset][r.repair] = "COMPLETED"]
  /\ asset' = [asset EXCEPT ![r.asset].status = r.status,
                            ![r.asset].custodian = None,
                            ![r.asset].place = r.place]
  /\ Finish(h)
  /\ UNCHANGED assignment

\* assets.update with a statusCode: the correction changes the status column alone.
CorrectRead(h, a, status) ==
  /\ Live(a)
  /\ Begin(h, [op |-> "correct", asset |-> a, status |-> status])
  /\ UNCHANGED <<asset, assignment, repair>>

CorrectCommit(h) ==
  LET r == request[h] IN
  /\ r.op = "correct"
  /\ asset' = [asset EXCEPT ![r.asset].status = r.status]
  /\ Finish(h)
  /\ UNCHANGED <<assignment, repair>>

IdleRecord(a)   == /\ asset[a].status = "READY"
                   /\ asset[a].custodian = None
                   /\ OpenAssignments(a) = {}

(***************************************************************************)
(* assets.remove: IT may only take an idle record off the register, an     *)
(* administrator any record; both are checked before the transaction,      *)
(* whose first statement cancels the assignments open at that moment and   *)
(* whose last one marks the row deleted.                                   *)
(***************************************************************************)
RemoveRead(h, a, byAdmin) ==
  /\ Live(a)
  /\ byAdmin \/ IdleRecord(a)
  /\ Begin(h, [op |-> "remove", asset |-> a, byAdmin |-> byAdmin])
  /\ UNCHANGED <<asset, assignment, repair>>

RemoveCancel(h) ==
  LET r == request[h] IN
  /\ r.op = "remove"
  /\ \A d \in OpenAssignments(r.asset) : ~Locked(r.asset, d)
  /\ request' = [request EXCEPT ![h] =
                   [op |-> "cancelled", asset |-> r.asset, byAdmin |-> r.byAdmin,
                    docs |-> OpenAssignments(r.asset)]]
  /\ UNCHANGED <<asset, assignment, repair>>

\* Mutants: the row goes with its holder still on it; the assignments stay open.
RemoveKeepingHolder(h) ==
  LET r == request[h] IN
  /\ r.op = "cancelled"
  /\ assignment' = [assignment EXCEPT ![r.asset] =
                      [d \in Docs |-> IF d \in r.docs
                                      THEN [@[d] EXCEPT !.status = "CANCELLED"]
                                      ELSE @[d]]]
  /\ asset' = [asset EXCEPT ![r.asset].register = "DELETED"]
  /\ Finish(h)
  /\ UNCHANGED repair

RemoveLeavingDocuments(h) ==
  LET r == request[h] IN
  /\ r.op = "cancelled"
  /\ asset' = [asset EXCEPT ![r.asset].register = "DELETED",
                            ![r.asset].custodian = None]
  /\ Finish(h)
  /\ UNCHANGED <<assignment, repair>>

RemoveCommit(h) ==
  LET r == request[h] IN
  /\ r.op = "cancelled"
  /\ assignment' = [assignment EXCEPT ![r.asset] =
                      [d \in Docs |-> IF d \in r.docs
                                      THEN [@[d] EXCEPT !.status = "CANCELLED"]
                                      ELSE @[d]]]
  /\ asset' = [asset EXCEPT ![r.asset].register = "DELETED",
                            ![r.asset].custodian = None]
  /\ Finish(h)
  /\ UNCHANGED repair

\* A refused constraint, a lost connection or a restart rolls the request back.
Abort(h) ==
  /\ request[h] # Idle
  /\ Finish(h)
  /\ UNCHANGED <<asset, assignment, repair>>
-----------------------------------------------------------------------------
Command ==
  \/ \E a \in Assets, w \in Warehouses : Create(a, w)
  \/ \E p \in People, l \in Locations, t \in AssignmentTypes :
       \/ \E a \in Assets : Assign(a, p, l, t)
       \/ \E S \in SUBSET Assets : AssignMany(S, p, l, t)
  \/ \E a \in Assets, outcome \in ReturnOutcomes, place \in Placements :
       ReturnAsset(a, outcome, place)
  \/ \E a \in Assets : OpenMaintenance(a)

ReadStep(h) ==
  \/ \E a \in Assets, to \in Placements : TransferRead(h, a, to)
  \/ \E a \in Assets, m \in Docs, outcome \in MaintenanceOutcomes :
       CompleteRead(h, a, m, outcome)
  \/ \E a \in Assets, status \in Corrections : CorrectRead(h, a, status)
  \/ \E a \in Assets, byAdmin \in BOOLEAN : RemoveRead(h, a, byAdmin)

CommitStep(h) ==
  \/ TransferCommit(h)
  \/ CompleteCommit(h)
  \/ CorrectCommit(h)
  \/ RemoveCancel(h)
  \/ RemoveCommit(h)
  \/ Abort(h)

Next == Command \/ \E h \in Handlers : ReadStep(h) \/ CommitStep(h)
Spec == Init /\ [][Next]_vars

(***************************************************************************)
(* The same commands one at a time: nothing starts while a request is      *)
(* between its Read and its Commit.  What fails under Next and holds here  *)
(* is lost to interleaving alone.                                          *)
(***************************************************************************)
Quiet      == \A h \in Handlers : request[h] = Idle
SerialNext == \/ Quiet /\ Command
              \/ \E h \in Handlers : (Quiet /\ ReadStep(h)) \/ CommitStep(h)
SerialSpec == Init /\ [][SerialNext]_vars
-----------------------------------------------------------------------------
(***************************************************************************)
(* Properties that hold however requests interleave.                       *)
(***************************************************************************)

\* Every variable stays within its table's columns.
TypeOK == /\ asset \in [Assets -> AssetRows]
          /\ assignment \in [Assets -> [Docs -> AssignmentRows]]
          /\ repair \in [Assets -> [Docs -> RepairStates]]
          /\ request \in [Handlers -> Requests \cup {Idle}]

\* Whoever the register names as custodian has signed for the asset: one of
\* its assignments is still open and it is theirs (issue, returnAsset, remove
\* and the stale writes of completeMaintenance all touch one side of this).
HolderSigned ==
  \A a \in Assets : asset[a].custodian # None =>
    \E d \in OpenAssignments(a) : assignment[a][d].to = asset[a].custodian

\* An asset in use or on loan has a holder, and the holder's open assignment is
\* of the type the status says (WORKFLOW_DESIGN.md section 9, DATABASE_MODEL.md
\* invariant 1). It needs Corrections to leave IN_USE and ON_LOAN alone.
HandedOutIsDocumented ==
  \A a \in Assets : Live(a) /\ asset[a].status \in HandedOut =>
    /\ asset[a].custodian # None
    /\ \E d \in OpenAssignments(a) :
         /\ assignment[a][d].to = asset[a].custodian
         /\ AssignmentTarget(assignment[a][d].type) = asset[a].status

\* An asset never has two open assignments, nor two open repairs: the services
\* check the asset's status, and only the partial unique indexes close the gap
\* a stale write opens between status and documents.
OneOpenDocument ==
  \A a \in Assets : /\ \A d, e \in OpenAssignments(a) : d = e
                    /\ \A d, e \in OpenRepairs(a) : d = e

\* An asset is in a warehouse or in a person's hands, never both, although
\* transfer decides on a custodian it read earlier.
CustodyExcludesWarehouse ==
  \A a \in Assets : asset[a].custodian # None => asset[a].place.warehouse = None

\* The register keeps the promises of custody: no asset passes from one person
\* to another without coming back first, none leaves the register in anybody's
\* hands, and none that left is handed out again.
Custody == INSTANCE AssetCustody WITH
             holder <- [a \in Assets |-> asset[a].custodian],
             gone   <- {a \in Assets : asset[a].register = "DELETED"}
CustodyKept == Custody!Spec
-----------------------------------------------------------------------------
(***************************************************************************)
(* Properties that hold when requests run one at a time, and that          *)
(* interleaving breaks.                                                    *)
(***************************************************************************)

\* DATABASE_MODEL.md invariant 2: an asset in any other status has no open
\* assignment, but for a status that administrators set by hand. A
\* completeMaintenance that read the asset before it was repaired and issued
\* again overwrites IN_USE.
OnlyHandedOutIsOpen ==
  \A a \in Assets : Live(a) /\ asset[a].status \notin HandedOut \cup Corrections =>
    OpenAssignments(a) = {}

\* An asset is in MAINTENANCE exactly while one of its repairs is open.
RepairMatchesStatus ==
  \A a \in Assets : (asset[a].status = "MAINTENANCE") <=> OpenRepairs(a) # {}

\* Nobody is left holding a record that has gone (assets.service.ts, remove):
\* an asset off the register has no assignment still running.
DeletedIsSettled ==
  \A a \in Assets : asset[a].register = "DELETED" => OpenAssignments(a) = {}
=============================================================================
