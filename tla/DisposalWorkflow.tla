-------------------------- MODULE DisposalWorkflow --------------------------
(***************************************************************************)
(* Disposal cases (disposals.service.ts, disposals.rules.ts) composed with *)
(* the asset register: a case reserves its assets, is approved by a second *)
(* person, executed with evidence, and retires them; or it lets them go.   *)
(*                                                                         *)
(* create, submit and complete are Serializable and are one action each.   *)
(* The other commands read the case, with its assets, at the start and     *)
(* write by id at the end, at the default isolation level (remove reads    *)
(* even before its transaction): each is a Read and a Commit.              *)
(***************************************************************************)
EXTENDS LifecycleRules

CONSTANTS
  Assets, People, Warehouses, Locations, LocationOf, Docs, Handlers,
  Corrections, None,   \* as in AssetLifecycle
  Cases,               \* disposal cases ever raised: a bound
  Users,               \* accounts of role ADMIN or IT
  Admins,              \* those of role ADMIN
  Sensitive,           \* assets whose items require data sanitization
  Types,               \* disposal types in use
  Evidence,            \* evidence types in use
  Results,             \* sanitization results in use
  Clerks,              \* case requests the API may be serving at once
  Purges               \* states in which administrators delete cases; {} when never

CaseStatuses == {"DRAFT", "SUBMITTED", "APPROVED", "REJECTED", "IN_EXECUTION",
                 "COMPLETED", "CANCELLED"}
DisposalTypes == {"SALE", "DONATION", "RETURN_TO_VENDOR", "RECYCLE", "DESTRUCTION", "OTHER"}
EvidenceTypes == {"APPROVAL_DOCUMENT", "DATA_ERASURE_CERTIFICATE", "DESTRUCTION_CERTIFICATE",
                  "SALE_CONTRACT", "HANDOVER_MINUTES", "PHOTO", "OTHER"}
Sanitization  == {"NOT_REQUIRED", "PENDING", "VERIFIED", "FAILED"}

ASSUME DisposalAssumption ==
  /\ LocationOf \in [Warehouses -> Locations]
  /\ Corrections \subseteq StatusCodes
  /\ None \notin People \cup Warehouses \cup Locations
  /\ Admins \subseteq Users
  /\ Sensitive \subseteq Assets
  /\ Types \subseteq DisposalTypes
  /\ Evidence \subseteq EvidenceTypes
  /\ Results \subseteq Sanitization
  /\ Purges \subseteq CaseStatuses
  /\ None \notin Users

VARIABLES
  asset, assignment, repair, request,   \* as in AssetLifecycle
  case,                                 \* disposal_cases, with their items and evidence
  desk                                  \* what each clerk's request has read and will write

lifecycleVars == <<asset, assignment, repair, request>>
vars          == <<asset, assignment, repair, request, case, desk>>

Lifecycle == INSTANCE AssetLifecycle
-----------------------------------------------------------------------------
ActiveStatuses == {"SUBMITTED", "APPROVED", "IN_EXECUTION"}
Executable     == {"APPROVED", "IN_EXECUTION"}
ClosedStatuses == {"COMPLETED", "CANCELLED", "REJECTED"}
HeldStatuses   == ActiveStatuses \cup {"COMPLETED"}  \* those in which it has set its assets' status

CaseRows == [status    : CaseStatuses \cup {"FREE", "GONE"},
             requester : Users \cup {None},
             approver  : Users \cup {None},
             type      : DisposalTypes,
             items     : SUBSET Assets,
             snapshot  : [Assets -> StatusCodes],      \* assetSnapshot.statusCode, per item
             wiped     : [Assets -> Sanitization],     \* sanitizationStatus, per item
             evidence  : SUBSET EvidenceTypes]

\* No case yet, or a deleted one: of that, the audit row DISPOSAL_DELETED stays.
NoCase(status, S) == [status |-> status, requester |-> None, approver |-> None,
                      type |-> "OTHER", items |-> S,
                      snapshot |-> [a \in Assets |-> "READY"],
                      wiped |-> [a \in Assets |-> "NOT_REQUIRED"], evidence |-> {}]

Active(c)  == case[c].status \in ActiveStatuses
Exists(c)  == case[c].status \notin {"FREE", "GONE"}
StatusOf(a) == asset[a].status

(***************************************************************************)
(* assertRequiredEvidence                                                  *)
(***************************************************************************)
EvidenceSuffices(type, files, hasData) ==
  /\ hasData => "DATA_ERASURE_CERTIFICATE" \in files
  /\ type = "DESTRUCTION" => "DESTRUCTION_CERTIFICATE" \in files
  /\ type = "SALE" => files \cap {"SALE_CONTRACT", "HANDOVER_MINUTES"} # {}
  /\ type \in {"DONATION", "RETURN_TO_VENDOR", "RECYCLE"} => "HANDOVER_MINUTES" \in files

(***************************************************************************)
(* A request on a case between its Read and its Commit: what it will set,  *)
(* and the assets whose status it will put back to the snapshot.           *)
(***************************************************************************)
IdleClerk == [op |-> "idle"]
CaseRequests ==
  [op : {"decide"}, case : Cases, status : {"APPROVED", "REJECTED"}, by : Admins,
   release : SUBSET Assets] \cup
  [op : {"move"}, case : Cases, status : {"IN_EXECUTION", "CANCELLED"},
   release : SUBSET Assets] \cup
  [op : {"evidence"}, case : Cases, file : Evidence] \cup
  [op : {"sanitize"}, case : Cases, item : Assets, result : Results] \cup
  [op : {"remove"}, case : Cases, status : CaseStatuses, release : SUBSET Assets]

BeginCase(k, r) == /\ desk[k] = IdleClerk
                   /\ desk' = [desk EXCEPT ![k] = r]
                   /\ UNCHANGED <<lifecycleVars, case>>
FinishCase(k)   == desk' = [desk EXCEPT ![k] = IdleClerk]

\* restoreAssets: items go back to the status the case found them in when it was raised.
Release(c, S) ==
  asset' = [a \in Assets |-> IF a \in S
                             THEN [asset[a] EXCEPT !.status = case[c].snapshot[a]]
                             ELSE asset[a]]
Releasable(c) == \A a \in case[c].items : StatusOf(a) = "RESERVED"
-----------------------------------------------------------------------------
Init == /\ Lifecycle!Init
        /\ case = [c \in Cases |-> NoCase("FREE", {})]
        /\ desk = [k \in Clerks |-> IdleClerk]

Create(c, u, S, type) ==
  /\ case[c].status = "FREE"
  /\ S # {}
  /\ \A a \in S : /\ asset[a].register = "LIVE"
                  /\ StatusOf(a) \in DisposalEligible
                  /\ \A other \in Cases : Active(other) => a \notin case[other].items
  /\ case' = [case EXCEPT ![c] =
               [status |-> "DRAFT", requester |-> u, approver |-> None, type |-> type,
                items |-> S,
                snapshot |-> [a \in Assets |-> IF a \in S THEN StatusOf(a) ELSE "READY"],
                wiped |-> [a \in Assets |-> IF a \in S \cap Sensitive THEN "PENDING"
                                            ELSE "NOT_REQUIRED"],
                evidence |-> {}]]
  /\ UNCHANGED <<lifecycleVars, desk>>

\* Mutant: any asset not yet disposed of may be reserved.
ReservableUndisposed(c, a) == StatusOf(a) # "DISPOSED"
Reservable(c, a) ==
  /\ StatusOf(a) \in DisposalEligible
  /\ \A other \in Cases \ {c} : Active(other) => a \notin case[other].items

\* submit checks each asset's status and no other active case; not deletedAt.
Submit(c) ==
  /\ case[c].status = "DRAFT"
  /\ case[c].items # {}
  /\ \A a \in case[c].items : Reservable(c, a)
  /\ asset' = [a \in Assets |-> IF a \in case[c].items
                                THEN [asset[a] EXCEPT !.status = "RESERVED"]
                                ELSE asset[a]]
  /\ case' = [case EXCEPT ![c].status = "SUBMITTED"]
  /\ UNCHANGED <<assignment, repair, request, desk>>

\* assertCanComplete and assertRequiredEvidence.
Completable(c) ==
  /\ case[c].status = "IN_EXECUTION"
  /\ case[c].evidence # {}
  /\ \A a \in case[c].items \cap Sensitive : case[c].wiped[a] = "VERIFIED"
  /\ EvidenceSuffices(case[c].type, case[c].evidence, case[c].items \cap Sensitive # {})

\* Mutant: a reserved asset is taken to have nothing open.
Reserved(a) == StatusOf(a) = "RESERVED"
Settled(a) == /\ StatusOf(a) = "RESERVED"
              /\ Lifecycle!OpenAssignments(a) = {}
              /\ Lifecycle!OpenRepairs(a) = {}

Complete(c) ==
  /\ Completable(c)
  /\ \A a \in case[c].items : Settled(a)
  /\ asset' = [a \in Assets |-> IF a \in case[c].items
                                THEN [asset[a] EXCEPT !.status = "DISPOSED",
                                                      !.custodian = None,
                                                      !.place = Lifecycle!Nowhere]
                                ELSE asset[a]]
  /\ case' = [case EXCEPT ![c].status = "COMPLETED"]
  /\ UNCHANGED <<assignment, repair, request, desk>>
-----------------------------------------------------------------------------
\* assertCanApprove: a second person, of role ADMIN, decides on a submitted case.
\* Mutant: the requester decides.
MayDecideAlone(c, u)  == case[c].status = "SUBMITTED" /\ u \in Admins
MayDecide(c, u) == /\ case[c].status = "SUBMITTED"
                   /\ u \in Admins
                   /\ u # case[c].requester

ApproveRead(k, c, u) ==
  /\ MayDecide(c, u)
  /\ BeginCase(k, [op |-> "decide", case |-> c, status |-> "APPROVED", by |-> u,
                   release |-> {}])

RejectRead(k, c, u) ==
  /\ MayDecide(c, u)
  /\ Releasable(c)
  /\ BeginCase(k, [op |-> "decide", case |-> c, status |-> "REJECTED", by |-> u,
                   release |-> case[c].items])

StartRead(k, c) ==
  /\ case[c].status = "APPROVED"
  /\ BeginCase(k, [op |-> "move", case |-> c, status |-> "IN_EXECUTION", release |-> {}])

\* Mutant: cancelling a draft lets its assets go too.
CancelReleasingDrafts(k, c) ==
  /\ Exists(c)
  /\ case[c].status \notin ClosedStatuses
  /\ BeginCase(k, [op |-> "move", case |-> c, status |-> "CANCELLED",
                   release |-> case[c].items])

\* assertCanCancel; a draft holds nothing, any other case lets its assets go.
CancelRead(k, c) ==
  /\ Exists(c)
  /\ case[c].status \notin ClosedStatuses
  /\ case[c].status # "DRAFT" => Releasable(c)
  /\ BeginCase(k, [op |-> "move", case |-> c, status |-> "CANCELLED",
                   release |-> IF case[c].status = "DRAFT" THEN {} ELSE case[c].items])

EvidenceRead(k, c, file) ==
  /\ case[c].status \in Executable
  /\ BeginCase(k, [op |-> "evidence", case |-> c, file |-> file])

\* Mutant: results may be recorded on a case in any state.
SanitizeAnytime(k, c, a, result) ==
  /\ a \in case[c].items
  /\ BeginCase(k, [op |-> "sanitize", case |-> c, item |-> a, result |-> result])

SanitizeRead(k, c, a, result) ==
  /\ case[c].status \in Executable
  /\ a \in case[c].items
  /\ ~(a \in Sensitive /\ result = "NOT_REQUIRED")
  /\ BeginCase(k, [op |-> "sanitize", case |-> c, item |-> a, result |-> result])

\* remove looks at each asset's status and will put back every one that differs,
\* whether this case or another one set it.
RemoveRead(k, c) ==
  /\ case[c].status \in Purges
  /\ BeginCase(k, [op |-> "remove", case |-> c, status |-> case[c].status,
                   release |-> {a \in case[c].items : StatusOf(a) # case[c].snapshot[a]}])

\* Commits address the case by id: they fail only when it is gone.
DecideCommit(k) ==
  LET r == desk[k] IN
  /\ r.op = "decide"
  /\ Exists(r.case)
  /\ Release(r.case, r.release)
  /\ case' = [case EXCEPT ![r.case].status = r.status, ![r.case].approver = r.by]
  /\ FinishCase(k)
  /\ UNCHANGED <<assignment, repair, request>>

MoveCommit(k) ==
  LET r == desk[k] IN
  /\ r.op = "move"
  /\ Exists(r.case)
  /\ Release(r.case, r.release)
  /\ case' = [case EXCEPT ![r.case].status = r.status]
  /\ FinishCase(k)
  /\ UNCHANGED <<assignment, repair, request>>

EvidenceCommit(k) ==
  LET r == desk[k] IN
  /\ r.op = "evidence"
  /\ Exists(r.case)
  /\ case' = [case EXCEPT ![r.case].evidence = @ \cup {r.file}]
  /\ FinishCase(k)
  /\ UNCHANGED lifecycleVars

SanitizeCommit(k) ==
  LET r == desk[k] IN
  /\ r.op = "sanitize"
  /\ Exists(r.case)
  /\ case' = [case EXCEPT ![r.case].wiped[r.item] = r.result]
  /\ FinishCase(k)
  /\ UNCHANGED lifecycleVars

\* The audit row names the case's status and what it released: the tombstone
\* keeps the assets a case put back that it did not hold.
RemoveCommit(k) ==
  LET r == desk[k]
      strays == IF r.status \in HeldStatuses THEN {} ELSE r.release
  IN
  /\ r.op = "remove"
  /\ Exists(r.case)
  /\ Release(r.case, r.release)
  /\ case' = [case EXCEPT ![r.case] = NoCase("GONE", strays)]
  /\ FinishCase(k)
  /\ UNCHANGED <<assignment, repair, request>>

AbortCase(k) ==
  /\ desk[k] # IdleClerk
  /\ FinishCase(k)
  /\ UNCHANGED <<lifecycleVars, case>>
-----------------------------------------------------------------------------
CaseCommand ==
  \/ \E c \in Cases, u \in Users, S \in SUBSET Assets, type \in Types : Create(c, u, S, type)
  \/ \E c \in Cases : Submit(c) \/ Complete(c)

CaseRead(k) ==
  \/ \E c \in Cases, u \in Users : ApproveRead(k, c, u) \/ RejectRead(k, c, u)
  \/ \E c \in Cases : StartRead(k, c) \/ CancelRead(k, c) \/ RemoveRead(k, c)
  \/ \E c \in Cases, file \in Evidence : EvidenceRead(k, c, file)
  \/ \E c \in Cases, a \in Assets, result \in Results : SanitizeRead(k, c, a, result)

CaseCommit(k) ==
  \/ DecideCommit(k)
  \/ MoveCommit(k)
  \/ EvidenceCommit(k)
  \/ SanitizeCommit(k)
  \/ RemoveCommit(k)
  \/ AbortCase(k)

Next == \/ Lifecycle!Next /\ UNCHANGED <<case, desk>>
        \/ CaseCommand
        \/ \E k \in Clerks : CaseRead(k) \/ CaseCommit(k)
Spec == Init /\ [][Next]_vars

\* The same commands one at a time, across cases and the register.
Quiet == Lifecycle!Quiet /\ \A k \in Clerks : desk[k] = IdleClerk
SerialNext ==
  \/ Quiet /\ Lifecycle!Next /\ UNCHANGED <<case, desk>>
  \/ Quiet /\ CaseCommand
  \/ \E h \in Handlers : Lifecycle!CommitStep(h) /\ UNCHANGED <<case, desk>>
  \/ \E k \in Clerks : (Quiet /\ CaseRead(k)) \/ CaseCommit(k)
SerialSpec == Init /\ [][SerialNext]_vars
-----------------------------------------------------------------------------
(***************************************************************************)
(* Properties that hold however requests interleave.                       *)
(***************************************************************************)

\* Every variable stays within its table's columns.
TypeOK == /\ Lifecycle!TypeOK
          /\ case \in [Cases -> CaseRows]
          /\ desk \in [Clerks -> CaseRequests \cup {IdleClerk}]

\* Segregation of duties survives every race between approve, reject, cancel
\* and start: a case on its way to disposal was decided by an administrator
\* other than the one who raised it (assertCanApprove).
ApprovalSegregated ==
  \A c \in Cases : case[c].status \in Executable \cup {"COMPLETED"} =>
    /\ case[c].approver \in Admins
    /\ case[c].approver # case[c].requester

\* A completed case keeps the evidence its type requires: nothing that was in
\* flight when it completed takes any away (assertRequiredEvidence).
CompletedHasEvidence ==
  \A c \in Cases : case[c].status = "COMPLETED" =>
    /\ case[c].evidence # {}
    /\ EvidenceSuffices(case[c].type, case[c].evidence, case[c].items \cap Sensitive # {})

\* Nothing is left open on a disposed asset: no holder, no assignment, no
\* repair, whichever stale write arrives after complete.
NothingOpenOnDisposed ==
  \A a \in Assets : StatusOf(a) = "DISPOSED" =>
    /\ asset[a].custodian = None
    /\ Lifecycle!OpenAssignments(a) = {}
    /\ Lifecycle!OpenRepairs(a) = {}

\* Only a case retires an asset, out of RESERVED, and it retires every asset it
\* lists in the same step.
RetiredByItsCase ==
  [][\A a \in Assets : StatusOf(a) # "DISPOSED" /\ asset'[a].status = "DISPOSED" =>
       \E c \in Cases :
         /\ a \in case[c].items
         /\ case[c].status = "IN_EXECUTION" /\ case'[c].status = "COMPLETED"
         /\ \A b \in case[c].items : /\ StatusOf(b) = "RESERVED"
                                     /\ asset'[b].status = "DISPOSED"]_vars

\* What the register promises by itself still holds with cases writing to it.
HolderSigned          == Lifecycle!HolderSigned
HandedOutIsDocumented == Lifecycle!HandedOutIsDocumented
CustodyKept           == Lifecycle!CustodyKept
\* Restoring and reserving move only the status: an asset never has two open
\* documents, nor a holder while it stands in a warehouse.
OneOpenDocument          == Lifecycle!OneOpenDocument
CustodyExcludesWarehouse == Lifecycle!CustodyExcludesWarehouse
-----------------------------------------------------------------------------
(***************************************************************************)
(* Properties that hold when requests run one at a time.                   *)
(***************************************************************************)

\* An asset is in at most one case that has been submitted and not closed.
OneActiveCase ==
  \A c, e \in Cases : Active(c) /\ Active(e) /\ case[c].items \cap case[e].items # {} => c = e

\* The assets whose status was rewritten because somebody deleted a draft, a
\* rejected or a cancelled case that lists them.
Strays == UNION {case[c].items : c \in {e \in Cases : case[e].status = "GONE"}}

\* A reserved asset has an active case that lists it, always: nothing leaves a
\* reservation behind. And an active case has its assets reserved, nothing takes
\* one from it, but for those that the deletion of another case, which held
\* nothing, put back (remove).
ReservedByActiveCase ==
  \A a \in Assets :
    /\ StatusOf(a) = "RESERVED" => \E c \in Cases : Active(c) /\ a \in case[c].items
    /\ a \notin Strays =>
         \A c \in Cases : Active(c) /\ a \in case[c].items => StatusOf(a) = "RESERVED"

\* What the comment on remove says: "A submitted or executing case has its assets
\* in RESERVED". It does not hold: deleting a draft that lists the same asset
\* puts the asset back.
ActiveCaseReserves ==
  \A c \in Cases : Active(c) => \A a \in case[c].items : StatusOf(a) = "RESERVED"

\* Every data-bearing asset of a completed case has been verified as wiped
\* (assertCanComplete); updateSanitization decides on a case status it read
\* earlier.
CompletedIsSanitized ==
  \A c \in Cases : case[c].status = "COMPLETED" =>
    \A a \in case[c].items \cap Sensitive : case[c].wiped[a] = "VERIFIED"
=============================================================================
