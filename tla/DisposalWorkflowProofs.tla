----------------------- MODULE DisposalWorkflowProofs -----------------------
(***************************************************************************)
(* Proofs about DisposalWorkflow for every set of assets, cases, accounts  *)
(* and clerks, however requests interleave.  What the register does by     *)
(* itself is taken from AssetLifecycleProofs, instantiated as Register.    *)
(***************************************************************************)
EXTENDS DisposalWorkflow, TLAPS

Register == INSTANCE AssetLifecycleProofs
-----------------------------------------------------------------------------
(***************************************************************************)
(* Lifecycle and Register are two instances of the same register.          *)
(***************************************************************************)
LEMMA SameTypes ==
  /\ Lifecycle!TypeOK <=> Register!TypeOK
  /\ Lifecycle!TypeOK' <=> Register!TypeOK'
BY DEF Lifecycle!AssetRows, Register!AssetRows, Lifecycle!AssignmentRows,
       Register!AssignmentRows, Lifecycle!RepairStates, Register!RepairStates,
       Lifecycle!Requests, Register!Requests, Lifecycle!TransferRequests,
       Register!TransferRequests, Lifecycle!CompleteRequests,
       Register!CompleteRequests, Lifecycle!CorrectRequests,
       Register!CorrectRequests, Lifecycle!RemoveRequests, Register!RemoveRequests,
       Lifecycle!CancelRequests, Register!CancelRequests, Lifecycle!Idle,
       Register!Idle, Lifecycle!Places, Register!Places, Lifecycle!Placements,
       Register!Placements, Lifecycle!InStock, Register!InStock, Lifecycle!At,
       Register!At, Lifecycle!Nowhere, Register!Nowhere, Lifecycle!TypeOK,
       Register!TypeOK, Lifecycle!StatusCodes, Register!StatusCodes, StatusCodes,
       Lifecycle!AssignmentTypes, Register!AssignmentTypes, AssignmentTypes,
       Lifecycle!MaintenanceOutcomes, Register!MaintenanceOutcomes,
       MaintenanceOutcomes

LEMMA SameNext == Lifecycle!Next <=> Register!Next
BY DEF Lifecycle!Next, Register!Next, Lifecycle!Command, Register!Command,
       Lifecycle!ReadStep, Register!ReadStep, Lifecycle!CommitStep,
       Register!CommitStep, Lifecycle!Create, Register!Create, Lifecycle!Issue,
       Register!Issue, Lifecycle!Assign, Register!Assign, Lifecycle!AssignMany,
       Register!AssignMany, Lifecycle!CloseAssignment, Register!CloseAssignment,
       Lifecycle!StartRepair, Register!StartRepair, Lifecycle!ReturnAsset,
       Register!ReturnAsset, Lifecycle!OpenMaintenance, Register!OpenMaintenance,
       Lifecycle!TransferRead, Register!TransferRead, Lifecycle!TransferCommit,
       Register!TransferCommit, Lifecycle!CompleteRead, Register!CompleteRead,
       Lifecycle!CompleteCommit, Register!CompleteCommit, Lifecycle!CorrectRead,
       Register!CorrectRead, Lifecycle!CorrectCommit, Register!CorrectCommit,
       Lifecycle!RemoveRead, Register!RemoveRead, Lifecycle!RemoveCancel,
       Register!RemoveCancel, Lifecycle!RemoveCommit, Register!RemoveCommit,
       Lifecycle!Abort, Register!Abort, Lifecycle!Begin, Register!Begin,
       Lifecycle!Finish, Register!Finish, Lifecycle!Live, Register!Live,
       Lifecycle!OpenAssignments, Register!OpenAssignments, Lifecycle!OpenRepairs,
       Register!OpenRepairs, Lifecycle!CustodyCheck, Register!CustodyCheck,
       Lifecycle!AssignmentIndexFree, Register!AssignmentIndexFree,
       Lifecycle!RepairIndexFree, Register!RepairIndexFree, Lifecycle!Locked,
       Register!Locked, Lifecycle!IdleRecord, Register!IdleRecord,
       Lifecycle!UnusedNumber, Register!UnusedNumber, Lifecycle!OpenFor,
       Register!OpenFor, Lifecycle!Idle, Register!Idle, Lifecycle!Placements,
       Register!Placements, Lifecycle!InStock, Register!InStock, Lifecycle!At,
       Register!At, Lifecycle!Nowhere, Register!Nowhere, Lifecycle!vars,
       Register!vars, Lifecycle!Issuable, Register!Issuable, Issuable,
       Lifecycle!AssignmentTypes, Register!AssignmentTypes, AssignmentTypes,
       Lifecycle!AssignmentTarget, Register!AssignmentTarget, AssignmentTarget,
       Lifecycle!HandedOut, Register!HandedOut, HandedOut, Lifecycle!ReturnOutcomes,
       Register!ReturnOutcomes, ReturnOutcomes, Lifecycle!TransferAllowed,
       Register!TransferAllowed, TransferAllowed, Lifecycle!Maintainable,
       Register!Maintainable, Maintainable, Lifecycle!MaintenanceOutcomes,
       Register!MaintenanceOutcomes, MaintenanceOutcomes

\* The register's own steps keep its types.
LEMMA RegisterTypes == Lifecycle!TypeOK /\ Lifecycle!Next => Lifecycle!TypeOK'
<1>1. Register!TypeOK /\ Register!Next => Register!TypeOK'
  BY Register!NextTypes, DisposalAssumption DEF Register!StatusCodes, StatusCodes
<1>2. QED
  BY <1>1, SameTypes, SameNext
-----------------------------------------------------------------------------
(***************************************************************************)
(* What a step of a case may write.                                        *)
(***************************************************************************)

\* Some assets change status, and some of them lose holder and place with it:
\* the register stays typed.
LEMMA StatusWritten ==
  ASSUME Lifecycle!TypeOK, NEW S \in SUBSET Assets, NEW f \in [Assets -> StatusCodes],
         asset' = [a \in Assets |-> IF a \in S THEN [asset[a] EXCEPT !.status = f[a]]
                                    ELSE asset[a]],
         UNCHANGED <<assignment, repair, request>>
  PROVE  Lifecycle!TypeOK'
<1>1. asset \in [Assets -> Lifecycle!AssetRows]
  BY DEF Lifecycle!TypeOK
<1>2. \A a \in Assets : [asset[a] EXCEPT !.status = f[a]] \in Lifecycle!AssetRows
  BY <1>1 DEF Lifecycle!AssetRows, Lifecycle!StatusCodes, StatusCodes
<1>3. asset' \in [Assets -> Lifecycle!AssetRows]
  BY <1>1, <1>2
<1>4. QED
  BY <1>3 DEF Lifecycle!TypeOK

\* A request is what its op says.
LEMMA RequestKinds ==
  ASSUME NEW r \in CaseRequests \cup {IdleClerk}
  PROVE  /\ r.op = "decide"   => /\ r.case \in Cases /\ r.status \in {"APPROVED", "REJECTED"}
                                 /\ r.by \in Admins /\ r.release \in SUBSET Assets
         /\ r.op = "move"     => /\ r.case \in Cases /\ r.status \in {"IN_EXECUTION", "CANCELLED"}
                                 /\ r.release \in SUBSET Assets
         /\ r.op = "evidence" => r.case \in Cases /\ r.file \in Evidence
         /\ r.op = "sanitize" => r.case \in Cases /\ r.item \in Assets /\ r.result \in Results
         /\ r.op = "remove"   => r.case \in Cases /\ r.release \in SUBSET Assets
BY DEF CaseRequests, IdleClerk

\* Writing the columns a step writes gives a disposal_cases row.
LEMMA RowUpdates ==
  ASSUME NEW row \in CaseRows
  PROVE  /\ \A s \in CaseStatuses : [row EXCEPT !.status = s] \in CaseRows
         /\ \A s \in CaseStatuses, u \in Users :
              [row EXCEPT !.status = s, !.approver = u] \in CaseRows
         /\ \A file \in EvidenceTypes : [row EXCEPT !.evidence = @ \cup {file}] \in CaseRows
         /\ \A a \in Assets, result \in Sanitization :
              [row EXCEPT !.wiped[a] = result] \in CaseRows
<1>1. ASSUME NEW a \in Assets, NEW result \in Sanitization
      PROVE  [row EXCEPT !.wiped[a] = result] \in CaseRows
  <2>1. [row.wiped EXCEPT ![a] = result] \in [Assets -> Sanitization]
    BY DEF CaseRows
  <2>2. QED
    BY <2>1 DEF CaseRows
<1>2. ASSUME NEW file \in EvidenceTypes
      PROVE  [row EXCEPT !.evidence = @ \cup {file}] \in CaseRows
  <2>1. row.evidence \cup {file} \in SUBSET EvidenceTypes
    BY DEF CaseRows
  <2>2. QED
    BY <2>1 DEF CaseRows
<1>3. QED
  BY <1>1, <1>2 DEF CaseRows

\* An unused number and a deleted case are rows too.
LEMMA NoCaseTyped ==
  /\ NoCase("FREE", {}) \in CaseRows
  /\ \A S \in SUBSET Assets : NoCase("GONE", S) \in CaseRows
BY DEF NoCase, CaseRows, CaseStatuses, DisposalTypes, StatusCodes, Sanitization
-----------------------------------------------------------------------------
LEMMA InitTypes == Init => TypeOK
<1> SUFFICES ASSUME Init PROVE TypeOK
  OBVIOUS
<1>1. Lifecycle!TypeOK
  <2>1. Register!Init => Register!TypeOK
    BY Register!InitTypes, DisposalAssumption DEF Register!StatusCodes, StatusCodes
  <2>2. Register!Init
    BY DEF Init, Lifecycle!Init, Register!Init, Lifecycle!Idle, Register!Idle,
           Lifecycle!Nowhere, Register!Nowhere, Lifecycle!UnusedNumber, Register!UnusedNumber
  <2>3. QED
    BY <2>1, <2>2, SameTypes
<1>2. QED
  BY <1>1, NoCaseTyped DEF Init, TypeOK

LEMMA CommandTypes == TypeOK /\ CaseCommand => TypeOK'
<1> SUFFICES ASSUME TypeOK, CaseCommand PROVE TypeOK'
  OBVIOUS
<1>0. /\ Lifecycle!TypeOK /\ case \in [Cases -> CaseRows]
      /\ asset \in [Assets -> Lifecycle!AssetRows]
      /\ \A c \in Cases : case[c].items \in SUBSET Assets
  BY DEF TypeOK, Lifecycle!TypeOK, CaseRows
<1>1. ASSUME NEW c \in Cases, NEW u \in Users, NEW S \in SUBSET Assets, NEW type \in Types,
             Create(c, u, S, type)
      PROVE  TypeOK'
  <2> DEFINE snapshot == [a \in Assets |-> IF a \in S THEN StatusOf(a) ELSE "READY"]
             wiped    == [a \in Assets |-> IF a \in S \cap Sensitive THEN "PENDING"
                                           ELSE "NOT_REQUIRED"]
  <2>1. snapshot \in [Assets -> StatusCodes]
    BY <1>0 DEF StatusOf, Lifecycle!AssetRows, Lifecycle!StatusCodes, StatusCodes
  <2>2. wiped \in [Assets -> Sanitization]
    BY DEF Sanitization
  <2>3. [status |-> "DRAFT", requester |-> u, approver |-> None, type |-> type,
         items |-> S, snapshot |-> snapshot, wiped |-> wiped, evidence |-> {}] \in CaseRows
    <3> HIDE DEF snapshot, wiped
    <3>1. type \in DisposalTypes
      BY DisposalAssumption
    <3>2. QED
      BY <2>1, <2>2, <3>1 DEF CaseRows, CaseStatuses
  <2>4. case' \in [Cases -> CaseRows]
    BY <1>0, <1>1, <2>3 DEF Create
  <2>5. Lifecycle!TypeOK'
    BY <1>0, <1>1 DEF Create, lifecycleVars, Lifecycle!TypeOK
  <2>6. QED
    BY <1>1, <2>4, <2>5 DEF Create, TypeOK
<1>2. ASSUME NEW c \in Cases, Submit(c) PROVE TypeOK'
  <2> DEFINE f == [a \in Assets |-> "RESERVED"]
  <2>1. f \in [Assets -> StatusCodes]
    BY DEF StatusCodes
  <2>2. asset' = [a \in Assets |-> IF a \in case[c].items
                                   THEN [asset[a] EXCEPT !.status = f[a]] ELSE asset[a]]
    BY <1>2 DEF Submit
  <2>3. Lifecycle!TypeOK'
    <3> HIDE DEF f
    <3>1. QED
      BY <1>0, <1>2, <2>1, <2>2, StatusWritten DEF Submit
  <2>4. case' \in [Cases -> CaseRows]
    <3>1. [case[c] EXCEPT !.status = "SUBMITTED"] \in CaseRows
      BY <1>0, RowUpdates DEF CaseStatuses
    <3>2. QED
      BY <1>0, <1>2, <3>1 DEF Submit
  <2>5. QED
    BY <1>2, <2>3, <2>4 DEF Submit, TypeOK
<1>3. ASSUME NEW c \in Cases, Complete(c) PROVE TypeOK'
  <2>1. \A a \in Assets : [asset[a] EXCEPT !.status = "DISPOSED", !.custodian = None,
                                           !.place = Lifecycle!Nowhere] \in Lifecycle!AssetRows
    BY <1>0 DEF Lifecycle!AssetRows, Lifecycle!StatusCodes, Lifecycle!Places
  <2>2. asset' \in [Assets -> Lifecycle!AssetRows]
    BY <1>0, <1>3, <2>1 DEF Complete
  <2>3. case' \in [Cases -> CaseRows]
    <3>1. [case[c] EXCEPT !.status = "COMPLETED"] \in CaseRows
      BY <1>0, RowUpdates DEF CaseStatuses
    <3>2. QED
      BY <1>0, <1>3, <3>1 DEF Complete
  <2>4. QED
    BY <1>0, <1>3, <2>2, <2>3 DEF Complete, TypeOK, Lifecycle!TypeOK
<1>4. QED
  BY <1>1, <1>2, <1>3 DEF CaseCommand

\* Reads only start a request.
LEMMA ReadTypes ==
  ASSUME TypeOK, NEW k \in Clerks, CaseRead(k)
  PROVE  TypeOK' /\ UNCHANGED <<lifecycleVars, case>>
<1>1. ASSUME NEW r \in CaseRequests, BeginCase(k, r)
      PROVE  TypeOK' /\ UNCHANGED <<lifecycleVars, case>>
  BY <1>1 DEF BeginCase, TypeOK, Lifecycle!TypeOK, lifecycleVars
<1>2. \A c \in Cases : case[c].items \in SUBSET Assets
  BY DEF TypeOK, CaseRows
<1>3. ASSUME NEW c \in Cases, NEW u \in Users, ApproveRead(k, c, u) \/ RejectRead(k, c, u)
      PROVE  \E r \in CaseRequests : BeginCase(k, r)
  <2>1. u \in Admins
    BY <1>3 DEF ApproveRead, RejectRead, MayDecide
  <2>2. /\ [op |-> "decide", case |-> c, status |-> "APPROVED", by |-> u, release |-> {}]
             \in CaseRequests
        /\ [op |-> "decide", case |-> c, status |-> "REJECTED", by |-> u,
            release |-> case[c].items] \in CaseRequests
    BY <1>2, <2>1 DEF CaseRequests
  <2>3. QED
    BY <1>3, <2>2 DEF ApproveRead, RejectRead
<1>4. ASSUME NEW c \in Cases, StartRead(k, c) \/ CancelRead(k, c)
      PROVE  \E r \in CaseRequests : BeginCase(k, r)
  <2>1. \A status \in {"IN_EXECUTION", "CANCELLED"}, S \in SUBSET Assets :
          [op |-> "move", case |-> c, status |-> status, release |-> S] \in CaseRequests
    BY DEF CaseRequests
  <2>2. (IF case[c].status = "DRAFT" THEN {} ELSE case[c].items) \in SUBSET Assets
    BY <1>2
  <2>3. QED
    BY <1>4, <2>1, <2>2 DEF StartRead, CancelRead
<1>5. ASSUME NEW c \in Cases, RemoveRead(k, c)
      PROVE  \E r \in CaseRequests : BeginCase(k, r)
  <2>1. case[c].status \in CaseStatuses
    BY <1>5, DisposalAssumption DEF RemoveRead
  <2>2. [op |-> "remove", case |-> c, status |-> case[c].status,
         release |-> {a \in case[c].items : StatusOf(a) # case[c].snapshot[a]}] \in CaseRequests
    BY <1>2, <2>1 DEF CaseRequests
  <2>3. QED
    BY <1>5, <2>2 DEF RemoveRead
<1>6. ASSUME NEW c \in Cases, NEW file \in Evidence, EvidenceRead(k, c, file)
      PROVE  \E r \in CaseRequests : BeginCase(k, r)
  BY <1>6 DEF EvidenceRead, CaseRequests
<1>7. ASSUME NEW c \in Cases, NEW a \in Assets, NEW result \in Results,
             SanitizeRead(k, c, a, result)
      PROVE  \E r \in CaseRequests : BeginCase(k, r)
  BY <1>7 DEF SanitizeRead, CaseRequests
<1>8. \E r \in CaseRequests : BeginCase(k, r)
  BY <1>3, <1>4, <1>5, <1>6, <1>7 DEF CaseRead
<1>9. QED
  BY <1>1, <1>8

\* Releasing any assets to their snapshots leaves the register typed.
LEMMA ReleaseTypes ==
  ASSUME TypeOK, NEW c \in Cases, NEW S \in SUBSET Assets, Release(c, S),
         UNCHANGED <<assignment, repair, request>>
  PROVE  Lifecycle!TypeOK'
<1>1. case[c].snapshot \in [Assets -> StatusCodes]
  BY DEF TypeOK, CaseRows
<1>2. QED
  BY <1>1, StatusWritten DEF Release, TypeOK

LEMMA CommitTypes ==
  ASSUME TypeOK, NEW k \in Clerks, CaseCommit(k)
  PROVE  TypeOK'
<1> DEFINE r == desk[k]
<1>0. r \in CaseRequests \cup {IdleClerk}
  BY DEF TypeOK
<1>1. FinishCase(k) => desk' \in [Clerks -> CaseRequests \cup {IdleClerk}]
  BY DEF FinishCase, TypeOK
<1>2. \A c \in Cases, row \in CaseRows :
        case' = [case EXCEPT ![c] = row] => case' \in [Cases -> CaseRows]
  BY DEF TypeOK
<1>3. CASE DecideCommit(k)
  <2>1. /\ r.case \in Cases /\ r.status \in {"APPROVED", "REJECTED"}
        /\ r.by \in Users /\ r.release \in SUBSET Assets
    BY <1>0, <1>3, RequestKinds, DisposalAssumption DEF DecideCommit
  <2>2. Lifecycle!TypeOK'
    BY <1>3, <2>1, ReleaseTypes DEF DecideCommit
  <2>3. case[r.case] \in CaseRows
    BY <2>1 DEF TypeOK
  <2>4. [case[r.case] EXCEPT !.status = r.status, !.approver = r.by] \in CaseRows
    BY <2>1, <2>3, RowUpdates DEF CaseStatuses
  <2>5. case' = [case EXCEPT ![r.case] = [case[r.case] EXCEPT !.status = r.status,
                                                              !.approver = r.by]]
    BY <1>3, <2>1 DEF DecideCommit, TypeOK
  <2>6. QED
    BY <1>1, <1>2, <1>3, <2>1, <2>2, <2>4, <2>5 DEF DecideCommit, TypeOK
<1>4. CASE MoveCommit(k)
  <2>1. /\ r.case \in Cases /\ r.status \in {"IN_EXECUTION", "CANCELLED"}
        /\ r.release \in SUBSET Assets
    BY <1>0, <1>4, RequestKinds DEF MoveCommit
  <2>2. Lifecycle!TypeOK'
    BY <1>4, <2>1, ReleaseTypes DEF MoveCommit
  <2>3. case[r.case] \in CaseRows
    BY <2>1 DEF TypeOK
  <2>4. [case[r.case] EXCEPT !.status = r.status] \in CaseRows
    BY <2>1, <2>3, RowUpdates DEF CaseStatuses
  <2>5. QED
    BY <1>1, <1>2, <1>4, <2>1, <2>2, <2>4 DEF MoveCommit, TypeOK
<1>5. CASE EvidenceCommit(k)
  <2>1. r.case \in Cases /\ r.file \in EvidenceTypes
    BY <1>0, <1>5, RequestKinds, DisposalAssumption DEF EvidenceCommit
  <2>2. case[r.case] \in CaseRows
    BY <2>1 DEF TypeOK
  <2>3. [case[r.case] EXCEPT !.evidence = @ \cup {r.file}] \in CaseRows
    BY <2>1, <2>2, RowUpdates
  <2>4. QED
    BY <1>1, <1>2, <1>5, <2>1, <2>3 DEF EvidenceCommit, TypeOK, Lifecycle!TypeOK, lifecycleVars
<1>6. CASE SanitizeCommit(k)
  <2>1. r.case \in Cases /\ r.item \in Assets /\ r.result \in Sanitization
    BY <1>0, <1>6, RequestKinds, DisposalAssumption DEF SanitizeCommit
  <2>2. case[r.case] \in CaseRows
    BY <2>1 DEF TypeOK
  <2>3. [case[r.case] EXCEPT !.wiped[r.item] = r.result] \in CaseRows
    BY <2>1, <2>2, RowUpdates
  <2>4. QED
    BY <1>1, <1>2, <1>6, <2>1, <2>3 DEF SanitizeCommit, TypeOK, Lifecycle!TypeOK, lifecycleVars
<1>7. CASE RemoveCommit(k)
  <2>1. r.case \in Cases /\ r.release \in SUBSET Assets
    BY <1>0, <1>7, RequestKinds DEF RemoveCommit
  <2>2. Lifecycle!TypeOK'
    BY <1>7, <2>1, ReleaseTypes DEF RemoveCommit
  <2>3. PICK S \in SUBSET Assets : case' = [case EXCEPT ![r.case] = NoCase("GONE", S)]
    BY <1>7, <2>1 DEF RemoveCommit
  <2>4. NoCase("GONE", S) \in CaseRows
    BY NoCaseTyped
  <2>5. QED
    BY <1>1, <1>2, <1>7, <2>1, <2>2, <2>3, <2>4 DEF RemoveCommit, TypeOK
<1>8. CASE AbortCase(k)
  BY <1>1, <1>8 DEF AbortCase, TypeOK, Lifecycle!TypeOK, lifecycleVars
<1>9. QED
  BY <1>3, <1>4, <1>5, <1>6, <1>7, <1>8 DEF CaseCommit

LEMMA NextTypes == TypeOK /\ [Next]_vars => TypeOK'
<1>1. TypeOK /\ Lifecycle!Next /\ UNCHANGED <<case, desk>> => TypeOK'
  BY RegisterTypes DEF TypeOK
<1>2. TypeOK /\ UNCHANGED vars => TypeOK'
  BY DEF TypeOK, Lifecycle!TypeOK, vars
<1>3. QED
  BY <1>1, <1>2, CommandTypes, ReadTypes, CommitTypes DEF Next

\* Every variable stays within its table's columns, in the register and in the
\* disposal cases, whatever is written late.
THEOREM TypeCorrect == Spec => []TypeOK
BY InitTypes, NextTypes, PTL DEF Spec
-----------------------------------------------------------------------------
(***************************************************************************)
(* What one step does to one case.  A case keeps who raised it, its type,  *)
(* its items and its snapshots as long as it exists, and loses no          *)
(* evidence; every status it takes was checked by the command that wrote   *)
(* it, or read earlier by the clerk that writes it now.                    *)
(***************************************************************************)
Raised(c) == /\ case[c].status = "FREE" /\ case'[c].status = "DRAFT"
             /\ \A a \in Assets : case'[c].snapshot[a] \in DisposalEligible
Gone(c)   == /\ Exists(c)
             /\ case'[c].status = "GONE" /\ case'[c].snapshot = [a \in Assets |-> "READY"]
Same(c)   == /\ case'[c].requester = case[c].requester
             /\ case'[c].type = case[c].type
             /\ case'[c].items = case[c].items
             /\ case'[c].snapshot = case[c].snapshot
             /\ case[c].evidence \subseteq case'[c].evidence
Noted(c)  == Same(c) /\ UNCHANGED <<case[c].status, case[c].approver>>
Moved(c)  ==
  /\ Same(c) /\ Exists(c)
  /\ \/ case[c].status = "DRAFT" /\ case'[c].status = "SUBMITTED"
        /\ case'[c].approver = case[c].approver
     \/ Completable(c) /\ case'[c].status = "COMPLETED"
        /\ case'[c].approver = case[c].approver
     \/ \E k \in Clerks : /\ desk[k].op = "decide" /\ desk[k].case = c
                          /\ case'[c].status \in {"APPROVED", "REJECTED"}
                          /\ case'[c].approver = desk[k].by
     \/ \E k \in Clerks : /\ desk[k].op = "move" /\ desk[k].case = c
                          /\ desk[k].status \in {"IN_EXECUTION", "CANCELLED"}
                          /\ case'[c].status = desk[k].status
                          /\ case'[c].approver = case[c].approver

LEMMA CommandByCase ==
  ASSUME TypeOK, CaseCommand, NEW c \in Cases
  PROVE  Raised(c) \/ Noted(c) \/ Moved(c)
<1>0. case \in [Cases -> CaseRows] /\ case[c] \in CaseRows
  BY DEF TypeOK
<1>1. ASSUME NEW e \in Cases, NEW u \in Users, NEW S \in SUBSET Assets, NEW type \in Types,
             Create(e, u, S, type)
      PROVE  Raised(c) \/ Noted(c)
  <2>1. CASE c = e
    <3>1. /\ case[c].status = "FREE" /\ case'[c].status = "DRAFT"
          /\ case'[c].snapshot = [a \in Assets |-> IF a \in S THEN StatusOf(a) ELSE "READY"]
      BY <1>0, <1>1, <2>1 DEF Create
    <3>2. \A a \in S : StatusOf(a) \in DisposalEligible
      BY <1>1 DEF Create
    <3>3. QED
      BY <3>1, <3>2 DEF Raised, DisposalEligible
  <2>2. CASE c # e
    BY <1>0, <1>1, <2>2 DEF Create, Noted, Same
  <2>3. QED
    BY <2>1, <2>2
<1>2. ASSUME NEW e \in Cases, Submit(e) PROVE Noted(c) \/ Moved(c)
  <2>1. case' = [case EXCEPT ![e] = [case[e] EXCEPT !.status = "SUBMITTED"]]
    BY <1>2 DEF Submit
  <2>2. CASE c # e
    BY <1>0, <2>1, <2>2 DEF Noted, Same
  <2>3. CASE c = e
    <3>1. case[c].status = "DRAFT"
      BY <1>2, <2>3 DEF Submit
    <3>2. case'[c] = [case[c] EXCEPT !.status = "SUBMITTED"]
      BY <1>0, <2>1, <2>3
    <3>3. Same(c) /\ case'[c].status = "SUBMITTED" /\ case'[c].approver = case[c].approver
      BY <1>0, <3>2 DEF Same, CaseRows
    <3>4. QED
      BY <3>1, <3>3 DEF Moved, Exists
  <2>4. QED
    BY <2>2, <2>3
<1>3. ASSUME NEW e \in Cases, Complete(e) PROVE Noted(c) \/ Moved(c)
  <2>1. case' = [case EXCEPT ![e] = [case[e] EXCEPT !.status = "COMPLETED"]]
    BY <1>3 DEF Complete
  <2>2. CASE c # e
    BY <1>0, <2>1, <2>2 DEF Noted, Same
  <2>3. CASE c = e
    <3>1. Completable(c)
      BY <1>3, <2>3 DEF Complete
    <3>2. case'[c] = [case[c] EXCEPT !.status = "COMPLETED"]
      BY <1>0, <2>1, <2>3
    <3>3. Same(c) /\ case'[c].status = "COMPLETED" /\ case'[c].approver = case[c].approver
      BY <1>0, <3>2 DEF Same, CaseRows
    <3>4. Exists(c)
      BY <3>1 DEF Completable, Exists
    <3>5. QED
      BY <3>1, <3>3, <3>4 DEF Moved
  <2>4. QED
    BY <2>2, <2>3
<1>4. QED
  BY <1>1, <1>2, <1>3 DEF CaseCommand

LEMMA CommitByCase ==
  ASSUME TypeOK, NEW k \in Clerks, CaseCommit(k), NEW c \in Cases
  PROVE  Noted(c) \/ Moved(c) \/ Gone(c)
<1> DEFINE r == desk[k]
<1>0. /\ case \in [Cases -> CaseRows] /\ case[c] \in CaseRows
      /\ r \in CaseRequests \cup {IdleClerk}
  BY DEF TypeOK
<1>1. CASE DecideCommit(k)
  <2>1. /\ r.op = "decide" /\ r.case \in Cases /\ r.status \in {"APPROVED", "REJECTED"}
        /\ Exists(r.case)
    BY <1>0, <1>1, RequestKinds DEF DecideCommit
  <2>2. case' = [case EXCEPT ![r.case] = [case[r.case] EXCEPT !.status = r.status,
                                                              !.approver = r.by]]
    BY <1>0, <1>1, <2>1 DEF DecideCommit
  <2>3. CASE c # r.case
    BY <1>0, <2>1, <2>2, <2>3 DEF Noted, Same
  <2>4. CASE c = r.case
    <3>1. case'[c] = [case[c] EXCEPT !.status = r.status, !.approver = r.by]
      BY <1>0, <2>2, <2>4
    <3>2. Same(c) /\ case'[c].status = r.status /\ case'[c].approver = r.by
      BY <1>0, <3>1 DEF Same, CaseRows
    <3>3. QED
      BY <2>1, <2>4, <3>2 DEF Moved
  <2>5. QED
    BY <2>3, <2>4
<1>2. CASE MoveCommit(k)
  <2>1. /\ r.op = "move" /\ r.case \in Cases /\ r.status \in {"IN_EXECUTION", "CANCELLED"}
        /\ Exists(r.case)
    BY <1>0, <1>2, RequestKinds DEF MoveCommit
  <2>2. case' = [case EXCEPT ![r.case] = [case[r.case] EXCEPT !.status = r.status]]
    BY <1>2 DEF MoveCommit
  <2>3. CASE c # r.case
    BY <1>0, <2>1, <2>2, <2>3 DEF Noted, Same
  <2>4. CASE c = r.case
    <3>1. case'[c] = [case[c] EXCEPT !.status = r.status]
      BY <1>0, <2>2, <2>4
    <3>2. Same(c) /\ case'[c].status = r.status /\ case'[c].approver = case[c].approver
      BY <1>0, <3>1 DEF Same, CaseRows
    <3>3. QED
      BY <2>1, <2>4, <3>2 DEF Moved
  <2>5. QED
    BY <2>3, <2>4
<1>3. CASE EvidenceCommit(k)
  <2>1. case' = [case EXCEPT ![r.case] = [case[r.case] EXCEPT
                                            !.evidence = case[r.case].evidence \cup {r.file}]]
        /\ r.case \in Cases
    BY <1>0, <1>3, RequestKinds DEF EvidenceCommit, CaseRows
  <2>2. QED
    BY <1>0, <2>1 DEF Noted, Same, CaseRows
<1>4. CASE SanitizeCommit(k)
  <2>1. /\ r.case \in Cases
        /\ case' = [case EXCEPT ![r.case] = [case[r.case] EXCEPT !.wiped[r.item] = r.result]]
    BY <1>0, <1>4, RequestKinds DEF SanitizeCommit
  <2>2. QED
    BY <1>0, <2>1 DEF Noted, Same, CaseRows
<1>5. CASE RemoveCommit(k)
  <2>1. CASE c = r.case
    BY <1>0, <1>5, <2>1, RequestKinds DEF RemoveCommit, Gone, NoCase
  <2>2. CASE c # r.case
    BY <1>0, <1>5, <2>2 DEF RemoveCommit, Noted, Same
  <2>3. QED
    BY <2>1, <2>2
<1>6. CASE AbortCase(k)
  BY <1>6 DEF AbortCase, Noted, Same
<1>7. QED
  BY <1>1, <1>2, <1>3, <1>4, <1>5, <1>6 DEF CaseCommit

LEMMA StepByCase ==
  ASSUME TypeOK, [Next]_vars, NEW c \in Cases
  PROVE  Raised(c) \/ Noted(c) \/ Moved(c) \/ Gone(c)
<1>1. CASE Lifecycle!Next /\ UNCHANGED <<case, desk>>
  BY <1>1 DEF Noted, Same
<1>2. CASE UNCHANGED vars
  BY <1>2 DEF Noted, Same, vars
<1>3. ASSUME NEW k \in Clerks, CaseRead(k) PROVE Noted(c)
  BY <1>3, ReadTypes DEF Noted, Same
<1>4. QED
  BY <1>1, <1>2, <1>3, CommandByCase, CommitByCase DEF Next
-----------------------------------------------------------------------------
\* More files never undo what the type requires.
LEMMA MoreEvidence ==
  ASSUME NEW type, NEW files, NEW more, NEW hasData, files \subseteq more,
         EvidenceSuffices(type, files, hasData)
  PROVE  EvidenceSuffices(type, more, hasData)
BY DEF EvidenceSuffices

\* A completed case keeps the evidence its type requires: complete checks it,
\* and whatever was in flight at that moment can only add to it.
THEOREM EvidenceKept == Spec => []CompletedHasEvidence
<1>1. Init => CompletedHasEvidence
  BY DEF Init, CompletedHasEvidence, NoCase
<1>2. ASSUME TypeOK, CompletedHasEvidence, [Next]_vars PROVE CompletedHasEvidence'
  <2> SUFFICES ASSUME NEW c \in Cases, case'[c].status = "COMPLETED"
               PROVE  /\ case'[c].evidence # {}
                      /\ EvidenceSuffices(case'[c].type, case'[c].evidence,
                                          case'[c].items \cap Sensitive # {})
    BY DEF CompletedHasEvidence
  <2>1. CASE Noted(c)
    BY <1>2, <2>1, MoreEvidence DEF Noted, Same, CompletedHasEvidence
  <2>2. CASE Moved(c)
    <3>1. Same(c) /\ Completable(c)
      BY <2>2 DEF Moved
    <3>2. QED
      BY <3>1, MoreEvidence DEF Same, Completable
  <2>3. CASE Raised(c) \/ Gone(c)
    BY <2>3 DEF Raised, Gone
  <2>4. QED
    BY <1>2, <2>1, <2>2, <2>3, StepByCase
<1>3. QED
  BY <1>1, <1>2, TypeCorrect, PTL DEF Spec
-----------------------------------------------------------------------------
(***************************************************************************)
(* Segregation of duties.  ApprovalSegregated is not inductive: a clerk    *)
(* may be about to approve, or to start the work, on what it read earlier. *)
(* What such a request read of requester and approver still stands when it *)
(* is written, because a case never changes its requester and only another *)
(* decision changes its approver.                                          *)
(***************************************************************************)
Decided(c) == /\ case[c].approver \in Admins
              /\ case[c].approver # case[c].requester

StillSound(r) ==
  r # IdleClerk =>
    /\ case[r.case].status # "FREE"
    /\ r.op = "decide" /\ Exists(r.case) => r.by # case[r.case].requester
    /\ r.op = "move" /\ r.status = "IN_EXECUTION" /\ Exists(r.case) => Decided(r.case)

SegregationInv == /\ ApprovalSegregated
                  /\ \A k \in Clerks : StillSound(desk[k])

\* A clerk's request ends, stays as it is, or is a new one.
LEMMA DeskSteps ==
  ASSUME TypeOK, [Next]_vars, NEW k \in Clerks
  PROVE  desk'[k] \in {desk[k], IdleClerk} \/ CaseRead(k)
<1> USE DEF TypeOK
<1>1. CASE UNCHANGED desk
  BY <1>1
<1>2. CASE CaseCommand
  BY <1>2 DEF CaseCommand, Create, Submit, Complete
<1>3. ASSUME NEW j \in Clerks, CaseRead(j) PROVE desk'[k] = desk[k] \/ CaseRead(k)
  <2>1. CASE j = k
    BY <1>3, <2>1
  <2>2. CASE j # k
    BY <1>3, <2>2 DEF CaseRead, BeginCase, ApproveRead, RejectRead, StartRead, CancelRead,
                      RemoveRead, EvidenceRead, SanitizeRead
  <2>3. QED
    BY <2>1, <2>2
<1>4. ASSUME NEW j \in Clerks, CaseCommit(j) PROVE desk'[k] \in {desk[k], IdleClerk}
  BY <1>4 DEF CaseCommit, FinishCase, DecideCommit, MoveCommit, EvidenceCommit,
              SanitizeCommit, RemoveCommit, AbortCase
<1>5. QED
  BY <1>1, <1>2, <1>3, <1>4 DEF Next, vars

\* What a request reads is sound when it is read.
LEMMA ReadsSound ==
  ASSUME TypeOK, ApprovalSegregated, NEW k \in Clerks, CaseRead(k)
  PROVE  StillSound(desk[k])'
<1>0. case' = case
  BY ReadTypes
<1>1. SUFFICES ASSUME NEW r, BeginCase(k, r), StillSound(r) PROVE StillSound(desk[k])'
  <2>1. ASSUME NEW c \in Cases, NEW u \in Users, ApproveRead(k, c, u) \/ RejectRead(k, c, u)
        PROVE  \E r : BeginCase(k, r) /\ StillSound(r)
    BY <2>1 DEF ApproveRead, RejectRead, MayDecide, StillSound
  <2>2. ASSUME NEW c \in Cases, StartRead(k, c) PROVE \E r : BeginCase(k, r) /\ StillSound(r)
    BY <2>2 DEF StartRead, StillSound, ApprovalSegregated, Decided, Executable
  <2>3. ASSUME NEW c \in Cases, CancelRead(k, c) PROVE \E r : BeginCase(k, r) /\ StillSound(r)
    BY <2>3 DEF CancelRead, StillSound, Exists
  <2>4. ASSUME NEW c \in Cases, RemoveRead(k, c) PROVE \E r : BeginCase(k, r) /\ StillSound(r)
    BY <2>4, DisposalAssumption DEF RemoveRead, StillSound, CaseStatuses
  <2>5. ASSUME NEW c \in Cases, NEW file \in Evidence, EvidenceRead(k, c, file)
        PROVE  \E r : BeginCase(k, r) /\ StillSound(r)
    BY <2>5 DEF EvidenceRead, StillSound, Executable
  <2>6. ASSUME NEW c \in Cases, NEW a \in Assets, NEW result \in Results,
               SanitizeRead(k, c, a, result)
        PROVE  \E r : BeginCase(k, r) /\ StillSound(r)
    BY <2>6 DEF SanitizeRead, StillSound, Executable
  <2>7. QED
    BY <2>1, <2>2, <2>3, <2>4, <2>5, <2>6 DEF CaseRead
<1>2. desk'[k] = r
  BY <1>1 DEF BeginCase, TypeOK
<1>3. QED
  BY <1>0, <1>1, <1>2 DEF StillSound, Exists, Decided

\* What a request has read stays sound until it is written.
LEMMA RequestsStaySound ==
  ASSUME TypeOK, SegregationInv, [Next]_vars, NEW r \in CaseRequests, StillSound(r)
  PROVE  StillSound(r)'
<1> DEFINE c == r.case
<1>0. c \in Cases /\ r # IdleClerk
  BY DEF CaseRequests, IdleClerk
<1>1. case[c].status # "FREE"
  BY <1>0 DEF StillSound
<1>2. CASE Noted(c)
  BY <1>0, <1>2 DEF Noted, Same, StillSound, Exists, Decided
<1>3. CASE Moved(c)
  <2>1. Same(c) /\ Exists(c) /\ case'[c].status # "FREE"
    BY <1>3 DEF Moved
  <2>2. case'[c].approver # case[c].approver =>
          case'[c].approver \in Admins /\ case'[c].approver # case[c].requester
    <3>1. ASSUME NEW k \in Clerks, desk[k].op = "decide", desk[k].case = c
          PROVE  desk[k].by \in Admins /\ desk[k].by # case[c].requester
      <4>1. desk[k] # IdleClerk /\ desk[k] \in CaseRequests \cup {IdleClerk}
        BY <3>1 DEF IdleClerk, TypeOK
      <4>2. QED
        BY <2>1, <3>1, <4>1, RequestKinds DEF SegregationInv, StillSound
    <3>2. QED
      BY <1>3, <3>1 DEF Moved
  <2>3. QED
    BY <1>0, <2>1, <2>2 DEF Same, StillSound, Decided
<1>4. CASE Gone(c)
  BY <1>4 DEF Gone, StillSound, Exists
<1>5. QED
  BY <1>0, <1>1, <1>2, <1>3, <1>4, StepByCase DEF Raised

LEMMA SegregationStep == TypeOK /\ SegregationInv /\ [Next]_vars => SegregationInv'
<1> SUFFICES ASSUME TypeOK, SegregationInv, [Next]_vars PROVE SegregationInv'
  OBVIOUS
<1>1. ASSUME NEW k \in Clerks PROVE StillSound(desk[k])'
  <2>1. CASE CaseRead(k)
    BY <2>1, ReadsSound DEF SegregationInv
  <2>2. CASE desk'[k] = IdleClerk
    BY <2>2 DEF StillSound
  <2>3. CASE desk'[k] = desk[k] /\ desk[k] # IdleClerk
    <3>1. desk[k] \in CaseRequests /\ StillSound(desk[k])
      BY <2>3 DEF TypeOK, SegregationInv
    <3>2. \A r \in CaseRequests : StillSound(r) => StillSound(r)'
      BY RequestsStaySound
    <3>3. QED
      BY <2>3, <3>1, <3>2 DEF StillSound, Exists, Decided
  <2>4. QED
    BY <2>1, <2>2, <2>3, DeskSteps
<1>2. ASSUME NEW c \in Cases, case'[c].status \in Executable \cup {"COMPLETED"}
      PROVE  Decided(c)'
  <2>1. CASE Noted(c)
    BY <1>2, <2>1 DEF Noted, Same, SegregationInv, ApprovalSegregated, Decided
  <2>2. CASE Moved(c)
    <3>1. Same(c) /\ Exists(c)
      BY <2>2 DEF Moved
    <3>2. CASE Completable(c) /\ case'[c].approver = case[c].approver
      BY <3>1, <3>2 DEF Completable, Executable, SegregationInv, ApprovalSegregated, Same, Decided
    <3>3. ASSUME NEW k \in Clerks, desk[k].case = c, desk[k].op \in {"decide", "move"},
                 desk[k].op = "decide" => case'[c].approver = desk[k].by,
                 desk[k].op = "move" => /\ case'[c].status = desk[k].status
                                        /\ desk[k].status \in {"IN_EXECUTION", "CANCELLED"}
                                        /\ case'[c].approver = case[c].approver
          PROVE  Decided(c)'
      <4>1. desk[k] \in CaseRequests /\ desk[k] # IdleClerk
        BY <3>3 DEF TypeOK, IdleClerk
      <4>2. CASE desk[k].op = "decide"
        BY <3>1, <3>3, <4>1, <4>2, RequestKinds
           DEF Same, SegregationInv, StillSound, Decided
      <4>3. CASE desk[k].op = "move"
        BY <1>2, <3>1, <3>3, <4>1, <4>3 DEF Same, SegregationInv, StillSound, Decided, Executable
      <4>4. QED
        BY <3>3, <4>2, <4>3
    <3>4. QED
      BY <1>2, <2>2, <3>2, <3>3 DEF Moved, Executable
  <2>3. CASE Raised(c) \/ Gone(c)
    BY <1>2, <2>3 DEF Raised, Gone, Executable
  <2>4. QED
    BY <2>1, <2>2, <2>3, StepByCase
<1>3. QED
  BY <1>1, <1>2 DEF SegregationInv, ApprovalSegregated, Decided

\* A case on its way to disposal was decided by an administrator other than the
\* one who raised it, however approve, reject, cancel and start interleave.
THEOREM DutiesSegregated == Spec => []ApprovalSegregated
<1>1. Init => SegregationInv
  BY DEF Init, SegregationInv, ApprovalSegregated, StillSound, NoCase, Executable
<1>2. SegregationInv => ApprovalSegregated
  BY DEF SegregationInv
<1>3. QED
  BY <1>1, <1>2, SegregationStep, TypeCorrect, PTL DEF Spec
-----------------------------------------------------------------------------
(***************************************************************************)
(* What the register promises by itself still holds with cases writing to  *)
(* it: a case only changes the status of an asset, never to a handed-out   *)
(* one, and takes holder and place away only when it retires it.           *)
(***************************************************************************)
SnapshotsEligible == \A c \in Cases, a \in Assets : case[c].snapshot[a] \in DisposalEligible

Untouched(a) == asset'[a] = asset[a]
Restated(a)  == \E s \in {"RESERVED"} \cup DisposalEligible :
                  asset'[a] = [asset[a] EXCEPT !.status = s]
Retired(a)   == /\ \E c \in Cases : Complete(c) /\ a \in case[c].items
                /\ Settled(a)
                /\ asset'[a] = [asset[a] EXCEPT !.status = "DISPOSED", !.custodian = None,
                                                !.place = Lifecycle!Nowhere]

LEMMA SnapshotStep == TypeOK /\ SnapshotsEligible /\ [Next]_vars => SnapshotsEligible'
<1> SUFFICES ASSUME TypeOK, SnapshotsEligible, [Next]_vars, NEW c \in Cases, NEW a \in Assets
             PROVE  case'[c].snapshot[a] \in DisposalEligible
  BY DEF SnapshotsEligible
<1>1. CASE Noted(c) \/ Moved(c)
  BY <1>1 DEF Noted, Moved, Same, SnapshotsEligible
<1>2. CASE Raised(c) \/ Gone(c)
  BY <1>2 DEF Raised, Gone, DisposalEligible
<1>3. QED
  BY <1>1, <1>2, StepByCase

\* What the cases' own steps do to an asset.
CaseStep == CaseCommand \/ \E k \in Clerks : CaseRead(k) \/ CaseCommit(k)

LEMMA CaseStepByAsset ==
  ASSUME TypeOK, SnapshotsEligible, CaseStep, NEW a \in Assets
  PROVE  /\ UNCHANGED <<assignment, repair, request>>
         /\ Untouched(a) \/ Restated(a) \/ Retired(a)
<1>1. CASE CaseCommand
  <2>1. ASSUME NEW c \in Cases, NEW u \in Users, NEW S \in SUBSET Assets, NEW type \in Types,
               Create(c, u, S, type)
        PROVE  UNCHANGED <<assignment, repair, request>> /\ Untouched(a)
    BY <2>1 DEF Create, lifecycleVars, Untouched
  <2>2. ASSUME NEW c \in Cases, Submit(c)
        PROVE  /\ UNCHANGED <<assignment, repair, request>>
               /\ Untouched(a) \/ Restated(a)
    BY <2>2 DEF Submit, Untouched, Restated
  <2>3. ASSUME NEW c \in Cases, Complete(c)
        PROVE  /\ UNCHANGED <<assignment, repair, request>>
               /\ Untouched(a) \/ Retired(a)
    BY <2>3 DEF Complete, Untouched, Retired
  <2>4. QED
    BY <1>1, <2>1, <2>2, <2>3 DEF CaseCommand
<1>2. ASSUME NEW k \in Clerks, CaseRead(k)
      PROVE  UNCHANGED <<assignment, repair, request>> /\ Untouched(a)
  BY <1>2, ReadTypes DEF lifecycleVars, Untouched
<1>3. ASSUME NEW k \in Clerks, CaseCommit(k)
      PROVE  /\ UNCHANGED <<assignment, repair, request>>
             /\ Untouched(a) \/ Restated(a)
  <2>1. desk[k] \in CaseRequests \cup {IdleClerk}
    BY DEF TypeOK
  <2>2. ASSUME NEW c \in Cases, NEW S, Release(c, S) PROVE Untouched(a) \/ Restated(a)
    BY <2>2 DEF Release, Untouched, Restated, SnapshotsEligible
  <2>3. CASE DecideCommit(k)
    BY <2>1, <2>2, <2>3, RequestKinds DEF DecideCommit
  <2>4. CASE MoveCommit(k)
    BY <2>1, <2>2, <2>4, RequestKinds DEF MoveCommit
  <2>5. CASE RemoveCommit(k)
    BY <2>1, <2>2, <2>5, RequestKinds DEF RemoveCommit
  <2>6. CASE EvidenceCommit(k) \/ SanitizeCommit(k) \/ AbortCase(k)
    BY <2>6 DEF EvidenceCommit, SanitizeCommit, AbortCase, lifecycleVars, Untouched
  <2>7. QED
    BY <1>3, <2>3, <2>4, <2>5, <2>6 DEF CaseCommit
<1>4. QED
  BY <1>1, <1>2, <1>3 DEF CaseStep

\* HolderSigned is the same fact in both instances, and the register keeps it.
LEMMA RegisterSigned ==
  TypeOK /\ HolderSigned /\ [Lifecycle!Next]_lifecycleVars => HolderSigned'
<1>1. Register!TypeOK /\ Register!HolderSigned /\ [Register!Next]_(Register!vars)
        => Register!HolderSigned'
  BY Register!SignedStep, DisposalAssumption
     DEF Register!StatusCodes, StatusCodes, Register!HolderSigned, Register!Signed
<1>2. /\ HolderSigned <=> Register!HolderSigned
      /\ HolderSigned' <=> Register!HolderSigned'
  BY DEF HolderSigned, Lifecycle!HolderSigned, Register!HolderSigned,
         Lifecycle!OpenAssignments, Register!OpenAssignments
<1>3. QED
  BY <1>1, <1>2, SameTypes, SameNext DEF TypeOK, lifecycleVars, Register!vars

\* Whoever the register names as custodian has signed for the asset, also while
\* cases reserve, release and retire assets under the register's feet.
SignedInv == SnapshotsEligible /\ HolderSigned

LEMMA SignedStep == TypeOK /\ SignedInv /\ [Next]_vars => SignedInv'
<1> SUFFICES ASSUME TypeOK, SignedInv, [Next]_vars PROVE HolderSigned'
  BY SnapshotStep DEF SignedInv
<1>1. CASE Lifecycle!Next \/ UNCHANGED vars
  BY <1>1, RegisterSigned DEF SignedInv, vars, lifecycleVars
<1>2. CASE CaseStep
  <2> SUFFICES ASSUME NEW a \in Assets, asset'[a].custodian # None
               PROVE  \E d \in Lifecycle!OpenAssignments(a)' :
                        assignment'[a][d].to = asset'[a].custodian
    BY DEF HolderSigned, Lifecycle!HolderSigned
  <2>1. assignment' = assignment /\ asset'[a].custodian = asset[a].custodian
    <3>1. asset[a] \in Lifecycle!AssetRows
      BY DEF TypeOK, Lifecycle!TypeOK
    <3>2. CASE Untouched(a) \/ Restated(a)
      BY <1>2, <3>1, <3>2, CaseStepByAsset
         DEF SignedInv, Untouched, Restated, Lifecycle!AssetRows
    <3>3. CASE Retired(a)
      BY <3>1, <3>3 DEF Retired, Lifecycle!AssetRows
    <3>4. QED
      BY <1>2, <3>2, <3>3, CaseStepByAsset DEF SignedInv
  <2>2. QED
    BY <2>1 DEF SignedInv, HolderSigned, Lifecycle!HolderSigned, Lifecycle!OpenAssignments
<1>3. QED
  BY <1>1, <1>2 DEF Next, CaseStep

LEMMA SignedInit == Init => SignedInv
BY DEF Init, Lifecycle!Init, SignedInv, SnapshotsEligible, NoCase, DisposalEligible,
       HolderSigned, Lifecycle!HolderSigned

THEOREM HolderSignedAlways == Spec => []HolderSigned
<1>1. SignedInv => HolderSigned
  BY DEF SignedInv
<1>2. QED
  BY <1>1, SignedInit, SignedStep, TypeCorrect, PTL DEF Spec

\* An asset in use or on loan is documented by its holder's open assignment,
\* also when cases put assets back to the status they found: never a handed-out
\* one. Administrators must not set IN_USE or ON_LOAN by hand.
THEOREM HandedOutDocumented ==
  ASSUME Corrections \cap HandedOut = {}
  PROVE  Spec => []HandedOutIsDocumented
<1> DEFINE Inv == SnapshotsEligible /\ HandedOutIsDocumented
<1>1. Init => Inv
  BY DEF Init, Lifecycle!Init, SnapshotsEligible, NoCase, DisposalEligible,
         HandedOutIsDocumented, Lifecycle!HandedOutIsDocumented, Lifecycle!Live
<1>2. TypeOK /\ HandedOutIsDocumented /\ [Lifecycle!Next]_lifecycleVars => HandedOutIsDocumented'
  <2>1. Register!TypeOK /\ Register!HandedOutIsDocumented /\ [Register!Next]_(Register!vars)
          => Register!HandedOutIsDocumented'
    BY Register!PaperedStep, DisposalAssumption
       DEF Register!StatusCodes, StatusCodes, Register!HandedOut, HandedOut,
           Register!HandedOutIsDocumented, Register!Papered
  <2>2. /\ HandedOutIsDocumented <=> Register!HandedOutIsDocumented
        /\ HandedOutIsDocumented' <=> Register!HandedOutIsDocumented'
    BY DEF HandedOutIsDocumented, Lifecycle!HandedOutIsDocumented,
           Register!HandedOutIsDocumented, Lifecycle!HandedOut, Register!HandedOut,
           Lifecycle!Live, Register!Live, Lifecycle!OpenAssignments, Register!OpenAssignments,
           Lifecycle!AssignmentTarget, Register!AssignmentTarget
  <2>3. QED
    BY <2>1, <2>2, SameTypes, SameNext DEF TypeOK, lifecycleVars, Register!vars
<1>3. TypeOK /\ Inv /\ CaseStep => HandedOutIsDocumented'
  <2> SUFFICES ASSUME TypeOK, Inv, CaseStep, NEW a \in Assets, Lifecycle!Live(a)',
                      asset'[a].status \in Lifecycle!HandedOut
               PROVE  /\ asset'[a].custodian # None
                      /\ \E d \in Lifecycle!OpenAssignments(a)' :
                           /\ assignment'[a][d].to = asset'[a].custodian
                           /\ Lifecycle!AssignmentTarget(assignment'[a][d].type)
                                = asset'[a].status
    BY DEF HandedOutIsDocumented, Lifecycle!HandedOutIsDocumented
  <2>1. asset[a] \in Lifecycle!AssetRows
    BY DEF TypeOK, Lifecycle!TypeOK
  <2>2. ~Restated(a)
    BY <2>1 DEF Restated, DisposalEligible, Lifecycle!AssetRows, Lifecycle!HandedOut
  <2>3. ~Retired(a)
    BY <2>1 DEF Retired, Lifecycle!AssetRows, Lifecycle!HandedOut
  <2>4. assignment' = assignment /\ asset'[a] = asset[a]
    BY <2>2, <2>3, CaseStepByAsset DEF Untouched
  <2>5. QED
    BY <2>4 DEF HandedOutIsDocumented, Lifecycle!HandedOutIsDocumented,
                Lifecycle!OpenAssignments, Lifecycle!Live
<1>4. TypeOK /\ Inv /\ [Next]_vars => Inv'
  BY <1>2, <1>3, SnapshotStep DEF Next, CaseStep, vars, lifecycleVars
<1>5. QED
  BY <1>1, <1>4, TypeCorrect, PTL DEF Spec

\* A case's step is a stutter of custody: what it retires is in nobody's hands,
\* because its holder would have an open assignment.
LEMMA CaseStepCustody ==
  ASSUME TypeOK, SignedInv, CaseStep
  PROVE  UNCHANGED Lifecycle!Custody!custodyVars
<1>1. ASSUME NEW a \in Assets
      PROVE  /\ asset'[a].custodian = asset[a].custodian
             /\ asset'[a].register = asset[a].register
  <2>1. asset[a] \in Lifecycle!AssetRows
    BY DEF TypeOK, Lifecycle!TypeOK
  <2>2. CASE Untouched(a) \/ Restated(a)
    BY <2>1, <2>2 DEF Untouched, Restated, Lifecycle!AssetRows
  <2>3. CASE Retired(a)
    <3>1. asset[a].custodian = None
      BY <2>3 DEF Retired, Settled, SignedInv, HolderSigned, Lifecycle!HolderSigned
    <3>2. QED
      BY <2>1, <2>3, <3>1 DEF Retired, Lifecycle!AssetRows
  <2>4. QED
    BY <2>2, <2>3, CaseStepByAsset DEF SignedInv
<1>2. QED
  BY <1>1 DEF Lifecycle!Custody!custodyVars

\* The register's own steps are steps of custody (proved in AssetLifecycleProofs).
LEMMA RegisterCustody ==
  TypeOK /\ [Lifecycle!Next]_lifecycleVars
    => [Lifecycle!Custody!Next]_(Lifecycle!Custody!custodyVars)
<1>1. Register!TypeOK /\ [Register!Next]_(Register!vars)
        => [Register!Custody!Next]_(Register!Custody!custodyVars)
  BY Register!NextCustody, DisposalAssumption DEF Register!StatusCodes, StatusCodes
<1>2. /\ Lifecycle!Custody!Next <=> Register!Custody!Next
      /\ Lifecycle!Custody!custodyVars = Register!Custody!custodyVars
      /\ Lifecycle!Custody!custodyVars' = Register!Custody!custodyVars'
  BY DEF Lifecycle!Custody!Next, Register!Custody!Next,
         Lifecycle!Custody!HandOver, Register!Custody!HandOver,
         Lifecycle!Custody!GiveBack, Register!Custody!GiveBack,
         Lifecycle!Custody!Leave, Register!Custody!Leave,
         Lifecycle!Custody!custodyVars, Register!Custody!custodyVars
<1>3. QED
  BY <1>1, <1>2, SameTypes, SameNext DEF TypeOK, lifecycleVars, Register!vars

\* The register with cases writing to it still implements AssetCustody: raising,
\* releasing and retiring never pass an asset from one person to another.
THEOREM ImplementsCustody == Spec => CustodyKept
<1>1. Init => Lifecycle!Custody!Init
  BY DEF Init, Lifecycle!Init, Lifecycle!Custody!Init
<1>2. TypeOK /\ SignedInv /\ [Next]_vars
        => [Lifecycle!Custody!Next]_(Lifecycle!Custody!custodyVars)
  BY CaseStepCustody, RegisterCustody DEF Next, CaseStep, vars, lifecycleVars
<1>3. QED
  BY <1>1, <1>2, SignedInit, SignedStep, TypeCorrect, PTL
     DEF Spec, CustodyKept, Lifecycle!CustodyKept, Lifecycle!Custody!Spec

\* No case writes a document or a place but to clear it: there are never two open
\* documents of a kind.
THEOREM OneOpenDocumentAlways == Spec => []OneOpenDocument
<1>1. Init => OneOpenDocument
  BY DEF Init, Lifecycle!Init, OneOpenDocument, Lifecycle!OneOpenDocument,
         Lifecycle!OpenAssignments, Lifecycle!OpenRepairs, Lifecycle!UnusedNumber
<1>2. TypeOK /\ OneOpenDocument /\ [Lifecycle!Next]_lifecycleVars => OneOpenDocument'
  <2>1. Register!TypeOK /\ Register!OneOpenDocument /\ [Register!Next]_(Register!vars)
          => Register!OneOpenDocument'
    BY Register!AtMostOneOpenStep, Register!AtMostOneRepairStep, DisposalAssumption
       DEF Register!StatusCodes, StatusCodes, Register!OneOpenDocument,
           Register!AtMostOneOpen, Register!AtMostOneRepair
  <2>2. /\ OneOpenDocument <=> Register!OneOpenDocument
        /\ OneOpenDocument' <=> Register!OneOpenDocument'
    BY DEF OneOpenDocument, Lifecycle!OneOpenDocument, Register!OneOpenDocument,
           Lifecycle!OpenAssignments, Register!OpenAssignments,
           Lifecycle!OpenRepairs, Register!OpenRepairs
  <2>3. QED
    BY <2>1, <2>2, SameTypes, SameNext DEF TypeOK, lifecycleVars, Register!vars
<1>3. TypeOK /\ SnapshotsEligible /\ OneOpenDocument /\ CaseStep => OneOpenDocument'
  BY CaseStepByAsset DEF OneOpenDocument, Lifecycle!OneOpenDocument,
     Lifecycle!OpenAssignments, Lifecycle!OpenRepairs
<1>4. TypeOK /\ SnapshotsEligible /\ OneOpenDocument /\ [Next]_vars => OneOpenDocument'
  BY <1>2, <1>3 DEF Next, CaseStep, vars, lifecycleVars
<1>5. SignedInv => SnapshotsEligible
  BY DEF SignedInv
<1>6. QED
  BY <1>1, <1>4, <1>5, SignedInit, SignedStep, TypeCorrect, PTL DEF Spec

\* Nor is an asset both in a warehouse and in a person's hands: complete takes it
\* out of both.
THEOREM CustodyAlwaysExcludesWarehouse == Spec => []CustodyExcludesWarehouse
<1>1. Init => CustodyExcludesWarehouse
  BY DEF Init, Lifecycle!Init, CustodyExcludesWarehouse, Lifecycle!CustodyExcludesWarehouse
<1>2. TypeOK /\ CustodyExcludesWarehouse /\ [Lifecycle!Next]_lifecycleVars
        => CustodyExcludesWarehouse'
  <2>1. Register!TypeOK /\ Register!CustodyExcludesWarehouse /\ [Register!Next]_(Register!vars)
          => Register!CustodyExcludesWarehouse'
    BY Register!CustodyCheckStep, DisposalAssumption
       DEF Register!StatusCodes, StatusCodes, Register!CustodyExcludesWarehouse,
           Register!CustodyCheck
  <2>2. /\ CustodyExcludesWarehouse <=> Register!CustodyExcludesWarehouse
        /\ CustodyExcludesWarehouse' <=> Register!CustodyExcludesWarehouse'
    BY DEF CustodyExcludesWarehouse, Lifecycle!CustodyExcludesWarehouse,
           Register!CustodyExcludesWarehouse
  <2>3. QED
    BY <2>1, <2>2, SameTypes, SameNext DEF TypeOK, lifecycleVars, Register!vars
<1>3. TypeOK /\ SnapshotsEligible /\ CustodyExcludesWarehouse /\ CaseStep
        => CustodyExcludesWarehouse'
  <2> SUFFICES ASSUME TypeOK, SnapshotsEligible, CustodyExcludesWarehouse, CaseStep,
                      NEW a \in Assets, asset'[a].custodian # None
               PROVE  asset'[a].place.warehouse = None
    BY DEF CustodyExcludesWarehouse, Lifecycle!CustodyExcludesWarehouse
  <2>1. asset[a] \in Lifecycle!AssetRows
    BY DEF TypeOK, Lifecycle!TypeOK
  <2>2. ~Retired(a)
    BY <2>1 DEF Retired, Lifecycle!AssetRows
  <2>3. /\ asset'[a].place = asset[a].place
        /\ asset'[a].custodian = asset[a].custodian
    BY <2>1, <2>2, CaseStepByAsset DEF Untouched, Restated, Lifecycle!AssetRows
  <2>4. QED
    BY <2>3 DEF CustodyExcludesWarehouse, Lifecycle!CustodyExcludesWarehouse
<1>4. TypeOK /\ SnapshotsEligible /\ CustodyExcludesWarehouse /\ [Next]_vars
        => CustodyExcludesWarehouse'
  BY <1>2, <1>3 DEF Next, CaseStep, vars, lifecycleVars
<1>5. SignedInv => SnapshotsEligible
  BY DEF SignedInv
<1>6. QED
  BY <1>1, <1>4, <1>5, SignedInit, SignedStep, TypeCorrect, PTL DEF Spec
-----------------------------------------------------------------------------
(***************************************************************************)
(* Retirement.  These facts need administrators not to set DISPOSED by     *)
(* hand: assets.update writes the status it is given.                      *)
(***************************************************************************)
SettledInv == SnapshotsEligible /\ NothingOpenOnDisposed

\* A register step that ends on a retired asset found it retired, and left it alone.
LEMMA RegisterDisposed ==
  ASSUME "DISPOSED" \notin Corrections, TypeOK, [Lifecycle!Next]_lifecycleVars,
         NEW a \in Assets, asset'[a].status = "DISPOSED"
  PROVE  /\ asset[a].status = "DISPOSED"
         /\ asset'[a].custodian \in {asset[a].custodian, None}
         /\ Lifecycle!OpenAssignments(a)' \subseteq Lifecycle!OpenAssignments(a)
         /\ Lifecycle!OpenRepairs(a)' \subseteq Lifecycle!OpenRepairs(a)
<1>1. Register!TypeOK /\ [Register!Next]_(Register!vars)
  BY SameTypes, SameNext DEF TypeOK, lifecycleVars, Register!vars
<1>2. /\ asset[a].status = "DISPOSED"
      /\ asset'[a].custodian \in {asset[a].custodian, None}
      /\ Register!OpenAssignments(a)' \subseteq Register!OpenAssignments(a)
      /\ Register!OpenRepairs(a)' \subseteq Register!OpenRepairs(a)
  BY <1>1, Register!DisposedLeftAlone, DisposalAssumption DEF Register!StatusCodes, StatusCodes
<1>3. QED
  BY <1>2 DEF Lifecycle!OpenAssignments, Register!OpenAssignments,
              Lifecycle!OpenRepairs, Register!OpenRepairs

\* A case's step retires an asset through complete, with nothing open on it.
LEMMA CaseStepDisposed ==
  ASSUME TypeOK, SnapshotsEligible, CaseStep, NEW a \in Assets, asset'[a].status = "DISPOSED"
  PROVE  Untouched(a) \/ Retired(a)
<1>1. asset[a] \in Lifecycle!AssetRows
  BY DEF TypeOK, Lifecycle!TypeOK
<1>2. ~Restated(a)
  BY <1>1 DEF Restated, DisposalEligible, Lifecycle!AssetRows
<1>3. QED
  BY <1>2, CaseStepByAsset

LEMMA SettledStep ==
  ASSUME "DISPOSED" \notin Corrections
  PROVE  TypeOK /\ SettledInv /\ [Next]_vars => SettledInv'
<1> SUFFICES ASSUME TypeOK, SettledInv, [Next]_vars,
                    NEW a \in Assets, asset'[a].status = "DISPOSED"
             PROVE  /\ asset'[a].custodian = None
                    /\ Lifecycle!OpenAssignments(a)' = {}
                    /\ Lifecycle!OpenRepairs(a)' = {}
  BY SnapshotStep DEF SettledInv, NothingOpenOnDisposed, StatusOf
<1>1. CASE Lifecycle!Next \/ UNCHANGED vars
  <2>1. [Lifecycle!Next]_lifecycleVars
    BY <1>1 DEF vars, lifecycleVars
  <2>2. QED
    BY <2>1, RegisterDisposed DEF SettledInv, NothingOpenOnDisposed, StatusOf
<1>2. CASE CaseStep
  <2>1. UNCHANGED <<assignment, repair>>
    BY <1>2, CaseStepByAsset DEF SettledInv
  <2>2. Lifecycle!OpenAssignments(a)' = Lifecycle!OpenAssignments(a)
        /\ Lifecycle!OpenRepairs(a)' = Lifecycle!OpenRepairs(a)
    BY <2>1 DEF Lifecycle!OpenAssignments, Lifecycle!OpenRepairs
  <2>3. CASE Untouched(a)
    BY <2>2, <2>3 DEF Untouched, SettledInv, NothingOpenOnDisposed, StatusOf
  <2>4. CASE Retired(a)
    <3>1. asset[a] \in Lifecycle!AssetRows
      BY DEF TypeOK, Lifecycle!TypeOK
    <3>2. asset'[a].custodian = None
      BY <2>4, <3>1 DEF Retired, Lifecycle!AssetRows
    <3>3. QED
      BY <2>2, <2>4, <3>2 DEF Retired, Settled
  <2>5. QED
    BY <1>2, <2>3, <2>4, CaseStepDisposed DEF SettledInv
<1>3. QED
  BY <1>1, <1>2 DEF Next, CaseStep

\* Nothing is left open on a disposed asset: complete finds nothing open, and
\* no write read earlier opens anything on what is disposed by then.
THEOREM DisposedIsSettled ==
  ASSUME "DISPOSED" \notin Corrections
  PROVE  Spec => []NothingOpenOnDisposed
<1>1. Init => SettledInv
  BY DEF Init, Lifecycle!Init, SettledInv, SnapshotsEligible, NoCase, DisposalEligible,
         NothingOpenOnDisposed, StatusOf
<1>2. SettledInv => NothingOpenOnDisposed
  BY DEF SettledInv
<1>3. QED
  BY <1>1, <1>2, SettledStep, TypeCorrect, PTL DEF Spec

\* Only a case under execution retires an asset, and it retires all it lists in
\* the same step, each out of RESERVED.
THEOREM CasesRetire ==
  ASSUME "DISPOSED" \notin Corrections
  PROVE  Spec => RetiredByItsCase
<1> DEFINE Retirement ==
      \A a \in Assets : StatusOf(a) # "DISPOSED" /\ asset'[a].status = "DISPOSED" =>
        \E c \in Cases :
          /\ a \in case[c].items
          /\ case[c].status = "IN_EXECUTION" /\ case'[c].status = "COMPLETED"
          /\ \A b \in case[c].items : /\ StatusOf(b) = "RESERVED"
                                      /\ asset'[b].status = "DISPOSED"
<1>1. TypeOK /\ SnapshotsEligible /\ [Next]_vars => Retirement
  <2> SUFFICES ASSUME TypeOK, SnapshotsEligible, [Next]_vars, NEW a \in Assets,
                      StatusOf(a) # "DISPOSED", asset'[a].status = "DISPOSED"
               PROVE  \E c \in Cases :
                        /\ a \in case[c].items
                        /\ case[c].status = "IN_EXECUTION" /\ case'[c].status = "COMPLETED"
                        /\ \A b \in case[c].items : /\ StatusOf(b) = "RESERVED"
                                                    /\ asset'[b].status = "DISPOSED"
    OBVIOUS
  <2>1. CaseStep
    <3>1. ~[Lifecycle!Next]_lifecycleVars
      BY RegisterDisposed DEF StatusOf
    <3>2. QED
      BY <3>1 DEF Next, CaseStep, vars, lifecycleVars
  <2>2. PICK c \in Cases : Complete(c) /\ a \in case[c].items
    BY <2>1, CaseStepDisposed DEF Untouched, StatusOf, Retired
  <2>3. case[c].items \subseteq Assets /\ case[c] \in CaseRows
    BY DEF TypeOK, CaseRows
  <2>4. \A b \in case[c].items : StatusOf(b) = "RESERVED" /\ asset'[b].status = "DISPOSED"
    <3> SUFFICES ASSUME NEW b \in case[c].items
                 PROVE  StatusOf(b) = "RESERVED" /\ asset'[b].status = "DISPOSED"
      OBVIOUS
    <3>1. asset[b] \in Lifecycle!AssetRows
      BY <2>3 DEF TypeOK, Lifecycle!TypeOK
    <3>2. asset'[b] = [asset[b] EXCEPT !.status = "DISPOSED", !.custodian = None,
                                       !.place = Lifecycle!Nowhere]
      BY <2>2, <2>3 DEF Complete
    <3>3. QED
      BY <2>2, <3>1, <3>2 DEF Complete, Settled, Lifecycle!AssetRows
  <2>5. case[c].status = "IN_EXECUTION" /\ case'[c].status = "COMPLETED"
    <3>1. case'[c] = [case[c] EXCEPT !.status = "COMPLETED"]
      BY <2>2 DEF Complete, TypeOK
    <3>2. case'[c].status = "COMPLETED"
      BY <2>3, <3>1 DEF CaseRows
    <3>3. QED
      BY <2>2, <3>2 DEF Complete, Completable
  <2>6. QED
    BY <2>2, <2>4, <2>5
<1>2. TypeOK /\ SnapshotsEligible /\ [Next]_vars => [Retirement]_vars
  BY <1>1
<1>3. Init => SnapshotsEligible
  BY DEF Init, SnapshotsEligible, NoCase, DisposalEligible
<1>4. (RetiredByItsCase <=> [][Retirement]_vars)
  BY DEF RetiredByItsCase
<1>5. QED
  BY <1>2, <1>3, <1>4, SnapshotStep, TypeCorrect, PTL DEF Spec
-----------------------------------------------------------------------------
(***************************************************************************)
(* Requests one at a time (SerialSpec), across the register and the cases. *)
(***************************************************************************)
LEMMA SameCommit ==
  \A h \in Handlers : Lifecycle!CommitStep(h) <=> Register!CommitStep(h)
BY DEF Lifecycle!CommitStep, Register!CommitStep, Lifecycle!TransferCommit,
       Register!TransferCommit, Lifecycle!CompleteCommit, Register!CompleteCommit,
       Lifecycle!CorrectCommit, Register!CorrectCommit, Lifecycle!RemoveCancel,
       Register!RemoveCancel, Lifecycle!RemoveCommit, Register!RemoveCommit,
       Lifecycle!Abort, Register!Abort, Lifecycle!Finish, Register!Finish,
       Lifecycle!CustodyCheck, Register!CustodyCheck, Lifecycle!OpenAssignments,
       Register!OpenAssignments, Lifecycle!Locked, Register!Locked, Lifecycle!Idle,
       Register!Idle

\* Serial behaviours are behaviours.
LEMMA SerialIsNext == [SerialNext]_vars => [Next]_vars
<1>1. \A h \in Handlers : Lifecycle!CommitStep(h) => Lifecycle!Next
  BY DEF Lifecycle!Next
<1>2. QED
  BY <1>1 DEF SerialNext, Next

LEMMA SerialIsSpec == SerialSpec => Spec
BY SerialIsNext, PTL DEF SerialSpec, Spec

\* At most one request, of a handler or of a clerk, is between its Read and its
\* Commit.
Resting  == \A h \in Handlers : request[h] = Lifecycle!Idle
DeskFree == \A k \in Clerks : desk[k] = IdleClerk
OneRequest ==
  /\ \A g, h \in Handlers : request[g] # Lifecycle!Idle /\ request[h] # Lifecycle!Idle => g = h
  /\ \A j, k \in Clerks : desk[j] # IdleClerk /\ desk[k] # IdleClerk => j = k
  /\ Resting \/ DeskFree

\* A step of the register changes one request, and a commit its own.
LEMMA RegisterRequests ==
  ASSUME TypeOK, Lifecycle!Next
  PROVE  /\ \A g, h \in Handlers :
              request'[g] # request[g] /\ request'[h] # request[h] => g = h
         /\ \A h \in Handlers : Lifecycle!CommitStep(h) =>
              /\ request[h] # Lifecycle!Idle
              /\ \A g \in Handlers \ {h} : request'[g] = request[g]
<1>1. /\ Register!TypeOK /\ Register!Next
      /\ \A h \in Handlers : Lifecycle!CommitStep(h) => Register!CommitStep(h)
  BY SameTypes, SameNext, SameCommit DEF TypeOK
<1>2. ASSUME NEW g \in Handlers, NEW h \in Handlers,
             request'[g] # request[g], request'[h] # request[h]
      PROVE  g = h
  BY <1>1, <1>2, Register!OneRequestChanges, DisposalAssumption
  DEF Register!StatusCodes, StatusCodes
<1>3. ASSUME NEW h \in Handlers, Lifecycle!CommitStep(h)
      PROVE  /\ request[h] # Register!Idle
             /\ \A g \in Handlers \ {h} : request'[g] = request[g]
  BY <1>1, <1>3, Register!CommitRequests, DisposalAssumption
  DEF Register!StatusCodes, StatusCodes
<1>4. QED
  BY <1>2, <1>3 DEF Lifecycle!Idle, Register!Idle

\* A commit of a case is of a request under way; it ends that one, and a read
\* begins its own.
LEMMA CaseRequestsChange ==
  ASSUME TypeOK, NEW k \in Clerks
  PROVE  /\ CaseCommit(k) => /\ desk[k] # IdleClerk /\ desk'[k] = IdleClerk
                             /\ \A j \in Clerks \ {k} : desk'[j] = desk[j]
                             /\ request' = request
         /\ CaseRead(k) => /\ \A j \in Clerks \ {k} : desk'[j] = desk[j]
                           /\ request' = request
<1>1. ASSUME CaseCommit(k) PROVE desk[k] # IdleClerk /\ FinishCase(k) /\ request' = request
  <2>1. IdleClerk.op = "idle"
    BY DEF IdleClerk
  <2>2. CASE AbortCase(k)
    BY <2>2 DEF AbortCase, lifecycleVars
  <2>3. CASE ~AbortCase(k)
    BY <1>1, <2>1, <2>3 DEF CaseCommit, DecideCommit, MoveCommit, EvidenceCommit, SanitizeCommit,
                            RemoveCommit, lifecycleVars
  <2>4. QED
    BY <2>2, <2>3
<1>2. ASSUME CaseRead(k) PROVE \E r : BeginCase(k, r)
  BY <1>2 DEF CaseRead, ApproveRead, RejectRead, StartRead, CancelRead, RemoveRead, EvidenceRead,
              SanitizeRead
<1>3. QED
  BY <1>1, <1>2, ReadTypes DEF FinishCase, BeginCase, TypeOK, lifecycleVars

\* A serial step leaves nothing under way, or one request, which is the
\* register's or a case's.
LEMMA SerialTurns ==
  ASSUME TypeOK, OneRequest, SerialNext
  PROVE  \/ Resting' /\ DeskFree'
         \/ DeskFree' /\ \E h \in Handlers : \A g \in Handlers \ {h} : request'[g] = Lifecycle!Idle
         \/ Resting' /\ \E k \in Clerks : /\ CaseRead(k) /\ Quiet
                                          /\ \A j \in Clerks \ {k} : desk'[j] = IdleClerk
<1>0. Quiet <=> Resting /\ DeskFree
  BY DEF Quiet, Lifecycle!Quiet, Resting, DeskFree
<1>1. CASE Quiet /\ Lifecycle!Next /\ UNCHANGED <<case, desk>>
  <2>1. DeskFree'
    BY <1>0, <1>1 DEF DeskFree
  <2>2. CASE Resting'
    BY <2>1, <2>2
  <2>3. CASE ~Resting'
    <3>1. PICK h \in Handlers : request'[h] # Lifecycle!Idle
      BY <2>3 DEF Resting
    <3>2. \A g \in Handlers \ {h} : request'[g] = Lifecycle!Idle
      BY <1>0, <1>1, <3>1, RegisterRequests DEF Resting
    <3>3. QED
      BY <2>1, <3>2
  <2>4. QED
    BY <2>2, <2>3
<1>2. CASE Quiet /\ CaseCommand
  BY <1>0, <1>2 DEF CaseCommand, Create, Submit, Complete, lifecycleVars, Resting, DeskFree
<1>3. ASSUME NEW h \in Handlers, Lifecycle!CommitStep(h), UNCHANGED <<case, desk>>
      PROVE  DeskFree' /\ \A g \in Handlers \ {h} : request'[g] = Lifecycle!Idle
  <2>1. Lifecycle!Next
    BY <1>3 DEF Lifecycle!Next
  <2>2. request[h] # Lifecycle!Idle /\ \A g \in Handlers \ {h} : request'[g] = request[g]
    BY <1>3, <2>1, RegisterRequests
  <2>3. QED
    BY <1>3, <2>2 DEF OneRequest, Resting, DeskFree
<1>4. ASSUME NEW k \in Clerks, Quiet, CaseRead(k)
      PROVE  Resting' /\ \A j \in Clerks \ {k} : desk'[j] = IdleClerk
  BY <1>0, <1>4, CaseRequestsChange DEF Resting, DeskFree
<1>5. ASSUME NEW k \in Clerks, CaseCommit(k) PROVE Resting' /\ DeskFree'
  BY <1>5, CaseRequestsChange DEF OneRequest, Resting, DeskFree
<1>6. QED
  BY <1>1, <1>2, <1>3, <1>4, <1>5 DEF SerialNext

LEMMA OneRequestStep == TypeOK /\ OneRequest /\ [SerialNext]_vars => OneRequest'
<1>1. CASE UNCHANGED vars
  BY <1>1 DEF vars, OneRequest, Resting, DeskFree
<1>2. ASSUME TypeOK, OneRequest, SerialNext PROVE OneRequest'
  BY <1>2, SerialTurns DEF OneRequest, Resting, DeskFree
<1>3. QED
  BY <1>1, <1>2
-----------------------------------------------------------------------------
\* What a clerk's request has read is what it will find: nothing comes between.
Current(r) ==
  /\ r.op = "decide" => /\ case[r.case].status = "SUBMITTED"
                        /\ r.status = "APPROVED" => r.release = {}
                        /\ r.status = "REJECTED" => r.release = case[r.case].items
  /\ r.op = "move" => \/ /\ r.status = "IN_EXECUTION" /\ case[r.case].status = "APPROVED"
                         /\ r.release = {}
                      \/ /\ r.status = "CANCELLED" /\ case[r.case].status = "DRAFT"
                         /\ r.release = {}
                      \/ /\ r.status = "CANCELLED" /\ Active(r.case)
                         /\ r.release = case[r.case].items
  /\ r.op = "sanitize" => case[r.case].status \in Executable
  /\ r.op = "remove" =>
       /\ Exists(r.case)
       /\ r.status = case[r.case].status
       /\ r.release = {a \in case[r.case].items : StatusOf(a) # case[r.case].snapshot[a]}
\* Nor does a repair that is being ended leave its asset meanwhile.
RepairsUnderWay ==
  \A h \in Handlers : request[h].op = "complete" =>
    asset[request[h].asset].status = "MAINTENANCE"
SerialInv == OneRequest /\ RepairsUnderWay /\ \A k \in Clerks : Current(desk[k])

\* A case read remembers what it has just seen.
LEMMA ReadsCurrent ==
  ASSUME TypeOK, NEW k \in Clerks, CaseRead(k)
  PROVE  Current(desk[k])'
<1>0. asset' = asset /\ case' = case
  BY ReadTypes DEF lifecycleVars
<1>1. SUFFICES ASSUME NEW r, BeginCase(k, r), Current(r) PROVE Current(desk[k])'
  <2>1. ASSUME NEW c \in Cases, NEW u \in Users, ApproveRead(k, c, u) \/ RejectRead(k, c, u)
        PROVE  \E r : BeginCase(k, r) /\ Current(r)
    BY <2>1 DEF ApproveRead, RejectRead, MayDecide, Current
  <2>2. ASSUME NEW c \in Cases, StartRead(k, c) PROVE \E r : BeginCase(k, r) /\ Current(r)
    BY <2>2 DEF StartRead, Current
  <2>3. ASSUME NEW c \in Cases, CancelRead(k, c) PROVE \E r : BeginCase(k, r) /\ Current(r)
    <3>1. case[c].status \in CaseStatuses
      BY <2>3 DEF CancelRead, Exists, TypeOK, CaseRows
    <3>2. case[c].status = "DRAFT" \/ Active(c)
      BY <2>3, <3>1 DEF CancelRead, CaseStatuses, ClosedStatuses, Active, ActiveStatuses
    <3>3. QED
      BY <2>3, <3>2 DEF CancelRead, Current, Active, ActiveStatuses
  <2>4. ASSUME NEW c \in Cases, RemoveRead(k, c) PROVE \E r : BeginCase(k, r) /\ Current(r)
    BY <2>4, DisposalAssumption DEF RemoveRead, Current, Exists, CaseStatuses
  <2>5. ASSUME NEW c \in Cases, NEW file \in Evidence, EvidenceRead(k, c, file)
        PROVE  \E r : BeginCase(k, r) /\ Current(r)
    BY <2>5 DEF EvidenceRead, Current
  <2>6. ASSUME NEW c \in Cases, NEW a \in Assets, NEW result \in Results,
               SanitizeRead(k, c, a, result)
        PROVE  \E r : BeginCase(k, r) /\ Current(r)
    BY <2>6 DEF SanitizeRead, Current
  <2>7. QED
    BY <2>1, <2>2, <2>3, <2>4, <2>5, <2>6 DEF CaseRead
<1>2. desk'[k] = r
  BY <1>1 DEF BeginCase, TypeOK
<1>3. QED
  BY <1>0, <1>1, <1>2 DEF Current, Active, StatusOf, Exists

\* The register begins to end a repair only of an asset in MAINTENANCE.
LEMMA RepairsStep == TypeOK /\ SerialInv /\ SerialNext => RepairsUnderWay'
<1> SUFFICES ASSUME TypeOK, SerialInv, SerialNext, NEW h \in Handlers,
                    request'[h].op = "complete"
             PROVE  asset'[request'[h].asset].status = "MAINTENANCE"
  BY DEF RepairsUnderWay
<1>0. request'[h] # Lifecycle!Idle
  BY DEF Lifecycle!Idle
<1>1. ASSUME Lifecycle!Next, request'[h] # request[h]
      PROVE  asset'[request'[h].asset].status = "MAINTENANCE"
  <2>1. Register!TypeOK /\ Register!Next
    BY <1>1, SameTypes, SameNext DEF TypeOK
  <2>2. asset' = asset /\ asset[request'[h].asset].status = "MAINTENANCE"
    BY <1>1, <2>1, Register!CompletionsRead, DisposalAssumption DEF Register!StatusCodes, StatusCodes
  <2>3. QED
    BY <2>2
<1>2. CASE Quiet /\ Lifecycle!Next
  BY <1>0, <1>1, <1>2 DEF Quiet, Lifecycle!Quiet
<1>3. CASE Quiet /\ CaseCommand
  BY <1>0, <1>3 DEF Quiet, Lifecycle!Quiet, CaseCommand, Create, Submit, Complete, lifecycleVars
<1>4. ASSUME NEW g \in Handlers, Lifecycle!CommitStep(g)
      PROVE  asset'[request'[h].asset].status = "MAINTENANCE"
  <2>1. Lifecycle!Next
    BY <1>4 DEF Lifecycle!Next
  <2>2. request[g] # Lifecycle!Idle
    BY <1>4, <2>1, RegisterRequests
  <2>3. CASE request'[h] # request[h]
    BY <1>1, <2>1, <2>3
  <2>4. CASE request'[h] = request[h]
    <3>1. g = h
      BY <1>0, <2>2, <2>4 DEF SerialInv, OneRequest
    <3>2. CASE Lifecycle!RemoveCancel(g)
      BY <2>4, <3>1, <3>2 DEF Lifecycle!RemoveCancel
    <3>3. CASE ~Lifecycle!RemoveCancel(g)
      <4>1. Lifecycle!Finish(g)
        BY <1>4, <3>3 DEF Lifecycle!CommitStep, Lifecycle!TransferCommit, Lifecycle!CompleteCommit,
             Lifecycle!CorrectCommit, Lifecycle!RemoveCommit, Lifecycle!Abort
      <4>2. request \in [Handlers -> Lifecycle!Requests \cup {Lifecycle!Idle}]
        BY DEF TypeOK, Lifecycle!TypeOK
      <4>3. QED
        BY <1>0, <3>1, <4>1, <4>2 DEF Lifecycle!Finish
    <3>4. QED
      BY <3>2, <3>3
  <2>5. QED
    BY <2>3, <2>4
<1>5. ASSUME NEW k \in Clerks, Quiet \/ CaseCommit(k), CaseRead(k) \/ CaseCommit(k) PROVE FALSE
  BY <1>0, <1>5, CaseRequestsChange
  DEF SerialInv, OneRequest, Quiet, Lifecycle!Quiet, Resting, DeskFree
<1>6. QED
  BY <1>2, <1>3, <1>4, <1>5 DEF SerialNext

LEMMA SerialInvStep == TypeOK /\ SerialInv /\ [SerialNext]_vars => SerialInv'
<1>1. CASE UNCHANGED vars
  BY <1>1, OneRequestStep
  DEF vars, SerialInv, RepairsUnderWay, Current, Active, StatusOf, Exists
<1>2. ASSUME TypeOK, SerialInv, SerialNext, NEW k \in Clerks PROVE Current(desk[k])'
  <2>1. desk'[k] = IdleClerk \/ CaseRead(k)
    BY <1>2, SerialTurns DEF SerialInv, DeskFree
  <2>2. CASE desk'[k] = IdleClerk
    BY <2>2 DEF Current, IdleClerk
  <2>3. QED
    BY <1>2, <2>1, <2>2, ReadsCurrent
<1>3. QED
  BY <1>1, <1>2, OneRequestStep, RepairsStep DEF SerialInv

LEMMA SerialInvAlways == SerialSpec => []SerialInv
<1>1. Init => SerialInv
  BY DEF Init, Lifecycle!Init, SerialInv, OneRequest, Resting, DeskFree, RepairsUnderWay, Current,
         Lifecycle!Idle, IdleClerk
<1>2. QED
  BY <1>1, SerialInvStep, TypeCorrect, SerialIsSpec, PTL DEF SerialSpec
-----------------------------------------------------------------------------
\* A case is submitted only by submit, and completed only by complete.
LEMMA StatusSources ==
  ASSUME TypeOK, [Next]_vars, NEW c \in Cases, case'[c].status # case[c].status
  PROVE  /\ case'[c].status = "SUBMITTED" => Submit(c)
         /\ case'[c].status = "COMPLETED" => Complete(c)
<1>0. case \in [Cases -> CaseRows] /\ case[c] \in CaseRows
  BY DEF TypeOK
<1> DEFINE Goal == /\ case'[c].status = "SUBMITTED" => Submit(c)
                   /\ case'[c].status = "COMPLETED" => Complete(c)
<1>1. ASSUME NEW e \in Cases, NEW u \in Users, NEW S \in SUBSET Assets, NEW type \in Types,
             Create(e, u, S, type)
      PROVE  Goal
  <2>1. CASE c = e
    BY <1>0, <1>1, <2>1 DEF Create
  <2>2. CASE c # e
    BY <1>0, <1>1, <2>2 DEF Create
  <2>3. QED
    BY <2>1, <2>2
<1>2. ASSUME NEW e \in Cases, Submit(e) PROVE Goal
  <2>1. case' = [case EXCEPT ![e] = [case[e] EXCEPT !.status = "SUBMITTED"]]
    BY <1>2 DEF Submit
  <2>2. c = e
    BY <1>0, <2>1
  <2>3. QED
    BY <1>0, <1>2, <2>1, <2>2 DEF CaseRows
<1>3. ASSUME NEW e \in Cases, Complete(e) PROVE Goal
  <2>1. case' = [case EXCEPT ![e] = [case[e] EXCEPT !.status = "COMPLETED"]]
    BY <1>3 DEF Complete
  <2>2. c = e
    BY <1>0, <2>1
  <2>3. QED
    BY <1>0, <1>3, <2>1, <2>2 DEF CaseRows
<1>4. ASSUME NEW k \in Clerks, CaseCommit(k) PROVE Goal
  <2>1. desk[k] \in CaseRequests \cup {IdleClerk}
    BY DEF TypeOK
  <2>2. CASE DecideCommit(k)
    BY <1>0, <2>1, <2>2, RequestKinds DEF DecideCommit, CaseRows
  <2>3. CASE MoveCommit(k)
    BY <1>0, <2>1, <2>3, RequestKinds DEF MoveCommit, CaseRows
  <2>4. CASE EvidenceCommit(k) \/ SanitizeCommit(k)
    <3> DEFINE e == desk[k].case
    <3>1. PICK row : /\ case' = [case EXCEPT ![e] = row]
                     /\ row.status = case[e].status
      <4>1. CASE EvidenceCommit(k)
        BY <1>0, <2>1, <4>1, RequestKinds DEF EvidenceCommit, CaseRows
      <4>2. CASE SanitizeCommit(k)
        BY <1>0, <2>1, <4>2, RequestKinds DEF SanitizeCommit, CaseRows
      <4>3. QED
        BY <2>4, <4>1, <4>2
    <3>2. QED
      BY <1>0, <3>1
  <2>5. CASE RemoveCommit(k)
    BY <1>0, <2>1, <2>5, RequestKinds DEF RemoveCommit, NoCase
  <2>6. CASE AbortCase(k)
    BY <2>6 DEF AbortCase
  <2>7. QED
    BY <1>4, <2>2, <2>3, <2>4, <2>5, <2>6 DEF CaseCommit
<1>5. ASSUME NEW k \in Clerks, CaseRead(k) PROVE Goal
  BY <1>5, ReadTypes
<1>6. QED
  BY <1>1, <1>2, <1>3, <1>4, <1>5 DEF Next, CaseCommand, vars

\* Only submit makes a case active, and an active case keeps its items.
LEMMA Activations ==
  ASSUME TypeOK, SerialInv, [SerialNext]_vars, NEW c \in Cases, Active(c)'
  PROVE  \/ Active(c) /\ case'[c].items = case[c].items
         \/ Submit(c)
<1>1. [Next]_vars
  BY SerialIsNext
<1>2. CASE case'[c].status = "SUBMITTED" /\ case[c].status # "SUBMITTED"
  BY <1>1, <1>2, StatusSources
<1>3. CASE Noted(c)
  BY <1>3 DEF Noted, Same, Active
<1>4. CASE Moved(c) /\ case'[c].status # "SUBMITTED"
  <2>1. \A k \in Clerks : Current(desk[k])
    BY DEF SerialInv
  <2>2. QED
    BY <1>4, <2>1 DEF Moved, Same, Current, Active, ActiveStatuses
<1>5. CASE Raised(c) \/ Gone(c)
  BY <1>5 DEF Raised, Gone, Active, ActiveStatuses
<1>6. CASE Moved(c) /\ case'[c].status = "SUBMITTED" /\ case[c].status = "SUBMITTED"
  BY <1>6 DEF Moved, Same, Active, ActiveStatuses
<1>7. QED
  BY <1>1, <1>2, <1>3, <1>4, <1>5, <1>6, StepByCase

\* An asset is in at most one case that has been submitted and not closed:
\* submit looks for others, and nothing else makes a case active. This holds
\* whatever status administrators set by hand and whatever cases they delete.
THEOREM OneActiveCaseAlways == SerialSpec => []OneActiveCase
<1>1. Init => OneActiveCase
  BY DEF Init, OneActiveCase, Active, ActiveStatuses, NoCase
<1>2. ASSUME TypeOK, SerialInv, OneActiveCase, [SerialNext]_vars PROVE OneActiveCase'
  <2>0. ASSUME NEW c \in Cases, NEW e \in Cases, Submit(c), Active(e)',
               case'[c].items \cap case'[e].items # {}
        PROVE  c = e
    <3> SUFFICES ASSUME c # e PROVE FALSE
      OBVIOUS
    <3>1. /\ case' = [case EXCEPT ![c] = [case[c] EXCEPT !.status = "SUBMITTED"]]
          /\ \A a \in case[c].items : Reservable(c, a)
      BY <2>0 DEF Submit
    <3>2. case'[e] = case[e] /\ case'[c].items = case[c].items
      BY <3>1 DEF TypeOK, CaseRows
    <3>3. Active(e)
      BY <2>0, <3>2 DEF Active
    <3>4. QED
      BY <2>0, <3>1, <3>2, <3>3 DEF Reservable
  <2>1. SUFFICES ASSUME NEW c \in Cases, NEW e \in Cases, Active(c)', Active(e)',
                        case'[c].items \cap case'[e].items # {}
                 PROVE  c = e
    BY DEF OneActiveCase
  <2>2. CASE Submit(c) \/ Submit(e)
    BY <2>0, <2>1, <2>2
  <2>3. CASE ~Submit(c) /\ ~Submit(e)
    BY <1>2, <2>1, <2>3, Activations DEF OneActiveCase
  <2>4. QED
    BY <2>2, <2>3
<1>3. TypeOK /\ SerialInv /\ OneActiveCase /\ [SerialNext]_vars => OneActiveCase'
  BY <1>2
<1>4. QED
  BY <1>1, <1>3, SerialInvAlways, TypeCorrect, SerialIsSpec, PTL DEF SerialSpec

\* A completed case keeps its items and their sanitization results: one at a
\* time, updateSanitization finds the case still under execution.
LEMMA CompletedStaysSanitized ==
  ASSUME TypeOK, SerialInv, [SerialNext]_vars, NEW c \in Cases,
         case[c].status = "COMPLETED", case'[c].status = "COMPLETED"
  PROVE  case'[c].items = case[c].items /\ case'[c].wiped = case[c].wiped
<1>0. /\ case \in [Cases -> CaseRows] /\ case[c] \in CaseRows
      /\ [Next]_vars
  BY SerialIsNext DEF TypeOK
<1>1. case'[c].items = case[c].items
  BY <1>0, StepByCase DEF Raised, Gone, Noted, Moved, Same
<1>2. CASE UNCHANGED case
  BY <1>2
<1>3. ASSUME NEW e \in Cases, NEW u \in Users, NEW S \in SUBSET Assets, NEW type \in Types,
             Create(e, u, S, type)
      PROVE  case'[c] = case[c]
  BY <1>0, <1>3 DEF Create
<1>4. ASSUME NEW e \in Cases, Submit(e) \/ Complete(e) PROVE case'[c] = case[c]
  BY <1>0, <1>4 DEF Submit, Complete, Completable
<1>5. ASSUME NEW k \in Clerks, CaseCommit(k) PROVE case'[c].wiped = case[c].wiped
  <2>1. desk[k] \in CaseRequests \cup {IdleClerk} /\ Current(desk[k])
    BY DEF TypeOK, SerialInv
  <2>2. CASE DecideCommit(k)
    BY <1>0, <2>1, <2>2, RequestKinds DEF DecideCommit, CaseRows
  <2>3. CASE MoveCommit(k)
    BY <1>0, <2>1, <2>3, RequestKinds DEF MoveCommit, CaseRows
  <2>4. CASE EvidenceCommit(k)
    BY <1>0, <2>1, <2>4, RequestKinds DEF EvidenceCommit, CaseRows
  <2>5. CASE SanitizeCommit(k)
    <3>1. desk[k].case # c
      BY <2>1, <2>5 DEF SanitizeCommit, Current, Executable
    <3>2. QED
      BY <1>0, <2>1, <2>5, <3>1, RequestKinds DEF SanitizeCommit
  <2>6. CASE RemoveCommit(k)
    BY <1>0, <2>1, <2>6, RequestKinds DEF RemoveCommit, NoCase
  <2>7. CASE AbortCase(k)
    BY <2>7 DEF AbortCase
  <2>8. QED
    BY <1>5, <2>2, <2>3, <2>4, <2>5, <2>6, <2>7 DEF CaseCommit
<1>6. ASSUME NEW k \in Clerks, CaseRead(k) PROVE case' = case
  BY <1>6, ReadTypes
<1>7. QED
  BY <1>1, <1>2, <1>3, <1>4, <1>5, <1>6 DEF SerialNext, CaseCommand, vars

\* Every data-bearing asset of a completed case has been verified as wiped:
\* complete checks it, and no result is recorded afterwards.
THEOREM CompletedSanitized == SerialSpec => []CompletedIsSanitized
<1>1. Init => CompletedIsSanitized
  BY DEF Init, CompletedIsSanitized, NoCase
<1>2. TypeOK /\ SerialInv /\ CompletedIsSanitized /\ [SerialNext]_vars => CompletedIsSanitized'
  <2> SUFFICES ASSUME TypeOK, SerialInv, CompletedIsSanitized, [SerialNext]_vars,
                      NEW c \in Cases, case'[c].status = "COMPLETED",
                      NEW a \in case'[c].items \cap Sensitive
               PROVE  case'[c].wiped[a] = "VERIFIED"
    BY DEF CompletedIsSanitized
  <2>1. CASE case[c].status = "COMPLETED"
    BY <2>1, CompletedStaysSanitized DEF CompletedIsSanitized
  <2>2. CASE case[c].status # "COMPLETED"
    <3>1. Complete(c)
      BY <2>2, StatusSources, SerialIsNext
    <3>2. case'[c] = [case[c] EXCEPT !.status = "COMPLETED"] /\ Completable(c)
      BY <3>1 DEF Complete, TypeOK
    <3>3. case'[c].items = case[c].items /\ case'[c].wiped = case[c].wiped
      BY <3>2 DEF TypeOK, CaseRows
    <3>4. QED
      BY <3>2, <3>3 DEF Completable
  <2>3. QED
    BY <2>1, <2>2
<1>3. QED
  BY <1>1, <1>2, SerialInvAlways, TypeCorrect, SerialIsSpec, PTL DEF SerialSpec
-----------------------------------------------------------------------------
(***************************************************************************)
(* Reservations.  ReservedByActiveCase needs that the assets of a case are *)
(* nobody else's until they are let go or disposed of, that what complete  *)
(* disposed of stays so, and that the snapshots a case restores are of     *)
(* assets that were free.  No status is set by hand.  Cases may be deleted *)
(* in any state: one that holds its assets lets them go, another casts     *)
(* them away, and from then on they are strays.                            *)
(***************************************************************************)
Holding(c) == Active(c) \/ case[c].status = "COMPLETED"

HeldOnce == \A c, e \in Cases :
  Holding(c) /\ Holding(e) /\ c # e => case[c].items \cap case[e].items \subseteq Strays
HeldAside == \A c \in Cases : \A a \in case[c].items \ Strays :
  /\ Active(c) => StatusOf(a) = "RESERVED"
  /\ case[c].status = "COMPLETED" => StatusOf(a) = "DISPOSED"
ReservedIsHeld == \A a \in Assets :
  StatusOf(a) = "RESERVED" => \E c \in Cases : Active(c) /\ a \in case[c].items
ItemsRegistered == \A c \in Cases : \A a \in case[c].items : asset[a].register # "ABSENT"
AbsentReady     == \A a \in Assets : asset[a].register = "ABSENT" => StatusOf(a) = "READY"

ShelfInv == /\ SnapshotsEligible
            /\ HeldOnce
            /\ HeldAside
            /\ ReservedIsHeld
            /\ ItemsRegistered
            /\ AbsentReady

\* The kinds of step a case takes: one that moves no asset and neither takes hold
\* of its assets nor lets them go, one that lets all of them go, and one that
\* casts away assets the case did not hold.
Steady == /\ asset' = asset
          /\ \A c \in Cases : /\ case'[c].items = case[c].items
                              /\ Active(c)' <=> Active(c)
                              /\ case'[c].status = "COMPLETED" <=> case[c].status = "COMPLETED"
                              /\ case'[c].status = "GONE" <=> case[c].status = "GONE"
LetGo(c) == /\ Holding(c) /\ ~Holding(c)'
            /\ Release(c, case[c].items)
            /\ case'[c].items \subseteq case[c].items
            /\ \A e \in Cases \ {c} : case'[e] = case[e]
Cast(c) == /\ Exists(c) /\ ~Holding(c)
           /\ Release(c, case[c].items)
           /\ case'[c].status = "GONE"
           /\ case'[c].items = {a \in case[c].items : StatusOf(a) # case[c].snapshot[a]}
           /\ \A e \in Cases \ {c} : case'[e] = case[e]

\* Putting back what has its snapshot's status already changes nothing.
LEMMA ReleaseDiffering ==
  ASSUME TypeOK, NEW c \in Cases,
         Release(c, {a \in case[c].items : StatusOf(a) # case[c].snapshot[a]})
  PROVE  Release(c, case[c].items)
<1>1. asset \in [Assets -> Lifecycle!AssetRows]
  BY DEF TypeOK, Lifecycle!TypeOK
<1>2. ASSUME NEW a \in Assets, StatusOf(a) = case[c].snapshot[a]
      PROVE  [asset[a] EXCEPT !.status = case[c].snapshot[a]] = asset[a]
  <2>1. asset[a] \in Lifecycle!AssetRows
    BY <1>1
  <2>2. QED
    BY <1>2, <2>1 DEF StatusOf, Lifecycle!AssetRows
<1>3. \A a \in Assets :
        (IF a \in {b \in case[c].items : StatusOf(b) # case[c].snapshot[b]}
           THEN [asset[a] EXCEPT !.status = case[c].snapshot[a]] ELSE asset[a])
          = (IF a \in case[c].items
               THEN [asset[a] EXCEPT !.status = case[c].snapshot[a]] ELSE asset[a])
  BY <1>2
<1>4. QED
  BY <1>3, Zenon DEF Release

\* A commit that writes only the case's row, to a status of the same kind, is steady.
LEMMA SteadyWrite ==
  ASSUME TypeOK, NEW c \in Cases, NEW row, case' = [case EXCEPT ![c] = row],
         row.items = case[c].items, asset' = asset,
         row.status = case[c].status \/ (Active(c) /\ row.status \in ActiveStatuses)
           \/ (case[c].status = "DRAFT" /\ row.status = "CANCELLED")
  PROVE  Steady
<1>1. ASSUME NEW e \in Cases
      PROVE  /\ case'[e].items = case[e].items
             /\ Active(e)' <=> Active(e)
             /\ case'[e].status = "COMPLETED" <=> case[e].status = "COMPLETED"
             /\ case'[e].status = "GONE" <=> case[e].status = "GONE"
  <2>1. CASE e = c
    <3>1. case'[e] = row
      BY <2>1 DEF TypeOK
    <3>2. QED
      BY <2>1, <3>1 DEF Active, ActiveStatuses
  <2>2. CASE e # c
    BY <2>2 DEF TypeOK, Active
  <2>3. QED
    BY <2>1, <2>2
<1>2. QED
  BY <1>1 DEF Steady

\* Nothing is released: no asset changes.
LEMMA NothingReleased ==
  ASSUME TypeOK, NEW c, Release(c, {})
  PROVE  asset' = asset
BY DEF Release, TypeOK, Lifecycle!TypeOK

LEMMA SerialCommitKinds ==
  ASSUME TypeOK, SerialInv, ShelfInv, NEW k \in Clerks, CaseCommit(k)
  PROVE  Steady \/ \E c \in Cases : LetGo(c) \/ Cast(c)
<1> DEFINE r == desk[k]
<1> PICK c : c = r.case
  OBVIOUS
<1>0. /\ case \in [Cases -> CaseRows]
      /\ r \in CaseRequests \cup {IdleClerk} /\ Current(r)
  BY DEF TypeOK, SerialInv
<1>1. CASE DecideCommit(k)
  <2>1. c \in Cases /\ r.status \in {"APPROVED", "REJECTED"} /\ r.op = "decide"
    BY <1>0, <1>1, RequestKinds DEF DecideCommit
  <2>2. /\ case' = [case EXCEPT ![c] = [case[c] EXCEPT !.status = r.status, !.approver = r.by]]
        /\ Release(c, r.release)
    BY <1>0, <1>1, <2>1 DEF DecideCommit
  <2>3. case[c] \in CaseRows /\ Active(c)
    BY <1>0, <2>1 DEF Current, Active, ActiveStatuses
  <2> DEFINE row == [case[c] EXCEPT !.status = r.status, !.approver = r.by]
  <2>4. row.status = r.status /\ row.items = case[c].items
    BY <2>3 DEF CaseRows
  <2>5. CASE r.status = "APPROVED"
    <3>1. asset' = asset
      BY <1>0, <2>1, <2>2, <2>5, NothingReleased DEF Current
    <3>2. QED
      BY <2>1, <2>2, <2>3, <2>4, <2>5, <3>1, SteadyWrite DEF ActiveStatuses
  <2>6. CASE r.status = "REJECTED"
    <3>1. r.release = case[c].items
      BY <1>0, <2>1, <2>6 DEF Current
    <3>2. case'[c] = row /\ \A e \in Cases \ {c} : case'[e] = case[e]
      BY <1>0, <2>1, <2>2
    <3>3. ~Holding(c)' /\ case'[c].items = case[c].items
      BY <2>4, <2>6, <3>2 DEF Holding, Active, ActiveStatuses
    <3>4. QED
      BY <2>1, <2>2, <2>3, <3>1, <3>2, <3>3 DEF LetGo, Holding
  <2>7. QED
    BY <2>1, <2>5, <2>6
<1>2. CASE MoveCommit(k)
  <2>1. c \in Cases /\ r.status \in {"IN_EXECUTION", "CANCELLED"} /\ r.op = "move"
    BY <1>0, <1>2, RequestKinds DEF MoveCommit
  <2>2. /\ case' = [case EXCEPT ![c] = [case[c] EXCEPT !.status = r.status]]
        /\ Release(c, r.release)
    BY <1>2 DEF MoveCommit
  <2> DEFINE row == [case[c] EXCEPT !.status = r.status]
  <2>3. row.status = r.status /\ row.items = case[c].items
    BY <1>0, <2>1 DEF CaseRows
  <2>4. CASE r.release = {} /\ (\/ r.status = "IN_EXECUTION" /\ case[c].status = "APPROVED"
                                \/ r.status = "CANCELLED" /\ case[c].status = "DRAFT")
    <3>1. asset' = asset
      BY <2>2, <2>4, NothingReleased
    <3>2. QED
      BY <2>1, <2>2, <2>3, <2>4, <3>1, SteadyWrite DEF Active, ActiveStatuses
  <2>5. CASE r.status = "CANCELLED" /\ Active(c) /\ r.release = case[c].items
    <3>1. case'[c] = row /\ \A e \in Cases \ {c} : case'[e] = case[e]
      BY <1>0, <2>1, <2>2
    <3>2. ~Holding(c)' /\ case'[c].items = case[c].items
      BY <2>3, <2>5, <3>1 DEF Holding, Active, ActiveStatuses
    <3>3. QED
      BY <2>1, <2>2, <2>5, <3>1, <3>2 DEF LetGo, Holding
  <2>6. QED
    BY <1>0, <2>1, <2>4, <2>5 DEF Current
<1>3. CASE EvidenceCommit(k)
  <2> DEFINE row == [case[c] EXCEPT !.evidence = case[c].evidence \cup {r.file}]
  <2>1. c \in Cases /\ case' = [case EXCEPT ![c] = row] /\ asset' = asset
    BY <1>0, <1>3, RequestKinds DEF EvidenceCommit, lifecycleVars
  <2>2. row.status = case[c].status /\ row.items = case[c].items
    BY <1>0, <2>1 DEF CaseRows
  <2>3. QED
    BY <2>1, <2>2, SteadyWrite
<1>4. CASE SanitizeCommit(k)
  <2> DEFINE row == [case[c] EXCEPT !.wiped[r.item] = r.result]
  <2>1. c \in Cases /\ case' = [case EXCEPT ![c] = row] /\ asset' = asset
    BY <1>0, <1>4, RequestKinds DEF SanitizeCommit, lifecycleVars
  <2>2. row.status = case[c].status /\ row.items = case[c].items
    BY <1>0, <2>1 DEF CaseRows
  <2>3. QED
    BY <2>1, <2>2, SteadyWrite
<1>5. CASE RemoveCommit(k)
  <2> DEFINE strays == IF r.status \in HeldStatuses THEN {} ELSE r.release
  <2>1. /\ c \in Cases /\ r.op = "remove" /\ Release(c, r.release)
        /\ case' = [case EXCEPT ![c] = NoCase("GONE", strays)]
    BY <1>0, <1>5, RequestKinds DEF RemoveCommit
  <2>2. /\ Exists(c) /\ r.status = case[c].status
        /\ r.release = {a \in case[c].items : StatusOf(a) # case[c].snapshot[a]}
    BY <1>0, <2>1 DEF Current
  <2>3. Release(c, case[c].items)
    BY <2>1, <2>2, ReleaseDiffering
  <2>4. case'[c] = NoCase("GONE", strays) /\ \A e \in Cases \ {c} : case'[e] = case[e]
    BY <1>0, <2>1
  <2>5. ~Holding(c)' /\ case'[c].status = "GONE" /\ case'[c].items = strays
    BY <2>4 DEF NoCase, Holding, Active, ActiveStatuses
  <2>6. Holding(c) <=> r.status \in HeldStatuses
    BY <2>2 DEF Holding, HeldStatuses, Active
  <2>7. CASE Holding(c)
    BY <2>1, <2>3, <2>4, <2>5, <2>6, <2>7 DEF LetGo
  <2>8. CASE ~Holding(c)
    BY <2>1, <2>2, <2>3, <2>4, <2>5, <2>6, <2>8 DEF Cast
  <2>9. QED
    BY <2>1, <2>7, <2>8
<1>6. CASE AbortCase(k)
  BY <1>6 DEF AbortCase, lifecycleVars, Steady, Active
<1>7. QED
  BY <1>1, <1>2, <1>3, <1>4, <1>5, <1>6 DEF CaseCommit
-----------------------------------------------------------------------------
\* No step that leaves deleted cases as they are finds a stray again.
LEMMA StraysStay ==
  ASSUME \A e \in Cases : case[e].status = "GONE" =>
           case'[e].status = "GONE" /\ case[e].items \subseteq case'[e].items
  PROVE  Strays \subseteq Strays'
BY DEF Strays

\* ShelfInv without the snapshots, which SnapshotStep keeps.
ShelfKept == HeldOnce' /\ HeldAside' /\ ReservedIsHeld' /\ ItemsRegistered' /\ AbsentReady'

LEMMA SteadyKeeps == TypeOK /\ ShelfInv /\ Steady => ShelfKept
<1> SUFFICES ASSUME TypeOK, ShelfInv, Steady PROVE ShelfKept
  OBVIOUS
<1>0. Strays \subseteq Strays'
  BY StraysStay DEF Steady
<1>1. HeldOnce'
  BY <1>0 DEF Steady, ShelfInv, HeldOnce, Holding
<1>2. HeldAside'
  BY <1>0 DEF Steady, ShelfInv, HeldAside, StatusOf
<1>3. ReservedIsHeld'
  BY DEF Steady, ShelfInv, ReservedIsHeld, StatusOf
<1>4. ItemsRegistered' /\ AbsentReady'
  BY DEF Steady, ShelfInv, ItemsRegistered, AbsentReady, StatusOf
<1>5. QED
  BY <1>1, <1>2, <1>3, <1>4 DEF ShelfKept

\* The register's own steps, by hand never setting a status, take nothing off the shelf.
LEMMA RegisterKeeps ==
  ASSUME Corrections = {}, TypeOK, SerialInv, ShelfInv, Lifecycle!Next, UNCHANGED <<case, desk>>
  PROVE  ShelfKept
<1>1. ASSUME NEW b \in Assets
      PROVE  /\ StatusOf(b)' # StatusOf(b) =>
                  /\ StatusOf(b) \notin {"RESERVED", "DISPOSED"}
                  /\ StatusOf(b)' \notin {"RESERVED", "DISPOSED"}
             /\ asset'[b].register = "ABSENT" =>
                  asset[b].register = "ABSENT" /\ StatusOf(b)' = StatusOf(b)
  <2>1. Register!TypeOK /\ Register!Next
    BY SameTypes, SameNext DEF TypeOK
  <2>2. /\ \A h \in Handlers : request[h].op = "complete" =>
             asset[request[h].asset].status = "MAINTENANCE"
        /\ asset[b].register = "ABSENT" => asset[b].status = "READY"
    BY DEF SerialInv, RepairsUnderWay, ShelfInv, AbsentReady, StatusOf
  <2>3. /\ asset'[b].status # asset[b].status =>
             asset[b].status \notin Register!SetAside /\ asset'[b].status \notin Register!SetAside
        /\ asset'[b].register = "ABSENT" =>
             asset[b].register = "ABSENT" /\ asset'[b].status = asset[b].status
    BY <2>1, <2>2, Register!SetAsideStep, DisposalAssumption DEF Register!StatusCodes, StatusCodes
  <2>4. QED
    BY <2>3 DEF StatusOf, Register!SetAside
<1>2. \A c \in Cases : case[c].items \subseteq Assets
  BY DEF TypeOK, CaseRows
<1>s. Strays' = Strays
  BY DEF Strays
<1>3. HeldOnce'
  BY <1>s DEF ShelfInv, HeldOnce, Holding, Active
<1>4. HeldAside'
  BY <1>1, <1>2, <1>s DEF ShelfInv, HeldAside, Active
<1>5. ReservedIsHeld'
  BY <1>1 DEF ShelfInv, ReservedIsHeld, Active
<1>6. ItemsRegistered' /\ AbsentReady'
  BY <1>1, <1>2 DEF ShelfInv, ItemsRegistered, AbsentReady
<1>7. QED
  BY <1>3, <1>4, <1>5, <1>6 DEF ShelfKept

\* A new case is a draft of assets in the register.
LEMMA CreateKeeps ==
  ASSUME TypeOK, ShelfInv, NEW c \in Cases, NEW u \in Users, NEW S \in SUBSET Assets,
         NEW type \in Types, Create(c, u, S, type)
  PROVE  ShelfKept
<1>1. /\ case[c].status = "FREE" /\ case'[c].status = "DRAFT" /\ case'[c].items = S
      /\ \A e \in Cases \ {c} : case'[e] = case[e]
      /\ asset' = asset
  BY DEF Create, TypeOK, lifecycleVars
<1>2. \A e \in Cases : /\ Active(e)' <=> Active(e)
                       /\ case'[e].status = "COMPLETED" <=> case[e].status = "COMPLETED"
                       /\ Holding(e) => case'[e].items = case[e].items
  BY <1>1 DEF Active, ActiveStatuses, Holding
<1>s. Strays \subseteq Strays'
  BY <1>1, StraysStay
<1>3. HeldOnce'
  BY <1>2, <1>s DEF ShelfInv, HeldOnce, Holding
<1>4. HeldAside'
  BY <1>1, <1>2, <1>s DEF ShelfInv, HeldAside, StatusOf, Holding
<1>5. ReservedIsHeld'
  BY <1>1, <1>2 DEF ShelfInv, ReservedIsHeld, StatusOf, Holding
<1>6. ItemsRegistered' /\ AbsentReady'
  <2>1. \A a \in S : asset[a].register # "ABSENT"
    BY DEF Create
  <2>2. QED
    BY <1>1, <2>1 DEF ShelfInv, ItemsRegistered, AbsentReady, StatusOf
<1>7. QED
  BY <1>3, <1>4, <1>5, <1>6 DEF ShelfKept

\* Submit takes assets that no other case holds, for their status says so.
LEMMA SubmitKeeps == ASSUME TypeOK, ShelfInv, NEW c \in Cases, Submit(c) PROVE ShelfKept
<1>0. /\ asset \in [Assets -> Lifecycle!AssetRows] /\ case \in [Cases -> CaseRows]
      /\ \A e \in Cases : case[e].items \subseteq Assets
  BY DEF TypeOK, Lifecycle!TypeOK, CaseRows
<1>1. \A a \in Assets :
        /\ asset'[a].register = asset[a].register
        /\ asset'[a].status = IF a \in case[c].items THEN "RESERVED" ELSE asset[a].status
  BY <1>0 DEF Submit, Lifecycle!AssetRows
<1>2. /\ case[c].status = "DRAFT" /\ case'[c] = [case[c] EXCEPT !.status = "SUBMITTED"]
      /\ \A e \in Cases \ {c} : case'[e] = case[e]
      /\ \A a \in case[c].items : StatusOf(a) \in DisposalEligible
  BY <1>0 DEF Submit, Reservable
<1>3. case'[c].status = "SUBMITTED" /\ case'[c].items = case[c].items
  BY <1>0, <1>2 DEF CaseRows
<1>s. Strays \subseteq Strays'
  BY <1>2, StraysStay
<1>4. \A e \in Cases \ {c} : Holding(e) => case[c].items \cap case[e].items \subseteq Strays
  BY <1>0, <1>2 DEF ShelfInv, HeldAside, Holding, DisposalEligible
<1>5. \A e \in Cases \ {c} : /\ Active(e)' <=> Active(e)
                             /\ Holding(e)' <=> Holding(e)
                             /\ case'[e] = case[e]
  BY <1>2 DEF Active, Holding, ActiveStatuses
<1>6. HeldOnce'
  <2> SUFFICES ASSUME NEW d \in Cases, NEW e \in Cases, Holding(d)', Holding(e)',
                      d # e
               PROVE  case'[d].items \cap case'[e].items \subseteq Strays'
    BY DEF HeldOnce
  <2>1. CASE d = c
    BY <1>3, <1>4, <1>5, <1>s, <2>1
  <2>2. CASE e = c
    BY <1>3, <1>4, <1>5, <1>s, <2>2
  <2>3. CASE d # c /\ e # c
    BY <1>5, <1>s, <2>3 DEF ShelfInv, HeldOnce
  <2>4. QED
    BY <2>1, <2>2, <2>3
<1>7. HeldAside'
  <2>1. \A a \in case[c].items : asset'[a].status = "RESERVED"
    BY <1>0, <1>1
  <2>2. ASSUME NEW e \in Cases \ {c}, Holding(e), NEW a \in case[e].items \ Strays
        PROVE  asset'[a].status = asset[a].status
    BY <1>0, <1>1, <1>4, <2>2
  <2>3. \A e \in Cases \ {c} : Active(e) \/ case[e].status = "COMPLETED" => Holding(e)
    BY DEF Holding
  <2>4. SUFFICES ASSUME NEW e \in Cases, NEW a \in case'[e].items \ Strays'
                 PROVE  /\ Active(e)' => asset'[a].status = "RESERVED"
                        /\ case'[e].status = "COMPLETED" => asset'[a].status = "DISPOSED"
    BY DEF HeldAside, StatusOf
  <2>5. CASE e = c
    BY <1>3, <2>1, <2>4, <2>5
  <2>6. CASE e # c
    BY <1>5, <1>s, <2>2, <2>3, <2>4, <2>6 DEF ShelfInv, HeldAside, StatusOf
  <2>7. QED
    BY <2>5, <2>6
<1>8. ReservedIsHeld'
  <2>1. Active(c)' /\ ~Active(c)
    BY <1>2, <1>3 DEF Active, ActiveStatuses
  <2>2. QED
    BY <1>1, <1>2, <1>3, <2>1 DEF ShelfInv, ReservedIsHeld, Active, StatusOf
<1>9. ItemsRegistered' /\ AbsentReady'
  BY <1>0, <1>1, <1>2, <1>3 DEF ShelfInv, ItemsRegistered, AbsentReady, StatusOf
<1>10. QED
  BY <1>6, <1>7, <1>8, <1>9 DEF ShelfKept

\* Complete disposes of assets that only its case holds.
LEMMA CompleteKeeps == ASSUME TypeOK, ShelfInv, NEW c \in Cases, Complete(c) PROVE ShelfKept
<1>0. /\ asset \in [Assets -> Lifecycle!AssetRows] /\ case \in [Cases -> CaseRows]
      /\ \A e \in Cases : case[e].items \subseteq Assets
  BY DEF TypeOK, Lifecycle!TypeOK, CaseRows
<1>1. \A a \in Assets :
        /\ asset'[a].register = asset[a].register
        /\ asset'[a].status = IF a \in case[c].items THEN "DISPOSED" ELSE asset[a].status
  BY <1>0 DEF Complete, Lifecycle!AssetRows
<1>2. /\ Active(c) /\ case'[c] = [case[c] EXCEPT !.status = "COMPLETED"]
      /\ \A e \in Cases \ {c} : case'[e] = case[e]
  BY <1>0 DEF Complete, Completable, Active, ActiveStatuses
<1>3. case'[c].status = "COMPLETED" /\ case'[c].items = case[c].items
  BY <1>0, <1>2 DEF CaseRows
<1>4. \A e \in Cases \ {c} : Holding(e) => case[c].items \cap case[e].items \subseteq Strays
  BY <1>2 DEF ShelfInv, HeldOnce, Holding
<1>s. Strays \subseteq Strays'
  BY <1>2, StraysStay DEF Active, ActiveStatuses
<1>5. HeldOnce'
  BY <1>2, <1>3, <1>4, <1>s DEF ShelfInv, HeldOnce, Holding, Active
<1>6. HeldAside'
  <2>1. \A a \in case[c].items : asset'[a].status = "DISPOSED"
    BY <1>0, <1>1
  <2>2. ASSUME NEW e \in Cases \ {c}, Holding(e), NEW a \in case[e].items \ Strays
        PROVE  asset'[a].status = asset[a].status
    BY <1>0, <1>1, <1>4, <2>2
  <2>3. \A e \in Cases \ {c} : /\ Active(e) \/ case[e].status = "COMPLETED" => Holding(e)
                               /\ Active(e)' <=> Active(e)
                               /\ case'[e] = case[e]
    BY <1>2 DEF Holding, Active, ActiveStatuses
  <2>4. ~Active(c)'
    BY <1>3 DEF Active, ActiveStatuses
  <2>5. SUFFICES ASSUME NEW e \in Cases, NEW a \in case'[e].items \ Strays'
                 PROVE  /\ Active(e)' => asset'[a].status = "RESERVED"
                        /\ case'[e].status = "COMPLETED" => asset'[a].status = "DISPOSED"
    BY DEF HeldAside, StatusOf
  <2>6. CASE e = c
    BY <1>3, <2>1, <2>4, <2>5, <2>6
  <2>7. CASE e # c
    BY <1>s, <2>2, <2>3, <2>5, <2>7 DEF ShelfInv, HeldAside, StatusOf
  <2>8. QED
    BY <2>6, <2>7
<1>7. ReservedIsHeld'
  BY <1>1, <1>2, <1>3 DEF ShelfInv, ReservedIsHeld, Active, StatusOf
<1>8. ItemsRegistered' /\ AbsentReady'
  BY <1>0, <1>1, <1>2, <1>3 DEF ShelfInv, ItemsRegistered, AbsentReady, StatusOf
<1>9. QED
  BY <1>5, <1>6, <1>7, <1>8 DEF ShelfKept

\* A case that lets go puts back assets that only it held, to a free status.
LEMMA LetGoKeeps == ASSUME TypeOK, ShelfInv, NEW c \in Cases, LetGo(c) PROVE ShelfKept
<1>0. /\ asset \in [Assets -> Lifecycle!AssetRows] /\ case \in [Cases -> CaseRows]
      /\ \A e \in Cases : case[e].items \subseteq Assets
  BY DEF TypeOK, Lifecycle!TypeOK, CaseRows
<1>1. \A a \in Assets :
        /\ asset'[a].register = asset[a].register
        /\ asset'[a].status = IF a \in case[c].items THEN case[c].snapshot[a] ELSE asset[a].status
  BY <1>0 DEF LetGo, Release, Lifecycle!AssetRows
<1>2. /\ Holding(c) /\ ~Holding(c)' /\ case'[c].items \subseteq case[c].items
      /\ \A e \in Cases \ {c} : case'[e] = case[e]
      /\ \A a \in Assets : case[c].snapshot[a] \notin {"RESERVED", "DISPOSED"}
  BY DEF LetGo, ShelfInv, SnapshotsEligible, DisposalEligible
<1>3. \A e \in Cases \ {c} : Holding(e) => case[c].items \cap case[e].items \subseteq Strays
  BY <1>2 DEF ShelfInv, HeldOnce
<1>s. Strays \subseteq Strays'
  BY <1>2, StraysStay DEF Holding, Active, ActiveStatuses
<1>4. HeldOnce'
  BY <1>2, <1>s DEF ShelfInv, HeldOnce, Holding, Active
<1>5. HeldAside'
  BY <1>0, <1>1, <1>2, <1>3, <1>s DEF ShelfInv, HeldAside, Holding, Active, StatusOf
<1>6. ReservedIsHeld'
  BY <1>0, <1>1, <1>2 DEF ShelfInv, ReservedIsHeld, Active, StatusOf
<1>7. ItemsRegistered' /\ AbsentReady'
  BY <1>0, <1>1, <1>2 DEF ShelfInv, ItemsRegistered, AbsentReady, StatusOf
<1>8. QED
  BY <1>4, <1>5, <1>6, <1>7 DEF ShelfKept

\* A case that casts its assets away puts them back to a free status, and those
\* that it moves are strays from then on.
LEMMA CastKeeps == ASSUME TypeOK, ShelfInv, NEW c \in Cases, Cast(c) PROVE ShelfKept
<1>0. /\ asset \in [Assets -> Lifecycle!AssetRows] /\ case \in [Cases -> CaseRows]
      /\ \A e \in Cases : case[e].items \subseteq Assets
  BY DEF TypeOK, Lifecycle!TypeOK, CaseRows
<1>1. \A a \in Assets :
        /\ asset'[a].register = asset[a].register
        /\ asset'[a].status = IF a \in case[c].items THEN case[c].snapshot[a] ELSE asset[a].status
  BY <1>0 DEF Cast, Release, Lifecycle!AssetRows
<1>2. /\ Exists(c) /\ ~Holding(c) /\ ~Holding(c)'
      /\ case'[c].status = "GONE"
      /\ case'[c].items = {a \in case[c].items : asset[a].status # case[c].snapshot[a]}
      /\ \A e \in Cases \ {c} : case'[e] = case[e]
      /\ \A a \in Assets : case[c].snapshot[a] \notin {"RESERVED", "DISPOSED"}
  BY DEF Cast, ShelfInv, SnapshotsEligible, DisposalEligible, StatusOf, Holding, Active,
         ActiveStatuses
<1>s. Strays \subseteq Strays'
  BY <1>2, StraysStay DEF Exists
<1>3. \A a \in Assets \ Strays' : asset'[a].status = asset[a].status
  BY <1>1, <1>2 DEF Strays
<1>4. HeldOnce'
  BY <1>2, <1>s DEF ShelfInv, HeldOnce, Holding, Active
<1>5. HeldAside'
  BY <1>0, <1>1, <1>2, <1>3, <1>s DEF ShelfInv, HeldAside, Holding, Active, StatusOf
<1>6. ReservedIsHeld'
  BY <1>0, <1>1, <1>2 DEF ShelfInv, ReservedIsHeld, Active, StatusOf
<1>7. ItemsRegistered' /\ AbsentReady'
  BY <1>0, <1>1, <1>2 DEF ShelfInv, ItemsRegistered, AbsentReady, StatusOf
<1>8. QED
  BY <1>4, <1>5, <1>6, <1>7 DEF ShelfKept

LEMMA ShelfStep ==
  ASSUME Corrections = {}
  PROVE  TypeOK /\ SerialInv /\ ShelfInv /\ [SerialNext]_vars => ShelfInv'
<1> SUFFICES ASSUME TypeOK, SerialInv, ShelfInv, [SerialNext]_vars PROVE ShelfKept
  BY SnapshotStep, SerialIsNext DEF ShelfInv, ShelfKept
<1>1. CASE Lifecycle!Next /\ UNCHANGED <<case, desk>>
  BY <1>1, RegisterKeeps
<1>2. CASE CaseCommand
  BY <1>2, CreateKeeps, SubmitKeeps, CompleteKeeps DEF CaseCommand
<1>3. ASSUME NEW k \in Clerks, CaseRead(k) PROVE Steady
  BY <1>3, ReadTypes DEF lifecycleVars, Steady, Active
<1>4. ASSUME NEW k \in Clerks, CaseCommit(k) PROVE Steady \/ \E c \in Cases : LetGo(c) \/ Cast(c)
  BY <1>4, SerialCommitKinds
<1>5. CASE UNCHANGED vars
  BY <1>5, SteadyKeeps DEF vars, Steady, Active
<1>6. \A h \in Handlers : Lifecycle!CommitStep(h) => Lifecycle!Next
  BY DEF Lifecycle!Next
<1>7. QED
  BY <1>1, <1>2, <1>3, <1>4, <1>5, <1>6, SteadyKeeps, LetGoKeeps, CastKeeps DEF SerialNext

\* One request at a time a reserved asset has an active case, and an active case
\* has its assets reserved, except those that the deletion of another case which
\* did not hold them has put back; administrators delete cases in any state, but
\* no status is set by hand.
THEOREM ReservedByItsCase ==
  ASSUME Corrections = {}
  PROVE  SerialSpec => []ReservedByActiveCase
<1>1. Init => ShelfInv
  BY DEF Init, Lifecycle!Init, Lifecycle!UnusedNumber, ShelfInv, SnapshotsEligible, HeldOnce,
         HeldAside, ReservedIsHeld, ItemsRegistered, AbsentReady, Holding, Active, ActiveStatuses,
         StatusOf, NoCase, DisposalEligible
<1>2. ShelfInv => ReservedByActiveCase
  BY DEF ShelfInv, HeldAside, ReservedIsHeld, ReservedByActiveCase
<1>3. QED
  BY <1>1, <1>2, ShelfStep, SerialInvAlways, TypeCorrect, SerialIsSpec, PTL DEF SerialSpec
=============================================================================
