------------------------ MODULE AssetLifecycleProofs ------------------------
(***************************************************************************)
(* Proofs about AssetLifecycle for every set of assets, people, places,    *)
(* document numbers and handlers: that its variables keep their types,     *)
(* that custody and paperwork agree however requests interleave, and that  *)
(* the register implements AssetCustody.                                   *)
(***************************************************************************)
EXTENDS AssetLifecycle, TLAPS

-----------------------------------------------------------------------------
(***************************************************************************)
(* Values: where an asset may be put, and what a request may hold.         *)
(***************************************************************************)

\* A warehouse's place and a bare location are places (InStock, At).
LEMMA PlacesTyped ==
  /\ \A w \in Warehouses : InStock(w) \in Places
  /\ \A l \in Locations : At(l) \in Places
  /\ Nowhere \in Places
  /\ Placements \subseteq Places
BY DEF Places, Placements

\* A request is what its op says (the five kinds of request differ in op).
LEMMA RequestKinds ==
  ASSUME NEW r \in Requests \cup {Idle}
  PROVE  /\ r.op = "transfer"  => r \in TransferRequests
         /\ r.op = "complete"  => r \in CompleteRequests
         /\ r.op = "correct"   => r \in CorrectRequests
         /\ r.op = "remove"    => r \in RemoveRequests
         /\ r.op = "cancelled" => r \in CancelRequests
         /\ r \in TransferRequests \cup CompleteRequests \cup CorrectRequests
                    \cup RemoveRequests \cup CancelRequests => r.asset \in Assets
BY DEF Requests, Idle, TransferRequests, CompleteRequests, CorrectRequests,
       RemoveRequests, CancelRequests
-----------------------------------------------------------------------------
(***************************************************************************)
(* Every variable keeps its type.                                          *)
(***************************************************************************)

\* Writing one column of an assets row gives an assets row.
LEMMA RowUpdates ==
  ASSUME NEW row \in AssetRows, NEW s \in StatusCodes, NEW p \in People \cup {None},
         NEW q \in Places
  PROVE  /\ [row EXCEPT !.place = q] \in AssetRows
         /\ [row EXCEPT !.status = s] \in AssetRows
         /\ [row EXCEPT !.status = s, !.custodian = p] \in AssetRows
         /\ [row EXCEPT !.status = s, !.custodian = p, !.place = q] \in AssetRows
         /\ [row EXCEPT !.register = "DELETED", !.custodian = p] \in AssetRows
         /\ [register |-> "LIVE", status |-> s, custodian |-> p, place |-> q] \in AssetRows
BY DEF AssetRows

\* A request that ends, or one that begins with r, leaves the requests typed.
LEMMA RequestSteps ==
  ASSUME TypeOK, NEW h \in Handlers
  PROVE  /\ Finish(h) => request' \in [Handlers -> Requests \cup {Idle}]
         /\ \A r \in Requests : Begin(h, r) => request' \in [Handlers -> Requests \cup {Idle}]
BY DEF TypeOK, Finish, Begin

\* Closing one assignment, or starting one repair, leaves the documents typed.
LEMMA AssignmentsClosed ==
  ASSUME TypeOK, NEW a \in Assets, CloseAssignment(a)
  PROVE  assignment' \in [Assets -> [Docs -> AssignmentRows]]
<1>1. PICK d \in Docs : assignment' = [assignment EXCEPT ![a][d].status = "CLOSED"]
  BY DEF CloseAssignment, OpenAssignments
<1>2. assignment[a][d] \in AssignmentRows /\ assignment[a] \in [Docs -> AssignmentRows]
  BY DEF TypeOK
<1>3. [assignment[a][d] EXCEPT !.status = "CLOSED"] \in AssignmentRows
  BY <1>2 DEF AssignmentRows
<1>4. [assignment[a] EXCEPT ![d] = [assignment[a][d] EXCEPT !.status = "CLOSED"]]
        \in [Docs -> AssignmentRows]
  BY <1>2, <1>3
<1>5. QED
  BY <1>1, <1>4 DEF TypeOK

LEMMA RepairsStarted ==
  ASSUME TypeOK, NEW a \in Assets, StartRepair(a)
  PROVE  repair' \in [Assets -> [Docs -> RepairStates]]
<1>1. PICK m \in Docs : repair' = [repair EXCEPT ![a][m] = "OPEN"]
  BY DEF StartRepair
<1>2. [repair[a] EXCEPT ![m] = "OPEN"] \in [Docs -> RepairStates]
  BY DEF TypeOK, RepairStates
<1>3. QED
  BY <1>1, <1>2 DEF TypeOK

LEMMA InitTypes == Init => TypeOK
<1> SUFFICES ASSUME Init PROVE TypeOK
  OBVIOUS
<1>1. asset \in [Assets -> AssetRows]
  BY PlacesTyped DEF Init, AssetRows, StatusCodes
<1>2. assignment \in [Assets -> [Docs -> AssignmentRows]]
  BY DEF Init, AssignmentRows, UnusedNumber, AssignmentTypes
<1>3. QED
  BY <1>1, <1>2 DEF Init, TypeOK, RepairStates

\* The commands that are one action.
LEMMA CommandTypes == TypeOK /\ Command => TypeOK'
<1> SUFFICES ASSUME TypeOK, Command PROVE TypeOK'
  OBVIOUS
<1> USE DEF TypeOK
<1>1. ASSUME NEW a \in Assets, NEW w \in Warehouses, Create(a, w) PROVE TypeOK'
  BY <1>1, PlacesTyped, RowUpdates DEF Create, StatusCodes
<1>2. ASSUME NEW S \in SUBSET Assets, NEW p \in People, NEW l \in Locations,
             NEW t \in AssignmentTypes, Issue(S, p, l, t)
      PROVE  TypeOK'
  <2>1. AssignmentTarget(t) \in StatusCodes
    BY DEF AssignmentTarget, StatusCodes
  <2>2. asset' \in [Assets -> AssetRows]
    BY <1>2, <2>1, PlacesTyped, RowUpdates DEF Issue
  <2>3. OpenFor(p, t) \in AssignmentRows
    BY DEF OpenFor, AssignmentRows
  <2>4. assignment' \in [Assets -> [Docs -> AssignmentRows]]
    <3>1. PICK num \in [S -> Docs] :
            assignment' = [a \in Assets |->
                             IF a \in S
                             THEN [assignment[a] EXCEPT ![num[a]] = OpenFor(p, t)]
                             ELSE assignment[a]]
      BY <1>2 DEF Issue
    <3>2. \A a \in Assets : assignment[a] \in [Docs -> AssignmentRows]
      OBVIOUS
    <3>3. \A a \in S : [assignment[a] EXCEPT ![num[a]] = OpenFor(p, t)]
                         \in [Docs -> AssignmentRows]
      BY <2>3, <3>2
    <3>4. QED
      BY <3>1, <3>2, <3>3
  <2>5. QED
    BY <1>2, <2>2, <2>4 DEF Issue
<1>3. ASSUME NEW a \in Assets, NEW outcome \in ReturnOutcomes, NEW place \in Placements,
             ReturnAsset(a, outcome, place)
      PROVE  TypeOK'
  <2>1. asset' \in [Assets -> AssetRows]
    <3>1. outcome \in StatusCodes /\ place \in Places
      BY PlacesTyped DEF ReturnOutcomes, StatusCodes
    <3>2. QED
      BY <1>3, <3>1, RowUpdates DEF ReturnAsset
  <2>2. assignment' \in [Assets -> [Docs -> AssignmentRows]]
    BY <1>3, AssignmentsClosed DEF ReturnAsset
  <2>3. repair' \in [Assets -> [Docs -> RepairStates]]
    BY <1>3, RepairsStarted DEF ReturnAsset
  <2>4. QED
    BY <1>3, <2>1, <2>2, <2>3 DEF ReturnAsset
<1>4. ASSUME NEW a \in Assets, OpenMaintenance(a) PROVE TypeOK'
  <2>1. asset' \in [Assets -> AssetRows]
    <3>1. [asset[a] EXCEPT !.status = "MAINTENANCE", !.custodian = None] \in AssetRows
      BY DEF AssetRows, StatusCodes
    <3>2. asset' = [asset EXCEPT ![a] = [asset[a] EXCEPT !.status = "MAINTENANCE",
                                                         !.custodian = None]]
      BY <1>4 DEF OpenMaintenance, AssetRows
    <3>3. QED
      BY <3>1, <3>2
  <2>2. repair' \in [Assets -> [Docs -> RepairStates]]
    BY <1>4, RepairsStarted DEF OpenMaintenance
  <2>3. QED
    BY <1>4, <2>1, <2>2 DEF OpenMaintenance
<1>5. QED
  BY <1>1, <1>2, <1>3, <1>4 DEF Command, Assign, AssignMany

\* Reads only start a request.
LEMMA ReadTypes ==
  ASSUME TypeOK, NEW h \in Handlers, ReadStep(h)
  PROVE  TypeOK' /\ UNCHANGED <<asset, assignment, repair>>
<1>1. ASSUME NEW a \in Assets, NEW to \in Placements, TransferRead(h, a, to)
      PROVE  TypeOK' /\ UNCHANGED <<asset, assignment, repair>>
  <2>1. [op |-> "transfer", asset |-> a, to |-> to] \in Requests
    BY DEF Requests, TransferRequests
  <2>2. QED
    BY <1>1, <2>1, RequestSteps DEF TransferRead, TypeOK
<1>2. ASSUME NEW a \in Assets, NEW m \in Docs, NEW outcome \in MaintenanceOutcomes,
             CompleteRead(h, a, m, outcome)
      PROVE  TypeOK' /\ UNCHANGED <<asset, assignment, repair>>
  <2>1. PICK place \in IF outcome = "READY" THEN {InStock(w) : w \in Warehouses}
                                            ELSE {asset[a].place} :
          Begin(h, [op |-> "complete", asset |-> a, repair |-> m,
                    status |-> outcome, place |-> place])
    BY <1>2 DEF CompleteRead
  <2>2. place \in Places
    BY PlacesTyped DEF TypeOK, AssetRows
  <2>3. [op |-> "complete", asset |-> a, repair |-> m, status |-> outcome, place |-> place]
          \in Requests
    BY <2>2 DEF Requests, CompleteRequests
  <2>4. QED
    BY <1>2, <2>1, <2>3, RequestSteps DEF CompleteRead, TypeOK
<1>3. ASSUME NEW a \in Assets, NEW status \in Corrections, CorrectRead(h, a, status)
      PROVE  TypeOK' /\ UNCHANGED <<asset, assignment, repair>>
  <2>1. [op |-> "correct", asset |-> a, status |-> status] \in Requests
    BY DEF Requests, CorrectRequests
  <2>2. QED
    BY <1>3, <2>1, RequestSteps DEF CorrectRead, TypeOK
<1>4. ASSUME NEW a \in Assets, NEW byAdmin \in BOOLEAN, RemoveRead(h, a, byAdmin)
      PROVE  TypeOK' /\ UNCHANGED <<asset, assignment, repair>>
  <2>1. [op |-> "remove", asset |-> a, byAdmin |-> byAdmin] \in Requests
    BY DEF Requests, RemoveRequests
  <2>2. QED
    BY <1>4, <2>1, RequestSteps DEF RemoveRead, TypeOK
<1>5. QED
  BY <1>1, <1>2, <1>3, <1>4 DEF ReadStep

\* Commits write what the request holds.
LEMMA CommitTypes ==
  ASSUME TypeOK, NEW h \in Handlers, CommitStep(h)
  PROVE  TypeOK'
<1> DEFINE r == request[h]
<1>0. r \in Requests \cup {Idle}
  BY DEF TypeOK
<1>1. CASE TransferCommit(h)
  <2>1. r \in TransferRequests
    BY <1>0, <1>1, RequestKinds DEF TransferCommit
  <2>2. r.asset \in Assets /\ r.to \in Places
    BY <2>1, PlacesTyped DEF TransferRequests
  <2>3. asset' \in [Assets -> AssetRows]
    BY <1>1, <2>2 DEF TransferCommit, TypeOK, AssetRows
  <2>4. QED
    BY <1>1, <2>3, RequestSteps DEF TransferCommit, TypeOK
<1>2. CASE CompleteCommit(h)
  <2>1. r \in CompleteRequests
    BY <1>0, <1>2, RequestKinds DEF CompleteCommit
  <2>2. r.asset \in Assets /\ r.repair \in Docs /\ r.status \in StatusCodes /\ r.place \in Places
    BY <2>1 DEF CompleteRequests, MaintenanceOutcomes, StatusCodes
  <2>3. asset' \in [Assets -> AssetRows]
    <3>1. asset[r.asset] \in AssetRows
      BY <2>2 DEF TypeOK
    <3>2. [asset[r.asset] EXCEPT !.status = r.status, !.custodian = None, !.place = r.place]
            \in AssetRows
      BY <2>2, <3>1, RowUpdates
    <3>3. asset' = [asset EXCEPT ![r.asset] =
                      [asset[r.asset] EXCEPT !.status = r.status, !.custodian = None,
                                             !.place = r.place]]
      BY <1>2, <2>2 DEF CompleteCommit, TypeOK
    <3>4. QED
      BY <2>2, <3>2, <3>3 DEF TypeOK
  <2>4. repair' \in [Assets -> [Docs -> RepairStates]]
    BY <1>2, <2>2 DEF CompleteCommit, TypeOK, RepairStates
  <2>5. QED
    BY <1>2, <2>3, <2>4, RequestSteps DEF CompleteCommit, TypeOK
<1>3. CASE CorrectCommit(h)
  <2>1. r \in CorrectRequests
    BY <1>0, <1>3, RequestKinds DEF CorrectCommit
  <2>2. r.asset \in Assets /\ r.status \in StatusCodes
    BY <2>1, LifecycleAssumption DEF CorrectRequests
  <2>3. asset' \in [Assets -> AssetRows]
    BY <1>3, <2>2 DEF CorrectCommit, TypeOK, AssetRows
  <2>4. QED
    BY <1>3, <2>3, RequestSteps DEF CorrectCommit, TypeOK
<1>4. CASE RemoveCancel(h)
  <2>1. r \in RemoveRequests
    BY <1>0, <1>4, RequestKinds DEF RemoveCancel
  <2>2. [op |-> "cancelled", asset |-> r.asset, byAdmin |-> r.byAdmin,
         docs |-> OpenAssignments(r.asset)] \in Requests
    BY <2>1 DEF RemoveRequests, CancelRequests, Requests, OpenAssignments
  <2>3. QED
    BY <1>4, <2>2 DEF RemoveCancel, TypeOK
<1>5. CASE RemoveCommit(h)
  <2>1. r \in CancelRequests
    BY <1>0, <1>5, RequestKinds DEF RemoveCommit
  <2>2. r.asset \in Assets
    BY <2>1 DEF CancelRequests
  <2>3. asset' \in [Assets -> AssetRows]
    BY <1>5, <2>2 DEF RemoveCommit, TypeOK, AssetRows
  <2>4. \A d \in Docs : assignment[r.asset][d] \in AssignmentRows
    BY <2>2 DEF TypeOK
  <2>5. assignment' \in [Assets -> [Docs -> AssignmentRows]]
    <3>1. \A row \in AssignmentRows : [row EXCEPT !.status = "CANCELLED"] \in AssignmentRows
      BY DEF AssignmentRows
    <3>2. QED
      BY <1>5, <2>2, <2>4, <3>1 DEF RemoveCommit, TypeOK
  <2>6. QED
    BY <1>5, <2>3, <2>5, RequestSteps DEF RemoveCommit, TypeOK
<1>6. CASE Abort(h)
  BY <1>6, RequestSteps DEF Abort, TypeOK
<1>7. QED
  BY <1>1, <1>2, <1>3, <1>4, <1>5, <1>6 DEF CommitStep

LEMMA NextTypes == TypeOK /\ [Next]_vars => TypeOK'
<1>1. TypeOK /\ Next => TypeOK'
  BY CommandTypes, ReadTypes, CommitTypes DEF Next
<1>2. TypeOK /\ UNCHANGED vars => TypeOK'
  BY DEF TypeOK, vars
<1>3. QED
  BY <1>1, <1>2

\* Every variable stays within its table's columns, whatever is written late.
THEOREM TypeCorrect == Spec => []TypeOK
BY InitTypes, NextTypes, PTL DEF Spec
-----------------------------------------------------------------------------
(***************************************************************************)
(* What one step does to one asset.  Whatever the command and whatever it  *)
(* read earlier, the asset keeps its holder and papers, is handed out, or  *)
(* ends up in nobody's hands.  The safety theorems rest on this alone.     *)
(***************************************************************************)
Kept(a) ==
  /\ asset'[a].register = asset[a].register
  /\ asset'[a].custodian = asset[a].custodian
  /\ asset'[a].status \in {asset[a].status} \cup Corrections
  /\ assignment'[a] = assignment[a]
  /\ CustodyCheck(asset[a]) => CustodyCheck(asset'[a])

Handed(a) ==
  /\ Live(a) /\ asset[a].custodian = None /\ OpenAssignments(a) = {}
  /\ \E p \in People, t \in AssignmentTypes, d \in Docs :
       /\ assignment'[a] = [assignment[a] EXCEPT ![d] = OpenFor(p, t)]
       /\ asset'[a].custodian = p
       /\ asset'[a].status = AssignmentTarget(t)
       /\ asset'[a].place.warehouse = None

Released(a) ==
  /\ asset'[a].custodian = None
  /\ asset'[a].register = "DELETED" \/ asset'[a].status \notin HandedOut
  /\ asset'[a].status = "DISPOSED" => asset[a].status = "DISPOSED"
  /\ \A d \in Docs : assignment'[a][d].status = "OPEN" => assignment[a][d].status = "OPEN"

\* A command in one action moves every asset in one of the three ways.
LEMMA CommandByAsset ==
  ASSUME TypeOK, Command, NEW b \in Assets
  PROVE  Kept(b) \/ Handed(b) \/ Released(b)
<1> USE DEF TypeOK
<1>1. ASSUME NEW a \in Assets, NEW w \in Warehouses, Create(a, w)
      PROVE  Kept(b) \/ Released(b)
  BY <1>1 DEF Create, Kept, Released, HandedOut
<1>2. ASSUME NEW S \in SUBSET Assets, NEW p \in People, NEW l \in Locations,
             NEW t \in AssignmentTypes, Issue(S, p, l, t)
      PROVE  Kept(b) \/ Handed(b)
  <2>1. PICK num \in [S -> Docs] :
          assignment' = [a \in Assets |->
                           IF a \in S
                           THEN [assignment[a] EXCEPT ![num[a]] = OpenFor(p, t)]
                           ELSE assignment[a]]
    BY <1>2 DEF Issue
  <2>2. CASE b \in S
    <3>1. Live(b) /\ asset[b].custodian = None /\ OpenAssignments(b) = {}
      BY <1>2, <2>2 DEF Issue, AssignmentIndexFree
    <3>2. assignment'[b] = [assignment[b] EXCEPT ![num[b]] = OpenFor(p, t)] /\ num[b] \in Docs
      BY <2>1, <2>2
    <3>3. /\ asset'[b].custodian = p
          /\ asset'[b].status = AssignmentTarget(t)
          /\ asset'[b].place.warehouse = None
      <4>1. asset[b] \in AssetRows
        OBVIOUS
      <4>2. asset'[b] = [asset[b] EXCEPT !.status = AssignmentTarget(t), !.custodian = p,
                                         !.place = At(l)]
        BY <1>2, <2>2 DEF Issue
      <4>3. QED
        BY <4>1, <4>2 DEF AssetRows, At
    <3>4. QED
      BY <3>1, <3>2, <3>3 DEF Handed
  <2>3. CASE b \notin S
    BY <1>2, <2>1, <2>3 DEF Issue, Kept
  <2>4. QED
    BY <2>2, <2>3
<1>3. ASSUME NEW a \in Assets, NEW outcome \in ReturnOutcomes, NEW place \in Placements,
             ReturnAsset(a, outcome, place)
      PROVE  Kept(b) \/ Released(b)
  <2>1. PICK d \in Docs : assignment' = [assignment EXCEPT ![a][d].status = "CLOSED"]
    BY <1>3 DEF ReturnAsset, CloseAssignment, OpenAssignments
  <2>2. CASE b = a
    <3>1. asset'[b].custodian = None /\ asset'[b].status = outcome
      <4>1. asset[b] \in AssetRows
        OBVIOUS
      <4>2. asset'[b] = [asset[b] EXCEPT !.status = outcome, !.custodian = None, !.place = place]
        BY <1>3, <2>2 DEF ReturnAsset
      <4>3. QED
        BY <4>1, <4>2 DEF AssetRows
    <3>2. \A e \in Docs : assignment'[b][e].status = "OPEN" => assignment[b][e].status = "OPEN"
      <4>1. assignment[a] \in [Docs -> AssignmentRows]
        OBVIOUS
      <4>2. assignment'[b] = [assignment[a] EXCEPT ![d] = [assignment[a][d] EXCEPT !.status = "CLOSED"]]
        BY <2>1, <2>2
      <4>3. QED
        BY <2>2, <4>1, <4>2 DEF AssignmentRows
    <3>3. QED
      BY <1>3, <3>1, <3>2 DEF Released, ReturnOutcomes, HandedOut
  <2>3. CASE b # a
    BY <1>3, <2>1, <2>3 DEF ReturnAsset, Kept
  <2>4. QED
    BY <2>2, <2>3
<1>4. ASSUME NEW a \in Assets, OpenMaintenance(a)
      PROVE  Kept(b) \/ Released(b)
  BY <1>4 DEF OpenMaintenance, Kept, Released, HandedOut, AssetRows
<1>5. QED
  BY <1>1, <1>2, <1>3, <1>4 DEF Command, Assign, AssignMany

\* So does a commit of what was read earlier.
LEMMA CommitByAsset ==
  ASSUME TypeOK, NEW h \in Handlers, CommitStep(h), NEW b \in Assets
  PROVE  Kept(b) \/ Released(b)
<1> DEFINE r == request[h]
<1>0. r \in Requests \cup {Idle} /\ asset[b] \in AssetRows
  BY DEF TypeOK
<1>1. CASE TransferCommit(h)
  <2>1. r \in TransferRequests /\ r.asset \in Assets
    BY <1>0, <1>1, RequestKinds DEF TransferCommit
  <2>2. asset' = [asset EXCEPT ![r.asset] = [asset[r.asset] EXCEPT !.place = r.to]]
    BY <1>1, <2>1 DEF TransferCommit
  <2>3. CASE b = r.asset
    <3>1. asset'[b] = [asset[b] EXCEPT !.place = r.to]
      BY <2>1, <2>2, <2>3 DEF TypeOK
    <3>2. CustodyCheck([asset[b] EXCEPT !.place = r.to]) /\ UNCHANGED assignment
      BY <1>1, <2>3 DEF TransferCommit
    <3>3. /\ asset'[b].register = asset[b].register
          /\ asset'[b].custodian = asset[b].custodian
          /\ asset'[b].status = asset[b].status
      BY <1>0, <3>1 DEF AssetRows
    <3>4. QED
      BY <3>1, <3>2, <3>3 DEF Kept
  <2>4. CASE b # r.asset
    BY <1>1, <2>2, <2>4 DEF TransferCommit, Kept, TypeOK
  <2>5. QED
    BY <2>3, <2>4
<1>2. CASE CompleteCommit(h)
  <2>1. r \in CompleteRequests /\ r.asset \in Assets
    BY <1>0, <1>2, RequestKinds DEF CompleteCommit
  <2>2. asset' = [asset EXCEPT ![r.asset] =
                    [asset[r.asset] EXCEPT !.status = r.status, !.custodian = None,
                                           !.place = r.place]]
    BY <1>2, <2>1 DEF CompleteCommit, TypeOK
  <2>3. CASE b = r.asset
    <3>1. asset'[b].custodian = None /\ asset'[b].status = r.status
      BY <1>0, <2>1, <2>2, <2>3 DEF TypeOK, AssetRows
    <3>2. r.status \notin HandedOut /\ r.status # "DISPOSED"
      BY <2>1 DEF CompleteRequests, MaintenanceOutcomes, HandedOut
    <3>3. QED
      BY <1>2, <3>1, <3>2 DEF CompleteCommit, Released
  <2>4. CASE b # r.asset
    BY <1>2, <2>2, <2>4 DEF CompleteCommit, Kept, TypeOK
  <2>5. QED
    BY <2>3, <2>4
<1>3. CASE CorrectCommit(h)
  <2>1. r \in CorrectRequests /\ r.asset \in Assets
    BY <1>0, <1>3, RequestKinds DEF CorrectCommit
  <2>2. asset' = [asset EXCEPT ![r.asset] = [asset[r.asset] EXCEPT !.status = r.status]]
    BY <1>3, <2>1 DEF CorrectCommit
  <2>3. CASE b = r.asset
    BY <1>0, <1>3, <2>1, <2>2, <2>3
    DEF CorrectCommit, Kept, TypeOK, AssetRows, CorrectRequests, CustodyCheck
  <2>4. CASE b # r.asset
    BY <1>3, <2>2, <2>4 DEF CorrectCommit, Kept, TypeOK
  <2>5. QED
    BY <2>3, <2>4
<1>4. CASE RemoveCancel(h)
  BY <1>4 DEF RemoveCancel, Kept
<1>5. CASE RemoveCommit(h)
  <2>1. r \in CancelRequests /\ r.asset \in Assets
    BY <1>0, <1>5, RequestKinds DEF RemoveCommit
  <2>2. CASE b = r.asset
    <3>1. /\ asset'[b].custodian = None /\ asset'[b].register = "DELETED"
          /\ asset'[b].status = asset[b].status
      BY <1>0, <1>5, <2>1, <2>2 DEF RemoveCommit, TypeOK, AssetRows
    <3>2. \A d \in Docs : assignment'[b][d].status = "OPEN" => assignment[b][d].status = "OPEN"
      <4>1. assignment[b] \in [Docs -> AssignmentRows]
        BY DEF TypeOK
      <4>2. assignment'[b] = [d \in Docs |-> IF d \in r.docs
                                             THEN [assignment[b][d] EXCEPT !.status = "CANCELLED"]
                                             ELSE assignment[b][d]]
        BY <1>5, <2>1, <2>2 DEF RemoveCommit, TypeOK
      <4>3. QED
        BY <4>1, <4>2 DEF AssignmentRows
    <3>3. QED
      BY <3>1, <3>2 DEF Released
  <2>3. CASE b # r.asset
    BY <1>5, <2>1, <2>3 DEF RemoveCommit, Kept, TypeOK
  <2>4. QED
    BY <2>2, <2>3
<1>6. CASE Abort(h)
  BY <1>6 DEF Abort, Kept
<1>7. QED
  BY <1>1, <1>2, <1>3, <1>4, <1>5, <1>6 DEF CommitStep

LEMMA StepByAsset ==
  ASSUME TypeOK, [Next]_vars, NEW b \in Assets
  PROVE  Kept(b) \/ Handed(b) \/ Released(b)
<1>1. CASE Command
  BY <1>1, CommandByAsset
<1>2. ASSUME NEW h \in Handlers, ReadStep(h) PROVE Kept(b)
  BY <1>2, ReadTypes DEF Kept
<1>3. ASSUME NEW h \in Handlers, CommitStep(h) PROVE Kept(b) \/ Released(b)
  BY <1>3, CommitByAsset
<1>4. CASE UNCHANGED vars
  BY <1>4 DEF Kept, vars
<1>5. QED
  BY <1>1, <1>2, <1>3, <1>4 DEF Next
-----------------------------------------------------------------------------
(***************************************************************************)
(* Safety, by asset.                                                       *)
(***************************************************************************)
Signed(a) == asset[a].custodian # None =>
               \E d \in OpenAssignments(a) : assignment[a][d].to = asset[a].custodian
Papered(a) == Live(a) /\ asset[a].status \in HandedOut =>
                /\ asset[a].custodian # None
                /\ \E d \in OpenAssignments(a) :
                     /\ assignment[a][d].to = asset[a].custodian
                     /\ AssignmentTarget(assignment[a][d].type) = asset[a].status
AtMostOneOpen(a) == \A d, e \in OpenAssignments(a) : d = e

\* What a handover leaves on the asset: one open assignment, the new holder's.
LEMMA HandedFacts ==
  ASSUME TypeOK, NEW a \in Assets, Handed(a)
  PROVE  Signed(a)' /\ Papered(a)' /\ AtMostOneOpen(a)' /\ CustodyCheck(asset'[a])
<1>1. PICK p \in People, t \in AssignmentTypes, d \in Docs :
        /\ assignment'[a] = [assignment[a] EXCEPT ![d] = OpenFor(p, t)]
        /\ asset'[a].custodian = p
        /\ asset'[a].status = AssignmentTarget(t)
        /\ asset'[a].place.warehouse = None
  BY DEF Handed
<1>2. assignment[a] \in [Docs -> AssignmentRows]
  BY DEF TypeOK
<1>3. /\ assignment'[a][d] = OpenFor(p, t)
      /\ \A e \in Docs \ {d} : assignment'[a][e] = assignment[a][e]
  BY <1>1, <1>2
<1>4. \A e \in Docs : assignment[a][e].status # "OPEN"
  BY DEF Handed, OpenAssignments
<1>5. OpenAssignments(a)' = {d}
  BY <1>3, <1>4 DEF OpenAssignments, OpenFor
<1>6. assignment'[a][d].to = p /\ assignment'[a][d].type = t /\ p # None
  BY <1>3, LifecycleAssumption DEF OpenFor
<1>7. QED
  BY <1>1, <1>5, <1>6 DEF Signed, Papered, AtMostOneOpen, CustodyCheck

\* The conjuncts hold of every asset from the start (Init writes no paper).
LEMMA InitByAsset ==
  ASSUME Init, NEW a \in Assets
  PROVE  Signed(a) /\ Papered(a) /\ AtMostOneOpen(a) /\ CustodyCheck(asset[a])
BY DEF Init, Signed, Papered, AtMostOneOpen, CustodyCheck, OpenAssignments, UnusedNumber,
       Live, Nowhere

\* Signed and AtMostOneOpen survive every step, with no help from one another.
LEMMA SignedStep ==
  ASSUME TypeOK, [Next]_vars, NEW a \in Assets, Signed(a)
  PROVE  Signed(a)'
<1>1. CASE Kept(a)
  BY <1>1 DEF Kept, Signed, OpenAssignments
<1>2. CASE Released(a)
  BY <1>2 DEF Released, Signed
<1>3. QED
  BY <1>1, <1>2, HandedFacts, StepByAsset

LEMMA AtMostOneOpenStep ==
  ASSUME TypeOK, [Next]_vars, NEW a \in Assets, AtMostOneOpen(a)
  PROVE  AtMostOneOpen(a)'
<1>1. CASE Kept(a)
  BY <1>1 DEF Kept, AtMostOneOpen, OpenAssignments
<1>2. CASE Released(a)
  BY <1>2 DEF Released, AtMostOneOpen, OpenAssignments
<1>3. QED
  BY <1>1, <1>2, HandedFacts, StepByAsset

\* A released asset may still sit anywhere; only a custodian excludes a warehouse.
LEMMA CustodyCheckStep ==
  ASSUME TypeOK, [Next]_vars, NEW a \in Assets, CustodyCheck(asset[a])
  PROVE  CustodyCheck(asset'[a])
<1>1. CASE Kept(a)
  BY <1>1 DEF Kept
<1>2. CASE Released(a)
  BY <1>2 DEF Released, CustodyCheck
<1>3. QED
  BY <1>1, <1>2, HandedFacts, StepByAsset

\* Papered survives as long as nobody corrects a status to IN_USE or ON_LOAN.
LEMMA PaperedStep ==
  ASSUME Corrections \cap HandedOut = {}, TypeOK, [Next]_vars, NEW a \in Assets, Papered(a)
  PROVE  Papered(a)'
<1>1. CASE Kept(a)
  BY <1>1 DEF Kept, Papered, OpenAssignments, Live
<1>2. CASE Released(a)
  BY <1>2 DEF Released, Papered, Live
<1>3. QED
  BY <1>1, <1>2, HandedFacts, StepByAsset

\* A custodian has signed for what the register says they hold, whatever
\* transfer, completeMaintenance, corrections and removal write late.
THEOREM HolderSignedAlways == Spec => []HolderSigned
<1>1. Init => HolderSigned
  BY InitByAsset DEF HolderSigned, Signed
<1>2. TypeOK /\ HolderSigned /\ [Next]_vars => HolderSigned'
  BY SignedStep DEF HolderSigned, Signed
<1>3. QED
  BY <1>1, <1>2, TypeCorrect, PTL DEF Spec

\* An asset in use or on loan is documented by its holder's open assignment of
\* the matching type, if administrators do not set IN_USE or ON_LOAN by hand.
THEOREM HandedOutDocumented ==
  ASSUME Corrections \cap HandedOut = {}
  PROVE  Spec => []HandedOutIsDocumented
<1>1. Init => HandedOutIsDocumented
  BY InitByAsset DEF HandedOutIsDocumented, Papered
<1>2. TypeOK /\ HandedOutIsDocumented /\ [Next]_vars => HandedOutIsDocumented'
  BY PaperedStep DEF HandedOutIsDocumented, Papered
<1>3. QED
  BY <1>1, <1>2, TypeCorrect, PTL DEF Spec

\* An asset is never in a warehouse and in a person's hands at once, although
\* transfer decides on the custodian it read.
THEOREM CustodyAlwaysExcludesWarehouse == Spec => []CustodyExcludesWarehouse
<1>1. Init => CustodyExcludesWarehouse
  BY InitByAsset DEF CustodyExcludesWarehouse, CustodyCheck
<1>2. TypeOK /\ CustodyExcludesWarehouse /\ [Next]_vars => CustodyExcludesWarehouse'
  BY CustodyCheckStep DEF CustodyExcludesWarehouse, CustodyCheck
<1>3. QED
  BY <1>1, <1>2, TypeCorrect, PTL DEF Spec
-----------------------------------------------------------------------------
(***************************************************************************)
(* Repairs.                                                                *)
(***************************************************************************)
AtMostOneRepair(a) == \A d, e \in OpenRepairs(a) : d = e

\* Starting a repair needs the index free, so it leaves one open repair.
LEMMA StartRepairStep ==
  ASSUME TypeOK, NEW a \in Assets, NEW b \in Assets, AtMostOneRepair(b),
         StartRepair(a) \/ UNCHANGED repair
  PROVE  AtMostOneRepair(b)'
<1>1. CASE StartRepair(a)
  <2>1. PICK m \in Docs : repair' = [repair EXCEPT ![a][m] = "OPEN"]
    BY <1>1 DEF StartRepair
  <2>2. CASE b = a
    <3>1. \A d \in Docs : repair[b][d] # "OPEN"
      BY <1>1, <2>2 DEF StartRepair, RepairIndexFree, OpenRepairs
    <3>2. \A d \in Docs \ {m} : repair'[b][d] = repair[b][d]
      BY <2>1, <2>2 DEF TypeOK
    <3>3. QED
      BY <3>1, <3>2 DEF AtMostOneRepair, OpenRepairs
  <2>3. CASE b # a
    BY <2>1, <2>3 DEF AtMostOneRepair, OpenRepairs, TypeOK
  <2>4. QED
    BY <2>2, <2>3
<1>2. CASE UNCHANGED repair
  BY <1>2 DEF AtMostOneRepair, OpenRepairs
<1>3. QED
  BY <1>1, <1>2

LEMMA AtMostOneRepairStep ==
  ASSUME TypeOK, [Next]_vars, NEW b \in Assets, AtMostOneRepair(b)
  PROVE  AtMostOneRepair(b)'
<1>1. ASSUME UNCHANGED repair PROVE AtMostOneRepair(b)'
  BY <1>1 DEF AtMostOneRepair, OpenRepairs
<1>2. CASE Command
  <2>1. ASSUME NEW a \in Assets, NEW outcome \in ReturnOutcomes, NEW place \in Placements,
               ReturnAsset(a, outcome, place)
        PROVE  AtMostOneRepair(b)'
    BY <2>1, StartRepairStep DEF ReturnAsset
  <2>2. ASSUME NEW a \in Assets, OpenMaintenance(a) PROVE AtMostOneRepair(b)'
    BY <2>2, StartRepairStep DEF OpenMaintenance
  <2>3. ASSUME NEW a \in Assets, NEW w \in Warehouses, Create(a, w) PROVE AtMostOneRepair(b)'
    BY <1>1, <2>3 DEF Create
  <2>4. ASSUME NEW S \in SUBSET Assets, NEW p \in People, NEW l \in Locations,
               NEW t \in AssignmentTypes, Issue(S, p, l, t)
        PROVE  AtMostOneRepair(b)'
    BY <1>1, <2>4 DEF Issue
  <2>5. QED
    BY <1>2, <2>1, <2>2, <2>3, <2>4 DEF Command, Assign, AssignMany
<1>3. ASSUME NEW h \in Handlers, CommitStep(h) PROVE AtMostOneRepair(b)'
  <2>1. CASE CompleteCommit(h)
    <3>1. request[h] \in CompleteRequests
      BY <2>1, RequestKinds DEF CompleteCommit, TypeOK
    <3>2. repair' = [repair EXCEPT ![request[h].asset][request[h].repair] = "COMPLETED"]
      BY <2>1 DEF CompleteCommit
    <3>3. \A d \in Docs : repair'[b][d] = "OPEN" => repair[b][d] = "OPEN"
      BY <3>1, <3>2 DEF CompleteRequests, TypeOK
    <3>4. QED
      BY <3>3 DEF AtMostOneRepair, OpenRepairs
  <2>2. CASE ~CompleteCommit(h)
    BY <1>1, <1>3, <2>2 DEF CommitStep, TransferCommit, CorrectCommit, RemoveCancel,
                            RemoveCommit, Abort
  <2>3. QED
    BY <2>1, <2>2
<1>4. ASSUME NEW h \in Handlers, ReadStep(h) PROVE AtMostOneRepair(b)'
  BY <1>1, <1>4, ReadTypes
<1>5. CASE UNCHANGED vars
  BY <1>1, <1>5 DEF vars
<1>6. QED
  BY <1>2, <1>3, <1>4, <1>5 DEF Next

\* A repair is opened only on an asset that goes to MAINTENANCE.
LEMMA RepairOpened ==
  ASSUME TypeOK, [Next]_vars, NEW b \in Assets
  PROVE  OpenRepairs(b)' \subseteq OpenRepairs(b) \/ asset'[b].status = "MAINTENANCE"
<1>1. ASSUME UNCHANGED repair PROVE OpenRepairs(b)' \subseteq OpenRepairs(b)
  BY <1>1 DEF OpenRepairs
<1>2. ASSUME NEW a \in Assets, StartRepair(a), a # b
      PROVE  OpenRepairs(b)' \subseteq OpenRepairs(b)
  BY <1>2 DEF StartRepair, OpenRepairs, TypeOK
<1>3. CASE Command
  <2>1. ASSUME NEW a \in Assets, NEW outcome \in ReturnOutcomes, NEW place \in Placements,
               ReturnAsset(a, outcome, place)
        PROVE  OpenRepairs(b)' \subseteq OpenRepairs(b) \/ asset'[b].status = "MAINTENANCE"
    <3>1. CASE a = b /\ outcome = "MAINTENANCE"
      <4>1. asset' = [asset EXCEPT ![b] = [asset[b] EXCEPT !.status = "MAINTENANCE",
                                                           !.custodian = None, !.place = place]]
        BY <2>1, <3>1 DEF ReturnAsset
      <4>2. QED
        BY <4>1 DEF TypeOK, AssetRows
    <3>2. QED
      BY <1>1, <1>2, <2>1, <3>1 DEF ReturnAsset
  <2>2. ASSUME NEW a \in Assets, OpenMaintenance(a)
        PROVE  OpenRepairs(b)' \subseteq OpenRepairs(b) \/ asset'[b].status = "MAINTENANCE"
    <3>1. CASE a = b
      <4>1. asset' = [asset EXCEPT ![b] = [asset[b] EXCEPT !.status = "MAINTENANCE",
                                                           !.custodian = None]]
        BY <2>2, <3>1 DEF OpenMaintenance
      <4>2. QED
        BY <4>1 DEF TypeOK, AssetRows
    <3>2. CASE a # b
      BY <1>2, <2>2, <3>2 DEF OpenMaintenance
    <3>3. QED
      BY <3>1, <3>2
  <2>3. ASSUME NEW a \in Assets, NEW w \in Warehouses, Create(a, w) PROVE UNCHANGED repair
    BY <2>3 DEF Create
  <2>4. ASSUME NEW S \in SUBSET Assets, NEW p \in People, NEW l \in Locations,
               NEW t \in AssignmentTypes, Issue(S, p, l, t)
        PROVE  UNCHANGED repair
    BY <2>4 DEF Issue
  <2>5. QED
    BY <1>1, <1>3, <2>1, <2>2, <2>3, <2>4 DEF Command, Assign, AssignMany
<1>4. ASSUME NEW h \in Handlers, CommitStep(h) PROVE OpenRepairs(b)' \subseteq OpenRepairs(b)
  <2>1. CASE CompleteCommit(h)
    <3>1. request[h] \in CompleteRequests
      BY <2>1, RequestKinds DEF CompleteCommit, TypeOK
    <3>2. repair' = [repair EXCEPT ![request[h].asset][request[h].repair] = "COMPLETED"]
      BY <2>1 DEF CompleteCommit
    <3>3. QED
      BY <3>1, <3>2 DEF CompleteRequests, TypeOK, OpenRepairs
  <2>2. CASE ~CompleteCommit(h)
    BY <1>1, <1>4, <2>2 DEF CommitStep, TransferCommit, CorrectCommit, RemoveCancel,
                            RemoveCommit, Abort
  <2>3. QED
    BY <2>1, <2>2
<1>5. ASSUME NEW h \in Handlers, ReadStep(h) PROVE UNCHANGED repair
  BY <1>5, ReadTypes
<1>6. CASE UNCHANGED vars
  BY <1>1, <1>6 DEF vars
<1>7. QED
  BY <1>1, <1>3, <1>4, <1>5, <1>6 DEF Next

\* The register's commands retire no asset, as long as nobody corrects a status
\* to DISPOSED, and open nothing on one that is retired.
LEMMA DisposedLeftAlone ==
  ASSUME "DISPOSED" \notin Corrections, TypeOK, [Next]_vars, NEW a \in Assets,
         asset'[a].status = "DISPOSED"
  PROVE  /\ asset[a].status = "DISPOSED"
         /\ asset'[a].custodian \in {asset[a].custodian, None}
         /\ OpenAssignments(a)' \subseteq OpenAssignments(a)
         /\ OpenRepairs(a)' \subseteq OpenRepairs(a)
<1>1. OpenRepairs(a)' \subseteq OpenRepairs(a)
  BY RepairOpened
<1>2. CASE Kept(a)
  BY <1>1, <1>2 DEF Kept, OpenAssignments
<1>3. CASE Handed(a)
  BY <1>3 DEF Handed, AssignmentTarget
<1>4. CASE Released(a)
  BY <1>1, <1>4 DEF Released, OpenAssignments
<1>5. QED
  BY <1>2, <1>3, <1>4, StepByAsset

\* An asset has at most one open assignment and one open repair: the partial
\* unique indexes hold what stale statuses would let through.
THEOREM OneOpenDocumentAlways == Spec => []OneOpenDocument
<1>1. Init => OneOpenDocument
  <2>1. ASSUME Init, NEW a \in Assets PROVE AtMostOneRepair(a)
    BY <2>1 DEF Init, AtMostOneRepair, OpenRepairs
  <2>2. QED
    BY <2>1, InitByAsset DEF OneOpenDocument, AtMostOneOpen, AtMostOneRepair
<1>2. TypeOK /\ OneOpenDocument /\ [Next]_vars => OneOpenDocument'
  BY AtMostOneOpenStep, AtMostOneRepairStep
  DEF OneOpenDocument, AtMostOneOpen, AtMostOneRepair
<1>3. QED
  BY <1>1, <1>2, TypeCorrect, PTL DEF Spec
-----------------------------------------------------------------------------
(***************************************************************************)
(* The register implements AssetCustody: each step is a handover of a set  *)
(* of assets, one asset coming back or leaving, or nothing at all.         *)
(***************************************************************************)
holder == [a \in Assets |-> asset[a].custodian]
gone   == {a \in Assets : asset[a].register = "DELETED"}

\* A step that changes one row only, whose custodian becomes None, is a
\* GiveBack, or a Leave when the row is marked deleted.
LEMMA OneRowReleased ==
  ASSUME NEW a \in Assets, TypeOK,
         \A b \in Assets \ {a} : asset'[b] = asset[b],
         asset'[a].custodian = None,
         \/ asset'[a].register = asset[a].register
         \/ asset[a].register = "ABSENT" /\ asset'[a].register = "LIVE"
         \/ asset'[a].register = "DELETED"
  PROVE  Custody!GiveBack(a) \/ Custody!Leave(a)
<1>1. holder' = [holder EXCEPT ![a] = None]
  BY DEF holder
<1>2. CASE asset'[a].register = "DELETED"
  <2>1. gone' = gone \cup {a}
    BY <1>2 DEF gone
  <2>2. QED
    BY <1>1, <2>1 DEF Custody!Leave, holder, gone
<1>3. CASE asset'[a].register # "DELETED"
  <2>1. gone' = gone
    BY <1>3 DEF gone
  <2>2. QED
    BY <1>1, <2>1 DEF Custody!GiveBack, holder, gone
<1>4. QED
  BY <1>2, <1>3

\* A step that leaves every custodian and every register mark alone is a stutter.
LEMMA CustodyUntouched ==
  ASSUME \A a \in Assets : /\ asset'[a].custodian = asset[a].custodian
                            /\ asset'[a].register = asset[a].register
  PROVE  UNCHANGED Custody!custodyVars
BY DEF Custody!custodyVars

LEMMA CommandCustody ==
  ASSUME TypeOK, Command
  PROVE  [Custody!Next]_(Custody!custodyVars)
<1> USE DEF TypeOK
<1>1. ASSUME NEW a \in Assets, NEW w \in Warehouses, Create(a, w)
      PROVE  Custody!GiveBack(a) \/ Custody!Leave(a)
  BY <1>1, OneRowReleased DEF Create
<1>2. ASSUME NEW S \in SUBSET Assets, NEW p \in People, NEW l \in Locations,
             NEW t \in AssignmentTypes, Issue(S, p, l, t)
      PROVE  Custody!HandOver(S, p)
  <2>1. \A a \in S : asset[a].custodian = None /\ asset[a].register = "LIVE"
    BY <1>2 DEF Issue, Live
  <2>2. ASSUME NEW a \in Assets
        PROVE  /\ asset'[a].custodian = (IF a \in S THEN p ELSE asset[a].custodian)
               /\ asset'[a].register = asset[a].register
    <3>1. asset[a] \in AssetRows
      OBVIOUS
    <3>2. CASE a \in S
      <4>1. asset'[a] = [asset[a] EXCEPT !.status = AssignmentTarget(t),
                                         !.custodian = p, !.place = At(l)]
        BY <1>2, <3>2 DEF Issue
      <4>2. QED
        BY <3>1, <3>2, <4>1 DEF AssetRows
    <3>3. CASE a \notin S
      BY <1>2, <3>3 DEF Issue
    <3>4. QED
      BY <3>2, <3>3
  <2>3. QED
    BY <2>1, <2>2 DEF Custody!HandOver
<1>3. ASSUME NEW a \in Assets, NEW outcome \in ReturnOutcomes, NEW place \in Placements,
             ReturnAsset(a, outcome, place)
      PROVE  Custody!GiveBack(a) \/ Custody!Leave(a)
  <2>1. asset' = [asset EXCEPT ![a] = [asset[a] EXCEPT !.status = outcome, !.custodian = None,
                                                       !.place = place]]
    BY <1>3 DEF ReturnAsset
  <2>2. asset'[a].custodian = None /\ asset'[a].register = asset[a].register
    BY <2>1 DEF AssetRows
  <2>3. QED
    BY <2>1, <2>2, OneRowReleased
<1>4. ASSUME NEW a \in Assets, OpenMaintenance(a)
      PROVE  Custody!GiveBack(a) \/ Custody!Leave(a)
  <2>1. asset' = [asset EXCEPT ![a] = [asset[a] EXCEPT !.status = "MAINTENANCE",
                                                       !.custodian = None]]
    BY <1>4 DEF OpenMaintenance
  <2>2. asset'[a].custodian = None /\ asset'[a].register = asset[a].register
    BY <2>1 DEF AssetRows
  <2>3. QED
    BY <2>1, <2>2, OneRowReleased
<1>5. QED
  BY <1>1, <1>2, <1>3, <1>4 DEF Command, Assign, AssignMany, Custody!Next

LEMMA CommitCustody ==
  ASSUME TypeOK, NEW h \in Handlers, CommitStep(h)
  PROVE  [Custody!Next]_(Custody!custodyVars)
<1> DEFINE r == request[h]
<1>0. r \in Requests \cup {Idle}
  BY DEF TypeOK
<1>1. CASE TransferCommit(h)
  <2>1. r.asset \in Assets /\ asset[r.asset] \in AssetRows
    BY <1>0, <1>1, RequestKinds DEF TransferCommit, TypeOK
  <2>2. asset' = [asset EXCEPT ![r.asset] = [asset[r.asset] EXCEPT !.place = r.to]]
    BY <1>1 DEF TransferCommit
  <2>3. \A a \in Assets : /\ asset'[a].custodian = asset[a].custodian
                          /\ asset'[a].register = asset[a].register
    BY <2>1, <2>2 DEF TypeOK, AssetRows
  <2>4. QED
    BY <2>3, CustodyUntouched
<1>2. CASE CompleteCommit(h)
  <2>1. r.asset \in Assets /\ asset[r.asset] \in AssetRows
    BY <1>0, <1>2, RequestKinds DEF CompleteCommit, TypeOK
  <2>2. asset' = [asset EXCEPT ![r.asset] =
                    [asset[r.asset] EXCEPT !.status = r.status, !.custodian = None,
                                           !.place = r.place]]
    BY <1>2, <2>1 DEF CompleteCommit, TypeOK
  <2>3. /\ asset'[r.asset].custodian = None
        /\ asset'[r.asset].register = asset[r.asset].register
        /\ \A b \in Assets \ {r.asset} : asset'[b] = asset[b]
    BY <2>1, <2>2 DEF TypeOK, AssetRows
  <2>4. QED
    BY <2>1, <2>3, OneRowReleased DEF Custody!Next
<1>3. CASE CorrectCommit(h)
  <2>1. r.asset \in Assets /\ asset[r.asset] \in AssetRows
    BY <1>0, <1>3, RequestKinds DEF CorrectCommit, TypeOK
  <2>2. asset' = [asset EXCEPT ![r.asset] = [asset[r.asset] EXCEPT !.status = r.status]]
    BY <1>3 DEF CorrectCommit
  <2>3. \A a \in Assets : /\ asset'[a].custodian = asset[a].custodian
                          /\ asset'[a].register = asset[a].register
    BY <2>1, <2>2 DEF TypeOK, AssetRows
  <2>4. QED
    BY <2>3, CustodyUntouched
<1>4. CASE RemoveCancel(h)
  BY <1>4, CustodyUntouched DEF RemoveCancel
<1>5. CASE RemoveCommit(h)
  <2>1. r.asset \in Assets /\ asset[r.asset] \in AssetRows
    BY <1>0, <1>5, RequestKinds DEF RemoveCommit, TypeOK
  <2>2. asset' = [asset EXCEPT ![r.asset] =
                    [asset[r.asset] EXCEPT !.register = "DELETED", !.custodian = None]]
    BY <1>5, <2>1 DEF RemoveCommit, TypeOK
  <2>3. /\ asset'[r.asset].custodian = None
        /\ asset'[r.asset].register = "DELETED"
        /\ \A b \in Assets \ {r.asset} : asset'[b] = asset[b]
    BY <2>1, <2>2 DEF TypeOK, AssetRows
  <2>4. QED
    BY <2>1, <2>3, OneRowReleased DEF Custody!Next
<1>6. CASE Abort(h)
  BY <1>6, CustodyUntouched DEF Abort
<1>7. QED
  BY <1>1, <1>2, <1>3, <1>4, <1>5, <1>6 DEF CommitStep

LEMMA NextCustody == TypeOK /\ [Next]_vars => [Custody!Next]_(Custody!custodyVars)
<1>1. ASSUME TypeOK, NEW h \in Handlers, ReadStep(h)
      PROVE  UNCHANGED Custody!custodyVars
  BY <1>1, ReadTypes, CustodyUntouched
<1>2. ASSUME UNCHANGED vars PROVE UNCHANGED Custody!custodyVars
  BY <1>2, CustodyUntouched DEF vars
<1>3. QED
  BY <1>1, <1>2, CommandCustody, CommitCustody DEF Next

\* The register implements AssetCustody: an asset passes from hand to hand only
\* through nobody's, and what has left the register is never handed out.
THEOREM ImplementsCustody == Spec => CustodyKept
<1>1. Init => Custody!Init
  BY DEF Init, Custody!Init
<1>2. QED
  BY <1>1, NextCustody, TypeCorrect, PTL DEF Spec, CustodyKept, Custody!Spec
-----------------------------------------------------------------------------
(***************************************************************************)
(* Requests one at a time (SerialSpec).  What a request has read is still  *)
(* so when it commits; the rest of the argument is per asset.              *)
(***************************************************************************)

\* Serial behaviours are behaviours: what holds however requests interleave
\* holds of them.
LEMMA SerialIsNext == [SerialNext]_vars => [Next]_vars
BY DEF SerialNext, Next

LEMMA SerialIsSpec == SerialSpec => Spec
BY SerialIsNext, PTL DEF SerialSpec, Spec

\* At most one request is between its Read and its Commit.
OneAtATime == \A g, h \in Handlers : request[g] # Idle /\ request[h] # Idle => g = h

\* What the Read of a request saw and its Commit relies on.
StillSo(h) ==
  /\ request[h].op = "complete" =>
       /\ repair[request[h].asset][request[h].repair] = "OPEN"
       /\ asset[request[h].asset].status = "MAINTENANCE"
  /\ request[h].op = "cancelled" => request[h].docs = OpenAssignments(request[h].asset)
ReadsStand == OneAtATime /\ \A h \in Handlers : StillSo(h)

\* A commit is of a request under way, and leaves the others alone.
LEMMA CommitRequests ==
  ASSUME TypeOK, NEW h \in Handlers, CommitStep(h)
  PROVE  /\ request[h] # Idle
         /\ \A g \in Handlers \ {h} : request'[g] = request[g]
<1>1. request[h] # Idle
  <2>1. Idle.op = "idle"
    BY DEF Idle
  <2>2. CASE Abort(h)
    BY <2>2 DEF Abort
  <2>3. CASE ~Abort(h)
    BY <2>1, <2>3 DEF CommitStep, TransferCommit, CompleteCommit, CorrectCommit, RemoveCancel,
                      RemoveCommit
  <2>4. QED
    BY <2>2, <2>3
<1>2. PICK r : request' = [request EXCEPT ![h] = r]
  BY DEF CommitStep, TransferCommit, CompleteCommit, CorrectCommit, RemoveCancel, RemoveCommit,
         Abort, Finish
<1>3. QED
  BY <1>1, <1>2 DEF TypeOK

\* A read begins one request, when it may begin; a commit ends or forwards its
\* own. Neither touches another's.
LEMMA SerialRequests ==
  ASSUME TypeOK, OneAtATime, [SerialNext]_vars, NEW h \in Handlers
  PROVE  \/ UNCHANGED vars
         \/ Command /\ request' = request /\ request[h] = Idle
         \/ ReadStep(h) /\ \A g \in Handlers \ {h} : request'[g] = Idle
         \/ CommitStep(h) /\ \A g \in Handlers \ {h} : request'[g] = Idle
         \/ request'[h] = Idle
<1>1. CASE UNCHANGED vars
  BY <1>1
<1>2. CASE Quiet /\ Command
  BY <1>2 DEF Quiet, Command, Create, Assign, AssignMany, Issue, ReturnAsset, OpenMaintenance
<1>3. ASSUME NEW g \in Handlers, Quiet, ReadStep(g)
      PROVE  \A f \in Handlers \ {g} : request'[f] = Idle
  <2>1. PICK r : Begin(g, r)
    BY <1>3 DEF ReadStep, TransferRead, CompleteRead, CorrectRead, RemoveRead
  <2>2. QED
    BY <1>3, <2>1 DEF Begin, Quiet, TypeOK
<1>4. ASSUME NEW g \in Handlers, CommitStep(g)
      PROVE  \A f \in Handlers \ {g} : request'[f] = Idle
  BY <1>4, CommitRequests DEF OneAtATime
<1>5. QED
  BY <1>1, <1>2, <1>3, <1>4 DEF SerialNext

LEMMA OneAtATimeStep == TypeOK /\ OneAtATime /\ [SerialNext]_vars => OneAtATime'
<1> SUFFICES ASSUME TypeOK, OneAtATime, [SerialNext]_vars, NEW g \in Handlers, NEW h \in Handlers,
                    request'[g] # Idle, request'[h] # Idle
             PROVE  g = h
  BY DEF OneAtATime
<1>1. CASE request' = request
  BY <1>1 DEF OneAtATime
<1>2. QED
  BY <1>1, SerialRequests DEF vars

\* What was read stays so until the commit, since nothing comes between.
LEMMA ReadsStandStep == TypeOK /\ ReadsStand /\ [SerialNext]_vars => ReadsStand'
<1> SUFFICES ASSUME TypeOK, ReadsStand, [SerialNext]_vars, NEW h \in Handlers
             PROVE  StillSo(h)'
  BY OneAtATimeStep DEF ReadsStand
<1>0. ASSUME request'[h] = Idle PROVE StillSo(h)'
  BY <1>0 DEF StillSo, Idle
<1>1. CASE UNCHANGED vars
  BY <1>1 DEF ReadsStand, StillSo, vars, OpenAssignments
<1>2. CASE ReadStep(h)
  <2>1. ASSUME NEW a \in Assets, NEW m \in Docs, NEW outcome \in MaintenanceOutcomes,
               CompleteRead(h, a, m, outcome)
        PROVE  StillSo(h)'
    <3>1. PICK place :
            request'[h] = [op |-> "complete", asset |-> a, repair |-> m, status |-> outcome,
                           place |-> place]
      BY <2>1 DEF CompleteRead, Begin, TypeOK
    <3>2. repair' = repair /\ asset' = asset /\ repair[a][m] = "OPEN"
          /\ asset[a].status = "MAINTENANCE"
      BY <2>1 DEF CompleteRead
    <3>3. QED
      BY <3>1, <3>2 DEF StillSo
  <2>2. ASSUME NEW a \in Assets, NEW to \in Placements, TransferRead(h, a, to) PROVE StillSo(h)'
    BY <2>2 DEF TransferRead, Begin, TypeOK, StillSo
  <2>3. ASSUME NEW a \in Assets, NEW status \in Corrections, CorrectRead(h, a, status)
        PROVE  StillSo(h)'
    BY <2>3 DEF CorrectRead, Begin, TypeOK, StillSo
  <2>4. ASSUME NEW a \in Assets, NEW byAdmin \in BOOLEAN, RemoveRead(h, a, byAdmin)
        PROVE  StillSo(h)'
    BY <2>4 DEF RemoveRead, Begin, TypeOK, StillSo
  <2>5. QED
    BY <1>2, <2>1, <2>2, <2>3, <2>4 DEF ReadStep
<1>3. CASE CommitStep(h)
  <2>1. CASE RemoveCancel(h)
    BY <2>1 DEF RemoveCancel, TypeOK, StillSo, OpenAssignments
  <2>2. CASE ~RemoveCancel(h)
    BY <1>0, <1>3, <2>2 DEF CommitStep, TransferCommit, CompleteCommit, CorrectCommit,
                            RemoveCommit, Abort, Finish, TypeOK
  <2>3. QED
    BY <2>1, <2>2
<1>4. QED
  BY <1>0, <1>1, <1>2, <1>3, SerialRequests DEF ReadsStand

LEMMA ReadsAlwaysStand == SerialSpec => []ReadsStand
<1>1. Init => ReadsStand
  BY DEF Init, ReadsStand, OneAtATime, StillSo, Idle
<1>2. QED
  BY <1>1, ReadsStandStep, TypeCorrect, SerialIsSpec, PTL DEF SerialSpec
-----------------------------------------------------------------------------
\* An asset leaves the register by the commit of a removal only, and then with
\* the assignments that removal cancels.
LEMMA Deleted ==
  ASSUME TypeOK, ReadsStand, [Next]_vars, NEW a \in Assets,
         asset'[a].register = "DELETED", asset[a].register # "DELETED"
  PROVE  OpenAssignments(a)' = {}
<1>1. CASE Command
  <2>1. ASSUME NEW b \in Assets, NEW w \in Warehouses, Create(b, w) PROVE FALSE
    BY <2>1 DEF Create, TypeOK
  <2>2. ASSUME NEW S \in SUBSET Assets, NEW p \in People, NEW l \in Locations,
               NEW t \in AssignmentTypes, Issue(S, p, l, t)
        PROVE  FALSE
    BY <2>2 DEF Issue, TypeOK, AssetRows
  <2>3. ASSUME NEW b \in Assets, NEW outcome \in ReturnOutcomes, NEW place \in Placements,
               ReturnAsset(b, outcome, place)
        PROVE  FALSE
    <3>1. asset' = [asset EXCEPT ![b] = [asset[b] EXCEPT !.status = outcome, !.custodian = None,
                                                         !.place = place]]
      BY <2>3 DEF ReturnAsset
    <3>2. QED
      BY <3>1 DEF TypeOK, AssetRows
  <2>4. ASSUME NEW b \in Assets, OpenMaintenance(b) PROVE FALSE
    BY <2>4 DEF OpenMaintenance, TypeOK, AssetRows
  <2>5. QED
    BY <1>1, <2>1, <2>2, <2>3, <2>4 DEF Command, Assign, AssignMany
<1>2. ASSUME NEW h \in Handlers, ReadStep(h) PROVE FALSE
  BY <1>2, ReadTypes
<1>3. ASSUME NEW h \in Handlers, CommitStep(h) PROVE OpenAssignments(a)' = {}
  <2> DEFINE r == request[h]
  <2>0. r \in Requests \cup {Idle} /\ asset[a] \in AssetRows
    BY DEF TypeOK
  <2>1. CASE RemoveCommit(h)
    <3>1. r \in CancelRequests /\ r.asset \in Assets
      BY <2>0, <2>1, RequestKinds DEF RemoveCommit
    <3>2. r.asset = a
      BY <2>1, <3>1 DEF RemoveCommit, TypeOK
    <3>3. r.docs = OpenAssignments(a)
      BY <2>1, <3>2 DEF ReadsStand, StillSo, RemoveCommit
    <3>4. assignment'[a] = [d \in Docs |-> IF d \in r.docs
                                           THEN [assignment[a][d] EXCEPT !.status = "CANCELLED"]
                                           ELSE assignment[a][d]]
      BY <2>1, <3>1, <3>2 DEF RemoveCommit, TypeOK
    <3>5. assignment[a] \in [Docs -> AssignmentRows]
      BY DEF TypeOK
    <3>6. QED
      BY <3>3, <3>4, <3>5 DEF OpenAssignments, AssignmentRows
  <2>2. CASE TransferCommit(h)
    <3>1. asset' = [asset EXCEPT ![r.asset] = [asset[r.asset] EXCEPT !.place = r.to]]
      BY <2>2 DEF TransferCommit
    <3>2. QED
      BY <2>0, <3>1 DEF TypeOK, AssetRows
  <2>3. CASE CompleteCommit(h)
    <3>1. asset' = [asset EXCEPT ![r.asset] =
                      [asset[r.asset] EXCEPT !.status = r.status, !.custodian = None,
                                             !.place = r.place]]
      BY <2>0, <2>3, RequestKinds DEF CompleteCommit, TypeOK
    <3>2. QED
      BY <2>0, <3>1 DEF TypeOK, AssetRows
  <2>4. CASE CorrectCommit(h)
    <3>1. asset' = [asset EXCEPT ![r.asset] = [asset[r.asset] EXCEPT !.status = r.status]]
      BY <2>4 DEF CorrectCommit
    <3>2. QED
      BY <2>0, <3>1 DEF TypeOK, AssetRows
  <2>5. CASE UNCHANGED asset
    BY <2>5
  <2>6. QED
    BY <1>3, <2>1, <2>2, <2>3, <2>4, <2>5 DEF CommitStep, RemoveCancel, Abort
<1>4. QED
  BY <1>1, <1>2, <1>3 DEF Next, vars

LEMMA DeletedStep ==
  TypeOK /\ ReadsStand /\ DeletedIsSettled /\ [SerialNext]_vars => DeletedIsSettled'
<1> SUFFICES ASSUME TypeOK, ReadsStand, DeletedIsSettled, [Next]_vars, NEW a \in Assets,
                    asset'[a].register = "DELETED"
             PROVE  OpenAssignments(a)' = {}
  BY SerialIsNext DEF DeletedIsSettled
<1>1. CASE asset[a].register = "DELETED"
  <2>1. OpenAssignments(a) = {} /\ ~Handed(a)
    BY <1>1 DEF DeletedIsSettled, Handed, Live
  <2>2. CASE Kept(a)
    BY <2>1, <2>2 DEF Kept, OpenAssignments
  <2>3. CASE Released(a)
    BY <2>1, <2>3 DEF Released, OpenAssignments
  <2>4. QED
    BY <2>1, <2>2, <2>3, StepByAsset
<1>2. QED
  BY <1>1, Deleted

\* With requests one at a time, nobody holds what has gone: an asset off the
\* register has no assignment running, whoever removed it, and whatever statuses
\* were corrected by hand.
THEOREM DeletedSettled == SerialSpec => []DeletedIsSettled
<1>1. Init => DeletedIsSettled
  BY DEF Init, DeletedIsSettled
<1>2. QED
  BY <1>1, DeletedStep, ReadsAlwaysStand, TypeCorrect, SerialIsSpec, PTL DEF SerialSpec
-----------------------------------------------------------------------------
(***************************************************************************)
(* What one step of a serial behaviour does to one asset, when statuses    *)
(* are not corrected by hand: nothing that status and documents tell,      *)
(* a handover, a settlement (registered, returned, sent to or back from    *)
(* repair), or its removal.                                                *)
(***************************************************************************)
Unmoved(a) ==
  /\ asset'[a].register = asset[a].register
  /\ asset'[a].status = asset[a].status
  /\ assignment'[a] = assignment[a]
  /\ repair'[a] = repair[a]

Issued(a) ==
  /\ asset[a].register = "LIVE" /\ asset'[a].register = "LIVE"
  /\ asset[a].status = "READY" /\ asset'[a].status \in HandedOut
  /\ repair'[a] = repair[a]

Settled(a) ==
  /\ asset[a].register = "ABSENT" \/ asset[a].status \notin {"RESERVED", "DISPOSED"}
  /\ asset'[a].register # "ABSENT"
  /\ asset'[a].register = "DELETED" => asset[a].register = "DELETED"
  /\ asset'[a].status \in {"READY", "MAINTENANCE", "BROKEN"}
  /\ asset'[a].register = "LIVE" => OpenAssignments(a)' = {}
  /\ asset'[a].status = "MAINTENANCE" <=> OpenRepairs(a)' # {}

Removed(a) ==
  /\ asset'[a].register = "DELETED"
  /\ asset'[a].status = asset[a].status
  /\ repair'[a] = repair[a]

\* An asset not yet registered has no paper.
AbsentIsBlank ==
  \A a \in Assets : asset[a].register = "ABSENT" =>
    asset[a].status = "READY" /\ OpenAssignments(a) = {}

SettledInv == /\ ReadsStand /\ OneOpenDocument
              /\ AbsentIsBlank /\ OnlyHandedOutIsOpen /\ RepairMatchesStatus

\* A command on idle requests; what each checks of the asset is what it needs.
LEMMA SerialCommandByAsset ==
  ASSUME TypeOK, SettledInv, Command, NEW b \in Assets
  PROVE  Unmoved(b) \/ Issued(b) \/ Settled(b)
<1> USE DEF TypeOK, SettledInv
<1>1. ASSUME NEW a \in Assets, NEW w \in Warehouses, Create(a, w)
      PROVE  Unmoved(b) \/ Settled(b)
  <2>1. CASE b = a
    <3>1. OpenAssignments(b) = {} /\ OpenRepairs(b) = {} /\ asset[b].register = "ABSENT"
      BY <1>1, <2>1 DEF Create, AbsentIsBlank, RepairMatchesStatus
    <3>2. asset'[b].register = "LIVE" /\ asset'[b].status = "READY"
      BY <1>1, <2>1 DEF Create
    <3>3. OpenAssignments(b)' = {} /\ OpenRepairs(b)' = {}
      BY <1>1, <3>1 DEF Create, OpenAssignments, OpenRepairs
    <3>4. QED
      BY <3>1, <3>2, <3>3 DEF Settled
  <2>2. CASE b # a
    BY <1>1, <2>2 DEF Create, Unmoved
  <2>3. QED
    BY <2>1, <2>2
<1>2. ASSUME NEW S \in SUBSET Assets, NEW p \in People, NEW l \in Locations,
             NEW t \in AssignmentTypes, Issue(S, p, l, t)
      PROVE  Unmoved(b) \/ Issued(b)
  <2>1. CASE b \in S
    <3>1. asset[b].register = "LIVE" /\ asset[b].status = "READY"
      BY <1>2, <2>1 DEF Issue, Live, Issuable
    <3>2. asset'[b] = [asset[b] EXCEPT !.status = AssignmentTarget(t), !.custodian = p,
                                       !.place = At(l)]
      BY <1>2, <2>1 DEF Issue
    <3>3. asset'[b].register = "LIVE" /\ asset'[b].status \in HandedOut
      <4>1. asset[b] \in AssetRows
        OBVIOUS
      <4>2. QED
        BY <3>1, <3>2, <4>1 DEF AssetRows, AssignmentTarget, HandedOut
    <3>4. QED
      BY <1>2, <3>1, <3>3 DEF Issue, Issued
  <2>2. CASE b \notin S
    BY <1>2, <2>2 DEF Issue, Unmoved
  <2>3. QED
    BY <2>1, <2>2
<1>3. ASSUME NEW a \in Assets, NEW outcome \in ReturnOutcomes, NEW place \in Placements,
             ReturnAsset(a, outcome, place)
      PROVE  Unmoved(b) \/ Settled(b)
  <2>1. PICK d \in OpenAssignments(a) :
          assignment' = [assignment EXCEPT ![a][d].status = "CLOSED"]
    BY <1>3 DEF ReturnAsset, CloseAssignment
  <2>2. asset' = [asset EXCEPT ![a] = [asset[a] EXCEPT !.status = outcome, !.custodian = None,
                                                       !.place = place]]
    BY <1>3 DEF ReturnAsset
  <2>3. \/ outcome = "MAINTENANCE" /\ \E m \in Docs : repair' = [repair EXCEPT ![a][m] = "OPEN"]
        \/ outcome # "MAINTENANCE" /\ UNCHANGED repair
    BY <1>3 DEF ReturnAsset, StartRepair
  <2>4. CASE b = a
    <3>1. /\ asset[b].register = "LIVE" /\ asset[b].status \in HandedOut
          /\ asset'[b].register = "LIVE" /\ asset'[b].status = outcome
      <4>1. asset[b] \in AssetRows
        OBVIOUS
      <4>2. asset'[b] = [asset[b] EXCEPT !.status = outcome, !.custodian = None, !.place = place]
        BY <2>2, <2>4
      <4>3. asset[b].register = "LIVE" /\ asset[b].status \in HandedOut
        BY <1>3, <2>4 DEF ReturnAsset, Live
      <4>4. QED
        BY <4>1, <4>2, <4>3 DEF AssetRows
    <3>2. OpenAssignments(b)' = {}
      <4>1. assignment[b] \in [Docs -> AssignmentRows] /\ d \in Docs
        BY <2>4 DEF OpenAssignments
      <4>2. assignment'[b] = [assignment[b] EXCEPT ![d] =
                                [assignment[b][d] EXCEPT !.status = "CLOSED"]]
        BY <2>1, <2>4
      <4>3. \A e \in Docs \ {d} : assignment[b][e].status # "OPEN"
        BY <2>4, <4>1 DEF OneOpenDocument, OpenAssignments
      <4>4. QED
        BY <4>1, <4>2, <4>3 DEF OpenAssignments, AssignmentRows
    <3>3. OpenRepairs(b) = {}
      BY <3>1 DEF RepairMatchesStatus, HandedOut
    <3>4. asset'[b].status = "MAINTENANCE" <=> OpenRepairs(b)' # {}
      <4>1. CASE outcome = "MAINTENANCE"
        <5>1. PICK m \in Docs : repair' = [repair EXCEPT ![a][m] = "OPEN"]
          BY <2>3, <4>1
        <5>2. m \in OpenRepairs(b)'
          BY <2>4, <5>1 DEF OpenRepairs
        <5>3. QED
          BY <3>1, <4>1, <5>2
      <4>2. CASE outcome # "MAINTENANCE"
        BY <2>3, <3>1, <3>3, <4>2 DEF OpenRepairs
      <4>3. QED
        BY <4>1, <4>2
    <3>5. QED
      BY <3>1, <3>2, <3>4 DEF Settled, HandedOut, ReturnOutcomes
  <2>5. CASE b # a
    BY <2>1, <2>2, <2>3, <2>5 DEF Unmoved
  <2>6. QED
    BY <2>4, <2>5
<1>4. ASSUME NEW a \in Assets, OpenMaintenance(a)
      PROVE  Unmoved(b) \/ Settled(b)
  <2>1. PICK m \in Docs : repair' = [repair EXCEPT ![a][m] = "OPEN"]
    BY <1>4 DEF OpenMaintenance, StartRepair
  <2>2. asset' = [asset EXCEPT ![a] = [asset[a] EXCEPT !.status = "MAINTENANCE",
                                                       !.custodian = None]]
    BY <1>4 DEF OpenMaintenance
  <2>3. CASE b = a
    <3>1. /\ asset[b].register = "LIVE" /\ asset[b].status \in Maintainable
          /\ asset'[b].register = "LIVE" /\ asset'[b].status = "MAINTENANCE"
      <4>1. asset[b] \in AssetRows
        OBVIOUS
      <4>2. asset'[b] = [asset[b] EXCEPT !.status = "MAINTENANCE", !.custodian = None]
        BY <2>2, <2>3
      <4>3. asset[b].register = "LIVE" /\ asset[b].status \in Maintainable
        BY <1>4, <2>3 DEF OpenMaintenance, Live
      <4>4. QED
        BY <4>1, <4>2, <4>3 DEF AssetRows
    <3>2. OpenAssignments(b)' = {}
      BY <1>4, <2>3 DEF OpenMaintenance, OpenAssignments
    <3>3. m \in OpenRepairs(b)'
      BY <2>1, <2>3 DEF OpenRepairs
    <3>4. QED
      BY <3>1, <3>2, <3>3 DEF Settled, Maintainable
  <2>4. CASE b # a
    BY <1>4, <2>1, <2>2, <2>4 DEF OpenMaintenance, Unmoved
  <2>5. QED
    BY <2>3, <2>4
<1>5. QED
  BY <1>1, <1>2, <1>3, <1>4 DEF Command, Assign, AssignMany

\* A commit finds what its request read, so a repair that ends ends the only one.
LEMMA SerialCommitByAsset ==
  ASSUME Corrections = {}, TypeOK, SettledInv, NEW h \in Handlers, CommitStep(h), NEW b \in Assets
  PROVE  Unmoved(b) \/ Settled(b) \/ Removed(b)
<1> DEFINE r == request[h]
<1>0. r \in Requests \cup {Idle} /\ asset[b] \in AssetRows
  BY DEF TypeOK
<1>1. CASE TransferCommit(h)
  <2>1. asset' = [asset EXCEPT ![r.asset] = [asset[r.asset] EXCEPT !.place = r.to]]
    BY <1>1 DEF TransferCommit
  <2>2. asset'[b].register = asset[b].register /\ asset'[b].status = asset[b].status
    BY <1>0, <2>1 DEF TypeOK, AssetRows
  <2>3. QED
    BY <1>1, <2>2 DEF TransferCommit, Unmoved
<1>2. CASE CompleteCommit(h)
  <2>1. r \in CompleteRequests /\ r.asset \in Assets /\ r.repair \in Docs
    BY <1>0, <1>2, RequestKinds DEF CompleteCommit, CompleteRequests
  <2>2. asset' = [asset EXCEPT ![r.asset] =
                    [asset[r.asset] EXCEPT !.status = r.status, !.custodian = None,
                                           !.place = r.place]]
    BY <1>2, <2>1 DEF CompleteCommit, TypeOK
  <2>3. CASE b = r.asset
    <3>1. repair[b][r.repair] = "OPEN" /\ asset[b].status = "MAINTENANCE"
      BY <1>2, <2>3 DEF CompleteCommit, SettledInv, ReadsStand, StillSo
    <3>2. /\ asset'[b].register = asset[b].register
          /\ asset'[b].status \in {"READY", "BROKEN"}
      <4>1. asset'[b] = [asset[b] EXCEPT !.status = r.status, !.custodian = None,
                                         !.place = r.place]
        BY <2>1, <2>2, <2>3 DEF TypeOK
      <4>2. r.status \in {"READY", "BROKEN"}
        BY <2>1 DEF CompleteRequests, MaintenanceOutcomes
      <4>3. QED
        BY <1>0, <4>1, <4>2 DEF AssetRows
    <3>3. OpenRepairs(b)' = {}
      <4>1. repair[b] \in [Docs -> RepairStates]
        BY DEF TypeOK
      <4>2. repair'[b] = [repair[b] EXCEPT ![r.repair] = "COMPLETED"]
        BY <1>2, <2>1, <2>3 DEF CompleteCommit, TypeOK
      <4>3. \A m \in Docs \ {r.repair} : repair[b][m] # "OPEN"
        BY <2>1, <3>1 DEF SettledInv, OneOpenDocument, OpenRepairs
      <4>4. QED
        BY <4>1, <4>2, <4>3 DEF OpenRepairs
    <3>4. asset[b].register = "LIVE" => OpenAssignments(b)' = {}
      BY <1>2, <3>1 DEF SettledInv, OnlyHandedOutIsOpen, Live, HandedOut, CompleteCommit,
                        OpenAssignments
    <3>5. asset[b].register # "ABSENT"
      BY <3>1 DEF SettledInv, AbsentIsBlank
    <3>6. QED
      BY <3>1, <3>2, <3>3, <3>4, <3>5 DEF Settled
  <2>4. CASE b # r.asset
    BY <1>2, <2>1, <2>2, <2>4 DEF CompleteCommit, Unmoved, TypeOK
  <2>5. QED
    BY <2>3, <2>4
<1>3. CASE CorrectCommit(h)
  <2>1. r \in CorrectRequests
    BY <1>0, <1>3, RequestKinds DEF CorrectCommit
  <2>2. QED
    BY <2>1 DEF CorrectRequests
<1>4. CASE RemoveCommit(h)
  <2>1. r.asset \in Assets
    BY <1>0, <1>4, RequestKinds DEF RemoveCommit, CancelRequests
  <2>2. CASE b = r.asset
    BY <1>0, <1>4, <2>1, <2>2 DEF RemoveCommit, Removed, TypeOK, AssetRows
  <2>3. CASE b # r.asset
    BY <1>4, <2>1, <2>3 DEF RemoveCommit, Unmoved, TypeOK
  <2>4. QED
    BY <2>2, <2>3
<1>5. CASE RemoveCancel(h) \/ Abort(h)
  BY <1>5 DEF RemoveCancel, Abort, Unmoved
<1>6. QED
  BY <1>1, <1>2, <1>3, <1>4, <1>5 DEF CommitStep

LEMMA SerialByAsset ==
  ASSUME Corrections = {}, TypeOK, SettledInv, [SerialNext]_vars, NEW b \in Assets
  PROVE  Unmoved(b) \/ Issued(b) \/ Settled(b) \/ Removed(b)
<1>1. ASSUME NEW h \in Handlers, ReadStep(h) PROVE Unmoved(b)
  BY <1>1, ReadTypes DEF Unmoved
<1>2. CASE UNCHANGED vars
  BY <1>2 DEF vars, Unmoved
<1>3. QED
  BY <1>1, <1>2, SerialCommandByAsset, SerialCommitByAsset DEF SerialNext

\* The invariant survives each of the four.
LEMMA SettledInvStep ==
  ASSUME Corrections = {}
  PROVE  TypeOK /\ SettledInv /\ [SerialNext]_vars /\ ReadsStand' /\ OneOpenDocument'
           => SettledInv'
<1> SUFFICES ASSUME TypeOK, SettledInv, [SerialNext]_vars, NEW a \in Assets
             PROVE  /\ asset'[a].register = "ABSENT" =>
                         asset'[a].status = "READY" /\ OpenAssignments(a)' = {}
                    /\ asset'[a].register = "LIVE" /\ asset'[a].status \notin HandedOut =>
                         OpenAssignments(a)' = {}
                    /\ asset'[a].status = "MAINTENANCE" <=> OpenRepairs(a)' # {}
  BY DEF SettledInv, AbsentIsBlank, OnlyHandedOutIsOpen, RepairMatchesStatus, Live
<1>1. /\ asset[a].register = "ABSENT" => asset[a].status = "READY" /\ OpenAssignments(a) = {}
      /\ asset[a].register = "LIVE" /\ asset[a].status \notin HandedOut => OpenAssignments(a) = {}
      /\ asset[a].status = "MAINTENANCE" <=> OpenRepairs(a) # {}
  BY DEF SettledInv, AbsentIsBlank, OnlyHandedOutIsOpen, RepairMatchesStatus, Live
<1>2. CASE Unmoved(a)
  BY <1>1, <1>2 DEF Unmoved, OpenAssignments, OpenRepairs
<1>3. CASE Issued(a)
  BY <1>1, <1>3 DEF Issued, OpenRepairs, HandedOut
<1>4. CASE Settled(a)
  BY <1>4 DEF Settled
<1>5. CASE Removed(a)
  BY <1>1, <1>5 DEF Removed, OpenRepairs
<1>6. QED
  BY <1>2, <1>3, <1>4, <1>5, SerialByAsset

LEMMA SettledAlways ==
  ASSUME Corrections = {}
  PROVE  SerialSpec => []SettledInv
<1>1. Init => AbsentIsBlank /\ OnlyHandedOutIsOpen /\ RepairMatchesStatus
  BY DEF Init, AbsentIsBlank, OnlyHandedOutIsOpen, RepairMatchesStatus, OpenAssignments,
         OpenRepairs, UnusedNumber
<1>2. ReadsStand /\ OneOpenDocument /\ AbsentIsBlank /\ OnlyHandedOutIsOpen
        /\ RepairMatchesStatus => SettledInv
  BY DEF SettledInv
<1>3. QED
  BY <1>1, <1>2, SettledInvStep, ReadsAlwaysStand, OneOpenDocumentAlways, TypeCorrect,
     SerialIsSpec, PTL DEF SerialSpec

\* DATABASE_MODEL.md invariant 2, with requests one at a time and no status set
\* by hand: an asset that is not in use or on loan has no open assignment.
THEOREM OnlyHandedOutOpen ==
  ASSUME Corrections = {}
  PROVE  SerialSpec => []OnlyHandedOutIsOpen
<1>1. SettledInv => OnlyHandedOutIsOpen
  BY DEF SettledInv
<1>2. QED
  BY <1>1, SettledAlways, PTL

\* Likewise, the status says MAINTENANCE exactly while a repair is open.
THEOREM RepairsMatchStatus ==
  ASSUME Corrections = {}
  PROVE  SerialSpec => []RepairMatchesStatus
<1>1. SettledInv => RepairMatchesStatus
  BY DEF SettledInv
<1>2. QED
  BY <1>1, SettledAlways, PTL
-----------------------------------------------------------------------------
(***************************************************************************)
(* What the register's steps leave to others: the statuses only disposal   *)
(* cases give, and the requests that are not theirs.                       *)
(***************************************************************************)
SetAside == {"RESERVED", "DISPOSED"}

\* A request begins with a repair to end only on an asset that is in MAINTENANCE.
LEMMA CompletionsRead ==
  ASSUME TypeOK, [Next]_vars, NEW h \in Handlers,
         request'[h].op = "complete", request'[h] # request[h]
  PROVE  asset' = asset /\ asset[request'[h].asset].status = "MAINTENANCE"
<1>1. CASE UNCHANGED request
  BY <1>1
<1>2. ASSUME NEW g \in Handlers, CommitStep(g) PROVE FALSE
  <2>1. PICK r : request' = [request EXCEPT ![g] = r] /\ r.op # "complete"
    <3>1. Idle.op # "complete"
      BY DEF Idle
    <3>2. QED
      BY <1>2, <3>1 DEF CommitStep, TransferCommit, CompleteCommit, CorrectCommit, RemoveCancel,
                        RemoveCommit, Abort, Finish
  <2>2. QED
    BY <2>1 DEF TypeOK
<1>3. ASSUME NEW g \in Handlers, ReadStep(g)
      PROVE  asset' = asset /\ asset[request'[h].asset].status = "MAINTENANCE"
  <2>1. asset' = asset
    BY <1>3, ReadTypes
  <2>2. ASSUME NEW r, Begin(g, r) PROVE g = h /\ request'[h] = r
    BY <2>2 DEF Begin, TypeOK
  <2>3. ASSUME NEW a \in Assets, NEW m \in Docs, NEW outcome \in MaintenanceOutcomes,
               CompleteRead(g, a, m, outcome)
        PROVE  asset[request'[h].asset].status = "MAINTENANCE"
    BY <2>2, <2>3 DEF CompleteRead
  <2>4. ASSUME NEW a \in Assets, NEW to \in Placements, TransferRead(g, a, to) PROVE FALSE
    BY <2>2, <2>4 DEF TransferRead
  <2>5. ASSUME NEW a \in Assets, NEW status \in Corrections, CorrectRead(g, a, status) PROVE FALSE
    BY <2>2, <2>5 DEF CorrectRead
  <2>6. ASSUME NEW a \in Assets, NEW byAdmin \in BOOLEAN, RemoveRead(g, a, byAdmin) PROVE FALSE
    BY <2>2, <2>6 DEF RemoveRead
  <2>7. QED
    BY <1>3, <2>1, <2>3, <2>4, <2>5, <2>6 DEF ReadStep
<1>4. CASE Command \/ UNCHANGED vars
  BY <1>1, <1>4 DEF Command, Create, Assign, AssignMany, Issue, ReturnAsset, OpenMaintenance, vars
<1>5. QED
  BY <1>2, <1>3, <1>4 DEF Next

\* Any step of the register changes one request at most.
LEMMA OneRequestChanges ==
  ASSUME TypeOK, [Next]_vars, NEW g \in Handlers, NEW h \in Handlers,
         request'[g] # request[g], request'[h] # request[h]
  PROVE  g = h
<1>1. CASE UNCHANGED request
  BY <1>1
<1>2. ASSUME NEW f \in Handlers, CommitStep(f) PROVE g = h
  BY <1>2, CommitRequests
<1>3. ASSUME NEW f \in Handlers, ReadStep(f) PROVE g = h
  <2>1. PICK r : Begin(f, r)
    BY <1>3 DEF ReadStep, TransferRead, CompleteRead, CorrectRead, RemoveRead
  <2>2. QED
    BY <2>1 DEF Begin, TypeOK
<1>4. CASE Command \/ UNCHANGED vars
  BY <1>1, <1>4 DEF Command, Create, Assign, AssignMany, Issue, ReturnAsset, OpenMaintenance, vars
<1>5. QED
  BY <1>2, <1>3, <1>4 DEF Next

\* The register neither sets an asset aside nor takes it back, as long as the
\* repairs under way are of assets in MAINTENANCE and no status is set by hand.
LEMMA SetAsideStep ==
  ASSUME Corrections = {}, TypeOK, [Next]_vars, NEW b \in Assets,
         \A h \in Handlers : request[h].op = "complete" =>
           asset[request[h].asset].status = "MAINTENANCE",
         asset[b].register = "ABSENT" => asset[b].status = "READY"
  PROVE  /\ asset'[b].status # asset[b].status =>
              asset[b].status \notin SetAside /\ asset'[b].status \notin SetAside
         /\ asset'[b].register = "ABSENT" =>
              asset[b].register = "ABSENT" /\ asset'[b].status = asset[b].status
<1> DEFINE Goal == /\ asset'[b].status # asset[b].status =>
                        asset[b].status \notin SetAside /\ asset'[b].status \notin SetAside
                   /\ asset'[b].register = "ABSENT" =>
                        asset[b].register = "ABSENT" /\ asset'[b].status = asset[b].status
<1>0. asset[b] \in AssetRows /\ asset \in [Assets -> AssetRows]
  BY DEF TypeOK
<1>1. ASSUME asset'[b].register = asset[b].register, asset'[b].status = asset[b].status
      PROVE  Goal
  BY <1>1
<1>2. CASE Command
  <2>1. ASSUME NEW a \in Assets, NEW w \in Warehouses, Create(a, w) PROVE Goal
    BY <1>0, <2>1 DEF Create, SetAside
  <2>2. ASSUME NEW S \in SUBSET Assets, NEW p \in People, NEW l \in Locations,
               NEW t \in AssignmentTypes, Issue(S, p, l, t)
        PROVE  Goal
    <3>1. CASE b \in S
      <4>1. asset'[b] = [asset[b] EXCEPT !.status = AssignmentTarget(t), !.custodian = p,
                                         !.place = At(l)]
        BY <2>2, <3>1 DEF Issue
      <4>2. asset[b].status = "READY" /\ asset[b].register = "LIVE"
        BY <2>2, <3>1 DEF Issue, Live, Issuable
      <4>3. QED
        BY <1>0, <4>1, <4>2 DEF AssetRows, AssignmentTarget, SetAside
    <3>2. CASE b \notin S
      BY <1>1, <2>2, <3>2 DEF Issue
    <3>3. QED
      BY <3>1, <3>2
  <2>3. ASSUME NEW a \in Assets, NEW outcome \in ReturnOutcomes, NEW place \in Placements,
               ReturnAsset(a, outcome, place)
        PROVE  Goal
    <3>1. asset' = [asset EXCEPT ![a] = [asset[a] EXCEPT !.status = outcome, !.custodian = None,
                                                         !.place = place]]
      BY <2>3 DEF ReturnAsset
    <3>2. asset[a].register = "LIVE" /\ asset[a].status \in HandedOut
      BY <2>3 DEF ReturnAsset, Live
    <3>3. QED
      BY <1>0, <3>1, <3>2 DEF AssetRows, HandedOut, ReturnOutcomes, SetAside
  <2>4. ASSUME NEW a \in Assets, OpenMaintenance(a) PROVE Goal
    <3>1. asset' = [asset EXCEPT ![a] = [asset[a] EXCEPT !.status = "MAINTENANCE",
                                                         !.custodian = None]]
      BY <2>4 DEF OpenMaintenance
    <3>2. asset[a].register = "LIVE" /\ asset[a].status \in Maintainable
      BY <2>4 DEF OpenMaintenance, Live
    <3>3. QED
      BY <1>0, <3>1, <3>2 DEF AssetRows, Maintainable, SetAside
  <2>5. QED
    BY <1>2, <2>1, <2>2, <2>3, <2>4 DEF Command, Assign, AssignMany
<1>3. ASSUME NEW h \in Handlers, ReadStep(h) PROVE Goal
  BY <1>1, <1>3, ReadTypes
<1>4. ASSUME NEW h \in Handlers, CommitStep(h) PROVE Goal
  <2> DEFINE r == request[h]
  <2>0. r \in Requests \cup {Idle}
    BY DEF TypeOK
  <2>1. CASE TransferCommit(h)
    <3>1. asset' = [asset EXCEPT ![r.asset] = [asset[r.asset] EXCEPT !.place = r.to]]
      BY <2>1 DEF TransferCommit
    <3>2. QED
      BY <1>0, <1>1, <3>1 DEF AssetRows
  <2>2. CASE CompleteCommit(h)
    <3>1. r.status \notin SetAside /\ r.asset \in Assets
      BY <2>0, <2>2, RequestKinds
      DEF CompleteCommit, CompleteRequests, MaintenanceOutcomes, SetAside
    <3>2. asset' = [asset EXCEPT ![r.asset] =
                      [asset[r.asset] EXCEPT !.status = r.status, !.custodian = None,
                                             !.place = r.place]]
      BY <1>0, <2>2, <3>1 DEF CompleteCommit
    <3>3. asset[r.asset].status = "MAINTENANCE"
      BY <2>2 DEF CompleteCommit
    <3>4. QED
      BY <1>0, <3>1, <3>2, <3>3 DEF AssetRows, SetAside
  <2>3. CASE CorrectCommit(h)
    BY <2>0, <2>3, RequestKinds DEF CorrectCommit, CorrectRequests
  <2>4. CASE RemoveCommit(h)
    <3>1. asset' = [asset EXCEPT ![r.asset] =
                      [asset[r.asset] EXCEPT !.register = "DELETED", !.custodian = None]]
      BY <1>0, <2>0, <2>4, RequestKinds DEF RemoveCommit
    <3>2. QED
      BY <1>0, <3>1 DEF AssetRows
  <2>5. CASE RemoveCancel(h) \/ Abort(h)
    BY <1>1, <2>5 DEF RemoveCancel, Abort
  <2>6. QED
    BY <1>4, <2>1, <2>2, <2>3, <2>4, <2>5 DEF CommitStep
<1>5. CASE UNCHANGED vars
  BY <1>1, <1>5 DEF vars
<1>6. QED
  BY <1>2, <1>3, <1>4, <1>5 DEF Next
=============================================================================
