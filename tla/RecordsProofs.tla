--------------------------- MODULE RecordsProofs ----------------------------
(***************************************************************************)
(* Proofs about Registers: inventory counts, import batches, incidents,    *)
(* compliance records, risks and accounts, for every value of their        *)
(* constants.  Each theorem is about one of them.                          *)
(***************************************************************************)
EXTENDS Registers, TLAPS
-----------------------------------------------------------------------------
(***************************************************************************)
(* Inventory counts.  Requests decide on what they have read, and a commit *)
(* dooms those that it overtakes.                                          *)
(***************************************************************************)
\* What a commit leaves of the other requests' reads.
LEMMA FinishType ==
  ASSUME job \in [Clerks -> Jobs], NEW k \in Clerks, NEW hit \in SUBSET Doing({"scan", "close"})
  PROVE  Finish(k, hit) \in [Clerks -> Jobs]
<1> SUFFICES ASSUME NEW c \in hit PROVE [job[c] EXCEPT !.doomed = TRUE] \in Jobs
  BY DEF Finish, Doing, Jobs, Idle
<1>1. c \in Clerks /\ job[c] \in Jobs /\ job[c].op \in {"scan", "close"}
  BY DEF Doing
<1>2. CASE job[c].op = "scan"
  <2>1. job[c] \in [op : {"scan"}, asset : Assets, row : Items, doomed : BOOLEAN]
    BY <1>1, <1>2 DEF Jobs, Idle
  <2> QED BY <2>1 DEF Jobs
<1>3. CASE job[c].op = "close"
  <2>1. job[c] \in [op : {"close"}, rows : SUBSET Assets, doomed : BOOLEAN]
    BY <1>1, <1>3 DEF Jobs, Idle
  <2> QED BY <2>1 DEF Jobs
<1> QED BY <1>1, <1>2, <1>3

LEMMA ScannedType ==
  ASSUME TypeOK, NEW a \in Assets, NEW found \in BOOLEAN,
         NEW l \in Locations \cup {None}, NEW p \in People \cup {None}
  PROVE  Scanned(a, found, l, p) \in Items
<1>1. item[a].expected \in Places
  BY DEF TypeOK, Items, NoItem, Nowhere, Places
<1>2. Observed(a, l, p) \in Places /\ Nowhere \in Places
  <2>1. book[a] \in Places
    BY DEF TypeOK
  <2> QED BY <2>1 DEF Observed, Places, Nowhere
<1>3. \A o : inventoryResult(item[a], o) \in Results
  BY DEF inventoryResult, Results
<1> QED BY <1>1, <1>2, <1>3 DEF Scanned, Items, Results

LEMMA StepType == ASSUME TypeOK, [Next]_vars PROVE TypeOK'
<1> USE DEF TypeOK
<1>1. CASE Create
  <2>1. \A a \in Assets : book[a] \in Places /\ Nowhere \in Places
    BY DEF Places, Nowhere
  <2> QED BY <1>1, <2>1 DEF Create, Items, Results
<1>2. ASSUME NEW a \in Assets, Move(a) PROVE TypeOK'
  BY <1>2 DEF Move
<1>3. ASSUME NEW k \in Clerks, NEW a \in Assets, ScanRead(k, a) PROVE TypeOK'
  <2>1. PICK found \in BOOLEAN, l \in Locations \cup {None}, p \in People \cup {None} :
          job' = [job EXCEPT ![k] = [op |-> "scan", asset |-> a, doomed |-> FALSE,
                                     row |-> Scanned(a, found, l, p)]]
    BY <1>3 DEF ScanRead
  <2>2. [op |-> "scan", asset |-> a, doomed |-> FALSE, row |-> Scanned(a, found, l, p)] \in Jobs
    BY ScannedType DEF Jobs
  <2> QED BY <1>3, <2>1, <2>2 DEF ScanRead
<1>4. ASSUME NEW k \in Clerks, ScanCommit(k) PROVE TypeOK'
  <2>1. job[k] \in [op : {"scan"}, asset : Assets, row : Items, doomed : BOOLEAN]
    BY <1>4 DEF ScanCommit, Jobs, Idle
  <2>2. Finish(k, {}) \in [Clerks -> Jobs]
    BY FinishType
  <2>3. Finish(k, ScansOf(job[k].asset) \cup Doing({"close"})) \in [Clerks -> Jobs]
    BY FinishType DEF ScansOf, Doing
  <2> QED BY <1>4, <2>1, <2>2, <2>3 DEF ScanCommit
<1>5. ASSUME NEW k \in Clerks, CloseRead(k) PROVE TypeOK'
  BY <1>5 DEF CloseRead, Jobs, Present
<1>6. ASSUME NEW k \in Clerks, CloseCommit(k) PROVE TypeOK'
  <2>1. Finish(k, {}) \in [Clerks -> Jobs] /\ Finish(k, Doing({"scan", "close"})) \in [Clerks -> Jobs]
    BY FinishType DEF Doing
  <2>2. \A a \in Assets : item[a].result = "PENDING" => [item[a] EXCEPT !.result = "MISSING"] \in Items
    BY DEF Items, NoItem, Results
  <2> QED BY <1>6, <2>1, <2>2 DEF CloseCommit
<1>7. ASSUME NEW k \in Clerks, CancelRead(k) \/ RemoveRead(k) PROVE TypeOK'
  BY <1>7 DEF CancelRead, RemoveRead, Jobs
<1>8. ASSUME NEW k \in Clerks, CancelCommit(k) PROVE TypeOK'
  <2>1. Finish(k, Doing({"close"})) \in [Clerks -> Jobs]
    BY FinishType DEF Doing
  <2> QED BY <1>8, <2>1 DEF CancelCommit
<1>9. ASSUME NEW k \in Clerks, RemoveCommit(k) PROVE TypeOK'
  <2>1. Finish(k, Doing({"scan", "close"})) \in [Clerks -> Jobs]
    BY FinishType
  <2> QED BY <1>9, <2>1 DEF RemoveCommit, Items
<1>10. CASE UNCHANGED vars
  BY <1>10 DEF vars
<1> QED BY <1>1, <1>2, <1>3, <1>4, <1>5, <1>6, <1>7, <1>8, <1>9, <1>10 DEF Next

\* Every variable keeps its type (inventory.service.ts).
THEOREM CountTypeCorrect == Spec => []TypeOK
<1>1. Init => TypeOK
  BY DEF Init, TypeOK, Items, Jobs, Places
<1>2. TypeOK /\ [Next]_vars => TypeOK'
  BY StepType
<1> QED BY <1>1, <1>2, PTL DEF Spec
-----------------------------------------------------------------------------
(***************************************************************************)
(* The inductive invariant.  No event is written before the count closes;  *)
(* a close that may still commit has read the items as they are; a scan    *)
(* that may still commit is of a count that nobody has closed.             *)
(***************************************************************************)
Unclosed   == session \in {"none", "OPEN"} => \A a \in Assets : events[a] = 0
CloseFresh == \A k \in Clerks : job[k].op = "close" /\ ~job[k].doomed =>
                                   session = "OPEN" /\ job[k].rows = Present
ScanInTime == \A k \in Clerks : job[k].op = "scan" /\ ~job[k].doomed =>
                                   session \in {"OPEN", "CANCELLED"}
CountInv == TypeOK /\ Unclosed /\ CloseFresh /\ ScanInTime /\ EachItemCountedOnce

\* A commit leaves the reads of others doomed, or as they were and unhit.
LEMMA FinishLeaves ==
  ASSUME job \in [Clerks -> Jobs], NEW k \in Clerks, NEW hit,
         job' = Finish(k, hit), NEW c \in Clerks, job'[c].op \in {"scan", "close"},
         ~job'[c].doomed, hit \subseteq Doing({"scan", "close"})
  PROVE  c # k /\ c \notin hit /\ job'[c] = job[c]
<1>1. c # k
  BY DEF Finish, Idle
<1>2. CASE c \in hit
  <2>1. job'[c] = [job[c] EXCEPT !.doomed = TRUE] /\ job[c].op \in {"scan", "close"} /\ job[c] \in Jobs
    BY <1>1, <1>2 DEF Finish, Doing
  <2>2. job[c] \in [op : {"scan"}, asset : Assets, row : Items, doomed : BOOLEAN]
              \cup [op : {"close"}, rows : SUBSET Assets, doomed : BOOLEAN]
    BY <2>1 DEF Jobs, Idle
  <2> QED BY <2>1, <2>2
<1> QED BY <1>1, <1>2 DEF Finish

LEMMA StepCount == ASSUME CountInv, [Next]_vars PROVE CountInv'
<1> USE DEF CountInv
<1>0. TypeOK'
  BY StepType
<1> SUFFICES Unclosed' /\ CloseFresh' /\ ScanInTime' /\ EachItemCountedOnce'
  BY <1>0
<1>j. job \in [Clerks -> Jobs]
  BY DEF TypeOK
<1>1. CASE Create
  BY <1>1 DEF Create, Unclosed, CloseFresh, ScanInTime, EachItemCountedOnce
<1>2. ASSUME NEW a \in Assets,
             Move(a) PROVE Unclosed' /\ CloseFresh' /\ ScanInTime' /\ EachItemCountedOnce'
  BY <1>2 DEF Move, Unclosed, CloseFresh, ScanInTime, EachItemCountedOnce, Present
<1>3. ASSUME NEW k \in Clerks, NEW a \in Assets, ScanRead(k, a)
      PROVE  Unclosed' /\ CloseFresh' /\ ScanInTime' /\ EachItemCountedOnce'
  <2>1. UNCHANGED <<session, item, book, events>> /\ session = "OPEN"
        /\ job'[k].op = "scan" /\ \A c \in Clerks \ {k} : job'[c] = job[c]
    BY <1>3, <1>j DEF ScanRead
  <2> QED BY <2>1 DEF Unclosed, CloseFresh, ScanInTime, EachItemCountedOnce, Present
<1>4. ASSUME NEW k \in Clerks, ScanCommit(k)
      PROVE  Unclosed' /\ CloseFresh' /\ ScanInTime' /\ EachItemCountedOnce'
  <2> DEFINE hit == IF job[k].doomed THEN {} ELSE ScansOf(job[k].asset) \cup Doing({"close"})
  <2>1. job' = Finish(k, hit) /\ hit \subseteq Doing({"scan", "close"}) /\ UNCHANGED <<session, events>>
    BY <1>4 DEF ScanCommit, ScansOf, Doing
  <2>2. \A c \in Clerks : job'[c].op \in {"scan", "close"} /\ ~job'[c].doomed =>
                            c \notin hit /\ job'[c] = job[c]
    <3> HIDE DEF hit
    <3> QED BY <2>1, <1>j, FinishLeaves
  <2>3. CASE job[k].doomed
    BY <1>4, <2>1, <2>2, <2>3 DEF ScanCommit, Unclosed, CloseFresh, ScanInTime,
           EachItemCountedOnce, Present
  <2>4. CASE ~job[k].doomed
    <3>1. session # "CLOSED"
      BY <1>4, <2>4 DEF ScanCommit, ScanInTime
    <3>2. \A c \in Clerks : job[c].op = "close" => c \in hit
      BY <2>4 DEF Doing
    <3> QED BY <2>1, <2>2, <3>1, <3>2 DEF Unclosed, CloseFresh, ScanInTime, EachItemCountedOnce
  <2> QED BY <2>3, <2>4
<1>5. ASSUME NEW k \in Clerks, CloseRead(k)
      PROVE  Unclosed' /\ CloseFresh' /\ ScanInTime' /\ EachItemCountedOnce'
  <2>1. UNCHANGED <<session, item, book, events>> /\ session = "OPEN"
        /\ job'[k].op = "close" /\ job'[k].rows = Present
        /\ \A c \in Clerks \ {k} : job'[c] = job[c]
    BY <1>5, <1>j DEF CloseRead
  <2> QED BY <2>1 DEF Unclosed, CloseFresh, ScanInTime, EachItemCountedOnce, Present
<1>6. ASSUME NEW k \in Clerks, CloseCommit(k)
      PROVE  Unclosed' /\ CloseFresh' /\ ScanInTime' /\ EachItemCountedOnce'
  <2> DEFINE hit == IF job[k].doomed THEN {} ELSE Doing({"scan", "close"})
  <2>1. job' = Finish(k, hit) /\ hit \subseteq Doing({"scan", "close"})
    BY <1>6 DEF CloseCommit
  <2>2. \A c \in Clerks : job'[c].op \in {"scan", "close"} /\ ~job'[c].doomed =>
                            c \notin hit /\ job'[c] = job[c]
    <3> HIDE DEF hit
    <3> QED BY <2>1, <1>j, FinishLeaves
  <2>3. CASE job[k].doomed
    BY <1>6, <2>2, <2>3 DEF CloseCommit, Unclosed, CloseFresh, ScanInTime, EachItemCountedOnce,
           Present
  <2>4. CASE ~job[k].doomed
    <3>1. session = "OPEN" /\ job[k].rows = Present /\ \A a \in Assets : events[a] = 0
      BY <1>6, <2>4 DEF CloseCommit, CloseFresh, Unclosed
    <3>2. /\ session' = "CLOSED"
          /\ item' = [a \in Assets |-> IF item[a].result = "PENDING"
                       THEN [item[a] EXCEPT !.result = "MISSING"] ELSE item[a]]
          /\ events' = [a \in Assets |-> IF a \in Present THEN events[a] + 1 ELSE events[a]]
      BY <1>6, <2>4, <3>1 DEF CloseCommit
    <3>3. \A a \in Assets : item'[a].result # "PENDING" /\ (a \in Present' <=> a \in Present)
      BY <3>2 DEF Present, NoItem, TypeOK, Items, Results
    <3>4. \A c \in Clerks : job'[c].op \in {"scan", "close"} => job'[c].doomed
      BY <2>2, <2>4 DEF Doing
    <3>5. EachItemCountedOnce'
      BY <3>1, <3>2, <3>3 DEF EachItemCountedOnce
    <3> QED BY <3>2, <3>4, <3>5 DEF Unclosed, CloseFresh, ScanInTime
  <2> QED BY <2>3, <2>4
<1>7. ASSUME NEW k \in Clerks, CancelRead(k) \/ RemoveRead(k)
      PROVE  Unclosed' /\ CloseFresh' /\ ScanInTime' /\ EachItemCountedOnce'
  <2>1. UNCHANGED <<session, item, book, events>>
        /\ job'[k].op \in {"cancel", "remove"} /\ \A c \in Clerks \ {k} : job'[c] = job[c]
    BY <1>7, <1>j DEF CancelRead, RemoveRead
  <2> QED BY <2>1 DEF Unclosed, CloseFresh, ScanInTime, EachItemCountedOnce, Present
<1>8. ASSUME NEW k \in Clerks, CancelCommit(k)
      PROVE  Unclosed' /\ CloseFresh' /\ ScanInTime' /\ EachItemCountedOnce'
  <2>1. \A c \in Clerks : job'[c].op \in {"scan", "close"} /\ ~job'[c].doomed =>
                            c \notin Doing({"close"}) /\ job'[c] = job[c]
    <3>1. Doing({"close"}) \subseteq Doing({"scan", "close"})
      BY DEF Doing
    <3> QED BY <1>8, <1>j, <3>1, FinishLeaves DEF CancelCommit
  <2>2. \A c \in Clerks : job'[c].op = "close" => job'[c].doomed
    BY <2>1 DEF Doing
  <2> QED BY <1>8, <2>1, <2>2 DEF CancelCommit, Unclosed, CloseFresh, ScanInTime,
                 EachItemCountedOnce, Present
<1>9. ASSUME NEW k \in Clerks, RemoveCommit(k)
      PROVE  Unclosed' /\ CloseFresh' /\ ScanInTime' /\ EachItemCountedOnce'
  <2>1. \A c \in Clerks : job'[c].op \in {"scan", "close"} /\ ~job'[c].doomed =>
                            c \notin Doing({"scan", "close"}) /\ job'[c] = job[c]
    BY <1>9, <1>j, FinishLeaves DEF RemoveCommit
  <2>2. \A c \in Clerks : job'[c].op \in {"scan", "close"} => job'[c].doomed
    BY <2>1 DEF Doing
  <2> QED BY <1>9, <2>2 DEF RemoveCommit, Unclosed, CloseFresh, ScanInTime, EachItemCountedOnce
<1>10. CASE UNCHANGED vars
  BY <1>10 DEF vars, Unclosed, CloseFresh, ScanInTime, EachItemCountedOnce, Present
<1> QED BY <1>1, <1>2, <1>3, <1>4, <1>5, <1>6, <1>7, <1>8, <1>9, <1>10 DEF Next

LEMMA CountInvariant == Spec => []CountInv
<1>1. Init => CountInv
  <2>1. Init => TypeOK
    BY DEF Init, TypeOK, Items, Jobs, Places
  <2> QED BY <2>1 DEF Init, CountInv, Unclosed, CloseFresh, ScanInTime, EachItemCountedOnce, Idle
<1>2. CountInv /\ [Next]_vars => CountInv'
  BY StepCount
<1> QED BY <1>1, <1>2, PTL DEF Spec

\* src/docs/INVENTORY_IMPORT_API.md:16, for every scope, register and number
\* of clerks: a closed count has settled each item and recorded it once.
THEOREM EachItemIsCountedOnce == Spec => []EachItemCountedOnce
<1>1. CountInv => EachItemCountedOnce
  BY DEF CountInv
<1> QED BY <1>1, CountInvariant, PTL

\* A scan that was under way when the count closed changes nothing of it.
THEOREM AClosedCountStands == Spec => ClosedCountStands
<1> DEFINE Stands == session = "CLOSED" => item' = item \/ session' = "deleted"
<1>1. CountInv /\ [Next]_vars => [Stands]_vars
  <2> SUFFICES ASSUME CountInv, Next, session = "CLOSED" PROVE Stands
    BY DEF vars
  <2>1. ASSUME NEW k \in Clerks, ScanCommit(k) \/ CloseCommit(k) PROVE UNCHANGED item
    BY <2>1 DEF ScanCommit, CloseCommit, CountInv, CloseFresh, ScanInTime
  <2> QED BY <2>1 DEF Next, Create, Move, ScanRead, CloseRead, CancelRead, CancelCommit,
                      RemoveRead, RemoveCommit
<1> QED BY <1>1, CountInvariant, PTL DEF Spec, ClosedCountStands
-----------------------------------------------------------------------------
(***************************************************************************)
(* Import batches.  An open commit or rollback that nothing has doomed     *)
(* still finds its batch as it read it, and a batch is staged by one       *)
(* request.                                                                *)
(***************************************************************************)
RowsInBatch == \A b \in Batches, t \in Tags : Import!Live(<<b, t>>) => t \in RowsOf[b]

MadeOnce == \A b \in Batches : \A t \in RowsOf[b] :
  /\ asset[<<b, t>>].made = (IF batch[b].status \in {"COMMITTED", "ROLLED_BACK"} THEN 1 ELSE 0)
  /\ batch[b].status = "ROLLED_BACK" => ~Import!Live(<<b, t>>)

ReadStands(j) ==
  /\ j.op = "stage" => batch[j.batch].status = "none"
  /\ j.op = "commit" /\ ~j.doomed => batch[j.batch].status = "STAGED"
  /\ j.op = "rollback" /\ ~j.doomed =>
       /\ batch[j.batch].status = "COMMITTED"
       /\ j.clean => \A t \in RowsOf[j.batch] :
                       /\ Import!Live(<<j.batch, t>>)
                       /\ asset[<<j.batch, t>>].work \cap Import!Looked = {}

StagedByOne == \A j, k \in Clerks :
  importing[j].op = "stage" /\ importing[k].op = "stage" /\ importing[j].batch = importing[k].batch => j = k

ImportInv == /\ Import!TypeOK
             /\ RowsInBatch
             /\ MadeOnce
             /\ \A k \in Clerks : ReadStands(importing[k])
             /\ StagedByOne

LEMMA DoomedJob ==
  ASSUME NEW j \in Import!Jobs, j.op \in {"commit", "rollback"},
         NEW i, i = [j EXCEPT !.doomed = TRUE]
  PROVE  i \in Import!Jobs /\ i.op = j.op /\ i.doomed = TRUE
<1>1. CASE j \in [op : {"commit"}, batch : Batches, doomed : BOOLEAN]
  BY <1>1 DEF Import!Jobs
<1>2. CASE j \in [op : {"rollback"}, batch : Batches, clean : BOOLEAN, doomed : BOOLEAN]
  BY <1>2 DEF Import!Jobs
<1>3. /\ Import!Idle.op = "idle"
      /\ \A q \in [op : {"stage"}, batch : Batches, invalid : SUBSET Tags] : q.op = "stage"
  BY DEF Import!Idle
<1>4. QED
  BY <1>1, <1>2, <1>3 DEF Import!Jobs

\* A request left alone, of those that are doomed with a batch; one that is idle
\* or cannot commit.
Spared(i, j, b) == i = j /\ ~(j.op \in {"commit", "rollback"} /\ j.batch = b)
Harmless(i)     == i = Import!Idle \/ (i.op \in {"commit", "rollback"} /\ i.doomed = TRUE)

LEMMA DoomSpares ==
  ASSUME ImportInv, NEW others \in SUBSET Clerks, NEW b \in Batches
  PROVE  /\ Import!Doom(others, b) \in [Clerks -> Import!Jobs]
         /\ \A k \in others : \/ Spared(Import!Doom(others, b)[k], importing[k], b)
                              \/ Harmless(Import!Doom(others, b)[k])
<1> DEFINE d == Import!Doom(others, b)
           hit(k) == k \in others /\ importing[k].op \in {"commit", "rollback"} /\ importing[k].batch = b
<1>1. importing \in [Clerks -> Import!Jobs]
  BY DEF ImportInv, Import!TypeOK
<1>2. d = [k \in Clerks |-> IF hit(k) THEN [importing[k] EXCEPT !.doomed = TRUE] ELSE importing[k]]
  BY DEF Import!Doom
<1> HIDE DEF d
<1>3. ASSUME NEW k \in Clerks
      PROVE  d[k] \in Import!Jobs /\ (k \in others => Spared(d[k], importing[k], b) \/ Harmless(d[k]))
  <2>1. importing[k] \in Import!Jobs
    BY <1>1
  <2>2. CASE hit(k)
    <3>1. d[k] = [importing[k] EXCEPT !.doomed = TRUE] /\ importing[k].op \in {"commit", "rollback"}
      BY <1>2, <2>2
    <3>2. d[k] \in Import!Jobs /\ d[k].op = importing[k].op /\ d[k].doomed = TRUE
      BY <2>1, <3>1, DoomedJob
    <3>3. QED
      BY <3>1, <3>2 DEF Harmless
  <2>3. CASE ~hit(k)
    <3>1. d[k] = importing[k]
      BY <1>2, <2>3
    <3>2. QED
      BY <2>1, <2>3, <3>1 DEF Spared
  <2>4. QED
    BY <2>2, <2>3
<1>4. DOMAIN d = Clerks /\ d = [k \in DOMAIN d |-> d[k]]
  BY <1>2
<1>5. d \in [Clerks -> Import!Jobs]
  BY <1>3, <1>4
<1>6. QED
  BY <1>3, <1>5 DEF d

\* What is done to one batch, or its rows, leaves the requests about the others
\* what they read; those about this one are doomed, or have yet to write it.
LEMMA TouchStands ==
  ASSUME ImportInv, NEW b \in Batches,
         \A c \in Batches \ {b} : /\ batch'[c] = batch[c]
                                  /\ \A t \in Tags : asset'[<<c, t>>] = asset[<<c, t>>],
         batch[b].status = "none" => batch'[b].status = "none",
         Import!ImportAssumption,
         \A k \in Clerks : Spared(importing'[k], importing[k], b) \/ Harmless(importing'[k])
  PROVE  (\A k \in Clerks : ReadStands(importing[k])') /\ StagedByOne'
<1>1. ASSUME NEW k \in Clerks PROVE ReadStands(importing[k])'
  <2>1. CASE Harmless(importing'[k])
    BY <2>1 DEF Harmless, ReadStands, Import!Idle
  <2>2. CASE Spared(importing'[k], importing[k], b)
    <3>1. ReadStands(importing[k]) /\ importing[k] \in Import!Jobs /\ importing'[k] = importing[k]
      BY <2>2 DEF ImportInv, Import!TypeOK, Spared
    <3>2. CASE importing[k].op = "stage"
      <4>1. importing[k].batch \in Batches /\ batch[importing[k].batch].status = "none"
        BY <3>1, <3>2 DEF ReadStands, Import!Jobs, Import!Idle
      <4>2. batch'[importing[k].batch].status = "none"
        BY <4>1
      <4>3. QED
        BY <3>1, <3>2, <4>2 DEF ReadStands
    <3>3. CASE importing[k].op \in {"commit", "rollback"}
      <4>1. importing[k].batch \in Batches \ {b}
        BY <2>2, <3>1, <3>3 DEF Spared, Import!Jobs, Import!Idle
      <4>2. PICK c \in Batches \ {b} : c = importing[k].batch
        BY <4>1
      <4>3. batch'[c] = batch[c] /\ RowsOf[c] \subseteq Tags
            /\ \A t \in RowsOf[c] : asset'[<<c, t>>] = asset[<<c, t>>]
        BY DEF Import!ImportAssumption
      <4>4. QED
        BY <3>1, <3>3, <4>2, <4>3 DEF ReadStands, Import!Live, Import!Looked
    <3>4. CASE importing[k].op \notin {"stage", "commit", "rollback"}
      BY <3>1, <3>4 DEF ReadStands
    <3>5. QED
      BY <3>2, <3>3, <3>4
  <2>3. QED
    BY <2>1, <2>2
<1>2. \A k \in Clerks : importing'[k].op = "stage" => importing'[k] = importing[k]
  BY DEF Spared, Harmless, Import!Idle
<1>3. StagedByOne'
  BY <1>2 DEF StagedByOne, ImportInv
<1>4. QED
  BY <1>1, <1>3

\* What is kept of batches and their rows, and of the requests about them.
BatchRows == [status : {"none", "STAGED", "COMMITTED", "ROLLED_BACK"}, invalid : SUBSET Tags]
ImportRows == /\ batch \in [Batches -> BatchRows]
              /\ asset \in [Import!Rows -> Import!AssetRows]
              /\ taken \subseteq Tags
              /\ RowsInBatch /\ MadeOnce
ImportJobs == /\ importing \in [Clerks -> Import!Jobs]
              /\ \A k \in Clerks : ReadStands(importing[k])
              /\ StagedByOne

LEMMA ImportParts ==
  (ImportInv <=> ImportRows /\ ImportJobs) /\ (ImportInv' <=> ImportRows' /\ ImportJobs')
BY DEF ImportInv, ImportRows, ImportJobs, Import!TypeOK, BatchRows

\* A request that begins, or stops, while batches and rows stay as they are.
LEMMA RequestTurns ==
  ASSUME ImportInv, NEW k \in Clerks, NEW j \in Import!Jobs, ReadStands(j),
         j.op = "stage" => \A c \in Clerks : importing[c].op = "stage" => importing[c].batch # j.batch,
         importing' = [importing EXCEPT ![k] = j], UNCHANGED <<batch, asset, taken>>
  PROVE  ImportInv'
<1>1. importing' \in [Clerks -> Import!Jobs] /\ importing'[k] = j
      /\ \A i \in Clerks \ {k} : importing'[i] = importing[i]
  BY DEF ImportInv, Import!TypeOK
<1>2. ImportRows'
  BY ImportParts DEF ImportRows, RowsInBatch, MadeOnce, Import!Live, Import!Rows, Import!AssetRows
<1>3. ASSUME NEW i \in Clerks PROVE ReadStands(importing[i])'
  <2>1. ReadStands(importing'[i])
    BY <1>1 DEF ImportInv
  <2>2. QED
    BY <2>1 DEF ReadStands, Import!Live, Import!Looked
<1>4. StagedByOne'
  BY <1>1 DEF StagedByOne, ImportInv
<1>5. QED
  BY <1>1, <1>2, <1>3, <1>4, ImportParts DEF ImportJobs

LEMMA RequestStops ==
  ASSUME ImportInv, NEW k \in Clerks, importing' = Import!Stop(k), UNCHANGED <<batch, asset, taken>>
  PROVE  ImportInv'
BY RequestTurns DEF Import!Stop, Import!Jobs, ReadStands, Import!Idle

\* One row of a batch is deleted or worked on.
LEMMA RowTouched ==
  ASSUME ImportInv, Import!ImportAssumption, NEW b \in Batches, NEW t \in Tags,
         Import!Live(<<b, t>>), NEW a \in Import!AssetRows,
         asset' = [asset EXCEPT ![<<b, t>>] = a], a.made = asset[<<b, t>>].made,
         a.state # "none", UNCHANGED <<batch, taken>>
  PROVE  ImportRows'
<1>1. /\ ImportRows /\ <<b, t>> \in Import!Rows
  BY ImportParts DEF Import!Rows
<1>2. /\ asset' \in [Import!Rows -> Import!AssetRows] /\ asset'[<<b, t>>] = a
      /\ \A r \in Import!Rows : r # <<b, t>> => asset'[r] = asset[r]
  BY <1>1 DEF ImportRows
<1>3. ASSUME NEW c \in Batches, NEW u \in Tags
      PROVE  /\ asset'[<<c, u>>].made = asset[<<c, u>>].made
             /\ asset'[<<c, u>>].state = "live" => asset[<<c, u>>].state = "live"
  <2>1. <<c, u>> \in Import!Rows
    BY DEF Import!Rows
  <2>2. QED
    BY <1>2, <2>1 DEF Import!Live
<1>4. RowsInBatch'
  BY <1>1, <1>3 DEF ImportRows, RowsInBatch, Import!Live
<1>5. MadeOnce'
  <2>1. ASSUME NEW c \in Batches, NEW u \in RowsOf[c]
        PROVE  /\ asset'[<<c, u>>].made =
                    (IF batch'[c].status \in {"COMMITTED", "ROLLED_BACK"} THEN 1 ELSE 0)
               /\ batch'[c].status = "ROLLED_BACK" => ~(asset'[<<c, u>>].state = "live")
    <3>1. u \in Tags /\ batch' = batch
      BY DEF Import!ImportAssumption
    <3>2. /\ asset[<<c, u>>].made =
               (IF batch[c].status \in {"COMMITTED", "ROLLED_BACK"} THEN 1 ELSE 0)
          /\ batch[c].status = "ROLLED_BACK" => ~(asset[<<c, u>>].state = "live")
      BY <1>1 DEF ImportRows, MadeOnce, Import!Live
    <3>3. QED
      BY <1>3, <3>1, <3>2
  <2>2. QED
    BY <2>1 DEF MadeOnce, Import!Live
<1>6. QED
  BY <1>1, <1>2, <1>4, <1>5 DEF ImportRows, BatchRows, Import!Rows, Import!AssetRows

\* The same batch, seen from outside it.
LEMMA RowElsewhere ==
  ASSUME ImportInv, NEW b \in Batches, NEW t \in Tags, NEW a,
         asset' = [asset EXCEPT ![<<b, t>>] = a], UNCHANGED batch
  PROVE  \A c \in Batches \ {b} : /\ batch'[c] = batch[c]
                                  /\ \A u \in Tags : asset'[<<c, u>>] = asset[<<c, u>>]
BY DEF ImportInv, Import!TypeOK, Import!Rows

\* A transaction that commits leaves the others spared or unable to.
LEMMA FinishSpares ==
  ASSUME ImportInv, NEW k \in Clerks, NEW b \in Batches, importing' = Import!Finish(k, b)
  PROVE  /\ importing' \in [Clerks -> Import!Jobs]
         /\ \A i \in Clerks : Spared(importing'[i], importing[i], b) \/ Harmless(importing'[i])
<1>1. Clerks \ {k} \in SUBSET Clerks
  OBVIOUS
<1> DEFINE d == Import!Doom(Clerks \ {k}, b)
<1>2. /\ d \in [Clerks -> Import!Jobs]
      /\ \A i \in Clerks \ {k} : Spared(d[i], importing[i], b) \/ Harmless(d[i])
  BY <1>1, DoomSpares
<1>3. importing' = [d EXCEPT ![k] = Import!Idle] /\ Import!Idle \in Import!Jobs
  BY DEF Import!Finish, Import!Jobs
<1> HIDE DEF d
<1>4. /\ importing' \in [Clerks -> Import!Jobs] /\ importing'[k] = Import!Idle
      /\ \A i \in Clerks \ {k} : importing'[i] = d[i]
  BY <1>2, <1>3
<1>5. QED
  BY <1>2, <1>4 DEF Harmless

\* The rows of a batch are registered, all of them for the first time.
LEMMA CommitMakes ==
  ASSUME ImportInv, Import!ImportAssumption, NEW k \in Clerks, Import!Commit(k),
         ~UNCHANGED <<batch, asset>>
  PROVE  ImportInv' /\ \A r \in Import!Rows : asset'[r].state = "deleted" => asset'[r] = asset[r]
<1>0. ImportRows /\ ImportJobs
  BY ImportParts
<1>1. importing[k] \in Import!Jobs /\ importing[k].op = "commit" /\ importing[k].batch \in Batches /\ ReadStands(importing[k])
  BY <1>0 DEF ImportJobs, Import!Commit, Import!Jobs, Import!Idle
<1>2. PICK b \in Batches : b = importing[k].batch
  BY <1>1
<1>3. /\ ~importing[k].doomed /\ taken' = taken /\ importing' = Import!Finish(k, b)
      /\ batch' = [batch EXCEPT ![b].status = "COMMITTED"]
      /\ asset' = [r \in Import!Rows |-> IF r[1] = b /\ r[2] \in RowsOf[b]
                     THEN [state |-> "live", made |-> asset[r].made + 1, work |-> {}]
                     ELSE asset[r]]
  BY <1>2 DEF Import!Commit
<1>4. batch[b].status = "STAGED"
  BY <1>1, <1>2, <1>3 DEF ReadStands
<1>5. /\ batch' \in [Batches -> BatchRows] /\ batch'[b].status = "COMMITTED"
      /\ \A c \in Batches \ {b} : batch'[c] = batch[c]
  BY <1>0, <1>3 DEF ImportRows, BatchRows
<1>6. ASSUME NEW r \in Import!Rows
      PROVE  /\ asset'[r] \in Import!AssetRows
             /\ r[1] = b /\ r[2] \in RowsOf[b] =>
                  asset'[r].made = asset[r].made + 1 /\ asset'[r].state = "live"
             /\ ~(r[1] = b /\ r[2] \in RowsOf[b]) => asset'[r] = asset[r]
  <2>1. asset[r] \in Import!AssetRows /\ asset[r].made + 1 \in Nat
    BY <1>0 DEF ImportRows, Import!AssetRows
  <2>2. QED
    BY <1>3, <2>1 DEF Import!AssetRows
<1>7. asset' \in [Import!Rows -> Import!AssetRows]
  <2>1. DOMAIN asset' = Import!Rows /\ asset' = [r \in Import!Rows |-> asset'[r]]
    BY <1>3
  <2>2. QED
    BY <1>6, <2>1
<1>8. ASSUME NEW c \in Batches, NEW u \in Tags
      PROVE  /\ c = b /\ u \in RowsOf[b] => /\ asset'[<<c, u>>].made = asset[<<c, u>>].made + 1
                                            /\ asset'[<<c, u>>].state = "live"
             /\ ~(c = b /\ u \in RowsOf[b]) => asset'[<<c, u>>] = asset[<<c, u>>]
  <2>1. <<c, u>> \in Import!Rows /\ <<c, u>>[1] = c /\ <<c, u>>[2] = u
    BY DEF Import!Rows
  <2>2. QED
    BY <1>6, <2>1
<1>9. RowsInBatch'
  BY <1>0, <1>8 DEF ImportRows, RowsInBatch, Import!Live
<1>10. MadeOnce'
  <2>1. ASSUME NEW c \in Batches, NEW u \in RowsOf[c]
        PROVE  /\ asset'[<<c, u>>].made =
                    (IF batch'[c].status \in {"COMMITTED", "ROLLED_BACK"} THEN 1 ELSE 0)
               /\ batch'[c].status = "ROLLED_BACK" => ~(asset'[<<c, u>>].state = "live")
    <3>1. u \in Tags
      BY DEF Import!ImportAssumption
    <3>2. /\ asset[<<c, u>>].made =
               (IF batch[c].status \in {"COMMITTED", "ROLLED_BACK"} THEN 1 ELSE 0)
          /\ batch[c].status = "ROLLED_BACK" => ~(asset[<<c, u>>].state = "live")
      BY <1>0 DEF ImportRows, MadeOnce, Import!Live
    <3>3. CASE c = b
      BY <1>4, <1>5, <1>8, <3>1, <3>2, <3>3
    <3>4. CASE c # b
      BY <1>5, <1>8, <3>1, <3>2, <3>4
    <3>5. QED
      BY <3>3, <3>4
  <2>2. QED
    BY <2>1 DEF MadeOnce, Import!Live
<1>11. ImportJobs'
  <2>1. \A c \in Batches \ {b} : /\ batch'[c] = batch[c]
                                 /\ \A t \in Tags : asset'[<<c, t>>] = asset[<<c, t>>]
    BY <1>5, <1>8
  <2>2. QED
    BY <1>3, <1>4, <2>1, FinishSpares, TouchStands DEF ImportJobs
<1>12. ASSUME NEW r \in Import!Rows, asset'[r].state = "deleted" PROVE asset'[r] = asset[r]
  BY <1>6, <1>12
<1>13. ImportRows'
  BY <1>0, <1>3, <1>5, <1>7, <1>9, <1>10 DEF ImportRows, BatchRows, Import!Rows, Import!AssetRows
<1>14. QED
  BY <1>11, <1>12, <1>13, ImportParts

\* What a rollback takes was registered with the batch, and nothing was done
\* with it that a rollback looks for.
LEMMA RollbackTakes ==
  ASSUME ImportInv, Import!ImportAssumption, NEW k \in Clerks, Import!Rollback(k),
         ~UNCHANGED <<batch, asset>>
  PROVE  /\ ImportInv'
         /\ \A r \in Import!Rows : Import!Live(r) /\ asset'[r].state = "deleted" =>
              asset[r].work \cap Import!Looked = {}
<1>0. ImportRows /\ ImportJobs
  BY ImportParts
<1>1. /\ importing[k] \in Import!Jobs /\ importing[k].op = "rollback" /\ importing[k].batch \in Batches
      /\ ReadStands(importing[k])
  BY <1>0 DEF ImportJobs, Import!Rollback, Import!Jobs, Import!Idle
<1>2. PICK b \in Batches : b = importing[k].batch
  BY <1>1
<1>3. /\ ~importing[k].doomed /\ importing[k].clean /\ taken' = taken /\ importing' = Import!Finish(k, b)
      /\ batch' = [batch EXCEPT ![b].status = "ROLLED_BACK"]
      /\ asset' = [r \in Import!Rows |-> IF r[1] = b /\ Import!Live(r)
                     THEN [asset[r] EXCEPT !.state = "deleted"] ELSE asset[r]]
  BY <1>2 DEF Import!Rollback
<1>4. /\ batch[b].status = "COMMITTED"
      /\ \A t \in RowsOf[b] : asset[<<b, t>>].work \cap Import!Looked = {}
  BY <1>1, <1>2, <1>3 DEF ReadStands
<1>5. /\ batch' \in [Batches -> BatchRows] /\ batch'[b].status = "ROLLED_BACK"
      /\ \A c \in Batches \ {b} : batch'[c] = batch[c]
  BY <1>0, <1>3 DEF ImportRows, BatchRows
<1>6. ASSUME NEW r \in Import!Rows
      PROVE  /\ asset'[r] \in Import!AssetRows /\ asset'[r].made = asset[r].made
             /\ r[1] = b => asset'[r].state # "live"
             /\ r[1] # b => asset'[r] = asset[r]
  <2>1. asset[r] \in Import!AssetRows
    BY <1>0 DEF ImportRows
  <2>2. QED
    BY <1>3, <2>1 DEF Import!AssetRows, Import!Live
<1>7. asset' \in [Import!Rows -> Import!AssetRows]
  <2>1. DOMAIN asset' = Import!Rows /\ asset' = [r \in Import!Rows |-> asset'[r]]
    BY <1>3
  <2>2. QED
    BY <1>6, <2>1
<1>8. ASSUME NEW c \in Batches, NEW u \in Tags
      PROVE  /\ asset'[<<c, u>>].made = asset[<<c, u>>].made
             /\ c = b => asset'[<<c, u>>].state # "live"
             /\ c # b => asset'[<<c, u>>] = asset[<<c, u>>]
  <2>1. <<c, u>> \in Import!Rows /\ <<c, u>>[1] = c
    BY DEF Import!Rows
  <2>2. QED
    BY <1>6, <2>1
<1>9. RowsInBatch'
  BY <1>0, <1>8 DEF ImportRows, RowsInBatch, Import!Live
<1>10. MadeOnce'
  <2>1. ASSUME NEW c \in Batches, NEW u \in RowsOf[c]
        PROVE  /\ asset'[<<c, u>>].made =
                    (IF batch'[c].status \in {"COMMITTED", "ROLLED_BACK"} THEN 1 ELSE 0)
               /\ batch'[c].status = "ROLLED_BACK" => ~(asset'[<<c, u>>].state = "live")
    <3>1. u \in Tags
      BY DEF Import!ImportAssumption
    <3>2. /\ asset[<<c, u>>].made =
               (IF batch[c].status \in {"COMMITTED", "ROLLED_BACK"} THEN 1 ELSE 0)
          /\ batch[c].status = "ROLLED_BACK" => ~(asset[<<c, u>>].state = "live")
      BY <1>0 DEF ImportRows, MadeOnce, Import!Live
    <3>3. CASE c = b
      BY <1>4, <1>5, <1>8, <3>1, <3>2, <3>3
    <3>4. CASE c # b
      BY <1>5, <1>8, <3>1, <3>2, <3>4
    <3>5. QED
      BY <3>3, <3>4
  <2>2. QED
    BY <2>1 DEF MadeOnce, Import!Live
<1>11. ImportJobs'
  <2>1. \A c \in Batches \ {b} : /\ batch'[c] = batch[c]
                                 /\ \A t \in Tags : asset'[<<c, t>>] = asset[<<c, t>>]
    BY <1>5, <1>8
  <2>2. QED
    BY <1>3, <1>4, <2>1, FinishSpares, TouchStands DEF ImportJobs
<1>12. ASSUME NEW r \in Import!Rows, Import!Live(r), asset'[r].state = "deleted"
       PROVE  asset[r].work \cap Import!Looked = {}
  <2>1. r[1] = b
    BY <1>6, <1>12 DEF Import!Live
  <2>2. r = <<b, r[2]>> /\ r[2] \in Tags
    BY <2>1 DEF Import!Rows
  <2>3. PICK t \in Tags : r = <<b, t>>
    BY <2>2
  <2>4. t \in RowsOf[b]
    BY <1>0, <1>12, <2>3 DEF ImportRows, RowsInBatch
  <2>5. QED
    BY <1>4, <2>3, <2>4
<1>13. ImportRows'
  BY <1>0, <1>3, <1>5, <1>7, <1>9, <1>10 DEF ImportRows, BatchRows, Import!Rows, Import!AssetRows
<1>14. QED
  BY <1>11, <1>12, <1>13, ImportParts

LEMMA WorkOn ==
  ASSUME ImportInv, Import!ImportAssumption, NEW r \in Import!Rows,
         NEW a \in Import!AssetRows, Import!Live(r),
         asset' = [asset EXCEPT ![r] = a], a.made = asset[r].made, a.state # "none",
         UNCHANGED <<batch, taken>>,
         \/ importing' = Import!Doom(Clerks, r[1])
         \/ importing' = importing /\ a.state = "live" /\ a.work \cap Import!Looked = asset[r].work \cap Import!Looked
  PROVE  ImportInv'
<1>0. ImportRows /\ ImportJobs
  BY ImportParts
<1>1. PICK b \in Batches, t \in Tags : r = <<b, t>>
  BY DEF Import!Rows
<1>2. ImportRows'
  BY <1>1, RowTouched
<1>3. CASE importing' = Import!Doom(Clerks, b)
  <2>1. \A c \in Batches \ {b} : /\ batch'[c] = batch[c]
                                 /\ \A u \in Tags : asset'[<<c, u>>] = asset[<<c, u>>]
    BY <1>1, RowElsewhere
  <2>2. /\ importing' \in [Clerks -> Import!Jobs]
        /\ \A k \in Clerks : Spared(importing'[k], importing[k], b) \/ Harmless(importing'[k])
    BY <1>3, DoomSpares
  <2>3. (\A k \in Clerks : ReadStands(importing[k])') /\ StagedByOne'
    BY <2>1, <2>2, TouchStands
  <2>4. QED
    BY <1>2, <2>2, <2>3, ImportParts DEF ImportJobs
<1>4. CASE /\ importing' = importing /\ a.state = "live"
           /\ a.work \cap Import!Looked = asset[r].work \cap Import!Looked
  <2>1. ASSUME NEW c \in Batches, NEW u \in Tags
        PROVE  /\ asset'[<<c, u>>].state = asset[<<c, u>>].state
               /\ asset'[<<c, u>>].work \cap Import!Looked = asset[<<c, u>>].work \cap Import!Looked
    <3>1. <<c, u>> \in Import!Rows
      BY DEF Import!Rows
    <3>2. QED
      BY <1>0, <1>4, <3>1 DEF ImportRows, Import!Live
  <2>2. ASSUME NEW k \in Clerks PROVE ReadStands(importing[k])'
    <3>1. ReadStands(importing[k]) /\ importing[k] \in Import!Jobs
      BY <1>0 DEF ImportJobs
    <3>2. CASE importing[k].op = "rollback"
      <4>1. importing[k].batch \in Batches
        BY <3>1, <3>2 DEF Import!Jobs, Import!Idle
      <4>2. PICK c \in Batches : c = importing[k].batch
        BY <4>1
      <4>3. RowsOf[c] \subseteq Tags
        BY DEF Import!ImportAssumption
      <4>4. \A u \in RowsOf[c] :
              /\ asset'[<<c, u>>].state = asset[<<c, u>>].state
              /\ asset'[<<c, u>>].work \cap Import!Looked = asset[<<c, u>>].work \cap Import!Looked
        BY <2>1, <4>3
      <4>5. QED
        BY <1>4, <3>1, <3>2, <4>2, <4>4 DEF ReadStands, Import!Live, Import!Looked
    <3>3. CASE importing[k].op # "rollback"
      BY <1>4, <3>1, <3>3 DEF ReadStands
    <3>4. QED
      BY <3>2, <3>3
  <2>3. ImportJobs'
    BY <1>0, <1>4, <2>2 DEF ImportJobs, StagedByOne
  <2>4. QED
    BY <1>2, <2>3, ImportParts
<1>5. QED
  BY <1>1, <1>3, <1>4

\* A file's batch is staged: no other request is about it.
LEMMA StageWrites ==
  ASSUME ImportInv, Import!ImportAssumption, NEW k \in Clerks, Import!StageCommit(k)
  PROVE  ImportInv'
<1>0. ImportRows /\ ImportJobs
  BY ImportParts
<1>1. /\ importing[k].op = "stage" /\ importing[k].batch \in Batches /\ importing[k].invalid \subseteq Tags
      /\ batch[importing[k].batch].status = "none"
  BY <1>0 DEF ImportJobs, Import!StageCommit, Import!Jobs, Import!Idle, ReadStands
<1>2. PICK b \in Batches : b = importing[k].batch
  BY <1>1
<1>3. /\ batch' = [batch EXCEPT ![b] = [status |-> "STAGED", invalid |-> importing[k].invalid]]
      /\ importing' = [importing EXCEPT ![k] = Import!Idle] /\ UNCHANGED <<asset, taken>>
  BY <1>2 DEF Import!StageCommit, Import!Stop
<1>4. /\ batch' \in [Batches -> BatchRows] /\ batch'[b].status = "STAGED"
      /\ \A c \in Batches \ {b} : batch'[c] = batch[c]
  BY <1>0, <1>1, <1>3 DEF ImportRows, BatchRows
<1>5. MadeOnce'
  <2>1. ASSUME NEW c \in Batches, NEW u \in RowsOf[c]
        PROVE  /\ asset'[<<c, u>>].made =
                    (IF batch'[c].status \in {"COMMITTED", "ROLLED_BACK"} THEN 1 ELSE 0)
               /\ batch'[c].status = "ROLLED_BACK" => ~(asset'[<<c, u>>].state = "live")
    <3>1. /\ asset[<<c, u>>].made =
               (IF batch[c].status \in {"COMMITTED", "ROLLED_BACK"} THEN 1 ELSE 0)
          /\ batch[c].status = "ROLLED_BACK" => ~(asset[<<c, u>>].state = "live")
      BY <1>0 DEF ImportRows, MadeOnce, Import!Live
    <3>2. CASE c = b
      BY <1>1, <1>2, <1>3, <1>4, <3>1, <3>2
    <3>3. CASE c # b
      BY <1>3, <1>4, <3>1, <3>3
    <3>4. QED
      BY <3>2, <3>3
  <2>2. QED
    BY <2>1 DEF MadeOnce, Import!Live
<1>6. RowsInBatch'
  BY <1>0, <1>3 DEF ImportRows, RowsInBatch, Import!Live
<1>7. ImportRows'
  BY <1>0, <1>3, <1>4, <1>5, <1>6 DEF ImportRows, BatchRows, Import!Rows, Import!AssetRows
<1>8. /\ importing' \in [Clerks -> Import!Jobs] /\ importing'[k] = Import!Idle
      /\ \A i \in Clerks \ {k} : importing'[i] = importing[i]
  BY <1>0, <1>3 DEF ImportJobs, Import!Jobs
<1>9. ASSUME NEW i \in Clerks PROVE ReadStands(importing[i])'
  <2>1. CASE i = k
    BY <1>8, <2>1 DEF ReadStands, Import!Idle
  <2>2. CASE i # k
    <3>1. importing'[i] = importing[i] /\ importing[i] \in Import!Jobs /\ ReadStands(importing[i])
      BY <1>0, <1>8, <2>2 DEF ImportJobs
    <3>2. CASE importing[i].op = "idle"
      BY <3>1, <3>2 DEF ReadStands
    <3>3. CASE importing[i].op # "idle"
      <4>1. importing[i].batch \in Batches /\ importing[i].op \in {"stage", "commit", "rollback"}
        BY <3>1, <3>3 DEF Import!Jobs, Import!Idle
      <4>2. PICK c \in Batches : c = importing[i].batch
        BY <4>1
      <4>3. CASE c = b
        <5>1. importing[i].op \in {"commit", "rollback"}
          BY <1>0, <1>1, <1>2, <2>2, <4>1, <4>2, <4>3 DEF ImportJobs, StagedByOne
        <5>2. importing[i].doomed
          BY <1>1, <1>2, <3>1, <4>2, <4>3, <5>1 DEF ReadStands
        <5>3. QED
          BY <3>1, <5>1, <5>2 DEF ReadStands
      <4>4. CASE c # b
        <5>1. batch'[c] = batch[c]
          BY <1>4, <4>4
        <5>2. QED
          BY <1>3, <3>1, <4>2, <5>1 DEF ReadStands, Import!Live, Import!Looked
      <4>5. QED
        BY <4>3, <4>4
    <3>4. QED
      BY <3>2, <3>3
  <2>3. QED
    BY <2>1, <2>2
<1>10. StagedByOne'
  BY <1>0, <1>8 DEF ImportJobs, StagedByOne, Import!Idle
<1>11. QED
  BY <1>7, <1>8, <1>9, <1>10, ImportParts DEF ImportJobs

\* Of a live asset that goes with a rollback: nothing looked for was done with it.
Spares == \A r \in Import!Rows :
  batch'[r[1]].status = "ROLLED_BACK" /\ Import!Live(r) /\ asset'[r].state = "deleted"
    => asset[r].work \cap Import!Looked = {}

LEMMA ImportStep ==
  ASSUME Import!ImportAssumption, ImportInv, [Import!Next]_(Import!vars)
  PROVE  ImportInv' /\ Spares
<1>0. ImportRows /\ ImportJobs
  BY ImportParts
<1>1. ASSUME UNCHANGED asset PROVE Spares
  BY <1>1 DEF Spares, Import!Live
<1>2. ASSUME NEW t \in Tags, Import!Register(t) \/ Import!Retire(t) PROVE ImportInv' /\ Spares
  <2>1. taken' \subseteq Tags /\ UNCHANGED <<batch, asset, importing>>
    BY <1>0, <1>2 DEF Import!Register, Import!Retire, ImportRows
  <2>2. ImportRows'
    BY <1>0, <2>1 DEF ImportRows, RowsInBatch, MadeOnce, Import!Live
  <2>3. ImportJobs'
    BY <1>0, <2>1 DEF ImportJobs, ReadStands, StagedByOne, Import!Live
  <2>4. QED
    BY <1>1, <2>1, <2>2, <2>3, ImportParts
<1>3. ASSUME NEW r \in Import!Rows, Import!Delete(r) PROVE ImportInv' /\ Spares
  <2> DEFINE a == [asset[r] EXCEPT !.state = "deleted", !.work = asset[r].work \cup {"moved"}]
  <2>1. /\ Import!Live(r) /\ asset' = [asset EXCEPT ![r] = a] /\ UNCHANGED <<batch, taken>>
        /\ importing' = Import!Doom(Clerks, r[1])
    BY <1>3 DEF Import!Delete
  <2>2. a \in Import!AssetRows /\ a.made = asset[r].made /\ a.state = "deleted"
    BY <1>0 DEF ImportRows, Import!AssetRows, Import!Looked
  <2>3. ImportInv'
    BY <2>1, <2>2, WorkOn
  <2>4. ASSUME NEW q \in Import!Rows PROVE ~(batch'[q[1]].status = "ROLLED_BACK" /\ Import!Live(q))
    <3>1. PICK b \in Batches, t \in Tags : q = <<b, t>>
      BY DEF Import!Rows
    <3>2. QED
      BY <1>0, <2>1, <3>1 DEF ImportRows, RowsInBatch, MadeOnce
  <2>5. QED
    BY <2>3, <2>4 DEF Spares
<1>4. ASSUME NEW r \in Import!Rows, NEW w \in Import!Looked \cup Import!Unlooked, Import!Work(r, w)
      PROVE  ImportInv' /\ Spares
  <2> DEFINE a == [asset[r] EXCEPT !.work = asset[r].work \cup {w}]
  <2>1. /\ Import!Live(r) /\ asset' = [asset EXCEPT ![r] = a] /\ UNCHANGED <<batch, taken>>
        /\ importing' = IF w \in Import!Looked THEN Import!Doom(Clerks, r[1]) ELSE importing
    BY <1>4 DEF Import!Work
  <2>2. /\ a \in Import!AssetRows /\ a.made = asset[r].made /\ a.state = "live"
        /\ a.work = asset[r].work \cup {w}
    BY <1>0, <2>1 DEF ImportRows, Import!AssetRows, Import!Live
  <2>3. ImportInv'
    <3>1. w \notin Import!Looked => a.work \cap Import!Looked = asset[r].work \cap Import!Looked
      BY <2>2
    <3>2. QED
      BY <2>1, <2>2, <3>1, WorkOn
  <2>4. \A q \in Import!Rows : Import!Live(q) => asset'[q].state # "deleted"
    BY <1>0, <2>1, <2>2 DEF ImportRows, Import!Live
  <2>5. QED
    BY <2>3, <2>4 DEF Spares
<1>5. ASSUME NEW k \in Clerks, NEW b \in Batches, Import!StageRead(k, b)
      PROVE  ImportInv' /\ Spares
  <2> DEFINE j == [op |-> "stage", batch |-> b,
                   invalid |-> {t \in RowsOf[b] : t \in Import!Occupied \/ t \in Faulty}]
  <2>1. j \in Import!Jobs
    BY DEF Import!Jobs, Import!ImportAssumption
  <2>2. /\ batch[b].status = "none" /\ importing' = [importing EXCEPT ![k] = j]
        /\ \A c \in Clerks : importing[c].op = "stage" => importing[c].batch # b
        /\ UNCHANGED <<batch, asset, taken>>
    BY <1>5 DEF Import!StageRead
  <2>3. ReadStands(j)
    BY <2>2 DEF ReadStands
  <2>4. QED
    BY <1>1, <2>1, <2>2, <2>3, RequestTurns
<1>6. ASSUME NEW k \in Clerks, NEW b \in Batches, Import!CommitRead(k, b)
      PROVE  ImportInv' /\ Spares
  <2> DEFINE j == [op |-> "commit", batch |-> b, doomed |-> FALSE]
  <2>1. j \in Import!Jobs
    BY DEF Import!Jobs
  <2>2. batch[b].status = "STAGED" /\ importing' = [importing EXCEPT ![k] = j] /\ UNCHANGED <<batch, asset, taken>>
    BY <1>6 DEF Import!CommitRead
  <2>3. ReadStands(j)
    BY <2>2 DEF ReadStands
  <2>4. QED
    BY <1>1, <2>1, <2>2, <2>3, RequestTurns
<1>7. ASSUME NEW k \in Clerks, NEW b \in Batches, Import!RollbackRead(k, b)
      PROVE  ImportInv' /\ Spares
  <2> DEFINE clean == \A t \in RowsOf[b] :
                        Import!Live(<<b, t>>) /\ asset[<<b, t>>].work \cap Import!Looked = {}
             j == [op |-> "rollback", batch |-> b, doomed |-> FALSE, clean |-> clean]
  <2>1. j \in Import!Jobs
    BY DEF Import!Jobs
  <2>2. /\ batch[b].status = "COMMITTED" /\ importing' = [importing EXCEPT ![k] = j]
        /\ UNCHANGED <<batch, asset, taken>>
    BY <1>7 DEF Import!RollbackRead
  <2>3. /\ j.op = "rollback" /\ j.batch = b
        /\ j.clean => \A t \in RowsOf[b] : Import!Live(<<b, t>>)
                                           /\ asset[<<b, t>>].work \cap Import!Looked = {}
    OBVIOUS
  <2> HIDE DEF j
  <2>4. ReadStands(j)
    BY <2>2, <2>3 DEF ReadStands
  <2>5. QED
    BY <1>1, <2>1, <2>2, <2>3, <2>4, RequestTurns
<1>8. ASSUME NEW k \in Clerks, Import!StageCommit(k) PROVE ImportInv' /\ Spares
  BY <1>1, <1>8, StageWrites DEF Import!StageCommit
<1>9. ASSUME NEW k \in Clerks, Import!Commit(k) PROVE ImportInv' /\ Spares
  <2>1. CASE UNCHANGED <<batch, asset>>
    <3>1. importing' = Import!Stop(k)
      BY <1>0, <1>9, <2>1
      DEF Import!Commit, ImportRows, BatchRows, ImportJobs, Import!Jobs, Import!Idle, ReadStands
    <3>2. QED
      BY <1>1, <1>9, <2>1, <3>1, RequestStops DEF Import!Commit
  <2>2. CASE ~UNCHANGED <<batch, asset>>
    BY <1>9, <2>2, CommitMakes DEF Spares, Import!Live
  <2>3. QED
    BY <2>1, <2>2
<1>10. ASSUME NEW k \in Clerks, Import!Rollback(k) PROVE ImportInv' /\ Spares
  <2>1. CASE UNCHANGED <<batch, asset>>
    <3>1. importing' = Import!Stop(k)
      BY <1>0, <1>10, <2>1
      DEF Import!Rollback, ImportRows, BatchRows, ImportJobs, Import!Jobs, Import!Idle, ReadStands
    <3>2. QED
      BY <1>1, <1>10, <2>1, <3>1, RequestStops DEF Import!Rollback
  <2>2. CASE ~UNCHANGED <<batch, asset>>
    BY <1>10, <2>2, RollbackTakes DEF Spares
  <2>3. QED
    BY <2>1, <2>2
<1>11. CASE UNCHANGED Import!vars
  <2>1. UNCHANGED <<batch, asset, taken, importing>>
    BY <1>11 DEF Import!vars
  <2>2. ImportRows'
    BY <1>0, <2>1 DEF ImportRows, RowsInBatch, MadeOnce, Import!Live
  <2>3. ImportJobs'
    BY <1>0, <2>1 DEF ImportJobs, ReadStands, StagedByOne, Import!Live
  <2>4. QED
    BY <1>1, <2>1, <2>2, <2>3, ImportParts
<1>12. QED
  BY <1>2, <1>3, <1>4, <1>5, <1>6, <1>7, <1>8, <1>9, <1>10, <1>11 DEF Import!Next

LEMMA ImportStarts ==
  ASSUME Import!ImportAssumption
  PROVE  Import!Init => ImportInv
<1> SUFFICES ASSUME Import!Init PROVE ImportInv
  OBVIOUS
<1>1. ImportRows
  <2>1. /\ asset \in [Import!Rows -> Import!AssetRows]
        /\ \A r \in Import!Rows : asset[r].state = "none" /\ asset[r].made = 0
    BY DEF Import!Init, Import!NoAsset, Import!AssetRows
  <2>2. batch \in [Batches -> BatchRows] /\ \A b \in Batches : batch[b].status = "none"
    BY DEF Import!Init, BatchRows
  <2>3. \A b \in Batches, t \in Tags :
          asset[<<b, t>>].state = "none" /\ asset[<<b, t>>].made = 0
    BY <2>1 DEF Import!Rows
  <2>4. RowsInBatch
    BY <2>3 DEF RowsInBatch, Import!Live
  <2>5. ASSUME NEW b \in Batches, NEW t \in RowsOf[b]
        PROVE  asset[<<b, t>>].state = "none" /\ asset[<<b, t>>].made = 0
    BY <2>3 DEF Import!ImportAssumption
  <2>6. MadeOnce
    BY <2>2, <2>5 DEF MadeOnce, Import!Live
  <2>7. QED
    BY <2>1, <2>2, <2>4, <2>6 DEF ImportRows, Import!Init
<1>2. ImportJobs
  BY DEF Import!Init, ImportJobs, Import!Jobs, Import!Idle, ReadStands, StagedByOne
<1>3. QED
  BY <1>1, <1>2, ImportParts

\* A batch is in the register as a whole or not at all, and once: two commits, or
\* a commit and a rollback, cannot both find it as it was.
THEOREM BatchesWhole ==
  ASSUME Import!ImportAssumption
  PROVE  Import!Spec => []BatchIsWhole
<1>1. ImportInv /\ [Import!Next]_(Import!vars) => ImportInv'
  BY ImportStep
<1>2. ImportInv => Import!BatchIsWhole
  BY DEF ImportInv, MadeOnce, Import!BatchIsWhole
<1>3. QED
  BY <1>1, <1>2, ImportStarts, PTL DEF Import!Spec, BatchIsWhole

\* No asset that was handed out, moved, counted or edited since the import goes
\* with a rollback: who works on it dooms the rollback that has not seen it.
THEOREM RollbacksSpareWork ==
  ASSUME Import!ImportAssumption
  PROVE  Import!Spec => RollbackSparesWork
<1>1. ImportInv /\ [Import!Next]_(Import!vars) => ImportInv'
  BY ImportStep
<1>2. ImportInv /\ [Import!Next]_(Import!vars) => Spares
  BY ImportStep
<1>3. QED
  BY <1>1, <1>2, ImportStarts, PTL DEF Import!Spec, RollbackSparesWork, Import!RollbackSparesWork,
         Spares
-----------------------------------------------------------------------------
(***************************************************************************)
(* Incidents.  One at a time, what update and changeStatus read of an      *)
(* incident still stands when they write, unless it was deleted meanwhile. *)
(***************************************************************************)
StillSo(j) ==
  /\ incident.status = "none" => j = Desk!Idle
  /\ j.op = "update" /\ Desk!Exists =>
       /\ incident.status \notin Desk!Final
       /\ j.changed <=> j.to \notin {Absent, incident.handler}
  /\ j.op = "status" /\ Desk!Exists =>
       /\ Desk!assertIncidentTransition(incident.status, j.to)
       /\ Desk!Complete(j.to, incident)

DeskInv == /\ Desk!TypeOK
           /\ Desk!IncidentsKept
           /\ \A k \in Serial : StillSo(handling[k])

\* One text of a record, or its handler, or its status, is written.
LEMMA RecordWritten ==
  ASSUME incident \in Desk!Records, NEW h \in Operators \cup {None}, NEW S \in SUBSET Desk!Texts,
         NEW s \in Desk!Statuses
  PROVE  /\ [incident EXCEPT !.handler = h, !.texts = S] \in Desk!Records
         /\ [incident EXCEPT !.status = s] \in Desk!Records
BY DEF Desk!Records

\* A request under way when another begins would be a second one.
LEMMA OnlyThisOne ==
  ASSUME OneRequest, DeskInv, NEW k \in Serial, NEW j \in Desk!Jobs,
         handling' = [handling EXCEPT ![k] = j]
  PROVE  handling' \in [Serial -> Desk!Jobs] /\ \A i \in Serial : handling'[i] = j
BY DEF OneRequest, DeskInv, Desk!TypeOK

\* Whoever closes or cancels a record leaves it there.
LEMMA FinalStays ==
  ASSUME NEW from \in Desk!Final, NEW to \in Desk!Statuses,
         Desk!assertIncidentTransition(from, to)
  PROVE  to = from
BY DEF Desk!assertIncidentTransition, Desk!transitions, Desk!Final, Desk!Statuses

LEMMA ClosingAsksForAll ==
  ASSUME incident \in Desk!Records, Desk!Complete("CLOSED", incident)
  PROVE  incident.handler # None /\ incident.texts = Desk!Texts
BY DEF Desk!Complete, Desk!Required, Desk!Records, Desk!Statuses

LEMMA DeskStep ==
  ASSUME OneRequest, Desk!DeskAssumption
  PROVE  DeskInv /\ [Desk!Next]_(Desk!vars) => DeskInv'
<1> SUFFICES ASSUME DeskInv, [Desk!Next]_(Desk!vars) PROVE DeskInv'
  OBVIOUS
<1>0. /\ incident \in Desk!Records /\ primary \in Operators \cup {None}
      /\ eligible \subseteq Operators /\ handling \in [Serial -> Desk!Jobs]
      /\ Desk!AssignmentMatches /\ Desk!ClosedIsComplete
      /\ \A k \in Serial : StillSo(handling[k])
  BY DEF DeskInv, Desk!TypeOK, Desk!IncidentsKept
<1>1. ASSUME NEW u \in Operators, Desk!Qualify(u) \/ Desk!Disqualify(u) PROVE DeskInv'
  BY <1>0, <1>1
  DEF Desk!Qualify, Desk!Disqualify, DeskInv, Desk!TypeOK, Desk!IncidentsKept,
      Desk!AssignmentMatches, Desk!ClosedIsComplete, StillSo, Desk!Exists
<1>2. ASSUME NEW u \in Operators \cup {None}, Desk!Create(u) PROVE DeskInv'
  <2>1. PICK t \in SUBSET {"assessment"} :
          incident' = [status |-> "NEW", handler |-> u, texts |-> t]
    BY <1>2 DEF Desk!Create
  <2>2. /\ primary' = u /\ eligible' = eligible /\ handling' = handling
        /\ \A k \in Serial : handling[k] = Desk!Idle
    BY <1>0, <1>2 DEF Desk!Create, StillSo
  <2>3. Desk!TypeOK'
    BY <1>0, <2>1, <2>2 DEF Desk!TypeOK, Desk!Records, Desk!Statuses, Desk!Texts
  <2>4. Desk!IncidentsKept'
    BY <2>1, <2>2 DEF Desk!IncidentsKept, Desk!AssignmentMatches, Desk!ClosedIsComplete, Desk!Final
  <2>5. \A k \in Serial : StillSo(handling[k])'
    BY <2>2 DEF StillSo, Desk!Idle
  <2>6. QED
    BY <2>3, <2>4, <2>5 DEF DeskInv
<1>3. ASSUME NEW k \in Serial, Desk!UpdateRead(k) PROVE DeskInv'
  <2>1. PICK to \in eligible \cup {None, Absent}, fill \in SUBSET Desk!Texts,
             clear \in SUBSET Desk!Texts :
          handling' = [handling EXCEPT ![k] = [op |-> "update", to |-> to, fill |-> fill, clear |-> clear,
                                     changed |-> to \notin {Absent, incident.handler}]]
    BY <1>3 DEF Desk!UpdateRead
  <2> DEFINE j == [op |-> "update", to |-> to, fill |-> fill, clear |-> clear,
                   changed |-> to \notin {Absent, incident.handler}]
  <2>2. j \in Desk!Jobs
    BY <1>0 DEF Desk!Jobs
  <2>3. /\ Desk!Exists /\ incident.status \notin Desk!Final
        /\ UNCHANGED <<incident, primary, eligible>>
    BY <1>3 DEF Desk!UpdateRead
  <2>4. handling' \in [Serial -> Desk!Jobs] /\ \A i \in Serial : handling'[i] = j
    BY <2>1, <2>2, OnlyThisOne
  <2>5. \A i \in Serial : StillSo(handling[i])'
    <3>1. incident.status # "none"
      BY <2>3 DEF Desk!Exists, Desk!Statuses
    <3>2. /\ j.op = "update" /\ j.to = to
          /\ j.changed <=> to \notin {Absent, incident.handler}
      OBVIOUS
    <3> HIDE DEF j
    <3>3. SUFFICES ASSUME NEW i \in Serial PROVE StillSo(handling[i])'
      OBVIOUS
    <3>4. handling'[i] = j
      BY <2>4
    <3>5. QED
      BY <2>3, <3>1, <3>2, <3>4 DEF StillSo
  <2>6. QED
    BY <1>0, <2>3, <2>4, <2>5
    DEF DeskInv, Desk!TypeOK, Desk!IncidentsKept, Desk!AssignmentMatches, Desk!ClosedIsComplete,
        Desk!Exists
<1>4. ASSUME NEW k \in Serial, NEW u \in Operators, NEW to \in Desk!Statuses,
             Desk!StatusRead(k, u, to)
      PROVE  DeskInv'
  <2> DEFINE j == [op |-> "status", to |-> to]
  <2>1. /\ Desk!Exists /\ Desk!assertIncidentTransition(incident.status, to)
        /\ Desk!Complete(to, incident) /\ handling' = [handling EXCEPT ![k] = j]
        /\ UNCHANGED <<incident, primary, eligible>>
    BY <1>4 DEF Desk!StatusRead
  <2>2. j \in Desk!Jobs
    BY DEF Desk!Jobs
  <2>3. handling' \in [Serial -> Desk!Jobs] /\ \A i \in Serial : handling'[i] = j
    BY <2>1, <2>2, OnlyThisOne
  <2>4. \A i \in Serial : StillSo(handling[i])'
    <3>1. incident.status # "none"
      BY <2>1 DEF Desk!Exists, Desk!Statuses
    <3>2. SUFFICES ASSUME NEW i \in Serial PROVE StillSo(handling[i])'
      OBVIOUS
    <3>3. handling'[i] = j
      BY <2>3
    <3>4. QED
      BY <2>1, <3>1, <3>3 DEF StillSo, Desk!assertIncidentTransition, Desk!Complete
  <2>5. QED
    BY <1>0, <2>1, <2>3, <2>4
    DEF DeskInv, Desk!TypeOK, Desk!IncidentsKept, Desk!AssignmentMatches, Desk!ClosedIsComplete,
        Desk!Exists
<1>5. ASSUME NEW k \in Serial, handling' = [handling EXCEPT ![k] = Desk!Idle]
      PROVE  /\ handling' \in [Serial -> Desk!Jobs]
             /\ \A i \in Serial : StillSo(handling[i])'
  <2>1. Desk!Idle \in Desk!Jobs
    BY DEF Desk!Jobs
  <2>2. handling' \in [Serial -> Desk!Jobs] /\ \A i \in Serial : handling'[i] = Desk!Idle
    BY <1>5, <2>1, OnlyThisOne
  <2>3. QED
    BY <2>2 DEF StillSo, Desk!Idle
<1>6. ASSUME NEW k \in Serial, Desk!UpdateCommit(k) PROVE DeskInv'
  <2>0. /\ handling[k].op = "update" /\ handling[k] \in Desk!Jobs /\ StillSo(handling[k])
        /\ eligible' = eligible /\ handling' = [handling EXCEPT ![k] = Desk!Idle]
    BY <1>0, <1>6 DEF Desk!UpdateCommit
  <2>1. CASE UNCHANGED <<incident, primary>>
    BY <1>0, <1>5, <2>0, <2>1
    DEF DeskInv, Desk!TypeOK, Desk!IncidentsKept, Desk!AssignmentMatches, Desk!ClosedIsComplete,
        Desk!Exists
  <2>2. CASE ~UNCHANGED <<incident, primary>>
    <3> DEFINE handler == IF handling[k].to = Absent THEN incident.handler ELSE handling[k].to
               texts   == (incident.texts \cup handling[k].fill) \ handling[k].clear
    <3>1. /\ Desk!Exists /\ handling[k].to \in eligible \cup {None, Absent}
          /\ incident' = [incident EXCEPT !.handler = handler, !.texts = texts]
          /\ primary' = Desk!NextPrimary(handling[k])
      BY <1>6, <2>2 DEF Desk!UpdateCommit
    <3>2. handling[k].fill \in SUBSET Desk!Texts /\ handling[k].changed \in BOOLEAN
      BY <2>0 DEF Desk!Jobs, Desk!Idle
    <3>3. handler \in Operators \cup {None} /\ texts \in SUBSET Desk!Texts
      BY <1>0, <3>1, <3>2 DEF Desk!Records
    <3> HIDE DEF handler, texts
    <3>4. incident' \in Desk!Records /\ incident'.status = incident.status
          /\ incident'.handler = handler
      BY <1>0, <3>1, <3>3, RecordWritten DEF Desk!Records, Desk!Exists
    <3>5. incident.status \notin Desk!Final /\ (handling[k].changed <=> handling[k].to \notin {Absent, incident.handler})
      BY <2>0, <3>1 DEF StillSo
    <3>6. primary = incident.handler
      BY <1>0, <3>1, <3>5 DEF Desk!AssignmentMatches
    <3>7. primary' = handler
      BY <3>1, <3>5, <3>6 DEF Desk!NextPrimary, handler
    <3>8. Desk!IncidentsKept'
      BY <3>4, <3>5, <3>7
      DEF Desk!IncidentsKept, Desk!AssignmentMatches, Desk!ClosedIsComplete, Desk!Final
    <3>9. QED
      BY <1>0, <1>5, <2>0, <3>3, <3>4, <3>7, <3>8 DEF DeskInv, Desk!TypeOK
  <2>3. QED
    BY <2>1, <2>2
<1>7. ASSUME NEW k \in Serial, Desk!StatusCommit(k) PROVE DeskInv'
  <2>0. /\ handling[k].op = "status" /\ handling[k] \in Desk!Jobs /\ StillSo(handling[k])
        /\ eligible' = eligible /\ handling' = [handling EXCEPT ![k] = Desk!Idle]
    BY <1>0, <1>7 DEF Desk!StatusCommit
  <2>1. CASE ~Desk!Exists
    BY <1>0, <1>5, <1>7, <2>0, <2>1
    DEF Desk!StatusCommit, DeskInv, Desk!TypeOK, Desk!IncidentsKept, Desk!AssignmentMatches,
        Desk!ClosedIsComplete, Desk!Exists
  <2>2. CASE Desk!Exists
    <3> DEFINE to == handling[k].to
    <3>1. to \in Desk!Statuses
      BY <2>0 DEF Desk!Jobs, Desk!Idle
    <3>2. /\ incident' = [incident EXCEPT !.status = to]
          /\ primary' = (IF to \in Desk!Final THEN None ELSE primary)
      BY <1>7, <2>2 DEF Desk!StatusCommit
    <3>3. /\ incident' \in Desk!Records /\ incident'.status = to
          /\ incident'.handler = incident.handler /\ incident'.texts = incident.texts
      BY <1>0, <3>1, <3>2, RecordWritten DEF Desk!Records
    <3>4. /\ Desk!assertIncidentTransition(incident.status, to) /\ Desk!Complete(to, incident)
      BY <2>0, <2>2 DEF StillSo
    <3> HIDE DEF to
    <3>5. Desk!AssignmentMatches'
      <4>1. CASE to \in Desk!Final
        BY <3>2, <3>3, <4>1 DEF Desk!AssignmentMatches, Desk!Final
      <4>2. CASE to \notin Desk!Final
        <5>1. incident.status \notin Desk!Final
          BY <3>1, <3>4, <4>2, FinalStays
        <5>2. primary = incident.handler
          BY <1>0, <2>2, <5>1 DEF Desk!AssignmentMatches
        <5>3. QED
          BY <3>2, <3>3, <4>2, <5>2 DEF Desk!AssignmentMatches, Desk!Final
      <4>3. QED
        BY <4>1, <4>2
    <3>6. Desk!ClosedIsComplete'
      BY <1>0, <3>3, <3>4, ClosingAsksForAll DEF Desk!ClosedIsComplete, Desk!Texts
    <3>7. QED
      BY <1>0, <1>5, <2>0, <3>2, <3>3, <3>5, <3>6 DEF DeskInv, Desk!TypeOK, Desk!IncidentsKept
  <2>3. QED
    BY <2>1, <2>2
<1>8. CASE Desk!Remove
  <2>1. incident'.status = "deleted" /\ incident' \in Desk!Records /\ primary' = None
        /\ UNCHANGED <<eligible, handling>>
    BY <1>8 DEF Desk!Remove, Desk!Absentee, Desk!Records
  <2>2. QED
    BY <1>0, <2>1
    DEF DeskInv, Desk!TypeOK, Desk!IncidentsKept, Desk!AssignmentMatches, Desk!ClosedIsComplete,
        StillSo, Desk!Exists, Desk!Statuses
<1>9. CASE UNCHANGED Desk!vars
  BY <1>0, <1>9
  DEF Desk!vars, DeskInv, Desk!TypeOK, Desk!IncidentsKept, Desk!AssignmentMatches,
      Desk!ClosedIsComplete, StillSo, Desk!Exists, Desk!assertIncidentTransition, Desk!Complete
<1>10. QED
  BY <1>1, <1>2, <1>3, <1>4, <1>6, <1>7, <1>8, <1>9 DEF Desk!Next

\* One request at a time, the active assignment of an incident is that of its
\* handler, and a closed incident has a handler and every text: update and
\* changeStatus check what they then write, and triggers keep the handler eligible.
THEOREM IncidentsAlwaysKept ==
  ASSUME OneRequest, Desk!DeskAssumption
  PROVE  Desk!Spec => []IncidentsKept
<1>1. Desk!Init => DeskInv
  BY DEF Desk!Init, Desk!Absentee, Desk!Jobs, DeskInv, Desk!TypeOK, Desk!Records,
         Desk!IncidentsKept, Desk!AssignmentMatches, Desk!ClosedIsComplete, Desk!Exists,
         Desk!Statuses, StillSo, Desk!Idle
<1>2. DeskInv => Desk!IncidentsKept
  BY DEF DeskInv
<1>3. QED
  BY <1>1, <1>2, DeskStep, PTL DEF Desk!Spec, IncidentsKept
-----------------------------------------------------------------------------
(***************************************************************************)
(* Compliance records.  A version that a request is about to issue or to   *)
(* supersede covers every control, and keeps covering them.  A path that   *)
(* is being added or unlinked belongs to one request and is not listed;    *)
(* until it is added its bytes are there.                                  *)
(***************************************************************************)
Covers(v) == soa[v].status # "none" /\ soa[v].covered = Controls
OfFile(j) == j.op \in {"add", "unlink"}

Fits(j) ==
  /\ j.op \in {"issueSoa", "superseding"} => Covers(j.version)
  /\ j.op = "superseding" => \A v \in j.seen : Covers(v)
  /\ OfFile(j) => row[j.path] = None /\ j.path \in spent
  /\ j.op = "add" => j.path \in disk

OnePathEach == \A i, k \in Clerks :
  OfFile(filing[i]) /\ OfFile(filing[k]) /\ filing[i].path = filing[k].path => i = k

\* What is kept of statements, of documents and their files, and of requests.
SoaRows == [status : {"none", "DRAFT", "ISSUED", "SUPERSEDED"}, covered : SUBSET Controls]
DocRows == [status : {"none", "DRAFT", "ISSUED", "SUPERSEDED", "WITHDRAWN"},
            supersedes : Docs \cup {None}]
Statements == soa \in [Versions -> SoaRows] /\ Compliance!StatementInForce
Library    == /\ doc \in [Docs -> DocRows] /\ row \in [Files -> Docs \cup {None}]
              /\ disk \subseteq spent /\ spent \subseteq Files /\ lost \subseteq Files
Filing     == /\ filing \in [Clerks -> Compliance!Jobs]
              /\ \A k \in Clerks : Fits(filing[k])
              /\ OnePathEach

ComplianceInv == Statements /\ Library /\ Filing /\ Compliance!FilesMatch

LEMMA FilingTyped ==
  ASSUME NEW j \in Compliance!Jobs
  PROVE  /\ j.op \in {"entry", "issueSoa", "superseding"} => j.version \in Versions
         /\ j.op = "entry" => j.control \in Controls
         /\ j.op = "superseding" => j.seen \subseteq Versions
         /\ j.op \in {"issue", "withdraw", "add", "unlink", "remove"} => j.doc \in Docs
         /\ j.op \in {"add", "unlink", "remove"} => j.path \in Files
BY DEF Compliance!Jobs, Compliance!Idle

\* While files, rows and bytes stay as they are, and what covered the controls
\* covers them, a request that was not about a file may become another such.
LEMMA FilesAside ==
  ASSUME ComplianceInv, NEW k \in Clerks, NEW j \in Compliance!Jobs,
         ~OfFile(filing[k]), ~OfFile(j), filing' = [filing EXCEPT ![k] = j],
         UNCHANGED <<row, disk, spent, lost>>,
         \A v \in Versions : Covers(v) => Covers(v)',
         j.op \in {"issueSoa", "superseding"} => Covers(j.version),
         j.op = "superseding" => \A v \in j.seen : Covers(v)
  PROVE  Filing' /\ Compliance!FilesMatch'
<1>1. /\ filing' \in [Clerks -> Compliance!Jobs] /\ filing'[k] = j
      /\ \A i \in Clerks \ {k} : filing'[i] = filing[i]
  BY DEF ComplianceInv, Filing
<1>2. ASSUME NEW i \in Clerks PROVE Fits(filing[i])'
  <2>1. filing'[i] \in Compliance!Jobs /\ Fits(filing'[i])
    BY <1>1 DEF ComplianceInv, Filing, Fits, OfFile
  <2>2. PICK q \in Compliance!Jobs : q = filing'[i]
    BY <2>1
  <2>3. /\ q.op \in {"issueSoa", "superseding"} => q.version \in Versions /\ Covers(q.version)
        /\ q.op = "superseding" => q.seen \subseteq Versions /\ \A v \in q.seen : Covers(v)
    BY <2>1, <2>2, FilingTyped DEF Fits
  <2>4. /\ q.op \in {"issueSoa", "superseding"} => Covers(q.version)'
        /\ q.op = "superseding" => \A v \in q.seen : Covers(v)'
    BY <2>3
  <2>5. QED
    BY <2>1, <2>2, <2>4 DEF Fits, OfFile, Covers
<1>3. OnePathEach'
  BY <1>1 DEF ComplianceInv, Filing, OnePathEach, OfFile
<1>4. Compliance!FilesMatch'
  BY <1>1 DEF ComplianceInv, Compliance!FilesMatch, Compliance!Between, OfFile
<1>5. QED
  BY <1>1, <1>2, <1>3, <1>4 DEF Filing

\* The same when no request changes.
LEMMA RequestsAside ==
  ASSUME ComplianceInv, filing' = filing, UNCHANGED <<row, disk, spent, lost>>,
         \A v \in Versions : Covers(v) => Covers(v)'
  PROVE  Filing' /\ Compliance!FilesMatch'
<1>1. ASSUME NEW i \in Clerks PROVE Fits(filing[i])'
  <2>1. filing[i] \in Compliance!Jobs /\ Fits(filing[i])
    BY DEF ComplianceInv, Filing
  <2>2. PICK q \in Compliance!Jobs : q = filing[i]
    BY <2>1
  <2>3. /\ q.op \in {"issueSoa", "superseding"} => q.version \in Versions /\ Covers(q.version)
        /\ q.op = "superseding" => q.seen \subseteq Versions /\ \A v \in q.seen : Covers(v)
    BY <2>1, <2>2, FilingTyped DEF Fits
  <2>4. /\ q.op \in {"issueSoa", "superseding"} => Covers(q.version)'
        /\ q.op = "superseding" => \A v \in q.seen : Covers(v)'
    BY <2>3
  <2>5. QED
    BY <2>1, <2>2, <2>4 DEF Fits, OfFile, Covers
<1>2. OnePathEach' /\ filing' \in [Clerks -> Compliance!Jobs]
  BY DEF ComplianceInv, Filing, OnePathEach, OfFile
<1>3. Compliance!FilesMatch'
  BY DEF ComplianceInv, Compliance!FilesMatch, Compliance!Between
<1>4. QED
  BY <1>1, <1>2, <1>3 DEF Filing

\* Documents change and statements do not, or the other way round.
LEMMA StatementsAside ==
  ASSUME ComplianceInv, UNCHANGED soa
  PROVE  Statements' /\ \A v \in Versions : Covers(v) => Covers(v)'
BY DEF ComplianceInv, Statements, Compliance!StatementInForce, Covers

LEMMA LibraryAside ==
  ASSUME ComplianceInv, UNCHANGED <<doc, row, disk, spent, lost>>
  PROVE  Library'
BY DEF ComplianceInv, Library

\* A version is created, an entry written, or a version issued: what is or is
\* about to be in force covers every control, and something stays in force.
LEMMA StatementCreated ==
  ASSUME ComplianceInv, NEW v \in Versions, Compliance!CreateSoa(v)
  PROVE  ComplianceInv'
<1>1. PICK c \in SUBSET Controls :
        /\ soa[v].status = "none" /\ soa' = [soa EXCEPT ![v] = [status |-> "DRAFT", covered |-> c]]
  <2>1. \A w \in Versions : soa[w].covered \in SUBSET Controls
    BY DEF ComplianceInv, Statements, SoaRows
  <2>2. QED
    BY <2>1 DEF Compliance!CreateSoa
<1>2. /\ soa' \in [Versions -> SoaRows] /\ soa'[v].status = "DRAFT"
      /\ \A w \in Versions \ {v} : soa'[w] = soa[w]
  BY <1>1 DEF ComplianceInv, Statements, SoaRows
<1>3. Statements' /\ \A w \in Versions : Covers(w) => Covers(w)'
  BY <1>1, <1>2 DEF ComplianceInv, Statements, Compliance!StatementInForce, Covers
<1>4. filing' = filing /\ UNCHANGED <<doc, row, disk, spent, lost>>
  BY DEF Compliance!CreateSoa, Compliance!library
<1>5. QED
  BY <1>3, <1>4, RequestsAside, LibraryAside DEF ComplianceInv

LEMMA EntryWritten ==
  ASSUME ComplianceInv, NEW k \in Clerks, Compliance!EntryWrite(k)
  PROVE  ComplianceInv'
<1>1. filing[k].op = "entry" /\ filing[k].version \in Versions /\ filing[k].control \in Controls
  BY FilingTyped DEF ComplianceInv, Filing, Compliance!EntryWrite
<1>2. PICK v \in Versions, c \in Controls : v = filing[k].version /\ c = filing[k].control
  BY <1>1
<1>3. /\ soa' = [soa EXCEPT ![v] = [soa[v] EXCEPT !.covered = soa[v].covered \cup {c}]]
      /\ filing' = [filing EXCEPT ![k] = Compliance!Idle] /\ UNCHANGED <<doc, row, disk, spent, lost>>
  BY <1>2 DEF Compliance!EntryWrite, Compliance!End, Compliance!library, ComplianceInv, Statements,
     SoaRows
<1>4. /\ soa' \in [Versions -> SoaRows] /\ soa'[v].status = soa[v].status
      /\ soa'[v].covered = soa[v].covered \cup {c}
      /\ \A w \in Versions \ {v} : soa'[w] = soa[w]
  BY <1>3 DEF ComplianceInv, Statements, SoaRows
<1>5. \A w \in Versions : /\ soa'[w].status = soa[w].status
                          /\ soa[w].covered = Controls => soa'[w].covered = Controls
  BY <1>4
<1>6. Statements' /\ \A w \in Versions : Covers(w) => Covers(w)'
  BY <1>4, <1>5 DEF ComplianceInv, Statements, Compliance!StatementInForce, Covers
<1>7. Compliance!Idle \in Compliance!Jobs /\ Compliance!Idle.op = "idle"
  BY DEF Compliance!Jobs, Compliance!Idle
<1>8. Filing' /\ Compliance!FilesMatch'
  BY <1>1, <1>3, <1>6, <1>7, FilesAside DEF OfFile
<1>9. QED
  BY <1>3, <1>6, <1>8, LibraryAside DEF ComplianceInv

LEMMA StatementIssued ==
  ASSUME ComplianceInv, NEW k \in Clerks, Compliance!IssueSoaCommit(k)
  PROVE  ComplianceInv'
<1>1. /\ filing[k].op = "superseding" /\ filing[k].version \in Versions /\ filing[k].seen \subseteq Versions
      /\ Covers(filing[k].version) /\ \A v \in filing[k].seen : Covers(v)
  BY FilingTyped DEF ComplianceInv, Filing, Compliance!IssueSoaCommit, Fits
<1>2. PICK w \in Versions, seen \in SUBSET Versions : w = filing[k].version /\ seen = filing[k].seen
  BY <1>1
<1>3. /\ soa' = [v \in Versions |-> IF v = w THEN [soa[v] EXCEPT !.status = "ISSUED"]
                                    ELSE IF v \in seen THEN [soa[v] EXCEPT !.status = "SUPERSEDED"]
                                    ELSE soa[v]]
      /\ filing' = [filing EXCEPT ![k] = Compliance!Idle] /\ UNCHANGED <<doc, row, disk, spent, lost>>
  BY <1>2
  DEF Compliance!IssueSoaCommit, Compliance!SupersededThenIssued, Compliance!End, Compliance!library
<1>4. ASSUME NEW v \in Versions
      PROVE  /\ soa'[v] \in SoaRows /\ soa'[v].covered = soa[v].covered
             /\ v = w => soa'[v].status = "ISSUED"
             /\ v \in seen \ {w} => soa'[v].status = "SUPERSEDED"
             /\ v \notin seen \cup {w} => soa'[v].status = soa[v].status
  <2>1. soa[v] \in SoaRows
    BY DEF ComplianceInv, Statements
  <2>2. QED
    BY <1>3, <2>1 DEF SoaRows
<1>5. soa' \in [Versions -> SoaRows]
  BY <1>3, <1>4
<1>6. \A v \in Versions : Covers(v) => Covers(v)'
  BY <1>4 DEF Covers
<1>7. \A v \in Versions : soa'[v].status \in {"ISSUED", "SUPERSEDED"} => soa'[v].covered = Controls
  <2>1. \A v \in seen \cup {w} : soa[v].covered = Controls
    BY <1>1, <1>2 DEF Covers
  <2>2. \A v \in Versions : soa[v].status \in {"ISSUED", "SUPERSEDED"} => soa[v].covered = Controls
    BY DEF ComplianceInv, Statements, Compliance!StatementInForce
  <2>3. QED
    BY <1>4, <2>1, <2>2
<1>8. Statements'
  BY <1>4, <1>5, <1>7 DEF Statements, Compliance!StatementInForce
<1>9. Compliance!Idle \in Compliance!Jobs /\ Compliance!Idle.op = "idle"
  BY DEF Compliance!Jobs, Compliance!Idle
<1>10. Filing' /\ Compliance!FilesMatch'
  BY <1>1, <1>3, <1>6, <1>9, FilesAside DEF OfFile
<1>11. QED
  BY <1>3, <1>8, <1>10, LibraryAside DEF ComplianceInv

\* A read begins a request that is not about a file; so does a transaction on a
\* statement, with what it finds in force.
LEMMA FilingReads ==
  ASSUME ComplianceInv, NEW k \in Clerks, NEW j \in Compliance!Jobs,
         ~OfFile(filing[k]), ~OfFile(j), filing' = [filing EXCEPT ![k] = j],
         UNCHANGED <<soa, doc, row, disk, spent, lost>>,
         j.op \in {"issueSoa", "superseding"} => Covers(j.version),
         j.op = "superseding" => \A v \in j.seen : Covers(v)
  PROVE  ComplianceInv'
<1>1. Statements' /\ \A v \in Versions : Covers(v) => Covers(v)'
  BY StatementsAside
<1>2. Filing' /\ Compliance!FilesMatch'
  BY <1>1, FilesAside
<1>3. QED
  BY <1>1, <1>2, LibraryAside DEF ComplianceInv

LEMMA StatementStep ==
  ASSUME ComplianceInv, NEW k \in Clerks, Compliance!Statement(k)
  PROVE  ComplianceInv'
<1>0. Compliance!Idle.op = "idle"
  BY DEF Compliance!Idle
<1>1. ASSUME NEW v \in Versions, Compliance!IssueSoaRead(k, v) PROVE ComplianceInv'
  <2> DEFINE j == [op |-> "issueSoa", version |-> v]
  <2>1. /\ filing[k] = Compliance!Idle /\ filing' = [filing EXCEPT ![k] = j] /\ Covers(v)
        /\ UNCHANGED <<soa, doc, row, disk, spent, lost>>
    BY <1>1
    DEF Compliance!IssueSoaRead, Compliance!Begin, Compliance!statements, Compliance!library, Covers
  <2>2. j \in Compliance!Jobs
    BY DEF Compliance!Jobs
  <2>3. QED
    BY <1>0, <2>1, <2>2, FilingReads DEF OfFile
<1>2. ASSUME NEW v \in Versions, NEW c \in Controls,
             Compliance!EntryRead(k, v, c) PROVE ComplianceInv'
  <2> DEFINE j == [op |-> "entry", version |-> v, control |-> c]
  <2>1. /\ filing[k] = Compliance!Idle /\ filing' = [filing EXCEPT ![k] = j]
        /\ UNCHANGED <<soa, doc, row, disk, spent, lost>>
    BY <1>2 DEF Compliance!EntryRead, Compliance!Begin, Compliance!statements, Compliance!library
  <2>2. j \in Compliance!Jobs
    BY DEF Compliance!Jobs
  <2>3. QED
    BY <1>0, <2>1, <2>2, FilingReads DEF OfFile
<1>3. CASE Compliance!IssueSoaBegin(k)
  <2>1. filing[k].op = "issueSoa" /\ filing[k].version \in Versions /\ Covers(filing[k].version)
    BY <1>3, FilingTyped DEF ComplianceInv, Filing, Compliance!IssueSoaBegin, Fits
  <2>2. PICK w \in Versions, seen \in SUBSET Versions :
          w = filing[k].version /\ seen = {v \in Versions : soa[v].status = "ISSUED"}
    BY <2>1
  <2> DEFINE j == [op |-> "superseding", version |-> w, seen |-> seen]
  <2>3. filing' = [filing EXCEPT ![k] = j] /\ UNCHANGED <<soa, doc, row, disk, spent, lost>>
    BY <1>3, <2>2 DEF Compliance!IssueSoaBegin, Compliance!statements, Compliance!library
  <2>4. j \in Compliance!Jobs
    BY DEF Compliance!Jobs
  <2>5. \A v \in seen : Covers(v)
    BY <2>2 DEF ComplianceInv, Statements, Compliance!StatementInForce, Covers
  <2>6. QED
    BY <2>1, <2>2, <2>3, <2>4, <2>5, FilingReads DEF OfFile
<1>4. QED
  BY <1>1, <1>2, <1>3, EntryWritten, StatementIssued DEF Compliance!Statement

\* The bytes of a new file are written: nothing knows its path yet.
LEMMA FileSaved ==
  ASSUME ComplianceInv, NEW k \in Clerks, NEW d \in Docs, NEW f \in Files, Compliance!Save(k, d, f)
  PROVE  ComplianceInv'
<1> DEFINE j == [op |-> "add", doc |-> d, path |-> f]
<1>1. /\ filing[k] = Compliance!Idle /\ filing' = [filing EXCEPT ![k] = j] /\ f \notin spent
      /\ spent' = spent \cup {f} /\ disk' = disk \cup {f} /\ UNCHANGED <<soa, doc, row, lost>>
  BY DEF Compliance!Save, Compliance!Begin, Compliance!statements
<1>2. /\ filing' \in [Clerks -> Compliance!Jobs] /\ filing'[k] = j
      /\ \A i \in Clerks \ {k} : filing'[i] = filing[i]
  <2>1. j \in Compliance!Jobs
    BY DEF Compliance!Jobs
  <2>2. QED
    BY <1>1, <2>1 DEF ComplianceInv, Filing
<1>3. Statements' /\ \A v \in Versions : Covers(v) => Covers(v)'
  BY <1>1, StatementsAside
<1>4. row[f] = None
  BY <1>1 DEF ComplianceInv, Library, Compliance!FilesMatch, Compliance!Between
<1>5. ASSUME NEW i \in Clerks PROVE Fits(filing[i])'
  <2>1. CASE i = k
    BY <1>1, <1>2, <1>4, <2>1 DEF Fits, OfFile
  <2>2. CASE i # k
    BY <1>1, <1>2, <2>2 DEF ComplianceInv, Filing, Fits, OfFile, Covers
  <2>3. QED
    BY <2>1, <2>2
<1>6. OnePathEach'
  <2>1. \A i \in Clerks \ {k} : OfFile(filing[i]) => filing[i].path # f
    BY <1>1 DEF ComplianceInv, Filing, Fits
  <2>2. QED
    BY <1>2, <2>1 DEF ComplianceInv, Filing, OnePathEach, OfFile
<1>7. Library'
  BY <1>1 DEF ComplianceInv, Library
<1>8. Compliance!FilesMatch'
  <2>1. ASSUME NEW g \in disk'
        PROVE  row'[g] # None \/ g \in lost'
                 \/ \E i \in Clerks : filing'[i].op \in {"add", "unlink"} /\ filing'[i].path = g
    <3>1. CASE g = f
      BY <1>2, <3>1
    <3>2. CASE g # f
      BY <1>1, <1>2, <2>1, <3>2 DEF ComplianceInv, Compliance!FilesMatch, Compliance!Between, Compliance!Idle
    <3>3. QED
      BY <3>1, <3>2
  <2>2. \A g \in Files : row'[g] # None => g \in disk'
    BY <1>1 DEF ComplianceInv, Compliance!FilesMatch, Compliance!Between
  <2>3. QED
    BY <2>1, <2>2 DEF Compliance!FilesMatch, Compliance!Between
<1>9. QED
  BY <1>2, <1>3, <1>5, <1>6, <1>7, <1>8 DEF ComplianceInv, Filing

\* A row is added, refused or removed: of that path, only this request is.
LEMMA RowTurns ==
  ASSUME ComplianceInv, NEW k \in Clerks, NEW f \in Files, NEW d \in Docs \cup {None},
         NEW j \in Compliance!Jobs, filing' = [filing EXCEPT ![k] = j],
         row' = [row EXCEPT ![f] = d], UNCHANGED <<soa, doc, disk, spent, lost>>,
         \A i \in Clerks \ {k} : OfFile(filing[i]) => filing[i].path # f,
         OfFile(filing[k]) => filing[k].path = f,
         f \in disk,
         \/ d # None /\ j = Compliance!Idle
         \/ d = None /\ j.op = "unlink" /\ j.path = f
  PROVE  ComplianceInv'
<1>1. /\ filing' \in [Clerks -> Compliance!Jobs] /\ filing'[k] = j
      /\ \A i \in Clerks \ {k} : filing'[i] = filing[i]
      /\ row' \in [Files -> Docs \cup {None}] /\ row'[f] = d
      /\ \A g \in Files \ {f} : row'[g] = row[g]
      /\ f \in spent
  BY DEF ComplianceInv, Filing, Library
<1>2. Statements' /\ \A v \in Versions : Covers(v) => Covers(v)'
  BY StatementsAside
<1>3. ASSUME NEW i \in Clerks PROVE Fits(filing[i])'
  <2>1. CASE i = k
    BY <1>1, <2>1 DEF Fits, OfFile, Compliance!Idle
  <2>2. CASE i # k
    <3>1. filing[i] \in Compliance!Jobs /\ Fits(filing[i]) /\ filing'[i] = filing[i]
      BY <1>1, <2>2 DEF ComplianceInv, Filing
    <3>2. OfFile(filing[i]) => filing[i].path \in Files \ {f}
      BY <2>2, <3>1, FilingTyped DEF OfFile
    <3>3. OfFile(filing[i]) => row'[filing[i].path] = row[filing[i].path]
      BY <1>1, <3>2
    <3>4. QED
      BY <3>1, <3>3 DEF Fits, OfFile, Covers
  <2>3. QED
    BY <2>1, <2>2
<1>4. OnePathEach'
  BY <1>1 DEF ComplianceInv, Filing, OnePathEach, OfFile, Compliance!Idle
<1>5. Library'
  BY <1>1 DEF ComplianceInv, Library
<1>6. Compliance!FilesMatch'
  <2>1. ASSUME NEW g \in disk
        PROVE  row'[g] # None \/ g \in lost
                 \/ \E i \in Clerks : filing'[i].op \in {"add", "unlink"} /\ filing'[i].path = g
    <3>1. CASE g = f
      BY <1>1, <3>1
    <3>2. CASE g # f
      <4>1. g \in Files
        BY DEF ComplianceInv, Library
      <4>2. CASE row[g] # None \/ g \in lost
        BY <1>1, <3>2, <4>1, <4>2
      <4>3. CASE \E i \in Clerks : filing[i].op \in {"add", "unlink"} /\ filing[i].path = g
        BY <1>1, <3>2, <4>3 DEF OfFile
      <4>4. QED
        BY <4>2, <4>3 DEF ComplianceInv, Compliance!FilesMatch, Compliance!Between
    <3>3. QED
      BY <3>1, <3>2
  <2>2. \A g \in Files : row'[g] # None => g \in disk
    BY <1>1 DEF ComplianceInv, Compliance!FilesMatch, Compliance!Between
  <2>3. QED
    BY <2>1, <2>2 DEF Compliance!FilesMatch, Compliance!Between
<1>7. QED
  BY <1>1, <1>2, <1>3, <1>4, <1>5, <1>6 DEF ComplianceInv, Filing

\* The bytes of a path that is not listed go, or are left behind.
LEMMA BytesUnlinked ==
  ASSUME ComplianceInv, NEW k \in Clerks, Compliance!Unlink(k)
  PROVE  ComplianceInv'
<1>1. filing[k].op = "unlink" /\ filing[k].path \in Files /\ row[filing[k].path] = None
  BY FilingTyped DEF Compliance!Unlink, ComplianceInv, Filing, Fits, OfFile
<1>2. PICK f \in Files : f = filing[k].path
  BY <1>1
<1>3. /\ filing' = [filing EXCEPT ![k] = Compliance!Idle]
      /\ disk' \subseteq disk /\ disk \ {f} \subseteq disk'
      /\ lost \subseteq lost' /\ lost' \subseteq lost \cup {f} /\ (f \in disk' => f \in lost')
      /\ UNCHANGED <<soa, doc, row, spent>>
  BY <1>2 DEF Compliance!Unlink, Compliance!End, Compliance!statements
<1>4. /\ filing' \in [Clerks -> Compliance!Jobs] /\ filing'[k] = Compliance!Idle
      /\ \A i \in Clerks \ {k} : filing'[i] = filing[i]
  BY <1>3 DEF ComplianceInv, Filing, Compliance!Jobs
<1>5. Statements' /\ \A v \in Versions : Covers(v) => Covers(v)'
  BY <1>3, StatementsAside
<1>6. \A i \in Clerks \ {k} : OfFile(filing[i]) => filing[i].path # f
  BY <1>1, <1>2 DEF ComplianceInv, Filing, OnePathEach, OfFile
<1>7. ASSUME NEW i \in Clerks PROVE Fits(filing[i])'
  <2>1. CASE i = k
    BY <1>4, <2>1 DEF Fits, OfFile, Compliance!Idle
  <2>2. CASE i # k
    BY <1>3, <1>4, <1>6, <2>2 DEF ComplianceInv, Filing, Fits, OfFile, Covers
  <2>3. QED
    BY <2>1, <2>2
<1>8. OnePathEach'
  BY <1>4 DEF ComplianceInv, Filing, OnePathEach, OfFile, Compliance!Idle
<1>9. Library'
  BY <1>3 DEF ComplianceInv, Library
<1>10. Compliance!FilesMatch'
  <2>1. ASSUME NEW g \in disk'
        PROVE  row[g] # None \/ g \in lost'
                 \/ \E i \in Clerks : filing'[i].op \in {"add", "unlink"} /\ filing'[i].path = g
    BY <1>2, <1>3, <1>4, <2>1 DEF ComplianceInv, Compliance!FilesMatch, Compliance!Between
  <2>2. \A g \in Files : row[g] # None => g \in disk'
    BY <1>1, <1>2, <1>3 DEF ComplianceInv, Compliance!FilesMatch, Compliance!Between
  <2>3. QED
    BY <1>3, <2>1, <2>2 DEF Compliance!FilesMatch, Compliance!Between
<1>11. QED
  BY <1>4, <1>5, <1>7, <1>8, <1>9, <1>10 DEF ComplianceInv, Filing

\* A document changes, and nothing of files or statements.
LEMMA DocumentTurns ==
  ASSUME ComplianceInv, doc' \in [Docs -> DocRows], UNCHANGED <<soa, row, disk, spent, lost>>,
         \/ filing' = filing
         \/ \E k \in Clerks : ~OfFile(filing[k]) /\ filing' = [filing EXCEPT ![k] = Compliance!Idle]
  PROVE  ComplianceInv'
<1>1. Statements' /\ \A v \in Versions : Covers(v) => Covers(v)'
  BY StatementsAside
<1>2. Library'
  BY DEF ComplianceInv, Library
<1>3. Compliance!Idle \in Compliance!Jobs /\ Compliance!Idle.op = "idle"
  BY DEF Compliance!Jobs, Compliance!Idle
<1>4. Filing' /\ Compliance!FilesMatch'
  BY <1>1, <1>3, FilesAside, RequestsAside DEF OfFile
<1>5. QED
  BY <1>1, <1>2, <1>4 DEF ComplianceInv

LEMMA DocumentStep ==
  ASSUME Compliance!ComplianceAssumption, ComplianceInv, NEW k \in Clerks, Compliance!Document(k)
  PROVE  ComplianceInv'
<1>0. Compliance!Idle.op = "idle" /\ Compliance!Idle \in Compliance!Jobs
  BY DEF Compliance!Idle, Compliance!Jobs
<1>1. ASSUME NEW d \in Docs, Compliance!IssueRead(k, d) \/ Compliance!WithdrawRead(k, d)
      PROVE  ComplianceInv'
  <2>1. PICK op \in {"issue", "withdraw"} :
          /\ filing[k] = Compliance!Idle /\ filing' = [filing EXCEPT ![k] = [op |-> op, doc |-> d]]
          /\ UNCHANGED <<soa, doc, row, disk, spent, lost>>
    BY <1>1
    DEF Compliance!IssueRead, Compliance!WithdrawRead, Compliance!Begin, Compliance!statements,
        Compliance!library
  <2>2. [op |-> op, doc |-> d] \in Compliance!Jobs
    BY DEF Compliance!Jobs
  <2>3. QED
    BY <1>0, <2>1, <2>2, FilingReads DEF OfFile
<1>2. ASSUME NEW f \in Files, Compliance!RemoveRead(k, f) PROVE ComplianceInv'
  <2>1. row[f] \in Docs
    BY <1>2 DEF Compliance!RemoveRead, ComplianceInv, Library
  <2>2. PICK d \in Docs : d = row[f]
    BY <2>1
  <2> DEFINE j == [op |-> "remove", doc |-> d, path |-> f]
  <2>3. /\ filing[k] = Compliance!Idle /\ filing' = [filing EXCEPT ![k] = j]
        /\ UNCHANGED <<soa, doc, row, disk, spent, lost>>
    BY <1>2, <2>2
    DEF Compliance!RemoveRead, Compliance!Begin, Compliance!statements, Compliance!library
  <2>4. j \in Compliance!Jobs
    BY DEF Compliance!Jobs
  <2>5. QED
    BY <1>0, <2>3, <2>4, FilingReads DEF OfFile
<1>3. CASE Compliance!IssueCommit(k)
  <2>1. \A d \in Docs : doc[d] \in DocRows
    BY DEF ComplianceInv, Library
  <2>2. doc' \in [Docs -> DocRows]
    BY <1>3, <2>1 DEF Compliance!IssueCommit, DocRows
  <2>3. QED
    BY <1>3, <2>2, DocumentTurns
    DEF Compliance!IssueCommit, Compliance!End, Compliance!statements, OfFile
<1>4. CASE Compliance!WithdrawCommit(k)
  <2>1. doc' \in [Docs -> DocRows]
    BY <1>4 DEF Compliance!WithdrawCommit, ComplianceInv, Library, DocRows
  <2>2. QED
    BY <1>4, <2>1, DocumentTurns
    DEF Compliance!WithdrawCommit, Compliance!End, Compliance!statements, OfFile
<1>5. CASE Compliance!AddRow(k)
  <2>1. /\ filing[k].op = "add" /\ filing[k].path \in Files /\ filing[k].doc \in Docs
        /\ row[filing[k].path] = None /\ filing[k].path \in disk
    BY <1>5, FilingTyped DEF Compliance!AddRow, ComplianceInv, Filing, Fits, OfFile
  <2>2. PICK f \in Files, d \in Docs : f = filing[k].path /\ d = filing[k].doc
    BY <2>1
  <2>3. /\ \A i \in Clerks \ {k} : OfFile(filing[i]) => filing[i].path # f
        /\ OfFile(filing[k]) => filing[k].path = f
        /\ f \in disk
    BY <2>1, <2>2 DEF ComplianceInv, Filing, OnePathEach, OfFile
  <2>4. UNCHANGED <<soa, doc, disk, spent, lost>>
    BY <1>5 DEF Compliance!AddRow, Compliance!statements
  <2>5. CASE row' = [row EXCEPT ![f] = d] /\ filing' = [filing EXCEPT ![k] = Compliance!Idle]
    <3>1. d # None
      BY DEF Compliance!ComplianceAssumption
    <3>2. QED
      BY <1>0, <2>3, <2>4, <2>5, <3>1, RowTurns
  <2>6. CASE row' = row /\ filing' = [filing EXCEPT ![k] = [filing[k] EXCEPT !.op = "unlink"]]
    <3>1. PICK j : j = [filing[k] EXCEPT !.op = "unlink"]
      OBVIOUS
    <3>2. j \in Compliance!Jobs /\ j.op = "unlink" /\ j.path = f
      <4>1. filing[k] \in [op : {"add", "unlink"}, doc : Docs, path : Files]
        BY <2>1 DEF ComplianceInv, Filing, Compliance!Jobs, Compliance!Idle
      <4>2. QED
        BY <2>2, <3>1, <4>1 DEF Compliance!Jobs
    <3>3. filing' = [filing EXCEPT ![k] = j]
      BY <2>6, <3>1
    <3>4. row' = [row EXCEPT ![f] = None]
      BY <2>1, <2>2, <2>6 DEF ComplianceInv, Library
    <3>5. QED
      BY <2>3, <2>4, <3>2, <3>3, <3>4, RowTurns
  <2>7. QED
    BY <1>5, <2>2, <2>5, <2>6 DEF Compliance!AddRow, Compliance!End, ComplianceInv, Filing
<1>6. CASE Compliance!RemoveRow(k)
  <2>1. filing[k].op = "remove" /\ filing[k].path \in Files
    BY <1>6, FilingTyped DEF Compliance!RemoveRow, ComplianceInv, Filing
  <2>2. PICK f \in Files : f = filing[k].path
    BY <2>1
  <2>3. UNCHANGED <<soa, doc, disk, spent, lost>>
    BY <1>6 DEF Compliance!RemoveRow, Compliance!statements
  <2>4. CASE /\ row[f] # None /\ row' = [row EXCEPT ![f] = None]
             /\ filing' = [filing EXCEPT ![k] = [filing[k] EXCEPT !.op = "unlink"]]
    <3>1. PICK j : j = [filing[k] EXCEPT !.op = "unlink"]
      OBVIOUS
    <3>2. j \in Compliance!Jobs /\ j.op = "unlink" /\ j.path = f
      <4>1. filing[k] \in [op : {"remove"}, doc : Docs, path : Files]
        BY <2>1 DEF ComplianceInv, Filing, Compliance!Jobs, Compliance!Idle
      <4>2. QED
        BY <2>2, <3>1, <4>1 DEF Compliance!Jobs
    <3>3. f \in disk
      BY <2>4 DEF ComplianceInv, Compliance!FilesMatch, Compliance!Between
    <3>4. \A i \in Clerks \ {k} : OfFile(filing[i]) => filing[i].path # f
      BY <2>4 DEF ComplianceInv, Filing, Fits
    <3>5. QED
      BY <2>1, <2>2, <2>3, <2>4, <3>1, <3>2, <3>3, <3>4, RowTurns DEF OfFile
  <2>5. CASE row' = row /\ filing' = [filing EXCEPT ![k] = Compliance!Idle]
    BY <1>0, <2>1, <2>3, <2>5, FilingReads DEF OfFile
  <2>6. QED
    BY <1>6, <2>2, <2>4, <2>5 DEF Compliance!RemoveRow, Compliance!End, ComplianceInv, Filing
<1>7. QED
  BY <1>1, <1>2, <1>3, <1>4, <1>5, <1>6, FileSaved, BytesUnlinked DEF Compliance!Document

\* After a restart no request is under way, and bytes may be left to nobody.
LEMMA FilingRestarts ==
  ASSUME ComplianceInv, Compliance!Restart
  PROVE  ComplianceInv'
<1>1. /\ filing' = [k \in Clerks |-> Compliance!Idle]
      /\ lost' = lost \cup {f \in Files : \E k \in Clerks : Compliance!Between(k, f)}
      /\ UNCHANGED <<soa, doc, row, disk, spent>>
  BY DEF Compliance!Restart, Compliance!statements, Compliance!library
<1>2. Filing'
  BY <1>1 DEF Filing, Fits, OfFile, OnePathEach, Compliance!Jobs, Compliance!Idle
<1>3. Library' /\ Compliance!FilesMatch'
  BY <1>1 DEF ComplianceInv, Library, Compliance!FilesMatch, Compliance!Between
<1>4. QED
  BY <1>1, <1>2, <1>3, StatementsAside DEF ComplianceInv

LEMMA ComplianceStep ==
  ASSUME Compliance!ComplianceAssumption, ComplianceInv, [Compliance!Next]_(Compliance!vars)
  PROVE  ComplianceInv'
<1>1. ASSUME NEW d \in Docs, NEW p \in Docs \cup {None}, Compliance!CreateDocument(d, p)
      PROVE  ComplianceInv'
  <2>1. doc' \in [Docs -> DocRows]
    BY <1>1 DEF Compliance!CreateDocument, ComplianceInv, Library, DocRows
  <2>2. QED
    BY <1>1, <2>1, DocumentTurns DEF Compliance!CreateDocument, Compliance!statements
<1>2. CASE UNCHANGED Compliance!vars
  BY <1>2, DocumentTurns DEF Compliance!vars, ComplianceInv, Library
<1>3. QED
  BY <1>1, <1>2, StatementCreated, StatementStep, DocumentStep, FilingRestarts DEF Compliance!Next

\* However issues, edits, uploads, removals and restarts meet, a statement stays in
\* force and covers every control, what is listed can be read, and bytes nothing
\* lists are of a request under way, or were left by one that a restart cut off or
\* whose unlink failed.
THEOREM ComplianceAlwaysKept ==
  ASSUME Compliance!ComplianceAssumption
  PROVE  Compliance!Spec => []ComplianceKept
<1>1. Compliance!Init => ComplianceInv
  <2> SUFFICES ASSUME Compliance!Init PROVE ComplianceInv
    OBVIOUS
  <2>1. Statements
    BY DEF Compliance!Init, Compliance!NoSoa, Statements, SoaRows, Compliance!StatementInForce
  <2>2. Library /\ Compliance!FilesMatch
    BY DEF Compliance!Init, Compliance!NoDoc, Library, DocRows, Compliance!FilesMatch, Compliance!Between
  <2>3. Filing
    BY DEF Compliance!Init, Filing, Compliance!Jobs, Compliance!Idle, Fits, OfFile, OnePathEach
  <2>4. QED
    BY <2>1, <2>2, <2>3 DEF ComplianceInv
<1>2. ComplianceInv /\ [Compliance!Next]_(Compliance!vars) => ComplianceInv'
  BY ComplianceStep
<1>3. ComplianceInv => Compliance!ComplianceKept
  BY DEF ComplianceInv, Statements, Compliance!ComplianceKept
<1>4. QED
  BY <1>1, <1>2, <1>3, PTL DEF Compliance!Spec, ComplianceKept
-----------------------------------------------------------------------------
(***************************************************************************)
(* Risks.  An update writes scores it was given or read: all of them lie   *)
(* on the scales.                                                          *)
(***************************************************************************)
UpdateTyped(j) == j.op = "update" =>
  /\ j.likelihood \in Grid /\ j.impact \in Grid
  /\ j.residualLikelihood \in Risks!Scale /\ j.residualImpact \in Risks!Scale
  /\ j.strategy \in {"ACCEPT", "OTHER", None}
  /\ j.field \in Fields /\ j.value \in Risks!Choices(j.field)
JobTyped(j) ==
  /\ UpdateTyped(j)
  /\ j.op = "assess" => j.to \in {"DRAFT", "IN_REVIEW", "APPROVED", "CLOSED"}
  /\ j.op = "review" => j.to \in {"ACCEPTED", "CLOSED"}
  /\ j.op = "plan" => j.treatment \in Treatments /\ j.assignee \in Operators
  /\ j.op \in {"treat", "treated"} => /\ j.treatment \in Treatments
                                     /\ j.status \in Risks!TreatmentStatuses
  /\ j.op = "treated" => j.to \in {"MONITORING", "TREATING"}
OfRisk == {"update", "review", "plan", "treat", "treated"}

RiskInv == /\ Risks!TypeOK
           /\ Risks!Exists => risk.likelihood \in Grid /\ risk.impact \in Grid
           /\ Risks!LevelsMatch
           /\ \A t \in Treatments : treatment[t] # Risks!NoTreatment => Risks!Exists
           /\ \A k \in Clerks : judging[k].op \in OfRisk => Risks!Exists
           /\ DOMAIN judging = Clerks /\ \A k \in Clerks : JobTyped(judging[k])

LEMMA LevelsTyped ==
  ASSUME Risks!RiskAssumption
  PROVE  /\ \A l, i \in Grid : Risks!riskLevelFor(l, i) \in Risks!Levels
         /\ \A l, i \in Risks!Scale : Risks!Residual(l, i) \in Risks!Levels \cup {None}
<1>1. ASSUME NEW l \in 1..5, NEW i \in 1..5 PROVE Risks!matrix[i][l] \in Risks!Levels
  <2>1. i \in {1, 2, 3, 4, 5} /\ l \in {1, 2, 3, 4, 5}
    OBVIOUS
  <2>2. Risks!matrix[i] \in [1..5 -> Risks!Levels]
    BY <2>1 DEF Risks!matrix, Risks!Levels
  <2>3. QED
    BY <2>2
<1>2. \A l, i \in Grid : Risks!riskLevelFor(l, i) \in Risks!Levels
  BY <1>1 DEF Risks!RiskAssumption, Risks!riskLevelFor
<1>3. QED
  BY <1>2 DEF Risks!Residual, Risks!Scale

\* What an update that was begun writes is a row, with the levels of its scores.
LEMMA UpdateWritten ==
  ASSUME Risks!RiskAssumption, RiskInv, NEW j, j.op = "update", JobTyped(j),
         risk' = Risks!Written(j)
  PROVE  /\ risk' \in Risks!Risks /\ Risks!LevelsMatch'
         /\ risk'.likelihood \in Grid /\ risk'.impact \in Grid
<1>1. /\ j.likelihood \in Grid /\ j.impact \in Grid
      /\ j.residualLikelihood \in Risks!Scale /\ j.residualImpact \in Risks!Scale
      /\ j.strategy \in {"ACCEPT", "OTHER", None}
      /\ j.field = "status" => j.value \in Risks!Statuses
      /\ j.field = "owner" => j.value \in Operators
  BY DEF JobTyped, UpdateTyped, Risks!Choices
<1>2. /\ Risks!riskLevelFor(j.likelihood, j.impact) \in Risks!Levels
      /\ Risks!Residual(j.residualLikelihood, j.residualImpact) \in Risks!Levels \cup {None}
  BY <1>1, LevelsTyped
<1>3. risk \in Risks!Risks
  BY DEF RiskInv, Risks!TypeOK
<1>4. /\ risk'.likelihood = j.likelihood /\ risk'.impact = j.impact
      /\ risk'.residualLikelihood = j.residualLikelihood
      /\ risk'.residualImpact = j.residualImpact
      /\ risk'.inherentLevel = Risks!riskLevelFor(j.likelihood, j.impact)
      /\ risk'.residualLevel = Risks!Residual(j.residualLikelihood, j.residualImpact)
  BY <1>3 DEF Risks!Written, Risks!Risks
<1>5. risk' \in Risks!Risks
  <2> DEFINE status    == IF j.field = "status" THEN j.value ELSE risk.status
             rationale == IF j.field = "rationale" THEN j.value = "text" ELSE risk.rationale
             owner     == IF j.field = "owner" THEN j.value ELSE risk.owner
  <2>1. /\ status \in Risks!Statuses \cup {"none"} /\ rationale \in BOOLEAN
        /\ owner \in Operators \cup {None}
    BY <1>1, <1>3 DEF Risks!Risks
  <2>2. risk' = [risk EXCEPT
           !.likelihood = j.likelihood, !.impact = j.impact,
           !.residualLikelihood = j.residualLikelihood, !.residualImpact = j.residualImpact,
           !.inherentLevel = Risks!riskLevelFor(j.likelihood, j.impact),
           !.residualLevel = Risks!Residual(j.residualLikelihood, j.residualImpact),
           !.strategy = j.strategy, !.status = status, !.rationale = rationale, !.owner = owner]
    BY DEF Risks!Written
  <2> HIDE DEF status, rationale, owner
  <2>3. QED
    BY <1>1, <1>2, <1>3, <2>1, <2>2 DEF Risks!Risks, Risks!Scale
<1>6. QED
  BY <1>1, <1>4, <1>5 DEF Risks!LevelsMatch

\* Changing a risk's status leaves its scores and levels alone.
LEMMA StatusMoved ==
  ASSUME RiskInv, NEW s \in Risks!Statuses, Risks!Exists, risk' = [risk EXCEPT !.status = s]
  PROVE  /\ risk' \in Risks!Risks /\ Risks!LevelsMatch' /\ Risks!Exists'
         /\ risk'.likelihood \in Grid /\ risk'.impact \in Grid
BY DEF RiskInv, Risks!TypeOK, Risks!Risks, Risks!LevelsMatch, Risks!Exists, Risks!Statuses

\* Clerks carry what they were begun with, until they end.
LEMMA RiskJobs ==
  ASSUME RiskInv, NEW k \in Clerks
  PROVE  /\ \A j : JobTyped(j) /\ Risks!Begin(k, j) =>
              DOMAIN judging' = Clerks /\ \A i \in Clerks : JobTyped(judging'[i])
         /\ Risks!End(k) => DOMAIN judging' = Clerks /\ \A i \in Clerks : JobTyped(judging'[i])
BY DEF RiskInv, Risks!Begin, Risks!End, Risks!Idle, JobTyped, UpdateTyped

\* A read begins a typed request, about a risk that exists if it is about the risk.
Begins(k) == /\ UNCHANGED <<assessment, risk, treatment>>
             /\ \E j : /\ JobTyped(j) /\ Risks!Begin(k, j)
                       /\ j.op \in OfRisk => Risks!Exists

LEMMA RiskReads ==
  ASSUME Risks!RiskAssumption, RiskInv, NEW k \in Clerks
  PROVE  /\ \A u \in Operators, d \in DOMAIN Risks!decide :
              Risks!ReviewAssessmentRead(k, u, d) => Begins(k)
         /\ \A u \in Operators, f \in Fields : \A x \in Risks!Choices(f) :
              Risks!UpdateRiskRead(k, u, f, x) => Begins(k)
         /\ \A u \in Operators, to \in {"ACCEPTED", "CLOSED"} :
              Risks!ReviewRiskRead(k, u, to) => Begins(k)
         /\ \A t \in Treatments, u \in Assignees : Risks!AddTreatmentRead(k, t, u) => Begins(k)
         /\ \A u \in Operators, t \in Treatments, s \in Moves, outcome \in Outcomes \cup {None} :
              Risks!UpdateTreatmentRead(k, u, t, s, outcome) => Begins(k)
<1>1. ASSUME NEW u \in Operators, NEW d \in DOMAIN Risks!decide,
             Risks!ReviewAssessmentRead(k, u, d)
      PROVE  Begins(k)
  <2>1. d \in {"SUBMIT", "RETURN_FOR_CHANGES", "APPROVE", "CLOSE"}
    BY DEF Risks!decide
  <2>2. Risks!decide[d].to \in {"DRAFT", "IN_REVIEW", "APPROVED", "CLOSED"}
    BY <2>1 DEF Risks!decide
  <2> DEFINE j == [op |-> "assess",
                   to |-> Risks!assessmentStatusAfterDecision(assessment.status, d)]
  <2>3. Risks!Begin(k, j) /\ JobTyped(j)
    BY <1>1, <2>2
    DEF Risks!ReviewAssessmentRead, Risks!assessmentStatusAfterDecision, JobTyped, UpdateTyped
  <2>4. QED
    BY <1>1, <2>3 DEF Begins, Risks!ReviewAssessmentRead, OfRisk
<1>2. ASSUME NEW u \in Operators, NEW f \in Fields, NEW x \in Risks!Choices(f),
             Risks!UpdateRiskRead(k, u, f, x)
      PROVE  Begins(k)
  <2> DEFINE given(field) == Risks!Given(f, x, field)
             j == [op |-> "update", field |-> f, value |-> x,
                   likelihood |-> given("likelihood"), impact |-> given("impact"),
                   residualLikelihood |-> given("residualLikelihood"),
                   residualImpact |-> given("residualImpact"), strategy |-> given("strategy")]
  <2>1. Risks!Exists /\ risk \in Risks!Risks
    BY <1>2 DEF Risks!UpdateRiskRead, RiskInv, Risks!TypeOK
  <2>2. /\ given("likelihood") \in Grid /\ given("impact") \in Grid
        /\ given("residualLikelihood") \in Risks!Scale /\ given("residualImpact") \in Risks!Scale
        /\ given("strategy") \in {"ACCEPT", "OTHER", None}
    BY <2>1 DEF Risks!Given, Risks!Choices, Risks!Scale, Risks!Risks, RiskInv
  <2>3. JobTyped(j)
    BY <2>2 DEF JobTyped, UpdateTyped
  <2>4. Risks!Begin(k, j) /\ UNCHANGED <<assessment, risk, treatment>>
    BY <1>2 DEF Risks!UpdateRiskRead
  <2>5. QED
    BY <2>1, <2>3, <2>4 DEF Begins
<1>3. ASSUME NEW u \in Operators, NEW to \in {"ACCEPTED", "CLOSED"}, Risks!ReviewRiskRead(k, u, to)
      PROVE  Begins(k)
  BY <1>3 DEF Begins, Risks!ReviewRiskRead, JobTyped, UpdateTyped
<1>4. ASSUME NEW t \in Treatments, NEW u \in Assignees, Risks!AddTreatmentRead(k, t, u)
      PROVE  Begins(k)
  BY <1>4 DEF Begins, Risks!AddTreatmentRead, JobTyped, UpdateTyped, Risks!RiskAssumption
<1>5. ASSUME NEW u \in Operators, NEW t \in Treatments, NEW s \in Moves,
             NEW outcome \in Outcomes \cup {None},
             Risks!UpdateTreatmentRead(k, u, t, s, outcome)
      PROVE  Begins(k)
  <2>1. Risks!Exists
    BY <1>5 DEF Risks!UpdateTreatmentRead, RiskInv
  <2>2. s \in Risks!TreatmentStatuses
    BY DEF Risks!RiskAssumption, Risks!TreatmentStatuses
  <2>3. QED
    BY <1>5, <2>1, <2>2 DEF Begins, Risks!UpdateTreatmentRead, JobTyped, UpdateTyped
<1>6. QED
  BY <1>1, <1>2, <1>3, <1>4, <1>5

LEMMA RiskStep ==
  ASSUME Risks!RiskAssumption
  PROVE  RiskInv /\ [Risks!Next]_(Risks!vars) => RiskInv'
<1> SUFFICES ASSUME RiskInv, [Risks!Next]_(Risks!vars) PROVE RiskInv'
  OBVIOUS
<1> DEFINE Rows == /\ risk' \in Risks!Risks /\ Risks!LevelsMatch'
                   /\ Risks!Exists' => risk'.likelihood \in Grid /\ risk'.impact \in Grid
                   /\ Risks!Exists => Risks!Exists'
           Assessed == assessment' \in
             [status : {"none", "DRAFT", "IN_REVIEW", "APPROVED", "CLOSED"},
              owner : Operators \cup {None}, approver : Operators \cup {None}]
           Treated == /\ treatment' \in [Treatments -> Risks!Treatment]
                      /\ \A t \in Treatments : treatment'[t] # Risks!NoTreatment => Risks!Exists'
           Judged == /\ DOMAIN judging' = Clerks /\ \A i \in Clerks : JobTyped(judging'[i])
                     /\ \A i \in Clerks : judging'[i].op \in OfRisk => Risks!Exists'
<1>0. /\ risk' = risk => Rows
      /\ assessment' = assessment => Assessed
      /\ treatment' = treatment /\ Rows => Treated
      /\ judging' = judging /\ Rows => Judged
      /\ \A k \in Clerks : Risks!End(k) /\ Rows => Judged
  BY RiskJobs DEF RiskInv, Risks!TypeOK, Risks!Exists, Risks!LevelsMatch, Risks!End, Risks!Idle, OfRisk
<1>1. SUFFICES Rows /\ Assessed /\ Treated /\ Judged
  BY DEF RiskInv, Risks!TypeOK
<1>2. ASSUME NEW k \in Clerks, Begins(k) PROVE Rows /\ Assessed /\ Treated /\ Judged
  <2>1. PICK j : /\ JobTyped(j) /\ Risks!Begin(k, j)
                 /\ j.op \in OfRisk => Risks!Exists
    BY <1>2 DEF Begins
  <2>2. Judged
    BY <1>2, <2>1, RiskJobs DEF Begins, Risks!Begin, RiskInv, Risks!Exists
  <2>3. QED
    BY <1>0, <1>2, <2>2 DEF Begins
<1>3. ASSUME NEW s \in Risks!Statuses, Risks!Exists, risk' = [risk EXCEPT !.status = s]
      PROVE  Rows
  BY <1>3, StatusMoved
<1> HIDE DEF Rows, Assessed, Treated, Judged
<1>4. ASSUME NEW u \in Operators, NEW a \in Operators \cup {None}, Risks!CreateAssessment(u, a)
      PROVE  Rows /\ Assessed /\ Treated /\ Judged
  BY <1>0, <1>4 DEF Risks!CreateAssessment, Assessed
<1>5. ASSUME NEW u \in Operators, NEW l \in First, NEW i \in First, NEW rl \in First \cup {None},
             NEW ri \in First \cup {None}, NEW s \in Strategies, NEW why \in BOOLEAN,
             Risks!CreateRisk(u, l, i, rl, ri, s, why)
      PROVE  Rows /\ Assessed /\ Treated /\ Judged
  <2>1. /\ l \in Grid /\ i \in Grid /\ rl \in Risks!Scale /\ ri \in Risks!Scale
        /\ s \in {"ACCEPT", "OTHER"}
    BY DEF Risks!RiskAssumption, Risks!Scale
  <2>2. /\ Risks!riskLevelFor(l, i) \in Risks!Levels
        /\ Risks!Residual(rl, ri) \in Risks!Levels \cup {None}
    BY <2>1, LevelsTyped
  <2>3. Rows
    BY <1>5, <2>1, <2>2
    DEF Rows, Risks!CreateRisk, Risks!Risks, Risks!Statuses, Risks!Scale, Risks!LevelsMatch,
        Risks!Exists
  <2>4. QED
    BY <1>0, <1>5, <2>3 DEF Risks!CreateRisk
<1>6. ASSUME NEW k \in Clerks, Risks!UpdateTreatmentCount(k)
      PROVE  Rows /\ Assessed /\ Treated /\ Judged
  <2> DEFINE j == judging[k]
  <2>1. PICK q \in {"MONITORING", "TREATING"} :
          judging' = [judging EXCEPT ![k] = [op |-> "treated", treatment |-> j.treatment,
                        status |-> j.status, outcome |-> j.outcome, to |-> q]]
    BY <1>6 DEF Risks!UpdateTreatmentCount
  <2>2. j.op = "treat" /\ JobTyped(j) /\ Risks!Exists
    BY <1>6 DEF Risks!UpdateTreatmentCount, RiskInv, OfRisk
  <2>3. JobTyped([op |-> "treated", treatment |-> j.treatment, status |-> j.status,
                  outcome |-> j.outcome, to |-> q])
    BY <2>2 DEF JobTyped, UpdateTyped
  <2>4. Judged
    BY <1>6, <2>1, <2>2, <2>3 DEF Judged, RiskInv, Risks!UpdateTreatmentCount, Risks!Exists
  <2>5. QED
    BY <1>0, <1>6, <2>4 DEF Risks!UpdateTreatmentCount
<1>7. ASSUME NEW k \in Clerks, Risks!ReviewAssessment(k)
      PROVE  Rows /\ Assessed /\ Treated /\ Judged
  <2>1. Assessed
    BY <1>7 DEF Assessed, Risks!ReviewAssessment, RiskInv, Risks!TypeOK, JobTyped
  <2>2. QED
    BY <1>0, <1>7, <2>1 DEF Risks!ReviewAssessment
<1>8. ASSUME NEW k \in Clerks, Risks!UpdateRisk(k)
      PROVE  Rows /\ Assessed /\ Treated /\ Judged
  <2>1. judging[k].op = "update" /\ JobTyped(judging[k]) /\ Risks!Exists /\ risk' = Risks!Written(judging[k])
    BY <1>8 DEF Risks!UpdateRisk, RiskInv, OfRisk
  <2>2. risk'.status # "none"
    BY <2>1
    DEF Risks!Written, RiskInv, Risks!TypeOK, Risks!Risks, JobTyped, UpdateTyped, Risks!Choices,
        Risks!Statuses, Risks!Exists
  <2>3. Rows
    BY <2>1, <2>2, UpdateWritten DEF Rows, Risks!Exists
  <2>4. QED
    BY <1>0, <1>8, <2>3 DEF Risks!UpdateRisk
<1>9. ASSUME NEW k \in Clerks, Risks!ReviewRisk(k)
      PROVE  Rows /\ Assessed /\ Treated /\ Judged
  <2>1. /\ Risks!Exists /\ judging[k].to \in Risks!Statuses
        /\ risk' = [risk EXCEPT !.status = judging[k].to]
    BY <1>9 DEF Risks!ReviewRisk, RiskInv, JobTyped, Risks!Statuses, OfRisk
  <2>2. Rows
    BY <1>3, <2>1
  <2>3. QED
    BY <1>0, <1>9, <2>2 DEF Risks!ReviewRisk
<1>10. ASSUME NEW k \in Clerks, Risks!AddTreatment(k)
       PROVE  Rows /\ Assessed /\ Treated /\ Judged
  <2>1. CASE UNCHANGED <<risk, treatment>>
    BY <1>0, <1>10, <2>1 DEF Risks!AddTreatment
  <2>2. CASE ~UNCHANGED <<risk, treatment>>
    <3>1. /\ treatment' = [treatment EXCEPT ![judging[k].treatment] =
                               [status |-> "PLANNED", assignee |-> judging[k].assignee,
                                outcome |-> FALSE]]
          /\ risk' = [risk EXCEPT !.status = "TREATMENT_PLANNED"]
          /\ Risks!Exists /\ judging[k].assignee \in Operators
      BY <1>10, <2>2 DEF Risks!AddTreatment, RiskInv, OfRisk, JobTyped
    <3>2. Rows
      BY <1>3, <3>1 DEF Risks!Statuses
    <3>3. Treated
      BY <3>1, <3>2 DEF Treated, Rows, RiskInv, Risks!TypeOK, Risks!Treatment,
                        Risks!TreatmentStatuses
    <3>4. QED
      BY <1>0, <1>10, <3>2, <3>3 DEF Risks!AddTreatment
  <2>3. QED
    BY <2>1, <2>2
<1>11. ASSUME NEW k \in Clerks, Risks!UpdateTreatment(k)
      PROVE  Rows /\ Assessed /\ Treated /\ Judged
  <2> DEFINE j == judging[k]
  <2>1. /\ j.op = "treated" /\ Risks!Exists /\ j.treatment \in Treatments
        /\ j.status \in Risks!TreatmentStatuses /\ j.to \in {"MONITORING", "TREATING"}
    BY <1>11 DEF Risks!UpdateTreatment, RiskInv, OfRisk, JobTyped
  <2>2. Rows
    BY <1>3, <1>11, <2>1 DEF Risks!UpdateTreatment, Risks!Statuses
  <2>3. PICK given \in BOOLEAN :
          treatment' = [treatment EXCEPT ![j.treatment] =
                          [treatment[j.treatment] EXCEPT !.status = j.status, !.outcome = given]]
    <3>1. treatment[j.treatment].outcome \in BOOLEAN
      BY <2>1 DEF RiskInv, Risks!TypeOK, Risks!Treatment
    <3>2. QED
      BY <1>11, <3>1 DEF Risks!UpdateTreatment
  <2>4. [treatment[j.treatment] EXCEPT !.status = j.status, !.outcome = given] \in Risks!Treatment
    BY <2>1 DEF RiskInv, Risks!TypeOK, Risks!Treatment
  <2>5. Treated
    BY <2>1, <2>2, <2>3, <2>4 DEF Treated, Rows, RiskInv, Risks!TypeOK
  <2>6. QED
    BY <1>0, <1>11, <2>2, <2>5 DEF Risks!UpdateTreatment
<1>12. CASE UNCHANGED Risks!vars
  BY <1>0, <1>12 DEF Risks!vars
<1> DEFINE Follows == Rows /\ Assessed /\ Treated /\ Judged
<1> HIDE DEF Follows
<1>13. CASE Risks!Next
  <2>1. ASSUME NEW k \in Clerks,
               \/ \E u \in Operators, d \in DOMAIN Risks!decide :
                    Risks!ReviewAssessmentRead(k, u, d)
               \/ \E u \in Operators, f \in Fields :
                    \E x \in Risks!Choices(f) : Risks!UpdateRiskRead(k, u, f, x)
               \/ \E u \in Operators, to \in {"ACCEPTED", "CLOSED"} :
                    Risks!ReviewRiskRead(k, u, to)
               \/ \E t \in Treatments, u \in Assignees : Risks!AddTreatmentRead(k, t, u)
               \/ \E u \in Operators, t \in Treatments, s \in Moves,
                     outcome \in Outcomes \cup {None} :
                    Risks!UpdateTreatmentRead(k, u, t, s, outcome)
        PROVE  Begins(k)
    BY <2>1, RiskReads
  <2>2. ASSUME NEW k \in Clerks, Begins(k) PROVE Follows
    BY <1>2, <2>2 DEF Follows
  <2>3. ASSUME NEW k \in Clerks,
               \/ Risks!ReviewAssessment(k) \/ Risks!UpdateRisk(k)
               \/ Risks!ReviewRisk(k) \/ Risks!AddTreatment(k)
               \/ Risks!UpdateTreatmentCount(k) \/ Risks!UpdateTreatment(k)
        PROVE  Follows
    BY <1>6, <1>7, <1>8, <1>9, <1>10, <1>11, <2>3 DEF Follows
  <2>4. ASSUME NEW u \in Operators, NEW l \in First, NEW i \in First,
               NEW rl \in First \cup {None}, NEW ri \in First \cup {None},
               NEW s \in Strategies, NEW why \in BOOLEAN,
               Risks!CreateRisk(u, l, i, rl, ri, s, why)
        PROVE  Follows
    BY <1>5, <2>4 DEF Follows
  <2>5. ASSUME NEW u \in Operators, NEW a \in Operators \cup {None},
               Risks!CreateAssessment(u, a)
        PROVE  Follows
    BY <1>4, <2>5 DEF Follows
  <2>6. ASSUME \E u \in Operators, l, i \in First, rl, ri \in First \cup {None},
                  s \in Strategies, why \in BOOLEAN : Risks!CreateRisk(u, l, i, rl, ri, s, why)
        PROVE  Follows
    BY <2>4, <2>6
  <2>7. ASSUME \E k \in Clerks : Begins(k) PROVE Follows
    BY <2>2, <2>7
  <2>8. Follows
    BY <1>13, <2>1, <2>3, <2>5, <2>6, <2>7, Zenon DEF Risks!Next
  <2>9. QED
    BY <2>8 DEF Follows
<1>14. QED
  BY <1>12, <1>13

\* The level shown beside the scores of a risk is the one the criteria give them,
\* in both grids, whichever updates crossed: an update writes the scores and the
\* levels it computed from them together.
THEOREM LevelsAlwaysMatch ==
  ASSUME Risks!RiskAssumption
  PROVE  Risks!Spec => []LevelsMatch
<1>1. Risks!Init => RiskInv
  BY DEF Risks!Init, Risks!Unwritten, Risks!Idle, RiskInv, Risks!TypeOK, Risks!Risks, Risks!Scale,
         Risks!Exists, Risks!LevelsMatch, Risks!NoTreatment, Risks!Treatment, OfRisk,
         JobTyped, UpdateTyped
<1>2. RiskInv => Risks!LevelsMatch
  BY DEF RiskInv
<1>3. QED
  BY <1>1, <1>2, RiskStep, PTL DEF Risks!Spec, LevelsMatch
-----------------------------------------------------------------------------
(***************************************************************************)
(* Accounts.  A live session is of an account that exists and that no      *)
(* directory keeps; what the one request under way has read still stands.  *)
(***************************************************************************)
Local(u) == u \notin Directory /\ Office!Created(u)

Stands(j) ==
  /\ j.op \in {"update", "reset", "change", "login"} => Local(j.user)
  /\ j.op = "update" /\ Office!Takes(j.user, j.role, j.active) =>
       \E v \in Users \ (Directory \cup {j.user}) : Office!Admin(v)
  /\ j.op = "login" => j.secret = account[j.user].secret

OfficeInv == /\ Office!TypeOK
             /\ Office!AdminRemains
             /\ Office!SessionsFollowPassword
             /\ \A s \in Sessions : login[s].live => Local(login[s].user)
             /\ \A k \in Serial : Stands(administering[k])

\* What is kept of accounts and sessions, without the requests.
AccountRows == [role : Office!Roles \cup {"none"}, active : BOOLEAN, must : BOOLEAN, secret : Nat]
OfficeRows == /\ account \in [Users -> AccountRows]
              /\ login \in [Sessions -> [user : Users, secret : Nat, live : BOOLEAN]]
LiveSessions == \A s \in Sessions : login[s].live =>
  Local(login[s].user) /\ login[s].secret = account[login[s].user].secret

LEMMA OfficeParts ==
  /\ OfficeInv <=> /\ OfficeRows /\ Office!AdminRemains /\ LiveSessions
                   /\ administering \in [Serial -> Office!Jobs]
                   /\ \A k \in Serial : Stands(administering[k])
  /\ OfficeInv' <=> /\ OfficeRows' /\ Office!AdminRemains' /\ LiveSessions'
                    /\ administering' \in [Serial -> Office!Jobs]
                    /\ \A k \in Serial : Stands(administering[k])'
BY DEF OfficeInv, OfficeRows, AccountRows, LiveSessions, Office!TypeOK,
       Office!SessionsFollowPassword,
       Office!Jobs, Office!Roles, Office!Idle

\* Where no local account changes, an administrator remains and what was read stands.
LEMMA LocalsUntouched ==
  ASSUME OfficeInv, \A v \in Users : Local(v) => account'[v] = account[v]
  PROVE  /\ Office!AdminRemains'
         /\ login' = login => LiveSessions'
         /\ administering' = administering => \A k \in Serial : Stands(administering[k])'
<1>0. /\ OfficeRows /\ Office!AdminRemains /\ LiveSessions
      /\ administering \in [Serial -> Office!Jobs] /\ \A k \in Serial : Stands(administering[k])
  BY OfficeParts
<1>1. \A v \in Users : Local(v) => Local(v)'
  BY DEF Local, Office!Created
<1>2. \A v \in Users \ Directory : Office!Admin(v) => Office!Admin(v)'
  BY DEF Local, Office!Created, Office!Admin
<1>3. Office!AdminRemains'
  BY <1>0, <1>2 DEF Office!AdminRemains
<1>4. login' = login => LiveSessions'
  <2> SUFFICES ASSUME login' = login, NEW s \in Sessions, login[s].live
               PROVE  /\ Local(login[s].user)'
                      /\ login[s].secret = account'[login[s].user].secret
    BY DEF LiveSessions
  <2>1. login[s].user \in Users /\ Local(login[s].user)
        /\ login[s].secret = account[login[s].user].secret
    BY <1>0 DEF OfficeRows, LiveSessions
  <2>2. account'[login[s].user] = account[login[s].user]
    BY <2>1
  <2>3. QED
    BY <2>1, <2>2 DEF Local, Office!Created
<1>5. ASSUME administering' = administering, NEW k \in Serial PROVE Stands(administering[k])'
  <2>1. administering[k] \in Office!Jobs /\ Stands(administering[k])
    BY <1>0
  <2>2. CASE administering[k].op \in {"update", "reset", "change", "login"}
    <3>1. administering[k].user \in Users /\ Local(administering[k].user)
      BY <2>1, <2>2 DEF Stands, Office!Jobs, Office!Idle
    <3>2. account'[administering[k].user] = account[administering[k].user]
      BY <3>1
    <3>3. QED
      BY <1>2, <1>5, <2>1, <3>1, <3>2 DEF Stands, Local, Office!Created, Office!Takes
  <2>3. CASE administering[k].op \notin {"update", "reset", "change", "login"}
    BY <1>5, <2>3 DEF Stands
  <2>4. QED
    BY <2>2, <2>3
<1>6. QED
  BY <1>3, <1>4, <1>5

\* A request that begins or ends is the only one.
LEMMA OfficeTurn ==
  ASSUME OneRequest, OfficeInv, NEW k \in Serial, NEW j \in Office!Jobs,
         administering' = [administering EXCEPT ![k] = j]
  PROVE  administering' \in [Serial -> Office!Jobs] /\ \A i \in Serial : administering'[i] = j
BY DEF OneRequest, OfficeInv, Office!TypeOK

\* A request that ends leaves nothing to stand.
LEMMA OfficeEnds ==
  ASSUME OneRequest, OfficeInv, NEW k \in Serial, Office!End(k)
  PROVE  administering' \in [Serial -> Office!Jobs] /\ \A i \in Serial : Stands(administering[i])'
<1>1. Office!Idle \in Office!Jobs
  BY DEF Office!Jobs
<1>2. administering' \in [Serial -> Office!Jobs] /\ \A i \in Serial : administering'[i] = Office!Idle
  BY <1>1, OfficeTurn DEF Office!End
<1>3. QED
  BY <1>2 DEF Stands, Office!Idle

\* A read begins a request that stands.
LEMMA OfficeReads ==
  ASSUME OneRequest, OfficeInv, NEW k \in Serial, NEW j \in Office!Jobs, Stands(j),
         Office!Begin(k, j), UNCHANGED <<account, login>>
  PROVE  OfficeInv'
<1>1. administering' \in [Serial -> Office!Jobs] /\ \A i \in Serial : administering'[i] = j
  BY OfficeTurn DEF Office!Begin
<1>2. /\ OfficeRows /\ Office!AdminRemains /\ LiveSessions
  BY OfficeParts
<1>3. OfficeRows' /\ Office!AdminRemains' /\ LiveSessions'
  BY <1>2
  DEF OfficeRows, Office!AdminRemains, Office!Admin, LiveSessions, Local, Office!Created
<1>4. ASSUME NEW i \in Serial PROVE Stands(administering[i])'
  <2>1. administering'[i] = j
    BY <1>1
  <2>2. QED
    BY <2>1 DEF Stands, Local, Office!Created, Office!Takes, Office!Admin
<1>5. QED
  BY <1>1, <1>3, <1>4, OfficeParts

\* An administrator who asks for another's right to be taken away remains.
LEMMA TakingLeavesOne ==
  ASSUME OfficeInv, NEW actor \in Office!Acting, NEW u, NEW role, NEW active,
         Office!Allowed(actor, u, role, active), Office!Takes(u, role, active)
  PROVE  \E v \in Users \ (Directory \cup {u}) : Office!Admin(v)
<1>1. actor \in Users /\ Office!Admin(actor)
  BY DEF Office!Acting, Office!SignedIn, Office!Admin
<1>2. actor \notin Directory
  <2>1. PICK s \in Sessions : login[s].live /\ login[s].user = actor
    BY DEF Office!Acting, Office!SignedIn
  <2>2. QED
    BY <2>1 DEF OfficeInv, Local
<1>3. actor # u
  BY DEF Office!Allowed
<1>4. QED
  BY <1>1, <1>2, <1>3

LEMMA OfficeStep ==
  ASSUME OneRequest, Office!AccountAssumption
  PROVE  OfficeInv /\ [Office!Next]_(Office!vars) => OfficeInv'
<1> SUFFICES ASSUME OfficeInv, [Office!Next]_(Office!vars) PROVE OfficeInv'
  OBVIOUS
<1>0. /\ OfficeRows /\ Office!AdminRemains /\ LiveSessions
      /\ administering \in [Serial -> Office!Jobs] /\ \A k \in Serial : Stands(administering[k])
  BY OfficeParts
<1>1. ASSUME NEW u \in Users, NEW role \in Office!Roles,
             Office!Create(u, role) \/ \E a \in BOOLEAN : Office!Synchronise(u, role, a)
      PROVE  OfficeInv'
  <2>1. \A v \in Users : Local(v) => account'[v] = account[v]
    BY <1>0, <1>1 DEF Office!Create, Office!Synchronise, Local, OfficeRows
  <2>2. UNCHANGED <<login, administering>>
    BY <1>1 DEF Office!Create, Office!Synchronise
  <2>3. PICK new \in AccountRows : account' = [account EXCEPT ![u] = new]
    <3>1. \A a, must \in BOOLEAN, n \in Nat :
            [role |-> role, active |-> a, must |-> must, secret |-> n] \in AccountRows
      BY DEF AccountRows
    <3>2. CASE Office!Create(u, role)
      BY <3>1, <3>2 DEF Office!Create
    <3>3. CASE \E a \in BOOLEAN : Office!Synchronise(u, role, a)
      BY <3>1, <3>3 DEF Office!Synchronise
    <3>4. QED
      BY <1>1, <3>2, <3>3
  <2>4. OfficeRows'
    BY <1>0, <2>2, <2>3 DEF OfficeRows
  <2>5. QED
    BY <1>0, <2>1, <2>2, <2>4, LocalsUntouched, OfficeParts
<1>2. ASSUME NEW k \in Serial, NEW actor \in Users, NEW u \in Users,
             NEW role \in Office!Roles \cup {Absent}, NEW a \in BOOLEAN \cup {Absent},
             Office!UpdateRead(k, actor, u, role, a)
      PROVE  OfficeInv'
  <2> DEFINE j == [op |-> "update", user |-> u, role |-> role, active |-> a]
  <2>1. /\ actor \in Office!Acting /\ Office!Created(u) /\ Office!Allowed(actor, u, role, a)
        /\ Office!Begin(k, j) /\ UNCHANGED <<account, login>>
    BY <1>2 DEF Office!UpdateRead
  <2>2. j \in Office!Jobs
    BY DEF Office!Jobs
  <2>3. Local(u)
    BY <2>1 DEF Local, Office!Allowed
  <2>4. Office!Takes(u, role, a) => \E v \in Users \ (Directory \cup {u}) : Office!Admin(v)
    BY <2>1, TakingLeavesOne
  <2>5. Stands(j)
    BY <2>3, <2>4 DEF Stands
  <2>6. QED
    BY <2>1, <2>2, <2>5, OfficeReads
<1>3. ASSUME NEW k \in Serial, NEW u \in Users,
             Office!ResetRead(k, u) \/ Office!ChangeRead(k, u) \/ Office!LoginRead(k, u)
      PROVE  OfficeInv'
  <2>1. Local(u)
    BY <1>0, <1>3
    DEF Office!ResetRead, Office!ChangeRead, Office!LoginRead, Local, Office!SignedIn, LiveSessions
  <2>2. PICK j : /\ Office!Begin(k, j) /\ UNCHANGED <<account, login>>
                 /\ \/ j = [op |-> "reset", user |-> u]
                    \/ j = [op |-> "change", user |-> u]
                    \/ j = [op |-> "login", user |-> u, secret |-> account[u].secret]
    BY <1>3 DEF Office!ResetRead, Office!ChangeRead, Office!LoginRead
  <2>3. account[u].secret \in Nat
    BY <1>0 DEF OfficeRows, AccountRows
  <2>4. j \in Office!Jobs
    BY <2>2, <2>3 DEF Office!Jobs
  <2>5. Stands(j)
    BY <2>1, <2>2 DEF Stands
  <2>6. QED
    BY <2>2, <2>4, <2>5, OfficeReads
<1>4. ASSUME NEW k \in Serial, Office!UpdateWrite(k) PROVE OfficeInv'
  <2> DEFINE j == administering[k]
  <2>1. /\ j.op = "update" /\ j.user \in Users /\ j.role \in Office!Roles \cup {Absent}
        /\ j.active \in BOOLEAN \cup {Absent} /\ Stands(j) /\ login' = login
    BY <1>0, <1>4 DEF Office!UpdateWrite, Office!Jobs, Office!Idle
  <2>2. PICK u \in Users : u = j.user
    BY <2>1
  <2>3. Local(u) /\ account[u] \in AccountRows
    BY <1>0, <2>1, <2>2 DEF Stands, OfficeRows
  <2> DEFINE role   == IF j.role = Absent THEN account[u].role ELSE j.role
             active == IF j.active = Absent THEN account[u].active ELSE j.active
  <2>4. role \in Office!Roles \cup {"none"} /\ active \in BOOLEAN /\ role # "none"
    BY <2>1, <2>3 DEF Office!Roles, Local, Office!Created, AccountRows
  <2>5. account' = [account EXCEPT ![u] = [account[u] EXCEPT !.role = role, !.active = active]]
    <3>1. account' = [account EXCEPT ![u] =
            [account[u] EXCEPT
               !.role = IF j.role = Absent THEN account[u].role ELSE j.role,
               !.active = IF j.active = Absent THEN account[u].active ELSE j.active]]
      BY <1>0, <1>4, <2>2, <2>3 DEF Office!UpdateWrite, OfficeRows, AccountRows
    <3>2. QED
      BY <3>1
  <2>6. ~Office!Takes(u, j.role, j.active) /\ Office!Admin(u) => role = "ADMIN" /\ active = TRUE
    BY <2>1, <2>3 DEF Office!Takes, Office!Admin, AccountRows
  <2> HIDE DEF role, active
  <2>7. /\ \A v \in Users \ {u} : account'[v] = account[v]
        /\ account'[u].role = role /\ account'[u].active = active
        /\ account'[u].secret = account[u].secret
        /\ OfficeRows'
    BY <1>0, <2>1, <2>3, <2>4, <2>5 DEF OfficeRows, AccountRows
  <2>8. Office!AdminRemains'
    <3>1. CASE Office!Takes(u, j.role, j.active)
      <4>1. PICK v \in Users \ (Directory \cup {u}) : Office!Admin(v)
        BY <2>1, <2>2, <3>1 DEF Stands
      <4>2. QED
        BY <2>7, <4>1 DEF Office!AdminRemains, Office!Admin
    <3>2. CASE ~Office!Takes(u, j.role, j.active)
      <4>1. PICK v \in Users \ Directory : Office!Admin(v)
        BY <1>0 DEF Office!AdminRemains
      <4>2. CASE v = u
        BY <2>6, <2>7, <3>2, <4>1, <4>2 DEF Office!AdminRemains, Office!Admin
      <4>3. CASE v # u
        BY <2>7, <4>1, <4>3 DEF Office!AdminRemains, Office!Admin
      <4>4. QED
        BY <4>2, <4>3
    <3>3. QED
      BY <3>1, <3>2
  <2>9. LiveSessions'
    <3> SUFFICES ASSUME NEW s \in Sessions, login[s].live
                 PROVE  /\ Local(login[s].user)'
                        /\ login[s].secret = account'[login[s].user].secret
      BY <2>1 DEF LiveSessions
    <3>1. /\ login[s].user \in Users /\ Local(login[s].user)
          /\ login[s].secret = account[login[s].user].secret
      BY <1>0 DEF LiveSessions, OfficeRows
    <3>2. QED
      BY <2>1, <2>3, <2>4, <2>7, <3>1 DEF Local, Office!Created
  <2>10. administering' \in [Serial -> Office!Jobs] /\ \A i \in Serial : Stands(administering[i])'
    <3>1. CASE administering' = [administering EXCEPT ![k] = [op |-> "revoke", user |-> u]]
      <4>1. [op |-> "revoke", user |-> u] \in Office!Jobs
        BY DEF Office!Jobs
      <4>2. /\ administering' \in [Serial -> Office!Jobs]
            /\ \A i \in Serial : administering'[i] = [op |-> "revoke", user |-> u]
        BY <3>1, <4>1, OfficeTurn
      <4>3. QED
        BY <4>2 DEF Stands
    <3>2. CASE Office!End(k)
      BY <3>2, OfficeEnds
    <3>3. QED
      BY <1>4, <2>2, <3>1, <3>2 DEF Office!UpdateWrite
  <2>11. QED
    BY <2>7, <2>8, <2>9, <2>10, OfficeParts
<1>5. ASSUME NEW S \in SUBSET Sessions, account' = account,
             login' = [s \in Sessions |-> IF s \in S THEN [login[s] EXCEPT !.live = FALSE]
                                            ELSE login[s]]
      PROVE  OfficeRows' /\ Office!AdminRemains' /\ LiveSessions'
  <2>1. OfficeRows'
    BY <1>0, <1>5 DEF OfficeRows
  <2>2. \A s \in Sessions : login'[s].live => login'[s] = login[s] /\ login[s].live
    BY <1>0, <1>5 DEF OfficeRows
  <2>3. QED
    BY <1>0, <1>5, <2>1, <2>2
    DEF Office!AdminRemains, Office!Admin, LiveSessions, Local, Office!Created
<1>6. ASSUME NEW k \in Serial, Office!UpdateRevoke(k) PROVE OfficeInv'
  <2> DEFINE S == {s \in Sessions : login[s].user = administering[k].user}
  <2>1. /\ account' = account /\ Office!End(k)
        /\ login' = [s \in Sessions |-> IF s \in S THEN [login[s] EXCEPT !.live = FALSE]
                                          ELSE login[s]]
    BY <1>6 DEF Office!UpdateRevoke, Office!Revoked
  <2> HIDE DEF S
  <2>2. S \in SUBSET Sessions
    BY DEF S
  <2>3. QED
    BY <1>5, <2>1, <2>2, OfficeEnds, OfficeParts
<1>7. ASSUME NEW k \in Serial, Office!NewPassword(k) PROVE OfficeInv'
  <2>1. PICK u \in Users : u = administering[k].user /\ Local(u)
    BY <1>0, <1>7 DEF Office!NewPassword, Stands, Office!Jobs, Office!Idle
  <2>2. PICK must \in BOOLEAN :
          account' = [account EXCEPT ![u] = [account[u] EXCEPT !.secret = account[u].secret + 1,
                                                               !.must = must]]
    BY <1>0, <1>7, <2>1 DEF Office!NewPassword, OfficeRows, AccountRows
  <2>3. PICK new \in AccountRows : /\ new.role = account[u].role
                                   /\ new.active = account[u].active
                                   /\ account' = [account EXCEPT ![u] = new]
    <3>1. account[u] \in AccountRows /\ account[u].secret + 1 \in Nat
      BY <1>0 DEF OfficeRows, AccountRows
    <3>2. QED
      BY <2>2, <3>1 DEF AccountRows
  <2>4. /\ \A v \in Users \ {u} : account'[v] = account[v]
        /\ account'[u].role = account[u].role /\ account'[u].active = account[u].active
        /\ account' \in [Users -> AccountRows]
    BY <1>0, <2>3 DEF OfficeRows
  <2>5. /\ login' \in [Sessions -> [user : Users, secret : Nat, live : BOOLEAN]]
        /\ \A s \in Sessions : login'[s].live =>
             login'[s] = login[s] /\ login[s].live /\ login[s].user # u
    BY <1>0, <1>7, <2>1 DEF Office!NewPassword, Office!Revoked, OfficeRows
  <2>6. Office!AdminRemains'
    BY <1>0, <2>4 DEF Office!AdminRemains, Office!Admin
  <2>7. LiveSessions'
    <3>1. ASSUME NEW s \in Sessions, login'[s].live
          PROVE  /\ login'[s].user \notin Directory
                 /\ account'[login'[s].user].role # "none"
                 /\ login'[s].secret = account'[login'[s].user].secret
      <4>1. /\ login'[s] = login[s] /\ login[s].live /\ login[s].user \in Users \ {u}
        BY <1>0, <2>5, <3>1 DEF OfficeRows
      <4>2. account'[login[s].user] = account[login[s].user]
        BY <2>4, <4>1
      <4>3. QED
        BY <1>0, <4>1, <4>2 DEF LiveSessions, Local, Office!Created
    <3>2. QED
      BY <3>1 DEF LiveSessions, Local, Office!Created
  <2>8. QED
    BY <1>7, <2>4, <2>5, <2>6, <2>7, OfficeEnds, OfficeParts DEF Office!NewPassword, OfficeRows
<1>8. ASSUME NEW k \in Serial, NEW s \in Sessions, Office!LoginCommit(k, s) PROVE OfficeInv'
  <2>1. /\ administering[k].op = "login" /\ administering[k].user \in Users /\ administering[k].secret \in Nat
        /\ Local(administering[k].user) /\ administering[k].secret = account[administering[k].user].secret
    BY <1>0, <1>8 DEF Office!LoginCommit, Stands, Office!Jobs, Office!Idle
  <2>2. /\ login' = [login EXCEPT ![s] = [user |-> administering[k].user, secret |-> administering[k].secret,
                                              live |-> TRUE]]
        /\ account' = account /\ Office!End(k)
    BY <1>8 DEF Office!LoginCommit
  <2>3. OfficeRows' /\ Office!AdminRemains'
    BY <1>0, <2>1, <2>2 DEF OfficeRows, Office!AdminRemains, Office!Admin
  <2>4. LiveSessions'
    BY <1>0, <2>1, <2>2 DEF OfficeRows, LiveSessions, Local, Office!Created
  <2>5. QED
    BY <2>2, <2>3, <2>4, OfficeEnds, OfficeParts
<1>9. ASSUME NEW s \in Sessions, Office!Leave(s) PROVE OfficeInv'
  <2>1. /\ account' = account /\ administering' = administering
        /\ login' = [q \in Sessions |-> IF q \in {s} THEN [login[q] EXCEPT !.live = FALSE]
                                          ELSE login[q]]
    BY <1>0, <1>9 DEF Office!Leave, OfficeRows
  <2>2. OfficeRows' /\ Office!AdminRemains' /\ LiveSessions'
    BY <1>5, <2>1
  <2>3. QED
    BY <1>0, <2>1, <2>2, LocalsUntouched, OfficeParts
<1>10. CASE Office!Restart
  <2>1. administering' \in [Serial -> Office!Jobs] /\ \A i \in Serial : Stands(administering[i])'
    BY <1>10 DEF Office!Restart, Office!Jobs, Stands, Office!Idle
  <2>2. UNCHANGED <<account, login>>
    BY <1>10 DEF Office!Restart
  <2>3. QED
    BY <1>0, <2>1, <2>2, LocalsUntouched, OfficeParts DEF OfficeRows
<1>11. CASE UNCHANGED Office!vars
  BY <1>0, <1>11, LocalsUntouched, OfficeParts DEF Office!vars, OfficeRows
<1>12. QED
  BY <1>1, <1>2, <1>3, <1>4, <1>6, <1>7, <1>8, <1>9, <1>10, <1>11 DEF Office!Next

LEMMA OfficeAlways ==
  ASSUME OneRequest, Office!AccountAssumption
  PROVE  Office!Spec => []OfficeInv
<1>1. Office!Init => OfficeInv
  <2> SUFFICES ASSUME Office!Init PROVE OfficeInv
    OBVIOUS
  <2>1. Root \in Users \ Directory
    BY DEF Office!AccountAssumption
  <2>2. OfficeRows
    BY <2>1
    DEF Office!Init, Office!NoUser, Office!NoSession, Office!Roles, OfficeRows, AccountRows
  <2>3. Office!AdminRemains
    BY <2>1 DEF Office!Init, Office!AdminRemains, Office!Admin
  <2>4. LiveSessions
    BY DEF Office!Init, Office!NoSession, LiveSessions
  <2>5. administering \in [Serial -> Office!Jobs] /\ \A k \in Serial : Stands(administering[k])
    BY DEF Office!Init, Office!Jobs, Office!Idle, Stands
  <2>6. QED
    BY <2>2, <2>3, <2>4, <2>5, OfficeParts
<1>2. QED
  BY <1>1, OfficeStep, PTL DEF Office!Spec

\* One request at a time, an administrator whom no directory keeps remains and
\* can sign in: who takes the right from another still has it, and nobody takes
\* it from oneself.
THEOREM AnAdminRemains ==
  ASSUME OneRequest, Office!AccountAssumption
  PROVE  Office!Spec => []AdminRemains
<1>1. OfficeInv => Office!AdminRemains
  BY DEF OfficeInv
<1>2. QED
  BY <1>1, OfficeAlways, PTL DEF AdminRemains

\* One request at a time, a live session was opened with the password that the
\* account has now: the password and its sessions change together, and accounts
\* of a directory have no sessions here.
THEOREM SessionsAlwaysFollow ==
  ASSUME OneRequest, Office!AccountAssumption
  PROVE  Office!Spec => []SessionsFollowPassword
<1>1. OfficeInv => Office!SessionsFollowPassword
  BY DEF OfficeInv
<1>2. QED
  BY <1>1, OfficeAlways, PTL DEF SessionsFollowPassword
=============================================================================
