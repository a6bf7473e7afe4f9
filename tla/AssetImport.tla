---------------------------- MODULE AssetImport -----------------------------
(***************************************************************************)
(* Import batches (asset-imports.service): a file is staged, committed as  *)
(* a whole, and may be rolled back as long as nothing was done with any    *)
(* asset of it.  commit and rollback are SERIALIZABLE; stage judges its    *)
(* rows before its transaction begins, so what it found free may be taken  *)
(* when the batch is committed.                                            *)
(***************************************************************************)
EXTENDS Naturals

CONSTANTS
  Batches,
  Tags,      \* asset tags, barcodes and serial numbers
  RowsOf,    \* the tags each file lists
  Faulty,    \* tags listed with a payload validateImportPayload refuses
  Admins     \* requests that may be under way at once

ImportAssumption == RowsOf \in [Batches -> SUBSET Tags] /\ Faulty \subseteq Tags

VARIABLES
  batch,  \* asset_import_batches: status, and rows found invalid
  asset,  \* the asset made of each row, and what was done with it
  taken,  \* tags of assets registered otherwise
  job     \* what each request has read

vars == <<batch, asset, taken, job>>
-----------------------------------------------------------------------------
Rows == Batches \X Tags

\* Work done on an asset that a rollback looks for, and work it does not:
\* incidents, disposal drafts and discovery links are not counted.
Looked == {"moved", "counted"}
Unlooked == {"cited"}

NoAsset == [state |-> "none", made |-> 0, work |-> {}]
AssetRows == [state : {"none", "live", "deleted"}, made : Nat, work : SUBSET (Looked \cup Unlooked)]

Idle == [op |-> "idle"]
Jobs == {Idle}
  \cup [op : {"stage"}, batch : Batches, invalid : SUBSET Tags]
  \cup [op : {"commit"}, batch : Batches, doomed : BOOLEAN]
  \cup [op : {"rollback"}, batch : Batches, clean : BOOLEAN, doomed : BOOLEAN]

Live(r)  == asset[r].state = "live"
Occupied == taken \cup {t \in Tags : \E b \in Batches : Live(<<b, t>>)}

Init ==
  /\ batch = [b \in Batches |-> [status |-> "none", invalid |-> {}]]
  /\ asset = [r \in Rows |-> NoAsset]
  /\ taken = {}
  /\ job = [k \in Admins |-> Idle]
-----------------------------------------------------------------------------
(***************************************************************************)
(* k ends; of the others, the open transactions on b, or on the asset that *)
(* was touched, cannot commit any more. Mutant: they can.                  *)
(***************************************************************************)
DoomNone(others, b) == job
Doom(others, b) ==
  [k \in Admins |-> IF k \in others /\ job[k].op \in {"commit", "rollback"} /\ job[k].batch = b
                    THEN [job[k] EXCEPT !.doomed = TRUE] ELSE job[k]]
Finish(k, b) == [Doom(Admins \ {k}, b) EXCEPT ![k] = Idle]
Stop(k) == [job EXCEPT ![k] = Idle]

\* The rest of the register: assets created by hand, deleted by an
\* administrator, handed out or edited, counted, cited by an incident.
Register(t) ==
  /\ t \notin Occupied /\ taken' = taken \cup {t}
  /\ UNCHANGED <<batch, asset, job>>

Retire(t) ==
  /\ t \in taken /\ taken' = taken \ {t}
  /\ UNCHANGED <<batch, asset, job>>

Delete(r) ==
  /\ Live(r) /\ asset' = [asset EXCEPT ![r].state = "deleted", ![r].work = @ \cup {"moved"}]
  /\ job' = Doom(Admins, r[1])
  /\ UNCHANGED <<batch, taken>>

Work(r, w) ==
  /\ Live(r) /\ asset' = [asset EXCEPT ![r].work = @ \cup {w}]
  /\ job' = IF w \in Looked THEN Doom(Admins, r[1]) ELSE job
  /\ UNCHANGED <<batch, taken>>
-----------------------------------------------------------------------------
StageRead(k, b) ==
  /\ job[k] = Idle /\ batch[b].status = "none"
  /\ \A c \in Admins : job[c].op = "stage" => job[c].batch # b
  /\ job' = [job EXCEPT ![k] = [op |-> "stage", batch |-> b,
               invalid |-> {t \in RowsOf[b] : t \in Occupied \/ t \in Faulty}]]
  /\ UNCHANGED <<batch, asset, taken>>

StageCommit(k) ==
  /\ job[k].op = "stage"
  /\ batch' = [batch EXCEPT ![job[k].batch] = [status |-> "STAGED", invalid |-> job[k].invalid]]
  /\ job' = Stop(k)
  /\ UNCHANGED <<asset, taken>>

CommitRead(k, b) ==
  /\ job[k] = Idle
  /\ batch[b].status = "STAGED" /\ batch[b].invalid = {} /\ RowsOf[b] # {}
  /\ job' = [job EXCEPT ![k] = [op |-> "commit", batch |-> b, doomed |-> FALSE]]
  /\ UNCHANGED <<batch, asset, taken>>

\* One row that meets a unique index undoes all of them. Mutant: the rows
\* that are free go in.
CommitFree(k) ==
  /\ job[k].op = "commit"
  /\ LET b == job[k].batch
         free == {t \in RowsOf[b] : t \notin Occupied} IN
       IF job[k].doomed THEN job' = Stop(k) /\ UNCHANGED <<batch, asset>>
       ELSE /\ batch' = [batch EXCEPT ![b].status = "COMMITTED"]
            /\ asset' = [r \in Rows |-> IF r[1] = b /\ r[2] \in free
                           THEN [state |-> "live", made |-> asset[r].made + 1, work |-> {}]
                           ELSE asset[r]]
            /\ job' = Finish(k, b)
  /\ UNCHANGED taken
Commit(k) ==
  /\ job[k].op = "commit"
  /\ LET b == job[k].batch IN
       IF job[k].doomed \/ RowsOf[b] \cap Occupied # {}
       THEN job' = Stop(k) /\ UNCHANGED <<batch, asset>>
       ELSE /\ batch' = [batch EXCEPT ![b].status = "COMMITTED"]
            /\ asset' = [r \in Rows |-> IF r[1] = b /\ r[2] \in RowsOf[b]
                           THEN [state |-> "live", made |-> asset[r].made + 1, work |-> {}]
                           ELSE asset[r]]
            /\ job' = Finish(k, b)
  /\ UNCHANGED taken

RollbackRead(k, b) ==
  /\ job[k] = Idle /\ batch[b].status = "COMMITTED"
  /\ job' = [job EXCEPT ![k] =
       [op |-> "rollback", batch |-> b, doomed |-> FALSE,
        clean |-> \A t \in RowsOf[b] : Live(<<b, t>>) /\ asset[<<b, t>>].work \cap Looked = {}]]
  /\ UNCHANGED <<batch, asset, taken>>

Rollback(k) ==
  /\ job[k].op = "rollback"
  /\ LET b == job[k].batch IN
       IF job[k].doomed \/ ~job[k].clean
       THEN job' = Stop(k) /\ UNCHANGED <<batch, asset>>
       ELSE /\ batch' = [batch EXCEPT ![b].status = "ROLLED_BACK"]
            /\ asset' = [r \in Rows |-> IF r[1] = b /\ Live(r)
                           THEN [asset[r] EXCEPT !.state = "deleted"] ELSE asset[r]]
            /\ job' = Finish(k, b)
  /\ UNCHANGED taken
-----------------------------------------------------------------------------
Next ==
  \/ \E t \in Tags : Register(t) \/ Retire(t)
  \/ \E r \in Rows : Delete(r) \/ \E w \in Looked \cup Unlooked : Work(r, w)
  \/ \E k \in Admins : \/ \E b \in Batches : StageRead(k, b) \/ CommitRead(k, b) \/ RollbackRead(k, b)
                       \/ StageCommit(k) \/ Commit(k) \/ Rollback(k)

Spec == Init /\ [][Next]_vars
-----------------------------------------------------------------------------
TypeOK ==
  /\ batch \in [Batches -> [status : {"none", "STAGED", "COMMITTED", "ROLLED_BACK"},
                            invalid : SUBSET Tags]]
  /\ asset \in [Rows -> AssetRows]
  /\ taken \subseteq Tags
  /\ job \in [Admins -> Jobs]

(***************************************************************************)
(* A batch is in the register as a whole or not at all, and once: each row *)
(* of a committed batch was made into one asset, none of a staged batch,   *)
(* and none that was rolled back is left.                                  *)
(***************************************************************************)
BatchIsWhole ==
  \A b \in Batches : \A t \in RowsOf[b] :
    LET r == <<b, t>> IN
    /\ asset[r].made = (IF batch[b].status \in {"COMMITTED", "ROLLED_BACK"} THEN 1 ELSE 0)
    /\ batch[b].status = "ROLLED_BACK" => ~Live(r)

(***************************************************************************)
(* src/docs/INVENTORY_IMPORT_API.md:42: no asset that was handed out,      *)
(* moved, counted or edited since the import goes with a rollback, however *)
(* late that work came in.                                                 *)
(***************************************************************************)
RollbackSparesWork ==
  [][\A r \in Rows : batch'[r[1]].status = "ROLLED_BACK" /\ Live(r) /\ asset'[r].state = "deleted"
                       => asset[r].work \cap Looked = {}]_vars
=============================================================================
