-------------------------- MODULE ComplianceRecords --------------------------
(***************************************************************************)
(* Statements of Applicability, controlled documents and their files       *)
(* (compliance.service, document-storage).  Every operation checks a       *)
(* record, then writes in a READ COMMITTED transaction that does not look  *)
(* again; the bytes of a file are written before its row and unlinked      *)
(* after it, outside any transaction, and the process may stop in between. *)
(***************************************************************************)
EXTENDS Naturals

CONSTANTS
  Versions, Controls,  \* versions of the statement; the Annex A controls
  Docs,
  Files,               \* generated storage paths
  Requests,            \* requests that may be under way at once
  None

ComplianceAssumption == None \notin Docs

VARIABLES
  soa,   \* soa_versions: status, and the controls with an entry
  doc,   \* compliance_documents: status and supersedesId
  row,   \* compliance_document_files: the document of each path, or None
  disk,  \* paths whose bytes are on the volume
  spent, \* paths handed out
  lost,  \* paths whose bytes a restart or a failed unlink left behind
  job    \* what each request has read

vars == <<soa, doc, row, disk, spent, lost, job>>
statements == <<soa>>
library    == <<doc, row, disk, spent>>
-----------------------------------------------------------------------------
Idle == [op |-> "idle"]
Jobs == {Idle}
  \cup [op : {"entry"}, version : Versions, control : Controls]
  \cup [op : {"issueSoa"}, version : Versions]
  \cup [op : {"superseding"}, version : Versions, seen : SUBSET Versions]
  \cup [op : {"issue", "withdraw"}, doc : Docs]
  \cup [op : {"add", "unlink"}, doc : Docs, path : Files]
  \cup [op : {"remove"}, doc : Docs, path : Files]

NoSoa == [status |-> "none", covered |-> {}]
NoDoc == [status |-> "none", supersedes |-> None]

Init ==
  /\ soa = [v \in Versions |-> NoSoa]
  /\ doc = [d \in Docs |-> NoDoc]
  /\ row = [f \in Files |-> None]
  /\ disk = {} /\ spent = {} /\ lost = {}
  /\ job = [k \in Requests |-> Idle]

Begin(k, j) == job[k] = Idle /\ job' = [job EXCEPT ![k] = j]
End(k)      == job' = [job EXCEPT ![k] = Idle]
-----------------------------------------------------------------------------
\* Statement of Applicability: a version starts empty or as a copy.
CreateSoa(v) ==
  /\ soa[v].status = "none"
  /\ \E c \in {{}} \cup {soa[w].covered : w \in Versions} :
       soa' = [soa EXCEPT ![v] = [status |-> "DRAFT", covered |-> c]]
  /\ UNCHANGED <<library, lost, job>>

EntryRead(k, v, c) ==
  /\ soa[v].status = "DRAFT"
  /\ Begin(k, [op |-> "entry", version |-> v, control |-> c])
  /\ UNCHANGED <<statements, library, lost>>

EntryWrite(k) ==
  /\ job[k].op = "entry"
  /\ soa' = [soa EXCEPT ![job[k].version].covered = @ \cup {job[k].control}]
  /\ End(k) /\ UNCHANGED <<library, lost>>

IssueSoaRead(k, v) ==
  /\ soa[v].status = "DRAFT" /\ soa[v].covered = Controls
  /\ Begin(k, [op |-> "issueSoa", version |-> v])
  /\ UNCHANGED <<statements, library, lost>>

\* The transaction: the versions in force when it looks are superseded, and
\* then this one is issued, both seen by others when it commits.
IssueSoaBegin(k) ==
  /\ job[k].op = "issueSoa"
  /\ job' = [job EXCEPT ![k] = [op |-> "superseding", version |-> job[k].version,
                                 seen |-> {v \in Versions : soa[v].status = "ISSUED"}]]
  /\ UNCHANGED <<statements, library, lost>>

SupersededThenIssued(j) ==
  [v \in Versions |-> IF v = j.version THEN [soa[v] EXCEPT !.status = "ISSUED"]
                      ELSE IF v \in j.seen THEN [soa[v] EXCEPT !.status = "SUPERSEDED"]
                      ELSE soa[v]]

IssueSoaCommit(k) ==
  /\ job[k].op = "superseding"
  /\ soa' = SupersededThenIssued(job[k])
  /\ End(k) /\ UNCHANGED <<library, lost>>
-----------------------------------------------------------------------------
\* Documents. supersedesId is unique, so a document has one successor.
CreateDocument(d, p) ==
  /\ doc[d].status = "none"
  /\ p # None => doc[p].status # "none" /\ \A e \in Docs : doc[e].supersedes # p
  /\ doc' = [doc EXCEPT ![d] = [status |-> "DRAFT", supersedes |-> p]]
  /\ UNCHANGED <<statements, row, disk, spent, lost, job>>

FilesOf(d) == {f \in Files : row[f] = d}

IssueRead(k, d) ==
  /\ doc[d].status = "DRAFT" /\ FilesOf(d) # {}
  /\ Begin(k, [op |-> "issue", doc |-> d])
  /\ UNCHANGED <<statements, library, lost>>

IssueCommit(k) ==
  /\ job[k].op = "issue"
  /\ doc' = [d \in Docs |-> IF d = job[k].doc THEN [doc[d] EXCEPT !.status = "ISSUED"]
                            ELSE IF d = doc[job[k].doc].supersedes
                                 THEN [doc[d] EXCEPT !.status = "SUPERSEDED"]
                            ELSE doc[d]]
  /\ End(k) /\ UNCHANGED <<statements, row, disk, spent, lost>>

WithdrawRead(k, d) ==
  /\ doc[d].status \notin {"none", "WITHDRAWN"}
  /\ Begin(k, [op |-> "withdraw", doc |-> d])
  /\ UNCHANGED <<statements, library, lost>>

WithdrawCommit(k) ==
  /\ job[k].op = "withdraw"
  /\ doc' = [doc EXCEPT ![job[k].doc].status = "WITHDRAWN"]
  /\ End(k) /\ UNCHANGED <<statements, row, disk, spent, lost>>
-----------------------------------------------------------------------------
\* Files: the bytes, then the row; a row that is refused takes them back.
Save(k, d, f) ==
  /\ doc[d].status \in {"DRAFT", "ISSUED"} /\ f \notin spent
  /\ spent' = spent \cup {f} /\ disk' = disk \cup {f}
  /\ Begin(k, [op |-> "add", doc |-> d, path |-> f])
  /\ UNCHANGED <<statements, doc, row, lost>>

AddRow(k) ==
  /\ job[k].op = "add"
  /\ \/ row' = [row EXCEPT ![job[k].path] = job[k].doc] /\ End(k)
     \/ job' = [job EXCEPT ![k].op = "unlink"] /\ UNCHANGED row
  /\ UNCHANGED <<statements, doc, disk, spent, lost>>

RemoveRead(k, f) ==
  /\ row[f] # None /\ doc[row[f]].status = "DRAFT"
  /\ Begin(k, [op |-> "remove", doc |-> row[f], path |-> f])
  /\ UNCHANGED <<statements, library, lost>>

\* The row goes, then the bytes; deleting a row twice fails. Mutant: the
\* bytes go first.
BytesThenRow(k) ==
  /\ job[k].op = "remove"
  /\ disk' = disk \ {job[k].path}
  /\ \/ row' = [row EXCEPT ![job[k].path] = None]
     \/ UNCHANGED row
  /\ End(k) /\ UNCHANGED <<statements, doc, spent, lost>>
RemoveRow(k) ==
  /\ job[k].op = "remove"
  /\ \/ /\ row[job[k].path] # None
        /\ row' = [row EXCEPT ![job[k].path] = None]
        /\ job' = [job EXCEPT ![k].op = "unlink"]
     \/ End(k) /\ UNCHANGED row
  /\ UNCHANGED <<statements, doc, disk, spent, lost>>

\* An unlink that fails is not reported: the bytes stay.
Unlink(k) ==
  /\ job[k].op = "unlink"
  /\ \/ disk' = disk \ {job[k].path} /\ UNCHANGED lost
     \/ lost' = lost \cup {job[k].path} /\ UNCHANGED disk
  /\ End(k) /\ UNCHANGED <<statements, doc, row, spent>>

\* The path of a request that is between its bytes and its row.
Between(k, f) == job[k].op \in {"add", "unlink"} /\ job[k].path = f

\* The API stops: what was under way ends where it was.
Restart ==
  /\ \E k \in Requests : job[k] # Idle
  /\ lost' = lost \cup {f \in Files : \E k \in Requests : Between(k, f)}
  /\ job' = [k \in Requests |-> Idle]
  /\ UNCHANGED <<statements, library>>
-----------------------------------------------------------------------------
Statement(k) ==
  \/ \E v \in Versions : IssueSoaRead(k, v) \/ \E c \in Controls : EntryRead(k, v, c)
  \/ EntryWrite(k) \/ IssueSoaBegin(k) \/ IssueSoaCommit(k)
Document(k) ==
  \/ \E d \in Docs : IssueRead(k, d) \/ WithdrawRead(k, d) \/ \E f \in Files : Save(k, d, f)
  \/ IssueCommit(k) \/ WithdrawCommit(k) \/ AddRow(k) \/ RemoveRow(k) \/ Unlink(k)
  \/ \E f \in Files : RemoveRead(k, f)

Next ==
  \/ \E v \in Versions : CreateSoa(v)
  \/ \E d \in Docs, p \in Docs \cup {None} : CreateDocument(d, p)
  \/ \E k \in Requests : Statement(k) \/ Document(k)
  \/ Restart

Spec == Init /\ [][Next]_vars
-----------------------------------------------------------------------------
TypeOK ==
  /\ soa \in [Versions -> [status : {"none", "DRAFT", "ISSUED", "SUPERSEDED"},
                           covered : SUBSET Controls]]
  /\ doc \in [Docs -> [status : {"none", "DRAFT", "ISSUED", "SUPERSEDED", "WITHDRAWN"},
                       supersedes : Docs \cup {None}]]
  /\ row \in [Files -> Docs \cup {None}]
  /\ disk \subseteq spent /\ spent \subseteq Files
  /\ lost \subseteq Files
  /\ job \in [Requests -> Jobs]

(***************************************************************************)
(* The register never loses its statement: once a version was issued there *)
(* is one in force, and whatever was ever in force covers every control,   *)
(* however issues and edits meet.                                          *)
(***************************************************************************)
StatementInForce ==
  /\ (\E v \in Versions : soa[v].status = "SUPERSEDED") =>
        \E v \in Versions : soa[v].status = "ISSUED"
  /\ \A v \in Versions : soa[v].status \in {"ISSUED", "SUPERSEDED"} => soa[v].covered = Controls

(***************************************************************************)
(* A file that is listed can be read, whatever failed or was cut off, and  *)
(* bytes nothing lists are of a request under way, or were left by one     *)
(* that a restart cut off or whose unlink failed, and by no other          *)
(* (compliance.service.ts:464: the volume does not collect files that no   *)
(* record points at).                                                      *)
(***************************************************************************)
FilesMatch ==
  /\ \A f \in Files : row[f] # None => f \in disk
  /\ \A f \in disk : row[f] # None \/ f \in lost \/ \E k \in Requests : Between(k, f)

\* Both: a statement stays in force, and what is listed can be read.
ComplianceKept == StatementInForce /\ FilesMatch
=============================================================================
