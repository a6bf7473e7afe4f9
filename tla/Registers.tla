----------------------------- MODULE Registers ------------------------------
(***************************************************************************)
(* The registers of the office side by side: inventory counts, import      *)
(* batches, incidents, compliance records, risks and accounts.  None of    *)
(* them reads a row that another writes, so they are composed by having    *)
(* variables of their own.                                                 *)
(***************************************************************************)
EXTENDS InventoryCount

CONSTANTS
  Serial,                                 \* the desk and the accounts: one request at a time
  Batches, Tags, RowsOf, Faulty,          \* AssetImport
  Operators, Admins, Absent,              \* IncidentDesk, RiskRegister, Accounts
  Versions, Controls, Docs, Files,        \* ComplianceRecords
  Grid, First, Strategies, Fields,        \* RiskRegister
  Treatments, Outcomes, Moves, Assignees, \* also
  Users, Directory, Root, Sessions, MaxSecret   \* Accounts

VARIABLES
  batch, asset, taken, importing,
  incident, primary, eligible, handling,
  soa, doc, row, disk, spent, lost, filing,
  assessment, risk, treatment, judging,
  account, login, administering

Import     == INSTANCE AssetImport WITH Admins <- Clerks, job <- importing
Desk       == INSTANCE IncidentDesk WITH Requests <- Serial, job <- handling
Compliance == INSTANCE ComplianceRecords WITH Requests <- Clerks, job <- filing
Risks      == INSTANCE RiskRegister WITH Requests <- Clerks, job <- judging
Office     == INSTANCE Accounts WITH
                Requests <- Serial, session <- login, job <- administering

\* Requests run one at a time: there is but one to run them.
OneRequest == \A j, k \in Serial : j = k
-----------------------------------------------------------------------------
\* A batch is registered whole, and a rollback spares what was worked on (AssetImport).
BatchIsWhole       == Import!BatchIsWhole
RollbackSparesWork == Import!RollbackSparesWork

\* The active assignment is the handler's, and what is closed is complete (IncidentDesk).
IncidentsKept == Desk!IncidentsKept

\* Every file of a document has its bytes; a statement once in force is followed
\* by another (ComplianceRecords).
ComplianceKept == Compliance!ComplianceKept

\* The level of a risk is that of its scores (RiskRegister).
LevelsMatch == Risks!LevelsMatch

\* An administrator remains; a password that is replaced ends its sessions (Accounts).
AdminRemains           == Office!AdminRemains
SessionsFollowPassword == Office!SessionsFollowPassword
=============================================================================
