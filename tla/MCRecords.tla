----------------------------- MODULE MCRecords ------------------------------
(***************************************************************************)
(* The registers of the office on small instances, in one run.  None of    *)
(* them reads a row that another writes, so each behaviour follows one of  *)
(* them: `focus' says which.  Documents and statements are two of these,   *)
(* since no request touches both.                                          *)
(***************************************************************************)
EXTENDS Registers, TLC
CONSTANTS b1, b2, t1, t2, d1, d2, f1, f2, v1, v2, v3, c1, u1, u2, root, ann, dora,
          s1, s2, k1, k2

VARIABLE focus

\* What the two files list.
Listed == b1 :> {t1, t2} @@ b2 :> {t2}

ASSUME Assumptions ==
  /\ Import!ImportAssumption /\ Desk!DeskAssumption /\ Compliance!ComplianceAssumption
  /\ Risks!RiskAssumption /\ Office!AccountAssumption /\ OneRequest

counting   == <<session, item, book, events, job>>
imports    == <<batch, asset, taken, importing>>
incidents  == <<incident, primary, eligible, handling>>
documents  == <<doc, row, disk, spent>>
compliance == <<soa, documents, lost, filing>>
risks      == <<assessment, risk, treatment, judging>>
accounts   == <<account, login, administering>>
mcVars     == <<focus, counting, imports, incidents, compliance, risks, accounts>>

\* Components that are not followed begin in one state.
MCInit ==
  /\ focus \in {"count", "import", "desk", "documents", "statement", "risks", "accounts"}
  /\ Init /\ Import!Init /\ Desk!Init /\ Compliance!Init /\ Risks!Init /\ Office!Init
  /\ focus # "count" => book = CHOOSE b \in [Assets -> {p \in Places : p.location # None}] : TRUE
  /\ focus # "desk" => eligible = {}

Counting  == Next /\ UNCHANGED <<imports, incidents, compliance, risks, accounts>>
Importing == Import!Next /\ UNCHANGED <<counting, incidents, compliance, risks, accounts>>
Handling  == Desk!Next /\ UNCHANGED <<counting, imports, compliance, risks, accounts>>
Filing    == Compliance!Next /\ UNCHANGED <<counting, imports, incidents, risks, accounts>>
Judging   == Risks!Next /\ UNCHANGED <<counting, imports, incidents, compliance, accounts>>
Admitting == Office!Next /\ UNCHANGED <<counting, imports, incidents, compliance, risks>>

MCNext ==
  /\ UNCHANGED focus
  /\ \/ focus = "count" /\ Counting
     \/ focus = "import" /\ Importing
     \/ focus = "desk" /\ Handling
     \/ focus = "documents" /\ Filing /\ UNCHANGED soa
     \/ focus = "statement" /\ Filing /\ UNCHANGED documents
     \/ focus = "risks" /\ Judging
     \/ focus = "accounts" /\ Admitting

MCSpec == MCInit /\ [][MCNext]_mcVars
=============================================================================
