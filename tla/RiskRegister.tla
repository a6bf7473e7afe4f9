---------------------------- MODULE RiskRegister -----------------------------
(***************************************************************************)
(* One risk assessment with one risk and its treatments (risks.service).   *)
(* Every operation reads the record, decides on what it read, and writes   *)
(* in a READ COMMITTED transaction that does not look again.  An update    *)
(* writes back the scores it read along with the ones it was given.        *)
(***************************************************************************)
EXTENDS Naturals

CONSTANTS
  Grid,        \* values on the scales of likelihood and impact, within 1..5
  First,       \* scores a new risk is given, within Grid
  Strategies,  \* strategies a new risk is given
  Fields,      \* fields of the risk that requests change
  Treatments,
  Outcomes,    \* texts requests give as the outcome of a treatment
  Moves,       \* statuses requests give a treatment
  Assignees,   \* who is put in charge of one
  Operators,   \* Admin and IT accounts
  Admins,
  Requests,    \* requests that may be under way at once
  None

RiskAssumption ==
  /\ Grid \subseteq 1..5 /\ First \subseteq Grid
  /\ Strategies \subseteq {"ACCEPT", "OTHER"}
  /\ Fields \subseteq {"likelihood", "impact", "residualLikelihood", "residualImpact",
                       "strategy", "rationale", "owner", "status"}
  /\ Outcomes \subseteq {"text", "blank", "empty"}
  /\ Moves \subseteq {"PLANNED", "IN_PROGRESS", "COMPLETED", "CANCELLED"}
  /\ Assignees \subseteq Operators

VARIABLES
  assessment,  \* risk_assessments row
  risk,        \* risk_items row
  treatment,   \* risk_treatment_actions rows
  job          \* what each request has read

vars == <<assessment, risk, treatment, job>>
-----------------------------------------------------------------------------
\* risk-criteria: the level of each cell, by impact and likelihood.
matrix == << <<"LOW", "LOW", "LOW", "LOW", "MEDIUM">>,
             <<"LOW", "LOW", "MEDIUM", "MEDIUM", "HIGH">>,
             <<"LOW", "MEDIUM", "MEDIUM", "HIGH", "HIGH">>,
             <<"MEDIUM", "HIGH", "HIGH", "CRITICAL", "CRITICAL">>,
             <<"HIGH", "HIGH", "CRITICAL", "CRITICAL", "CRITICAL">> >>
Levels == {"LOW", "MEDIUM", "HIGH", "CRITICAL"}
Acceptable == Levels \ {"CRITICAL"}

riskLevelFor(likelihood, impact) == matrix[impact][likelihood]
Residual(likelihood, impact) ==
  IF None \in {likelihood, impact} THEN None ELSE riskLevelFor(likelihood, impact)

Statuses == {"IDENTIFIED", "ASSESSED", "TREATMENT_PLANNED", "TREATING", "MONITORING",
             "ACCEPTED", "CLOSED"}
Scale == Grid \cup {None}

Unwritten == [status |-> "none", likelihood |-> None, impact |-> None, inherentLevel |-> None,
              residualLikelihood |-> None, residualImpact |-> None, residualLevel |-> None,
              strategy |-> None, rationale |-> FALSE, owner |-> None]
Risks == [status : Statuses \cup {"none"}, likelihood : Scale, impact : Scale,
          inherentLevel : Levels \cup {None}, residualLikelihood : Scale,
          residualImpact : Scale, residualLevel : Levels \cup {None},
          strategy : {"ACCEPT", "OTHER", None}, rationale : BOOLEAN,
          owner : Operators \cup {None}]

TreatmentStatuses == {"PLANNED", "IN_PROGRESS", "COMPLETED", "CANCELLED"}
Open       == {"PLANNED", "IN_PROGRESS"}
Treatment  == [status : TreatmentStatuses \cup {"none"}, assignee : Operators \cup {None},
               outcome : BOOLEAN]
NoTreatment == [status |-> "none", assignee |-> None, outcome |-> FALSE]

decide == [d \in {"SUBMIT", "RETURN_FOR_CHANGES", "APPROVE", "CLOSE"} |->
  CASE d = "SUBMIT"             -> [from |-> {"DRAFT"}, to |-> "IN_REVIEW"]
    [] d = "RETURN_FOR_CHANGES" -> [from |-> {"IN_REVIEW"}, to |-> "DRAFT"]
    [] d = "APPROVE"            -> [from |-> {"IN_REVIEW"}, to |-> "APPROVED"]
    [] d = "CLOSE"              -> [from |-> {"APPROVED", "TREATMENT", "MONITORING"},
                                    to |-> "CLOSED"]]
assessmentStatusAfterDecision(current, d) ==
  IF current \in decide[d].from THEN decide[d].to ELSE None

Idle == [op |-> "idle"]
Exists == risk.status # "none"

Init ==
  /\ assessment = [status |-> "none", owner |-> None, approver |-> None]
  /\ risk = Unwritten
  /\ treatment = [t \in Treatments |-> NoTreatment]
  /\ job = [k \in Requests |-> Idle]

Begin(k, j) == job[k] = Idle /\ job' = [job EXCEPT ![k] = j]
End(k)      == job' = [job EXCEPT ![k] = Idle]
-----------------------------------------------------------------------------
CreateAssessment(u, a) ==
  /\ assessment.status = "none" /\ a # u
  /\ assessment' = [status |-> "DRAFT", owner |-> u, approver |-> a]
  /\ UNCHANGED <<risk, treatment, job>>

ReviewAssessmentRead(k, u, d) ==
  LET to == assessmentStatusAfterDecision(assessment.status, d) IN
  /\ to # None
  /\ d = "APPROVE" => assessment.approver \in {None, u} /\ assessment.owner # u
  /\ Begin(k, [op |-> "assess", to |-> to])
  /\ UNCHANGED <<assessment, risk, treatment>>

ReviewAssessment(k) ==
  /\ job[k].op = "assess"
  /\ assessment' = [assessment EXCEPT !.status = job[k].to]
  /\ End(k) /\ UNCHANGED <<risk, treatment>>
-----------------------------------------------------------------------------
CreateRisk(u, l, i, rl, ri, strategy, why) ==
  /\ ~Exists /\ assessment.status \notin {"none", "CLOSED", "CANCELLED"}
  /\ strategy = "ACCEPT" => why /\ Residual(rl, ri) # None
  /\ risk' = [status |-> "IDENTIFIED", likelihood |-> l, impact |-> i,
              inherentLevel |-> riskLevelFor(l, i), residualLikelihood |-> rl,
              residualImpact |-> ri, residualLevel |-> Residual(rl, ri),
              strategy |-> strategy, rationale |-> why, owner |-> u]
  /\ UNCHANGED <<assessment, treatment, job>>

\* A text that is given: one that is blank passes for given but is stored as
\* none, like the empty one.
Texts == {"text", "blank", "empty"}

\* updateRisk with one field given.
Choices(f) ==
  CASE f \in {"likelihood", "impact", "residualLikelihood", "residualImpact"} -> Grid
    [] f = "strategy"  -> {"ACCEPT", "OTHER"}
    [] f = "rationale" -> Texts
    [] f = "owner"     -> Operators
    [] f = "status"    -> Statuses

Given(f, x, field) == IF f = field THEN x ELSE risk[field]

UpdateRiskRead(k, u, f, x) ==
  LET rl == Given(f, x, "residualLikelihood")
      ri == Given(f, x, "residualImpact") IN
  /\ Exists /\ risk.status # "CLOSED"
  /\ f = "status" /\ x = "ACCEPTED" =>
       u \in Admins /\ risk.strategy = "ACCEPT" /\ risk.rationale /\ Residual(rl, ri) # None
  /\ Begin(k, [op |-> "update", field |-> f, value |-> x,
               likelihood |-> Given(f, x, "likelihood"), impact |-> Given(f, x, "impact"),
               residualLikelihood |-> rl, residualImpact |-> ri,
               strategy |-> Given(f, x, "strategy")])
  /\ UNCHANGED <<assessment, risk, treatment>>

\* Mutant: only the field that was given is written, and the levels computed
\* from what was read.
WrittenGivenOnly(j) ==
  LET of(field) == IF j.field = field THEN j.value ELSE risk[field] IN
  [risk EXCEPT !.likelihood = of("likelihood"), !.impact = of("impact"),
     !.residualLikelihood = of("residualLikelihood"), !.residualImpact = of("residualImpact"),
     !.inherentLevel = riskLevelFor(j.likelihood, j.impact),
     !.residualLevel = Residual(j.residualLikelihood, j.residualImpact)]
Written(j) ==
  [risk EXCEPT !.likelihood = j.likelihood, !.impact = j.impact,
     !.residualLikelihood = j.residualLikelihood, !.residualImpact = j.residualImpact,
     !.inherentLevel = riskLevelFor(j.likelihood, j.impact),
     !.residualLevel = Residual(j.residualLikelihood, j.residualImpact),
     !.strategy = j.strategy,
     !.status = IF j.field = "status" THEN j.value ELSE @,
     !.rationale = IF j.field = "rationale" THEN j.value = "text" ELSE @,
     !.owner = IF j.field = "owner" THEN j.value ELSE @]

UpdateRisk(k) ==
  /\ job[k].op = "update"
  /\ risk' = Written(job[k])
  /\ End(k) /\ UNCHANGED <<assessment, treatment>>
-----------------------------------------------------------------------------
ReviewRiskRead(k, u, to) ==
  /\ Exists /\ u \in Admins /\ risk.owner # u
  /\ to = "ACCEPTED" => risk.residualLevel \in Acceptable /\ risk.rationale
  /\ Begin(k, [op |-> "review", to |-> to])
  /\ UNCHANGED <<assessment, risk, treatment>>

ReviewRisk(k) ==
  /\ job[k].op = "review"
  /\ risk' = [risk EXCEPT !.status = job[k].to]
  /\ End(k) /\ UNCHANGED <<assessment, treatment>>

AddTreatmentRead(k, t, u) ==
  /\ Exists /\ risk.status \notin {"ACCEPTED", "CLOSED"} /\ treatment[t] = NoTreatment
  /\ Begin(k, [op |-> "plan", treatment |-> t, assignee |-> u])
  /\ UNCHANGED <<assessment, risk, treatment>>

AddTreatment(k) ==
  /\ job[k].op = "plan"
  /\ IF treatment[job[k].treatment] # NoTreatment THEN UNCHANGED <<risk, treatment>>
     ELSE /\ treatment' = [treatment EXCEPT ![job[k].treatment] =
                            [status |-> "PLANNED", assignee |-> job[k].assignee,
                             outcome |-> FALSE]]
          /\ risk' = [risk EXCEPT !.status = "TREATMENT_PLANNED"]
  /\ End(k) /\ UNCHANGED assessment

\* updateTreatment: an administrator's or the assignee's; an action is completed
\* with an outcome, given now (None when the request has none) or before.
UpdateTreatmentRead(k, u, t, s, outcome) ==
  /\ treatment[t] # NoTreatment
  /\ u \in Admins \/ treatment[t].assignee = u
  /\ s = "COMPLETED" => outcome \in {"text", "blank"} \/ treatment[t].outcome
  /\ Begin(k, [op |-> "treat", treatment |-> t, status |-> s, outcome |-> outcome])
  /\ UNCHANGED <<assessment, risk, treatment>>

\* It writes the action, whose row it has locked from then on, and counts those
\* still open: its own as written, the others' as committed.
UpdateTreatmentCount(k) ==
  LET j == job[k]
      open == {t \in Treatments \ {j.treatment} : treatment[t].status \in Open}
                \cup {t \in {j.treatment} : j.status \in Open} IN
  /\ j.op = "treat"
  /\ \A i \in Requests : ~(job[i].op = "treated" /\ job[i].treatment = j.treatment)
  /\ job' = [job EXCEPT ![k] = [op |-> "treated", treatment |-> j.treatment,
                               status |-> j.status, outcome |-> j.outcome,
                               to |-> IF open = {} THEN "MONITORING" ELSE "TREATING"]]
  /\ UNCHANGED <<assessment, risk, treatment>>

\* It commits, with the risk put where the count leaves it, whatever its status.
UpdateTreatment(k) ==
  LET j == job[k] IN
  /\ j.op = "treated"
  /\ treatment' = [treatment EXCEPT ![j.treatment].status = j.status,
                       ![j.treatment].outcome = IF j.outcome = None THEN @ ELSE j.outcome = "text"]
  /\ risk' = [risk EXCEPT !.status = j.to]
  /\ End(k) /\ UNCHANGED assessment
-----------------------------------------------------------------------------
Next ==
  \/ \E u \in Operators, a \in Operators \cup {None} : CreateAssessment(u, a)
  \/ \E u \in Operators, l, i \in First, rl, ri \in First \cup {None},
        s \in Strategies, why \in BOOLEAN :
       CreateRisk(u, l, i, rl, ri, s, why)
  \/ \E k \in Requests :
       \/ \E u \in Operators, d \in DOMAIN decide : ReviewAssessmentRead(k, u, d)
       \/ \E u \in Operators, f \in Fields : \E x \in Choices(f) : UpdateRiskRead(k, u, f, x)
       \/ \E u \in Operators, to \in {"ACCEPTED", "CLOSED"} : ReviewRiskRead(k, u, to)
       \/ \E t \in Treatments, u \in Assignees : AddTreatmentRead(k, t, u)
       \/ \E u \in Operators, t \in Treatments, s \in Moves,
             outcome \in Outcomes \cup {None} : UpdateTreatmentRead(k, u, t, s, outcome)
       \/ ReviewAssessment(k) \/ UpdateRisk(k) \/ ReviewRisk(k)
       \/ AddTreatment(k) \/ UpdateTreatmentCount(k) \/ UpdateTreatment(k)

Spec == Init /\ [][Next]_vars
-----------------------------------------------------------------------------
TypeOK ==
  /\ assessment \in [status : {"none", "DRAFT", "IN_REVIEW", "APPROVED", "CLOSED"},
                     owner : Operators \cup {None}, approver : Operators \cup {None}]
  /\ risk \in Risks
  /\ treatment \in [Treatments -> Treatment]

(***************************************************************************)
(* The level that lists, filters and the acceptance rule go by is the one  *)
(* the criteria give the scores that are shown beside it, in both grids,   *)
(* whichever updates crossed (src/docs/IT_RISK_ASSESSMENT.md:38).          *)
(***************************************************************************)
LevelsMatch ==
  Exists => /\ risk.inherentLevel = riskLevelFor(risk.likelihood, risk.impact)
            /\ risk.residualLevel = Residual(risk.residualLikelihood, risk.residualImpact)

(***************************************************************************)
(* src/docs/IT_RISK_ASSESSMENT.md:43: residual risk at CRITICAL is not     *)
(* accepted in any case.                                                   *)
(***************************************************************************)
AcceptedIsAcceptable == risk.status = "ACCEPTED" => risk.residualLevel \in Acceptable
=============================================================================
