----------------------------- MODULE RiskScreens ----------------------------
(***************************************************************************)
(* The page Quan ly rui ro (RiskManagement.tsx): the assessments, decided  *)
(* from their rows, and the risk register with its drawer.  The page is    *)
(* not told who sits before it: every operator is offered everything.      *)
(***************************************************************************)
EXTENDS ScreenSteps

Assessments == {"DRAFT", "IN_REVIEW", "APPROVED", "TREATMENT", "MONITORING", "CLOSED", "CANCELLED"}

Risks == {"IDENTIFIED", "ASSESSED", "TREATMENT_PLANNED", "TREATING", "MONITORING",
          "ACCEPTED", "CLOSED"}
Decided   == {"ACCEPTED", "CLOSED"}
Undecided == Risks \ Decided
-----------------------------------------------------------------------------
(***************************************************************************)
(* What risks.service lets through.  The approver of an assessment, the    *)
(* owner of a risk, and who a treatment is assigned to decide as well.     *)
(***************************************************************************)
createAssessmentRoute == Route(Operators, {<<Absent, "DRAFT">>})
createRiskRoute       == Hiding(Operators, Route(Operators, {<<Absent, "IDENTIFIED">>}))
addControlRoute       == Route(Operators, Stay(Risks))
addTreatmentRoute     == Route(Operators, From(Undecided, "TREATMENT_PLANNED"))
updateTreatmentRoute  ==
  Hiding({"IT"}, Route(Operators, From(Risks, "TREATING") \cup From(Risks, "MONITORING")))

assessmentStatusAfterDecision ==
  [DRAFT |-> {"IN_REVIEW"}, IN_REVIEW |-> {"DRAFT", "APPROVED"},
   APPROVED |-> {"CLOSED"}, TREATMENT |-> {"CLOSED"}, MONITORING |-> {"CLOSED"}]

reviewAssessmentRoute == Hiding(Operators, Route(Operators, Table(assessmentStatusAfterDecision)))
reviewRiskRoute ==
  Hiding({"Admin"}, Route({"Admin"}, From(Risks, "ACCEPTED") \cup From(Risks, "CLOSED")))
-----------------------------------------------------------------------------
\* The summary, the risks of the filter and the assessments.
load == Lists

reviewRisk        == <<Move(reviewRiskRoute, {}), Fetch, load>>
reviewAssessment  == <<Move(reviewAssessmentRoute, {}), load>>
openDetail        == <<Fetch>>
saveAssessment    == <<Move(createAssessmentRoute, {"shut"}), load>>
saveRisk          == <<Move(createRiskRoute, {"shut"}), load>>
addControl        == <<Edit(addControlRoute, {}), Fetch, load>>
addTreatment      == <<Move(addTreatmentRoute, {}), Fetch, load>>
completeTreatment == <<Move(updateTreatmentRoute, {}), Fetch, load>>

AssessmentModal == Form(Operators, {<<Absent, "DRAFT">>}, saveAssessment)
RiskModal       == Form(Operators, {<<Absent, "IDENTIFIED">>}, saveRisk)

\* The buttons on the row of an assessment.
submitAssessment == OnRow(Operators,
  Table([DRAFT |-> {"IN_REVIEW"}, IN_REVIEW |-> {"APPROVED", "DRAFT"}]), reviewAssessment)

(***************************************************************************)
(* RiskDetail.  The decision is offered while there is none; the           *)
(* treatments are open at any time.                                        *)
(***************************************************************************)
submitReview  == Button(Operators, From(Undecided, "ACCEPTED") \cup From(Undecided, "CLOSED"),
                        reviewRisk)
saveControl   == Button(Operators, Stay(Risks), addControl)
saveTreatment == Button(Operators, From(Risks, "TREATMENT_PLANNED"), addTreatment)
complete      == Button(Operators, From(Risks, "TREATING") \cup From(Risks, "MONITORING"),
                        completeTreatment)

AssessmentRegister == Register(Operators, Assessments,
  [saveAssessment |-> AssessmentModal, submitAssessment |-> submitAssessment])

RiskManagement == Opening(openDetail, Operators, Risks,
  [saveRisk |-> RiskModal, submitReview |-> submitReview, saveControl |-> saveControl,
   saveTreatment |-> saveTreatment, complete |-> complete])

\* Offered to those the API refuses: the decision to IT, and a treatment
\* of a risk that is decided.
Offered == {"submitReview", "saveTreatment"}
=============================================================================
