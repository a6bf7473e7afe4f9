------------------------------- MODULE Agents -------------------------------
(***************************************************************************)
(* What becomes of the machines that run the agent: the inbox in which     *)
(* operators settle what was discovered, and the enrolment of the agents   *)
(* that report.  They share the devices and no row: a report is sent by    *)
(* one and taken by the other at any time.                                 *)
(***************************************************************************)
EXTENDS DiscoveryInbox, Integers

CONSTANTS
  Processes, HostOf,  \* agent processes, and the device of each
  Tokens, Maximum     \* enrolment tokens, and the devices each may admit

VARIABLES token, agent, stored, told, errand

Enrollment == INSTANCE AgentEnrollment WITH job <- errand
ASSUME Enrollable == Enrollment!EnrollmentAssumption

inbox      == <<linked, item, asset, job>>
enrollment == <<token, agent, stored, told, errand>>

\* Tokens keep their budget, whatever requests race for them (AgentEnrollment).
BudgetKept == Enrollment!BudgetKept
=============================================================================
