------------------------------ MODULE MCAgents ------------------------------
(***************************************************************************)
(* The two parts of Agents and DirectorySync on small instances, in one    *)
(* run.  They share no row, and a directory does not know the agents.      *)
(* Each behaviour follows one of them: `focus' says which.                 *)
(***************************************************************************)
EXTENDS Agents, TLC
CONSTANTS d1, d2, p1, p2, t1, t2, a1, a2, i1, i2

VARIABLES focus, directory, user, person, licence, work, faults

\* The inbox: an empty register, one that knows d1 by its serial, and one
\* where the serial of d1 and its MAC address are on two assets.
Free == [state |-> "free", hardware |-> None, mac |-> None]
Row(h, m) == [state |-> "live", hardware |-> h, mac |-> m]
Stocks == {a1 :> Free @@ a2 :> Free,
           a1 :> Row(d1, None) @@ a2 :> Free,
           a1 :> Row(d1, None) @@ a2 :> Row(None, d1)}

\* Two processes on one machine; two tokens, one of them for one device.
Hosts   == p1 :> d1 @@ p2 :> d1
Budgets == t1 :> 2 @@ t2 :> 1

People == INSTANCE DirectorySync WITH
  Ids <- {i1, i2}, Staff <- {i2}, SyncDisabled <- FALSE, MaxFaults <- 1

people == <<directory, user, person, licence, work, faults>>
mcVars == <<focus, inbox, enrollment, people>>

MCInit == /\ focus \in {"inbox", "enrollment", "people"}
          /\ Init /\ Enrollment!Init /\ People!Init
          /\ focus # "inbox" => asset = (a1 :> Free @@ a2 :> Free)

\* One component moves; the fairness is that of each, for the behaviours that follow it.
OnInbox(A)  == focus = "inbox" /\ A /\ UNCHANGED <<focus, enrollment, people>>
OnAgents(A) == focus = "enrollment" /\ A /\ UNCHANGED <<focus, inbox, people>>
OnPeople(A) == focus = "people" /\ A /\ UNCHANGED <<focus, inbox, enrollment>>
MCFairness ==
  /\ \A d \in Devices : WF_mcVars(OnInbox(Report(d)))
  /\ \A p \in Processes :
       /\ WF_mcVars(OnAgents(Enrollment!Tick(p)))
       /\ WF_mcVars(OnAgents(Enrollment!EnrollCommit(p)))
       /\ WF_mcVars(OnAgents(Enrollment!IngestCommit(p)))
       /\ SF_mcVars(OnAgents(Enrollment!IngestRead(p)))
  /\ WF_mcVars(OnPeople(People!Working)) /\ WF_mcVars(OnPeople(People!HandWorking))

MCNext == OnInbox(Next) \/ OnAgents(Enrollment!Next) \/ OnPeople(People!Next)

MCSpec == MCInit /\ [][MCNext]_mcVars /\ MCFairness
-----------------------------------------------------------------------------
\* Reports get through, whatever was lost.
ReportsArrive == focus = "enrollment" => Enrollment!ReportsArrive

\* Whoever leaves the directory goes, whatever was cut off.
LeaversGo == focus = "people" => People!LeaversGo
=============================================================================
