----------------------------- MODULE MCRenewals -----------------------------
(***************************************************************************)
(* Licences on small instances, in one run.  A behaviour follows one of    *)
(* three: the outbox; people at the seats and the contract of a licence    *)
(* with no alert policy; one clerk, one alert threshold and the timer of   *)
(* syncAlerts, on a licence of its own.  `focus' says which.               *)
(***************************************************************************)
EXTENDS Licences, TLC
CONSTANTS g1, g2, c1, c2, timer

VARIABLES focus, day, dated, given, dates, ruled, flagged, worker

\* The seats the two grants ask for.
Asked == g1 :> 1 @@ g2 :> 2

Calendar == INSTANCE Renewals WITH
  Horizon <- 1, Near <- 0, WarningDays <- {0}, Seats <- 1,
  Grants <- {}, Quantity <- <<>>, Clerks <- {c1}, Timers <- {timer}, MaxRenewals <- 1,
  today <- day, item <- dated, grant <- given, renewals <- dates,
  enabled <- ruled, alert <- flagged, job <- worker
ASSUME Assumptions == Contract!RenewalsAssumption /\ Calendar!RenewalsAssumption

calendar == <<day, dated, given, dates, ruled, flagged, worker>>
mcVars   == <<focus, vars, register, calendar>>

MCInit == /\ focus \in {"outbox", "seats", "dates"}
          /\ Init /\ Contract!Init /\ Calendar!Init

\* One component moves; the fairness is that of each, where it is followed.
OnOutbox(A) == focus = "outbox" /\ A /\ UNCHANGED <<focus, register, calendar>>
OnSeats(A)  == focus = "seats" /\ A /\ UNCHANGED <<focus, vars, calendar>>
OnDates(A)  == focus = "dates" /\ A /\ UNCHANGED <<focus, vars, register>>
MCNext == OnOutbox(Next) \/ OnSeats(Contract!Next) \/ OnDates(Calendar!Next)

MCFairness ==
  /\ \A k \in Ticks : WF_mcVars(OnOutbox(Step(k)))
  /\ \A d \in Deliveries : WF_mcVars(OnOutbox(Elapse(d)))
  /\ WF_mcVars(OnDates(Calendar!SyncBegin(timer))) /\ WF_mcVars(OnDates(Calendar!Sync(timer)))

MCSpec == MCInit /\ [][MCNext]_mcVars /\ MCFairness
-----------------------------------------------------------------------------
\* A date within a threshold is alerted.
DueIsAlerted == \A a \in Calendar!AlertRows :
  (focus = "dates" /\ Calendar!Reached(a)) ~> (focus = "dates" => Calendar!Answered(a))
=============================================================================
