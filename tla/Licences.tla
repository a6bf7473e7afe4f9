------------------------------ MODULE Licences -------------------------------
(***************************************************************************)
(* What renews and reminds: one entitlement with its seats, contract and   *)
(* alerts, and the outbox that mails what alerts say.  The outbox reads    *)
(* the status of an alert when it sends and writes no row of a licence; to *)
(* it alerts come and go freely.                                           *)
(***************************************************************************)
EXTENDS NotificationOutbox

CONSTANTS Horizon, Near, WarningDays, Seats, Grants, Quantity, Clerks, Timers, MaxRenewals

VARIABLES today, item, grant, renewals, policy, warning, clerk

Contract == INSTANCE Renewals WITH enabled <- policy, alert <- warning, job <- clerk

register == <<today, item, grant, renewals, policy, warning, clerk>>

\* No more seats than were bought; each renewal starts where the last ended (Renewals).
SeatsWithinTotal  == Contract!SeatsWithinTotal
RenewsWhatIsThere == Contract!RenewsWhatIsThere
=============================================================================
