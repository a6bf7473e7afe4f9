----------------------------- MODULE TokenBudget -----------------------------
(***************************************************************************)
(* What an enrolment token promises, whatever requests race for it: it is  *)
(* open until it ends, it is spent one device at a time, never past the    *)
(* maximum its creator set, and once ended it admits nobody.               *)
(***************************************************************************)
EXTENDS Naturals

CONSTANTS Tokens, Maximum

VARIABLES open, left

vars == <<open, left>>

Init ==
  /\ open = [t \in Tokens |-> FALSE]
  /\ left = [t \in Tokens |-> Maximum[t]]

Issue(t) == /\ ~open[t] /\ left[t] = Maximum[t]
            /\ open' = [open EXCEPT ![t] = TRUE]
            /\ UNCHANGED left

Admit(t) == /\ open[t] /\ left[t] > 0
            /\ left' = [left EXCEPT ![t] = @ - 1]
            /\ UNCHANGED open

End(t)   == /\ open[t]
            /\ open' = [open EXCEPT ![t] = FALSE]
            /\ UNCHANGED left

Next == \E t \in Tokens : Issue(t) \/ Admit(t) \/ End(t)

Spec == Init /\ [][Next]_vars
=============================================================================
