------------------------------ MODULE MCRaces -------------------------------
(***************************************************************************)
(* Requests that race over one asset, in one run. Each behaviour follows   *)
(* one contest, and `focus' says which: lifecycle requests among           *)
(* themselves, one case against two lifecycle requests, or two cases       *)
(* against each other.                                                     *)
(***************************************************************************)
EXTENDS DisposalWorkflow, Integers, FiniteSets, TLC
CONSTANTS w1, l1, p1, d1

VARIABLE focus

\* One warehouse at its location.
MCLocationOf == w1 :> l1

Symmetric == Permutations(Cases) \cup Permutations(Clerks) \cup Permutations(Handlers)

Raised == {c \in Cases : case[c].status # "FREE"}
Busy   == {k \in Clerks : desk[k] # IdleClerk}

\* Each asset goes out once, to p1, and comes in for repair once.
OnceOnly == \A a \in Assets, d \in Docs :
              IF d = d1 THEN assignment[a][d].to \in {p1, None}
              ELSE assignment[a][d] = Lifecycle!UnusedNumber /\ repair[a][d] = "FREE"
Serving(ops) == \A h \in Handlers : request[h].op \in ops \cup {"idle"}

Registering == Raised = {} /\ Busy = {}
Retiring    == /\ OnceOnly /\ Serving({"transfer", "complete", "remove", "cancelled"})
               /\ Cardinality(Raised) <= 1 /\ Cardinality(Busy) <= 1
Deciding    == /\ OnceOnly /\ Serving({})
               /\ \A k \in Busy : desk[k].op = "remove" => desk[k].status = "COMPLETED"

Bounded == CASE focus = "register" -> Registering
             [] focus = "case"     -> Retiring
             [] focus = "cases"    -> Deciding

MCInit == focus \in {"register", "case", "cases"} /\ Init
MCNext == UNCHANGED focus /\ Next /\ Bounded'
MCSpec == MCInit /\ [][MCNext]_<<vars, focus>>
=============================================================================
