------------------------- MODULE MCDisposalWorkflow -------------------------
(* DisposalWorkflow on a small instance: the values of its constants. *)
EXTENDS DisposalWorkflow, TLC
CONSTANTS w1, l1

\* One warehouse at its location.
MCLocationOf == w1 :> l1

Symmetric == Permutations(Cases) \cup Permutations(Docs)
               \cup Permutations(Clerks) \cup Permutations(Handlers)
=============================================================================
