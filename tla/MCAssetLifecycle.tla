-------------------------- MODULE MCAssetLifecycle --------------------------
(* AssetLifecycle on a small instance: the values of its constants. *)
EXTENDS AssetLifecycle, TLC
CONSTANTS w1, l1

\* One warehouse at its location.
MCLocationOf == w1 :> l1

Symmetric == Permutations(Assets) \cup Permutations(People)
               \cup Permutations(Docs) \cup Permutations(Handlers)
=============================================================================
