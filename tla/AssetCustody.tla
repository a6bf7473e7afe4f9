---------------------------- MODULE AssetCustody ----------------------------
(***************************************************************************)
(* What the asset register promises about custody, whatever happens inside *)
(* the API: an asset goes to a person only out of nobody's hands, it comes *)
(* back before anyone else gets it, and once it has left the register      *)
(* nobody gets it again.  AssetLifecycle implements it.                    *)
(***************************************************************************)
CONSTANTS Assets, People, None

VARIABLES
  holder,   \* who holds each asset, None for nobody
  gone      \* assets that have left the register

custodyVars == <<holder, gone>>

Init == /\ holder = [a \in Assets |-> None]
        /\ gone = {}

\* One handover gives a whole set of free assets to one person, or none of them.
HandOver(S, p) ==
  /\ \A a \in S : holder[a] = None /\ a \notin gone
  /\ holder' = [a \in Assets |-> IF a \in S THEN p ELSE holder[a]]
  /\ UNCHANGED gone

GiveBack(a) == /\ holder' = [holder EXCEPT ![a] = None]
               /\ UNCHANGED gone

Leave(a) == /\ holder' = [holder EXCEPT ![a] = None]
            /\ gone' = gone \cup {a}

Next == \/ \E S \in SUBSET Assets, p \in People : HandOver(S, p)
        \/ \E a \in Assets : GiveBack(a) \/ Leave(a)

Spec == Init /\ [][Next]_custodyVars
=============================================================================
