--------------------------- MODULE DiscoveryInbox ---------------------------
(***************************************************************************)
(* The discovery inbox: every report of an agent is reconciled with the    *)
(* asset register, and operators link the device to an asset, create one   *)
(* for it, ignore it or open the question again (discovery.service.ts).    *)
(* Transactions are READ COMMITTED, cut where they hold no lock on what    *)
(* they have read.  Reports come from AgentEnrollment, of any device and   *)
(* at any time.                                                            *)
(***************************************************************************)
EXTENDS FiniteSets

CONSTANTS
  Devices,      \* enrolled machines, by fingerprint
  Identified,   \* devices whose firmware gives a serial number or a UUID
  Assets,       \* rows the register may come to hold
  Stock,        \* what the register may hold to begin with
  Operators,    \* IT requests that may be deciding at once
  None

AssetRows == [state : {"free", "live", "deleted"},
              hardware : Devices \cup {None}, mac : Devices \cup {None}]

ASSUME InboxAssumption ==
  /\ Identified \subseteq Devices
  /\ None \notin Devices \cup Assets
  /\ Stock \subseteq [Assets -> AssetRows]
  /\ \A s \in Stock : \* no two rows share a serial or a UUID
       \A a, b \in Assets : a # b /\ s[a].hardware = s[b].hardware => s[a].hardware = None

VARIABLES
  linked,    \* endpoint_agents.linkedAssetId
  item,      \* discovery_inbox_items, by agent
  asset,     \* assets: whether live, and the devices its identifiers name
  job        \* what each operator's request has read

vars == <<linked, item, asset, job>>
-----------------------------------------------------------------------------
Open   == {"PENDING", "MATCHED", "CONFLICT"}
Status == Open \cup {"NONE", "LINKED", "CREATED", "IGNORED"}

ItemRows  == [status : Status, suggested : Assets \cup {None},
              resolved : Assets \cup {None}, decided : BOOLEAN]
NoItem  == [status |-> "NONE", suggested |-> None, resolved |-> None, decided |-> FALSE]

Idle == [op |-> "idle"]
Jobs == {Idle}
  \cup [op : {"link"}, device : Devices, asset : Assets]
  \cup [op : {"create", "reopen"}, device : Devices]
  \cup [op : {"rewrite"}, device : Devices, linked : Assets \cup {None}]

Become(p, j) == job' = [job EXCEPT ![p] = j]

(***************************************************************************)
(* reconcile and classifyCandidates. What the agent is linked to settles   *)
(* the item; otherwise live assets that carry its identifiers suggest one. *)
(* Mutant: a linked agent is classified like any other.                    *)
(***************************************************************************)
Candidates(d) == {a \in Assets : asset[a].state = "live" /\ d \in {asset[a].hardware, asset[a].mac}}

Classified(d) ==
  LET found == Candidates(d) IN
  [status    |-> IF found = {} THEN "PENDING"
                 ELSE IF Cardinality(found) = 1 THEN "MATCHED" ELSE "CONFLICT",
   suggested |-> IF Cardinality(found) = 1 THEN CHOOSE a \in found : TRUE ELSE None,
   resolved  |-> None, decided |-> FALSE]

ReconciledAnew(d, link) == Classified(d)
Reconciled(d, link) ==
  IF link = None THEN Classified(d)
  ELSE [status |-> "LINKED", suggested |-> None, resolved |-> link, decided |-> item[d].decided]
-----------------------------------------------------------------------------
Init ==
  /\ asset \in Stock
  /\ linked = [d \in Devices |-> None]
  /\ item = [d \in Devices |-> NoItem]
  /\ job = [o \in Operators |-> Idle]

\* storeSnapshotAndReconcile, from enroll or ingest, which have locked the
\* agent's row. Mutant: a sole candidate becomes the agent's asset at once.
ReportAndLink(d) ==
  LET sole == IF linked[d] = None THEN Classified(d).suggested ELSE linked[d] IN
  /\ linked' = [linked EXCEPT ![d] = sole]
  /\ item' = [item EXCEPT ![d] = Reconciled(d, sole)]
  /\ UNCHANGED <<asset, job>>
Report(d) ==
  /\ item' = [item EXCEPT ![d] = Reconciled(d, linked[d])]
  /\ UNCHANGED <<linked, asset, job>>
-----------------------------------------------------------------------------
(***************************************************************************)
(* The operators' decisions.                                               *)
(***************************************************************************)
Decide(d, status, a) ==
  item' = [item EXCEPT ![d] = [status |-> status, suggested |-> None,
                               resolved |-> a, decided |-> TRUE]]

LinkRead(o, d, a) ==
  /\ job[o] = Idle
  /\ item[d].status # "NONE"
  /\ asset[a].state = "live"
  /\ \A e \in Devices \ {d} : linked[e] # a
  /\ Become(o, [op |-> "link", device |-> d, asset |-> a])
  /\ UNCHANGED <<linked, item, asset>>

\* linkedAssetId is unique: a link made meanwhile turns this one down. Mutant:
\* the schema without that constraint.
LinkCommitUnchecked(o) ==
  LET d == job[o].device  a == job[o].asset IN
  /\ job[o].op = "link"
  /\ linked' = [linked EXCEPT ![d] = a]
  /\ Decide(d, "LINKED", a)
  /\ Become(o, Idle)
  /\ UNCHANGED asset
LinkCommit(o) ==
  LET d == job[o].device  a == job[o].asset IN
  /\ job[o].op = "link"
  /\ \/ /\ \A e \in Devices \ {d} : linked[e] # a
        /\ linked' = [linked EXCEPT ![d] = a]
        /\ Decide(d, "LINKED", a)
     \/ /\ \E e \in Devices \ {d} : linked[e] = a
        /\ UNCHANGED <<linked, item>>
  /\ Become(o, Idle)
  /\ UNCHANGED asset

Ignore(d) ==
  /\ item[d].status # "NONE"
  /\ Decide(d, "IGNORED", None)
  /\ UNCHANGED <<linked, asset, job>>

CreateRead(o, d) ==
  /\ job[o] = Idle
  /\ item[d].status \in Open
  /\ Become(o, [op |-> "create", device |-> d])
  /\ UNCHANGED <<linked, item, asset>>

\* The serial and the UUID are unique over the register; a MAC address is not.
Registered(d, a) ==
  asset' = [asset EXCEPT ![a] = [state |-> "live", mac |-> d,
                                 hardware |-> IF d \in Identified THEN d ELSE None]]
CreateCommit(o) ==
  LET d == job[o].device
      taken == d \in Identified /\ \E a \in Assets : asset[a].hardware = d
  IN
  /\ job[o].op = "create"
  /\ \/ \E a \in Assets :
          /\ ~taken /\ asset[a].state = "free"
          /\ Registered(d, a)
          /\ linked' = [linked EXCEPT ![d] = a]
          /\ Decide(d, "CREATED", a)
     \/ taken /\ UNCHANGED <<asset, linked, item>>
  /\ Become(o, Idle)

\* reopen looks at the link twice, outside its transaction and in it, and
\* holds no lock when it writes the item.
ReopenRead(o, d) ==
  /\ job[o] = Idle
  /\ item[d].status # "NONE" /\ linked[d] = None
  /\ Become(o, [op |-> "reopen", device |-> d])
  /\ UNCHANGED <<linked, item, asset>>

ReopenBegin(o) ==
  /\ job[o].op = "reopen"
  /\ Become(o, [op |-> "rewrite", device |-> job[o].device, linked |-> linked[job[o].device]])
  /\ UNCHANGED <<linked, item, asset>>

ReopenWrite(o) ==
  /\ job[o].op = "rewrite"
  /\ item' = [item EXCEPT ![job[o].device] = Reconciled(job[o].device, job[o].linked)]
  /\ Become(o, Idle)
  /\ UNCHANGED <<linked, asset>>

\* The register deletes an asset and gives its serial and UUID free; agents
\* linked to it stay linked.
DeleteAsset(a) ==
  /\ asset[a].state = "live"
  /\ asset' = [asset EXCEPT ![a].state = "deleted", ![a].hardware = None]
  /\ UNCHANGED <<linked, item, job>>
-----------------------------------------------------------------------------
Next ==
  \/ \E d \in Devices : Report(d) \/ Ignore(d)
  \/ \E o \in Operators : \/ \E d \in Devices, a \in Assets : LinkRead(o, d, a)
                         \/ \E d \in Devices : CreateRead(o, d) \/ ReopenRead(o, d)
                         \/ LinkCommit(o) \/ CreateCommit(o) \/ ReopenBegin(o) \/ ReopenWrite(o)
  \/ \E a \in Assets : DeleteAsset(a)

Spec == Init /\ [][Next]_vars

\* Agents report on every tick.
Fairness == \A d \in Devices : WF_vars(Report(d))
FairSpec == Spec /\ Fairness
-----------------------------------------------------------------------------
TypeOK ==
  /\ linked \in [Devices -> Assets \cup {None}]
  /\ item \in [Devices -> ItemRows]
  /\ asset \in [Assets -> AssetRows]
  /\ job \in [Operators -> Jobs]

(***************************************************************************)
(* Two operators who link at once never leave two agents on one asset.     *)
(***************************************************************************)
OneAgentPerAsset ==
  \A d, e \in Devices : linked[d] = linked[e] /\ linked[d] # None => d = e

(***************************************************************************)
(* An item that is settled on an asset has an agent linked to one, in every*)
(* order of decisions, reports and reopenings.                             *)
(***************************************************************************)
SettledIsLinked == \A d \in Devices : item[d].resolved # None => linked[d] # None

(***************************************************************************)
(* IT decides: nothing an agent sends links it to an asset, only a decision*)
(* that is recorded with its author (src/docs/ENDPOINT_AGENT.md:24).       *)
(***************************************************************************)
ITDecides ==
  [][\A d \in Devices : linked'[d] # linked[d] => item'[d].decided]_vars

(***************************************************************************)
(* The inbox heals: a linked device that is shown as undecided or ignored, *)
(* as a reopening that raced the decision leaves it, is shown as linked    *)
(* again once its agent has reported.                                      *)
(***************************************************************************)
InboxHeals ==
  \A d \in Devices : linked[d] # None ~> item[d].resolved # None
=============================================================================
