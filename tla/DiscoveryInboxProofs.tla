------------------------ MODULE DiscoveryInboxProofs ------------------------
(***************************************************************************)
(* Proofs about Agents.  DiscoveryInbox: its types, one agent for an       *)
(* asset, that an item settled on an asset has its agent linked, and that  *)
(* only decisions link.  AgentEnrollment: that it implements TokenBudget.  *)
(***************************************************************************)
EXTENDS Agents, FiniteSetTheorems, TLAPS

USE InboxAssumption

LEMMA ReconciledType ==
  ASSUME TypeOK, NEW d \in Devices, NEW link \in Assets \cup {None}
  PROVE  Reconciled(d, link) \in ItemRows
<1>1. Cardinality(Candidates(d)) = 1 => (CHOOSE a \in Candidates(d) : TRUE) \in Assets
  <2>1. Cardinality(Candidates(d)) = 1 => Candidates(d) # {}
    BY FS_EmptySet
  <2> QED BY <2>1 DEF Candidates
<1>2. Classified(d) \in ItemRows
  BY <1>1 DEF Classified, ItemRows, Status, Open
<1> QED BY <1>2 DEF Reconciled, ItemRows, Status, TypeOK

LEMMA DecideType ==
  ASSUME TypeOK, NEW d \in Devices, NEW s \in {"LINKED", "CREATED", "IGNORED"},
         NEW a \in Assets \cup {None}, Decide(d, s, a)
  PROVE  item' \in [Devices -> ItemRows]
BY DEF Decide, TypeOK, ItemRows, Status

\* What each kind of request holds.
LEMMA JobTypes ==
  ASSUME NEW j \in Jobs
  PROVE  /\ j.op = "link" => j.device \in Devices /\ j.asset \in Assets
         /\ j.op \in {"create", "reopen"} => j.device \in Devices
         /\ j.op = "rewrite" => j.device \in Devices /\ j.linked \in Assets \cup {None}
BY DEF Jobs, Idle

LEMMA StepType == ASSUME TypeOK, [Next]_vars PROVE TypeOK'
<1>t. /\ linked \in [Devices -> Assets \cup {None}]
      /\ item \in [Devices -> ItemRows]
      /\ asset \in [Assets -> AssetRows]
      /\ job \in [Operators -> Jobs]
  BY DEF TypeOK
<1>i. Idle \in Jobs
  BY DEF Jobs
<1>1. ASSUME NEW d \in Devices, Report(d) PROVE TypeOK'
  <2>1. Reconciled(d, linked[d]) \in ItemRows
    BY <1>t, ReconciledType
  <2> QED BY <1>1, <1>t, <2>1 DEF Report, TypeOK
<1>2. ASSUME NEW d \in Devices, Ignore(d) PROVE TypeOK'
  BY <1>2, <1>t, DecideType DEF Ignore, TypeOK
<1>3. ASSUME NEW o \in Operators, NEW d \in Devices, NEW a \in Assets, LinkRead(o, d, a) PROVE TypeOK'
  <2>1. [op |-> "link", device |-> d, asset |-> a] \in Jobs
    BY DEF Jobs
  <2> QED BY <1>3, <1>t, <2>1 DEF LinkRead, Become, TypeOK
<1>4. ASSUME NEW o \in Operators, NEW d \in Devices, CreateRead(o, d) \/ ReopenRead(o, d) PROVE TypeOK'
  <2>1. [op |-> "create", device |-> d] \in Jobs /\ [op |-> "reopen", device |-> d] \in Jobs
    BY DEF Jobs
  <2> QED BY <1>4, <1>t, <2>1 DEF CreateRead, ReopenRead, Become, TypeOK
<1>5. ASSUME NEW o \in Operators, LinkCommit(o) PROVE TypeOK'
  <2>1. job[o].device \in Devices /\ job[o].asset \in Assets
    BY <1>5, <1>t, JobTypes DEF LinkCommit
  <2>2. item' \in [Devices -> ItemRows]
    BY <1>5, <1>t, <2>1, DecideType DEF LinkCommit
  <2>3. linked' \in [Devices -> Assets \cup {None}]
    BY <1>5, <1>t, <2>1 DEF LinkCommit
  <2> QED BY <1>5, <1>t, <1>i, <2>2, <2>3 DEF LinkCommit, Become, TypeOK
<1>6. ASSUME NEW o \in Operators, CreateCommit(o) PROVE TypeOK'
  <2>1. job[o].device \in Devices
    BY <1>6, <1>t, JobTypes DEF CreateCommit
  <2>2. ASSUME NEW a \in Assets, Registered(job[o].device, a), Decide(job[o].device, "CREATED", a),
               linked' = [linked EXCEPT ![job[o].device] = a]
        PROVE  /\ asset' \in [Assets -> AssetRows]
               /\ item' \in [Devices -> ItemRows]
               /\ linked' \in [Devices -> Assets \cup {None}]
    <3>1. [state |-> "live", mac |-> job[o].device,
           hardware |-> IF job[o].device \in Identified THEN job[o].device ELSE None] \in AssetRows
      BY <2>1 DEF AssetRows
    <3> QED BY <1>t, <2>1, <2>2, <3>1, DecideType DEF Registered
  <2>3. /\ asset' \in [Assets -> AssetRows]
        /\ item' \in [Devices -> ItemRows]
        /\ linked' \in [Devices -> Assets \cup {None}]
    BY <1>6, <1>t, <2>2 DEF CreateCommit
  <2> QED BY <1>6, <1>t, <1>i, <2>3 DEF CreateCommit, Become, TypeOK
<1>7. ASSUME NEW o \in Operators, ReopenBegin(o) PROVE TypeOK'
  <2>1. job[o].device \in Devices
    BY <1>7, <1>t, JobTypes DEF ReopenBegin
  <2>2. [op |-> "rewrite", device |-> job[o].device, linked |-> linked[job[o].device]] \in Jobs
    BY <1>t, <2>1 DEF Jobs
  <2> QED BY <1>7, <1>t, <2>2 DEF ReopenBegin, Become, TypeOK
<1>8. ASSUME NEW o \in Operators, ReopenWrite(o) PROVE TypeOK'
  <2>1. job[o].device \in Devices /\ job[o].linked \in Assets \cup {None}
    BY <1>8, <1>t, JobTypes DEF ReopenWrite
  <2>2. Reconciled(job[o].device, job[o].linked) \in ItemRows
    BY <2>1, ReconciledType
  <2> QED BY <1>8, <1>t, <1>i, <2>1, <2>2 DEF ReopenWrite, Become, TypeOK
<1>9. ASSUME NEW a \in Assets, DeleteAsset(a) PROVE TypeOK'
  <2>1. [[asset[a] EXCEPT !.state = "deleted"] EXCEPT !.hardware = None] \in AssetRows
    <3>1. asset[a] \in AssetRows
      BY <1>t
    <3> QED BY <3>1 DEF AssetRows
  <2>2. asset' = [asset EXCEPT ![a] = [[asset[a] EXCEPT !.state = "deleted"] EXCEPT !.hardware = None]]
    BY <1>9, <1>t DEF DeleteAsset, AssetRows
  <2> QED BY <1>9, <1>t, <2>1, <2>2 DEF DeleteAsset, TypeOK
<1>10. CASE UNCHANGED vars
  BY <1>10 DEF vars, TypeOK
<1> QED BY <1>1, <1>2, <1>3, <1>4, <1>5, <1>6, <1>7, <1>8, <1>9, <1>10 DEF Next
-----------------------------------------------------------------------------
(***************************************************************************)
(* The inductive invariant.  What is linked, or about to be, is a row that *)
(* was registered once, so an asset that is created is nobody's; a link,   *)
(* once made, is only ever replaced by another.                            *)
(***************************************************************************)
LinkedIsRegistered ==
  /\ \A d \in Devices : linked[d] # None => asset[linked[d]].state # "free"
  /\ \A o \in Operators : job[o].op = "link" => asset[job[o].asset].state # "free"
SeenLinkStays ==
  \A o \in Operators : job[o].op = "rewrite" /\ job[o].linked # None => linked[job[o].device] # None
InboxInv == TypeOK /\ LinkedIsRegistered /\ OneAgentPerAsset /\ SeenLinkStays /\ SettledIsLinked

\* The links an action makes, whatever it does besides.
Relinks(d, a) ==
  /\ linked' = [linked EXCEPT ![d] = a]
  /\ asset'[a].state # "free"
  /\ \A e \in Devices \ {d} : linked[e] # a
  /\ item' = [item EXCEPT ![d] = item'[d]]
  /\ item'[d].decided

\* Every step keeps the links, or makes one for an asset that had none.
LEMMA StepLinks ==
  ASSUME InboxInv, [Next]_vars
  PROVE  \/ UNCHANGED linked
         \/ \E d \in Devices, a \in Assets : Relinks(d, a)
<1> USE DEF InboxInv
<1>1. ASSUME NEW o \in Operators, LinkCommit(o)
      PROVE  UNCHANGED linked \/ \E d \in Devices, a \in Assets : Relinks(d, a)
  <2> DEFINE d == job[o].device  a == job[o].asset
  <2>1. d \in Devices /\ a \in Assets /\ asset' = asset /\ asset[a].state # "free"
    BY <1>1, JobTypes DEF LinkCommit, TypeOK, LinkedIsRegistered
  <2>2. CASE \E e \in Devices \ {d} : linked[e] = a
    BY <1>1, <2>2 DEF LinkCommit
  <2>3. CASE \A e \in Devices \ {d} : linked[e] # a
    <3>1. linked' = [linked EXCEPT ![d] = a] /\ Decide(d, "LINKED", a)
      BY <1>1, <2>3 DEF LinkCommit
    <3>2. Relinks(d, a)
      BY <2>1, <2>3, <3>1 DEF Relinks, Decide, TypeOK
    <3> QED BY <2>1, <3>2
  <2> QED BY <2>2, <2>3
<1>2. ASSUME NEW o \in Operators, CreateCommit(o)
      PROVE  UNCHANGED linked \/ \E d \in Devices, a \in Assets : Relinks(d, a)
  <2> DEFINE d == job[o].device
  <2>1. d \in Devices
    BY <1>2, JobTypes DEF CreateCommit, TypeOK
  <2>2. ASSUME NEW a \in Assets, asset[a].state = "free", Registered(d, a), Decide(d, "CREATED", a),
               linked' = [linked EXCEPT ![d] = a]
        PROVE  Relinks(d, a)
    BY <2>1, <2>2 DEF Relinks, Registered, Decide, LinkedIsRegistered, TypeOK
  <2> QED BY <1>2, <2>1, <2>2 DEF CreateCommit
<1> QED BY <1>1, <1>2 DEF Next, Report, Ignore, LinkRead, CreateRead, ReopenRead,
                          ReopenBegin, ReopenWrite, DeleteAsset, vars

\* Rows of the register never become free again.
LEMMA StepRegister ==
  ASSUME InboxInv, [Next]_vars, NEW a \in Assets, asset[a].state # "free"
  PROVE  asset'[a].state # "free"
<1>1. ASSUME NEW o \in Operators, CreateCommit(o) PROVE asset'[a].state # "free"
  BY <1>1 DEF CreateCommit, Registered, InboxInv, TypeOK
<1>2. ASSUME NEW b \in Assets, DeleteAsset(b) PROVE asset'[a].state # "free"
  BY <1>2 DEF DeleteAsset, InboxInv, TypeOK
<1> QED BY <1>1, <1>2 DEF Next, Report, Ignore, LinkRead, LinkCommit, CreateRead, ReopenRead,
                          ReopenBegin, ReopenWrite, vars

\* What a request has before it is what it had, or what it has just read.
LEMMA StepJobs ==
  ASSUME InboxInv, [Next]_vars, NEW o \in Operators
  PROVE  \/ job'[o] = job[o]
         \/ job'[o].op = "link" /\ asset[job'[o].asset].state = "live"
         \/ job'[o].op = "rewrite" /\ job'[o].linked = linked[job'[o].device] /\ UNCHANGED linked
         \/ job'[o].op \in {"idle", "create", "reopen"}
<1> USE DEF InboxInv, TypeOK, Become, Idle
<1>1. ASSUME NEW p \in Operators, NEW d \in Devices, NEW a \in Assets, LinkRead(p, d, a)
      PROVE  job'[o] = job[o] \/ (job'[o].op = "link" /\ asset[job'[o].asset].state = "live")
  BY <1>1 DEF LinkRead
<1>2. ASSUME NEW p \in Operators, ReopenBegin(p)
      PROVE  \/ job'[o] = job[o]
             \/ job'[o].op = "rewrite" /\ job'[o].linked = linked[job'[o].device] /\ UNCHANGED linked
  BY <1>2 DEF ReopenBegin
<1>3. ASSUME NEW p \in Operators, NEW d \in Devices, CreateRead(p, d) \/ ReopenRead(p, d)
      PROVE  job'[o] = job[o] \/ job'[o].op \in {"idle", "create", "reopen"}
  BY <1>3 DEF CreateRead, ReopenRead
<1>4. ASSUME NEW p \in Operators, LinkCommit(p) \/ CreateCommit(p) \/ ReopenWrite(p)
      PROVE  job'[o] = job[o] \/ job'[o].op \in {"idle", "create", "reopen"}
  BY <1>4 DEF LinkCommit, CreateCommit, ReopenWrite
<1> QED BY <1>1, <1>2, <1>3, <1>4 DEF Next, Report, Ignore, DeleteAsset, vars

\* Items are settled by what their agent is, or is about to be, linked to.
LEMMA StepItems ==
  ASSUME InboxInv, [Next]_vars, NEW d \in Devices, item'[d].resolved # None
  PROVE  linked'[d] # None
<1> USE DEF InboxInv
<1>t. /\ linked \in [Devices -> Assets \cup {None}] /\ item \in [Devices -> ItemRows]
      /\ job \in [Operators -> Jobs]
  BY DEF TypeOK
<1>1. linked[d] # None => linked'[d] # None
  BY <1>t, StepLinks DEF Relinks
<1>2. CASE item'[d].resolved = item[d].resolved
  BY <1>1, <1>2 DEF SettledIsLinked
<1>3. ASSUME NEW e \in Devices, NEW link, item' = [item EXCEPT ![e] = Reconciled(e, link)],
             link # None => linked[e] # None
      PROVE  linked'[d] # None
  <2>1. CASE e = d
    BY <1>1, <1>3, <1>t, <2>1 DEF Reconciled, Classified
  <2>2. CASE e # d
    BY <1>2, <1>3, <1>t, <2>2
  <2> QED BY <2>1, <2>2
<1>4. ASSUME NEW e \in Devices, Report(e) PROVE linked'[d] # None
  BY <1>3, <1>4 DEF Report
<1>5. ASSUME NEW e \in Devices, Ignore(e) PROVE linked'[d] # None
  BY <1>2, <1>5, <1>t DEF Ignore, Decide
<1>6. ASSUME NEW o \in Operators, ReopenWrite(o) PROVE linked'[d] # None
  BY <1>3, <1>6, <1>t, JobTypes DEF ReopenWrite, SeenLinkStays
<1>7. ASSUME NEW e \in Devices, NEW a \in Assets, NEW s, Decide(e, s, a),
             linked' = [linked EXCEPT ![e] = a]
      PROVE  linked'[d] # None
  <2>1. CASE e = d
    BY <1>7, <1>t, <2>1
  <2>2. CASE e # d
    BY <1>2, <1>7, <1>t, <2>2 DEF Decide
  <2> QED BY <2>1, <2>2
<1>8. ASSUME NEW o \in Operators, LinkCommit(o) PROVE linked'[d] # None
  <2>1. job[o].device \in Devices /\ job[o].asset \in Assets
    BY <1>8, <1>t, JobTypes DEF LinkCommit
  <2> QED BY <1>2, <1>7, <1>8, <2>1 DEF LinkCommit
<1>9. ASSUME NEW o \in Operators, CreateCommit(o) PROVE linked'[d] # None
  <2>1. job[o].device \in Devices
    BY <1>9, <1>t, JobTypes DEF CreateCommit
  <2> QED BY <1>2, <1>7, <1>9, <2>1 DEF CreateCommit
<1> QED BY <1>2, <1>4, <1>5, <1>6, <1>8, <1>9 DEF Next, LinkRead, CreateRead, ReopenRead,
                                            ReopenBegin, DeleteAsset, vars

LEMMA StepInbox == ASSUME InboxInv, [Next]_vars PROVE InboxInv'
<1>t. /\ linked \in [Devices -> Assets \cup {None}] /\ linked' \in [Devices -> Assets \cup {None}]
      /\ job \in [Operators -> Jobs] /\ job' \in [Operators -> Jobs] /\ TypeOK'
  BY StepType DEF InboxInv, TypeOK
<1>1. LinkedIsRegistered'
  <2>1. ASSUME NEW d \in Devices, linked'[d] # None PROVE asset'[linked'[d]].state # "free"
    <3>1. CASE linked'[d] = linked[d]
      BY <1>t, <2>1, <3>1, StepRegister DEF InboxInv, LinkedIsRegistered
    <3>2. CASE linked'[d] # linked[d]
      BY <1>t, <3>2, StepLinks DEF Relinks
    <3> QED BY <3>1, <3>2
  <2>2. ASSUME NEW o \in Operators, job'[o].op = "link" PROVE asset'[job'[o].asset].state # "free"
    <3>1. job'[o].asset \in Assets
      BY <1>t, <2>2, JobTypes
    <3>2. asset[job'[o].asset].state # "free"
      BY <2>2, StepJobs DEF InboxInv, LinkedIsRegistered
    <3> QED BY <3>1, <3>2, StepRegister
  <2> QED BY <2>1, <2>2 DEF LinkedIsRegistered
<1>2. OneAgentPerAsset'
  <2>1. CASE UNCHANGED linked
    BY <2>1 DEF InboxInv, OneAgentPerAsset
  <2>2. ASSUME NEW d \in Devices, NEW a \in Assets, Relinks(d, a) PROVE OneAgentPerAsset'
    BY <1>t, <2>2 DEF InboxInv, OneAgentPerAsset, Relinks
  <2> QED BY <2>1, <2>2, StepLinks
<1>3. SeenLinkStays'
  <2> SUFFICES ASSUME NEW o \in Operators, job'[o].op = "rewrite", job'[o].linked # None
               PROVE  linked'[job'[o].device] # None
    BY DEF SeenLinkStays
  <2>1. job'[o].device \in Devices
    BY <1>t, JobTypes
  <2>2. linked[job'[o].device] # None
    BY StepJobs DEF InboxInv, SeenLinkStays
  <2> QED BY <1>t, <2>1, <2>2, StepLinks DEF Relinks
<1>4. SettledIsLinked'
  BY StepItems DEF SettledIsLinked
<1> QED BY <1>t, <1>1, <1>2, <1>3, <1>4 DEF InboxInv

LEMMA InboxInvariant == Spec => []InboxInv
<1>1. Init => InboxInv
  <2> SUFFICES ASSUME Init PROVE InboxInv
    OBVIOUS
  <2>1. TypeOK
    <3>1. asset \in [Assets -> AssetRows] /\ NoItem \in ItemRows /\ Idle \in Jobs
      BY DEF Init, ItemRows, NoItem, Status, Jobs
    <3> QED BY <3>1 DEF Init, TypeOK
  <2> QED BY <2>1 DEF Init, InboxInv, LinkedIsRegistered, OneAgentPerAsset, SeenLinkStays,
                      SettledIsLinked, NoItem, Idle
<1>2. InboxInv /\ [Next]_vars => InboxInv'
  BY StepInbox
<1> QED BY <1>1, <1>2, PTL DEF Spec
-----------------------------------------------------------------------------
\* Every variable keeps its type (discovery.service.ts).
THEOREM TypeCorrect == Spec => []TypeOK
<1>1. InboxInv => TypeOK
  BY DEF InboxInv
<1> QED BY <1>1, InboxInvariant, PTL

\* However many operators and devices there are, links made at once never
\* leave two agents on one asset (linkedAssetId in link and createAsset).
THEOREM OneAgentForAnAsset == Spec => []OneAgentPerAsset
<1>1. InboxInv => OneAgentPerAsset
  BY DEF InboxInv
<1> QED BY <1>1, InboxInvariant, PTL

\* An item shown as settled on an asset belongs to an agent that is linked.
THEOREM SettledItemsAreLinked == Spec => []SettledIsLinked
<1>1. InboxInv => SettledIsLinked
  BY DEF InboxInv
<1> QED BY <1>1, InboxInvariant, PTL

\* src/docs/ENDPOINT_AGENT.md:24: no report links a device, only a decision does.
THEOREM OnlyITDecides == Spec => ITDecides
<1> DEFINE Decided == \A d \in Devices : linked'[d] # linked[d] => item'[d].decided
<1>1. InboxInv /\ [Next]_vars => [Decided]_vars
  <2> SUFFICES ASSUME InboxInv, [Next]_vars PROVE Decided
    OBVIOUS
  <2> QED BY StepLinks DEF Relinks, InboxInv, TypeOK
<1> QED BY <1>1, InboxInvariant, PTL DEF Spec, ITDecides
-----------------------------------------------------------------------------
(***************************************************************************)
(* Enrolment tokens.  A token that was not issued was not spent.           *)
(***************************************************************************)
USE Enrollable

CountKept ==
  /\ token \in [Tokens -> Enrollment!TokenRows]
  /\ \A t \in Tokens : token[t].state = "none" => token[t].count = 0

\* What a step does to a token: nothing, or one of three things to one of them.
TokenTurns ==
  \/ token' = token
  \/ \E t \in Tokens :
       \/ token[t].state = "none" /\ token' = [token EXCEPT ![t].state = "valid"]
       \/ token[t].state = "valid" /\ token' = [token EXCEPT ![t].state = "ended"]
       \/ Enrollment!Admittable(t) /\ token' = [token EXCEPT ![t].count = @ + 1]

LEMMA TokensTurn ==
  ASSUME Enrollment!TypeOK, [Enrollment!Next]_(Enrollment!vars)
  PROVE  TokenTurns
<1>1. ASSUME NEW p \in Processes, Enrollment!EnrollCommit(p) PROVE TokenTurns
  <2>1. errand[p].op = "admit" /\ errand[p].token \in Tokens
    BY <1>1 DEF Enrollment!EnrollCommit, Enrollment!TypeOK, Enrollment!Jobs, Enrollment!Idle
  <2>2. QED
    BY <1>1, <2>1 DEF Enrollment!EnrollCommit, Enrollment!Spend, TokenTurns
<1>2. QED
  BY <1>1
  DEF Enrollment!Next, Enrollment!vars, Enrollment!IssueToken, Enrollment!EndToken,
      Enrollment!RevokeAgent, Enrollment!Reinstall, Enrollment!Change, Enrollment!Tick,
      Enrollment!EnrollRead, Enrollment!SaveState, Enrollment!IngestRead,
      Enrollment!IngestCommit, Enrollment!Lose, TokenTurns

LEMMA TokenStep ==
  ASSUME CountKept, TokenTurns
  PROVE  CountKept' /\ [Enrollment!Budget!Next]_(Enrollment!Budget!vars)
<1> USE DEF Enrollment!TokenRows
<1>1. CASE token' = token
  BY <1>1 DEF CountKept, Enrollment!Budget!vars
<1>2. ASSUME NEW t \in Tokens, token[t].state = "none",
             token' = [token EXCEPT ![t].state = "valid"]
      PROVE  CountKept' /\ Enrollment!Budget!Issue(t)
  <2>1. token' = [token EXCEPT ![t] = [state |-> "valid", count |-> token[t].count]]
    <3>1. [token[t] EXCEPT !.state = "valid"] = [state |-> "valid", count |-> token[t].count]
      BY DEF CountKept
    <3>2. QED
      BY <1>2, <3>1
  <2>2. CountKept'
    BY <1>2, <2>1 DEF CountKept
  <2>3. \A u \in Tokens : token'[u].count = token[u].count
    BY <1>2, <2>1 DEF CountKept
  <2>4. \A u \in Tokens : token'[u].state = IF u = t THEN "valid" ELSE token[u].state
    BY <1>2, <2>1 DEF CountKept
  <2>5. token[t].count = 0 /\ Maximum[t] \in Nat
    BY <1>2 DEF CountKept, Enrollment!EnrollmentAssumption
  <2>6. Maximum[t] - token[t].count = Maximum[t]
    BY <2>5
  <2>7. [u \in Tokens |-> Maximum[u] - token'[u].count]
        = [u \in Tokens |-> Maximum[u] - token[u].count]
    BY <2>3, Zenon
  <2>8. [u \in Tokens |-> token'[u].state = "valid"]
        = [[u \in Tokens |-> token[u].state = "valid"] EXCEPT ![t] = TRUE]
    BY <2>4
  <2>9. Enrollment!Budget!Issue(t)
    BY <1>2, <2>6, <2>7, <2>8 DEF Enrollment!Budget!Issue
  <2>10. QED
    BY <2>2, <2>9
<1>3. ASSUME NEW t \in Tokens, token[t].state = "valid",
             token' = [token EXCEPT ![t].state = "ended"]
      PROVE  CountKept' /\ Enrollment!Budget!End(t)
  BY <1>3 DEF CountKept, Enrollment!Budget!End
<1>4. ASSUME NEW t \in Tokens, Enrollment!Admittable(t),
             token' = [token EXCEPT ![t].count = @ + 1]
      PROVE  CountKept' /\ Enrollment!Budget!Admit(t)
  <2>1. token' = [token EXCEPT ![t] = [state |-> token[t].state, count |-> token[t].count + 1]]
    <3>1. [token[t] EXCEPT !.count = token[t].count + 1]
          = [state |-> token[t].state, count |-> token[t].count + 1]
      BY DEF CountKept
    <3>2. QED
      BY <1>4, <3>1
  <2>2. token[t].state = "valid" /\ token[t].count < Maximum[t]
    BY <1>4 DEF Enrollment!Admittable
  <2>3. CountKept'
    BY <2>1, <2>2 DEF CountKept
  <2>4. \A u \in Tokens : token'[u].state = token[u].state
    BY <2>1 DEF CountKept
  <2>5. \A u \in Tokens :
          token'[u].count = IF u = t THEN token[u].count + 1 ELSE token[u].count
    BY <2>1 DEF CountKept
  <2>6. \A u \in Tokens : Maximum[u] \in Nat /\ token[u].count \in Nat
    BY DEF CountKept, Enrollment!EnrollmentAssumption
  <2>7. Maximum[t] - token[t].count > 0
    BY <2>2, <2>6
  <2>8. [u \in Tokens |-> Maximum[u] - token'[u].count]
        = [[u \in Tokens |-> Maximum[u] - token[u].count]
             EXCEPT ![t] = (Maximum[t] - token[t].count) - 1]
    <3> DEFINE Left == [u \in Tokens |-> Maximum[u] - token[u].count]
               Spent == [Left EXCEPT ![t] = (Maximum[t] - token[t].count) - 1]
    <3>1. \A u \in Tokens : Maximum[u] - token'[u].count = Spent[u]
      <4>1. Maximum[t] - (token[t].count + 1) = (Maximum[t] - token[t].count) - 1
        BY <2>6
      <4>2. QED
        BY <2>5, <4>1
    <3>2. Spent = [u \in Tokens |-> Spent[u]]
      OBVIOUS
    <3> HIDE DEF Spent
    <3>3. [u \in Tokens |-> Maximum[u] - token'[u].count] = Spent
      BY <3>1, <3>2, Zenon
    <3>4. QED
      BY <3>3 DEF Spent
  <2>9. [u \in Tokens |-> token'[u].state = "valid"]
        = [u \in Tokens |-> token[u].state = "valid"]
    BY <2>4
  <2>10. Enrollment!Budget!Admit(t)
    BY <2>2, <2>7, <2>8, <2>9 DEF Enrollment!Budget!Admit
  <2>11. QED
    BY <2>3, <2>10
<1>5. QED
  BY <1>1, <1>2, <1>3, <1>4 DEF TokenTurns, Enrollment!Budget!Next

(***************************************************************************)
(* The types of enrolment, one action at a time where a row is rewritten.  *)
(***************************************************************************)
LEMMA EnrolTypes ==
  ASSUME Enrollment!TypeOK, NEW p \in Processes,
         Enrollment!EnrollCommit(p)
  PROVE  Enrollment!TypeOK'
<1> USE DEF Enrollment!TokenRows, Enrollment!AgentRows, Enrollment!Become
<1> DEFINE d == HostOf[p]
<1>1. d \in Devices
  BY DEF Enrollment!EnrollmentAssumption
<1>2. errand[p] \in [op : {"admit"}, token : Tokens, existing : BOOLEAN]
  BY DEF Enrollment!EnrollCommit, Enrollment!TypeOK, Enrollment!Jobs, Enrollment!Idle
<1>3. agent[d] \in Enrollment!AgentRows
  BY <1>1 DEF Enrollment!TypeOK
<1>4. CASE errand' = [errand EXCEPT ![p] = Enrollment!Idle] /\ UNCHANGED <<token, agent, told>>
  BY <1>4 DEF Enrollment!TypeOK, Enrollment!Jobs, Enrollment!EnrollCommit
<1>5. CASE /\ Enrollment!Spend(errand[p].token)
           /\ agent' = [agent EXCEPT ![d] = [known |-> TRUE, revoked |-> FALSE, key |-> @.key + 1]]
           /\ told' = [told EXCEPT ![d] = TRUE]
           /\ errand' = [errand EXCEPT ![p] = [op |-> "save", key |-> agent[d].key + 1]]
  <2>1. token' \in [Tokens -> Enrollment!TokenRows]
    BY <1>2, <1>5 DEF Enrollment!Spend, Enrollment!TypeOK
  <2>2. agent' \in [Devices -> Enrollment!AgentRows]
    <3>1. [known |-> TRUE, revoked |-> FALSE, key |-> agent[d].key + 1] \in Enrollment!AgentRows
      BY <1>3
    <3>2. agent' = [agent EXCEPT ![d] = [known |-> TRUE, revoked |-> FALSE,
                                         key |-> agent[d].key + 1]]
      BY <1>5
    <3>3. QED
      BY <3>1, <3>2 DEF Enrollment!TypeOK
  <2>3. [op |-> "save", key |-> agent[d].key + 1] \in [op : {"save", "send"}, key : Nat]
    BY <1>3
  <2>4. errand' \in [Processes -> Enrollment!Jobs]
    BY <1>5, <2>3 DEF Enrollment!TypeOK, Enrollment!Jobs
  <2>5. QED
    BY <1>5, <2>1, <2>2, <2>4 DEF Enrollment!TypeOK, Enrollment!EnrollCommit
<1>6. QED
  BY <1>4, <1>5 DEF Enrollment!EnrollCommit

LEMMA EnrollmentTypes ==
  ASSUME Enrollment!TypeOK,
         [Enrollment!Next]_(Enrollment!vars)
  PROVE  Enrollment!TypeOK'
<1> USE DEF Enrollment!TokenRows, Enrollment!AgentRows, Enrollment!Become, Enrollment!TypeOK
<1>1. CASE UNCHANGED Enrollment!vars
  BY <1>1 DEF Enrollment!vars
<1>2. ASSUME NEW t \in Tokens, Enrollment!IssueToken(t) \/ Enrollment!EndToken(t)
      PROVE  Enrollment!TypeOK'
  <2>1. PICK s \in {"valid", "ended"} : token' = [token EXCEPT ![t].state = s]
    BY <1>2 DEF Enrollment!IssueToken, Enrollment!EndToken
  <2>2. [token[t] EXCEPT !.state = s] \in Enrollment!TokenRows
    OBVIOUS
  <2>3. token' \in [Tokens -> Enrollment!TokenRows]
    BY <2>1, <2>2
  <2>4. QED
    BY <1>2, <2>3 DEF Enrollment!IssueToken, Enrollment!EndToken
<1>3. ASSUME NEW d \in Devices,
             Enrollment!RevokeAgent(d) \/ Enrollment!Reinstall(d) \/ Enrollment!Change(d)
      PROVE  Enrollment!TypeOK'
  <2>1. [agent[d] EXCEPT !.revoked = TRUE] \in Enrollment!AgentRows
    <3>1. agent[d] \in Enrollment!AgentRows
      OBVIOUS
    <3>2. \A r \in Enrollment!AgentRows :
            [r EXCEPT !.revoked = TRUE] \in Enrollment!AgentRows
      BY ONLY DEF Enrollment!AgentRows
    <3>3. QED
      BY <3>1, <3>2
  <2>2. CASE Enrollment!RevokeAgent(d)
    <3>1. agent' = [agent EXCEPT ![d] = [agent[d] EXCEPT !.revoked = TRUE]]
      BY <2>2 DEF Enrollment!RevokeAgent
    <3>2. agent' \in [Devices -> Enrollment!AgentRows]
      BY <2>1, <3>1
    <3>3. QED
      BY <2>2, <3>2 DEF Enrollment!RevokeAgent
  <2>3. CASE Enrollment!Reinstall(d)
    BY <2>3 DEF Enrollment!Reinstall
  <2>4. CASE Enrollment!Change(d)
    BY <2>4 DEF Enrollment!Change
  <2>5. QED
    BY <1>3, <2>2, <2>3, <2>4
<1>4. ASSUME NEW p \in Processes PROVE HostOf[p] \in Devices /\ errand[p] \in Enrollment!Jobs
  BY <1>4 DEF Enrollment!EnrollmentAssumption
<1>5. ASSUME NEW p \in Processes, Enrollment!Tick(p) PROVE Enrollment!TypeOK'
  <2>1. PICK j \in Enrollment!Jobs : errand' = [errand EXCEPT ![p] = j]
    <3>1. stored[HostOf[p]] \in Nat
      BY <1>4
    <3>2. \A k \in Nat : [op |-> "send", key |-> k] \in [op : {"save", "send"}, key : Nat]
      OBVIOUS
    <3>3. \A t \in Tokens : [op |-> "enroll", token |-> t] \in [op : {"enroll"}, token : Tokens]
      OBVIOUS
    <3>4. QED
      BY <1>5, <3>1, <3>2, <3>3 DEF Enrollment!Tick, Enrollment!Jobs
  <2>2. QED
    BY <1>5, <2>1 DEF Enrollment!Tick
<1>6. ASSUME NEW p \in Processes, Enrollment!EnrollRead(p) PROVE Enrollment!TypeOK'
  <2>1. errand[p] \in [op : {"enroll"}, token : Tokens]
    BY <1>4, <1>6 DEF Enrollment!EnrollRead, Enrollment!Jobs, Enrollment!Idle
  <2>2. agent[HostOf[p]].known \in BOOLEAN
    BY <1>4
  <2>3. [op |-> "admit", token |-> errand[p].token, existing |-> agent[HostOf[p]].known]
        \in [op : {"admit"}, token : Tokens, existing : BOOLEAN]
    BY <2>1, <2>2
  <2>4. QED
    BY <1>6, <2>3 DEF Enrollment!EnrollRead, Enrollment!Jobs
<1>7. ASSUME NEW p \in Processes, Enrollment!SaveState(p) PROVE Enrollment!TypeOK'
  <2>1. errand[p] \in [op : {"save", "send"}, key : Nat]
    BY <1>4, <1>7 DEF Enrollment!SaveState, Enrollment!Jobs, Enrollment!Idle
  <2>2. QED
    BY <1>4, <1>7, <2>1 DEF Enrollment!SaveState, Enrollment!Jobs
<1>8. ASSUME NEW p \in Processes, Enrollment!IngestRead(p) PROVE Enrollment!TypeOK'
  <2>1. [op |-> "ingest"] \in Enrollment!Jobs /\ Enrollment!Idle \in Enrollment!Jobs
    BY DEF Enrollment!Jobs
  <2>2. QED
    BY <1>8, <2>1 DEF Enrollment!IngestRead
<1>9. ASSUME NEW p \in Processes, Enrollment!IngestCommit(p) \/ Enrollment!Lose(p)
      PROVE  Enrollment!TypeOK'
  BY <1>4, <1>9 DEF Enrollment!IngestCommit, Enrollment!Lose, Enrollment!Jobs
<1>10. QED
  BY <1>1, <1>2, <1>3, <1>5, <1>6, <1>7, <1>8, <1>9, EnrolTypes DEF Enrollment!Next

\* However many processes race for a token, and whichever replies are lost, it
\* admits at most maxEnrollments devices and nobody once it has ended: the
\* conditional update of enroll (discovery.service.ts) implements TokenBudget.
THEOREM EnrolmentKeepsBudget == Enrollment!Spec => BudgetKept
<1>1. Enrollment!Init => Enrollment!TypeOK /\ CountKept /\ Enrollment!Budget!Init
  <2> SUFFICES ASSUME Enrollment!Init
               PROVE  Enrollment!TypeOK /\ CountKept /\ Enrollment!Budget!Init
    OBVIOUS
  <2>1. Enrollment!TypeOK
    BY DEF Enrollment!Init, Enrollment!TypeOK, Enrollment!TokenRows, Enrollment!AgentRows,
           Enrollment!NoAgent, Enrollment!Jobs
  <2>2. CountKept
    BY DEF Enrollment!Init, Enrollment!TokenRows, CountKept
  <2>3. \A t \in Tokens : Maximum[t] - token[t].count = Maximum[t]
    BY DEF Enrollment!Init, Enrollment!EnrollmentAssumption
  <2>4. \A t \in Tokens : ~(token[t].state = "valid")
    BY DEF Enrollment!Init
  <2>5. Enrollment!Budget!Init
    BY <2>3, <2>4 DEF Enrollment!Budget!Init
  <2>6. QED
    BY <2>1, <2>2, <2>5
<1>2. /\ Enrollment!TypeOK /\ CountKept
      /\ [Enrollment!Next]_(Enrollment!vars)
      => /\ Enrollment!TypeOK' /\ CountKept'
         /\ [Enrollment!Budget!Next]_(Enrollment!Budget!vars)
  BY EnrollmentTypes, TokensTurn, TokenStep
<1>3. QED
  BY <1>1, <1>2, PTL DEF Enrollment!Spec, BudgetKept, Enrollment!BudgetKept, Enrollment!Budget!Spec
=============================================================================
