-------------------------- MODULE AgentEnrollment --------------------------
(***************************************************************************)
(* The Go endpoint agent and the API it reports to: enrolment against a    *)
(* token, the credential kept in the state file, a report on every tick,   *)
(* and what administrators revoke.  Several agent processes may run on one *)
(* device (the service, and `once' started by hand).  Requests are served  *)
(* by READ COMMITTED transactions, cut here where they hold no lock on     *)
(* what they have read.  Replies get lost and processes die; a transaction *)
(* that has begun runs to its end.                                         *)
(*                                                                         *)
(* A device is its hardware fingerprint; a credential is the number of the *)
(* enrolment that issued it.  What a report does to the discovery inbox is *)
(* in DiscoveryInbox.                                                      *)
(***************************************************************************)
EXTENDS Integers

CONSTANTS
  Devices,      \* machines, by fingerprint
  Processes,    \* agent processes
  HostOf,       \* the device each process runs on
  Tokens,       \* enrolment tokens
  Maximum       \* maxEnrollments of each token

EnrollmentAssumption ==
  /\ HostOf \in [Processes -> Devices]
  /\ Maximum \in [Tokens -> Nat \ {0}]

VARIABLES
  token,     \* agent_enrollment_tokens
  agent,     \* endpoint_agents, by fingerprint
  stored,    \* the credential in the state file of each device, 0 when none
  told,      \* the last inventory of the device has reached the API
  job        \* what each process has under way

vars == <<token, agent, stored, told, job>>
-----------------------------------------------------------------------------
TokenRows == [state : {"none", "valid", "ended"}, count : Nat]
AgentRows == [known : BOOLEAN, revoked : BOOLEAN, key : Nat]
NoAgent   == [known |-> FALSE, revoked |-> FALSE, key |-> 0]

Idle == [op |-> "idle"]
Jobs == {Idle}
  \cup [op : {"enroll"}, token : Tokens]
  \cup [op : {"admit"}, token : Tokens, existing : BOOLEAN]
  \cup [op : {"save", "send"}, key : Nat]
  \cup [op : {"ingest"}]

Become(p, j) == job' = [job EXCEPT ![p] = j]

Active(d)   == agent[d].known /\ ~agent[d].revoked
HoldsKey(d) == stored[d] # 0 /\ stored[d] = agent[d].key /\ Active(d)
-----------------------------------------------------------------------------
Init ==
  /\ token = [t \in Tokens |-> [state |-> "none", count |-> 0]]
  /\ agent = [d \in Devices |-> NoAgent]
  /\ stored = [d \in Devices |-> 0]
  /\ told = [d \in Devices |-> FALSE]
  /\ job = [p \in Processes |-> Idle]
-----------------------------------------------------------------------------
(***************************************************************************)
(* Tokens and revocation, by an administrator; expiry, by the clock.       *)
(***************************************************************************)
IssueToken(t) ==
  /\ token[t].state = "none"
  /\ token' = [token EXCEPT ![t].state = "valid"]
  /\ UNCHANGED <<agent, stored, told, job>>

EndToken(t) ==
  /\ token[t].state = "valid"
  /\ token' = [token EXCEPT ![t].state = "ended"]
  /\ UNCHANGED <<agent, stored, told, job>>

RevokeAgent(d) ==
  /\ Active(d)
  /\ agent' = [agent EXCEPT ![d].revoked = TRUE]
  /\ UNCHANGED <<token, stored, told, job>>
-----------------------------------------------------------------------------
(***************************************************************************)
(* The agent. collectAndSend enrols while there is no state file and sends *)
(* with the stored credential from then on, on every tick. Mutant: a first *)
(* run only enrols, and later ones find nothing to do.                     *)
(***************************************************************************)
TickUnenrolledOnly(p) ==
  /\ job[p] = Idle
  /\ stored[HostOf[p]] = 0 /\ \E t \in Tokens : Become(p, [op |-> "enroll", token |-> t])
  /\ UNCHANGED <<token, agent, stored, told>>
Tick(p) ==
  /\ job[p] = Idle
  /\ \/ stored[HostOf[p]] = 0 /\ \E t \in Tokens : Become(p, [op |-> "enroll", token |-> t])
     \/ stored[HostOf[p]] # 0 /\ Become(p, [op |-> "send", key |-> stored[HostOf[p]]])
  /\ UNCHANGED <<token, agent, stored, told>>

\* state.Save: written to a temporary file and renamed, so all or nothing.
SaveState(p) ==
  /\ job[p].op = "save"
  /\ stored' = [stored EXCEPT ![HostOf[p]] = job[p].key]
  /\ Become(p, Idle)
  /\ UNCHANGED <<token, agent, told>>

\* A request or a reply is lost, times out, comes too soon after the last one
\* (429), or the process dies before it saves; the next tick starts over from
\* what is on the disk.
Lose(p) ==
  /\ job[p].op \in {"enroll", "send", "save"}
  /\ Become(p, Idle)
  /\ UNCHANGED <<token, agent, stored, told>>

\* An administrator reinstalls the agent: the state file is gone.
Reinstall(d) ==
  /\ stored[d] # 0
  /\ stored' = [stored EXCEPT ![d] = 0]
  /\ UNCHANGED <<token, agent, told, job>>

\* The machine changes, and what was last reported no longer describes it.
Change(d) ==
  /\ told[d]
  /\ told' = [told EXCEPT ![d] = FALSE]
  /\ UNCHANGED <<token, agent, stored, job>>
-----------------------------------------------------------------------------
(***************************************************************************)
(* enroll, between its reads and its conditional update: the update locks  *)
(* the token's row, checks it again and the rest follows under the lock.   *)
(* Mutant: the token is only checked when it is read.                      *)
(***************************************************************************)
EnrollRead(p) ==
  LET d == HostOf[p]  t == job[p].token IN
  /\ job[p].op = "enroll"
  /\ IF token[t].state = "valid" /\ ~Active(d)
     THEN Become(p, [op |-> "admit", token |-> t, existing |-> agent[d].known])
     ELSE Become(p, Idle)
  /\ UNCHANGED <<token, agent, stored, told>>

AdmittableWhileRead(t) == token[t].state = "valid"
Admittable(t) == token[t].state = "valid" /\ token[t].count < Maximum[t]

Spend(t) == token' = [token EXCEPT ![t].count = @ + 1]

\* A row created meanwhile makes the insert fail on the unique fingerprint.
EnrollCommit(p) ==
  LET d == HostOf[p]  t == job[p].token IN
  /\ job[p].op = "admit"
  /\ \/ /\ Admittable(t)
        /\ job[p].existing \/ ~agent[d].known
        /\ Spend(t)
        /\ agent' = [agent EXCEPT ![d] = [known |-> TRUE, revoked |-> FALSE, key |-> @.key + 1]]
        /\ told' = [told EXCEPT ![d] = TRUE]
        /\ Become(p, [op |-> "save", key |-> agent[d].key + 1])
     \/ /\ ~Admittable(t) \/ (agent[d].known /\ ~job[p].existing)
        /\ Become(p, Idle)
        /\ UNCHANGED <<token, agent, told>>
  /\ UNCHANGED stored

(***************************************************************************)
(* ingest checks the credential before its transaction begins.             *)
(***************************************************************************)
IngestRead(p) ==
  LET d == HostOf[p] IN
  /\ job[p].op = "send"
  /\ Become(p, IF agent[d].key = job[p].key /\ Active(d)
               THEN [op |-> "ingest"] ELSE Idle)
  /\ UNCHANGED <<token, agent, stored, told>>

IngestCommit(p) ==
  /\ job[p].op = "ingest"
  /\ told' = [told EXCEPT ![HostOf[p]] = TRUE]
  /\ Become(p, Idle)
  /\ UNCHANGED <<token, agent, stored>>
-----------------------------------------------------------------------------
Next ==
  \/ \E t \in Tokens : IssueToken(t) \/ EndToken(t)
  \/ \E d \in Devices : RevokeAgent(d) \/ Reinstall(d) \/ Change(d)
  \/ \E p \in Processes : \/ Tick(p) \/ EnrollRead(p) \/ EnrollCommit(p) \/ SaveState(p)
                         \/ IngestRead(p) \/ IngestCommit(p) \/ Lose(p)

Spec == Init /\ [][Next]_vars

(***************************************************************************)
(* Fairness: the agent's ticker, and transactions that finish.  A report   *)
(* that is sent over and over reaches the API in the end.                  *)
(***************************************************************************)
Fairness == \A p \in Processes :
              /\ WF_vars(Tick(p)) /\ WF_vars(EnrollCommit(p)) /\ WF_vars(IngestCommit(p))
              /\ SF_vars(IngestRead(p))
FairSpec == Spec /\ Fairness
-----------------------------------------------------------------------------
TypeOK ==
  /\ token \in [Tokens -> TokenRows]
  /\ agent \in [Devices -> AgentRows]
  /\ stored \in [Devices -> Nat]
  /\ told \in [Devices -> BOOLEAN]
  /\ job \in [Processes -> Jobs]

(***************************************************************************)
(* Whatever requests race for it, a token admits at most its maximum, one  *)
(* at a time, and nobody once it has been revoked or has expired: the      *)
(* conditional update of enroll implements the abstract budget.            *)
(***************************************************************************)
Budget == INSTANCE TokenBudget WITH
            open <- [t \in Tokens |-> token[t].state = "valid"],
            left <- [t \in Tokens |-> Maximum[t] - token[t].count]
BudgetKept == Budget!Spec

(***************************************************************************)
(* A machine whose credential is the current one gets its inventory across *)
(* after every change, unless the credential is taken from it.             *)
(***************************************************************************)
ReportsArrive == \A d \in Devices : HoldsKey(d) /\ ~told[d] ~> told[d] \/ ~HoldsKey(d)
=============================================================================
