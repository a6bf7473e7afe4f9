--------------------------- MODULE LicencesProofs ---------------------------
(***************************************************************************)
(* Proofs about Licences.  Renewals: its types, that no more seats are     *)
(* handed out than were bought, and that the renewal history is a chain.   *)
(* NotificationOutbox: its types, that what is SENT was mailed, and that   *)
(* repeated mails and attempts are the price of faults.                    *)
(***************************************************************************)
EXTENDS Licences, FiniteSetTheorems, TLAPS

Workers == Clerks \cup Timers

\* A SERIALIZABLE transaction that can still commit.
Open(j) == j.op \in {"assign", "renew"} /\ ~j.doomed

\* Renewals counts with the Cardinality that everything else counts with.
LEMMA SameCount == \A S : Contract!Cardinality(S) = Cardinality(S)
BY DEF Contract!Cardinality, Cardinality

LEMMA JobFields ==
  ASSUME NEW j \in Contract!Jobs
  PROVE  /\ j.op = "assign" => j.grant \in Grants /\ j.used \in Nat /\ j.doomed \in BOOLEAN
         /\ j.op = "revoke" => j.grant \in Grants
         /\ j.op = "renew" => /\ j.from \in Contract!Days /\ j.to \in Contract!Days /\ j.active \subseteq Contract!AlertRows
                              /\ j.doomed \in BOOLEAN
         /\ j.op = "raise" => j.expiry \in Contract!Days /\ j.due \subseteq WarningDays
         /\ j.op = "status" => j.status \in {"ACTIVE", "EXPIRING", "EXPIRED"}
BY DEF Contract!Jobs, Contract!Idle

LEMMA DoomedJob ==
  ASSUME NEW j \in Contract!Jobs, j.op \in {"assign", "renew"}, NEW i,
         i = [j EXCEPT !.doomed = TRUE]
  PROVE  i \in Contract!Jobs /\ ~Open(i)
<1>1. CASE j.op = "assign"
  <2>1. j \in [op : {"assign"}, grant : Grants, used : Nat, doomed : BOOLEAN]
    BY <1>1 DEF Contract!Jobs, Contract!Idle
  <2>2. QED
    BY <2>1 DEF Contract!Jobs, Open
<1>2. CASE j.op = "renew"
  <2>1. j \in [op : {"renew"}, from : Contract!Days, to : Contract!Days, active : SUBSET Contract!AlertRows, doomed : BOOLEAN]
    BY <1>2 DEF Contract!Jobs, Contract!Idle
  <2>2. QED
    BY <2>1 DEF Contract!Jobs, Open
<1>3. QED
  BY <1>1, <1>2

\* Of the others, those a write turns down are as they were but for that.
LEMMA DoomingTurns ==
  ASSUME clerk \in [Workers -> Contract!Jobs], NEW k, NEW ops \in SUBSET {"assign", "renew"}
  PROVE  /\ Contract!Dooming(k, ops) \in [Workers -> Contract!Jobs]
         /\ \A i \in Workers \ {k} : Open(Contract!Dooming(k, ops)[i]) =>
              Contract!Dooming(k, ops)[i] = clerk[i] /\ clerk[i].op \notin ops
<1> DEFINE d == Contract!Dooming(k, ops)
           hit(i) == i # k /\ clerk[i].op \in ops
<1>1. d = [i \in Workers |-> IF hit(i) THEN [clerk[i] EXCEPT !.doomed = TRUE] ELSE clerk[i]]
  BY DEF Contract!Dooming
<1> HIDE DEF d
<1>2. ASSUME NEW i \in Workers
      PROVE  d[i] \in Contract!Jobs /\ (hit(i) => ~Open(d[i])) /\ (~hit(i) => d[i] = clerk[i])
  <2>1. clerk[i] \in Contract!Jobs
    OBVIOUS
  <2>2. CASE hit(i)
    <3>1. d[i] = [clerk[i] EXCEPT !.doomed = TRUE] /\ clerk[i].op \in {"assign", "renew"}
      BY <1>1, <2>2
    <3>2. d[i] \in Contract!Jobs /\ ~Open(d[i])
      BY <2>1, <3>1, DoomedJob
    <3>3. QED
      BY <2>2, <3>2
  <2>3. CASE ~hit(i)
    BY <1>1, <2>1, <2>3
  <2>4. QED
    BY <2>2, <2>3
<1>3. d \in [Workers -> Contract!Jobs]
  BY <1>1, <1>2
<1>4. QED
  BY <1>2, <1>3 DEF d

LEMMA Becoming ==
  ASSUME clerk \in [Workers -> Contract!Jobs], NEW k \in Workers, NEW j \in Contract!Jobs,
         NEW ops \in SUBSET {"assign", "renew"}, Contract!Become(k, j, ops)
  PROVE  /\ clerk' \in [Workers -> Contract!Jobs] /\ clerk'[k] = j
         /\ \A i \in Workers \ {k} : Open(clerk'[i]) => clerk'[i] = clerk[i] /\ clerk[i].op \notin ops
<1> DEFINE d == Contract!Dooming(k, ops)
<1>1. /\ d \in [Workers -> Contract!Jobs]
      /\ \A i \in Workers \ {k} : Open(d[i]) => d[i] = clerk[i] /\ clerk[i].op \notin ops
  BY DoomingTurns
<1>2. clerk' = [d EXCEPT ![k] = j]
  BY DEF Contract!Become
<1> HIDE DEF d
<1>3. QED
  BY <1>1, <1>2
-----------------------------------------------------------------------------
(***************************************************************************)
(* Types.                                                                  *)
(***************************************************************************)
LEMMA StatusTyped ==
  ASSUME NEW e
  PROVE  Contract!StatusOf(e) \in {"ACTIVE", "EXPIRING", "EXPIRED"}
BY DEF Contract!StatusOf

LEMMA AlertsTyped ==
  ASSUME warning \in [Contract!AlertRows -> Contract!Active \cup {"NONE", "RESOLVED"}],
         NEW a \in Contract!AlertRows,
         NEW s \in Contract!Active \cup {"NONE", "RESOLVED"}, warning' = [warning EXCEPT ![a] = s]
  PROVE  warning' \in [Contract!AlertRows -> Contract!Active \cup {"NONE", "RESOLVED"}]
OBVIOUS

\* The rows of a record and of its renewals and alerts.
RowTypes == /\ today \in Contract!Days
            /\ item \in Contract!ItemRows
            /\ grant \in [Grants -> {"FREE", "ACTIVE", "REVOKED"}]
            /\ renewals \subseteq Contract!Days \X Contract!Days
            /\ policy \in BOOLEAN
            /\ warning \in [Contract!AlertRows -> Contract!Active \cup {"NONE", "RESOLVED"}]

LEMMA TypeParts ==
  (Contract!TypeOK <=> RowTypes /\ clerk \in [Workers -> Contract!Jobs])
  /\ (Contract!TypeOK' <=> RowTypes' /\ clerk' \in [Workers -> Contract!Jobs])
BY DEF Contract!TypeOK, RowTypes, Workers, Contract!ItemRows, Contract!Days, Contract!AlertRows,
       Contract!Active, Contract!Jobs, Contract!Idle

\* Each action leaves rows of their types, and takes a request to a job.
LEMMA TypeStep ==
  ASSUME Contract!RenewalsAssumption, Contract!TypeOK, IsFiniteSet(Contract!Held),
         [Contract!Next]_(Contract!vars)
  PROVE  Contract!TypeOK'
<1>0. RowTypes /\ clerk \in [Workers -> Contract!Jobs]
  BY TypeParts
<1>1. Contract!Idle \in Contract!Jobs /\ [op |-> "sync"] \in Contract!Jobs /\ [op |-> "settle"] \in Contract!Jobs
  BY DEF Contract!Jobs
<1>2. ASSUME NEW k \in Workers, NEW j \in Contract!Jobs, NEW ops \in SUBSET {"assign", "renew"},
             Contract!Become(k, j, ops), RowTypes'
      PROVE  Contract!TypeOK'
  BY <1>0, <1>2, Becoming, TypeParts
<1>3. CASE Contract!NextDay
  <2>1. RowTypes'
    BY <1>0, <1>3 DEF Contract!NextDay, Contract!rows, RowTypes, Contract!Days, Contract!ItemRows,
           Contract!AlertRows, Contract!RenewalsAssumption
  <2>2. QED
    BY <1>0, <1>3, <2>1, TypeParts DEF Contract!NextDay
<1>4. ASSUME NEW k \in Workers, Contract!Create(k) PROVE Contract!TypeOK'
  <2>1. /\ Contract!Become(k, [op |-> "sync"], {}) /\ UNCHANGED <<today, grant, renewals, policy, warning>>
        /\ item' \in Contract!ItemRows
    BY <1>4, StatusTyped DEF Contract!Create, Contract!ItemRows
  <2>2. QED
    BY <1>0, <1>1, <1>2, <2>1 DEF RowTypes
<1>5. ASSUME NEW k \in Workers, Contract!UpdateContract(k) PROVE Contract!TypeOK'
  <2>1. PICK e \in Contract!Days, s \in {"ACTIVE", "EXPIRING", "EXPIRED"} :
          item' = [item EXCEPT !.expiry = e, !.status = s]
    BY <1>5, StatusTyped DEF Contract!UpdateContract
  <2>2. item' \in Contract!ItemRows
    BY <1>0, <2>1 DEF Contract!ItemRows, RowTypes
  <2>3. /\ Contract!Become(k, [op |-> "sync"], {"renew"})
        /\ UNCHANGED <<today, grant, renewals, policy, warning>>
    BY <1>5 DEF Contract!UpdateContract
  <2>4. QED
    BY <1>0, <1>1, <1>2, <2>2, <2>3 DEF RowTypes
<1>6. ASSUME NEW k \in Workers, Contract!SavePolicy(k) PROVE Contract!TypeOK'
  <2>1. Contract!Become(k, [op |-> "sync"], {}) /\ RowTypes'
    BY <1>0, <1>6 DEF Contract!SavePolicy, RowTypes
  <2>2. QED
    BY <1>1, <1>2, <2>1
<1>7. ASSUME NEW k \in Workers, Contract!Remove(k) PROVE Contract!TypeOK'
  <2>1. Contract!Become(k, Contract!Idle, {"renew", "assign"}) /\ RowTypes'
    BY <1>0, <1>7 DEF Contract!Remove, RowTypes, Contract!ItemRows
  <2>2. QED
    BY <1>1, <1>2, <2>1
<1>8. ASSUME NEW k \in Workers, NEW g \in Grants, Contract!AssignRead(k, g) PROVE Contract!TypeOK'
  <2> DEFINE j == [op |-> "assign", grant |-> g, used |-> Cardinality(Contract!Held), doomed |-> FALSE]
  <2>1. j \in Contract!Jobs
    BY <1>8, FS_CardinalityType DEF Contract!Jobs
  <2>2. Contract!Become(k, j, {}) /\ RowTypes'
    BY <1>0, <1>8, SameCount DEF Contract!AssignRead, Contract!rows, RowTypes
  <2>3. QED
    BY <1>2, <2>1, <2>2
<1>9. ASSUME NEW k \in Workers, Contract!AssignCommit(k) PROVE Contract!TypeOK'
  <2>1. clerk[k].grant \in Grants
    BY <1>0, <1>9, JobFields DEF Contract!AssignCommit
  <2>2. grant' \in [Grants -> {"FREE", "ACTIVE", "REVOKED"}]
    BY <1>0, <1>9, <2>1 DEF Contract!AssignCommit, RowTypes
  <2>3. RowTypes'
    BY <1>0, <1>9, <2>2 DEF Contract!AssignCommit, RowTypes
  <2>4. Contract!Become(k, Contract!Idle, {"assign"}) \/ Contract!Become(k, Contract!Idle, {})
    BY <1>9 DEF Contract!AssignCommit
  <2>5. QED
    BY <1>1, <1>2, <2>3, <2>4
<1>10. ASSUME NEW k \in Workers, NEW g \in Grants, Contract!RevokeRead(k, g) PROVE Contract!TypeOK'
  <2>1. [op |-> "revoke", grant |-> g] \in Contract!Jobs
    BY DEF Contract!Jobs
  <2>2. Contract!Become(k, [op |-> "revoke", grant |-> g], {}) /\ RowTypes'
    BY <1>0, <1>10 DEF Contract!RevokeRead, Contract!rows, RowTypes
  <2>3. QED
    BY <1>2, <2>1, <2>2
<1>11. ASSUME NEW k \in Workers, Contract!RevokeCommit(k) PROVE Contract!TypeOK'
  <2>1. grant' \in [Grants -> {"FREE", "ACTIVE", "REVOKED"}]
    BY <1>0, <1>11 DEF Contract!RevokeCommit, RowTypes
  <2>2. Contract!Become(k, Contract!Idle, {}) /\ RowTypes'
    BY <1>0, <1>11, <2>1 DEF Contract!RevokeCommit, RowTypes
  <2>3. QED
    BY <1>1, <1>2, <2>2
<1>12. ASSUME NEW k \in Workers, NEW to \in Contract!Days,
              Contract!RenewRead(k, to) PROVE Contract!TypeOK'
  <2> DEFINE j == [op |-> "renew", from |-> item.expiry, to |-> to, doomed |-> FALSE,
                   active |-> {a \in Contract!AlertRows : warning[a] \in Contract!Active}]
  <2>1. item.expiry \in Contract!Days
    BY <1>0 DEF RowTypes, Contract!ItemRows
  <2>2. j \in Contract!Jobs
    BY <2>1 DEF Contract!Jobs
  <2>3. Contract!Become(k, j, {}) /\ RowTypes'
    BY <1>0, <1>12 DEF Contract!RenewRead, Contract!rows, RowTypes
  <2>4. QED
    BY <1>2, <2>2, <2>3
<1>13. ASSUME NEW k \in Workers, Contract!RenewCommit(k) PROVE Contract!TypeOK'
  <2>1. clerk[k].from \in Contract!Days /\ clerk[k].to \in Contract!Days
    BY <1>0, <1>13, JobFields DEF Contract!RenewCommit
  <2>2. PICK to \in Contract!Days, s \in {"ACTIVE", "EXPIRING", "EXPIRED"} :
          to = clerk[k].to /\ s = Contract!StatusOf(clerk[k].to)
    BY <2>1, StatusTyped
  <2>3. CASE /\ renewals' = renewals \cup {<<clerk[k].from, to>>}
             /\ item' = [item EXCEPT !.expiry = to, !.status = s]
             /\ warning' = [a \in Contract!AlertRows |-> IF a \in clerk[k].active THEN "RESOLVED" ELSE warning[a]]
             /\ Contract!Become(k, Contract!Idle, {"renew"})
    <3>1. item' \in Contract!ItemRows
      BY <1>0, <2>3 DEF RowTypes, Contract!ItemRows
    <3>2. renewals' \subseteq Contract!Days \X Contract!Days
      BY <1>0, <2>1, <2>3 DEF RowTypes
    <3>3. warning' \in [Contract!AlertRows -> Contract!Active \cup {"NONE", "RESOLVED"}]
      BY <1>0, <2>3 DEF RowTypes
    <3>4. RowTypes'
      BY <1>0, <1>13, <3>1, <3>2, <3>3 DEF Contract!RenewCommit, RowTypes
    <3>5. QED
      BY <1>1, <1>2, <2>3, <3>4
  <2>4. CASE Contract!Become(k, Contract!Idle, {}) /\ UNCHANGED <<renewals, item, warning>>
    <3>1. RowTypes'
      BY <1>0, <1>13, <2>4 DEF Contract!RenewCommit, RowTypes
    <3>2. QED
      BY <1>1, <1>2, <2>4, <3>1
  <2>5. QED
    BY <1>13, <2>2, <2>3, <2>4 DEF Contract!RenewCommit
<1>14. ASSUME NEW a \in Contract!AlertRows, Contract!Acknowledge(a) PROVE Contract!TypeOK'
  <2>1. warning' \in [Contract!AlertRows -> Contract!Active \cup {"NONE", "RESOLVED"}]
    BY <1>0, <1>14 DEF Contract!Acknowledge, RowTypes, Contract!Active
  <2>2. RowTypes'
    BY <1>0, <1>14, <2>1 DEF Contract!Acknowledge, RowTypes
  <2>3. clerk' \in [Workers -> Contract!Jobs]
    BY <1>0, <1>14, DoomingTurns DEF Contract!Acknowledge
  <2>4. QED
    BY <2>2, <2>3, TypeParts
<1>15. ASSUME NEW k \in Workers, Contract!SyncBegin(k) PROVE Contract!TypeOK'
  <2>1. Contract!Become(k, [op |-> "sync"], {}) /\ RowTypes'
    BY <1>0, <1>15 DEF Contract!SyncBegin, Contract!rows, RowTypes
  <2>2. QED
    BY <1>1, <1>2, <2>1
<1>16. ASSUME NEW k \in Workers, Contract!SyncPolicies(k) PROVE Contract!TypeOK'
  <2>1. [op |-> "raise", expiry |-> item.expiry, due |-> Contract!Due(item.expiry)] \in Contract!Jobs
    BY <1>0 DEF Contract!Jobs, Contract!Due, RowTypes, Contract!ItemRows
  <2>2. RowTypes'
    BY <1>0, <1>16 DEF Contract!SyncPolicies, Contract!rows, RowTypes
  <2>3. QED
    BY <1>1, <1>2, <1>16, <2>1, <2>2 DEF Contract!SyncPolicies
<1>17. ASSUME NEW k \in Workers, Contract!SyncRaise(k) PROVE Contract!TypeOK'
  <2>1. clerk[k].op = "raise" /\ clerk[k].expiry \in Contract!Days /\ clerk[k].due \subseteq WarningDays
    BY <1>0, <1>17, JobFields DEF Contract!SyncRaise
  <2>2. CASE UNCHANGED warning /\ (Contract!Become(k, Contract!Idle, {}) \/ Contract!Become(k, [op |-> "settle"], {}))
    <3>1. RowTypes'
      BY <1>0, <1>17, <2>2 DEF Contract!SyncRaise, RowTypes
    <3>2. QED
      BY <1>1, <1>2, <2>2, <3>1
  <2>3. ASSUME NEW t \in clerk[k].due, NEW ops \in SUBSET {"assign", "renew"},
               warning' = [warning EXCEPT ![<<clerk[k].expiry, t>>] =
                           IF warning[<<clerk[k].expiry, t>>] = "NONE" THEN "OPEN"
                           ELSE warning[<<clerk[k].expiry, t>>]],
               Contract!Become(k, [clerk[k] EXCEPT !.due = clerk[k].due \ {t}], ops)
        PROVE  Contract!TypeOK'
    <3>1. <<clerk[k].expiry, t>> \in Contract!AlertRows
      BY <2>1 DEF Contract!AlertRows
    <3>2. warning' \in [Contract!AlertRows -> Contract!Active \cup {"NONE", "RESOLVED"}]
      BY <1>0, <2>3, <3>1 DEF RowTypes, Contract!Active
    <3>3. RowTypes'
      BY <1>0, <1>17, <3>2 DEF Contract!SyncRaise, RowTypes
    <3>4. clerk[k] \in [op : {"raise"}, expiry : Contract!Days, due : SUBSET WarningDays]
      BY <1>0, <2>1 DEF Contract!Jobs, Contract!Idle
    <3>5. [clerk[k] EXCEPT !.due = clerk[k].due \ {t}] \in Contract!Jobs
      BY <3>4 DEF Contract!Jobs
    <3>6. QED
      BY <1>2, <2>3, <3>3, <3>5
  <2>4. CASE clerk[k].due = {} \/ item.state # "live"
    BY <1>17, <2>2, <2>4 DEF Contract!SyncRaise
  <2>5. CASE ~(clerk[k].due = {} \/ item.state # "live")
    <3>1. PICK t \in clerk[k].due :
            /\ warning' = [warning EXCEPT ![<<clerk[k].expiry, t>>] =
                           IF warning[<<clerk[k].expiry, t>>] = "NONE" THEN "OPEN"
                           ELSE warning[<<clerk[k].expiry, t>>]]
            /\ Contract!Become(k, [clerk[k] EXCEPT !.due = clerk[k].due \ {t}],
                      IF warning[<<clerk[k].expiry, t>>] \in Contract!Active THEN {"renew"} ELSE {})
      BY <1>17, <2>5 DEF Contract!SyncRaise
    <3>2. QED
      BY <2>3, <3>1
  <2>6. QED
    BY <2>4, <2>5
<1>18. ASSUME NEW k \in Workers, Contract!SyncSettle(k) PROVE Contract!TypeOK'
  <2>1. [op |-> "status", status |-> Contract!StatusOf(item.expiry)] \in Contract!Jobs
    BY StatusTyped DEF Contract!Jobs
  <2>2. RowTypes'
    BY <1>0, <1>18 DEF Contract!SyncSettle, Contract!rows, RowTypes
  <2>3. QED
    BY <1>1, <1>2, <1>18, <2>1, <2>2 DEF Contract!SyncSettle
<1>19. ASSUME NEW k \in Workers, Contract!SyncStatus(k) PROVE Contract!TypeOK'
  <2>1. clerk[k].status \in {"ACTIVE", "EXPIRING", "EXPIRED"}
    BY <1>0, <1>19, JobFields DEF Contract!SyncStatus
  <2>2. item' \in Contract!ItemRows
    BY <1>0, <1>19, <2>1 DEF Contract!SyncStatus, RowTypes, Contract!ItemRows
  <2>3. Contract!Become(k, Contract!Idle, {"renew"}) /\ RowTypes'
    BY <1>0, <1>19, <2>2 DEF Contract!SyncStatus, RowTypes
  <2>4. QED
    BY <1>1, <1>2, <2>3
<1>20. CASE UNCHANGED Contract!vars
  BY <1>0, <1>20, TypeParts DEF Contract!vars, Contract!rows, RowTypes
<1>21. QED
  BY <1>3, <1>4, <1>5, <1>6, <1>7, <1>8, <1>9, <1>10, <1>11, <1>12, <1>13, <1>14, <1>15, <1>16,
     <1>17, <1>18, <1>19, <1>20
  DEF Contract!Next, Contract!Sync, Workers
-----------------------------------------------------------------------------
(***************************************************************************)
(* Seats.  Who read how many are held, and was not turned down since, read *)
(* no fewer than are held now.                                             *)
(***************************************************************************)
SeatsOf(g) == {s \in Grants \X (1 .. Seats) : s[1] = g /\ s[2] <= Quantity[g]}

LEMMA SeatsCounted ==
  ASSUME Contract!RenewalsAssumption, NEW g \in Grants
  PROVE  IsFiniteSet(SeatsOf(g)) /\ Cardinality(SeatsOf(g)) <= Quantity[g]
<1>1. Quantity[g] \in Nat /\ Seats \in Nat
  BY DEF Contract!RenewalsAssumption
<1>2. /\ IsFiniteSet(1 .. Quantity[g])
      /\ Cardinality(1 .. Quantity[g]) = Quantity[g]
  BY <1>1, FS_Interval
<1> DEFINE f == [s \in SeatsOf(g) |-> s[2]]
<1>3. f \in [SeatsOf(g) -> 1 .. Quantity[g]]
  BY <1>1 DEF SeatsOf
<1>4. ASSUME NEW s \in SeatsOf(g), NEW t \in SeatsOf(g), f[s] = f[t] PROVE s = t
  BY <1>4 DEF SeatsOf
<1>5. f \in Injection(SeatsOf(g), 1 .. Quantity[g])
  BY <1>3, <1>4 DEF Injection, IsInjective
<1>6. QED
  BY <1>2, <1>5, FS_Injection

LEMMA FewerHeld ==
  ASSUME IsFiniteSet(Contract!Held), \A g \in Grants : grant'[g] = "ACTIVE" => grant[g] = "ACTIVE"
  PROVE  IsFiniteSet(Contract!Held') /\ Cardinality(Contract!Held') <= Cardinality(Contract!Held)
<1>1. Contract!Held' \subseteq Contract!Held
  BY DEF Contract!Held
<1>2. QED
  BY <1>1, FS_Subset

LEMMA MoreHeld ==
  ASSUME Contract!RenewalsAssumption, Contract!TypeOK, IsFiniteSet(Contract!Held), NEW g \in Grants,
         grant' = [grant EXCEPT ![g] = "ACTIVE"]
  PROVE  IsFiniteSet(Contract!Held') /\ Cardinality(Contract!Held') <= Cardinality(Contract!Held) + Quantity[g]
<1>1. Contract!Held' \subseteq Contract!Held \cup SeatsOf(g)
  BY DEF Contract!Held, SeatsOf, Contract!TypeOK
<1>2. IsFiniteSet(SeatsOf(g)) /\ Cardinality(SeatsOf(g)) <= Quantity[g]
  BY SeatsCounted
<1>3. /\ IsFiniteSet(Contract!Held \cup SeatsOf(g))
      /\ Cardinality(Contract!Held \cup SeatsOf(g)) =
           Cardinality(Contract!Held) + Cardinality(SeatsOf(g)) - Cardinality(Contract!Held \cap SeatsOf(g))
  BY <1>2, FS_Union
<1>4. IsFiniteSet(Contract!Held \cap SeatsOf(g))
  BY FS_Intersection
<1>5. /\ Cardinality(Contract!Held) \in Nat /\ Cardinality(SeatsOf(g)) \in Nat
      /\ Cardinality(Contract!Held \cap SeatsOf(g)) \in Nat
  BY <1>2, <1>4, FS_CardinalityType
<1>6. IsFiniteSet(Contract!Held') /\ Cardinality(Contract!Held') <= Cardinality(Contract!Held \cup SeatsOf(g))
  BY <1>1, <1>3, FS_Subset
<1>7. Cardinality(Contract!Held') \in Nat /\ Quantity[g] \in Nat
  BY <1>6, FS_CardinalityType DEF Contract!RenewalsAssumption
<1>8. QED
  BY <1>2, <1>3, <1>5, <1>6, <1>7
-----------------------------------------------------------------------------
(***************************************************************************)
(* What a request read and was not turned down for: the seats are no more  *)
(* than it counted, and the expiry is the one it found.                    *)
(***************************************************************************)
SeatsRead(j) == j.op = "assign" /\ ~j.doomed => Cardinality(Contract!Held) <= j.used
DateRead(j)  == j.op = "renew" /\ ~j.doomed =>
                  item.state # "none" /\ j.from = item.expiry /\ j.from < j.to

SeatsInv == /\ Contract!TypeOK
            /\ IsFiniteSet(Contract!Held) /\ Contract!SeatsWithinTotal
            /\ \A k \in Workers : SeatsRead(clerk[k]) /\ DateRead(clerk[k])

\* How a step leaves what was read, but for an assignment that commits.
SeatsFollow ==
  /\ \A g \in Grants : grant'[g] = "ACTIVE" => grant[g] = "ACTIVE"
  /\ \A i \in Workers : clerk'[i].op = "assign" /\ ~clerk'[i].doomed =>
                          clerk'[i] = clerk[i] \/ clerk'[i].used = Cardinality(Contract!Held)
DatesFollow == \A i \in Workers : DateRead(clerk[i])'
Chained == \A r \in renewals' \ renewals : /\ r[1] = item.expiry /\ r[1] < r[2]
                                           /\ item'.expiry = r[2]

\* The record keeps its expiry, and does not become one that was never made.
Standing == item'.expiry = item.expiry /\ (item.state # "none" => item'.state # "none")

LEMMA BecomingOthers ==
  ASSUME clerk \in [Workers -> Contract!Jobs], NEW k \in Workers, NEW j,
         NEW ops \in SUBSET {"assign", "renew"}, Contract!Become(k, j, ops)
  PROVE  /\ clerk'[k] = j
         /\ \A i \in Workers \ {k} : Open(clerk'[i]) => clerk'[i] = clerk[i] /\ clerk[i].op \notin ops
<1> DEFINE d == Contract!Dooming(k, ops)
<1>1. /\ d \in [Workers -> Contract!Jobs]
      /\ \A i \in Workers \ {k} : Open(d[i]) => d[i] = clerk[i] /\ clerk[i].op \notin ops
  BY DoomingTurns
<1>2. clerk' = [d EXCEPT ![k] = j]
  BY DEF Contract!Become
<1> HIDE DEF d
<1>3. QED
  BY <1>1, <1>2

\* A request becomes j: what the others read still stands, or they are doomed.
LEMMA ReadsFollow ==
  ASSUME SeatsInv, NEW k \in Workers, NEW j, NEW ops \in SUBSET {"assign", "renew"},
         Contract!Become(k, j, ops),
         "renew" \in ops \/ Standing \/ item.state = "none",
         j.op = "renew" => item' = item /\ item.state # "none" /\ j.from = item.expiry /\ j.from < j.to
  PROVE  /\ DatesFollow
         /\ \A i \in Workers \ {k} : clerk'[i].op = "assign" /\ ~clerk'[i].doomed =>
              clerk'[i] = clerk[i] /\ "assign" \notin ops
         /\ clerk'[k] = j
<1>1. clerk \in [Workers -> Contract!Jobs]
  BY TypeParts DEF SeatsInv
<1>2. /\ clerk'[k] = j
      /\ \A i \in Workers \ {k} : Open(clerk'[i]) => clerk'[i] = clerk[i] /\ clerk[i].op \notin ops
  BY <1>1, BecomingOthers
<1>3. ASSUME NEW i \in Workers PROVE DateRead(clerk[i])'
  <2>1. CASE i = k
    BY <1>2, <2>1 DEF DateRead
  <2>2. CASE i # k
    <3>1. DateRead(clerk[i])
      BY DEF SeatsInv
    <3>2. clerk'[i].op = "renew" /\ ~clerk'[i].doomed =>
            clerk'[i] = clerk[i] /\ clerk[i].op \notin ops
      BY <1>2, <2>2 DEF Open
    <3>3. QED
      BY <3>1, <3>2 DEF DateRead, Standing
  <2>3. QED
    BY <2>1, <2>2
<1>4. QED
  BY <1>2, <1>3 DEF DatesFollow, Open

\* The same where no seat is handed out and nothing is renewed.
LEMMA StepFollows ==
  ASSUME SeatsInv, NEW k \in Workers, NEW j, NEW ops \in SUBSET {"assign", "renew"},
         Contract!Become(k, j, ops),
         "renew" \in ops \/ Standing \/ item.state = "none",
         j.op = "renew" => item' = item /\ item.state # "none" /\ j.from = item.expiry /\ j.from < j.to,
         j.op = "assign" => j.used = Cardinality(Contract!Held),
         \A g \in Grants : grant'[g] = "ACTIVE" => grant[g] = "ACTIVE"
  PROVE  SeatsFollow /\ DatesFollow
BY ReadsFollow DEF SeatsFollow

LEMMA SeatsKept ==
  ASSUME Contract!RenewalsAssumption, SeatsInv, Contract!TypeOK', SeatsFollow, DatesFollow
  PROVE  SeatsInv'
<1>1. IsFiniteSet(Contract!Held') /\ Cardinality(Contract!Held') <= Cardinality(Contract!Held)
  BY FewerHeld DEF SeatsInv, SeatsFollow
<1>2. Cardinality(Contract!Held') \in Nat /\ Cardinality(Contract!Held) \in Nat /\ Seats \in Nat
  BY <1>1, FS_CardinalityType DEF SeatsInv, Contract!RenewalsAssumption
<1>3. Contract!SeatsWithinTotal'
  BY <1>1, <1>2, SameCount DEF SeatsInv, Contract!SeatsWithinTotal, SeatsFollow
<1>4. ASSUME NEW i \in Workers PROVE SeatsRead(clerk[i])'
  <2>1. clerk'[i] \in Contract!Jobs
    BY TypeParts
  <2>2. PICK n : n = clerk'[i].used
    OBVIOUS
  <2>3. clerk'[i].op = "assign" /\ ~clerk'[i].doomed => n \in Nat /\ Cardinality(Contract!Held) <= n
    BY <1>2, <2>1, <2>2, JobFields DEF SeatsInv, SeatsRead, SeatsFollow
  <2>4. clerk'[i].op = "assign" /\ ~clerk'[i].doomed => Cardinality(Contract!Held') <= n
    BY <1>1, <1>2, <2>3
  <2>5. QED
    BY <2>2, <2>4 DEF SeatsRead
<1>5. QED
  BY <1>1, <1>3, <1>4 DEF SeatsInv, DatesFollow

\* A seat is handed out: they were counted, and nobody else's count survives.
LEMMA AssignStep ==
  ASSUME Contract!RenewalsAssumption, SeatsInv, Contract!TypeOK', NEW k \in Workers,
         Contract!AssignCommit(k)
  PROVE  SeatsInv' /\ Chained
<1>1. clerk[k] \in Contract!Jobs /\ clerk[k].op = "assign" /\ clerk[k].grant \in Grants /\ clerk[k].used \in Nat
  BY JobFields, TypeParts DEF SeatsInv, Contract!AssignCommit
<1>2. PICK g \in Grants, used \in Nat : g = clerk[k].grant /\ used = clerk[k].used
  BY <1>1
<1>3. Contract!Idle.op = "idle" /\ UNCHANGED <<item, renewals>>
  BY DEF Contract!Idle, Contract!AssignCommit
<1>4. Chained
  BY <1>3 DEF Chained
<1>5. CASE UNCHANGED grant /\ Contract!Become(k, Contract!Idle, {})
  <2>1. SeatsFollow /\ DatesFollow
    BY <1>3, <1>5, StepFollows DEF Standing
  <2>2. QED
    BY <1>4, <2>1, SeatsKept
<1>6. CASE /\ ~clerk[k].doomed /\ Contract!Fits(used, g)
           /\ grant' = [grant EXCEPT ![g] = "ACTIVE"] /\ Contract!Become(k, Contract!Idle, {"assign"})
  <2>1. /\ DatesFollow /\ clerk'[k] = Contract!Idle
        /\ \A i \in Workers \ {k} : clerk'[i].op = "assign" => clerk'[i].doomed
    BY <1>3, <1>6, ReadsFollow DEF Standing
  <2>2. Cardinality(Contract!Held) <= used /\ used + Quantity[g] <= Seats
    BY <1>1, <1>2, <1>6 DEF SeatsInv, SeatsRead, Contract!Fits
  <2>3. IsFiniteSet(Contract!Held') /\ Cardinality(Contract!Held') <= Cardinality(Contract!Held) + Quantity[g]
    BY <1>6, MoreHeld DEF SeatsInv
  <2>4. /\ Cardinality(Contract!Held') \in Nat /\ Cardinality(Contract!Held) \in Nat
        /\ Quantity[g] \in Nat /\ Seats \in Nat
    BY <2>3, FS_CardinalityType DEF SeatsInv, Contract!RenewalsAssumption
  <2>5. Cardinality(Contract!Held') <= Seats /\ Quantity[g] <= Seats
    BY <2>2, <2>3, <2>4
  <2>6. Contract!SeatsWithinTotal'
    BY <1>6, <2>5, SameCount DEF SeatsInv, Contract!SeatsWithinTotal, Contract!TypeOK
  <2>7. \A i \in Workers : SeatsRead(clerk[i])'
    BY <1>3, <2>1 DEF SeatsRead
  <2>8. QED
    BY <1>4, <2>1, <2>3, <2>6, <2>7 DEF SeatsInv, DatesFollow
<1>7. QED
  BY <1>2, <1>5, <1>6 DEF Contract!AssignCommit

\* A renewal commits: it starts from the expiry there is, and turns down the others.
LEMMA RenewStep ==
  ASSUME Contract!RenewalsAssumption, SeatsInv, Contract!TypeOK', NEW k \in Workers,
         Contract!RenewCommit(k)
  PROVE  SeatsInv' /\ Chained
<1>1. clerk[k].op = "renew" /\ DateRead(clerk[k]) /\ Contract!Idle.op = "idle" /\ UNCHANGED grant
  BY DEF Contract!RenewCommit, SeatsInv, Contract!Idle
<1>2. CASE Contract!Become(k, Contract!Idle, {}) /\ UNCHANGED <<renewals, item, warning>>
  <2>1. SeatsFollow /\ DatesFollow
    BY <1>1, <1>2, StepFollows DEF Standing
  <2>2. QED
    BY <1>2, <2>1, SeatsKept DEF Chained
<1>3. CASE /\ ~clerk[k].doomed /\ Contract!Become(k, Contract!Idle, {"renew"})
           /\ renewals' = renewals \cup {<<clerk[k].from, clerk[k].to>>}
           /\ item' = [item EXCEPT !.expiry = clerk[k].to, !.status = Contract!StatusOf(clerk[k].to)]
  <2>1. SeatsFollow /\ DatesFollow
    BY <1>1, <1>3, StepFollows
  <2>2. /\ clerk[k].from = item.expiry /\ clerk[k].from < clerk[k].to
        /\ item'.expiry = clerk[k].to
    BY <1>1, <1>3 DEF DateRead, SeatsInv, Contract!TypeOK, Contract!ItemRows
  <2>3. Chained
    BY <1>3, <2>2 DEF Chained
  <2>4. QED
    BY <2>1, <2>3, SeatsKept
<1>4. QED
  BY <1>2, <1>3 DEF Contract!RenewCommit

\* syncAlerts writes alerts and the status, never a seat, an expiry or a renewal.
LEMMA SyncStep ==
  ASSUME Contract!RenewalsAssumption, SeatsInv, Contract!TypeOK', NEW k \in Workers,
         Contract!SyncBegin(k) \/ Contract!Sync(k)
  PROVE  SeatsInv' /\ Chained
<1>1. Standing /\ UNCHANGED <<grant, renewals>>
  BY DEF Contract!SyncBegin, Contract!Sync, Contract!SyncPolicies, Contract!SyncRaise,
         Contract!SyncSettle, Contract!SyncStatus, Contract!rows, Standing, SeatsInv,
     Contract!TypeOK, Contract!ItemRows
<1>2. ASSUME NEW j, j.op \notin {"assign", "renew"}, NEW ops \in SUBSET {"assign", "renew"},
             Contract!Become(k, j, ops)
      PROVE  SeatsFollow /\ DatesFollow
  BY <1>1, <1>2, StepFollows
<1>3. Contract!Idle.op = "idle" /\ [op |-> "sync"].op = "sync" /\ [op |-> "settle"].op = "settle"
  BY DEF Contract!Idle
<1>4. SeatsFollow /\ DatesFollow
  <2>1. CASE Contract!SyncBegin(k)
    BY <1>2, <1>3, <2>1 DEF Contract!SyncBegin
  <2>2. CASE Contract!SyncPolicies(k)
    <3>1. PICK j : Contract!Become(k, j, {}) /\ j.op \in {"raise", "settle"}
      BY <2>2 DEF Contract!SyncPolicies
    <3>2. QED
      BY <1>2, <3>1
  <2>3. CASE Contract!SyncRaise(k) /\ (clerk[k].due = {} \/ item.state # "live")
    BY <1>2, <1>3, <2>3 DEF Contract!SyncRaise
  <2>4. CASE Contract!SyncRaise(k) /\ ~(clerk[k].due = {} \/ item.state # "live")
    <3>1. PICK t \in clerk[k].due, ops \in {{}, {"renew"}} :
            Contract!Become(k, [clerk[k] EXCEPT !.due = clerk[k].due \ {t}], ops)
      BY <2>4 DEF Contract!SyncRaise
    <3>2. clerk[k] \in [op : {"raise"}, expiry : Contract!Days, due : SUBSET WarningDays]
      BY <2>4, TypeParts DEF SeatsInv, Contract!SyncRaise, Contract!Jobs, Contract!Idle
    <3>3. [clerk[k] EXCEPT !.due = clerk[k].due \ {t}].op = "raise"
      BY <3>2
    <3>4. QED
      BY <1>2, <3>1, <3>3
  <2>5. CASE Contract!SyncSettle(k)
    <3>1. PICK j : Contract!Become(k, j, {}) /\ j.op \in {"status", "idle"}
      BY <1>3, <2>5 DEF Contract!SyncSettle
    <3>2. QED
      BY <1>2, <3>1
  <2>6. CASE Contract!SyncStatus(k)
    BY <1>2, <1>3, <2>6 DEF Contract!SyncStatus
  <2>7. QED
    BY <2>1, <2>2, <2>3, <2>4, <2>5, <2>6 DEF Contract!Sync
<1>5. QED
  BY <1>1, <1>4, SeatsKept DEF Chained

LEMMA SeatsStep ==
  ASSUME Contract!RenewalsAssumption, SeatsInv, [Contract!Next]_(Contract!vars)
  PROVE  SeatsInv' /\ Chained
<1>0. Contract!TypeOK'
  BY TypeStep DEF SeatsInv
<1>1. Contract!Idle.op = "idle" /\ clerk \in [Workers -> Contract!Jobs]
  BY TypeParts DEF Contract!Idle, SeatsInv
<1>2. ASSUME UNCHANGED <<item, grant, renewals>>,
             \A i \in Workers : Open(clerk'[i]) => clerk'[i] = clerk[i]
      PROVE  SeatsInv' /\ Chained
  <2>1. SeatsFollow
    BY <1>2 DEF SeatsFollow, Open
  <2>2. ASSUME NEW i \in Workers PROVE DateRead(clerk[i])'
    <3>1. DateRead(clerk[i])
      BY DEF SeatsInv
    <3>2. QED
      BY <1>2, <3>1 DEF DateRead, Open
  <2>3. QED
    BY <1>0, <1>2, <2>1, <2>2, SeatsKept DEF DatesFollow, Chained
<1>3. ASSUME NEW k \in Workers,
             Contract!Create(k) \/ Contract!UpdateContract(k) \/ Contract!SavePolicy(k) \/ Contract!Remove(k)
      PROVE  SeatsInv' /\ Chained
  <2>1. /\ renewals' \subseteq renewals
        /\ \A g \in Grants : grant'[g] = "ACTIVE" => grant[g] = "ACTIVE"
    BY <1>3 DEF Contract!Create, Contract!UpdateContract, Contract!SavePolicy, Contract!Remove
  <2>2. CASE Contract!Remove(k)
    <3>1. Standing /\ Contract!Become(k, Contract!Idle, {"renew", "assign"})
      BY <2>2 DEF Contract!Remove, Standing, SeatsInv, Contract!TypeOK, Contract!ItemRows
    <3>2. QED
      BY <1>0, <1>1, <2>1, <3>1, StepFollows, SeatsKept DEF Chained
  <2>3. CASE Contract!Create(k) \/ Contract!UpdateContract(k) \/ Contract!SavePolicy(k)
    <3>1. PICK ops \in {{}, {"renew"}} :
            /\ Contract!Become(k, [op |-> "sync"], ops)
            /\ "renew" \in ops \/ Standing \/ item.state = "none"
      BY <2>3 DEF Contract!Create, Contract!UpdateContract, Contract!SavePolicy, Standing
    <3>2. QED
      BY <1>0, <2>1, <3>1, StepFollows, SeatsKept DEF Chained
  <2>4. QED
    BY <1>3, <2>2, <2>3
<1>4. ASSUME NEW k \in Workers, NEW g \in Grants,
             Contract!AssignRead(k, g) \/ Contract!RevokeRead(k, g)
      PROVE  SeatsInv' /\ Chained
  <2>1. PICK j : /\ Contract!Become(k, j, {}) /\ j.op # "renew"
                 /\ j.op = "assign" => j.used = Cardinality(Contract!Held)
    BY <1>4, SameCount DEF Contract!AssignRead, Contract!RevokeRead
  <2>2. UNCHANGED <<item, grant, renewals>>
    BY <1>4 DEF Contract!AssignRead, Contract!RevokeRead, Contract!rows
  <2>3. QED
    BY <1>0, <2>1, <2>2, StepFollows, SeatsKept DEF Chained, Standing
<1>5. ASSUME NEW k \in Workers, Contract!RevokeCommit(k) PROVE SeatsInv' /\ Chained
  <2>1. \A g \in Grants : grant'[g] = "ACTIVE" => grant[g] = "ACTIVE"
    BY <1>5 DEF Contract!RevokeCommit, SeatsInv, Contract!TypeOK
  <2>2. Contract!Become(k, Contract!Idle, {}) /\ UNCHANGED <<item, renewals>>
    BY <1>5 DEF Contract!RevokeCommit
  <2>3. QED
    BY <1>0, <1>1, <2>1, <2>2, StepFollows, SeatsKept DEF Chained, Standing
<1>6. ASSUME NEW k \in Workers, NEW to \in Contract!Days,
             Contract!RenewRead(k, to) PROVE SeatsInv' /\ Chained
  <2>1. PICK j : /\ Contract!Become(k, j, {}) /\ j.op = "renew" /\ j.from = item.expiry /\ j.to = to
    BY <1>6 DEF Contract!RenewRead
  <2>2. /\ item.state = "live" /\ j.from < j.to /\ UNCHANGED <<item, grant, renewals>>
    BY <1>6, <2>1 DEF Contract!RenewRead, Contract!rows, SeatsInv, Contract!TypeOK,
           Contract!ItemRows, Contract!Days
  <2>3. SeatsFollow /\ DatesFollow
    BY <2>1, <2>2, StepFollows DEF Standing
  <2>4. QED
    BY <1>0, <2>2, <2>3, SeatsKept DEF Chained
<1>7. ASSUME NEW a \in Contract!AlertRows, Contract!Acknowledge(a) PROVE SeatsInv' /\ Chained
  <2>1. CASE clerk' = clerk
    BY <1>2, <1>7, <2>1 DEF Contract!Acknowledge
  <2>2. CASE clerk' = Contract!Dooming("nobody", {"renew"})
    <3>1. \A i \in Workers \ {"nobody"} : Open(clerk'[i]) => clerk'[i] = clerk[i]
      BY <1>1, <2>2, DoomingTurns
    <3>2. "nobody" \in Workers => clerk'["nobody"] = clerk["nobody"]
      BY <1>1, <2>2 DEF Contract!Dooming
    <3>3. QED
      BY <1>2, <1>7, <3>1, <3>2 DEF Contract!Acknowledge
  <2>3. QED
    BY <1>7, <2>1, <2>2 DEF Contract!Acknowledge
<1>8. CASE Contract!NextDay
  BY <1>2, <1>8 DEF Contract!NextDay, Contract!rows
<1>9. CASE UNCHANGED Contract!vars
  BY <1>2, <1>9 DEF Contract!vars, Contract!rows
<1>10. QED
  BY <1>0, <1>3, <1>4, <1>5, <1>6, <1>7, <1>8, <1>9, AssignStep, RenewStep, SyncStep
  DEF Contract!Next, Workers

LEMMA SeatsStart ==
  ASSUME Contract!RenewalsAssumption
  PROVE  Contract!Init => SeatsInv
<1> SUFFICES ASSUME Contract!Init PROVE SeatsInv
  OBVIOUS
<1>1. Contract!TypeOK
  BY DEF Contract!Init, Contract!TypeOK, Contract!ItemRows, Contract!Days, Contract!Active,
         Contract!Jobs, Contract!Idle, Contract!RenewalsAssumption
<1>2. Contract!Held = {} /\ IsFiniteSet(Contract!Held) /\ Cardinality(Contract!Held) = 0
  BY FS_EmptySet DEF Contract!Init, Contract!Held
<1>3. Contract!SeatsWithinTotal
  BY <1>2, SameCount DEF Contract!Init, Contract!SeatsWithinTotal, Contract!RenewalsAssumption
<1>4. \A k \in Workers : SeatsRead(clerk[k]) /\ DateRead(clerk[k])
  BY DEF Contract!Init, Workers, Contract!Idle, SeatsRead, DateRead
<1>5. QED
  BY <1>1, <1>2, <1>3, <1>4 DEF SeatsInv

LEMMA SeatsAlways ==
  ASSUME Contract!RenewalsAssumption
  PROVE  Contract!Spec => []SeatsInv
<1>1. SeatsInv /\ [Contract!Next]_(Contract!vars) => SeatsInv'
  BY SeatsStep
<1>2. QED
  BY <1>1, SeatsStart, PTL DEF Contract!Spec

\* Every variable of the register of licences keeps its type.
THEOREM ContractTypeCorrect ==
  ASSUME Contract!RenewalsAssumption
  PROVE  Contract!Spec => []Contract!TypeOK
<1>1. SeatsInv => Contract!TypeOK
  BY DEF SeatsInv
<1>2. QED
  BY <1>1, SeatsAlways, PTL

\* Requests that each saw seats left never hand out more than were bought: what
\* assign counted is an upper bound of what is held as long as it can commit.
THEOREM SeatsSuffice ==
  ASSUME Contract!RenewalsAssumption
  PROVE  Contract!Spec => []SeatsWithinTotal
<1>1. SeatsInv => SeatsWithinTotal
  BY DEF SeatsInv, SeatsWithinTotal
<1>2. QED
  BY <1>1, SeatsAlways, PTL

\* Each renewal starts from the expiry there is and moves it on: two people who
\* renew at once do not pay for the same period twice.
THEOREM RenewalsChain ==
  ASSUME Contract!RenewalsAssumption
  PROVE  Contract!Spec => RenewsWhatIsThere
<1>1. SeatsInv /\ [Contract!Next]_(Contract!vars) => Chained
  BY SeatsStep
<1>2. QED
  BY <1>1, SeatsAlways, PTL
  DEF Contract!Spec, RenewsWhatIsThere, Contract!RenewsWhatIsThere, Chained
-----------------------------------------------------------------------------
(***************************************************************************)
(* The outbox.                                                             *)
(***************************************************************************)
USE OutboxAssumption

\* What each kind of job holds.
LEMMA JobTypes ==
  ASSUME NEW j \in Jobs
  PROVE  /\ j.op = "queue" => j.todo \in SUBSET Deliveries
         /\ j.op \in {"send", "mark", "fail"} => j.todo \in SUBSET (Deliveries \X Nat)
         /\ j.op \in {"mark", "fail"} => j.now \in Deliveries \X Nat
         /\ j # Idle => j.op \in {"queue", "send", "mark", "fail"}
         /\ Idle.op = "idle"
BY DEF Jobs, Idle

\* The jobs that a tick's steps leave it with.
LEMMA JobMade ==
  /\ Idle \in Jobs
  /\ \A todo \in SUBSET Deliveries : [op |-> "queue", todo |-> todo] \in Jobs
  /\ \A todo \in SUBSET (Deliveries \X Nat) :
       /\ [op |-> "send", todo |-> todo] \in Jobs
       /\ \A now \in Deliveries \X Nat, op \in {"mark", "fail"} :
            [op |-> op, todo |-> todo, now |-> now] \in Jobs
BY DEF Jobs

LEMMA StepType == ASSUME TypeOK, [Next]_vars PROVE TypeOK'
<1>t. /\ enabled \in BOOLEAN /\ smtp \in BOOLEAN /\ overlapped \in BOOLEAN
      /\ alert \in [Alerts -> {"NONE", "OPEN", "CLOSED", "GONE"}]
      /\ row \in [Deliveries -> Rows]
      /\ tries \in [Deliveries -> Nat] /\ mails \in [Deliveries -> Nat]
      /\ job \in [Ticks -> Jobs]
      /\ faults \in 0 .. MaxFaults
  BY DEF TypeOK
<1>r. None \in Rows /\ \A n \in Nat : After(n) \in Rows
  BY DEF None, Rows, After
<1>1. ASSUME NEW a \in Alerts, Raise(a) \/ Close(a) \/ Delete(a) PROVE TypeOK'
  BY <1>1, <1>t, <1>r DEF Raise, Close, Delete, TypeOK
<1>2. CASE Save \/ Outage
  BY <1>2, <1>t DEF Save, Outage, TypeOK
<1>3. CASE Restart
  BY <1>3, <1>t, JobMade DEF Restart, TypeOK
<1>4. ASSUME NEW d \in Deliveries, Elapse(d) PROVE TypeOK'
  <2>1. [row[d] EXCEPT !.due = TRUE] \in Rows
    BY <1>t DEF Rows
  <2> QED BY <1>4, <1>t, <2>1 DEF Elapse, TypeOK
<1>5. ASSUME NEW k \in Ticks, Tick(k) \/ Read(k) \/ Done(k) PROVE TypeOK'
  <2>1. {<<d, row[d].attempts>> : d \in {e \in Deliveries : Waiting(e)}} \in SUBSET (Deliveries \X Nat)
    BY <1>t DEF Rows
  <2> QED BY <1>5, <1>t, <2>1, JobMade DEF Tick, Read, Done, TypeOK
<1>6. ASSUME NEW k \in Ticks, Queue(k) PROVE TypeOK'
  <2>1. job[k].todo \in SUBSET Deliveries /\ job[k] \in [op : {"queue"}, todo : SUBSET Deliveries]
    BY <1>6, <1>t DEF Queue, Jobs, Idle
  <2>2. PICK d \in job[k].todo :
          IF alert[d[1]] = "GONE"
          THEN job' = [job EXCEPT ![k] = Idle] /\ UNCHANGED row
          ELSE /\ row' = [row EXCEPT ![d] = IF @ # None THEN @
                            ELSE [status |-> "PENDING", attempts |-> 0, due |-> TRUE]]
               /\ job' = [job EXCEPT ![k].todo = @ \ {d}]
    BY <1>6 DEF Queue
  <2>3. [status |-> "PENDING", attempts |-> 0, due |-> TRUE] \in Rows
    BY DEF Rows
  <2>4. [job[k] EXCEPT !.todo = @ \ {d}] \in Jobs
    BY <2>1 DEF Jobs
  <2>5. row' \in [Deliveries -> Rows]
    BY <1>t, <2>1, <2>2, <2>3
  <2>6. job' \in [Ticks -> Jobs]
    BY <1>t, <2>2, <2>4, JobMade
  <2> QED BY <1>6, <1>t, <2>5, <2>6 DEF Queue, TypeOK
<1>7. ASSUME NEW k \in Ticks, Send(k) PROVE TypeOK'
  <2>1. job[k].todo \in SUBSET (Deliveries \X Nat)
    BY <1>7, <1>t, JobTypes DEF Send
  <2>2. PICK now \in job[k].todo :
       /\ tries' = [tries EXCEPT ![now[1]] = @ + 1]
       /\ \/ mails' = [mails EXCEPT ![now[1]] = @ + 1]
          \/ UNCHANGED mails
       /\ \E op \in {"mark", "fail"} : Outcome(k, now, op)
       /\ UNCHANGED faults \/ (faults < MaxFaults /\ faults' = faults + 1)
    BY <1>7 DEF Send
  <2>3. job' \in [Ticks -> Jobs]
    <3>1. PICK op \in {"mark", "fail"} : Outcome(k, now, op)
      BY <2>2
    <3>2. now \in Deliveries \X Nat /\ job[k].todo \ {now} \in SUBSET (Deliveries \X Nat)
      BY <2>1
    <3>3. [op |-> op, todo |-> job[k].todo \ {now}, now |-> now] \in Jobs
      BY <3>2, JobMade
    <3> QED BY <1>t, <3>1, <3>3 DEF Outcome
  <2>4. tries' \in [Deliveries -> Nat] /\ mails' \in [Deliveries -> Nat]
    BY <1>t, <2>1, <2>2
  <2>5. faults' \in 0 .. MaxFaults
    BY <1>t, <2>2
  <2> QED BY <1>7, <1>t, <2>3, <2>4, <2>5 DEF Send, TypeOK
<1>8. ASSUME NEW k \in Ticks, MarkSent(k) PROVE TypeOK'
  <2> DEFINE d == job[k].now[1]
  <2>1. job[k] \in [op : {"mark", "fail"}, todo : SUBSET (Deliveries \X Nat), now : Deliveries \X Nat]
    BY <1>8, <1>t DEF MarkSent, Jobs, Idle
  <2>2. [[row[d] EXCEPT !.status = "SENT"] EXCEPT !.attempts = @ + 1] \in Rows
    <3>1. row[d] \in Rows
      BY <1>t, <2>1
    <3>2. [row[d] EXCEPT !.status = "SENT"] \in Rows
      BY <3>1 DEF Rows
    <3> HIDE DEF d
    <3>3. \A r \in Rows : [r EXCEPT !.attempts = @ + 1] \in Rows
      BY DEF Rows
    <3> QED BY <3>2, <3>3
  <2>3. CASE Onward(k) /\ UNCHANGED faults
             /\ row' = [row EXCEPT ![d].status = "SENT", ![d].attempts = @ + 1]
    <3>1. row' = [row EXCEPT ![d] = [[row[d] EXCEPT !.status = "SENT"] EXCEPT !.attempts = @ + 1]]
      <4>1. row[d] \in Rows /\ d \in Deliveries
        BY <1>t, <2>1
      <4> QED BY <1>t, <2>3, <4>1 DEF Rows
    <3>2. row' \in [Deliveries -> Rows]
      BY <1>t, <2>2, <3>1
    <3>3. job' \in [Ticks -> Jobs]
      BY <1>t, <2>1, <2>3, JobMade DEF Onward
    <3> QED BY <1>8, <1>t, <2>3, <3>2, <3>3 DEF MarkSent, TypeOK
  <2>4. CASE UNCHANGED row /\ job' = [job EXCEPT ![k].op = "fail"]
             /\ (row[d] = None \/ faults < MaxFaults)
             /\ faults' = IF row[d] = None THEN faults ELSE faults + 1
    <3>1. [job[k] EXCEPT !.op = "fail"] \in Jobs
      BY <2>1 DEF Jobs
    <3>2. faults' \in 0 .. MaxFaults
      BY <1>t, <2>4
    <3> QED BY <1>8, <1>t, <2>4, <3>1, <3>2 DEF MarkSent, TypeOK
  <2> QED BY <1>8, <2>3, <2>4 DEF MarkSent
<1>9. ASSUME NEW k \in Ticks, MarkFailed(k) PROVE TypeOK'
  <2>1. job[k].todo \in SUBSET (Deliveries \X Nat) /\ job[k].now \in Deliveries \X Nat
    BY <1>9, <1>t, JobTypes DEF MarkFailed
  <2>2. row' \in [Deliveries -> Rows]
    BY <1>9, <1>t, <1>r, <2>1 DEF MarkFailed
  <2>3. job' \in [Ticks -> Jobs]
    BY <1>9, <1>t, <2>1, JobMade DEF MarkFailed, Onward
  <2> QED BY <1>9, <1>t, <2>2, <2>3 DEF MarkFailed, TypeOK
<1>10. CASE UNCHANGED vars
  BY <1>10 DEF vars, TypeOK
<1>11. ASSUME NEW k \in Ticks, CutShort(k) PROVE TypeOK'
  BY <1>11, <1>t, JobMade DEF CutShort, TypeOK
<1> QED
  BY <1>1, <1>2, <1>3, <1>4, <1>5, <1>6, <1>7, <1>8, <1>9, <1>10, <1>11 DEF Next, Step

LEMMA InitType == Init => TypeOK
<1>1. None \in Rows /\ 0 \in 0 .. MaxFaults /\ 0 \in Nat
  BY DEF None, Rows
<1> SUFFICES ASSUME Init PROVE TypeOK
  OBVIOUS
<1>2. job \in [Ticks -> Jobs]
  BY JobMade DEF Init
<1>3. row \in [Deliveries -> Rows]
  BY <1>1 DEF Init
<1> QED BY <1>1, <1>2, <1>3 DEF Init, TypeOK

\* Every variable keeps its type (renewal-notification.service).
THEOREM OutboxTypeCorrect == Spec => []TypeOK
<1>1. Init => TypeOK
  BY InitType
<1>2. TypeOK /\ [Next]_vars => TypeOK'
  BY StepType
<1> QED BY <1>1, <1>2, PTL DEF Spec
-----------------------------------------------------------------------------
(***************************************************************************)
(* The inductive invariant.  As long as no two ticks overlapped, a tick    *)
(* has the row of every delivery before it as it read it: one it has not   *)
(* come to (Ahead) has cost no more mails than there were faults, the one  *)
(* in its hands (InHand) one more, and a row at rest (AtRest) counts every *)
(* attempt but those a fault hid.                                          *)
(***************************************************************************)
Gone(d)   == alert[d[1]] = "GONE"
Busy(k)   == job[k].op \in {"mark", "fail"}
Holds(d)  == \E k \in Ticks : Busy(k) /\ job[k].now[1] = d
AsRead(d, n) == ~Gone(d) => row[d] # None /\ row[d].attempts = n /\ row[d].status # "SENT"

Ahead(d, n) ==
  n < MaxAttempts /\ tries[d] <= n + faults /\ mails[d] <= faults /\ AsRead(d, n)
InHand(k) ==
  LET d == job[k].now[1]  n == job[k].now[2] IN
  /\ n < MaxAttempts /\ tries[d] <= n + 1 + faults /\ AsRead(d, n)
  /\ mails[d] <= (IF job[k].op = "fail" /\ ~Gone(d) THEN faults ELSE 1 + faults)
AtRest(d) ==
  /\ tries[d] <= MaxAttempts + faults /\ mails[d] <= 1 + faults
  /\ ~Gone(d) => /\ row[d].attempts <= MaxAttempts
                 /\ tries[d] <= row[d].attempts + faults
                 /\ row[d].status # "SENT" => mails[d] <= faults

OneTick   == \A k, l \in Ticks : job[k] # Idle /\ job[l] # Idle => k = l
WorkAhead == \A k \in Ticks : job[k].op \in {"send", "mark", "fail"} =>
               /\ \A e \in job[k].todo : Ahead(e[1], e[2])
               /\ \A e, f \in job[k].todo : e[1] = f[1] => e = f
               /\ Busy(k) => \A e \in job[k].todo : e[1] # job[k].now[1]
WorkInHand == \A k \in Ticks : Busy(k) => InHand(k)
RestAtRest == \A d \in Deliveries : ~Holds(d) => AtRest(d)
GoneIsEmpty == \A d \in Deliveries : Gone(d) => row[d] = None

NoOverlap == OneTick /\ WorkAhead /\ WorkInHand /\ RestAtRest
MarkedWasMailed == \A k \in Ticks : job[k].op = "mark" => mails[job[k].now[1]] > 0
OutboxInv == /\ TypeOK /\ GoneIsEmpty
             /\ SentWasMailed /\ MarkedWasMailed
             /\ ~overlapped => NoOverlap

\* The types the steps below reckon with.
LEMMA Numbers ==
  ASSUME TypeOK
  PROVE  /\ faults \in Nat /\ MaxAttempts \in Nat
         /\ \A d \in Deliveries : /\ tries[d] \in Nat /\ mails[d] \in Nat
                                 /\ row[d] \in Rows /\ row[d].attempts \in Nat
         /\ None.attempts = 0 /\ None.status = "NONE"
BY OutboxAssumption DEF TypeOK, Rows, None

\* What happens to a delivery while no tick touches its row: it may be deleted.
Kept(d) == /\ tries'[d] = tries[d] /\ mails'[d] = mails[d] /\ faults' \in Nat /\ faults' >= faults
           /\ Gone(d) => Gone(d)'
           /\ ~Gone(d)' => /\ row'[d].attempts = row[d].attempts
                           /\ row'[d].status = row[d].status
                           /\ row[d] # None => row'[d] # None

LEMMA KeptIsKept ==
  ASSUME TypeOK, NEW d \in Deliveries, Kept(d)
  PROVE  /\ \A n \in Nat : Ahead(d, n) => Ahead(d, n)'
         /\ AtRest(d) => AtRest(d)'
BY Numbers DEF Kept, Ahead, AsRead, AtRest

LEMMA KeptInHand ==
  ASSUME TypeOK, NEW k \in Ticks, Busy(k), job'[k] = job[k], Kept(job[k].now[1]), InHand(k)
  PROVE  InHand(k)'
<1>1. job[k].now \in Deliveries \X Nat
  BY JobTypes DEF Busy, TypeOK
<1>2. PICK d \in Deliveries, n \in Nat : d = job[k].now[1] /\ n = job[k].now[2]
  BY <1>1
<1>3. Kept(d) /\ n < MaxAttempts /\ tries[d] <= n + 1 + faults /\ AsRead(d, n)
      /\ mails[d] <= (IF job[k].op = "fail" /\ ~Gone(d) THEN faults ELSE 1 + faults)
  BY <1>2 DEF InHand
<1>4. AsRead(d, n)'
  BY <1>3 DEF Kept, AsRead
<1>5. tries'[d] <= n + 1 + faults'
  BY <1>3, Numbers DEF Kept
<1>6. mails'[d] <= (IF job[k].op = "fail" /\ ~Gone(d)' THEN faults' ELSE 1 + faults')
  BY <1>3, Numbers DEF Kept, Gone
<1>7. d = job'[k].now[1] /\ n = job'[k].now[2]
  BY <1>2
<1> QED BY <1>3, <1>4, <1>5, <1>6, <1>7 DEF InHand

\* Where one tick is at work, NoOverlap is about that tick.
LEMMA OneAtWork ==
  ASSUME TypeOK', NEW k \in Ticks,
         \A l \in Ticks \ {k} : job'[l] = Idle,
         job'[k].op \in {"send", "mark", "fail"} =>
           /\ \A e \in job'[k].todo : Ahead(e[1], e[2])'
           /\ \A e, f \in job'[k].todo : e[1] = f[1] => e = f
           /\ Busy(k)' => \A e \in job'[k].todo : e[1] # job'[k].now[1],
         Busy(k)' => InHand(k)',
         \A d \in Deliveries : (Busy(k)' => job'[k].now[1] # d) => AtRest(d)'
  PROVE  NoOverlap'
<1>1. \A l \in Ticks \ {k} : job'[l].op = "idle" /\ ~Busy(l)'
  BY DEF Idle, Busy
<1>2. OneTick'
  BY DEF OneTick
<1>3. WorkAhead'
  BY <1>1 DEF WorkAhead
<1>4. WorkInHand'
  BY <1>1 DEF WorkInHand
<1>5. RestAtRest'
  BY <1>1 DEF RestAtRest, Holds
<1> QED BY <1>2, <1>3, <1>4, <1>5 DEF NoOverlap

\* Nothing around the outbox disturbs a tick.
LEMMA AroundTheOutbox ==
  ASSUME OutboxInv, TypeOK', ~overlapped,
         UNCHANGED <<job, tries, mails, faults>>, \A d \in Deliveries : Kept(d)
  PROVE  NoOverlap'
<1>1. TypeOK /\ NoOverlap
  BY DEF OutboxInv
<1>2. OneTick'
  BY <1>1 DEF NoOverlap, OneTick
<1>3. WorkAhead'
  <2> SUFFICES ASSUME NEW k \in Ticks, job[k].op \in {"send", "mark", "fail"}
               PROVE  \A e \in job[k].todo : Ahead(e[1], e[2])'
    BY <1>1 DEF NoOverlap, WorkAhead, Busy
  <2>1. job[k].todo \in SUBSET (Deliveries \X Nat)
    BY <1>1, JobTypes DEF TypeOK
  <2>2. \A e \in job[k].todo : Ahead(e[1], e[2])
    BY <1>1 DEF NoOverlap, WorkAhead
  <2> QED BY <1>1, <2>1, <2>2, KeptIsKept
<1>4. WorkInHand'
  <2> SUFFICES ASSUME NEW k \in Ticks, Busy(k) PROVE InHand(k)'
    BY DEF WorkInHand, Busy
  <2>1. job[k].now[1] \in Deliveries
    BY <1>1, JobTypes DEF Busy, TypeOK
  <2> QED BY <1>1, <2>1, KeptInHand DEF NoOverlap, WorkInHand
<1>5. RestAtRest'
  BY <1>1, KeptIsKept DEF NoOverlap, RestAtRest, Holds, Busy
<1> QED BY <1>2, <1>3, <1>4, <1>5 DEF NoOverlap

\* While one tick works alone, the others are idle and what it does not hold
\* is at rest.
LEMMA Alone ==
  ASSUME OutboxInv, ~overlapped, NEW k \in Ticks, job[k] # Idle
  PROVE  /\ \A l \in Ticks \ {k} : job[l] = Idle
         /\ \A d \in Deliveries : (Busy(k) => job[k].now[1] # d) => AtRest(d)
<1>1. NoOverlap
  BY DEF OutboxInv
<1>2. \A l \in Ticks \ {k} : job[l] = Idle
  BY <1>1 DEF NoOverlap, OneTick
<1>3. \A l \in Ticks \ {k} : ~Busy(l)
  BY <1>2 DEF Busy, Idle
<1> QED BY <1>1, <1>2, <1>3 DEF NoOverlap, RestAtRest, Holds

LEMMA TickKeeps ==
  ASSUME OutboxInv, TypeOK', ~overlapped', NEW k \in Ticks, Tick(k)
  PROVE  NoOverlap'
<1>1. TypeOK /\ NoOverlap /\ job[k] = Idle /\ \A l \in Ticks \ {k} : job[l] = Idle
  BY DEF OutboxInv, Tick
<1>2. \A l \in Ticks : ~Busy(l)
  BY <1>1 DEF Busy, Idle
<1>3. \A d \in Deliveries : AtRest(d)
  BY <1>1, <1>2 DEF NoOverlap, RestAtRest, Holds
<1>4. \A d \in Deliveries : AtRest(d)'
  BY <1>3 DEF Tick, AtRest, Gone
<1>5. job'[k].op = "queue" /\ \A l \in Ticks \ {k} : job'[l] = Idle
  BY <1>1 DEF Tick, TypeOK
<1> QED BY <1>4, <1>5, OneAtWork DEF Busy

LEMMA QueueKeeps ==
  ASSUME OutboxInv, TypeOK', ~overlapped', NEW k \in Ticks, Queue(k) \/ Done(k)
  PROVE  NoOverlap'
<1>1. TypeOK /\ ~overlapped /\ job[k] # Idle /\ ~Busy(k)
  BY DEF OutboxInv, Queue, Done, Idle, Busy
<1>2. (\A l \in Ticks \ {k} : job[l] = Idle) /\ \A d \in Deliveries : AtRest(d)
  BY <1>1, Alone
<1>3. \A d \in Deliveries : row'[d] = row[d] \/ (row[d] = None /\ row'[d].attempts = 0 /\ row'[d].status = "PENDING")
  <2>1. CASE Done(k)
    BY <2>1 DEF Done
  <2>2. CASE Queue(k)
    BY <1>1, <2>2 DEF Queue, TypeOK
  <2> QED BY <2>1, <2>2
<1>4. \A d \in Deliveries : AtRest(d)'
  <2> SUFFICES ASSUME NEW d \in Deliveries PROVE AtRest(d)'
    OBVIOUS
  <2>1. tries'[d] = tries[d] /\ mails'[d] = mails[d] /\ faults' = faults /\ Gone(d)' = Gone(d)
    BY DEF Queue, Done, Gone
  <2> QED BY <1>1, <1>2, <1>3, <2>1, Numbers DEF AtRest
<1>5. job'[k].op \in {"queue", "idle"} /\ \A l \in Ticks \ {k} : job'[l] = Idle
  <2>1. job[k] \in Jobs /\ job \in [Ticks -> Jobs]
    BY <1>1 DEF TypeOK
  <2>2. CASE Done(k)
    BY <1>2, <2>1, <2>2 DEF Done, Idle
  <2>3. CASE Queue(k)
    <3>1. job[k] \in [op : {"queue"}, todo : SUBSET Deliveries]
      BY <2>1, <2>3 DEF Queue, Jobs, Idle
    <3>2. \/ job' = [job EXCEPT ![k] = Idle]
          \/ \E d \in job[k].todo : job' = [job EXCEPT ![k] = [job[k] EXCEPT !.todo = job[k].todo \ {d}]]
      BY <2>1, <2>3 DEF Queue
    <3>3. \A d : [job[k] EXCEPT !.todo = job[k].todo \ {d}].op = "queue"
      BY <3>1
    <3>4. Idle.op = "idle"
      BY DEF Idle
    <3> QED BY <1>2, <2>1, <3>2, <3>3, <3>4
  <2> QED BY <2>2, <2>3
<1> QED BY <1>4, <1>5, OneAtWork DEF Busy

LEMMA ReadKeeps ==
  ASSUME OutboxInv, TypeOK', ~overlapped', NEW k \in Ticks, Read(k)
  PROVE  NoOverlap'
<1>1. TypeOK /\ GoneIsEmpty /\ ~overlapped /\ job[k] # Idle /\ ~Busy(k)
  BY DEF OutboxInv, Read, Idle, Busy
<1>2. (\A l \in Ticks \ {k} : job[l] = Idle) /\ \A d \in Deliveries : AtRest(d)
  BY <1>1, Alone
<1>3. \A d \in Deliveries : AtRest(d)'
  BY <1>2 DEF Read, AtRest, Gone
<1>4. \A d \in Deliveries : Waiting(d) => Ahead(d, row[d].attempts)'
  <2> SUFFICES ASSUME NEW d \in Deliveries, Waiting(d) PROVE Ahead(d, row[d].attempts)'
    OBVIOUS
  <2>1. row[d].status \in {"PENDING", "FAILED"} /\ row[d].attempts < MaxAttempts
    BY DEF Waiting
  <2>2. row[d] # None /\ ~Gone(d)
    BY <1>1, <2>1, Numbers DEF GoneIsEmpty
  <2>3. tries[d] <= row[d].attempts + faults /\ mails[d] <= faults
    BY <1>2, <2>1, <2>2 DEF AtRest
  <2> QED BY <2>1, <2>2, <2>3 DEF Read, Ahead, AsRead, Gone
<1>5. /\ job'[k] = [op |-> "send", todo |-> {<<d, row[d].attempts>> : d \in {e \in Deliveries : Waiting(e)}}]
      /\ \A l \in Ticks \ {k} : job'[l] = Idle
  BY <1>1, <1>2 DEF Read, TypeOK
<1>6. UNCHANGED row
  BY DEF Read
<1>7. \A e \in job'[k].todo : Ahead(e[1], e[2])'
  BY <1>4, <1>5, <1>6
<1>8. \A e, f \in job'[k].todo : e[1] = f[1] => e = f
  BY <1>5
<1>9. ~Busy(k)'
  BY <1>5 DEF Busy
<1> QED BY <1>3, <1>5, <1>7, <1>8, <1>9, OneAtWork

\* What a tick at work has before it, and in its hands.
LEMMA AtWork ==
  ASSUME OutboxInv, ~overlapped, NEW k \in Ticks, job[k].op \in {"send", "mark", "fail"}
  PROVE  /\ job[k] # Idle
         /\ job[k].todo \in SUBSET (Deliveries \X Nat)
         /\ \A e \in job[k].todo : Ahead(e[1], e[2])
         /\ \A e, f \in job[k].todo : e[1] = f[1] => e = f
         /\ Busy(k) => /\ job[k].now \in Deliveries \X Nat /\ InHand(k)
                       /\ \A e \in job[k].todo : e[1] # job[k].now[1]
<1>1. TypeOK /\ NoOverlap
  BY DEF OutboxInv
<1>2. job[k] \in Jobs
  BY <1>1 DEF TypeOK
<1>3. job[k] # Idle
  BY DEF Idle
<1>4. job[k].todo \in SUBSET (Deliveries \X Nat)
  BY <1>2, JobTypes
<1>5. Busy(k) => job[k].now \in Deliveries \X Nat
  BY <1>2, JobTypes DEF Busy
<1> QED BY <1>1, <1>3, <1>4, <1>5 DEF NoOverlap, WorkAhead, WorkInHand

LEMMA SendKeeps ==
  ASSUME OutboxInv, TypeOK', ~overlapped', NEW k \in Ticks, Send(k)
  PROVE  NoOverlap'
<1>1. TypeOK /\ ~overlapped /\ job[k].op = "send" /\ ~Busy(k)
  BY DEF OutboxInv, Send, Busy
<1>2. (\A l \in Ticks \ {k} : job[l] = Idle) /\ \A d \in Deliveries : AtRest(d)
  BY <1>1, Alone, AtWork
<1>3. PICK now \in job[k].todo :
        /\ tries' = [tries EXCEPT ![now[1]] = @ + 1]
        /\ \/ /\ mails' = [mails EXCEPT ![now[1]] = @ + 1]
              /\ Outcome(k, now, "mark") /\ UNCHANGED faults
           \/ Outcome(k, now, "fail") /\ UNCHANGED <<mails, faults>>
           \/ /\ faults' = faults + 1
              /\ mails' = [mails EXCEPT ![now[1]] = @ + 1]
              /\ Outcome(k, now, "fail")
  BY DEF Send
<1>4. now \in Deliveries \X Nat /\ Ahead(now[1], now[2])
  BY <1>1, AtWork
<1>5. PICK d \in Deliveries, n \in Nat : now = <<d, n>> /\ d = now[1] /\ n = now[2]
  BY <1>4
<1>6. PICK op \in {"mark", "fail"} :
        /\ job' = [job EXCEPT ![k] = [op |-> op, todo |-> job[k].todo \ {now}, now |-> now]]
        /\ op = "mark" => UNCHANGED faults
        /\ mails'[d] = mails[d] \/ (mails'[d] = mails[d] + 1 /\ (op = "mark" \/ faults' = faults + 1))
  BY <1>1, <1>3, <1>5 DEF Outcome, TypeOK
<1>7. job'[k] = [op |-> op, todo |-> job[k].todo \ {now}, now |-> now]
      /\ \A l \in Ticks \ {k} : job'[l] = Idle
  BY <1>1, <1>2, <1>6 DEF TypeOK
<1>8. \A c \in Deliveries \ {d} : Kept(c)
  BY <1>1, <1>3, <1>5, Numbers DEF Send, Kept, Gone, TypeOK
<1>9. faults' \in Nat /\ faults' >= faults /\ tries'[d] = tries[d] + 1
      /\ UNCHANGED row /\ Gone(d)' = Gone(d)
  BY <1>1, <1>3, <1>5, Numbers DEF Send, Gone, TypeOK
<1>10. \A e \in job'[k].todo : e \in job[k].todo /\ e[1] \in Deliveries \ {d} /\ e[2] \in Nat
  BY <1>1, <1>5, <1>7, AtWork
<1>11. \A e \in job'[k].todo : Ahead(e[1], e[2])'
  BY <1>1, <1>8, <1>10, AtWork, KeptIsKept
<1>12. InHand(k)'
  <2>1. n < MaxAttempts /\ tries[d] <= n + faults /\ mails[d] <= faults /\ AsRead(d, n)
    BY <1>4, <1>5 DEF Ahead
  <2>2. AsRead(d, n)'
    BY <1>9, <2>1 DEF AsRead
  <2>3. tries'[d] <= n + 1 + faults'
    BY <1>1, <1>9, <2>1, Numbers
  <2>4. mails'[d] <= (IF op = "fail" /\ ~Gone(d)' THEN faults' ELSE 1 + faults')
    BY <1>1, <1>6, <1>9, <2>1, Numbers
  <2>5. job'[k].op = op /\ job'[k].now[1] = d /\ job'[k].now[2] = n
    BY <1>5, <1>7
  <2> QED BY <2>1, <2>2, <2>3, <2>4, <2>5 DEF InHand
<1>13. \A c \in Deliveries : (Busy(k)' => job'[k].now[1] # c) => AtRest(c)'
  <2>1. Busy(k)' /\ job'[k].now[1] = d
    BY <1>5, <1>7 DEF Busy
  <2> QED BY <1>1, <1>2, <1>8, <2>1, KeptIsKept
<1>14. /\ \A e, f \in job'[k].todo : e[1] = f[1] => e = f
       /\ \A e \in job'[k].todo : e[1] # job'[k].now[1]
  BY <1>1, <1>5, <1>7, <1>10, AtWork
<1> QED BY <1>7, <1>11, <1>12, <1>13, <1>14, OneAtWork

LEMMA MarkSentKeeps ==
  ASSUME OutboxInv, TypeOK', ~overlapped', NEW k \in Ticks, MarkSent(k)
  PROVE  NoOverlap'
<1>1. TypeOK /\ GoneIsEmpty /\ ~overlapped /\ job[k].op = "mark" /\ Busy(k)
  BY DEF OutboxInv, MarkSent, Busy
<1>2. /\ job[k].todo \in SUBSET (Deliveries \X Nat)
      /\ \A e \in job[k].todo : Ahead(e[1], e[2]) /\ e[1] # job[k].now[1]
      /\ \A e, f \in job[k].todo : e[1] = f[1] => e = f
      /\ job[k].now \in Deliveries \X Nat /\ InHand(k) /\ job[k] # Idle
  BY <1>1, AtWork
<1>3. PICK d \in Deliveries, n \in Nat : d = job[k].now[1] /\ n = job[k].now[2]
  BY <1>2
<1>4. /\ \A l \in Ticks \ {k} : job[l] = Idle
      /\ \A c \in Deliveries \ {d} : AtRest(c)
  BY <1>1, <1>2, <1>3, Alone
<1>5. n < MaxAttempts /\ tries[d] <= n + 1 + faults /\ AsRead(d, n) /\ mails[d] <= 1 + faults
  BY <1>1, <1>2, <1>3 DEF InHand
<1>6. \A c \in Deliveries \ {d} : Kept(c)
  BY <1>1, <1>3, Numbers DEF MarkSent, Kept, Gone, TypeOK
<1>7. \A e \in job[k].todo : Ahead(e[1], e[2])'
  BY <1>1, <1>2, <1>3, <1>6, KeptIsKept
<1>8. \A c \in Deliveries \ {d} : AtRest(c)'
  BY <1>1, <1>4, <1>6, KeptIsKept
<1>9. tries' = tries /\ mails' = mails /\ Gone(d)' = Gone(d)
  BY DEF MarkSent, Gone
<1>10. CASE /\ row[d] # None /\ Onward(k) /\ UNCHANGED faults
            /\ row' = [row EXCEPT ![d].status = "SENT", ![d].attempts = @ + 1]
  <2>1. job'[k] = [op |-> "send", todo |-> job[k].todo] /\ \A l \in Ticks \ {k} : job'[l] = Idle
    BY <1>1, <1>4, <1>10 DEF Onward, TypeOK
  <2>2. row[d] \in Rows /\ row \in [Deliveries -> Rows]
    BY <1>1 DEF TypeOK
  <2>3. row'[d].attempts = row[d].attempts + 1 /\ row'[d].status = "SENT"
    BY <1>10, <2>2 DEF Rows
  <2>4. row[d].attempts = n
    BY <1>1, <1>5, <1>10 DEF AsRead, GoneIsEmpty
  <2>5. AtRest(d)'
    BY <1>1, <1>5, <1>9, <1>10, <2>3, <2>4, Numbers DEF AtRest
  <2>6. ~Busy(k)'
    BY <2>1 DEF Busy
  <2> QED BY <1>2, <1>7, <1>8, <2>1, <2>5, <2>6, OneAtWork
<1>11. CASE /\ row[d] = None \/ faults < MaxFaults
            /\ faults' = IF row[d] = None THEN faults ELSE faults + 1
            /\ job' = [job EXCEPT ![k].op = "fail"] /\ UNCHANGED row
  <2>1. job[k] \in [op : {"mark", "fail"}, todo : SUBSET (Deliveries \X Nat), now : Deliveries \X Nat]
    BY <1>1 DEF TypeOK, Jobs, Idle
  <2>2. job'[k] = [job[k] EXCEPT !.op = "fail"] /\ \A l \in Ticks \ {k} : job'[l] = Idle
    BY <1>1, <1>4, <1>11 DEF TypeOK
  <2>3. job'[k].op = "fail" /\ job'[k].todo = job[k].todo /\ job'[k].now = job[k].now
    BY <2>1, <2>2
  <2>4. AsRead(d, n)'
    BY <1>5, <1>9, <1>11 DEF AsRead
  <2>5. tries'[d] <= n + 1 + faults' /\ mails'[d] <= (IF ~Gone(d)' THEN faults' ELSE 1 + faults')
    BY <1>1, <1>5, <1>9, <1>11, Numbers DEF AsRead
  <2>6. InHand(k)'
    BY <1>3, <1>5, <2>3, <2>4, <2>5 DEF InHand
  <2>7. Busy(k)' /\ job'[k].now[1] = d
    BY <1>3, <2>3 DEF Busy
  <2>8. \A c \in Deliveries : (Busy(k)' => job'[k].now[1] # c) => AtRest(c)'
    BY <1>8, <2>7
  <2>9. /\ \A e \in job'[k].todo : Ahead(e[1], e[2])'
        /\ \A e, f \in job'[k].todo : e[1] = f[1] => e = f
        /\ \A e \in job'[k].todo : e[1] # job'[k].now[1]
    BY <1>2, <1>7, <2>3
  <2> QED BY <2>2, <2>6, <2>8, <2>9, OneAtWork
<1> QED BY <1>3, <1>10, <1>11 DEF MarkSent

LEMMA MarkFailedKeeps ==
  ASSUME OutboxInv, TypeOK', ~overlapped', NEW k \in Ticks, MarkFailed(k)
  PROVE  NoOverlap'
<1>1. TypeOK /\ GoneIsEmpty /\ ~overlapped /\ job[k].op = "fail" /\ Busy(k)
  BY DEF OutboxInv, MarkFailed, Busy
<1>2. /\ job[k].todo \in SUBSET (Deliveries \X Nat)
      /\ \A e \in job[k].todo : Ahead(e[1], e[2]) /\ e[1] # job[k].now[1]
      /\ \A e, f \in job[k].todo : e[1] = f[1] => e = f
      /\ job[k].now \in Deliveries \X Nat /\ InHand(k) /\ job[k] # Idle
  BY <1>1, AtWork
<1>3. PICK d \in Deliveries, n \in Nat : d = job[k].now[1] /\ n = job[k].now[2]
  BY <1>2
<1>4. /\ \A l \in Ticks \ {k} : job[l] = Idle
      /\ \A c \in Deliveries \ {d} : AtRest(c)
  BY <1>1, <1>2, <1>3, Alone
<1>5. /\ n < MaxAttempts /\ tries[d] <= n + 1 + faults /\ AsRead(d, n)
      /\ mails[d] <= 1 + faults /\ (~Gone(d) => mails[d] <= faults)
  BY <1>1, <1>2, <1>3, Numbers DEF InHand
<1>6. \A c \in Deliveries \ {d} : Kept(c)
  BY <1>1, <1>3, Numbers DEF MarkFailed, Kept, Gone, TypeOK
<1>7. \A e \in job[k].todo : Ahead(e[1], e[2])'
  BY <1>1, <1>2, <1>3, <1>6, KeptIsKept
<1>8. \A c \in Deliveries \ {d} : AtRest(c)'
  BY <1>1, <1>4, <1>6, KeptIsKept
<1>9. tries' = tries /\ mails' = mails /\ faults' = faults /\ Gone(d)' = Gone(d)
  BY DEF MarkFailed, Gone
<1>10. CASE row[d] = None /\ job' = [job EXCEPT ![k] = Idle]
  <2>1. \A l \in Ticks : job'[l] = Idle
    BY <1>1, <1>4, <1>10 DEF TypeOK
  <2>2. AtRest(d)'
    BY <1>1, <1>5, <1>9, <1>10, Numbers DEF AtRest, AsRead
  <2> QED BY <1>8, <2>1, <2>2, OneAtWork DEF Busy, Idle
<1>11. CASE row[d] # None /\ row' = [row EXCEPT ![d] = After(n)] /\ Onward(k)
  <2>1. job'[k] = [op |-> "send", todo |-> job[k].todo] /\ \A l \in Ticks \ {k} : job'[l] = Idle
    BY <1>1, <1>4, <1>11 DEF Onward, TypeOK
  <2>2. row'[d] = After(n)
    BY <1>1, <1>11 DEF TypeOK
  <2>3. ~Gone(d)
    BY <1>1, <1>11 DEF GoneIsEmpty
  <2>4. AtRest(d)'
    BY <1>1, <1>5, <1>9, <2>2, <2>3, Numbers DEF AtRest, After
  <2>5. ~Busy(k)'
    BY <2>1 DEF Busy
  <2> QED BY <1>2, <1>7, <1>8, <2>1, <2>4, <2>5, OneAtWork
<1> QED BY <1>3, <1>10, <1>11 DEF MarkFailed

\* Where every tick stops at the price of a fault, all is at rest.
LEMMA AllStop ==
  ASSUME OutboxInv, TypeOK', ~overlapped', faults' = faults + 1,
         NEW k \in Ticks, job[k] # Idle,
         job' = [l \in Ticks |-> Idle], UNCHANGED <<alert, row, tries, mails, overlapped>>
  PROVE  NoOverlap'
<1>1. TypeOK /\ NoOverlap /\ faults' = faults + 1
  BY DEF OutboxInv
<1>2. \A l \in Ticks : job'[l] = Idle /\ job'[l].op = "idle"
  BY DEF Idle
<1>3. \A d \in Deliveries : AtRest(d)'
  <2> SUFFICES ASSUME NEW d \in Deliveries PROVE AtRest(d)'
    OBVIOUS
  <2>1. UNCHANGED <<tries, mails, row>> /\ Gone(d)' = Gone(d)
    BY DEF Gone
  <2>2. CASE AtRest(d)
    BY <1>1, <2>1, <2>2, Numbers DEF AtRest
  <2>3. CASE Holds(d)
    <3>1. PICK l \in Ticks : Busy(l) /\ job[l].now[1] = d
      BY <2>3 DEF Holds
    <3>2. InHand(l) /\ job[l].now \in Deliveries \X Nat
      BY <1>1, <3>1, JobTypes DEF NoOverlap, WorkInHand, Busy, TypeOK
    <3>3. PICK n \in Nat : n = job[l].now[2]
      BY <3>2
    <3>4. n < MaxAttempts /\ tries[d] <= n + 1 + faults /\ AsRead(d, n) /\ mails[d] <= 1 + faults
      BY <1>1, <3>1, <3>2, <3>3, Numbers DEF InHand
    <3> QED BY <1>1, <2>1, <3>4, Numbers DEF AtRest, AsRead
  <2> QED BY <1>1, <2>2, <2>3 DEF NoOverlap, RestAtRest
<1> QED BY <1>2, <1>3, OneAtWork DEF Busy

LEMMA RestartKeeps ==
  ASSUME OutboxInv, TypeOK', ~overlapped', Restart
  PROVE  NoOverlap'
<1>1. PICK k \in Ticks : job[k] # Idle
  BY DEF Restart
<1>2. /\ job' = [l \in Ticks |-> Idle] /\ faults' = faults + 1
      /\ UNCHANGED <<alert, row, tries, mails, overlapped>>
  BY DEF Restart
<1> QED BY <1>1, <1>2, AllStop

LEMMA CutShortKeeps ==
  ASSUME OutboxInv, TypeOK', ~overlapped', NEW k \in Ticks, CutShort(k)
  PROVE  NoOverlap'
<1>1. TypeOK /\ NoOverlap /\ job[k] # Idle
  BY DEF OutboxInv, CutShort, Idle
<1>2. \A l \in Ticks \ {k} : job[l] = Idle
  BY <1>1 DEF NoOverlap, OneTick
<1>3. job' = [l \in Ticks |-> Idle]
  BY <1>1, <1>2 DEF CutShort, TypeOK
<1>4. faults' = faults + 1 /\ UNCHANGED <<alert, row, tries, mails, overlapped>>
  BY DEF CutShort
<1> QED BY <1>1, <1>3, <1>4, AllStop

LEMMA StepNoOverlap ==
  ASSUME OutboxInv, TypeOK', [Next]_vars, ~overlapped'
  PROVE  NoOverlap'
<1>1. TypeOK /\ GoneIsEmpty /\ (~overlapped => NoOverlap)
  BY DEF OutboxInv
<1>2. ASSUME NEW a \in Alerts, Raise(a) \/ Close(a) PROVE NoOverlap'
  <2>1. UNCHANGED <<job, tries, mails, faults, overlapped, row>>
    BY <1>2 DEF Raise, Close
  <2>2. \A d \in Deliveries : Gone(d) => Gone(d)'
    BY <1>1, <1>2 DEF Raise, Close, Gone, TypeOK, Deliveries
  <2>3. \A d \in Deliveries : Kept(d)
    BY <1>1, <2>1, <2>2, Numbers DEF Kept
  <2> QED BY <2>1, <2>3, AroundTheOutbox
<1>3. ASSUME NEW a \in Alerts, Delete(a) PROVE NoOverlap'
  <2>1. UNCHANGED <<job, tries, mails, faults, overlapped>>
    BY <1>3 DEF Delete
  <2>2. \A d \in Deliveries : IF d[1] = a THEN Gone(d)' ELSE row'[d] = row[d] /\ (Gone(d) => Gone(d)')
    BY <1>1, <1>3 DEF Delete, Gone, TypeOK, Deliveries
  <2>3. \A d \in Deliveries : Kept(d)
    BY <1>1, <2>1, <2>2, Numbers DEF Kept
  <2> QED BY <2>1, <2>3, AroundTheOutbox
<1>4. CASE Save \/ Outage \/ UNCHANGED vars
  <2>1. UNCHANGED <<job, tries, mails, faults, overlapped, row, alert>>
    BY <1>4 DEF Save, Outage, vars
  <2>2. \A d \in Deliveries : Kept(d)
    BY <1>1, <2>1, Numbers DEF Kept, Gone
  <2> QED BY <2>1, <2>2, AroundTheOutbox
<1>5. ASSUME NEW d \in Deliveries, Elapse(d) PROVE NoOverlap'
  <2>1. UNCHANGED <<job, tries, mails, faults, overlapped, alert>>
    BY <1>5 DEF Elapse
  <2>2. faults' \in Nat /\ faults' >= faults /\ \A c \in Deliveries : Gone(c) => Gone(c)'
    BY <1>1, <2>1, Numbers DEF Gone
  <2>3. \A c \in Deliveries : Kept(c)
    <3> SUFFICES ASSUME NEW c \in Deliveries PROVE Kept(c)
      OBVIOUS
    <3>1. tries'[c] = tries[c] /\ mails'[c] = mails[c]
      BY <2>1
    <3>2. /\ row'[c].attempts = row[c].attempts /\ row'[c].status = row[c].status
          /\ row[c] # None => row'[c] # None
      BY <1>1, <1>5, Numbers DEF Elapse, TypeOK, Rows
    <3> QED BY <2>2, <3>1, <3>2, Zenon DEF Kept
  <2> QED BY <2>1, <2>3, AroundTheOutbox
<1>6. CASE Restart
  BY <1>6, RestartKeeps
<1>7. ASSUME NEW k \in Ticks, Step(k) PROVE NoOverlap'
  BY <1>7, TickKeeps, QueueKeeps, ReadKeeps, SendKeeps, MarkSentKeeps, MarkFailedKeeps DEF Step
<1>8. ASSUME NEW k \in Ticks, CutShort(k) PROVE NoOverlap'
  BY <1>8, CutShortKeeps
<1> QED BY <1>2, <1>3, <1>4, <1>5, <1>6, <1>7, <1>8 DEF Next

\* A deleted alert has no deliveries left.
LEMMA StepGone ==
  ASSUME TypeOK, GoneIsEmpty, [Next]_vars
  PROVE  GoneIsEmpty'
<1> SUFFICES ASSUME NEW d \in Deliveries, Gone(d)' PROVE row'[d] = None
  BY DEF GoneIsEmpty
<1>1. ASSUME NEW a \in Alerts, Raise(a) \/ Close(a) PROVE row'[d] = None
  BY <1>1 DEF Raise, Close, Gone, GoneIsEmpty, TypeOK, Deliveries
<1>2. ASSUME NEW a \in Alerts, Delete(a) PROVE row'[d] = None
  BY <1>2 DEF Delete, Gone, GoneIsEmpty, TypeOK
<1>3. CASE Save \/ Outage \/ Restart \/ UNCHANGED vars
  BY <1>3 DEF Save, Outage, Restart, vars, Gone, GoneIsEmpty
<1>4. ASSUME NEW c \in Deliveries, Elapse(c) PROVE row'[d] = None
  BY <1>4, Numbers DEF Elapse, Gone, GoneIsEmpty, TypeOK
<1>5. ASSUME NEW k \in Ticks, Step(k) PROVE row'[d] = None
  <2>1. Gone(d) /\ row[d] = None
    BY <1>5 DEF Step, Tick, Queue, Read, Send, MarkSent, MarkFailed, Done, Gone, GoneIsEmpty
  <2>2. CASE Tick(k) \/ Read(k) \/ Send(k) \/ Done(k)
    BY <2>1, <2>2 DEF Tick, Read, Send, Done
  <2>3. CASE Queue(k)
    BY <2>1, <2>3 DEF Queue, TypeOK, Gone
  <2>4. CASE MarkSent(k)
    BY <2>1, <2>4 DEF MarkSent, TypeOK
  <2>5. CASE MarkFailed(k)
    BY <2>1, <2>5 DEF MarkFailed, TypeOK
  <2> QED BY <1>5, <2>2, <2>3, <2>4, <2>5 DEF Step
<1>6. ASSUME NEW k \in Ticks, CutShort(k) PROVE row'[d] = None
  BY <1>6 DEF CutShort, Gone, GoneIsEmpty
<1> QED BY <1>1, <1>2, <1>3, <1>4, <1>5, <1>6 DEF Next

\* A delivery is marked only after the mail has left.
LEMMA StepMailed ==
  ASSUME TypeOK, TypeOK', SentWasMailed, MarkedWasMailed, [Next]_vars
  PROVE  SentWasMailed' /\ MarkedWasMailed'
<1>j. job \in [Ticks -> Jobs] /\ \A l \in Ticks : job[l].op = "mark" => job[l].now[1] \in Deliveries
  BY JobTypes DEF TypeOK
<1>1. CASE /\ UNCHANGED mails
           /\ \A d \in Deliveries : row'[d].status = "SENT" => row[d].status = "SENT"
           /\ \A l \in Ticks : job'[l].op = "mark" => job'[l] = job[l]
  BY <1>1 DEF SentWasMailed, MarkedWasMailed
<1>2. ASSUME NEW a \in Alerts,
             Raise(a) \/ Close(a) \/ Delete(a) PROVE SentWasMailed' /\ MarkedWasMailed'
  BY <1>1, <1>2, Numbers DEF Raise, Close, Delete
<1>3. CASE Save \/ Outage \/ UNCHANGED vars
  BY <1>1, <1>3 DEF Save, Outage, vars
<1>4. CASE Restart
  BY <1>1, <1>4 DEF Restart, Idle
<1>5. ASSUME NEW d \in Deliveries, Elapse(d) PROVE SentWasMailed' /\ MarkedWasMailed'
  BY <1>1, <1>5, Numbers DEF Elapse, TypeOK, Rows
<1>6. ASSUME NEW k \in Ticks, Tick(k) \/ Read(k) \/ Done(k) PROVE SentWasMailed' /\ MarkedWasMailed'
  BY <1>1, <1>6, <1>j DEF Tick, Read, Done, Idle
<1>7. ASSUME NEW k \in Ticks, Queue(k) PROVE SentWasMailed' /\ MarkedWasMailed'
  <2>1. job[k] \in [op : {"queue"}, todo : SUBSET Deliveries]
    BY <1>7, <1>j DEF Queue, Jobs, Idle
  <2>2. /\ \A d \in Deliveries : row'[d] = row[d] \/ row'[d].status = "PENDING"
        /\ \/ job' = [job EXCEPT ![k] = Idle]
           \/ \E d \in job[k].todo : job' = [job EXCEPT ![k] = [job[k] EXCEPT !.todo = job[k].todo \ {d}]]
    BY <1>7, <1>j DEF Queue, TypeOK
  <2>4. \A l \in Ticks : job'[l].op = "mark" => job'[l] = job[l]
    <3>1. CASE job' = [job EXCEPT ![k] = Idle]
      BY <1>j, <3>1 DEF Idle
    <3>2. ASSUME NEW d \in job[k].todo,
                 job' = [job EXCEPT ![k] = [job[k] EXCEPT !.todo = job[k].todo \ {d}]]
          PROVE  \A l \in Ticks : job'[l].op = "mark" => job'[l] = job[l]
      <4>1. job'[k] = [job[k] EXCEPT !.todo = job[k].todo \ {d}]
        BY <1>j, <3>2
      <4>2. job'[k].op = "queue"
        BY <2>1, <4>1
      <4> QED BY <1>j, <3>2, <4>2
    <3> QED BY <2>2, <3>1, <3>2
  <2> QED BY <1>1, <1>7, <2>2, <2>4 DEF Queue
<1>8. ASSUME NEW k \in Ticks, Send(k) PROVE SentWasMailed' /\ MarkedWasMailed'
  <2>1. job[k].todo \in SUBSET (Deliveries \X Nat)
    BY <1>8, <1>j, JobTypes DEF Send
  <2>2. PICK now \in job[k].todo :
          \/ mails' = [mails EXCEPT ![now[1]] = @ + 1] /\ \E op \in {"mark", "fail"} : Outcome(k, now, op)
          \/ UNCHANGED mails /\ Outcome(k, now, "fail")
    BY <1>8 DEF Send
  <2>3. now[1] \in Deliveries /\ UNCHANGED row
    BY <1>8, <2>1 DEF Send
  <2>4. \A d \in Deliveries : mails'[d] \in Nat /\ mails'[d] >= mails[d]
    BY <2>2, <2>3, Numbers DEF TypeOK
  <2>5. SentWasMailed'
    BY <2>3, <2>4, Numbers DEF SentWasMailed
  <2>6. \A l \in Ticks \ {k} : job'[l] = job[l]
    BY <1>j, <2>2 DEF Outcome
  <2>7. job'[k].op = "mark" => job'[k].now[1] = now[1] /\ mails'[now[1]] = mails[now[1]] + 1
    BY <1>j, <2>2, <2>3 DEF Outcome, TypeOK
  <2>8. MarkedWasMailed'
    BY <1>j, <2>3, <2>4, <2>6, <2>7, Numbers DEF MarkedWasMailed
  <2> QED BY <2>5, <2>8
<1>9. ASSUME NEW k \in Ticks, MarkSent(k) PROVE SentWasMailed' /\ MarkedWasMailed'
  <2>1. job[k] \in [op : {"mark", "fail"}, todo : SUBSET (Deliveries \X Nat), now : Deliveries \X Nat]
        /\ job[k].op = "mark"
    BY <1>9, <1>j DEF MarkSent, Jobs, Idle
  <2>2. mails[job[k].now[1]] > 0 /\ UNCHANGED mails
    BY <1>9, <2>1 DEF MarkedWasMailed, MarkSent
  <2>3. \A d \in Deliveries : d # job[k].now[1] => row'[d] = row[d]
    BY <1>9 DEF MarkSent, TypeOK
  <2>4. job' = [job EXCEPT ![k] = [op |-> "send", todo |-> job[k].todo]]
        \/ job' = [job EXCEPT ![k] = [job[k] EXCEPT !.op = "fail"]]
    BY <1>9, <1>j DEF MarkSent, Onward
  <2>5. \A l \in Ticks : job'[l].op = "mark" => job'[l] = job[l]
    <3>1. CASE job' = [job EXCEPT ![k] = [op |-> "send", todo |-> job[k].todo]]
      BY <1>j, <3>1
    <3>2. CASE job' = [job EXCEPT ![k] = [job[k] EXCEPT !.op = "fail"]]
      <4>1. job'[k] = [job[k] EXCEPT !.op = "fail"]
        BY <1>j, <3>2
      <4>2. job'[k].op = "fail"
        BY <2>1, <4>1
      <4> QED BY <1>j, <3>2, <4>2
    <3> QED BY <2>4, <3>1, <3>2
  <2> QED BY <2>2, <2>3, <2>5 DEF SentWasMailed, MarkedWasMailed
<1>10. ASSUME NEW k \in Ticks, MarkFailed(k) PROVE SentWasMailed' /\ MarkedWasMailed'
  <2>1. job[k].now \in Deliveries \X Nat
    BY <1>10, <1>j, JobTypes DEF MarkFailed
  <2>2. \A d \in Deliveries : row'[d].status = "SENT" => row[d].status = "SENT"
    BY <1>10, <2>1 DEF MarkFailed, After, TypeOK
  <2>3. \A l \in Ticks : job'[l].op = "mark" => job'[l] = job[l]
    BY <1>10, <1>j DEF MarkFailed, Onward, Idle
  <2> QED BY <1>1, <1>10, <2>2, <2>3 DEF MarkFailed
<1>11. ASSUME NEW k \in Ticks, CutShort(k) PROVE SentWasMailed' /\ MarkedWasMailed'
  BY <1>1, <1>11, <1>j DEF CutShort, Idle
<1> QED BY <1>2, <1>3, <1>4, <1>5, <1>6, <1>7, <1>8, <1>9, <1>10, <1>11 DEF Next, Step

LEMMA Inductive == Spec => []OutboxInv
<1>1. Init => OutboxInv
  <2> SUFFICES ASSUME Init, TypeOK PROVE OutboxInv
    <3>1. Init => TypeOK
      BY InitType
    <3> QED BY <3>1
  <2>1. GoneIsEmpty /\ SentWasMailed
    BY Numbers DEF Init, GoneIsEmpty, SentWasMailed
  <2>2. \A k \in Ticks : job[k] = Idle /\ job[k].op = "idle"
    BY DEF Init, Idle
  <2>3. \A d \in Deliveries : AtRest(d)
    BY Numbers DEF Init, AtRest, None
  <2>4. NoOverlap
    BY <2>2, <2>3 DEF NoOverlap, OneTick, WorkAhead, WorkInHand, RestAtRest, Busy
  <2> QED BY <2>1, <2>2, <2>4 DEF OutboxInv, MarkedWasMailed
<1>2. OutboxInv /\ [Next]_vars => OutboxInv'
  <2> SUFFICES ASSUME OutboxInv, [Next]_vars PROVE OutboxInv'
    OBVIOUS
  <2>1. TypeOK /\ GoneIsEmpty /\ SentWasMailed /\ MarkedWasMailed
    BY DEF OutboxInv
  <2>2. TypeOK'
    BY <2>1, StepType
  <2>3. GoneIsEmpty'
    BY <2>1, StepGone
  <2>4. SentWasMailed' /\ MarkedWasMailed'
    BY <2>1, <2>2, StepMailed
  <2>5. ~overlapped' => NoOverlap'
    BY <2>2, StepNoOverlap
  <2> QED BY <2>2, <2>3, <2>4, <2>5 DEF OutboxInv
<1> QED BY <1>1, <1>2, PTL DEF Spec

\* What the outbox shows as SENT was sent, whatever ticks overlap and whatever
\* is lost (process lines 154-183).
THEOREM SentIsMailed == Spec => []SentWasMailed
<1>1. OutboxInv => SentWasMailed
  BY DEF OutboxInv
<1> QED BY <1>1, Inductive, PTL

\* A second mail, and a sixth attempt, need a fault or an overlap of ticks
\* (process lines 124-183).
THEOREM RepeatsAreFaults == Spec => []RepeatsNeedFaults
<1>1. OutboxInv => RepeatsNeedFaults
  <2> SUFFICES ASSUME OutboxInv, ~overlapped, NEW d \in Deliveries
               PROVE  mails[d] <= 1 + faults /\ tries[d] <= MaxAttempts + faults
    BY DEF RepeatsNeedFaults
  <2>1. TypeOK /\ NoOverlap
    BY DEF OutboxInv
  <2>2. CASE ~Holds(d)
    BY <2>1, <2>2 DEF NoOverlap, RestAtRest, AtRest
  <2>3. CASE Holds(d)
    <3>1. PICK k \in Ticks : Busy(k) /\ job[k].now[1] = d
      BY <2>3 DEF Holds
    <3>2. InHand(k) /\ job[k].now \in Deliveries \X Nat
      BY <2>1, <3>1, JobTypes DEF NoOverlap, WorkInHand, Busy, TypeOK
    <3>3. PICK n \in Nat : n = job[k].now[2]
      BY <3>2
    <3> QED BY <2>1, <3>1, <3>2, <3>3, Numbers DEF InHand
  <2> QED BY <2>2, <2>3
<1> QED BY <1>1, Inductive, PTL
=============================================================================
