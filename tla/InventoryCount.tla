--------------------------- MODULE InventoryCount ---------------------------
(***************************************************************************)
(* One stock count (inventory.service): the assets of its scope with what  *)
(* the register says of each, scanned one by one, then closed, cancelled   *)
(* or deleted.  create, scan and close are SERIALIZABLE: each works on the *)
(* snapshot it took and is refused when another of them committed          *)
(* meanwhile.  cancel and remove check outside their transaction, which is *)
(* READ COMMITTED, and the assets go on moving.                            *)
(***************************************************************************)
EXTENDS Naturals

CONSTANTS
  Assets,    \* assets of the register, none archived
  Scope,     \* those in the scope the count was asked for
  Locations, People,
  Clerks,    \* requests that may be under way at once
  None

ASSUME CountAssumption ==
  Scope \subseteq Assets /\ Scope # {} /\ None \notin Locations \cup People

VARIABLES
  session,  \* status of the inventory_sessions row
  item,     \* inventory_items of the session
  book,     \* where the register has each asset
  events,   \* INVENTORIED rows of asset_history, by asset
  job       \* what each request has read

vars == <<session, item, book, events, job>>
-----------------------------------------------------------------------------
Places  == [location : Locations \cup {None}, custodian : People \cup {None}]
Nowhere == [location |-> None, custodian |-> None]
Results == {"PENDING", "MATCHED", "LOCATION_MISMATCH", "CUSTODIAN_MISMATCH",
            "UNEXPECTED", "MISSING"}

\* No row: the asset was neither in scope nor scanned.
NoItem == [result |-> "NONE", expected |-> Nowhere, observed |-> Nowhere]
Items  == [result : Results, expected : Places, observed : Places] \cup {NoItem}

Idle == [op |-> "idle"]
Jobs == {Idle}
  \cup [op : {"scan"}, asset : Assets, row : Items, doomed : BOOLEAN]
  \cup [op : {"close"}, rows : SUBSET Assets, doomed : BOOLEAN]
  \cup [op : {"cancel", "remove"}]

Present == {a \in Assets : item[a] # NoItem}

\* The custodian is compared before the location.
inventoryResult(row, observed) ==
  IF row = NoItem THEN "UNEXPECTED"
  ELSE IF row.expected.custodian # observed.custodian THEN "CUSTODIAN_MISMATCH"
  ELSE IF row.expected.location # observed.location THEN "LOCATION_MISMATCH"
  ELSE "MATCHED"

Init ==
  /\ session = "none"
  /\ item = [a \in Assets |-> NoItem]
  /\ book \in [Assets -> {p \in Places : p.location # None}]
  /\ events = [a \in Assets |-> 0]
  /\ job = [k \in Clerks |-> Idle]
-----------------------------------------------------------------------------
(***************************************************************************)
(* k ends; the open transactions `hit` cannot commit any more. Mutant: no  *)
(* conflict is noticed, as under READ COMMITTED.                           *)
(***************************************************************************)
FinishUnnoticed(k, hit) == [job EXCEPT ![k] = Idle]
Finish(k, hit) ==
  [c \in Clerks |-> IF c = k THEN Idle
                    ELSE IF c \in hit THEN [job[c] EXCEPT !.doomed = TRUE] ELSE job[c]]

Doing(ops) == {k \in Clerks : job[k].op \in ops}
ScansOf(a) == {k \in Doing({"scan"}) : job[k].asset = a}

\* Nobody sees the session before it commits.
Create ==
  /\ session = "none" /\ session' = "OPEN"
  /\ item' = [a \in Assets |-> IF a \in Scope
                THEN [result |-> "PENDING", expected |-> book[a], observed |-> Nowhere]
                ELSE NoItem]
  /\ UNCHANGED <<book, events, job>>

\* The lifecycle takes no notice of the count.
Move(a) ==
  /\ \E p \in Places : p.location # None /\ p # book[a] /\ book' = [book EXCEPT ![a] = p]
  /\ UNCHANGED <<session, item, events, job>>

(***************************************************************************)
(* scan. What the request leaves out is taken from the register; `found`   *)
(* FALSE reports the asset as missing.                                     *)
(***************************************************************************)
Observed(a, location, custodian) ==
  [location  |-> IF location = None THEN book[a].location ELSE location,
   custodian |-> IF custodian = None THEN book[a].custodian ELSE custodian]

Scanned(a, found, location, custodian) ==
  LET seen == IF found THEN Observed(a, location, custodian) ELSE Nowhere IN
  [expected |-> item[a].expected, observed |-> seen,
   result |-> IF found THEN inventoryResult(item[a], seen) ELSE "MISSING"]

ScanRead(k, a) ==
  /\ job[k] = Idle /\ session = "OPEN"
  /\ \E found \in BOOLEAN, l \in Locations \cup {None}, p \in People \cup {None} :
       /\ found \/ (l = None /\ p = None)
       /\ job' = [job EXCEPT ![k] = [op |-> "scan", asset |-> a, doomed |-> FALSE,
                                     row |-> Scanned(a, found, l, p)]]
  /\ UNCHANGED <<session, item, book, events>>

ScanCommit(k) ==
  /\ job[k].op = "scan"
  /\ IF job[k].doomed THEN job' = Finish(k, {}) /\ UNCHANGED item
     ELSE /\ item' = [item EXCEPT ![job[k].asset] = job[k].row]
          /\ job' = Finish(k, ScansOf(job[k].asset) \cup Doing({"close"}))
  /\ UNCHANGED <<session, book, events>>

\* close: what was not seen is missing, and each item it read gets an event.
CloseRead(k) ==
  /\ job[k] = Idle /\ session = "OPEN"
  /\ job' = [job EXCEPT ![k] = [op |-> "close", rows |-> Present, doomed |-> FALSE]]
  /\ UNCHANGED <<session, item, book, events>>

CloseCommit(k) ==
  /\ job[k].op = "close"
  /\ IF job[k].doomed THEN job' = Finish(k, {}) /\ UNCHANGED <<session, item, events>>
     ELSE /\ session' = "CLOSED"
          /\ item' = [a \in Assets |-> IF item[a].result = "PENDING"
                        THEN [item[a] EXCEPT !.result = "MISSING"] ELSE item[a]]
          /\ events' = [a \in Assets |-> IF a \in job[k].rows THEN events[a] + 1 ELSE events[a]]
          /\ job' = Finish(k, Doing({"scan", "close"}))
  /\ UNCHANGED book

\* cancel and remove: what was read may be over. Only close writes the row
\* that cancel writes, and so only close is refused.
CancelRead(k) ==
  /\ job[k] = Idle /\ session = "OPEN"
  /\ job' = [job EXCEPT ![k] = [op |-> "cancel"]]
  /\ UNCHANGED <<session, item, book, events>>

CancelCommit(k) ==
  /\ job[k].op = "cancel"
  /\ session' = IF session = "deleted" THEN session ELSE "CANCELLED"
  /\ job' = Finish(k, Doing({"close"}))
  /\ UNCHANGED <<item, book, events>>

RemoveRead(k) ==
  /\ job[k] = Idle /\ session \in {"OPEN", "CLOSED", "CANCELLED"}
  /\ job' = [job EXCEPT ![k] = [op |-> "remove"]]
  /\ UNCHANGED <<session, item, book, events>>

RemoveCommit(k) ==
  /\ job[k].op = "remove"
  /\ session' = "deleted" /\ item' = [a \in Assets |-> NoItem]
  /\ job' = Finish(k, Doing({"scan", "close"}))
  /\ UNCHANGED <<book, events>>
-----------------------------------------------------------------------------
Next ==
  \/ Create
  \/ \E a \in Assets : Move(a)
  \/ \E k \in Clerks : \/ \E a \in Assets : ScanRead(k, a)
                       \/ ScanCommit(k) \/ CloseRead(k) \/ CloseCommit(k)
                       \/ CancelRead(k) \/ CancelCommit(k)
                       \/ RemoveRead(k) \/ RemoveCommit(k)

Spec == Init /\ [][Next]_vars
-----------------------------------------------------------------------------
TypeOK ==
  /\ session \in {"none", "OPEN", "CLOSED", "CANCELLED", "deleted"}
  /\ item \in [Assets -> Items]
  /\ book \in [Assets -> Places]
  /\ events \in [Assets -> Nat]
  /\ job \in [Clerks -> Jobs]

(***************************************************************************)
(* src/docs/INVENTORY_IMPORT_API.md:16: closing marks what was not scanned *)
(* MISSING and appends one event per item. So a closed count has no item   *)
(* pending, and an event for each of its items and no other, however scans *)
(* and closes met.                                                         *)
(***************************************************************************)
EachItemCountedOnce ==
  session = "CLOSED" =>
    \A a \in Assets : /\ item[a].result # "PENDING"
                      /\ events[a] = (IF a \in Present THEN 1 ELSE 0)

(***************************************************************************)
(* A closed count is evidence: no scan that was under way changes it.      *)
(***************************************************************************)
ClosedCountStands ==
  [][session = "CLOSED" => item' = item \/ session' = "deleted"]_vars
=============================================================================
