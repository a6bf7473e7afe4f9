--------------------------- MODULE DirectorySync -----------------------------
(***************************************************************************)
(* Synchronisation of accounts, people and Microsoft licences with one     *)
(* directory (directory.service).  A run fetches the listing, then writes  *)
(* it entry by entry, a statement at a time and in no transaction, and     *)
(* ends with the licences; meanwhile the directory goes on changing, calls *)
(* and statements fail, and the API may be restarted.  A run's place in    *)
(* `running' keeps two runs apart, but not a run from a licence            *)
(* synchronisation asked for by hand.                                      *)
(***************************************************************************)
EXTENDS Naturals

CONSTANTS
  Ids,        \* entries of the directory, by external id
  Staff,      \* those who are listed, enabled, throughout: a bound
  SyncDisabled, \* directory_configurations.syncDisabled
  MaxFaults,  \* failed calls and statements, and restarts, in view: a bound
  None

VARIABLES
  directory,  \* what the directory says of each entry
  user, person, \* status of the account and of the person of each entry
  licence,    \* microsoft_license_assignments of the product in view
  work,       \* the run, and the licence synchronisation by hand
  faults

vars == <<directory, user, person, licence, work, faults>>
-----------------------------------------------------------------------------
\* An entry may lack its name or its address: it is listed, but incomplete.
Entries  == {"none", "enabled", "disabled", "incomplete", "left"}
Status   == {"none", "ACTIVE", "INACTIVE"}
Listed   == {i \in Ids : directory[i] \in {"enabled", "disabled", "incomplete"}}
Complete == {i \in Listed : directory[i] # "incomplete"}
Enabled  == {i \in Ids : directory[i] = "enabled"}

\* What a worker has before it: where it is, the entries it still has to
\* write, all those it was given, and those of them that are enabled.
Idle == [at |-> "idle", todo |-> {}, seen |-> {}, enabled |-> {}, of |-> None]
Works == [at : {"idle", "create", "held", "fetch", "entries", "person", "people", "ask",
                "licences"},
          todo : SUBSET Ids, seen : SUBSET Ids, enabled : SUBSET Ids,
          of : Ids \cup {None}]
At(at) == [Idle EXCEPT !.at = at]

Init ==
  /\ directory = [i \in Ids |-> IF i \in Staff THEN "enabled" ELSE "none"]
  /\ user = [i \in Ids |-> "none"] /\ person = [i \in Ids |-> "none"] /\ licence = {}
  /\ work = [w \in {"run", "hand"} |-> Idle]
  /\ faults = 0

Turn(w, next) == work' = [work EXCEPT ![w] = next]
Run == work["run"]
-----------------------------------------------------------------------------
\* People join, are disabled and enabled, lose a field and get it back, and
\* leave for good; everybody who is listed holds the product.
Entry(i) ==
  /\ \/ directory[i] \in {"none", "disabled", "incomplete"}
          /\ directory' = [directory EXCEPT ![i] = "enabled"]
     \/ \E e \in {"disabled", "incomplete"} :
          directory[i] = "enabled" /\ directory' = [directory EXCEPT ![i] = e]
     \/ i \in Listed /\ directory' = [directory EXCEPT ![i] = "left"]
  /\ UNCHANGED <<user, person, licence, work, faults>>
-----------------------------------------------------------------------------
\* runDueSyncs or the button; the configuration is read at the start, and the
\* provider's place in `running' is taken.
Begin ==
  /\ Run.at = "idle" /\ Turn("run", At("create"))
  /\ UNCHANGED <<directory, user, person, licence, faults>>

\* The row of the run is inserted before the try that frees the place: an
\* insert that fails leaves the place taken until the API is restarted.
CreateRow ==
  /\ Run.at = "create" /\ Turn("run", At("fetch"))
  /\ UNCHANGED <<directory, user, person, licence, faults>>

HoldPlace ==
  /\ faults < MaxFaults /\ Run.at = "create"
  /\ faults' = faults + 1 /\ Turn("run", At("held"))
  /\ UNCHANGED <<directory, user, person, licence>>

\* Incomplete entries are passed over, and count as not listed.
Fetch ==
  /\ Run.at = "fetch"
  /\ Turn("run", [Run EXCEPT !.at = "entries", !.todo = Complete, !.seen = Complete,
                             !.enabled = Enabled])
  /\ UNCHANGED <<directory, user, person, licence, faults>>

\* An entry that is disabled is only marked, unless those are kept in step
\* too. Any other is passed over when its address or code is another's.
OnlyMarked(i) == i \notin Run.enabled /\ ~SyncDisabled
StatusOf(i)   == IF i \in Run.enabled THEN "ACTIVE" ELSE "INACTIVE"

Upcoming(w, i) == i = CHOOSE j \in work[w].todo : TRUE   \* in the order of the listing

PassOver(i) ==
  /\ Run.at = "entries" /\ i \in Run.todo /\ Upcoming("run", i)
  /\ OnlyMarked(i) => user[i] # "ACTIVE"
  /\ Turn("run", [Run EXCEPT !.todo = @ \ {i}])
  /\ UNCHANGED <<directory, user, person, licence, faults>>

WriteUser(i) ==
  /\ Run.at = "entries" /\ i \in Run.todo /\ Upcoming("run", i)
  /\ OnlyMarked(i) => user[i] = "ACTIVE"
  /\ user' = [user EXCEPT ![i] = StatusOf(i)]
  /\ Turn("run", [Run EXCEPT !.todo = @ \ {i}, !.at = "person", !.of = i])
  /\ UNCHANGED <<directory, person, licence, faults>>

\* One that is only marked has a person or not; otherwise the person is made
\* or updated, or left as it was if its address or code is another's.
WritePerson ==
  /\ Run.at = "person"
  /\ LET i == Run.of IN
       \/ person' = [person EXCEPT ![i] = IF OnlyMarked(i) /\ @ = "none" THEN @ ELSE StatusOf(i)]
       \/ ~OnlyMarked(i) /\ UNCHANGED person
  /\ Turn("run", [Run EXCEPT !.at = "entries", !.of = None])
  /\ UNCHANGED <<directory, user, licence, faults>>

\* Who was not listed in full is inactive, account first and person after; a
\* listing without one complete entry is not believed.
Without(status) ==
  [i \in Ids |-> IF Run.seen # {} /\ i \notin Run.seen /\ status[i] = "ACTIVE"
                 THEN "INACTIVE" ELSE status[i]]

MissingUsers ==
  /\ Run.at = "entries" /\ Run.todo = {}
  /\ user' = Without(user)
  /\ Turn("run", [At("people") EXCEPT !.seen = Run.seen])
  /\ UNCHANGED <<directory, person, licence, faults>>

MissingPeople ==
  /\ Run.at = "people"
  /\ person' = Without(person)
  /\ Turn("run", At("ask"))
  /\ UNCHANGED <<directory, user, licence, faults>>
-----------------------------------------------------------------------------
\* syncMicrosoftLicenses, at the end of a run or by hand.
ByHand ==
  /\ work["hand"].at = "idle" /\ Turn("hand", At("ask"))
  /\ UNCHANGED <<directory, user, person, licence, faults>>

Ask(w) ==
  /\ work[w].at = "ask"
  /\ Turn(w, [At("licences") EXCEPT !.todo = Listed, !.seen = Listed])
  /\ UNCHANGED <<directory, user, person, licence, faults>>

WriteLicence(w, i) ==
  /\ work[w].at = "licences" /\ i \in work[w].todo /\ Upcoming(w, i)
  /\ licence' = licence \cup {i}
  /\ Turn(w, [work[w] EXCEPT !.todo = @ \ {i}])
  /\ UNCHANGED <<directory, user, person, faults>>

\* Whoever was not listed loses the row; here an empty listing is believed.
Sweep(w) ==
  /\ work[w].at = "licences" /\ work[w].todo = {}
  /\ licence' = licence \cap work[w].seen
  /\ Turn(w, Idle)
  /\ UNCHANGED <<directory, user, person, faults>>
-----------------------------------------------------------------------------
\* Where a throw is caught: a call that fails, or a statement half-way, ends the
\* work as FAILED and frees its place. Mutant: the place stays taken.
Caught(w) == work[w].at \notin {"idle", "create", "held"}
FailHeld(w) ==
  /\ faults < MaxFaults /\ Caught(w)
  /\ faults' = faults + 1 /\ Turn(w, At("failed"))
  /\ UNCHANGED <<directory, user, person, licence>>
Fail(w) ==
  /\ faults < MaxFaults /\ Caught(w)
  /\ faults' = faults + 1 /\ Turn(w, Idle)
  /\ UNCHANGED <<directory, user, person, licence>>

Restart ==
  /\ faults < MaxFaults
  /\ faults' = faults + 1
  /\ work' = [w \in {"run", "hand"} |-> Idle]
  /\ UNCHANGED <<directory, user, person, licence>>
-----------------------------------------------------------------------------
Working ==
  \/ Begin \/ CreateRow \/ Fetch \/ WritePerson \/ MissingUsers \/ MissingPeople
  \/ \E i \in Ids : PassOver(i) \/ WriteUser(i)
  \/ Ask("run") \/ Sweep("run") \/ \E i \in Ids : WriteLicence("run", i)
HandWorking == Ask("hand") \/ Sweep("hand") \/ \E i \in Ids : WriteLicence("hand", i)

Next ==
  \/ \E i \in Ids \ Staff : Entry(i)
  \/ Working \/ HandWorking \/ ByHand
  \/ \E w \in {"run", "hand"} : Fail(w)
  \/ HoldPlace \/ Restart

\* The timer goes off every minute; work that was begun goes on.
Fairness == WF_vars(Working) /\ WF_vars(HandWorking)
Spec == Init /\ [][Next]_vars /\ Fairness
-----------------------------------------------------------------------------
TypeOK ==
  /\ directory \in [Ids -> Entries]
  /\ user \in [Ids -> Status] /\ person \in [Ids -> Status] /\ licence \subseteq Ids
  /\ work \in [{"run", "hand"} -> Works]
  /\ faults \in 0 .. MaxFaults

(***************************************************************************)
(* Whoever leaves the directory ends up inactive, as an account and as     *)
(* somebody assets are given to, and holds no licence in the register;     *)
(* whoever is disabled for good has an inactive account, and an entry that *)
(* stays incomplete is treated as one who left, but for the licence.  So   *)
(* it is whatever was cut off half-way, as long as the directory lists     *)
(* anybody in full and no run holds its place without running.             *)
(***************************************************************************)
Followed    == Complete # {} /\ Run.at # "held"
Inactive(i) == user[i] # "ACTIVE" /\ person[i] # "ACTIVE"

LeaversGo ==
  \A i \in Ids :
    /\ <>[](directory[i] = "left" /\ Followed => Inactive(i) /\ i \notin licence)
    /\ <>[](directory[i] = "disabled" /\ ~SyncDisabled)
         => <>[](Followed => user[i] # "ACTIVE")
    /\ <>[](directory[i] = "incomplete") => <>[](Followed => Inactive(i))

\* What src/docs/DIRECTORY_SYNC.md:66 says, with no exception: who is missing
\* from the directory becomes inactive. It does not hold: a run whose row could
\* not be inserted keeps every later run out.
WhoLeavesIsInactive ==
  \A i \in Ids : <>[](directory[i] = "left" /\ Complete # {} => user[i] # "ACTIVE")
=============================================================================
