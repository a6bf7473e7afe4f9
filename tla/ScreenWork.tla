----------------------------- MODULE ScreenWork -----------------------------
(***************************************************************************)
(* One screen of the web client at work: what the browser shows, the       *)
(* handlers that await their calls, and the records behind the API, which  *)
(* others change meanwhile.  Calls are served and answered one by one and  *)
(* in any order; nothing in the client orders answers or drops old ones.   *)
(***************************************************************************)
EXTENDS ScreenSteps

CONSTANTS
  Screens,     \* the screens, by name
  Ids, Hands,  \* records; handlers that may run at once
  Unmirrored,  \* commands, with their screen, that are offered to whom they are refused
  Unguarded,   \* forms, with their screen, that no busy flag keeps from being sent twice
  MaxEvents,   \* presses, clicks, losses and writes of others in a behaviour
  None

-----------------------------------------------------------------------------
(***************************************************************************)
(* What the pages have in common, and what their promises rest on.         *)
(***************************************************************************)
PageNames == DOMAIN Screens
CommandsOf(page) == {page.commands[name] : name \in DOMAIN page.commands}
RunsOf(page) == {page.opens} \cup {c.run : c \in CommandsOf(page)}
CallsOf(page) == UNION {{run[n] : n \in DOMAIN run} : run \in RunsOf(page)}

\* The statuses a record of the page may have.
Known(page) == page.statuses \cup {Absent, Gone}

Typed(page) ==
  /\ page.roles \subseteq Everybody /\ page.statuses \cap {Absent, Gone, None} = {}
  /\ page.opens \in Seq(CallType(Known(page)))
  /\ \A n \in DOMAIN page.opens : ~Writing(page.opens[n])
  /\ page.kind \in {"fetched", "copied", "beside", "chosen", "live", "place", "own", "none"}
  /\ page.sweeps \in BOOLEAN
  /\ \A c \in CommandsOf(page) : c \in CommandType(Known(page))
  /\ DOMAIN page.commands \cap {"open", "load", None} = {}

\* No route brings a record back; a list comes from a load, a drawer is shown
\* what a call about its record answers, and a row is patched with what was written.
Orderly(page) ==
  /\ \A call \in CallsOf(page) :
       /\ \A move \in call.route.moves : move[1] # Gone /\ move[2] # Absent
       /\ Does(call, {"list"}) => call.ask \in {"lists", "reload"}
       /\ Does(call, {"show"}) => About(call)
       /\ Does(call, {"patch"}) => Writing(call)
       /\ call.ask = "peek" => call.then \subseteq {"show"}
  /\ \A run \in RunsOf(page) : \A n \in DOMAIN run :
       /\ run[n].ask = "always" => n = Len(run)
       /\ page.sweeps /\ Does(run[n], {"drop"}) => run[1].ask = "local"

\* A form writes before it does anything to the page.
WritesFirst(c) == \A n \in DOMAIN c.run :
  c.run[n].ask # "always" /\ (c.run[n].then # {} => \E m \in 1 .. n : Writing(c.run[m]))

\* A form that makes a record is cleared when it is sent, or holds a flag
\* until it is shut, which no fetch that fails can keep it from.
SentOnce(c) ==
  \/ c.blind
  \/ /\ c.busy # "none"
     /\ \A n \in DOMAIN c.run : Writing(c.run[n]) =>
          \E m \in DOMAIN c.run :
            /\ m >= n /\ Does(c.run[m], {"shut"})
            /\ \A k \in n .. m : c.run[k].ask # "fetch"

\* What is offered passes at the API, in the status the calls before have left.
Mirrors(role, c) == \A n \in DOMAIN c.run : Writing(c.run[n]) =>
  LET route == c.run[n].route
      moved == \E m \in 1 .. n - 1 : c.run[m].ask = "move" IN
  \/ role \in route.hidden
  \/ /\ role \in route.by
     /\ \A move \in c.moves :
          LET from == IF moved THEN move[2] ELSE move[1] IN
          <<from, IF c.run[n].ask = "move" THEN move[2] ELSE from>> \in route.moves

\* A write is followed by what brings it into the list, and a deletion is
\* not held up by a fetch of what it deleted.
Relists(c) ==
  /\ \A n \in DOMAIN c.run :
       Writing(c.run[n]) /\ c.run[n].ask # "inner" => Follows(c.run, n, {"list", "patch"})
  /\ Deletes(c) => \A n \in DOMAIN c.run : c.run[n].ask # "fetch"

\* And into the drawer, unless the record was just made: the drawer follows
\* the list, or the record is shown, or the drawer left.  After a deletion it is left.
Redraws(page, c) ==
  CASE page.kind = "none" -> \A n \in DOMAIN c.run : ~Does(c.run[n], {"show"})
    [] page.kind \in {"live", "place"} -> \A n \in DOMAIN c.run :
         /\ c.run[n].ask # "inner"
         /\ Does(c.run[n], {"show"}) => Does(c.run[n], {"patch"}) /\ ~Deletes(c)
    [] OTHER -> \A n \in DOMAIN c.run : Writing(c.run[n]) =>
         \/ Deletes(c) /\ Follows(c.run, IF page.kind = "own" THEN Len(c.run) ELSE n, {"leave"})
         \/ /\ ~Deletes(c)
            /\ \/ Follows(c.run, n, {"show", "leave"})
               \/ /\ \A move \in c.moves : move[1] = Absent
                  /\ \A m \in 1 .. n - 1 : ~Writing(c.run[m])

ASSUME WorkAssumption ==
  /\ MaxEvents \in Nat /\ None \notin Ids \cup {"open", "load", Absent, Gone}
  /\ \A p \in PageNames : LET page == Screens[p] IN
       /\ Typed(page) /\ Orderly(page)
       /\ page.kind = "own" => Follows(page.opens, 1, {"show"})
       /\ page.kind \in {"live", "place", "none"} =>
            \A n \in DOMAIN page.opens : ~Does(page.opens[n], {"show"})
       /\ \A name \in DOMAIN page.commands : LET c == page.commands[name] IN
            /\ IsForm(c) => WritesFirst(c)
            /\ IsForm(c) /\ Creates(c) /\ <<p, name>> \notin Unguarded => SentOnce(c)
            /\ <<p, name>> \notin Unmirrored => \A role \in c.by \cap page.roles : Mirrors(role, c)
            /\ Relists(c) /\ Redraws(page, c)

VARIABLES
  screen, role,  \* which page, and who sits before it
  rows,          \* the records
  list, drawer, form,  \* what the browser shows
  hand,          \* what each handler awaits
  events,
  own,           \* the last version of each record written here, for list and drawer
  made,          \* records made from the form that was opened last
  vanished,      \* rows that left the list of a sweeping page, yet to be deleted
  cutShort,      \* a handler has stopped halfway: a call was lost, or refused after a write
  overtaken      \* an answer has put older data over newer

vars == <<screen, role, rows, list, drawer, form, hand, events,
          own, made, vanished, cutShort, overtaken>>
-----------------------------------------------------------------------------
Page     == Screens[screen]
Commands == Page.commands
Live(row) == row.status \notin {Absent, Gone}

Blank  == [status |-> Absent, version |-> 0]
Closed == [id |-> None]
NoForm(no) == [cmd |-> None, no |-> no]
Idle   == [cmd |-> None]

\* An answer has the rows that were asked for.
NoReply == [id \in Ids |-> None]

Showing(id, row) == [id |-> id, row |-> row]

Init ==
  /\ screen \in DOMAIN Screens /\ role \in Page.roles
  /\ \E r \in Ids : \E s \in Page.statuses \cup {Absent} :
       /\ rows = [id \in Ids |-> IF id = r /\ s # Absent
                                 THEN [status |-> s, version |-> 1] ELSE Blank]
       /\ drawer \in {Closed} \cup
            IF s = Absent \/ Page.kind = "none" THEN {} ELSE {Showing(r, rows[r])}
  /\ list = rows
  /\ form = NoForm(0)
  /\ hand = [h \in Hands |-> Idle]
  /\ events = 0 /\ made = 0
  /\ own = [id \in Ids |-> [list |-> 0, drawer |-> 0]]
  /\ vanished = {} /\ cutShort = FALSE /\ overtaken = FALSE
-----------------------------------------------------------------------------
(***************************************************************************)
(* What is offered, by what the screen shows and not by what is stored.    *)
(* A form of the page keeps the record it was opened on, a new one or a    *)
(* row of the list; a form over the drawer goes to what the drawer shows.  *)
(***************************************************************************)
Shown(c, id) ==
  IF Inside(c) THEN IF drawer.id = id THEN drawer.row.status ELSE None
               ELSE list[id].status

\* A form that lives in the drawer closes with it, one of a part with the record.
Kept(f, d) ==
  IF f.cmd # None /\ \/ Commands[f.cmd].on \in {"sheet", "part"} /\ d = Closed
                     \/ Commands[f.cmd].on = "part" /\ d.id # f.id
  THEN NoForm(f.no) ELSE f

\* A busy flag goes with the form, or the drawer, that holds it.
Forgotten(hands, f, d) == [h \in Hands |->
  IF hands[h] # Idle /\ \/ hands[h].form # 0 /\ (f.cmd = None \/ hands[h].form # f.no)
                        \/ hands[h].form = 0 /\ hands[h].inside /\ d = Closed
  THEN [hands[h] EXCEPT !.busy = "none"] ELSE hands[h]]

\* Mutant: whoever sits before the page is offered everything.
OfferedToAll(name, saw) ==
  {move[2] : move \in {m \in Commands[name].moves : m[1] = saw}}

\* What may be asked of a record in that status.
Offered(name, saw) ==
  IF role \in Commands[name].by
  THEN {move[2] : move \in {m \in Commands[name].moves : m[1] = saw}} ELSE {}

\* Mutant: only buttons are disabled while a handler works.
DeadButtons(name) ==
  /\ Commands[name].busy # "none" /\ ~IsForm(Commands[name])
  /\ \E h \in Hands : hand[h] # Idle /\ hand[h].busy = Commands[name].busy

\* A button that is disabled while a handler holds its flag.
Dead(name) ==
  /\ Commands[name].busy # "none"
  /\ \E h \in Hands : hand[h] # Idle /\ hand[h].busy = Commands[name].busy

Open(name) ==
  /\ form.cmd = None /\ form.no < MaxEvents /\ IsForm(Commands[name])
  /\ \E id \in Ids :
       LET saw == Shown(Commands[name], id) IN
       /\ saw = Absent => list[id] = Blank
       /\ Offered(name, saw) # {}
       /\ form' = [cmd |-> name, id |-> id, seen |-> saw, no |-> form.no + 1]
  /\ made' = 0
  /\ UNCHANGED <<screen, role, rows, list, drawer, hand, events, own, vanished, cutShort,
                 overtaken>>

Cancel ==
  /\ form.cmd # None /\ form' = NoForm(form.no)
  /\ hand' = Forgotten(hand, form', drawer)
  /\ events < MaxEvents /\ events' = events + 1
  /\ UNCHANGED <<screen, role, rows, list, drawer, own, made, vanished, cutShort, overtaken>>

Leave ==
  /\ drawer # Closed /\ Page.kind \notin {"chosen", "live"} /\ drawer' = Closed
  /\ events < MaxEvents /\ events' = events + 1
  /\ form' = Kept(form, Closed) /\ hand' = Forgotten(hand, form', Closed)
  /\ UNCHANGED <<screen, role, rows, list, own, made, vanished, cutShort, overtaken>>

\* A handler at its first call.
Task(name, id, to, saw, no) ==
  [cmd |-> name, id |-> id, to |-> to, saw |-> saw, at |-> 1, phase |-> "asked",
   form |-> no, stored |-> FALSE, reply |-> NoReply,
   busy |-> IF name \in DOMAIN Commands THEN Commands[name].busy ELSE "none",
   inside |-> name \in DOMAIN Commands /\ Inside(Commands[name])]

Free(h) == hand[h] = Idle /\ events < MaxEvents

Begin(h, task) ==
  /\ Free(h)
  /\ events' = events + 1 /\ hand' = [hand EXCEPT ![h] = task]

Press(h) ==
  /\ Free(h)
  /\ \E name \in DOMAIN Commands : \E id \in Ids :
       LET c == Commands[name] IN
       /\ ~IsForm(c) /\ ~Dead(name)
       /\ \E to \in Offered(name, Shown(c, id)) :
            Begin(h, Task(name, id, to, Shown(c, id), 0))
  /\ UNCHANGED <<screen, role, rows, list, drawer, form, own, made, vanished, cutShort, overtaken>>

Submit(h) ==
  /\ Free(h) /\ form.cmd # None /\ ~Dead(form.cmd)
  /\ LET inside == Inside(Commands[form.cmd]) IN
     /\ inside => drawer # Closed
     /\ \E to \in Offered(form.cmd, form.seen) :
          /\ Commands[form.cmd].fresh /\ to # form.seen => list[form.id].status = form.seen
          /\ Begin(h, Task(form.cmd, IF inside THEN drawer.id ELSE form.id, to, form.seen, form.no))
  /\ form' = IF Commands[form.cmd].blind THEN NoForm(form.no) ELSE form
  /\ UNCHANGED <<screen, role, rows, list, drawer, own, made, vanished, cutShort, overtaken>>

\* A click on a row: the record is fetched, or the row itself is shown.
Select(h, id) ==
  /\ Live(list[id]) /\ Page.kind # "none"
  /\ drawer = Closed \/ Page.kind \in {"beside", "chosen", "live"}
  /\ IF Page.opens = <<>>
     THEN /\ drawer.id # id /\ drawer' = Showing(id, list[id])
          /\ form' = Kept(form, drawer')
          /\ overtaken' = (overtaken \/ list[id].version < own[id].drawer)
          /\ UNCHANGED <<hand, events>>
     ELSE /\ Begin(h, Task("open", id, Absent, Absent, 0))
          /\ drawer' = IF Page.kind = "own" THEN Showing(id, Blank) ELSE drawer
          /\ UNCHANGED <<form, overtaken>>
  /\ UNCHANGED <<screen, role, rows, list, own, made, vanished, cutShort>>

\* A filter changes, or the page is asked to load again.
Refresh(h) ==
  /\ Begin(h, Task("load", None, Absent, Absent, 0))
  /\ UNCHANGED <<screen, role, rows, list, drawer, form, own, made, vanished, cutShort, overtaken>>
-----------------------------------------------------------------------------
(***************************************************************************)
(* The API serves a call.                                                  *)
(***************************************************************************)
Asking(h) == hand[h] # Idle /\ hand[h].phase = "asked"
Calls(name) ==
  CASE name = "open" -> Page.opens
    [] name = "load" -> <<Lists>>
    [] OTHER         -> Commands[name].run
At(task)  == Calls(task.cmd)[task.at]
Asked(h)  == At(hand[h])
Writes(h)  == Writing(Asked(h))
Fetches(h) == Fetching(Asked(h))
Makes(h)  == Writes(h) /\ hand[h].saw = Absent /\ ~hand[h].stored

Result(h, id) ==
  [status |-> IF Asked(h).ask = "move" THEN hand[h].to ELSE rows[id].status,
   version |-> rows[id].version + 1]

Passes(h, id) ==
  /\ role \in Asked(h).route.by
  /\ <<rows[id].status, Result(h, id).status>> \in Asked(h).route.moves

\* A write that passes; a record that is made gets a row of its own.
Written(h, id) ==
  [hand[h] EXCEPT !.phase = "answered", !.reply = [NoReply EXCEPT ![id] = Result(h, id)],
                  !.id = id, !.stored = TRUE,
                  !.saw = IF Asked(h).ask = "move" THEN hand[h].to ELSE hand[h].saw]

Write(h) ==
  /\ Asking(h) /\ Writes(h)
  /\ \E id \in Ids :
       /\ IF Makes(h) THEN rows[id] = Blank ELSE id = hand[h].id
       /\ Passes(h, id)
       /\ rows' = [rows EXCEPT ![id] = Result(h, id)]
       /\ own' = [own EXCEPT ![id] =
                   [drawer |-> Result(h, id).version,
                    list |-> IF Asked(h).ask = "inner" THEN own[id].list
                             ELSE Result(h, id).version]]
       /\ hand' = [hand EXCEPT ![h] = Written(h, id)]
  /\ made' = IF Makes(h) /\ hand[h].form = form.no THEN made + 1 ELSE made
  /\ UNCHANGED <<screen, role, list, drawer, form, events, vanished, cutShort, overtaken>>

Read(h) ==
  /\ Asking(h) /\ ~Writes(h)
  /\ hand' = [hand EXCEPT ![h] = [hand[h] EXCEPT
       !.phase = "answered",
       !.reply = [id \in Ids |-> IF Fetches(h) /\ id # hand[h].id THEN None ELSE rows[id]]]]
  /\ UNCHANGED <<screen, role, rows, list, drawer, form, events, own, made, vanished, cutShort,
                 overtaken>>

\* An error ends the handler, but for a last step it always takes.
Last(h) == Len(Calls(hand[h].cmd))

Going(h, n) == [hand[h] EXCEPT !.phase = "asked", !.reply = NoReply, !.at = n]

Dropped(h) == [hand EXCEPT ![h] =
  IF Calls(hand[h].cmd)[Last(h)].ask = "always" /\ hand[h].at < Last(h)
  THEN Going(h, Last(h)) ELSE Idle]

Resumed(h) == [hand EXCEPT ![h] =
  IF hand[h].at = Last(h) THEN Idle ELSE Going(h, hand[h].at + 1)]

\* Mutant: a form is shut whatever the answer.
RefuseAndShut(h) ==
  /\ Asking(h) /\ Writes(h)
  /\ \/ role \notin Asked(h).route.by \ Asked(h).route.hidden
     \/ ~Makes(h) /\ ~Passes(h, hand[h].id)
  /\ hand' = Dropped(h)
  /\ cutShort' = (cutShort \/ hand[h].stored)
  /\ form' = NoForm(form.no)
  /\ UNCHANGED <<screen, role, rows, list, drawer, events, own, made, vanished, overtaken>>

\* The handler ends where a write is refused: its form stays open.
Refuse(h) ==
  /\ Asking(h) /\ Writes(h)
  /\ \/ role \notin Asked(h).route.by \ Asked(h).route.hidden
     \/ ~Makes(h) /\ ~Passes(h, hand[h].id)
  /\ hand' = Dropped(h)
  /\ cutShort' = (cutShort \/ hand[h].stored)
  /\ UNCHANGED <<screen, role, rows, list, drawer, form, events, own, made, vanished, overtaken>>

\* What leaves the list of a sweeping page, and whether its bin was pressed.
Vanished(name, next) ==
  IF ~Page.sweeps THEN vanished
  ELSE vanished \cup {[id |-> id, binned |-> Calls(name)[1].ask = "local"] :
                      id \in {i \in Ids : Live(list[i]) /\ ~Live(next[i])}}

\* Mutant: a list that fails to load is shown empty, as the catalogue of
\* categories does.
LoseAndClear(h) ==
  /\ hand[h] # Idle /\ Asked(h).ask \notin {"always", "local"}
  /\ events < MaxEvents /\ events' = events + 1
  /\ cutShort' = TRUE
  /\ hand' = IF Asked(h).ask \in {"lists", "peek"} THEN Resumed(h) ELSE Dropped(h)
  /\ list' = [id \in Ids |-> Blank] /\ vanished' = Vanished(hand[h].cmd, list')
  /\ UNCHANGED <<screen, role, rows, drawer, form, own, made, overtaken>>

\* A request or its answer is lost.  Loading the list reports that and goes
\* on; any other call ends the handler.
Lose(h) ==
  /\ hand[h] # Idle /\ Asked(h).ask \notin {"always", "local"}
  /\ events < MaxEvents /\ events' = events + 1
  /\ cutShort' = TRUE
  /\ hand' = IF Asked(h).ask \in {"lists", "peek"} THEN Resumed(h) ELSE Dropped(h)
  /\ UNCHANGED <<screen, role, rows, list, drawer, form, own, made, vanished, overtaken>>

\* Someone else writes what the screen's routes let through.
Routes == UNION {{Commands[name].run[n].route : n \in DOMAIN Commands[name].run} :
                 name \in DOMAIN Commands}

Others ==
  /\ events < MaxEvents /\ events' = events + 1
  /\ \E id \in Ids, route \in Routes : \E move \in route.moves :
       /\ Live(rows[id]) /\ move[1] = rows[id].status
       /\ rows' = [rows EXCEPT ![id] = [status |-> move[2], version |-> @.version + 1]]
  /\ UNCHANGED <<screen, role, list, drawer, form, hand, own, made, vanished, cutShort, overtaken>>
-----------------------------------------------------------------------------
(***************************************************************************)
(* An answer comes.  What it brings replaces what was shown, however old   *)
(* it is; a fetch of a record that is gone ends the handler.               *)
(***************************************************************************)
Brings(h, what) == what \in Asked(h).then
Brought(h) == hand[h].reply[hand[h].id]

\* Mutant: the list is not loaded again behind an open drawer.
ListedInFront(h) ==
  IF Brings(h, "list") /\ drawer = Closed THEN hand[h].reply
  ELSE IF Brings(h, "patch") THEN [list EXCEPT ![hand[h].id] = Brought(h)]
  ELSE IF Brings(h, "drop") THEN [list EXCEPT ![hand[h].id].status = Gone]
  ELSE list

Listed(h) ==
  IF Brings(h, "list") THEN hand[h].reply
  ELSE IF Brings(h, "patch") THEN [list EXCEPT ![hand[h].id] = Brought(h)]
  ELSE IF Brings(h, "drop") THEN [list EXCEPT ![hand[h].id].status = Gone]
  ELSE list

\* The drawer after it: shown, left, or following its row.
Drawn(h) ==
  IF Brings(h, "leave") THEN Closed
  ELSE IF Brings(h, "show") /\ (Page.kind = "own" => drawer.id = hand[h].id)
       THEN Showing(hand[h].id, Brought(h))
  ELSE IF Page.kind \in {"live", "place"} /\ drawer # Closed
       THEN IF Live(Listed(h)[drawer.id]) THEN Showing(drawer.id, Listed(h)[drawer.id]) ELSE Closed
  ELSE drawer

\* A handler shuts whatever form of its kind is open, or the form that is
\* open on its record.
Filled(h) ==
  IF \/ Brings(h, "shut") /\ form.cmd = hand[h].cmd
     \/ Brings(h, "reset") /\ form.cmd # None /\ form.id = hand[h].id
  THEN NoForm(form.no) ELSE Kept(form, Drawn(h))

Overtakes(h) ==
  \/ \E id \in Ids : Listed(h)[id].version < list[id].version
  \/ Brings(h, "show") /\ Brought(h).version < own[hand[h].id].drawer

Answer(h) ==
  /\ hand[h] # Idle /\ hand[h].phase = "answered"
  /\ IF Fetches(h) /\ ~Live(Brought(h))
     THEN /\ hand' = IF Asked(h).ask = "peek" THEN Resumed(h) ELSE Dropped(h)
          /\ UNCHANGED <<list, drawer, form, vanished, overtaken>>
     ELSE /\ hand' = Forgotten(Resumed(h), Filled(h), Drawn(h))
          /\ list' = Listed(h) /\ drawer' = Drawn(h)
          /\ form' = Filled(h)
          /\ vanished' = Vanished(hand[h].cmd, Listed(h))
          /\ overtaken' = (overtaken \/ Overtakes(h))
  /\ UNCHANGED <<screen, role, rows, events, own, made, cutShort>>

(***************************************************************************)
(* A sweeping page compares its list with the one before and has what is   *)
(* missing deleted, whyever it is missing.  Nobody awaits the answer.      *)
(***************************************************************************)
Sweep(row) ==
  /\ row \in vanished /\ vanished' = vanished \ {row}
  /\ rows' = IF Live(rows[row.id])
             THEN [rows EXCEPT ![row.id] = [status |-> Gone, version |-> @.version + 1]]
             ELSE rows
  /\ UNCHANGED <<screen, role, list, drawer, form, hand, events, own, made, cutShort,
                 overtaken>>

Next ==
  \/ Cancel \/ Leave \/ Others
  \/ \E row \in vanished : Sweep(row)
  \/ \E name \in DOMAIN Commands : Open(name)
  \/ \E h \in Hands :
       \/ \E id \in Ids : Select(h, id)
       \/ Press(h) \/ Submit(h) \/ Refresh(h)
       \/ Write(h) \/ Refuse(h) \/ Read(h) \/ Lose(h) \/ Answer(h)

Spec == Init /\ [][Next]_vars
-----------------------------------------------------------------------------
Statuses == Known(Page)
Rows  == [status : Statuses, version : Nat]
Names == DOMAIN Commands \cup {"open", "load"}
Tasks ==
  [cmd : Names, id : Ids \cup {None}, to : Statuses, saw : Statuses, at : Nat,
   phase : {"asked", "answered"}, form : Nat, stored : BOOLEAN,
   reply : [Ids -> {None} \cup Rows], busy : Flags, inside : BOOLEAN]

\* A task that is at one of its calls; its own row answers a call about a
\* record, and all of them any other.
Working == {task \in Tasks :
  /\ task.at \in DOMAIN Calls(task.cmd)
  /\ task.cmd = "load" \/ task.id \in Ids
  /\ task.phase = "answered" => \A id \in Ids :
       task.reply[id] \in Rows \/ (About(At(task)) /\ task.id # id)}

Drawers == {Closed} \cup [id : Ids, row : Rows]
Forms   == [cmd : {None}, no : Nat]
             \cup [cmd : {name \in DOMAIN Commands : IsForm(Commands[name])},
                   id : Ids, seen : Statuses, no : Nat \ {0}]

TypeOK ==
  /\ screen \in PageNames /\ role \in Page.roles
  /\ rows \in [Ids -> Rows] /\ list \in [Ids -> Rows]
  /\ drawer \in Drawers /\ form \in Forms
  /\ hand \in [Hands -> {Idle} \cup Working]
  /\ events \in Nat /\ made \in Nat /\ own \in [Ids -> [list : Nat, drawer : Nat]]
  /\ vanished \subseteq [id : Ids, binned : BOOLEAN]
  /\ cutShort \in BOOLEAN /\ overtaken \in BOOLEAN
-----------------------------------------------------------------------------
Quiet == \A h \in Hands : hand[h] = Idle

\* When every handler is done the screen shows what was written from it,
\* in the list and in the drawer, unless a handler stopped halfway, an old
\* answer came last, the drawer was filled from an old row, or somebody else
\* deleted the record.
OwnWriteIsSeen ==
  Quiet /\ ~cutShort /\ ~overtaken =>
    \A id \in Ids : Live(rows[id]) \/ rows[id].version = own[id].list =>
      /\ list[id].version >= own[id].list
      /\ drawer # Closed /\ drawer.id = id => drawer.row.version >= own[id].drawer

\* A form is closed by its own handler only when what it holds is stored.
ClosedIsSaved == [][
  \A h \in Hands :
    hand[h] # Idle /\ hand[h].form = form.no /\ form'.cmd # form.cmd =>
      hand[h].stored \/ (hand'[h] # Idle /\ hand'[h].at = hand[h].at) ]_vars

\* A form makes one record at most, however often it is sent, unless a
\* handler stopped halfway or nothing keeps it from being sent twice.
OneFormOneRecord ==
  form.cmd # None /\ <<screen, form.cmd>> \notin Unguarded /\ ~cutShort => made <= 1

\* A write of the handler ends with no record changed.
Refused(h) ==
  /\ Asking(h) /\ Writes(h) /\ events' = events /\ rows' = rows
  /\ hand'[h] = Idle \/ hand'[h].at # hand[h].at

\* What is offered is refused only because the record has moved on, or for
\* a fact that no screen shows.
OnlyStaleIsRefused == [][
  \A h \in Hands : Refused(h) =>
    \/ rows[hand[h].id].status # hand[h].saw
    \/ role \in Asked(h).route.hidden
    \/ <<screen, hand[h].cmd>> \in Unmirrored ]_vars

\* A record that a sweeping page is about to delete was asked to be deleted
\* or is gone already, unless an older list has come after a newer one.
OnlyAskedIsDeleted ==
  \A row \in vanished : Live(rows[row.id]) => row.binned \/ overtaken
=============================================================================
