----------------------------- MODULE ScreenSteps ----------------------------
(***************************************************************************)
(* The vocabulary in which the screens of the web client are described: a  *)
(* handler is the sequence of calls it awaits, each with what the screen   *)
(* does when its answer comes; a command is a button or a form with the    *)
(* roles and statuses that see it; a route is what the API lets through.   *)
(***************************************************************************)
EXTENDS Naturals, Sequences

Operators == {"Admin", "IT"}
Everybody == Operators \cup {"HCNS"}

Absent == "absent"  \* status of a record not made yet
Gone   == "gone"    \* status of a record that was deleted

\* What a command, or a route, does to the status of its record.
Stay(S)    == {<<s, s>> : s \in S}
From(S, t) == {<<s, t>> : s \in S}
Table(next) == UNION {{<<s, t>> : t \in next[s]} : s \in DOMAIN next}

(***************************************************************************)
(* Routes: who is let in, which moves of the record pass, and the roles    *)
(* that may be refused for a fact of other records.                        *)
(***************************************************************************)
Route(by, moves) == [by |-> by, moves |-> moves, hidden |-> {}]
Hiding(roles, route) == [route EXCEPT !.hidden = roles]

NoRoute == Route({}, {})

(***************************************************************************)
(* Calls. With an answer a screen may "shut" the form it came from,        *)
(* "reset" the form that is open on the record, "leave" the drawer, "show" *)
(* the answer in the drawer, put it over its row of the list ("patch"),    *)
(* take that row away ("drop"), or replace the list ("list").  Some calls  *)
(* catch their errors and the handler goes on; the others end it.          *)
(***************************************************************************)
Call(ask, route, then) == [ask |-> ask, route |-> route, then |-> then]

Edit(route, then)  == Call("edit", route, then)    \* the status stays
Inner(route, then) == Call("inner", route, then)   \* and the list does not tell
Move(route, then)  == Call("move", route, then)    \* to what was pressed
Fetch              == Call("fetch", NoRoute, {"show"})
Peek               == Call("peek", NoRoute, {"show"})      \* a fetch that catches
Lists              == Call("lists", NoRoute, {"list"})     \* catches too
Reload(then)       == Call("reload", NoRoute, {"list"} \cup then)
Elsewhere          == Call("reload", NoRoute, {})          \* a list of another page
Always(then)       == Call("always", NoRoute, then)        \* no call: comes last, even after an error
Local(then)        == Call("local", NoRoute, then)         \* no call: the page is changed by itself

(***************************************************************************)
(* Commands: `on' says where they are offered: the "drawer", a "row" of    *)
(* the list; or that they submit a form: one of the page ("form"), of the  *)
(* drawer ("sheet"), of a part of its record ("part"), or of the page but  *)
(* shown over the drawer only ("over").  `busy' names the flag that        *)
(* disables the button while a handler holds it.                           *)
(***************************************************************************)
Command(on, by, moves, run) ==
  [on |-> on, by |-> by, moves |-> moves, busy |-> "none", run |-> run,
   blind |-> FALSE, fresh |-> FALSE]

Busy(flag, command) == [command EXCEPT !.busy = flag]

\* The form is cleared when it is sent, before there is an answer.
Blind(command) == [command EXCEPT !.blind = TRUE]

\* A move to another status is sent only if the list still has the record
\* as it was when the form was opened.
Fresh(command) == [command EXCEPT !.fresh = TRUE]

OpenForm(by, moves, run) == Command("form", by, moves, run)
Form(by, moves, run)     == Busy("saving", OpenForm(by, moves, run))
Sheet(by, moves, run)    == Command("sheet", by, moves, run)
Part(by, moves, run)     == Command("part", by, moves, run)
Over(by, moves, run)     == Command("over", by, moves, run)
Button(by, moves, run)   == Command("drawer", by, moves, run)
OnRow(by, moves, run)    == Command("row", by, moves, run)

(***************************************************************************)
(* A screen: who gets the page, the calls that open its drawer, and its    *)
(* commands.  The drawer lies over the page and is "fetched" by those      *)
(* calls or "copied" from the row; it is a part of the page, "beside" its  *)
(* list or always "chosen" from it; it is a "live" view of the row, or     *)
(* such a view in the "place" of the page; it opens empty and makes those  *)
(* calls on its "own"; or there is "none".                                 *)
(***************************************************************************)
Screen(roles, statuses, opens, kind, commands) ==
  [roles |-> roles, statuses |-> statuses, opens |-> opens, kind |-> kind,
   commands |-> commands, sweeps |-> FALSE]

\* The page deletes, at the API, whatever leaves its list.
Sweeping(page) == [page EXCEPT !.sweeps = TRUE]

Register(roles, statuses, commands)       == Screen(roles, statuses, <<>>, "none", commands)
Opening(opens, roles, statuses, commands) == Screen(roles, statuses, opens, "fetched", commands)
-----------------------------------------------------------------------------
(***************************************************************************)
(* What a page is made of, and what a handler's calls are like.            *)
(***************************************************************************)
RouteType(S) == [by : SUBSET Everybody, moves : SUBSET (S \X S), hidden : SUBSET Everybody]
CallType(S) ==
  [ask : {"edit", "inner", "move", "fetch", "peek", "lists", "reload", "always", "local"},
   route : RouteType(S), then : SUBSET {"shut", "reset", "leave", "show", "patch", "drop", "list"}]
Flags == {"none", "saving", "transitioning", "working", "busy", "notes"}
CommandType(S) ==
  [on : {"drawer", "row", "form", "sheet", "part", "over"}, by : SUBSET Everybody,
   moves : SUBSET (S \X S), busy : Flags, run : Seq(CallType(S)) \ {<<>>},
   blind : BOOLEAN, fresh : BOOLEAN]

Writing(call)  == call.ask \in {"edit", "inner", "move"}
Fetching(call) == call.ask \in {"fetch", "peek"}
About(call)    == Writing(call) \/ Fetching(call)  \* its answer is one record
Does(call, effects) == call.then \cap effects # {}

\* The call, or one that comes after it, has one of the effects.
Follows(run, n, effects) == \E m \in DOMAIN run : m >= n /\ Does(run[m], effects)

IsForm(c) == c.on \in {"form", "sheet", "part", "over"}
Inside(c) == c.on \in {"drawer", "sheet", "part", "over"}
Creates(c) == \E move \in c.moves : move[1] = Absent
Deletes(c) == \E move \in c.moves : move[2] = Gone
=============================================================================
