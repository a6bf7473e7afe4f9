-------------------------- MODULE WebClientProofs ---------------------------
(***************************************************************************)
(* Proofs about ScreenWork: what every page of the shape that              *)
(* WorkAssumption describes promises, for any records, roles, number of    *)
(* handlers and order of answers.                                          *)
(***************************************************************************)
EXTENDS ScreenWork, TLAPS

USE WorkAssumption

Active(h) == hand[h] # Idle

LEMMA PageIsTyped == ASSUME screen \in PageNames PROVE Typed(Page) /\ Orderly(Page)
BY DEF Page

LEMMA CommandIsTyped ==
  ASSUME screen \in PageNames, NEW name \in DOMAIN Commands
  PROVE  /\ Commands[name] \in CommandType(Statuses)
         /\ name # "open" /\ name # "load" /\ name # None
BY PageIsTyped DEF Typed, Commands, CommandsOf, Statuses

\* Moves are of statuses, so nothing is offered of a record that is not shown.
LEMMA OfferedType ==
  ASSUME screen \in PageNames, NEW name \in DOMAIN Commands, NEW saw,
         NEW to \in Offered(name, saw)
  PROVE  /\ saw \in Statuses /\ to \in Statuses /\ role \in Commands[name].by
         /\ <<saw, to>> \in Commands[name].moves
<1>1. Commands[name].moves \subseteq Statuses \X Statuses
  BY CommandIsTyped DEF CommandType
<1>2. PICK move \in Commands[name].moves : move[1] = saw /\ to = move[2]
  BY DEF Offered
<1>3. QED
  BY <1>1, <1>2 DEF Offered

LEMMA CallsType ==
  ASSUME screen \in PageNames, NEW name \in Names
  PROVE  /\ Calls(name) \in Seq(CallType(Statuses))
         /\ name \in {"open", "load"} => \A n \in DOMAIN Calls(name) : ~Writing(Calls(name)[n])
<1>1. CASE name = "open"
  BY <1>1, PageIsTyped DEF Calls, Typed, Statuses
<1>2. CASE name = "load"
  <2>1. Lists \in CallType(Statuses)
    BY DEF Lists, Call, NoRoute, Route, CallType, RouteType
  <2>2. Calls(name) = <<Lists>> /\ ~Writing(Lists)
    BY <1>2 DEF Calls, Lists, Call, Writing
  <2>3. QED
    BY <2>1, <2>2
<1>3. CASE name \in DOMAIN Commands
  BY <1>3, CommandIsTyped DEF Calls, CommandType
<1>4. QED
  BY <1>1, <1>2, <1>3 DEF Names

LEMMA CallType1 ==
  ASSUME screen \in PageNames, NEW name \in Names, NEW n \in DOMAIN Calls(name)
  PROVE  /\ Calls(name)[n] \in CallType(Statuses)
         /\ n \in Nat \ {0} /\ n <= Len(Calls(name)) /\ Len(Calls(name)) \in Nat
         /\ DOMAIN Calls(name) = 1 .. Len(Calls(name))
BY CallsType

\* A call of a handler, as every page has them.
LEMMA CallIsOrderly ==
  ASSUME screen \in PageNames, NEW name \in Names, NEW n \in DOMAIN Calls(name)
  PROVE  LET call == Calls(name)[n] IN
         /\ \A move \in call.route.moves : move[1] # Gone /\ move[2] # Absent
         /\ Does(call, {"list"}) => call.ask \in {"lists", "reload"}
         /\ Does(call, {"show"}) => About(call)
         /\ Does(call, {"patch"}) => Writing(call)
         /\ call.ask = "peek" => call.then \subseteq {"show"}
         /\ call.ask = "always" => n = Len(Calls(name))
         /\ Page.sweeps /\ Does(call, {"drop"}) => Calls(name)[1].ask = "local"
         /\ name = "load" => call = Lists
<1>1. CASE name = "load"
  <2>1. Calls(name) = <<Lists>> /\ Calls(name)[n] = Lists
    BY <1>1, CommandIsTyped DEF Calls
  <2>2. QED
    BY <1>1, <2>1 DEF Lists, Call, NoRoute, Route, Does
<1>2. CASE name # "load"
  <2>1. Calls(name) \in RunsOf(Page)
    BY <1>2 DEF Calls, RunsOf, Names, CommandsOf, Commands
  <2>2. Calls(name)[n] \in CallsOf(Page)
    BY <2>1 DEF CallsOf
  <2>3. Orderly(Page)
    BY PageIsTyped
  <2>4. \A run \in RunsOf(Page) : \A m \in DOMAIN run :
          /\ run[m].ask = "always" => m = Len(run)
          /\ Page.sweeps /\ Does(run[m], {"drop"}) => run[1].ask = "local"
    BY <2>3 DEF Orderly
  <2>5. \A call \in CallsOf(Page) :
          /\ \A move \in call.route.moves : move[1] # Gone /\ move[2] # Absent
          /\ Does(call, {"list"}) => call.ask \in {"lists", "reload"}
          /\ Does(call, {"show"}) => About(call)
          /\ Does(call, {"patch"}) => Writing(call)
          /\ call.ask = "peek" => call.then \subseteq {"show"}
    BY <2>3 DEF Orderly
  <2>6. QED
    BY <1>2, <2>1, <2>2, <2>4, <2>5
<1>3. QED
  BY <1>1, <1>2

LEMMA AskIsOne ==
  ASSUME NEW call
  PROVE  call.ask \in {"lists", "reload"} => ~About(call)
BY DEF About, Writing, Fetching

\* What a page is does not depend on what its browser shows.
LEMMA SamePage ==
  ASSUME screen' = screen
  PROVE  /\ Page' = Page /\ Commands' = Commands /\ Statuses' = Statuses /\ Rows' = Rows
         /\ Names' = Names /\ Tasks' = Tasks /\ Working' = Working
         /\ Drawers' = Drawers /\ Forms' = Forms
         /\ \A name : Calls(name)' = Calls(name)
         /\ \A task : At(task)' = At(task)
<1>1. Page' = Page
  BY DEF Page
<1>2. Commands' = Commands /\ Statuses' = Statuses
  BY <1>1 DEF Commands, Statuses
<1>3. \A name : Calls(name)' = Calls(name)
  BY <1>1, <1>2 DEF Calls
<1>4. \A task : At(task)' = At(task)
  BY <1>3 DEF At
<1>5. Rows' = Rows /\ Names' = Names
  BY <1>2 DEF Rows, Names
<1>6. Tasks' = Tasks
  BY <1>2, <1>5 DEF Tasks
<1>7. Working' = Working
  BY <1>3, <1>4, <1>5, <1>6 DEF Working
<1>8. Drawers' = Drawers /\ Forms' = Forms
  BY <1>2, <1>5 DEF Drawers, Forms
<1>9. QED
  BY <1>1, <1>2, <1>3, <1>4, <1>5, <1>6, <1>7, <1>8

LEMMA ScreenStays == [Next]_vars => screen' = screen /\ role' = role
BY DEF Next, vars, Cancel, Leave, Others, Sweep, Open, Select, Press, Submit, Refresh, Write,
       Refuse, Read, Lose, Answer

\* A handler at work is one of the tasks.
LEMMA WorkingIsBusy ==
  ASSUME screen \in PageNames, NEW task \in Working
  PROVE  task # Idle /\ task.cmd # None
<1>1. ASSUME NEW name \in Names PROVE name # None
  <2>1. "open" # None /\ "load" # None
    OBVIOUS
  <2>2. QED
    BY <2>1, CommandIsTyped DEF Names
<1>2. task.cmd # None
  BY <1>1 DEF Working, Tasks
<1>3. QED
  BY <1>2 DEF Idle

LEMMA ActiveTask ==
  ASSUME TypeOK, NEW h \in Hands
  PROVE  /\ Active(h) <=> hand[h] \in Working
         /\ Active(h) <=> hand[h].cmd # None
BY WorkingIsBusy DEF TypeOK, Idle, Active
-----------------------------------------------------------------------------
(***************************************************************************)
(* Types.                                                                  *)
(***************************************************************************)
LEMMA WorkingTask ==
  ASSUME TypeOK, NEW h \in Hands, Active(h)
  PROVE  /\ hand[h] \in Working /\ hand[h] \in Tasks /\ hand[h].cmd \in Names
         /\ hand[h].at \in DOMAIN Calls(hand[h].cmd) /\ hand[h].at \in Nat \ {0}
         /\ hand[h].at <= Last(h) /\ Last(h) \in DOMAIN Calls(hand[h].cmd)
         /\ Asked(h) = Calls(hand[h].cmd)[hand[h].at] /\ Asked(h) \in CallType(Statuses)
         /\ hand[h].cmd = "load" \/ hand[h].id \in Ids
<1>1. hand[h] \in Working /\ hand[h] \in Tasks
  BY ActiveTask DEF Working
<1>2. hand[h].cmd \in Names /\ hand[h].at \in DOMAIN Calls(hand[h].cmd)
  BY <1>1 DEF Working, Tasks
<1>3. hand[h].cmd = "load" \/ hand[h].id \in Ids
  BY <1>1 DEF Working
<1>4. screen \in PageNames
  BY DEF TypeOK
<1>5. QED
  BY <1>1, <1>2, <1>3, <1>4, CallType1 DEF Asked, At, Last

LEMMA FreshTask ==
  ASSUME screen \in PageNames, NEW name \in Names, NEW id \in Ids \cup {None},
         name = "load" \/ id \in Ids,
         NEW to \in Statuses, NEW saw \in Statuses, NEW no \in Nat, Calls(name) # <<>>
  PROVE  Task(name, id, to, saw, no) \in Working
<1> DEFINE t == Task(name, id, to, saw, no)
<1>1. NoReply \in [Ids -> {None} \cup Rows]
  BY DEF NoReply
<1>2. t.busy \in Flags /\ t.inside \in BOOLEAN
  <2>1. CASE name \in DOMAIN Commands
    BY <2>1, CommandIsTyped DEF Task, CommandType, Inside
  <2>2. CASE name \notin DOMAIN Commands
    BY <2>2 DEF Task, Flags
  <2>3. QED
    BY <2>1, <2>2
<1>3. t \in Tasks
  BY <1>1, <1>2 DEF Task, Tasks
<1>4. t.at \in DOMAIN Calls(t.cmd)
  BY CallsType DEF Task
<1>5. QED
  BY <1>3, <1>4 DEF Task, Working

\* A task whose flag is dropped.
Quieted(t) == [t EXCEPT !.busy = "none"]

LEMMA QuietedTask ==
  ASSUME NEW t \in Working
  PROVE  /\ Quieted(t) \in Working
         /\ \A field \in {"cmd", "id", "to", "saw", "at", "phase", "form", "stored", "reply", "inside"} :
              Quieted(t)[field] = t[field]
<1>1. t \in Tasks
  BY DEF Working
<1>2. Quieted(t) \in Tasks
  BY <1>1 DEF Quieted, Tasks, Flags
<1>3. /\ Quieted(t).cmd = t.cmd /\ Quieted(t).id = t.id /\ Quieted(t).to = t.to
      /\ Quieted(t).saw = t.saw /\ Quieted(t).at = t.at /\ Quieted(t).phase = t.phase
      /\ Quieted(t).form = t.form /\ Quieted(t).stored = t.stored /\ Quieted(t).reply = t.reply
      /\ Quieted(t).inside = t.inside
  BY <1>1 DEF Quieted, Tasks
<1>4. Quieted(t) \in Working
  BY <1>2, <1>3 DEF Working, At
<1>5. QED
  BY <1>3, <1>4

\* Flags apart, forgetting leaves every handler as it is.
LEMMA ForgottenHands ==
  ASSUME NEW hands \in [Hands -> {Idle} \cup Working], NEW f, NEW d
  PROVE  /\ Forgotten(hands, f, d) \in [Hands -> {Idle} \cup Working]
         /\ \A h \in Hands :
              \/ Forgotten(hands, f, d)[h] = hands[h]
              \/ /\ hands[h] # Idle /\ hands[h] \in Working
                 /\ Forgotten(hands, f, d)[h] = Quieted(hands[h])
<1>1. ASSUME NEW h \in Hands
      PROVE  \/ Forgotten(hands, f, d)[h] = hands[h]
             \/ /\ hands[h] # Idle /\ hands[h] \in Working
                /\ Forgotten(hands, f, d)[h] = Quieted(hands[h])
  BY DEF Forgotten, Quieted
<1>2. \A h \in Hands : Forgotten(hands, f, d)[h] \in {Idle} \cup Working
  BY <1>1, QuietedTask
<1>3. Forgotten(hands, f, d) = [h \in Hands |-> Forgotten(hands, f, d)[h]]
  BY DEF Forgotten
<1>4. QED
  BY <1>1, <1>2, <1>3

LEMMA GoingTask ==
  ASSUME TypeOK, NEW h \in Hands, Active(h), NEW n \in DOMAIN Calls(hand[h].cmd)
  PROVE  /\ Going(h, n) \in Working
         /\ Going(h, n).at = n /\ Going(h, n).phase = "asked"
         /\ \A field \in {"cmd", "id", "to", "saw", "form", "stored", "busy", "inside"} :
              Going(h, n)[field] = hand[h][field]
<1>1. hand[h] \in Working /\ hand[h] \in Tasks
  BY WorkingTask
<1>2. n \in Nat
  BY WorkingTask, CallType1 DEF TypeOK
<1>3. NoReply \in [Ids -> {None} \cup Rows]
  BY DEF NoReply
<1>4. Going(h, n) \in Tasks
  BY <1>1, <1>2, <1>3 DEF Going, Tasks
<1>5. /\ Going(h, n).at = n /\ Going(h, n).phase = "asked"
      /\ Going(h, n).cmd = hand[h].cmd /\ Going(h, n).id = hand[h].id /\ Going(h, n).to = hand[h].to
      /\ Going(h, n).saw = hand[h].saw /\ Going(h, n).form = hand[h].form
      /\ Going(h, n).stored = hand[h].stored /\ Going(h, n).busy = hand[h].busy
      /\ Going(h, n).inside = hand[h].inside
  BY <1>1 DEF Going, Tasks
<1>6. Going(h, n) \in Working
  BY <1>1, <1>4, <1>5 DEF Working
<1>7. QED
  BY <1>5, <1>6

\* What is left of a handler that stops, and of one that goes on.
LEMMA DroppedHands ==
  ASSUME TypeOK, NEW h \in Hands, Active(h)
  PROVE  /\ Dropped(h) \in [Hands -> {Idle} \cup Working]
         /\ \A g \in Hands \ {h} : Dropped(h)[g] = hand[g]
         /\ \/ Dropped(h)[h] = Idle
            \/ /\ Calls(hand[h].cmd)[Last(h)].ask = "always" /\ hand[h].at < Last(h)
               /\ Dropped(h)[h] = Going(h, Last(h))
<1>1. hand \in [Hands -> {Idle} \cup Working]
  BY DEF TypeOK
<1>2. Going(h, Last(h)) \in Working
  BY WorkingTask, GoingTask
<1> HIDE DEF Going
<1>3. QED
  BY <1>1, <1>2 DEF Dropped

LEMMA ResumedHands ==
  ASSUME TypeOK, NEW h \in Hands, Active(h)
  PROVE  /\ Resumed(h) \in [Hands -> {Idle} \cup Working]
         /\ \A g \in Hands \ {h} : Resumed(h)[g] = hand[g]
         /\ hand[h].at = Last(h) => Resumed(h)[h] = Idle
         /\ hand[h].at # Last(h) =>
              /\ hand[h].at + 1 \in DOMAIN Calls(hand[h].cmd)
              /\ Resumed(h)[h] = Going(h, hand[h].at + 1)
<1>1. hand \in [Hands -> {Idle} \cup Working]
  BY DEF TypeOK
<1>2. hand[h].at # Last(h) => hand[h].at + 1 \in DOMAIN Calls(hand[h].cmd)
  BY WorkingTask, CallType1 DEF TypeOK, Last
<1>3. hand[h].at # Last(h) => Going(h, hand[h].at + 1) \in Working
  BY <1>2, GoingTask
<1> HIDE DEF Going
<1>4. QED
  BY <1>1, <1>2, <1>3 DEF Resumed

LEMMA KeptForm == ASSUME NEW f \in Forms, NEW d PROVE Kept(f, d) \in Forms /\ Kept(f, d).no = f.no
BY DEF Kept, Forms, NoForm

LEMMA ResultRow ==
  ASSUME TypeOK, NEW h \in Hands, Active(h), NEW id \in Ids
  PROVE  Result(h, id) \in Rows
<1>1. rows[id] \in Rows /\ hand[h].to \in Statuses
  BY WorkingTask DEF TypeOK, Tasks
<1>2. QED
  BY <1>1 DEF Result, Rows

\* A task whose write has passed, and one whose read was answered.
LEMMA WrittenTask ==
  ASSUME TypeOK, NEW h \in Hands, Active(h), Writes(h), NEW id \in Ids
  PROVE  /\ Written(h, id) \in Working
         /\ Written(h, id).phase = "answered" /\ Written(h, id).id = id /\ Written(h, id).stored
         /\ Written(h, id).reply[id] = Result(h, id)
         /\ Written(h, id).saw = IF Asked(h).ask = "move" THEN hand[h].to ELSE hand[h].saw
         /\ \A field \in {"cmd", "to", "at", "form", "busy", "inside"} :
              Written(h, id)[field] = hand[h][field]
<1> DEFINE t == hand[h]
           u == Written(h, id)
<1>1. t \in Working /\ t \in Tasks
  BY WorkingTask
<1>2. Result(h, id) \in Rows
  BY ResultRow
<1>3. /\ [NoReply EXCEPT ![id] = Result(h, id)] \in [Ids -> {None} \cup Rows]
      /\ [NoReply EXCEPT ![id] = Result(h, id)][id] = Result(h, id)
  BY <1>2 DEF NoReply
<1>4. (IF Asked(h).ask = "move" THEN t.to ELSE t.saw) \in Statuses
  BY <1>1 DEF Tasks
<1>5. u \in Tasks
  BY <1>1, <1>3, <1>4 DEF Written, Tasks
<1>6. /\ u.phase = "answered" /\ u.id = id /\ u.stored
      /\ u.saw = IF Asked(h).ask = "move" THEN hand[h].to ELSE hand[h].saw
      /\ u.reply[id] = Result(h, id)
      /\ u.cmd = t.cmd /\ u.to = t.to /\ u.at = t.at /\ u.form = t.form /\ u.busy = t.busy
      /\ u.inside = t.inside
  BY <1>1, <1>3 DEF Written, Tasks
<1>7. At(u) = Asked(h) /\ About(At(u))
  BY <1>6 DEF At, Asked, Writes, About
<1>8. u \in Working
  BY <1>1, <1>2, <1>5, <1>6, <1>7 DEF Working
<1>9. QED
  BY <1>6, <1>8

\* A handler whose call was read for it.
Told(h) == [hand[h] EXCEPT !.phase = "answered",
  !.reply = [id \in Ids |-> IF Fetches(h) /\ id # hand[h].id THEN None ELSE rows[id]]]

LEMMA ToldTask ==
  ASSUME TypeOK, NEW h \in Hands, Active(h), ~Writes(h)
  PROVE  /\ Told(h) \in Working
         /\ Told(h).phase = "answered"
         /\ \A id \in Ids : (About(Asked(h)) => id = hand[h].id) => Told(h).reply[id] = rows[id]
         /\ \A field \in {"cmd", "id", "to", "saw", "at", "form", "stored", "busy", "inside"} :
              Told(h)[field] = hand[h][field]
<1> DEFINE t == hand[h]
           u == Told(h)
           reply == [id \in Ids |-> IF Fetches(h) /\ id # hand[h].id THEN None ELSE rows[id]]
<1>1. t \in Working /\ t \in Tasks
  BY WorkingTask
<1>2. About(Asked(h)) <=> Fetches(h)
  BY DEF About, Fetches, Writes
<1>3. rows \in [Ids -> Rows]
  BY DEF TypeOK
<1>4. reply \in [Ids -> {None} \cup Rows]
  BY <1>3
<1>5. /\ u \in Tasks /\ u.phase = "answered" /\ u.reply = reply
      /\ u.cmd = t.cmd /\ u.id = t.id /\ u.to = t.to /\ u.saw = t.saw /\ u.at = t.at
      /\ u.form = t.form /\ u.stored = t.stored /\ u.busy = t.busy /\ u.inside = t.inside
  <2> HIDE DEF reply
  <2>1. QED
    BY <1>1, <1>4 DEF Told, Tasks, reply
<1>6. At(u) = Asked(h)
  BY <1>5 DEF At, Asked
<1>7. u \in Working
  BY <1>1, <1>2, <1>3, <1>5, <1>6 DEF Working
<1>8. QED
  BY <1>2, <1>5, <1>7

\* What an answer brings, by the call it answers.
LEMMA AnswerBrings ==
  ASSUME TypeOK, NEW h \in Hands, Active(h), hand[h].phase = "answered"
  PROVE  /\ About(Asked(h)) => hand[h].id \in Ids /\ Brought(h) \in Rows
         /\ ~About(Asked(h)) => hand[h].reply \in [Ids -> Rows]
         /\ Brings(h, "list") => ~About(Asked(h))
         /\ Brings(h, "show") => About(Asked(h))
         /\ Brings(h, "patch") => Writing(Asked(h)) /\ About(Asked(h))
         /\ Brings(h, "drop") => hand[h].id \in Ids
<1>1. /\ hand[h] \in Working /\ hand[h] \in Tasks /\ screen \in PageNames
      /\ hand[h].cmd \in Names /\ hand[h].at \in DOMAIN Calls(hand[h].cmd)
      /\ Asked(h) = Calls(hand[h].cmd)[hand[h].at]
      /\ hand[h].cmd = "load" \/ hand[h].id \in Ids
  BY WorkingTask DEF TypeOK
<1>2. /\ Does(Asked(h), {"list"}) => Asked(h).ask \in {"lists", "reload"}
      /\ Does(Asked(h), {"show"}) => About(Asked(h))
      /\ Does(Asked(h), {"patch"}) => Writing(Asked(h))
      /\ hand[h].cmd = "load" => Asked(h) = Lists
  <2> DEFINE name == hand[h].cmd
             n == hand[h].at
  <2>1. screen \in PageNames /\ name \in Names /\ n \in DOMAIN Calls(name)
        /\ Asked(h) = Calls(name)[n]
    BY <1>1
  <2> HIDE DEF name, n
  <2>2. /\ Does(Calls(name)[n], {"list"}) => Calls(name)[n].ask \in {"lists", "reload"}
        /\ Does(Calls(name)[n], {"show"}) => About(Calls(name)[n])
        /\ Does(Calls(name)[n], {"patch"}) => Writing(Calls(name)[n])
        /\ name = "load" => Calls(name)[n] = Lists
    BY <2>1, CallIsOrderly
  <2>3. QED
    BY <2>1, <2>2 DEF name
<1>3. Asked(h).ask \in {"lists", "reload"} => ~About(Asked(h))
  BY AskIsOne
<1>4. Lists.ask = "lists" /\ Lists.then = {"list"}
  BY DEF Lists, Call
<1>5. At(hand[h]) = Asked(h)
  BY DEF Asked
<1>6. ~About(Asked(h)) => hand[h].reply \in [Ids -> Rows]
  <2>1. hand[h].reply \in [Ids -> {None} \cup Rows]
    BY <1>1 DEF Tasks
  <2>2. ASSUME ~About(Asked(h)) PROVE \A id \in Ids : hand[h].reply[id] \in Rows
    BY <1>1, <1>5, <2>2 DEF Working
  <2>3. QED
    BY <2>1, <2>2
<1>7. About(Asked(h)) => hand[h].id \in Ids /\ Brought(h) \in Rows
  BY <1>1, <1>2, <1>3, <1>4, <1>5 DEF Working, Brought
<1>8. \A what : Brings(h, what) <=> Does(Asked(h), {what})
  BY DEF Brings, Does
<1>9. Brings(h, "drop") => hand[h].id \in Ids
  BY <1>1, <1>2, <1>4 DEF Brings
<1>10. QED
  BY <1>2, <1>3, <1>6, <1>7, <1>8, <1>9 DEF About

LEMMA ListedType ==
  ASSUME TypeOK, NEW h \in Hands, Active(h), hand[h].phase = "answered"
  PROVE  Listed(h) \in [Ids -> Rows]
<1>1. list \in [Ids -> Rows]
  BY DEF TypeOK
<1>2. CASE Brings(h, "list")
  <2>1. Listed(h) = hand[h].reply
    BY <1>2 DEF Listed
  <2>2. QED
    BY <1>2, <2>1, AnswerBrings
<1>3. CASE ~Brings(h, "list") /\ Brings(h, "patch")
  <2>1. Listed(h) = [list EXCEPT ![hand[h].id] = Brought(h)]
    BY <1>3 DEF Listed
  <2>2. Brought(h) \in Rows /\ hand[h].id \in Ids
    BY <1>3, AnswerBrings
  <2>3. QED
    BY <1>1, <2>1, <2>2
<1>4. CASE ~Brings(h, "list") /\ ~Brings(h, "patch") /\ Brings(h, "drop")
  <2>1. hand[h].id \in Ids /\ list[hand[h].id] \in Rows
    BY <1>1, <1>4, AnswerBrings
  <2>2. Listed(h) = [list EXCEPT ![hand[h].id] = [list[hand[h].id] EXCEPT !.status = Gone]]
    BY <1>4 DEF Listed
  <2>3. [list[hand[h].id] EXCEPT !.status = Gone] \in Rows
    BY <2>1 DEF Rows, Statuses, Known
  <2>4. QED
    BY <1>1, <2>1, <2>2, <2>3
<1>5. CASE ~Brings(h, "list") /\ ~Brings(h, "patch") /\ ~Brings(h, "drop")
  BY <1>1, <1>5 DEF Listed
<1>6. QED
  BY <1>2, <1>3, <1>4, <1>5

LEMMA DrawnType ==
  ASSUME TypeOK, NEW h \in Hands, Active(h), hand[h].phase = "answered"
  PROVE  Drawn(h) \in Drawers
<1>1. drawer \in Drawers /\ Closed \in Drawers /\ Listed(h) \in [Ids -> Rows]
  BY ListedType DEF TypeOK, Drawers
<1>2. drawer # Closed => drawer.id \in Ids /\ Listed(h)[drawer.id] \in Rows
  BY <1>1 DEF Drawers
<1>3. ASSUME NEW id \in Ids, NEW row \in Rows PROVE Showing(id, row) \in Drawers
  BY DEF Showing, Drawers
<1>4. Brings(h, "show") => hand[h].id \in Ids /\ Brought(h) \in Rows
  BY AnswerBrings
<1>5. QED
  BY <1>1, <1>2, <1>3, <1>4 DEF Drawn

LEMMA FilledType ==
  ASSUME TypeOK, NEW h
  PROVE  Filled(h) \in Forms /\ Filled(h).no = form.no
<1>1. form \in Forms
  BY DEF TypeOK
<1>2. Kept(form, Drawn(h)) \in Forms /\ Kept(form, Drawn(h)).no = form.no
  BY <1>1, KeptForm
<1>3. QED
  BY <1>1, <1>2 DEF Filled, Forms, NoForm

\* What a press, a form that is sent, a click and a load begin with.
LEMMA PressFacts ==
  ASSUME TypeOK, NEW h \in Hands, Press(h)
  PROVE  /\ ~Active(h) /\ events < MaxEvents /\ events' = events + 1
         /\ UNCHANGED <<screen, role, rows, list, drawer, form, own, made, vanished, cutShort, overtaken>>
         /\ \E name \in DOMAIN Commands, id \in Ids, saw \in Statuses, to \in Statuses :
              /\ ~IsForm(Commands[name]) /\ ~Dead(name) /\ role \in Commands[name].by
              /\ saw = Shown(Commands[name], id) /\ <<saw, to>> \in Commands[name].moves
              /\ hand' = [hand EXCEPT ![h] = Task(name, id, to, saw, 0)]
              /\ Task(name, id, to, saw, 0) \in Working
<1>1. PICK name \in DOMAIN Commands, id \in Ids :
        /\ ~IsForm(Commands[name]) /\ ~Dead(name)
        /\ \E to \in Offered(name, Shown(Commands[name], id)) :
             Begin(h, Task(name, id, to, Shown(Commands[name], id), 0))
  BY DEF Press
<1> DEFINE saw == Shown(Commands[name], id)
<1>0. PICK to \in Offered(name, saw) : Begin(h, Task(name, id, to, saw, 0))
  BY <1>1
<1>2. /\ saw \in Statuses /\ to \in Statuses /\ role \in Commands[name].by
      /\ <<saw, to>> \in Commands[name].moves
  BY OfferedType DEF TypeOK
<1>3. Calls(name) # <<>> /\ name \in Names
  <2>1. name \in Names /\ name # "open" /\ name # "load" /\ Commands[name].run # <<>>
    BY CommandIsTyped DEF Names, CommandType, TypeOK
  <2>2. Calls(name) = Commands[name].run
    BY <2>1 DEF Calls
  <2>3. QED
    BY <2>1, <2>2
<1> HIDE DEF saw
<1>4. Task(name, id, to, saw, 0) \in Working
  BY <1>2, <1>3, FreshTask DEF TypeOK
<1>5. hand' = [hand EXCEPT ![h] = Task(name, id, to, saw, 0)]
  BY <1>0 DEF Begin
<1>6. QED
  BY <1>0, <1>1, <1>2, <1>4, <1>5 DEF Press, Begin, Free, Active, saw

LEMMA FormFields ==
  ASSUME TypeOK, form.cmd # None
  PROVE  /\ form.cmd \in DOMAIN Commands /\ IsForm(Commands[form.cmd])
         /\ form.id \in Ids /\ form.seen \in Statuses /\ form.no \in Nat \ {0}
BY DEF TypeOK, Forms

LEMMA FormNumber == TypeOK => form.no \in Nat
BY DEF TypeOK, Forms

LEMMA SubmitFacts ==
  ASSUME TypeOK, NEW h \in Hands, Submit(h)
  PROVE  /\ ~Active(h) /\ events < MaxEvents /\ events' = events + 1
         /\ form.cmd # None /\ ~Dead(form.cmd)
         /\ form' = IF Commands[form.cmd].blind THEN NoForm(form.no) ELSE form
         /\ UNCHANGED <<screen, role, rows, list, drawer, own, made, vanished, cutShort, overtaken>>
         /\ role \in Commands[form.cmd].by
         /\ \E id \in Ids, to \in Statuses :
              /\ Inside(Commands[form.cmd]) => drawer # Closed /\ id = drawer.id
              /\ <<form.seen, to>> \in Commands[form.cmd].moves
              /\ hand' = [hand EXCEPT ![h] = Task(form.cmd, id, to, form.seen, form.no)]
              /\ Task(form.cmd, id, to, form.seen, form.no) \in Working
<1>1. form.cmd # None /\ ~Dead(form.cmd) /\ ~Active(h)
  BY DEF Submit, Free, Active
<1>2. /\ form.cmd \in DOMAIN Commands /\ IsForm(Commands[form.cmd])
      /\ form.id \in Ids /\ form.seen \in Statuses /\ form.no \in Nat
  BY <1>1, FormFields
<1> DEFINE name == form.cmd
           id == IF Inside(Commands[form.cmd]) THEN drawer.id ELSE form.id
<1>3. PICK to \in Offered(form.cmd, form.seen) : Begin(h, Task(form.cmd, id, to, form.seen, form.no))
  BY DEF Submit
<1>4. Inside(Commands[form.cmd]) => drawer # Closed
  BY DEF Submit
<1>5. id \in Ids
  BY <1>2, <1>4 DEF TypeOK, Drawers
<1>6. /\ to \in Statuses /\ role \in Commands[name].by
      /\ <<form.seen, to>> \in Commands[name].moves
  BY <1>2, OfferedType DEF TypeOK
<1>7. Calls(name) # <<>> /\ name \in Names
  <2>1. name \in Names /\ name # "open" /\ name # "load" /\ Commands[name].run # <<>>
    BY <1>2, CommandIsTyped DEF Names, CommandType, TypeOK
  <2>2. Calls(name) = Commands[name].run
    BY <2>1 DEF Calls
  <2>3. QED
    BY <2>1, <2>2
<1>8. Inside(Commands[form.cmd]) => id = drawer.id
  OBVIOUS
<1> HIDE DEF id, name
<1>9. Task(name, id, to, form.seen, form.no) \in Working
  BY <1>2, <1>5, <1>6, <1>7, FreshTask DEF TypeOK
<1>10. hand' = [hand EXCEPT ![h] = Task(form.cmd, id, to, form.seen, form.no)]
  BY <1>3 DEF Begin
<1>11. events < MaxEvents /\ events' = events + 1
  BY <1>3 DEF Begin, Free
<1>12. \E i \in Ids, t \in Statuses :
              /\ Inside(Commands[form.cmd]) => drawer # Closed /\ i = drawer.id
              /\ <<form.seen, t>> \in Commands[form.cmd].moves
              /\ hand' = [hand EXCEPT ![h] = Task(form.cmd, i, t, form.seen, form.no)]
              /\ Task(form.cmd, i, t, form.seen, form.no) \in Working
  BY <1>4, <1>5, <1>6, <1>8, <1>9, <1>10 DEF name
<1>13. role \in Commands[form.cmd].by
  BY <1>6 DEF name
<1>14. QED
  BY <1>1, <1>11, <1>12, <1>13 DEF Submit

LEMMA BlankRow == Blank \in Rows
BY DEF Blank, Rows, Statuses, Known

LEMMA SelectFacts ==
  ASSUME TypeOK, NEW h \in Hands, NEW id \in Ids, Select(h, id)
  PROVE  /\ UNCHANGED <<screen, role, rows, list, own, made, vanished, cutShort>>
         /\ Live(list[id]) /\ Page.kind # "none"
         /\ Page.opens = <<>> =>
              /\ drawer.id # id /\ drawer' = Showing(id, list[id]) /\ form' = Kept(form, drawer')
              /\ overtaken' = (overtaken \/ list[id].version < own[id].drawer)
              /\ UNCHANGED <<hand, events>>
         /\ Page.opens # <<>> =>
              /\ ~Active(h) /\ events < MaxEvents /\ events' = events + 1
              /\ drawer' = IF Page.kind = "own" THEN Showing(id, Blank) ELSE drawer
              /\ hand' = [hand EXCEPT ![h] = Task("open", id, Absent, Absent, 0)]
              /\ Task("open", id, Absent, Absent, 0) \in Working
              /\ UNCHANGED <<form, overtaken>>
<1>1. ASSUME Page.opens # <<>> PROVE Task("open", id, Absent, Absent, 0) \in Working
  <2>1. Absent \in Statuses /\ "open" \in Names /\ Calls("open") # <<>>
    BY <1>1 DEF Statuses, Known, Names, Calls
  <2>2. QED
    BY <2>1, FreshTask DEF TypeOK
<1>2. QED
  BY <1>1 DEF Select, Begin, Free, Active

LEMMA RefreshFacts ==
  ASSUME TypeOK, NEW h \in Hands, Refresh(h)
  PROVE  /\ ~Active(h) /\ events < MaxEvents /\ events' = events + 1
         /\ UNCHANGED <<screen, role, rows, list, drawer, form, own, made, vanished, cutShort, overtaken>>
         /\ hand' = [hand EXCEPT ![h] = Task("load", None, Absent, Absent, 0)]
         /\ Task("load", None, Absent, Absent, 0) \in Working
<1>1. Absent \in Statuses /\ "load" \in Names /\ Calls("load") = <<Lists>> /\ <<Lists>> # <<>>
  BY DEF Statuses, Known, Names, Calls
<1>2. Task("load", None, Absent, Absent, 0) \in Working
  BY <1>1, FreshTask DEF TypeOK
<1>3. QED
  BY <1>2 DEF Refresh, Begin, Free, Active

\* An answer either finds its record gone, or is put on the page.
LEMMA AnswerFacts ==
  ASSUME NEW h \in Hands, Answer(h)
  PROVE  /\ Active(h) /\ hand[h].phase = "answered"
         /\ UNCHANGED <<screen, role, rows, events, own, made, cutShort>>
         /\ \/ /\ Fetches(h) /\ ~Live(Brought(h))
               /\ hand' = IF Asked(h).ask = "peek" THEN Resumed(h) ELSE Dropped(h)
               /\ UNCHANGED <<list, drawer, form, vanished, overtaken>>
            \/ /\ Fetches(h) => Live(Brought(h))
               /\ hand' = Forgotten(Resumed(h), Filled(h), Drawn(h))
               /\ list' = Listed(h) /\ drawer' = Drawn(h) /\ form' = Filled(h)
               /\ vanished' = Vanished(hand[h].cmd, Listed(h))
               /\ overtaken' = (overtaken \/ Overtakes(h))
BY DEF Answer, Active

LEMMA InitType == Init => TypeOK
<1> SUFFICES ASSUME Init PROVE TypeOK
  OBVIOUS
<1>1. PICK r \in Ids, s \in Page.statuses \cup {Absent} :
        /\ rows = [id \in Ids |-> IF id = r /\ s # Absent THEN [status |-> s, version |-> 1] ELSE Blank]
        /\ drawer \in {Closed} \cup IF s = Absent \/ Page.kind = "none" THEN {} ELSE {Showing(r, rows[r])}
  BY DEF Init
<1>2. s # Absent => [status |-> s, version |-> 1] \in Rows
  BY DEF Rows, Statuses, Known
<1>3. rows \in [Ids -> Rows]
  BY <1>1, <1>2, BlankRow
<1>4. drawer \in Drawers
  BY <1>1, <1>3 DEF Drawers, Showing
<1>5. form \in Forms
  BY DEF Init, NoForm, Forms
<1>6. screen \in PageNames /\ role \in Page.roles
  BY DEF Init, PageNames
<1>7. QED
  BY <1>3, <1>4, <1>5, <1>6 DEF Init, TypeOK

LEMMA NewHands ==
  ASSUME TypeOK, NEW h \in Hands, NEW task \in Working, hand' = [hand EXCEPT ![h] = task]
  PROVE  hand' \in [Hands -> {Idle} \cup Working] /\ hand'[h] = task /\ \A g \in Hands \ {h} : hand'[g] = hand[g]
BY DEF TypeOK

LEMMA VanishedType ==
  ASSUME TypeOK, NEW name, NEW next
  PROVE  Vanished(name, next) \subseteq [id : Ids, binned : BOOLEAN]
<1> DEFINE b == Calls(name)[1].ask = "local"
           new == {[id |-> id, binned |-> b] : id \in {i \in Ids : Live(list[i]) /\ ~Live(next[i])}}
<1>1. b \in BOOLEAN
  OBVIOUS
<1>2. Vanished(name, next) = IF ~Page.sweeps THEN vanished ELSE vanished \cup new
  BY DEF Vanished
<1> HIDE DEF b
<1>3. new \subseteq [id : Ids, binned : BOOLEAN]
  BY <1>1
<1>4. QED
  BY <1>2, <1>3 DEF TypeOK

\* The types of what a step may change, given that the screen stays.
Types == /\ rows \in [Ids -> Rows] /\ list \in [Ids -> Rows] /\ drawer \in Drawers /\ form \in Forms
         /\ hand \in [Hands -> {Idle} \cup Working]
         /\ events \in Nat /\ made \in Nat /\ own \in [Ids -> [list : Nat, drawer : Nat]]
         /\ vanished \subseteq [id : Ids, binned : BOOLEAN]
         /\ cutShort \in BOOLEAN /\ overtaken \in BOOLEAN

LEMMA TypeParts ==
  ASSUME TypeOK, [Next]_vars
  PROVE  /\ Types
         /\ (/\ rows' \in [Ids -> Rows] /\ list' \in [Ids -> Rows] /\ drawer' \in Drawers /\ form' \in Forms
             /\ hand' \in [Hands -> {Idle} \cup Working]
             /\ events' \in Nat /\ made' \in Nat /\ own' \in [Ids -> [list : Nat, drawer : Nat]]
             /\ vanished' \subseteq [id : Ids, binned : BOOLEAN]
             /\ cutShort' \in BOOLEAN /\ overtaken' \in BOOLEAN)
            => TypeOK'
<1>1. screen' = screen /\ role' = role
  BY ScreenStays
<1>2. Rows' = Rows /\ Drawers' = Drawers /\ Forms' = Forms /\ Working' = Working /\ Page' = Page
  BY <1>1, SamePage
<1>3. QED
  BY <1>1, <1>2 DEF TypeOK, Types

\* The handler of a call that was lost or refused, and one that peeked.
LEMMA FailedHands ==
  ASSUME TypeOK, NEW h \in Hands, Active(h), hand' \in {Dropped(h), Resumed(h)}
  PROVE  hand' \in [Hands -> {Idle} \cup Working]
BY DroppedHands, ResumedHands

\* Every step keeps the types.
LEMMA TypeStep == TypeOK /\ [Next]_vars => TypeOK'
<1> SUFFICES ASSUME TypeOK, [Next]_vars
             PROVE  /\ rows' \in [Ids -> Rows] /\ list' \in [Ids -> Rows] /\ drawer' \in Drawers
                    /\ form' \in Forms
                    /\ hand' \in [Hands -> {Idle} \cup Working]
                    /\ events' \in Nat /\ made' \in Nat
                    /\ own' \in [Ids -> [list : Nat, drawer : Nat]]
                    /\ vanished' \subseteq [id : Ids, binned : BOOLEAN]
                    /\ cutShort' \in BOOLEAN /\ overtaken' \in BOOLEAN
  BY TypeParts
<1> USE DEF Types
<1>0. Types
  BY TypeParts
<1>n. NoForm(form.no) \in Forms
  BY FormNumber DEF NoForm, Forms
<1>k. \A d : Kept(form, d) \in Forms
  BY <1>0, KeptForm
<1>c. Closed \in Drawers
  BY DEF Drawers
<1>1. CASE Cancel
  BY <1>0, <1>1, <1>n, ForgottenHands DEF Cancel
<1>2. CASE Leave
  BY <1>0, <1>2, <1>c, <1>k, ForgottenHands DEF Leave
<1>3. CASE Others
  <2>1. PICK id \in Ids, route \in Routes : \E move \in route.moves :
       /\ Live(rows[id]) /\ move[1] = rows[id].status
       /\ rows' = [rows EXCEPT ![id] = [status |-> move[2], version |-> @.version + 1]]
    BY <1>3 DEF Others
  <2>2. PICK move \in route.moves : rows' = [rows EXCEPT ![id] = [status |-> move[2], version |-> rows[id].version + 1]]
    BY <2>1
  <2>3. PICK name \in DOMAIN Commands : \E n \in DOMAIN Commands[name].run : route = Commands[name].run[n].route
    BY DEF Routes
  <2>4. PICK n \in DOMAIN Commands[name].run : route = Commands[name].run[n].route
    BY <2>3
  <2>5. Commands[name].run[n] \in CallType(Statuses)
    BY CommandIsTyped DEF TypeOK, CommandType
  <2>6. move \in Statuses \X Statuses
    BY <2>4, <2>5 DEF CallType, RouteType
  <2>7. [status |-> move[2], version |-> rows[id].version + 1] \in Rows
    BY <1>0, <2>6 DEF Rows
  <2>8. rows' \in [Ids -> Rows]
    BY <1>0, <2>2, <2>7
  <2>9. QED
    BY <1>0, <1>3, <2>8 DEF Others
<1>4. ASSUME NEW row \in vanished,
             Sweep(row) PROVE rows' \in [Ids -> Rows] /\ vanished' \subseteq vanished
  <2>1. row.id \in Ids /\ rows[row.id] \in Rows
    BY <1>0, <1>4
  <2>2. [status |-> Gone, version |-> rows[row.id].version + 1] \in Rows
    BY <2>1 DEF Rows, Statuses, Known
  <2>3. rows' = [rows EXCEPT ![row.id] = [status |-> Gone, version |-> rows[row.id].version + 1]] \/ rows' = rows
    BY <1>4 DEF Sweep
  <2>4. QED
    BY <1>0, <1>4, <2>1, <2>2, <2>3 DEF Sweep
<1>5. CASE \E row \in vanished : Sweep(row)
  BY <1>0, <1>4, <1>5 DEF Sweep
<1>6. ASSUME NEW name \in DOMAIN Commands, Open(name) PROVE form' \in Forms
  <2>1. PICK id \in Ids : /\ Offered(name, Shown(Commands[name], id)) # {}
                          /\ form' = [cmd |-> name, id |-> id, seen |-> Shown(Commands[name], id), no |-> form.no + 1]
    BY <1>6 DEF Open
  <2>2. Shown(Commands[name], id) \in Statuses
    BY <2>1, OfferedType DEF TypeOK
  <2>3. QED
    BY <1>6, <2>1, <2>2, FormNumber DEF Open, Forms
<1>7. CASE \E name \in DOMAIN Commands : Open(name)
  BY <1>0, <1>6, <1>7 DEF Open
<1>8. ASSUME NEW h \in Hands, NEW id \in Ids, Select(h, id)
      PROVE  hand' \in [Hands -> {Idle} \cup Working] /\ drawer' \in Drawers /\ form' \in Forms
             /\ events' \in Nat /\ overtaken' \in BOOLEAN
  <2>1. \A row \in Rows : Showing(id, row) \in Drawers
    BY DEF Showing, Drawers
  <2>2. list[id] \in Rows
    BY <1>0
  <2>3. CASE Page.opens = <<>>
    <3>1. /\ drawer' = Showing(id, list[id]) /\ form' = Kept(form, drawer')
          /\ UNCHANGED <<hand, events>>
          /\ overtaken' = (overtaken \/ list[id].version < own[id].drawer)
      BY <1>8, <2>3, SelectFacts
    <3>2. overtaken' \in BOOLEAN
      BY <3>1
    <3>3. drawer' \in Drawers
      BY <2>1, <2>2, <3>1
    <3>4. form' \in Forms
      BY <1>k, <3>1
    <3>5. QED
      BY <1>0, <3>1, <3>2, <3>3, <3>4
  <2>4. CASE Page.opens # <<>>
    BY <1>0, <1>8, <2>1, <2>4, SelectFacts, BlankRow
  <2>5. QED
    BY <2>3, <2>4
<1>9. CASE \E h \in Hands, id \in Ids : Select(h, id)
  BY <1>0, <1>8, <1>9 DEF Select
<1>10. ASSUME NEW h \in Hands,
              Press(h) PROVE hand' \in [Hands -> {Idle} \cup Working] /\ events' \in Nat
  <2>1. events' = events + 1
    BY <1>10, PressFacts
  <2>2. PICK task \in Working : hand' = [hand EXCEPT ![h] = task]
    BY <1>10, PressFacts
  <2>3. QED
    BY <1>0, <2>1, <2>2, NewHands
<1>11. CASE \E h \in Hands : Press(h)
  BY <1>0, <1>10, <1>11 DEF Press
<1>12. ASSUME NEW h \in Hands, Submit(h)
       PROVE hand' \in [Hands -> {Idle} \cup Working] /\ events' \in Nat /\ form' \in Forms
  <2>1. events' = events + 1 /\ form' \in {form, NoForm(form.no)}
    BY <1>12, SubmitFacts
  <2>2. PICK task \in Working : hand' = [hand EXCEPT ![h] = task]
    BY <1>12, SubmitFacts
  <2>3. QED
    BY <1>0, <1>n, <2>1, <2>2, NewHands
<1>13. CASE \E h \in Hands : Submit(h)
  BY <1>0, <1>12, <1>13 DEF Submit
<1>14. ASSUME NEW h \in Hands,
              Refresh(h) PROVE hand' \in [Hands -> {Idle} \cup Working] /\ events' \in Nat
  BY <1>0, <1>14, RefreshFacts
<1>15. CASE \E h \in Hands : Refresh(h)
  BY <1>0, <1>14, <1>15 DEF Refresh
<1>16. ASSUME NEW h \in Hands, Write(h)
       PROVE  /\ hand' \in [Hands -> {Idle} \cup Working] /\ rows' \in [Ids -> Rows]
              /\ made' \in Nat
              /\ own' \in [Ids -> [list : Nat, drawer : Nat]]
  <2>1. Active(h) /\ Writes(h)
    BY <1>16 DEF Write, Asking, Active
  <2>2. PICK id \in Ids :
       /\ rows' = [rows EXCEPT ![id] = Result(h, id)]
       /\ own' = [own EXCEPT ![id] =
                   [drawer |-> Result(h, id).version,
                    list |-> IF Asked(h).ask = "inner" THEN own[id].list
                             ELSE Result(h, id).version]]
       /\ hand' = [hand EXCEPT ![h] = Written(h, id)]
    BY <1>16 DEF Write
  <2>3. Result(h, id) \in Rows /\ Written(h, id) \in Working
    BY <2>1, ResultRow, WrittenTask
  <2>4. Result(h, id).version \in Nat
    BY <2>3 DEF Rows
  <2>5. [drawer |-> Result(h, id).version,
         list |-> IF Asked(h).ask = "inner" THEN own[id].list ELSE Result(h, id).version] \in [list : Nat, drawer : Nat]
    BY <1>0, <2>4
  <2>6. made' \in Nat
    BY <1>0, <1>16 DEF Write
  <2> HIDE DEF Types
  <2>7. hand' \in [Hands -> {Idle} \cup Working]
    BY <1>0, <2>2, <2>3 DEF Types
  <2>8. rows' \in [Ids -> Rows]
    BY <1>0, <2>2, <2>3 DEF Types
  <2>9. own' \in [Ids -> [list : Nat, drawer : Nat]]
    BY <1>0, <2>2, <2>5 DEF Types
  <2>10. QED
    BY <2>6, <2>7, <2>8, <2>9
<1>17. CASE \E h \in Hands : Write(h)
  BY <1>0, <1>16, <1>17 DEF Write
<1>18. ASSUME NEW h \in Hands, Refuse(h) \/ Lose(h) PROVE hand' \in [Hands -> {Idle} \cup Working]
  BY <1>18, FailedHands DEF Refuse, Lose, Asking, Active
<1>19. CASE \E h \in Hands : Refuse(h)
  BY <1>0, <1>18, <1>19 DEF Refuse
<1>20. CASE \E h \in Hands : Lose(h)
  BY <1>0, <1>18, <1>20 DEF Lose
<1>21. ASSUME NEW h \in Hands, Read(h) PROVE hand' \in [Hands -> {Idle} \cup Working]
  <2>1. Active(h) /\ ~Writes(h) /\ hand' = [hand EXCEPT ![h] = Told(h)]
    BY <1>21 DEF Read, Asking, Active, Told
  <2>2. Told(h) \in Working
    BY <2>1, ToldTask
  <2>3. QED
    BY <1>0, <2>1, <2>2
<1>22. CASE \E h \in Hands : Read(h)
  BY <1>0, <1>21, <1>22 DEF Read
<1>23. ASSUME NEW h \in Hands, Answer(h)
       PROVE  /\ hand' \in [Hands -> {Idle} \cup Working] /\ list' \in [Ids -> Rows]
              /\ drawer' \in Drawers /\ form' \in Forms /\ overtaken' \in BOOLEAN
              /\ vanished' \subseteq [id : Ids, binned : BOOLEAN]
  <2>1. Active(h) /\ hand[h].phase = "answered"
    BY <1>23, AnswerFacts
  <2>2. Resumed(h) \in [Hands -> {Idle} \cup Working]
        /\ Dropped(h) \in [Hands -> {Idle} \cup Working]
    BY <2>1, ResumedHands, DroppedHands
  <2>3. Forgotten(Resumed(h), Filled(h), Drawn(h)) \in [Hands -> {Idle} \cup Working]
    BY <2>2, ForgottenHands
  <2>4. Listed(h) \in [Ids -> Rows] /\ Drawn(h) \in Drawers /\ Filled(h) \in Forms
    BY <2>1, ListedType, DrawnType, FilledType
  <2>5. Vanished(hand[h].cmd, Listed(h)) \subseteq [id : Ids, binned : BOOLEAN]
    BY VanishedType
  <2>6. CASE UNCHANGED <<list, drawer, form, vanished, overtaken>>
             /\ hand' = IF Asked(h).ask = "peek" THEN Resumed(h) ELSE Dropped(h)
    BY <1>0, <2>2, <2>6
  <2>7. CASE /\ hand' = Forgotten(Resumed(h), Filled(h), Drawn(h))
             /\ list' = Listed(h) /\ drawer' = Drawn(h) /\ form' = Filled(h)
             /\ vanished' = Vanished(hand[h].cmd, Listed(h))
             /\ overtaken' = (overtaken \/ Overtakes(h))
    BY <1>0, <2>3, <2>4, <2>5, <2>7
  <2>8. QED
    BY <1>23, <2>6, <2>7, AnswerFacts
<1>24. CASE \E h \in Hands : Answer(h)
  BY <1>0, <1>23, <1>24 DEF Answer
<1>25. CASE UNCHANGED vars
  BY <1>0, <1>25 DEF vars
<1>26. QED
  BY <1>1, <1>2, <1>3, <1>5, <1>7, <1>9, <1>11, <1>13, <1>15, <1>17, <1>19, <1>20, <1>22, <1>24,
     <1>25
     DEF Next

\* The browser, its handlers and the records behind the API stay well formed.
THEOREM TypeCorrect == Spec => []TypeOK
BY InitType, TypeStep, PTL DEF Spec
-----------------------------------------------------------------------------
(***************************************************************************)
(* What a step does to the handlers.  A handler that is not the one at     *)
(* work stays as it is, but for a flag that goes with its form or drawer.  *)
(***************************************************************************)
Same(t, u) == u = t \/ (t # Idle /\ t \in Working /\ u = Quieted(t))

LEMMA SameFields ==
  ASSUME NEW t, NEW u, Same(t, u)
  PROVE  /\ u = Idle <=> t = Idle
         /\ u.cmd = t.cmd
         /\ t # Idle => /\ u.id = t.id /\ u.to = t.to /\ u.saw = t.saw /\ u.at = t.at
                        /\ u.phase = t.phase /\ u.form = t.form /\ u.stored = t.stored
                        /\ u.reply = t.reply /\ u.inside = t.inside /\ At(u) = At(t)
<1>1. CASE u = t
  BY <1>1
<1>2. CASE t # Idle /\ t \in Working /\ u = Quieted(t)
  <2>1. /\ u.cmd = t.cmd /\ u.id = t.id /\ u.to = t.to /\ u.saw = t.saw /\ u.at = t.at
        /\ u.phase = t.phase /\ u.form = t.form /\ u.stored = t.stored
        /\ u.reply = t.reply /\ u.inside = t.inside
    BY <1>2, QuietedTask
  <2>2. u # Idle
    <3>1. t \in Tasks
      BY <1>2 DEF Working
    <3>2. QED
      BY <1>2, <3>1 DEF Quieted, Tasks, Idle
  <2>3. QED
    BY <1>2, <2>1, <2>2 DEF At
<1>3. QED
  BY <1>1, <1>2 DEF Same

LEMMA ForgottenSame ==
  ASSUME TypeOK, NEW f, NEW d, hand' = Forgotten(hand, f, d)
  PROVE  \A h \in Hands : Same(hand[h], hand'[h])
BY ForgottenHands DEF TypeOK, Same

\* A handler that is about to make its first call, for a command in a status
\* that the command starts from.
Begun(h) ==
  /\ ~Active(h)
  /\ \E name \in Names, id \in Ids \cup {None}, to \in Statuses, saw \in Statuses, no \in Nat :
       /\ hand'[h] = Task(name, id, to, saw, no) /\ hand'[h] \in Working
       /\ name = "load" \/ id \in Ids
       /\ name = "open" => list[id].status \notin {Absent, Gone}
       /\ name \notin DOMAIN Commands => no = 0
       /\ name \in DOMAIN Commands =>
            /\ role \in Commands[name].by /\ <<saw, to>> \in Commands[name].moves /\ ~Dead(name)
            /\ IF IsForm(Commands[name]) THEN no = form.no /\ form.cmd = name /\ saw = form.seen
                                         ELSE no = 0 /\ saw = Shown(Commands[name], id)
            /\ IsForm(Commands[name]) /\ Commands[name].blind => form' = NoForm(form.no)

LEMMA BegunSteps ==
  ASSUME TypeOK, NEW h \in Hands,
         Press(h) \/ Submit(h) \/ Refresh(h) \/ \E id \in Ids : Select(h, id)
  PROVE  /\ \A g \in Hands \ {h} : hand'[g] = hand[g]
         /\ hand'[h] = hand[h] \/ Begun(h)
<1>1. CASE Press(h)
  <2>1. ~Active(h)
    BY <1>1, PressFacts
  <2>2. PICK name \in DOMAIN Commands, id \in Ids, saw \in Statuses, to \in Statuses :
              /\ ~IsForm(Commands[name]) /\ ~Dead(name) /\ role \in Commands[name].by
              /\ saw = Shown(Commands[name], id) /\ <<saw, to>> \in Commands[name].moves
              /\ hand' = [hand EXCEPT ![h] = Task(name, id, to, saw, 0)]
              /\ Task(name, id, to, saw, 0) \in Working
    BY <1>1, PressFacts
  <2>3. hand'[h] = Task(name, id, to, saw, 0) /\ \A g \in Hands \ {h} : hand'[g] = hand[g]
    BY <2>2, NewHands
  <2>4. name \in Names /\ name # "open" /\ name # "load" /\ 0 \in Nat
    BY CommandIsTyped DEF Names, TypeOK
  <2>5. Begun(h)
    BY <2>1, <2>2, <2>3, <2>4 DEF Begun
  <2>6. QED
    BY <2>3, <2>5
<1>2. CASE Submit(h)
  <2>1. ~Active(h) /\ form.cmd # None /\ ~Dead(form.cmd) /\ role \in Commands[form.cmd].by
    BY <1>2, SubmitFacts
  <2>2. PICK id \in Ids, to \in Statuses :
              /\ Inside(Commands[form.cmd]) => drawer # Closed /\ id = drawer.id
              /\ <<form.seen, to>> \in Commands[form.cmd].moves
              /\ hand' = [hand EXCEPT ![h] = Task(form.cmd, id, to, form.seen, form.no)]
              /\ Task(form.cmd, id, to, form.seen, form.no) \in Working
    BY <1>2, SubmitFacts
  <2>3. hand'[h] = Task(form.cmd, id, to, form.seen, form.no) /\ \A g \in Hands \ {h} : hand'[g] = hand[g]
    BY <2>2, NewHands
  <2>4. /\ form.cmd \in DOMAIN Commands /\ IsForm(Commands[form.cmd])
        /\ form.seen \in Statuses /\ form.no \in Nat
    BY <2>1, FormFields
  <2>5. form.cmd \in Names /\ form.cmd # "open" /\ form.cmd # "load"
    BY <2>4, CommandIsTyped DEF Names, TypeOK
  <2>6. Commands[form.cmd].blind => form' = NoForm(form.no)
    BY <1>2, SubmitFacts
  <2>7. Begun(h)
    BY <2>1, <2>2, <2>3, <2>4, <2>5, <2>6 DEF Begun
  <2>8. QED
    BY <2>3, <2>7
<1>3. CASE Refresh(h)
  <2>1. ~Active(h) /\ hand' = [hand EXCEPT ![h] = Task("load", None, Absent, Absent, 0)]
        /\ Task("load", None, Absent, Absent, 0) \in Working
    BY <1>3, RefreshFacts
  <2>2. hand'[h] = Task("load", None, Absent, Absent, 0) /\ \A g \in Hands \ {h} : hand'[g] = hand[g]
    BY <2>1, NewHands
  <2>3. Absent \in Statuses /\ "load" \in Names /\ "load" \notin DOMAIN Commands
    BY CommandIsTyped DEF Statuses, Known, Names, TypeOK
  <2>4. Begun(h)
    BY <2>1, <2>2, <2>3 DEF Begun
  <2>5. QED
    BY <2>2, <2>4
<1>4. CASE \E id \in Ids : Select(h, id)
  <2>1. PICK id \in Ids : Select(h, id)
    BY <1>4
  <2>2. CASE Page.opens = <<>>
    BY <2>1, <2>2, SelectFacts
  <2>3. CASE Page.opens # <<>>
    <3>1. ~Active(h) /\ hand' = [hand EXCEPT ![h] = Task("open", id, Absent, Absent, 0)]
          /\ Task("open", id, Absent, Absent, 0) \in Working /\ Live(list[id])
      BY <2>1, <2>3, SelectFacts
    <3>2. hand'[h] = Task("open", id, Absent, Absent, 0) /\ \A g \in Hands \ {h} : hand'[g] = hand[g]
      BY <3>1, NewHands
    <3>3. Absent \in Statuses /\ "open" \in Names /\ "open" \notin DOMAIN Commands
      BY CommandIsTyped DEF Statuses, Known, Names, TypeOK
    <3>4. Begun(h)
      BY <3>1, <3>2, <3>3 DEF Begun, Live
    <3>5. QED
      BY <3>2, <3>4
  <2>4. QED
    BY <2>2, <2>3
<1>5. QED
  BY <1>1, <1>2, <1>3, <1>4

LEMMA OtherHands ==
  ASSUME TypeOK, NEW h \in Hands, Write(h) \/ Refuse(h) \/ Read(h) \/ Lose(h) \/ Answer(h)
  PROVE  /\ Active(h)
         /\ \A g \in Hands \ {h} : Same(hand[g], hand'[g])
<1>1. Active(h)
  BY DEF Write, Refuse, Read, Lose, Answer, Asking, Active
<1>2. hand \in [Hands -> {Idle} \cup Working]
  BY DEF TypeOK
<1>3. CASE Write(h) \/ Read(h)
  <2>1. \E task : hand' = [hand EXCEPT ![h] = task]
    BY <1>3 DEF Write, Read
  <2>2. QED
    BY <1>1, <1>2, <2>1 DEF Same
<1>4. CASE hand' = Dropped(h) \/ hand' = Resumed(h)
  BY <1>1, <1>4, DroppedHands, ResumedHands DEF Same
<1>5. CASE hand' = Forgotten(Resumed(h), Filled(h), Drawn(h))
  <2>1. /\ Resumed(h) \in [Hands -> {Idle} \cup Working]
        /\ \A g \in Hands \ {h} : Resumed(h)[g] = hand[g]
    BY <1>1, ResumedHands
  <2>2. QED
    BY <1>1, <1>5, <2>1, ForgottenHands DEF Same
<1>6. CASE Refuse(h)
  BY <1>4, <1>6 DEF Refuse
<1>7. CASE Lose(h)
  BY <1>4, <1>7 DEF Lose
<1>8. CASE Answer(h)
  BY <1>4, <1>5, <1>8, AnswerFacts
<1>9. QED
  BY <1>3, <1>6, <1>7, <1>8

LEMMA HandSteps ==
  ASSUME TypeOK, [Next]_vars, NEW h \in Hands
  PROVE  \/ Same(hand[h], hand'[h])
         \/ Begun(h)
         \/ Write(h) \/ Refuse(h) \/ Read(h) \/ Lose(h) \/ Answer(h)
<1>1. ASSUME hand' = hand PROVE Same(hand[h], hand'[h])
  BY <1>1 DEF Same
<1>2. CASE Cancel \/ Leave
  BY <1>2, ForgottenSame DEF Cancel, Leave
<1>3. CASE Others \/ (\E row \in vanished : Sweep(row)) \/ (\E name \in DOMAIN Commands : Open(name)) \/ UNCHANGED vars
  BY <1>1, <1>3 DEF Others, Sweep, Open, vars
<1>4. ASSUME NEW g \in Hands, Press(g) \/ Submit(g) \/ Refresh(g) \/ \E id \in Ids : Select(g, id)
      PROVE  Same(hand[h], hand'[h]) \/ Begun(h)
  BY <1>4, BegunSteps DEF Same
<1>5. ASSUME NEW g \in Hands, Write(g) \/ Refuse(g) \/ Read(g) \/ Lose(g) \/ Answer(g), g # h
      PROVE  Same(hand[h], hand'[h])
  BY <1>5, OtherHands
<1>6. QED
  BY <1>2, <1>3, <1>4, <1>5 DEF Next

\* No two handlers begin at once.
LEMMA OneBegins ==
  ASSUME TypeOK, [Next]_vars, NEW g \in Hands, NEW h \in Hands, Begun(g), Begun(h)
  PROVE  g = h
<1>1. \A i \in Hands : Begun(i) => ~Same(hand[i], hand'[i]) /\ ~Active(i)
  <2>1. ASSUME NEW i \in Hands, Begun(i) PROVE hand[i] = Idle /\ hand'[i] # Idle
    <3>1. hand[i] = Idle /\ hand'[i] \in Working
      BY <2>1 DEF Begun, Active
    <3>2. QED
      BY <3>1, WorkingIsBusy DEF TypeOK
  <2>2. QED
    BY <2>1, SameFields DEF Active
<1>2. CASE hand' = hand \/ Cancel \/ Leave
  BY <1>1, <1>2, ForgottenSame DEF Same, Cancel, Leave
<1>3. ASSUME NEW i \in Hands,
             Press(i) \/ Submit(i) \/ Refresh(i) \/ \E id \in Ids : Select(i, id) PROVE g = h
  BY <1>1, <1>3, BegunSteps DEF Same
<1>4. ASSUME NEW i \in Hands, Write(i) \/ Refuse(i) \/ Read(i) \/ Lose(i) \/ Answer(i) PROVE g = h
  BY <1>1, <1>4, OtherHands
<1>5. CASE Others \/ (\E row \in vanished : Sweep(row)) \/ (\E name \in DOMAIN Commands : Open(name)) \/ UNCHANGED vars
  BY <1>2, <1>5 DEF Others, Sweep, Open, vars
<1>6. QED
  BY <1>2, <1>3, <1>4, <1>5 DEF Next

LEMMA CutShortStays == ASSUME [Next]_vars, cutShort PROVE cutShort'
BY DEF Next, vars, Cancel, Leave, Others, Sweep, Open, Select, Press, Submit, Refresh, Write,
       Refuse, Read, Lose, Answer

\* What the handler at work is after its step.
LEMMA OwnStep ==
  ASSUME TypeOK, NEW h \in Hands
  PROVE  /\ Write(h) => \E id \in Ids : hand'[h] = Written(h, id) /\ Writes(h) /\ Active(h)
         /\ Read(h) => hand'[h] = Told(h) /\ ~Writes(h) /\ Active(h)
         /\ (Refuse(h) \/ Lose(h) \/ Answer(h)) /\ Active(h) =>
              \/ hand'[h] = Idle
              \/ \E n \in DOMAIN Calls(hand[h].cmd) :
                   /\ n > hand[h].at /\ Same(Going(h, n), hand'[h]) /\ Going(h, n) \in Working
                   /\ \/ n = hand[h].at + 1 /\ (hand[h].phase = "answered" \/ ~Writes(h))
                      \/ n = Last(h) /\ Calls(hand[h].cmd)[n].ask = "always"
                   /\ Refuse(h) => n = Last(h) /\ Calls(hand[h].cmd)[n].ask = "always"
<1>1. hand \in [Hands -> {Idle} \cup Working]
  BY DEF TypeOK
<1>2. ASSUME Write(h) PROVE \E id \in Ids : hand'[h] = Written(h, id) /\ Writes(h) /\ Active(h)
  BY <1>1, <1>2 DEF Write, Asking, Active
<1>3. ASSUME Read(h) PROVE hand'[h] = Told(h) /\ ~Writes(h) /\ Active(h)
  BY <1>1, <1>3 DEF Read, Told, Asking, Active
<1> DEFINE P(task) == 
              \/ task = Idle
              \/ \E n \in DOMAIN Calls(hand[h].cmd) :
                   /\ n > hand[h].at /\ Same(Going(h, n), task) /\ Going(h, n) \in Working
                   /\ \/ n = hand[h].at + 1
                      \/ n = Last(h) /\ Calls(hand[h].cmd)[n].ask = "always"
           Q(task) == 
              \/ task = Idle
              \/ \E n \in DOMAIN Calls(hand[h].cmd) :
                   /\ n > hand[h].at /\ Same(Going(h, n), task) /\ Going(h, n) \in Working
                   /\ n = Last(h) /\ Calls(hand[h].cmd)[n].ask = "always"
<1>4. ASSUME Active(h) PROVE Q(Dropped(h)[h])
  <2>1. Last(h) \in DOMAIN Calls(hand[h].cmd) /\ hand[h].at \in Nat /\ Last(h) \in Nat
    BY <1>4, WorkingTask, CallType1 DEF TypeOK
  <2>2. CASE Dropped(h)[h] = Idle
    BY <2>2
  <2>3. CASE /\ Calls(hand[h].cmd)[Last(h)].ask = "always" /\ hand[h].at < Last(h)
             /\ Dropped(h)[h] = Going(h, Last(h))
    BY <1>4, <2>1, <2>3, GoingTask DEF Same
  <2>4. QED
    BY <1>4, <2>2, <2>3, DroppedHands
<1>5. ASSUME Active(h) PROVE P(Resumed(h)[h])
  <2>1. hand[h].at \in Nat
    BY <1>5, WorkingTask
  <2>2. CASE hand[h].at = Last(h)
    BY <1>5, <2>2, ResumedHands
  <2>3. CASE hand[h].at # Last(h)
    BY <1>5, <2>1, <2>3, ResumedHands, GoingTask DEF Same
  <2>4. QED
    BY <2>2, <2>3
<1>6. ASSUME Refuse(h), Active(h) PROVE Q(hand'[h])
  BY <1>4, <1>6 DEF Refuse
<1> DEFINE R(task) ==
              \/ task = Idle
              \/ \E n \in DOMAIN Calls(hand[h].cmd) :
                   /\ n > hand[h].at /\ Same(Going(h, n), task) /\ Going(h, n) \in Working
                   /\ \/ n = hand[h].at + 1 /\ (hand[h].phase = "answered" \/ ~Writes(h))
                      \/ n = Last(h) /\ Calls(hand[h].cmd)[n].ask = "always"
<1>7. ASSUME Lose(h), Active(h) PROVE R(hand'[h])
  <2>1. Asked(h).ask \in {"lists", "peek"} => ~Writes(h)
    BY DEF Writes, Writing
  <2>2. CASE Asked(h).ask \in {"lists", "peek"}
    BY <1>5, <1>7, <2>1, <2>2 DEF Lose
  <2>3. CASE Asked(h).ask \notin {"lists", "peek"}
    BY <1>4, <1>7, <2>3 DEF Lose
  <2>4. QED
    BY <2>2, <2>3
<1>10. ASSUME Answer(h), Active(h) PROVE hand[h].phase = "answered"
  BY <1>10 DEF Answer
<1>8. ASSUME Answer(h), Active(h) PROVE P(hand'[h])
  <2>1. CASE hand' \in {Resumed(h), Dropped(h)}
    BY <1>4, <1>5, <1>8, <2>1
  <2>2. CASE hand' = Forgotten(Resumed(h), Filled(h), Drawn(h))
    <3>1. Resumed(h) \in [Hands -> {Idle} \cup Working]
      BY <1>8, ResumedHands
    <3>2. \/ hand'[h] = Resumed(h)[h]
          \/ /\ Resumed(h)[h] # Idle
             /\ hand'[h] = Quieted(Resumed(h)[h])
      BY <2>2, <3>1, ForgottenHands
    <3>3. CASE hand[h].at = Last(h)
      BY <1>8, <3>2, <3>3, ResumedHands
    <3>4. CASE hand[h].at # Last(h)
      <4>1. /\ hand[h].at + 1 \in DOMAIN Calls(hand[h].cmd) /\ hand[h].at \in Nat
            /\ Resumed(h)[h] = Going(h, hand[h].at + 1)
        BY <1>8, <3>4, ResumedHands, WorkingTask
      <4>2. Going(h, hand[h].at + 1) \in Working
        BY <1>8, <4>1, GoingTask
      <4>3. Same(Going(h, hand[h].at + 1), hand'[h])
        BY <3>2, <4>1, <4>2 DEF Same
      <4>4. QED
        BY <4>1, <4>2, <4>3
    <3>5. QED
      BY <3>3, <3>4
  <2>3. QED
    BY <1>8, <2>1, <2>2, AnswerFacts
<1>9. QED
  BY <1>2, <1>3, <1>6, <1>7, <1>8, <1>10

LEMMA WriteFacts ==
  ASSUME TypeOK, NEW h \in Hands, Write(h)
  PROVE  /\ Active(h) /\ Writes(h) /\ hand[h].phase = "asked"
         /\ UNCHANGED <<screen, role, list, drawer, form, events, vanished, cutShort, overtaken>>
         /\ made' = IF Makes(h) /\ hand[h].form = form.no THEN made + 1 ELSE made
         /\ \E id \in Ids :
              /\ IF Makes(h) THEN rows[id] = Blank ELSE id = hand[h].id
              /\ Passes(h, id)
              /\ rows'[id] = Result(h, id) /\ \A i \in Ids \ {id} : rows'[i] = rows[i]
              /\ own'[id] = [drawer |-> Result(h, id).version,
                             list |-> IF Asked(h).ask = "inner" THEN own[id].list ELSE Result(h, id).version]
              /\ \A i \in Ids \ {id} : own'[i] = own[i]
              /\ hand'[h] = Written(h, id) /\ hand' = [hand EXCEPT ![h] = Written(h, id)]
<1>1. rows \in [Ids -> Rows] /\ hand \in [Hands -> {Idle} \cup Working]
      /\ own \in [Ids -> [list : Nat, drawer : Nat]]
  BY DEF TypeOK
<1>2. QED
  BY <1>1 DEF Write, Asking, Active
-----------------------------------------------------------------------------
(***************************************************************************)
(* What a handler has done so far: a handler of a command was allowed to   *)
(* whoever began it, knows whether it has written, and takes its record to *)
(* be in the status that its last move has left.                           *)
(***************************************************************************)
Writers == {"edit", "inner", "move"}

Passed(task) == IF task.phase = "answered" THEN task.at ELSE task.at - 1
Ran(task, asks) == \E n \in 1 .. Passed(task) : Calls(task.cmd)[n].ask \in asks

Honest(task) == task # Idle =>
  IF task.cmd \notin DOMAIN Commands THEN task.form = 0 /\ ~task.stored
  ELSE LET c == Commands[task.cmd] IN
    /\ role \in c.by /\ (task.form # 0 <=> IsForm(c))
    /\ \E move \in c.moves : move[2] = task.to
    /\ At(task).ask # "always" =>
         /\ Ran(task, Writers) => task.stored
         /\ \E move \in c.moves : /\ move[2] = task.to
                                  /\ task.saw = IF Ran(task, {"move"}) THEN task.to ELSE move[1]

TaskInv == \A h \in Hands : Honest(hand[h])

\* The calls passed by a task that is followed by another: no write, or a write.
LEMMA RanOn ==
  ASSUME NEW t, NEW u, u.cmd = t.cmd, Passed(t) \in Nat,
         Passed(u) = Passed(t) + 1, NEW asks
  PROVE  Ran(u, asks) <=> Ran(t, asks) \/ Calls(t.cmd)[Passed(u)].ask \in asks
<1>1. 1 .. Passed(u) = (1 .. Passed(t)) \cup {Passed(u)}
  OBVIOUS
<1>2. QED
  BY <1>1 DEF Ran

LEMMA RanSame ==
  ASSUME NEW t, NEW u, u.cmd = t.cmd, Passed(u) = Passed(t), NEW asks
  PROVE  Ran(u, asks) <=> Ran(t, asks)
BY DEF Ran

LEMMA HonestStays ==
  ASSUME [Next]_vars, NEW h
  PROVE  Honest(hand[h])' <=> Honest(hand'[h])
<1>1. screen' = screen /\ role' = role
  BY ScreenStays
<1>2. /\ Commands' = Commands /\ \A name : Calls(name)' = Calls(name)
      /\ \A task : At(task)' = At(task)
  BY <1>1, SamePage
<1>3. QED
  BY <1>1, <1>2 DEF Honest, Ran, Passed

LEMMA HonestSame == ASSUME NEW t, NEW u, Same(t, u), Honest(t) PROVE Honest(u)
<1>1. CASE t = Idle
  BY <1>1, SameFields DEF Honest
<1>2. CASE t # Idle
  <2>1. /\ u.cmd = t.cmd /\ u.to = t.to /\ u.saw = t.saw /\ u.at = t.at
        /\ u.phase = t.phase /\ u.form = t.form /\ u.stored = t.stored /\ At(u) = At(t)
    BY <1>2, SameFields
  <2>2. \A asks : Ran(u, asks) <=> Ran(t, asks)
    BY <2>1 DEF Ran, Passed
  <2>3. QED
    BY <1>2, <2>1, <2>2 DEF Honest
<1>3. QED
  BY <1>1, <1>2

LEMMA HonestBegun ==
  ASSUME TypeOK, NEW h \in Hands, Begun(h)
  PROVE  Honest(hand'[h])
<1>1. PICK name \in Names, id \in Ids \cup {None}, to \in Statuses, saw \in Statuses, no \in Nat :
       /\ hand'[h] = Task(name, id, to, saw, no)
       /\ name \notin DOMAIN Commands => no = 0
       /\ name \in DOMAIN Commands =>
            /\ role \in Commands[name].by /\ <<saw, to>> \in Commands[name].moves
            /\ IF IsForm(Commands[name]) THEN no = form.no /\ form.cmd = name /\ saw = form.seen
                                         ELSE no = 0 /\ saw = Shown(Commands[name], id)
  BY DEF Begun
<1> DEFINE u == hand'[h]
<1>2. u.cmd = name /\ u.to = to /\ u.saw = saw /\ u.form = no /\ u.stored = FALSE /\ u.at = 1
      /\ u.phase = "asked"
  BY <1>1 DEF Task
<1>3. \A asks : ~Ran(u, asks)
  BY <1>2 DEF Ran, Passed
<1>4. CASE name \notin DOMAIN Commands
  BY <1>1, <1>2, <1>4 DEF Honest
<1>5. CASE name \in DOMAIN Commands
  <2>1. IsForm(Commands[name]) => no # 0
    <3>1. name # None
      BY <1>5, CommandIsTyped DEF TypeOK
    <3>2. QED
      BY <1>1, <1>5, <3>1, FormFields
  <2>2. ~IsForm(Commands[name]) => no = 0
    BY <1>1, <1>5
  <2>3. \E move \in Commands[name].moves : move[1] = saw /\ move[2] = to
    BY <1>1, <1>5
  <2>4. role \in Commands[name].by
    BY <1>1, <1>5
  <2> HIDE DEF u
  <2>5. ~Ran(u, Writers) /\ ~Ran(u, {"move"})
    BY <1>3
  <2>6. \E move \in Commands[name].moves : move[2] = u.to /\ u.saw = move[1]
    BY <1>2, <2>3
  <2>7. Honest(u)
    BY <1>2, <1>5, <2>1, <2>2, <2>4, <2>5, <2>6 DEF Honest
  <2>8. QED
    BY <2>7 DEF u
<1>6. QED
  BY <1>4, <1>5

LEMMA HonestWritten ==
  ASSUME TypeOK, NEW h \in Hands, Honest(hand[h]), Write(h)
  PROVE  Honest(hand'[h])
<1> DEFINE t == hand[h]
           u == hand'[h]
<1>1. Active(h) /\ Writes(h) /\ t.phase = "asked"
  BY WriteFacts
<1>2. PICK id \in Ids : u = Written(h, id)
  BY WriteFacts
<1>3. /\ u.phase = "answered" /\ u.stored
      /\ u.saw = IF Asked(h).ask = "move" THEN t.to ELSE t.saw
      /\ u.cmd = t.cmd /\ u.to = t.to /\ u.at = t.at /\ u.form = t.form
  BY <1>1, <1>2, WrittenTask
<1>4. t.at \in Nat \ {0} /\ Asked(h) = Calls(t.cmd)[t.at]
  BY <1>1, WorkingTask
<1>5. Passed(t) = t.at - 1 /\ Passed(u) = t.at /\ Passed(t) \in Nat /\ Passed(u) = Passed(t) + 1
  BY <1>1, <1>3, <1>4 DEF Passed
<1>6. Ran(u, {"move"}) <=> Ran(t, {"move"}) \/ Asked(h).ask = "move"
  <2> HIDE DEF t, u
  <2>1. QED
    BY <1>3, <1>4, <1>5, RanOn
<1>7. At(u) = Asked(h) /\ At(t) = Asked(h) /\ Asked(h).ask # "always"
  BY <1>1, <1>3 DEF At, Asked, Writes, Writing
<1>8. t.cmd \in DOMAIN Commands
  <2>1. screen \in PageNames /\ t.cmd \in Names /\ t.at \in DOMAIN Calls(t.cmd)
    BY <1>1, WorkingTask DEF TypeOK
  <2>2. t.cmd \in {"open", "load"} => ~Writing(Asked(h))
    BY <1>4, <2>1, CallsType
  <2>3. QED
    BY <1>1, <2>1, <2>2 DEF Names, Writes
<1>9. t # Idle /\ u # Idle
  BY <1>1, <1>2, WrittenTask, WorkingIsBusy DEF Active, TypeOK
<1> HIDE DEF t, u
<1>10. Honest(t)
  BY DEF t
<1>11. PICK move \in Commands[t.cmd].moves : move[2] = t.to /\ t.saw = IF Ran(t, {"move"}) THEN t.to ELSE move[1]
  BY <1>7, <1>8, <1>9, <1>10 DEF Honest
<1>12. u.saw = IF Ran(u, {"move"}) THEN u.to ELSE move[1]
  BY <1>3, <1>6, <1>11
<1>13. Honest(u)
  BY <1>3, <1>7, <1>8, <1>9, <1>10, <1>11, <1>12 DEF Honest
<1>14. QED
  BY <1>13 DEF u

LEMMA HonestTold ==
  ASSUME TypeOK, NEW h \in Hands, Honest(hand[h]), Read(h)
  PROVE  Honest(hand'[h])
<1> DEFINE t == hand[h]
           u == hand'[h]
<1>1. u = Told(h) /\ ~Writes(h) /\ Active(h) /\ t.phase = "asked"
  BY OwnStep DEF Read, Asking
<1>2. /\ u.phase = "answered" /\ u.cmd = t.cmd /\ u.to = t.to /\ u.saw = t.saw /\ u.at = t.at
      /\ u.form = t.form
      /\ u.stored = t.stored
  BY <1>1, ToldTask
<1>3. t.at \in Nat \ {0} /\ Asked(h) = Calls(t.cmd)[t.at]
  BY <1>1, WorkingTask
<1>4. Passed(t) = t.at - 1 /\ Passed(u) = t.at /\ Passed(t) \in Nat /\ Passed(u) = Passed(t) + 1
  BY <1>1, <1>2, <1>3 DEF Passed
<1>5. \A asks \in SUBSET Writers : Ran(u, asks) <=> Ran(t, asks)
  <2>1. Asked(h).ask \notin Writers
    BY <1>1 DEF Writes, Writing, Writers
  <2> HIDE DEF t, u
  <2>2. ASSUME NEW asks \in SUBSET Writers PROVE Ran(u, asks) <=> Ran(t, asks)
    BY <1>2, <1>3, <1>4, <2>1, RanOn
  <2>3. QED
    BY <2>2
<1>6. At(u) = At(t)
  BY <1>2 DEF At
<1>7. t # Idle /\ u # Idle
  BY <1>1, ToldTask, WorkingIsBusy DEF Active, TypeOK
<1>8. Writers \in SUBSET Writers /\ {"move"} \in SUBSET Writers
  BY DEF Writers
<1> HIDE DEF t, u
<1>9. Honest(t)
  BY DEF t
<1>10. Honest(u)
  BY <1>2, <1>5, <1>6, <1>7, <1>8, <1>9 DEF Honest
<1>11. QED
  BY <1>10 DEF u

LEMMA HonestGoing ==
  ASSUME TypeOK, NEW h \in Hands, Honest(hand[h]), Active(h), Refuse(h) \/ Lose(h) \/ Answer(h)
  PROVE  Honest(hand'[h])
<1>1. CASE hand'[h] = Idle
  BY <1>1 DEF Honest
<1>2. CASE hand'[h] # Idle
  <2>1. PICK n \in DOMAIN Calls(hand[h].cmd) :
                   /\ n > hand[h].at /\ Same(Going(h, n), hand'[h]) /\ Going(h, n) \in Working
                   /\ \/ n = hand[h].at + 1 /\ (hand[h].phase = "answered" \/ ~Writes(h))
                      \/ n = Last(h) /\ Calls(hand[h].cmd)[n].ask = "always"
    BY <1>2, OwnStep
  <2> DEFINE t == hand[h]
             u == Going(h, n)
  <2>2. /\ u.at = n /\ u.phase = "asked" /\ u.cmd = t.cmd /\ u.to = t.to /\ u.saw = t.saw
        /\ u.form = t.form /\ u.stored = t.stored
    BY GoingTask
  <2>3. t.at \in Nat \ {0} /\ Asked(h) = Calls(t.cmd)[t.at] /\ At(t) = Asked(h)
        /\ t.phase \in {"asked", "answered"}
        /\ t.cmd \in Names /\ t.at \in DOMAIN Calls(t.cmd) /\ screen \in PageNames
    BY WorkingTask DEF TypeOK, Tasks, Asked
  <2>4. At(u) = Calls(t.cmd)[n]
    BY <2>2 DEF At
  <2>5. At(t).ask # "always"
    <3>1. At(t).ask = "always" => t.at = Len(Calls(t.cmd))
      BY <2>3, CallIsOrderly
    <3>2. n \in Nat /\ n <= Len(Calls(t.cmd)) /\ Len(Calls(t.cmd)) \in Nat
      BY <2>3, CallType1
    <3>3. QED
      BY <2>1, <2>3, <3>1, <3>2
  <2>6. ASSUME At(u).ask # "always", NEW asks \in SUBSET Writers PROVE Ran(u, asks) <=> Ran(t, asks)
    <3>1. n = t.at + 1 /\ Passed(u) = t.at
      BY <2>1, <2>2, <2>3, <2>4, <2>6 DEF Passed
    <3>2. CASE t.phase = "answered"
      <4>1. Passed(u) = Passed(t)
        BY <3>1, <3>2 DEF Passed
      <4> HIDE DEF t, u
      <4>2. QED
        BY <2>2, <4>1, RanSame
    <3>3. CASE t.phase = "asked"
      <4>1. ~Writes(h)
        BY <2>1, <2>4, <2>6, <3>3
      <4>2. Asked(h).ask \notin asks
        BY <4>1 DEF Writes, Writing, Writers
      <4>3. Passed(t) \in Nat /\ Passed(u) = Passed(t) + 1 /\ Calls(t.cmd)[Passed(u)] = Asked(h)
        BY <2>3, <3>1, <3>3 DEF Passed
      <4> HIDE DEF t, u
      <4>4. QED
        BY <2>2, <4>2, <4>3, RanOn
    <3>4. QED
      BY <2>3, <3>2, <3>3
  <2>7. Writers \in SUBSET Writers /\ {"move"} \in SUBSET Writers
    BY DEF Writers
  <2>8. t # Idle /\ Honest(t)
    BY DEF Active
  <2> HIDE DEF t, u
  <2>9. Honest(u)
    BY <2>2, <2>5, <2>6, <2>7, <2>8 DEF Honest
  <2>10. QED
    BY <2>1, <2>9, HonestSame DEF u
<1>3. QED
  BY <1>1, <1>2

LEMMA TaskStep ==
  ASSUME TypeOK, TaskInv, [Next]_vars
  PROVE  TaskInv'
<1>1. SUFFICES ASSUME NEW h \in Hands PROVE Honest(hand'[h])
  BY HonestStays DEF TaskInv
<1>2. Honest(hand[h])
  BY DEF TaskInv
<1>3. CASE Refuse(h) \/ Lose(h) \/ Answer(h)
  BY <1>2, <1>3, HonestGoing, OtherHands
<1>4. QED
  BY <1>2, <1>3, HandSteps, HonestSame, HonestBegun, HonestWritten, HonestTold
-----------------------------------------------------------------------------
(***************************************************************************)
(* Rows only move on, and no row that is shown or on its way is newer than *)
(* the record; a row says that its record is gone only when it is, or when *)
(* the page has taken the row away by itself.                              *)
(***************************************************************************)
Fits(row, now) ==
  /\ row.version <= now.version
  /\ row.version = 0 => ~Live(row)
  /\ row.status = Absent => row.version = 0
  /\ row.version = now.version => row.status \in {now.status, Gone}
Copies(row, now) == Fits(row, now) /\ (row.status = Gone => now.status = Gone)

MovesOn(now, next) ==
  \/ next = now
  \/ next.version = now.version + 1 /\ next.status # Absent /\ now.status # Gone

\* What an answer on its way says of the records.
Truthful(task) == task # Idle /\ task.phase = "answered" =>
  /\ \A id \in Ids : (About(At(task)) => task.id = id) => Copies(task.reply[id], rows[id])
  /\ Writing(At(task)) => /\ task.reply[task.id].version >= 1
                          /\ task.reply[task.id].status = Gone => task.to = Gone

\* The record of a handler that wrote it, or opens it, was there.
Finds(task) == task # Idle /\ (task.stored \/ task.cmd = "open") =>
  /\ rows[task.id].version >= 1
  /\ task.phase = "answered" /\ About(At(task)) => task.reply[task.id].version >= 1

VersionInv ==
  /\ \A id \in Ids : /\ Copies(rows[id], rows[id]) /\ Fits(list[id], rows[id])
                     /\ own[id].list <= own[id].drawer /\ own[id].drawer <= rows[id].version
  /\ drawer # Closed => rows[drawer.id].version >= 1
  /\ \A h \in Hands : Truthful(hand[h]) /\ Finds(hand[h])

LEMMA Onward ==
  ASSUME NEW row, NEW now, NEW next, row.version \in Nat, now.version \in Nat, next.version \in Nat,
         MovesOn(now, next)
  PROVE  /\ Fits(row, now) => Fits(row, next)
         /\ Copies(row, now) => Copies(row, next)
         /\ now.version <= next.version
BY DEF MovesOn, Fits, Copies

\* What a write of a handler leaves.
LEMMA PassedRow ==
  ASSUME TypeOK, NEW h \in Hands, Active(h), NEW id \in Ids, Passes(h, id)
  PROVE  /\ MovesOn(rows[id], Result(h, id)) /\ Result(h, id).version = rows[id].version + 1
         /\ rows[id].status # Gone /\ Result(h, id).status # Absent
         /\ Result(h, id).status = Gone => hand[h].to = Gone
<1> DEFINE name == hand[h].cmd
           n == hand[h].at
           call == Calls(name)[n]
<1>1. screen \in PageNames /\ name \in Names /\ n \in DOMAIN Calls(name) /\ Asked(h) = call
  BY WorkingTask DEF TypeOK
<1>2. \A move \in call.route.moves : move[1] # Gone /\ move[2] # Absent
  <2> HIDE DEF name, n
  <2>1. QED
    BY <1>1, CallIsOrderly
<1>3. <<rows[id].status, Result(h, id).status>> \in call.route.moves
  BY <1>1 DEF Passes
<1> HIDE DEF call
<1>4. rows[id].status # Gone /\ Result(h, id).status # Absent
  BY <1>2, <1>3
<1>5. Result(h, id).status = Gone => hand[h].to = Gone
  BY <1>4 DEF Result
<1>6. QED
  BY <1>4, <1>5 DEF MovesOn, Result

LEMMA RowsMoveOn ==
  ASSUME TypeOK, [Next]_vars
  PROVE  \A id \in Ids : /\ MovesOn(rows[id], rows'[id]) /\ rows[id] \in Rows /\ rows'[id] \in Rows
                         /\ rows[id].version \in Nat /\ rows'[id].version \in Nat
<1>1. rows \in [Ids -> Rows] /\ rows' \in [Ids -> Rows]
  <2>1. TypeOK'
    BY TypeStep
  <2>2. Rows' = Rows
    BY ScreenStays, SamePage
  <2>3. QED
    BY <2>1, <2>2 DEF TypeOK
<1>2. CASE Others
  <2>1. PICK id \in Ids, route \in Routes : \E move \in route.moves :
       /\ Live(rows[id]) /\ move[1] = rows[id].status
       /\ rows' = [rows EXCEPT ![id] = [status |-> move[2], version |-> @.version + 1]]
    BY <1>2 DEF Others
  <2>2. PICK move \in route.moves : Live(rows[id]) /\ rows' = [rows EXCEPT ![id] = [status |-> move[2], version |-> rows[id].version + 1]]
    BY <2>1
  <2>3. PICK name \in DOMAIN Commands : \E n \in DOMAIN Commands[name].run : route = Commands[name].run[n].route
    BY DEF Routes
  <2>4. PICK n \in DOMAIN Commands[name].run : route = Commands[name].run[n].route
    BY <2>3
  <2>5. Calls(name) = Commands[name].run /\ name \in Names /\ screen \in PageNames
    BY CommandIsTyped DEF Calls, Names, TypeOK
  <2>6. move[2] # Absent
    BY <2>4, <2>5, CallIsOrderly
  <2>7. rows'[id] = [status |-> move[2], version |-> rows[id].version + 1]
    BY <1>1, <2>2
  <2>8. MovesOn(rows[id], rows'[id])
    BY <2>2, <2>6, <2>7 DEF MovesOn, Live
  <2>9. QED
    BY <1>1, <2>2, <2>8 DEF MovesOn, Rows
<1>3. CASE \E row \in vanished : Sweep(row)
  <2>1. PICK row \in vanished : Sweep(row)
    BY <1>3
  <2>2. row.id \in Ids
    BY DEF TypeOK
  <2>3. CASE Live(rows[row.id])
    <3>1. rows' = [rows EXCEPT ![row.id] = [status |-> Gone, version |-> rows[row.id].version + 1]]
      BY <2>1, <2>3 DEF Sweep
    <3>2. MovesOn(rows[row.id], rows'[row.id])
      BY <1>1, <2>2, <2>3, <3>1 DEF MovesOn, Live, Gone, Absent
    <3>3. QED
      BY <1>1, <3>1, <3>2 DEF MovesOn, Rows
  <2>4. CASE ~Live(rows[row.id])
    BY <1>1, <2>1, <2>4 DEF Sweep, MovesOn, Rows
  <2>5. QED
    BY <2>3, <2>4
<1>4. CASE \E h \in Hands : Write(h)
  <2>1. PICK h \in Hands : Write(h)
    BY <1>4
  <2>2. PICK id \in Ids : Passes(h, id) /\ rows'[id] = Result(h, id) /\ \A i \in Ids \ {id} : rows'[i] = rows[i]
    BY <2>1, WriteFacts
  <2>3. MovesOn(rows[id], rows'[id])
    BY <2>1, <2>2, WriteFacts, PassedRow
  <2>4. QED
    BY <1>1, <2>2, <2>3 DEF MovesOn, Rows
<1>5. CASE rows' = rows
  BY <1>1, <1>5 DEF MovesOn, Rows
<1>6. rows' = rows \/ Others \/ (\E row \in vanished : Sweep(row)) \/ (\E h \in Hands : Write(h))
  BY DEF Next, vars, Cancel, Leave, Open, Select, Press, Submit, Refresh, Refuse, Read, Lose, Answer
<1>7. QED
  BY <1>2, <1>3, <1>4, <1>5, <1>6

\* An answer that is put on the page.
Lands(h) ==
  /\ Active(h) /\ hand[h].phase = "answered" /\ (Fetches(h) => Live(Brought(h)))
  /\ hand' = Forgotten(Resumed(h), Filled(h), Drawn(h))
  /\ list' = Listed(h) /\ drawer' = Drawn(h) /\ form' = Filled(h)
  /\ vanished' = Vanished(hand[h].cmd, Listed(h))
  /\ overtaken' = (overtaken \/ Overtakes(h))
  /\ UNCHANGED <<screen, role, rows, events, own, made, cutShort>>

LEMMA ListSteps ==
  ASSUME [Next]_vars
  PROVE  list' = list \/ \E h \in Hands : Answer(h) /\ Lands(h)
<1>1. ASSUME NEW h \in Hands, Answer(h) PROVE list' = list \/ (Answer(h) /\ Lands(h))
  BY <1>1, AnswerFacts DEF Lands
<1>2. QED
  BY <1>1 DEF Next, vars, Cancel, Leave, Others, Sweep, Open, Select, Press, Submit, Refresh, Write,
       Refuse, Read, Lose

LEMMA DrawerSteps ==
  ASSUME [Next]_vars
  PROVE  \/ drawer' = drawer
         \/ Leave
         \/ \E h \in Hands, id \in Ids : Select(h, id)
         \/ \E h \in Hands : Answer(h) /\ Lands(h)
<1>1. ASSUME NEW h \in Hands, Answer(h) PROVE drawer' = drawer \/ (Answer(h) /\ Lands(h))
  BY <1>1, AnswerFacts DEF Lands
<1>2. QED
  BY <1>1 DEF Next, vars, Cancel, Others, Sweep, Open, Press, Submit, Refresh, Write,
       Refuse, Read, Lose

\* The rows of the page after an answer, one by one.
LEMMA ListedRow ==
  ASSUME TypeOK, NEW h \in Hands, Active(h), hand[h].phase = "answered", NEW id \in Ids
  PROVE  \/ Brings(h, "list") /\ ~About(Asked(h)) /\ Listed(h)[id] = hand[h].reply[id]
         \/ /\ ~Brings(h, "list") /\ Brings(h, "patch") /\ About(Asked(h)) /\ Writing(Asked(h)) /\ hand[h].id = id
            /\ Listed(h)[id] = Brought(h) /\ Brought(h) = hand[h].reply[id]
         \/ /\ ~Brings(h, "list") /\ ~Brings(h, "patch") /\ Brings(h, "drop") /\ hand[h].id = id
            /\ Listed(h)[id].status = Gone /\ Listed(h)[id].version = list[id].version
         \/ ~Brings(h, "list") /\ (Brings(h, "patch") => hand[h].id # id) /\ Listed(h)[id] = list[id]
<1>1. list \in [Ids -> Rows] /\ list[id] \in Rows
  BY DEF TypeOK
<1>2. CASE Brings(h, "list")
  BY <1>2, AnswerBrings DEF Listed
<1>3. CASE ~Brings(h, "list") /\ Brings(h, "patch")
  <2>1. Listed(h) = [list EXCEPT ![hand[h].id] = Brought(h)]
    BY <1>3 DEF Listed
  <2>2. QED
    BY <1>1, <1>3, <2>1, AnswerBrings DEF Brought
<1>4. CASE ~Brings(h, "list") /\ ~Brings(h, "patch") /\ Brings(h, "drop")
  <2>1. Listed(h) = [list EXCEPT ![hand[h].id] = [list[hand[h].id] EXCEPT !.status = Gone]]
    BY <1>4 DEF Listed
  <2>2. CASE hand[h].id = id
    <3>1. Listed(h)[id] = [list[id] EXCEPT !.status = Gone]
      BY <1>1, <2>1, <2>2
    <3>2. QED
      BY <1>1, <1>4, <2>2, <3>1 DEF Rows
  <2>3. CASE hand[h].id # id
    BY <1>1, <1>4, <2>1, <2>3
  <2>4. QED
    BY <2>2, <2>3
<1>5. CASE ~Brings(h, "list") /\ ~Brings(h, "patch") /\ ~Brings(h, "drop")
  BY <1>1, <1>5 DEF Listed
<1>6. QED
  BY <1>2, <1>3, <1>4, <1>5

LEMMA InitVersion == Init => VersionInv
<1> SUFFICES ASSUME Init PROVE VersionInv
  OBVIOUS
<1>1. PICK r \in Ids, s \in Page.statuses \cup {Absent} :
        /\ rows = [id \in Ids |-> IF id = r /\ s # Absent THEN [status |-> s, version |-> 1] ELSE Blank]
        /\ drawer \in {Closed} \cup IF s = Absent \/ Page.kind = "none" THEN {} ELSE {Showing(r, rows[r])}
  BY DEF Init
<1>2. \A id \in Ids : Copies(rows[id], rows[id]) /\ rows[id].version \in Nat
  <2>1. Gone \notin Page.statuses /\ Absent \notin Page.statuses
    BY PageIsTyped DEF Init, Typed, PageNames
  <2>2. Absent # Gone
    BY DEF Absent, Gone
  <2>3. QED
    BY <1>1, <2>1, <2>2 DEF Copies, Fits, Live, Blank
<1>3. drawer # Closed => rows[drawer.id].version >= 1
  BY <1>1 DEF Showing
<1>4. \A h \in Hands : Truthful(hand[h]) /\ Finds(hand[h])
  BY DEF Init, Truthful, Finds
<1>5. \A id \in Ids : own[id].list = 0 /\ own[id].drawer = 0 /\ list[id] = rows[id]
  BY DEF Init
<1>6. QED
  BY <1>2, <1>3, <1>4, <1>5 DEF VersionInv, Copies

LEMMA VersionsOfRows ==
  ASSUME TypeOK, VersionInv, [Next]_vars, NEW id \in Ids
  PROVE  Copies(rows'[id], rows'[id])
<1>1. MovesOn(rows[id], rows'[id]) /\ rows[id].version \in Nat /\ rows'[id].version \in Nat
  BY RowsMoveOn
<1>2. Copies(rows[id], rows[id])
  BY DEF VersionInv
<1>3. QED
  BY <1>1, <1>2 DEF MovesOn, Copies, Fits

LEMMA VersionsOfList ==
  ASSUME TypeOK, VersionInv, [Next]_vars, NEW id \in Ids
  PROVE  Fits(list'[id], rows'[id])
<1>1. /\ MovesOn(rows[id], rows'[id]) /\ rows[id].version \in Nat /\ rows'[id].version \in Nat
      /\ list[id].version \in Nat
  BY RowsMoveOn DEF TypeOK, Rows
<1>2. Fits(list[id], rows[id])
  BY DEF VersionInv
<1>3. CASE list' = list
  BY <1>1, <1>2, <1>3, Onward
<1>4. ASSUME NEW h \in Hands, Lands(h) PROVE Fits(list'[id], rows'[id])
  <2>1. /\ Active(h) /\ hand[h].phase = "answered" /\ list' = Listed(h) /\ rows' = rows
        /\ Truthful(hand[h]) /\ At(hand[h]) = Asked(h)
    BY <1>4 DEF Lands, VersionInv, Asked
  <2>2. CASE \/ ~About(Asked(h)) /\ Listed(h)[id] = hand[h].reply[id]
             \/ hand[h].id = id /\ Listed(h)[id] = hand[h].reply[id]
    BY <2>1, <2>2 DEF Truthful, Active, Copies
  <2>3. CASE Listed(h)[id].status = Gone /\ Listed(h)[id].version = list[id].version
    BY <1>2, <2>1, <2>3 DEF Fits, Live, Absent, Gone
  <2>4. CASE Listed(h)[id] = list[id]
    BY <1>2, <2>1, <2>4
  <2>5. QED
    BY <2>1, <2>2, <2>3, <2>4, ListedRow
<1>5. QED
  BY <1>3, <1>4, ListSteps

LEMMA VersionsWritten ==
  ASSUME TypeOK, VersionInv, [Next]_vars, NEW id \in Ids
  PROVE  own'[id].list <= own'[id].drawer /\ own'[id].drawer <= rows'[id].version
<1>1. MovesOn(rows[id], rows'[id]) /\ rows[id].version \in Nat /\ rows'[id].version \in Nat
  BY RowsMoveOn
<1>2. own[id].list <= own[id].drawer /\ own[id].drawer <= rows[id].version
  BY DEF VersionInv
<1>3. own[id].list \in Nat /\ own[id].drawer \in Nat
  BY DEF TypeOK
<1>4. CASE own' = own
  BY <1>1, <1>2, <1>3, <1>4, Onward
<1>5. ASSUME NEW h \in Hands,
             Write(h) PROVE own'[id].list <= own'[id].drawer /\ own'[id].drawer <= rows'[id].version
  <2>1. PICK i \in Ids :
              /\ Passes(h, i)
              /\ rows'[i] = Result(h, i) /\ \A j \in Ids \ {i} : rows'[j] = rows[j]
              /\ own'[i] = [drawer |-> Result(h, i).version,
                             list |-> IF Asked(h).ask = "inner" THEN own[i].list ELSE Result(h, i).version]
              /\ \A j \in Ids \ {i} : own'[j] = own[j]
    BY <1>5, WriteFacts
  <2>2. Result(h, i).version = rows[i].version + 1
    BY DEF Result
  <2>3. CASE i = id
    BY <1>1, <1>2, <1>3, <2>1, <2>2, <2>3
  <2>4. CASE i # id
    BY <1>2, <2>1, <2>4
  <2>5. QED
    BY <2>3, <2>4
<1>6. own' = own \/ \E h \in Hands : Write(h)
  BY DEF Next, vars, Cancel, Leave, Others, Sweep, Open, Select, Press, Submit, Refresh,
         Refuse, Read, Lose, Answer
<1>7. QED
  BY <1>4, <1>5, <1>6

\* An answer that is shown is of a record that was there.
LEMMA ShownWasThere ==
  ASSUME TypeOK, VersionInv, NEW h \in Hands, Lands(h), Brings(h, "show")
  PROVE  /\ hand[h].id \in Ids /\ Brought(h) \in Rows /\ Copies(Brought(h), rows[hand[h].id])
         /\ Brought(h).version >= 1 /\ rows[hand[h].id].version >= 1
<1>1. /\ Active(h) /\ hand[h].phase = "answered" /\ Truthful(hand[h]) /\ At(hand[h]) = Asked(h)
      /\ Fetches(h) => Live(Brought(h))
  BY DEF Lands, VersionInv, Asked
<1>2. hand[h].id \in Ids /\ Brought(h) \in Rows /\ About(Asked(h))
      /\ Brought(h) = hand[h].reply[hand[h].id]
  BY <1>1, AnswerBrings DEF Brought
<1>3. Copies(Brought(h), rows[hand[h].id])
  BY <1>1, <1>2 DEF Truthful, Active
<1>4. Brought(h).version >= 1
  <2>1. CASE Fetches(h)
    BY <1>1, <1>2, <1>3, <2>1 DEF Copies, Fits, Rows
  <2>2. CASE Writes(h)
    BY <1>1, <1>2, <2>2 DEF Truthful, Active, Writes
  <2>3. QED
    BY <1>2, <2>1, <2>2 DEF About, Writes, Fetches
<1>5. rows[hand[h].id].version \in Nat /\ Brought(h).version \in Nat
  BY <1>2 DEF TypeOK, Rows
<1>6. QED
  BY <1>2, <1>3, <1>4, <1>5 DEF Copies, Fits

LEMMA VersionOfDrawer ==
  ASSUME TypeOK, VersionInv, [Next]_vars, drawer' # Closed
  PROVE  rows'[drawer'.id].version >= 1
<1>1. \A id \in Ids : rows[id].version >= 1 => rows'[id].version >= 1
  BY RowsMoveOn DEF MovesOn
<1>2. \A id \in Ids : Live(list[id]) => rows[id].version >= 1
  <2>1. ASSUME NEW id \in Ids, Live(list[id]) PROVE rows[id].version >= 1
    <3>1. Fits(list[id], rows[id]) /\ list[id].version \in Nat /\ rows[id].version \in Nat
      BY DEF VersionInv, TypeOK, Rows
    <3>2. QED
      BY <2>1, <3>1 DEF Fits
  <2>2. QED
    BY <2>1
<1>3. drawer # Closed => drawer.id \in Ids /\ rows[drawer.id].version >= 1
  BY DEF VersionInv, TypeOK, Drawers
<1>4. CASE drawer' = drawer
  BY <1>1, <1>3, <1>4
<1>5. CASE Leave
  BY <1>5 DEF Leave
<1>6. ASSUME NEW h \in Hands, NEW id \in Ids, Select(h, id) PROVE rows'[drawer'.id].version >= 1
  <2>1. drawer' = drawer \/ drawer'.id = id
    BY <1>6, SelectFacts DEF Showing
  <2>2. Live(list[id])
    BY <1>6, SelectFacts
  <2>3. QED
    BY <1>1, <1>2, <1>4, <2>1, <2>2
<1>7. ASSUME NEW h \in Hands, Lands(h) PROVE rows'[drawer'.id].version >= 1
  <2>1. drawer' = Drawn(h)
    BY <1>7 DEF Lands
  <2>2. \/ drawer' = drawer
        \/ Brings(h, "show") /\ drawer'.id = hand[h].id
        \/ drawer # Closed /\ drawer'.id = drawer.id
    BY <2>1 DEF Drawn, Showing
  <2>3. QED
    BY <1>1, <1>3, <1>4, <1>7, <2>2, ShownWasThere
<1>8. QED
  BY <1>4, <1>5, <1>6, <1>7, DrawerSteps

\* The rows that a task was answered.
LEMMA ReplyRows ==
  ASSUME TypeOK, NEW task \in Working, task.phase = "answered", NEW id \in Ids,
         About(At(task)) => task.id = id
  PROVE  task.reply[id] \in Rows /\ task.reply[id].version \in Nat
BY DEF Working, Rows

LEMMA StepTruthful ==
  ASSUME TypeOK, VersionInv, [Next]_vars, NEW h \in Hands
  PROVE  Truthful(hand[h])'
<1> DEFINE t == hand[h]
           u == hand'[h]
<1>0. screen' = screen /\ role' = role
  BY ScreenStays
<1>1. At(hand[h])' = At(hand'[h])
  BY <1>0, SamePage
<1>2. Truthful(t)
  BY DEF VersionInv
<1>3. SUFFICES ASSUME u # Idle, u.phase = "answered"
               PROVE  /\ \A id \in Ids : (About(At(u)) => u.id = id) => Copies(u.reply[id], rows'[id])
                      /\ Writing(At(u)) => u.reply[u.id].version >= 1 /\ (u.reply[u.id].status = Gone => u.to = Gone)
  BY <1>1 DEF Truthful
<1>4. CASE Same(t, u)
  <2>1. /\ t # Idle /\ u.id = t.id /\ u.to = t.to /\ u.reply = t.reply /\ At(u) = At(t)
        /\ t.phase = "answered"
    BY <1>3, <1>4, SameFields
  <2>2. t \in Working
    BY <2>1, ActiveTask DEF Active
  <2>3. \A id \in Ids : (About(At(t)) => t.id = id) => Copies(t.reply[id], rows[id])
    BY <1>2, <2>1 DEF Truthful
  <2>4. \A id \in Ids : (About(At(t)) => t.id = id) => Copies(t.reply[id], rows'[id])
    <3>1. SUFFICES ASSUME NEW id \in Ids,
                          About(At(t)) => t.id = id PROVE Copies(t.reply[id], rows'[id])
      OBVIOUS
    <3>2. t.reply[id].version \in Nat
      BY <2>1, <2>2, <3>1, ReplyRows
    <3>3. Copies(t.reply[id], rows[id])
      BY <2>3, <3>1
    <3>4. QED
      BY <3>2, <3>3, RowsMoveOn, Onward
  <2>5. Writing(At(t)) => t.reply[t.id].version >= 1 /\ (t.reply[t.id].status = Gone => t.to = Gone)
    BY <1>2, <2>1 DEF Truthful
  <2> HIDE DEF t, u
  <2>6. QED
    BY <2>1, <2>4, <2>5
<1>5. CASE Begun(h)
  BY <1>3, <1>5 DEF Begun, Task
<1>6. CASE Write(h)
  <2>1. Active(h) /\ Writes(h)
    BY <1>6, WriteFacts
  <2>2. PICK id \in Ids : Passes(h, id) /\ rows'[id] = Result(h, id) /\ u = Written(h, id)
    BY <1>6, WriteFacts
  <2>3. /\ u.id = id /\ u.reply[id] = Result(h, id) /\ u.cmd = hand[h].cmd /\ u.at = hand[h].at
        /\ u.to = hand[h].to
    BY <2>1, <2>2, WrittenTask
  <2>4. At(u) = Asked(h) /\ About(At(u))
    BY <2>1, <2>3 DEF At, Asked, Writes, About
  <2>5. Copies(rows'[id], rows'[id])
    BY VersionsOfRows
  <2>6. Result(h, id).version >= 1 /\ (Result(h, id).status = Gone => hand[h].to = Gone)
    <3>1. rows[id].version \in Nat
      BY DEF TypeOK, Rows
    <3>2. QED
      BY <2>1, <2>2, <3>1, PassedRow
  <2> HIDE DEF u
  <2>7. QED
    BY <2>2, <2>3, <2>4, <2>5, <2>6
<1>7. CASE Read(h)
  <2>1. u = Told(h) /\ ~Writes(h) /\ Active(h)
    BY <1>7, OwnStep
  <2>2. /\ \A id \in Ids : (About(Asked(h)) => id = hand[h].id) => u.reply[id] = rows[id]
        /\ u.cmd = hand[h].cmd /\ u.at = hand[h].at /\ u.id = hand[h].id
    BY <2>1, ToldTask
  <2>3. At(u) = Asked(h) /\ ~Writing(At(u))
    BY <2>1, <2>2 DEF At, Asked, Writes
  <2>4. rows' = rows
    BY <1>7 DEF Read
  <2>5. \A id \in Ids : Copies(rows[id], rows[id])
    BY DEF VersionInv
  <2> HIDE DEF u
  <2>6. QED
    BY <2>2, <2>3, <2>4, <2>5
<1>8. CASE Refuse(h) \/ Lose(h) \/ Answer(h)
  <2>1. Active(h)
    BY <1>8, OtherHands
  <2>2. PICK n \in DOMAIN Calls(hand[h].cmd) : Same(Going(h, n), hand'[h]) /\ Going(h, n) \in Working
    BY <1>3, <1>8, <2>1, OwnStep
  <2>3. Going(h, n).phase = "asked"
    BY <2>1, GoingTask
  <2>4. Going(h, n) # Idle
    BY <1>3, <2>2, SameFields
  <2>5. hand'[h].phase = "asked"
    BY <2>2, <2>3, <2>4, SameFields
  <2>6. QED
    BY <1>3, <2>5
<1>9. QED
  BY <1>4, <1>5, <1>6, <1>7, <1>8, HandSteps

\* A handler that wrote its record, or opens it, has one.
LEMMA HasRecord ==
  ASSUME TypeOK, NEW task \in Working, Honest(task), task.stored \/ task.cmd = "open"
  PROVE  task.id \in Ids
<1>1. task # Idle
  BY WorkingIsBusy DEF TypeOK
<1>2. task.cmd # "load"
  <2>1. "load" \notin DOMAIN Commands
    BY CommandIsTyped DEF TypeOK
  <2>2. QED
    BY <1>1, <2>1 DEF Honest
<1>3. QED
  BY <1>2 DEF Working

LEMMA StepFinds ==
  ASSUME TypeOK, TaskInv, VersionInv, [Next]_vars, NEW h \in Hands
  PROVE  Finds(hand[h])'
<1> DEFINE t == hand[h]
           u == hand'[h]
<1>1. At(hand[h])' = At(hand'[h])
  BY ScreenStays, SamePage
<1>2. Finds(t) /\ Honest(t)
  BY DEF VersionInv, TaskInv
<1>3. SUFFICES ASSUME u # Idle, u.stored \/ u.cmd = "open"
               PROVE  /\ rows'[u.id].version >= 1
                      /\ u.phase = "answered" /\ About(At(u)) => u.reply[u.id].version >= 1
  BY <1>1 DEF Finds
<1>4. \A id \in Ids : rows[id].version >= 1 => rows'[id].version >= 1
  BY RowsMoveOn DEF MovesOn
<1>5. CASE Same(t, u)
  <2>1. /\ t # Idle /\ u.id = t.id /\ u.reply = t.reply /\ At(u) = At(t) /\ u.phase = t.phase
        /\ t.stored \/ t.cmd = "open"
    BY <1>3, <1>5, SameFields
  <2>2. t.id \in Ids
    BY <1>2, <2>1, HasRecord, ActiveTask DEF Active
  <2>3. rows[t.id].version >= 1 /\ (t.phase = "answered" /\ About(At(t)) => t.reply[t.id].version >= 1)
    BY <1>2, <2>1 DEF Finds
  <2> HIDE DEF t, u
  <2>4. QED
    BY <1>4, <2>1, <2>2, <2>3
<1>6. CASE Begun(h)
  <2>1. PICK name \in Names, id \in Ids \cup {None}, to \in Statuses, saw \in Statuses, no \in Nat :
       /\ u = Task(name, id, to, saw, no)
       /\ name = "load" \/ id \in Ids
       /\ name = "open" => list[id].status \notin {Absent, Gone}
    BY <1>6 DEF Begun
  <2>2. u.phase = "asked" /\ u.id = id /\ u.cmd = name /\ ~u.stored
    BY <2>1 DEF Task
  <2>3. id \in Ids /\ Live(list[id])
    BY <1>3, <2>1, <2>2 DEF Live
  <2>4. rows[id].version >= 1
    <3>1. Fits(list[id], rows[id]) /\ list[id].version \in Nat /\ rows[id].version \in Nat
      BY <2>3 DEF VersionInv, TypeOK, Rows
    <3>2. QED
      BY <2>3, <3>1 DEF Fits
  <2> HIDE DEF u
  <2>5. QED
    BY <1>4, <2>2, <2>3, <2>4
<1>7. CASE Write(h)
  <2>1. Active(h) /\ Writes(h)
    BY <1>7, WriteFacts
  <2>2. PICK id \in Ids : Passes(h, id) /\ rows'[id] = Result(h, id) /\ u = Written(h, id)
    BY <1>7, WriteFacts
  <2>3. u.id = id /\ u.reply[id] = Result(h, id)
    BY <2>1, <2>2, WrittenTask
  <2>4. Result(h, id).version >= 1
    <3>1. rows[id].version \in Nat
      BY DEF TypeOK, Rows
    <3>2. QED
      BY <2>1, <2>2, <3>1, PassedRow
  <2> HIDE DEF u
  <2>5. QED
    BY <2>2, <2>3, <2>4
<1>8. CASE Read(h)
  <2>1. u = Told(h) /\ ~Writes(h) /\ Active(h)
    BY <1>8, OwnStep
  <2>2. /\ \A id \in Ids : (About(Asked(h)) => id = hand[h].id) => u.reply[id] = rows[id]
        /\ u.cmd = hand[h].cmd /\ u.at = hand[h].at /\ u.id = hand[h].id /\ u.stored = t.stored
    BY <2>1, ToldTask
  <2>3. t.stored \/ t.cmd = "open"
    BY <1>3, <2>2
  <2>4. t.id \in Ids /\ rows[t.id].version >= 1 /\ rows' = rows
    BY <1>2, <1>8, <2>1, <2>3, HasRecord, ActiveTask DEF Finds, Active, Read
  <2> HIDE DEF t, u
  <2>5. QED
    BY <2>2, <2>4 DEF t
<1>9. CASE Refuse(h) \/ Lose(h) \/ Answer(h)
  <2>1. Active(h) /\ rows' = rows
    BY <1>9, OtherHands DEF Refuse, Lose, Answer
  <2>2. PICK n \in DOMAIN Calls(hand[h].cmd) : Same(Going(h, n), u) /\ Going(h, n) \in Working
    BY <1>3, <1>9, <2>1, OwnStep
  <2>3. Going(h, n).phase = "asked" /\ Going(h, n).id = t.id /\ Going(h, n).stored = t.stored
        /\ Going(h, n).cmd = t.cmd
    BY <2>1, GoingTask
  <2>4. Going(h, n) # Idle
    BY <1>3, <2>2, SameFields
  <2>5. u.phase = "asked" /\ u.id = t.id /\ u.stored = t.stored /\ u.cmd = t.cmd
    BY <2>2, <2>3, <2>4, SameFields
  <2>6. rows[t.id].version >= 1
    BY <1>2, <1>3, <2>1, <2>5 DEF Finds, Active
  <2> HIDE DEF t, u
  <2>7. QED
    BY <2>1, <2>5, <2>6
<1>10. QED
  BY <1>5, <1>6, <1>7, <1>8, <1>9, HandSteps

LEMMA VersionStep ==
  ASSUME TypeOK, TaskInv, VersionInv, [Next]_vars
  PROVE  VersionInv'
<1>1. \A id \in Ids : /\ Copies(rows'[id], rows'[id]) /\ Fits(list'[id], rows'[id])
                      /\ own'[id].list <= own'[id].drawer /\ own'[id].drawer <= rows'[id].version
  BY VersionsOfRows, VersionsOfList, VersionsWritten
<1>2. drawer' # Closed => rows'[drawer'.id].version >= 1
  BY VersionOfDrawer
<1>3. \A h \in Hands : Truthful(hand[h])' /\ Finds(hand[h])'
  BY StepTruthful, StepFinds
<1>4. QED
  BY <1>1, <1>2, <1>3 DEF VersionInv
-----------------------------------------------------------------------------
(***************************************************************************)
(* What a sweeping page deletes.                                           *)
(***************************************************************************)
VanishedInv == \A row \in vanished : row.binned \/ overtaken \/ rows[row.id].status = Gone

\* A row that an answer takes from the list was binned, is gone, or was newer.
LEMMA LeavesList ==
  ASSUME TypeOK, VersionInv, NEW h \in Hands, Lands(h), Page.sweeps, NEW id \in Ids,
         Live(list[id]), ~Live(Listed(h)[id])
  PROVE  Calls(hand[h].cmd)[1].ask = "local" \/ Overtakes(h) \/ rows[id].status = Gone
<1>1. Active(h) /\ hand[h].phase = "answered" /\ Truthful(hand[h]) /\ At(hand[h]) = Asked(h)
  BY DEF Lands, VersionInv, Asked
<1>2. Fits(list[id], rows[id]) /\ list[id].version \in Nat
  BY DEF VersionInv, TypeOK, Rows
<1>3. CASE \/ ~About(Asked(h)) /\ Listed(h)[id] = hand[h].reply[id]
           \/ hand[h].id = id /\ Listed(h)[id] = hand[h].reply[id]
  <2>1. Copies(Listed(h)[id], rows[id])
    BY <1>1, <1>3 DEF Truthful, Active
  <2>2. CASE Listed(h)[id].status = Gone
    BY <2>1, <2>2 DEF Copies
  <2>3. CASE Listed(h)[id].status = Absent
    <3>1. Listed(h)[id].version = 0 /\ list[id].version # 0
      BY <1>2, <2>1, <2>3 DEF Copies, Fits
    <3>2. QED
      BY <1>2, <3>1 DEF Overtakes
  <2>4. QED
    BY <2>2, <2>3 DEF Live
<1>4. CASE Brings(h, "drop")
  <2>1. hand[h].cmd \in Names /\ hand[h].at \in DOMAIN Calls(hand[h].cmd) /\ screen \in PageNames
        /\ Asked(h) = Calls(hand[h].cmd)[hand[h].at]
    BY <1>1, WorkingTask DEF TypeOK
  <2>2. Does(Calls(hand[h].cmd)[hand[h].at], {"drop"})
    BY <1>4, <2>1 DEF Brings, Does
  <2>3. QED
    BY <2>1, <2>2, CallIsOrderly
<1>5. QED
  BY <1>1, <1>3, <1>4, ListedRow

LEMMA VanishedSteps ==
  ASSUME [Next]_vars
  PROVE  vanished' \subseteq vanished \/ \E h \in Hands : Answer(h) /\ Lands(h)
<1>1. ASSUME NEW h \in Hands, Answer(h) PROVE vanished' = vanished \/ (Answer(h) /\ Lands(h))
  BY <1>1, AnswerFacts DEF Lands
<1>2. QED
  BY <1>1 DEF Next, vars, Cancel, Leave, Others, Sweep, Open, Select, Press, Submit, Refresh, Write,
       Refuse, Read, Lose

LEMMA OvertakenStays == [Next]_vars /\ TypeOK /\ overtaken => overtaken'
<1> SUFFICES ASSUME [Next]_vars, TypeOK, overtaken PROVE overtaken'
  OBVIOUS
<1>1. ASSUME NEW h \in Hands, Answer(h) PROVE overtaken'
  BY <1>1, AnswerFacts
<1>2. ASSUME NEW h \in Hands, NEW id \in Ids, Select(h, id) PROVE overtaken'
  BY <1>2 DEF Select
<1>3. QED
  BY <1>1, <1>2 DEF Next, vars, Cancel, Leave, Others, Sweep, Open, Press, Submit, Refresh, Write,
       Refuse, Read, Lose

LEMMA VanishedStep ==
  ASSUME TypeOK, VersionInv, VanishedInv, [Next]_vars
  PROVE  VanishedInv'
<1>1. ASSUME NEW row \in vanished PROVE row.binned \/ overtaken' \/ rows'[row.id].status = Gone
  <2>1. row.id \in Ids
    BY DEF TypeOK
  <2>2. rows[row.id].status = Gone => rows'[row.id].status = Gone
    BY <2>1, RowsMoveOn DEF MovesOn
  <2>3. QED
    BY <2>2, OvertakenStays DEF VanishedInv
<1>2. CASE vanished' \subseteq vanished
  BY <1>1, <1>2 DEF VanishedInv
<1>3. ASSUME NEW h \in Hands, Lands(h), NEW row \in vanished', row \notin vanished
      PROVE  row.binned \/ overtaken' \/ rows'[row.id].status = Gone
  <2>1. /\ vanished' = Vanished(hand[h].cmd, Listed(h)) /\ rows' = rows
        /\ overtaken' = (overtaken \/ Overtakes(h))
    BY <1>3 DEF Lands
  <2>2. Page.sweeps /\ \E i \in Ids :
          /\ Live(list[i]) /\ ~Live(Listed(h)[i])
          /\ row = [id |-> i, binned |-> Calls(hand[h].cmd)[1].ask = "local"]
    BY <1>3, <2>1 DEF Vanished
  <2>3. PICK i \in Ids :
          /\ Live(list[i]) /\ ~Live(Listed(h)[i])
          /\ row = [id |-> i, binned |-> Calls(hand[h].cmd)[1].ask = "local"]
    BY <2>2
  <2>4. row.id = i /\ (row.binned <=> Calls(hand[h].cmd)[1].ask = "local")
    BY <2>3
  <2>5. Calls(hand[h].cmd)[1].ask = "local" \/ Overtakes(h) \/ rows[i].status = Gone
    BY <1>3, <2>2, <2>3, LeavesList
  <2>6. QED
    BY <2>1, <2>4, <2>5
<1>4. QED
  BY <1>1, <1>2, <1>3, VanishedSteps DEF VanishedInv
-----------------------------------------------------------------------------
(***************************************************************************)
(* What the API refuses.                                                   *)
(***************************************************************************)
\* Only a refusal ends a write with nothing changed.
LEMMA RefusedIsRefuse ==
  ASSUME TypeOK, [Next]_vars, NEW h \in Hands, Refused(h)
  PROVE  Refuse(h)
<1>1. /\ Active(h) /\ Writes(h) /\ hand[h].phase = "asked" /\ events' = events
      /\ hand'[h] = Idle \/ hand'[h].at # hand[h].at
  BY DEF Refused, Asking, Active
<1>2. ~Same(hand[h], hand'[h])
  BY <1>1, SameFields DEF Active
<1>3. ~Begun(h) /\ ~Read(h) /\ ~Answer(h)
  BY <1>1 DEF Begun, Read, Answer, Active
<1>4. ASSUME Lose(h) PROVE FALSE
  BY <1>1, <1>4 DEF Lose, TypeOK
<1>5. ASSUME Write(h) PROVE FALSE
  <2>1. PICK id \in Ids : hand'[h] = Written(h, id)
    BY <1>5, WriteFacts
  <2>2. Written(h, id) \in Working /\ Written(h, id).at = hand[h].at
    BY <1>1, WrittenTask
  <2>3. QED
    BY <1>1, <2>1, <2>2, WorkingIsBusy DEF TypeOK
<1>6. QED
  BY <1>2, <1>3, <1>4, <1>5, HandSteps

\* A call that writes is one of a command.
LEMMA WriterCommands ==
  ASSUME TypeOK, NEW h \in Hands, Active(h), Writes(h)
  PROVE  /\ hand[h].cmd \in DOMAIN Commands
         /\ Calls(hand[h].cmd) = Commands[hand[h].cmd].run
         /\ hand[h].at \in DOMAIN Commands[hand[h].cmd].run /\ hand[h].at \in Nat \ {0}
         /\ Asked(h) = Commands[hand[h].cmd].run[hand[h].at]
<1>1. /\ screen \in PageNames /\ hand[h].cmd \in Names /\ hand[h].at \in DOMAIN Calls(hand[h].cmd)
      /\ Asked(h) = Calls(hand[h].cmd)[hand[h].at] /\ hand[h].at \in Nat \ {0}
  BY WorkingTask DEF TypeOK
<1>2. hand[h].cmd \in {"open", "load"} => ~Writing(Asked(h))
  BY <1>1, CallsType
<1>3. hand[h].cmd \in DOMAIN Commands
  BY <1>1, <1>2 DEF Names, Writes
<1>4. Calls(hand[h].cmd) = Commands[hand[h].cmd].run
  BY <1>1, <1>3, CommandIsTyped DEF Calls
<1>5. QED
  BY <1>1, <1>3, <1>4

LEMMA RefusedStep ==
  ASSUME TypeOK, TaskInv, [Next]_vars, NEW h \in Hands, Refused(h)
  PROVE  \/ rows[hand[h].id].status # hand[h].saw
         \/ role \in Asked(h).route.hidden
         \/ <<screen, hand[h].cmd>> \in Unmirrored
<1>1. Refuse(h) /\ Active(h) /\ Writes(h) /\ hand[h].phase = "asked"
  BY RefusedIsRefuse DEF Refused, Asking, Active
<1> SUFFICES ASSUME rows[hand[h].id].status = hand[h].saw, role \notin Asked(h).route.hidden,
                    <<screen, hand[h].cmd>> \notin Unmirrored
             PROVE  FALSE
  OBVIOUS
<1> DEFINE t == hand[h]
           c == Commands[t.cmd]
           n == t.at
<1>2. /\ t.cmd \in DOMAIN Commands /\ Calls(t.cmd) = c.run /\ n \in DOMAIN c.run /\ n \in Nat \ {0}
      /\ Asked(h) = c.run[n] /\ Writing(c.run[n])
  BY <1>1, WriterCommands DEF Writes
<1>3. At(t) = Asked(h) /\ Asked(h).ask # "always"
  BY <1>1 DEF At, Asked, Writes, Writing
<1>4. Honest(t) /\ t # Idle
  BY <1>1 DEF TaskInv, Active
<1>5. role \in c.by /\ \E move \in c.moves : move[2] = t.to /\ t.saw = IF Ran(t, {"move"}) THEN t.to ELSE move[1]
  BY <1>2, <1>3, <1>4 DEF Honest
<1>6. PICK move \in c.moves : move[2] = t.to /\ t.saw = IF Ran(t, {"move"}) THEN t.to ELSE move[1]
  BY <1>5
<1>7. screen \in PageNames /\ role \in Page.roles
  BY DEF TypeOK
<1>8. Mirrors(role, c)
  BY <1>2, <1>5, <1>7 DEF Page, Commands
<1> DEFINE moved == \E m \in 1 .. n - 1 : c.run[m].ask = "move"
           route == c.run[n].route
<1>9. /\ role \in route.by
      /\ <<IF moved THEN move[2] ELSE move[1],
           IF c.run[n].ask = "move" THEN move[2] ELSE IF moved THEN move[2] ELSE move[1]>> \in route.moves
  BY <1>2, <1>8 DEF Mirrors
<1>10. moved <=> Ran(t, {"move"})
  BY <1>1, <1>2 DEF Ran, Passed
<1>11. <<t.saw, IF c.run[n].ask = "move" THEN t.to ELSE t.saw>> \in route.moves
  <2> HIDE DEF moved, route
  <2>1. QED
    BY <1>6, <1>9, <1>10
<1>12. Passes(h, t.id)
  BY <1>2, <1>9, <1>11 DEF Passes, Result
<1>13. QED
  BY <1>1, <1>2, <1>9, <1>12 DEF Refuse
-----------------------------------------------------------------------------
(***************************************************************************)
(* Forms: a handler knows the form it was sent from, and a form that lives *)
(* in the drawer is open only over it.                                     *)
(***************************************************************************)
OfForm(task) == task # Idle =>
  /\ task.form <= form.no
  /\ form.cmd # None /\ task.form = form.no => task.cmd = form.cmd

FormInv == \A h \in Hands : OfForm(hand[h])

\* A drawer that follows its row shows that row, and a row that is there.
Tracks == Page.kind \in {"live", "place"}

KeptInv ==
  /\ Kept(form, drawer) = form
  /\ Tracks /\ drawer # Closed => drawer.row = list[drawer.id] /\ Live(drawer.row)
  /\ Page.kind = "none" => drawer = Closed

\* A handler ends, begins, or goes on with the same command, form and aim.
LEMMA HandKeeps ==
  ASSUME TypeOK, [Next]_vars, NEW h \in Hands
  PROVE  \/ hand'[h] = Idle
         \/ Begun(h)
         \/ /\ Active(h) /\ hand'[h].cmd = hand[h].cmd /\ hand'[h].form = hand[h].form
            /\ hand'[h].to = hand[h].to /\ hand'[h].at >= hand[h].at /\ hand'[h] \in Working
            /\ (hand[h].stored => hand'[h].stored /\ (hand'[h].id = hand[h].id \/ Write(h)))
            /\ (~Write(h) => /\ hand'[h].stored = hand[h].stored /\ hand'[h].id = hand[h].id
                             /\ hand'[h].saw = hand[h].saw)
<1> DEFINE t == hand[h]
           u == hand'[h]
<1>1. CASE Same(t, u)
  <2>1. CASE t = Idle
    BY <1>1, <2>1, SameFields
  <2>2. CASE t # Idle
    <3>1. /\ u.cmd = t.cmd /\ u.id = t.id /\ u.to = t.to /\ u.saw = t.saw /\ u.at = t.at
          /\ u.form = t.form /\ u.stored = t.stored
      BY <1>1, <2>2, SameFields
    <3>2. t.at \in Nat /\ t \in Working
      BY <2>2, WorkingTask DEF Active
    <3>3. u \in Working
      BY <1>1, <3>2, QuietedTask DEF Same
    <3>4. QED
      BY <2>2, <3>1, <3>2, <3>3 DEF Active
  <2>3. QED
    BY <2>1, <2>2
<1>2. CASE Write(h)
  <2>1. Active(h) /\ Writes(h) /\ \E id \in Ids : u = Written(h, id)
    BY <1>2, WriteFacts
  <2>2. u.cmd = t.cmd /\ u.form = t.form /\ u.to = t.to /\ u.at = t.at /\ u.stored /\ u \in Working
    BY <2>1, WrittenTask
  <2>3. t.at \in Nat
    BY <2>1, WorkingTask
  <2>4. QED
    BY <1>2, <2>1, <2>2, <2>3
<1>3. CASE Read(h)
  <2>1. u = Told(h) /\ ~Writes(h) /\ Active(h)
    BY <1>3, OwnStep
  <2>2. /\ u.cmd = t.cmd /\ u.id = t.id /\ u.to = t.to /\ u.saw = t.saw /\ u.at = t.at
        /\ u.form = t.form /\ u.stored = t.stored /\ u \in Working
    BY <2>1, ToldTask
  <2>3. t.at \in Nat
    BY <2>1, WorkingTask
  <2>4. QED
    BY <2>1, <2>2, <2>3
<1>4. CASE (Refuse(h) \/ Lose(h) \/ Answer(h)) /\ u # Idle
  <2>1. Active(h)
    BY <1>4, OtherHands
  <2>2. PICK n \in DOMAIN Calls(t.cmd) : n > t.at /\ Same(Going(h, n), u) /\ Going(h, n) \in Working
    BY <1>4, <2>1, OwnStep
  <2> DEFINE v == Going(h, n)
  <2>3. /\ v.cmd = t.cmd /\ v.id = t.id /\ v.to = t.to /\ v.saw = t.saw /\ v.at = n
        /\ v.form = t.form /\ v.stored = t.stored /\ v # Idle
    BY <2>1, <2>2, GoingTask, WorkingIsBusy DEF TypeOK
  <2> HIDE DEF v
  <2>4. /\ u.cmd = v.cmd /\ u.id = v.id /\ u.to = v.to /\ u.saw = v.saw /\ u.at = v.at
        /\ u.form = v.form /\ u.stored = v.stored
    BY <2>2, <2>3, SameFields DEF v
  <2>5. u \in Working
    BY <2>2, QuietedTask DEF Same
  <2>6. t.at \in Nat /\ n \in Nat
    BY <2>1, WorkingTask, CallType1 DEF TypeOK
  <2> HIDE DEF t, u
  <2>7. u.at >= t.at
    BY <2>2, <2>3, <2>4, <2>6
  <2>8. QED
    BY <2>1, <2>3, <2>4, <2>5, <2>7 DEF t, u
<1>5. QED
  BY <1>1, <1>2, <1>3, <1>4, HandSteps

LEMMA KeptIsKept == ASSUME NEW f, NEW d PROVE Kept(Kept(f, d), d) = Kept(f, d)
<1>1. NoForm(f.no).cmd = None
  BY DEF NoForm
<1>2. CASE Kept(f, d) = f
  BY <1>2
<1>3. CASE Kept(f, d) = NoForm(f.no)
  BY <1>1, <1>3 DEF Kept
<1>4. QED
  BY <1>2, <1>3 DEF Kept

\* How the form of a page changes.
LEMMA FormSteps ==
  ASSUME TypeOK, [Next]_vars
  PROVE  \/ form' = form
         \/ form'.cmd = None /\ form'.no = form.no /\ form' = NoForm(form.no)
         \/ form.cmd = None /\ form'.no = form.no + 1 /\ \E name \in DOMAIN Commands : Open(name)
<1> DEFINE Goal == form' \in {form, NoForm(form.no)} \/ \E name \in DOMAIN Commands : Open(name)
<1>1. \A d : Kept(form, d) \in {form, NoForm(form.no)}
  BY DEF Kept
<1>2. ASSUME NEW h \in Hands, Answer(h) PROVE Goal
  BY <1>1, <1>2, AnswerFacts DEF Filled
<1>3. ASSUME Cancel \/ Others \/ (\E row \in vanished : Sweep(row)) \/ UNCHANGED vars PROVE Goal
  BY <1>3 DEF Cancel, Others, Sweep, vars
<1>0. ASSUME Leave PROVE Goal
  BY <1>0, <1>1 DEF Leave
<1>4. ASSUME NEW h \in Hands, (\E id \in Ids : Select(h, id)) \/ Press(h) \/ Submit(h) \/ Refresh(h)
      PROVE  Goal
  BY <1>1, <1>4 DEF Select, Press, Submit, Refresh
<1>5. ASSUME NEW h \in Hands, Write(h) \/ Refuse(h) \/ Read(h) \/ Lose(h) PROVE Goal
  BY <1>5 DEF Write, Refuse, Read, Lose
<1>6. Goal
  BY <1>0, <1>2, <1>3, <1>4, <1>5 DEF Next
<1>7. NoForm(form.no).cmd = None /\ NoForm(form.no).no = form.no
  BY DEF NoForm
<1>8. ASSUME NEW name \in DOMAIN Commands,
             Open(name) PROVE form.cmd = None /\ form'.no = form.no + 1
  BY <1>8 DEF Open
<1>9. QED
  BY <1>6, <1>7, <1>8

LEMMA FormStep ==
  ASSUME TypeOK, FormInv, [Next]_vars
  PROVE  FormInv'
<1>1. SUFFICES ASSUME NEW h \in Hands, hand'[h] # Idle
               PROVE  /\ hand'[h].form <= form'.no
                      /\ form'.cmd # None /\ hand'[h].form = form'.no => hand'[h].cmd = form'.cmd
  BY DEF FormInv, OfForm
<1> DEFINE u == hand'[h]
<1>2. /\ u.form \in Nat /\ form.no \in Nat
      /\ u.form <= form.no
      /\ form.cmd # None /\ u.form = form.no => u.cmd = form.cmd
  <2>1. CASE Begun(h)
    <3>1. PICK name \in Names, id \in Ids \cup {None}, to \in Statuses, saw \in Statuses, no \in Nat :
       /\ u = Task(name, id, to, saw, no)
       /\ name \notin DOMAIN Commands => no = 0
       /\ name \in DOMAIN Commands =>
            IF IsForm(Commands[name]) THEN no = form.no /\ form.cmd = name /\ saw = form.seen
                                         ELSE no = 0 /\ saw = Shown(Commands[name], id)
      BY <2>1 DEF Begun
    <3>2. u.cmd = name /\ u.form = no
      BY <3>1 DEF Task
    <3>3. no = 0 \/ (no = form.no /\ form.cmd = name)
      BY <3>1
    <3>4. form.no \in Nat /\ (form.cmd # None => form.no # 0)
      BY FormFields, FormNumber
    <3> HIDE DEF u
    <3>5. QED
      BY <3>2, <3>3, <3>4
  <2>2. CASE Active(h) /\ u.cmd = hand[h].cmd /\ u.form = hand[h].form
    <3>1. hand[h].form \in Nat /\ form.no \in Nat
      BY <2>2, WorkingTask, FormNumber DEF Tasks
    <3>2. OfForm(hand[h])
      BY DEF FormInv
    <3>3. QED
      BY <2>2, <3>1, <3>2 DEF OfForm, Active
  <2>3. QED
    BY <1>1, <2>1, <2>2, HandKeeps
<1> HIDE DEF u
<1>3. QED
  BY <1>2, FormSteps DEF u

LEMMA InitKept == Init => KeptInv
<1> SUFFICES ASSUME Init PROVE KeptInv
  OBVIOUS
<1>1. PICK r \in Ids, s \in Page.statuses \cup {Absent} :
        /\ rows = [id \in Ids |-> IF id = r /\ s # Absent THEN [status |-> s, version |-> 1] ELSE Blank]
        /\ drawer \in {Closed} \cup IF s = Absent \/ Page.kind = "none" THEN {} ELSE {Showing(r, rows[r])}
  BY DEF Init
<1>2. Kept(form, drawer) = form
  BY DEF Init, NoForm, Kept
<1>3. s # Gone
  BY PageIsTyped DEF Init, Typed, PageNames, Absent, Gone
<1>4. drawer # Closed => Page.kind # "none" /\ drawer.row = rows[drawer.id] /\ Live(drawer.row)
  BY <1>1, <1>3 DEF Showing, Live
<1>5. QED
  BY <1>2, <1>4 DEF KeptInv, Init

\* A form goes when the drawer it lives in does.
Loses(f, d) == f.cmd # None /\ \/ Commands[f.cmd].on \in {"sheet", "part"} /\ d = Closed
                               \/ Commands[f.cmd].on = "part" /\ d.id # f.id

LEMMA KeptLoses == ASSUME NEW f, NEW d PROVE Kept(f, d) = f <=> ~Loses(f, d)
<1>1. Loses(f, d) => Kept(f, d) = NoForm(f.no) /\ NoForm(f.no).cmd = None /\ f.cmd # None
  BY DEF Loses, Kept, NoForm
<1>2. ~Loses(f, d) => Kept(f, d) = f
  BY DEF Loses, Kept
<1>3. QED
  BY <1>1, <1>2

LEMMA NoFormKept == ASSUME NEW no, NEW d PROVE ~Loses(NoForm(no), d)
BY DEF Loses, NoForm

\* Nothing is offered of what the drawer does not show.
LEMMA NothingOffered == ASSUME screen \in PageNames,
                               NEW name \in DOMAIN Commands PROVE Offered(name, None) = {}
<1>1. None \notin Statuses
  BY PageIsTyped DEF Typed, Statuses, Known
<1>2. QED
  BY <1>1, OfferedType

LEMMA KeptFormStep ==
  ASSUME TypeOK, KeptInv, [Next]_vars
  PROVE  Kept(form, drawer)' = form'
<1>0. screen' = screen /\ role' = role
  BY ScreenStays
<1>1. Commands' = Commands
  BY <1>0, SamePage
<1> SUFFICES Kept(form', drawer') = form'
  BY <1>1 DEF Kept
<1>2. Kept(form, drawer) = form /\ ~Loses(form, drawer)
  BY KeptLoses DEF KeptInv
<1>3. CASE form' = NoForm(form.no)
  BY <1>3, NoFormKept, KeptLoses
<1>4. CASE form' = Kept(form, drawer')
  BY <1>4, KeptIsKept
<1>5. CASE form' = form /\ drawer' = drawer
  BY <1>2, <1>5
<1>6. ASSUME NEW name \in DOMAIN Commands, Open(name) PROVE Kept(form', drawer') = form'
  <2>1. PICK id \in Ids : /\ Offered(name, Shown(Commands[name], id)) # {}
                          /\ form' = [cmd |-> name, id |-> id, seen |-> Shown(Commands[name], id), no |-> form.no + 1]
                          /\ drawer' = drawer
    BY <1>6 DEF Open
  <2>2. Inside(Commands[name]) => drawer.id = id
    BY <2>1, NothingOffered DEF Shown, TypeOK
  <2>3. Inside(Commands[name]) => drawer # Closed
    BY <2>2 DEF Closed
  <2>4. ~Loses(form', drawer')
    BY <2>1, <2>2, <2>3 DEF Loses, Inside
  <2>5. QED
    BY <2>4, KeptLoses
<1>7. ASSUME NEW h \in Hands, NEW id \in Ids, Select(h, id) PROVE Kept(form', drawer') = form'
  <2>1. CASE Page.opens = <<>>
    BY <1>4, <1>7, <2>1, SelectFacts
  <2>2. CASE Page.opens # <<>> /\ Page.kind # "own"
    BY <1>5, <1>7, <2>2, SelectFacts
  <2>3. CASE Page.opens # <<>> /\ Page.kind = "own"
    <3>1. drawer = Closed /\ form' = form
      BY <1>7, <2>3 DEF Select
    <3>2. ~Loses(form', drawer')
      BY <1>2, <3>1 DEF Loses
    <3>3. QED
      BY <3>2, KeptLoses
  <2>4. QED
    BY <2>1, <2>2, <2>3
<1>8. ASSUME NEW h \in Hands, Answer(h) PROVE Kept(form', drawer') = form'
  <2>1. CASE form' = Filled(h) /\ drawer' = Drawn(h)
    BY <1>3, <1>4, <2>1 DEF Filled
  <2>2. QED
    BY <1>5, <1>8, <2>1, AnswerFacts
<1>9. CASE Cancel
  BY <1>3, <1>9 DEF Cancel
<1>10. CASE Leave
  BY <1>4, <1>10 DEF Leave
<1>11. CASE Others \/ (\E row \in vanished : Sweep(row)) \/ UNCHANGED vars
  BY <1>5, <1>11 DEF Others, Sweep, vars
<1>12. ASSUME NEW h \in Hands, Submit(h) PROVE Kept(form', drawer') = form'
  BY <1>3, <1>5, <1>12 DEF Submit
<1>13. ASSUME NEW h \in Hands, Press(h) \/ Refresh(h) \/ Write(h) \/ Refuse(h) \/ Read(h) \/ Lose(h)
       PROVE  Kept(form', drawer') = form'
  BY <1>5, <1>13 DEF Press, Refresh, Write, Refuse, Read, Lose
<1>14. QED
  BY <1>6, <1>7, <1>8, <1>9, <1>10, <1>11, <1>12, <1>13 DEF Next

\* Over a drawer that follows its row, only what patches the row shows itself.
LEMMA TrackedShow ==
  ASSUME TypeOK, NEW h \in Hands, Active(h), Brings(h, "show"),
         Page.kind \in {"live", "place", "none"}
  PROVE  /\ hand[h].cmd \in DOMAIN Commands /\ Tracks
         /\ Brings(h, "patch") /\ ~Deletes(Commands[hand[h].cmd])
<1> DEFINE t == hand[h]
<1>1. /\ screen \in PageNames /\ t.cmd \in Names /\ t.at \in DOMAIN Calls(t.cmd)
      /\ Asked(h) = Calls(t.cmd)[t.at]
  BY WorkingTask DEF TypeOK
<1>2. Does(Calls(t.cmd)[t.at], {"show"})
  BY <1>1 DEF Brings, Does
<1>3. t.cmd # "open"
  <2>1. \A n \in DOMAIN Page.opens : ~Does(Page.opens[n], {"show"})
    BY <1>1 DEF Page
  <2>2. Calls("open") = Page.opens
    BY DEF Calls
  <2>3. QED
    BY <1>1, <1>2, <2>1, <2>2
<1>4. t.cmd # "load"
  <2>1. Calls("load") = <<Lists>> /\ ~Does(Lists, {"show"})
    BY DEF Calls, Lists, Call, Does
  <2>2. QED
    BY <1>1, <1>2, <2>1
<1>5. t.cmd \in DOMAIN Commands
  BY <1>1, <1>3, <1>4 DEF Names
<1>6. Calls(t.cmd) = Commands[t.cmd].run
  BY <1>3, <1>4 DEF Calls
<1>7. Redraws(Page, Commands[t.cmd])
  BY <1>1, <1>5 DEF Page, Commands
<1> HIDE DEF t
<1>8. Page.kind # "none" /\ Does(Calls(t.cmd)[t.at], {"patch"}) /\ ~Deletes(Commands[t.cmd])
  BY <1>1, <1>2, <1>6, <1>7 DEF Redraws
<1>9. QED
  BY <1>1, <1>5, <1>8 DEF Tracks, Brings, Does, t

LEMMA KeptDrawerStep ==
  ASSUME TypeOK, TaskInv, VersionInv, KeptInv, [Next]_vars
  PROVE  /\ Tracks /\ drawer' # Closed => drawer'.row = list'[drawer'.id] /\ Live(drawer'.row)
         /\ Page.kind = "none" => drawer' = Closed
<1>1. ASSUME NEW h \in Hands, Lands(h)
      PROVE  /\ Tracks /\ drawer' # Closed => drawer'.row = list'[drawer'.id] /\ Live(drawer'.row)
             /\ Page.kind = "none" => drawer' = Closed
  <2>1. Active(h) /\ hand[h].phase = "answered" /\ list' = Listed(h) /\ drawer' = Drawn(h)
    BY <1>1 DEF Lands
  <2>2. CASE Brings(h, "leave")
    BY <2>1, <2>2 DEF Drawn
  <2>3. CASE ~Brings(h, "leave") /\ Brings(h, "show") /\ Page.kind \in {"live", "place", "none"}
    <3>1. hand[h].cmd \in DOMAIN Commands /\ Tracks /\ Brings(h, "patch")
          /\ ~Deletes(Commands[hand[h].cmd])
      BY <2>1, <2>3, TrackedShow
    <3>2. Page.kind # "own"
      BY <3>1 DEF Tracks
    <3>3. drawer' = Showing(hand[h].id, Brought(h))
      BY <2>1, <2>3, <3>2 DEF Drawn
    <3>4. ~Brings(h, "list") /\ hand[h].id \in Ids /\ Writing(Asked(h))
      BY <2>1, <3>1, AnswerBrings
    <3>5. Listed(h)[hand[h].id] = Brought(h)
      BY <2>1, <3>1, <3>4, ListedRow
    <3>6. Honest(hand[h]) /\ Truthful(hand[h]) /\ hand[h] # Idle /\ At(hand[h]) = Asked(h)
      BY <2>1 DEF TaskInv, VersionInv, Active, Asked
    <3>7. hand[h].to # Gone
      BY <3>1, <3>6 DEF Honest, Deletes
    <3>8. Brought(h).status # Gone
      BY <2>1, <3>4, <3>6, <3>7 DEF Truthful, Brought
    <3>9. Brought(h).status # Absent
      BY <1>1, <2>3, ShownWasThere DEF Copies, Fits
    <3>10. QED
      BY <2>1, <3>1, <3>3, <3>5, <3>8, <3>9 DEF Showing, Live, Tracks
  <2>4. CASE ~Brings(h, "leave") /\ ~Brings(h, "show")
    <3>1. CASE Tracks /\ drawer # Closed
      BY <2>1, <2>4, <3>1 DEF Drawn, Tracks, Showing
    <3>2. CASE ~(Tracks /\ drawer # Closed)
      <4>1. Drawn(h) = drawer
        BY <2>4, <3>2 DEF Drawn, Tracks
      <4>2. QED
        BY <2>1, <3>2, <4>1 DEF KeptInv
    <3>3. QED
      BY <3>1, <3>2
  <2>5. QED
    BY <2>2, <2>3, <2>4 DEF Tracks
<1>2. ASSUME NEW h \in Hands, NEW id \in Ids, Select(h, id)
      PROVE  /\ Tracks /\ drawer' # Closed => drawer'.row = list'[drawer'.id] /\ Live(drawer'.row)
             /\ Page.kind = "none" => drawer' = Closed
  <2>1. Page.kind # "none" /\ list' = list /\ Live(list[id])
    BY <1>2, SelectFacts
  <2>2. CASE drawer' = Showing(id, list[id])
    BY <2>1, <2>2 DEF Showing
  <2>3. CASE drawer' = drawer
    BY <2>1, <2>3 DEF KeptInv
  <2>4. QED
    BY <1>2, <2>1, <2>2, <2>3, SelectFacts DEF Tracks
<1>3. CASE drawer' = drawer /\ list' = list
  BY <1>3 DEF KeptInv
<1>4. CASE Leave
  BY <1>4 DEF Leave, KeptInv
<1>5. QED
  BY <1>1, <1>2, <1>3, <1>4, DrawerSteps, ListSteps

LEMMA KeptStep ==
  ASSUME TypeOK, TaskInv, VersionInv, KeptInv, [Next]_vars
  PROVE  KeptInv'
<1>1. Page' = Page
  BY ScreenStays, SamePage
<1>2. QED
  BY <1>1, KeptFormStep, KeptDrawerStep DEF KeptInv, Tracks

\* An answer that brings nothing leaves the page as it is.
LEMMA NothingBrought ==
  ASSUME TypeOK, KeptInv, NEW h, Asked(h).then = {}
  PROVE  Listed(h) = list /\ Drawn(h) = drawer /\ Filled(h) = form
<1>1. \A what : ~Brings(h, what)
  BY DEF Brings
<1>2. Listed(h) = list
  BY <1>1 DEF Listed
<1>3. Drawn(h) = drawer
  <2>1. CASE Tracks /\ drawer # Closed
    <3>1. drawer \in [id : Ids, row : Rows] /\ drawer.row = list[drawer.id] /\ Live(list[drawer.id])
      BY <2>1 DEF KeptInv, TypeOK, Drawers
    <3>2. Drawn(h) = Showing(drawer.id, list[drawer.id])
      BY <1>1, <1>2, <2>1, <3>1 DEF Drawn, Tracks
    <3>3. QED
      BY <3>1, <3>2 DEF Showing
  <2>2. CASE ~(Tracks /\ drawer # Closed)
    BY <1>1, <2>2 DEF Drawn, Tracks
  <2>3. QED
    BY <2>1, <2>2
<1>4. Filled(h) = form
  BY <1>1, <1>3 DEF Filled, KeptInv
<1>5. QED
  BY <1>2, <1>3, <1>4

\* What a form does to the page comes after it has written.
LEMMA UnstoredBringsNothing ==
  ASSUME TypeOK, TaskInv, NEW h \in Hands, Active(h), hand[h].phase = "answered",
         hand[h].form # 0, ~hand[h].stored
  PROVE  Asked(h).then = {}
<1> DEFINE t == hand[h]
           c == Commands[t.cmd]
<1>1. Honest(t) /\ t # Idle /\ At(t) = Asked(h)
  BY DEF TaskInv, Active, Asked
<1>2. t.cmd \in DOMAIN Commands /\ IsForm(c)
  BY <1>1 DEF Honest
<1>3. /\ screen \in PageNames /\ t.at \in DOMAIN Calls(t.cmd) /\ Asked(h) = Calls(t.cmd)[t.at]
  BY WorkingTask DEF TypeOK
<1>4. Calls(t.cmd) = c.run
  BY <1>2, <1>3, CommandIsTyped DEF Calls
<1>5. WritesFirst(c)
  BY <1>2, <1>3 DEF Page, Commands
<1>6. c.run[t.at].ask # "always" /\ (c.run[t.at].then # {} => \E m \in 1 .. t.at : Writing(c.run[m]))
  BY <1>3, <1>4, <1>5 DEF WritesFirst
<1>7. ~Ran(t, Writers)
  BY <1>1, <1>2, <1>3, <1>4, <1>6 DEF Honest
<1>8. ~\E m \in 1 .. t.at : Writing(c.run[m])
  BY <1>4, <1>7 DEF Ran, Passed, Writing, Writers
<1>9. QED
  BY <1>3, <1>4, <1>6, <1>8

LEMMA ClosedStep ==
  ASSUME TypeOK, TaskInv, KeptInv, [Next]_vars, NEW h \in Hands,
         Active(h), hand[h].form = form.no, form'.cmd # form.cmd
  PROVE  hand[h].stored \/ (hand'[h] # Idle /\ hand'[h].at = hand[h].at)
<1>1. CASE Same(hand[h], hand'[h])
  BY <1>1, SameFields DEF Active
<1>2. CASE Begun(h)
  BY <1>2 DEF Begun
<1>3. CASE Write(h)
  <2>1. Writes(h) /\ \E id \in Ids : hand'[h] = Written(h, id)
    BY <1>3, WriteFacts
  <2>2. QED
    BY <2>1, WrittenTask, WorkingIsBusy DEF TypeOK
<1>4. CASE Read(h)
  BY <1>4, OwnStep, ToldTask, WorkingIsBusy DEF TypeOK
<1>5. CASE Refuse(h) \/ Lose(h)
  BY <1>5 DEF Refuse, Lose
<1>6. CASE Answer(h)
  <2>1. Lands(h)
    BY <1>6, AnswerFacts DEF Lands
  <2>2. form' = Filled(h) /\ hand[h].phase = "answered"
    BY <2>1 DEF Lands
  <2>3. form.cmd # None
    <3>1. hand[h].cmd # None
      BY ActiveTask
    <3>2. form' \in {form, NoForm(form.no)}
      BY <2>2 DEF Filled, Kept
    <3>3. NoForm(form.no).cmd = None
      BY DEF NoForm
    <3>4. QED
      BY <3>2, <3>3
  <2>4. hand[h].form # 0
    BY <2>3, FormFields
  <2>5. ASSUME ~hand[h].stored PROVE FALSE
    BY <2>2, <2>4, <2>5, UnstoredBringsNothing, NothingBrought
  <2>6. QED
    BY <2>5
<1>7. QED
  BY <1>1, <1>2, <1>3, <1>4, <1>5, <1>6, HandSteps
-----------------------------------------------------------------------------
(***************************************************************************)
(* How often a form is sent.  While a form that makes a record is open, no *)
(* more than one handler sent from it is at work, and one that has made    *)
(* the record has yet to shut the form.                                    *)
(***************************************************************************)
Guarded == Creates(Commands[form.cmd]) /\ <<screen, form.cmd>> \notin Unguarded
Sent(h) == Active(h) /\ hand[h].form = form.no

WillShut(task) == \E m \in DOMAIN Calls(task.cmd) :
  /\ m >= task.at /\ Does(Calls(task.cmd)[m], {"shut"})
  /\ \A k \in task.at .. m : Calls(task.cmd)[k].ask # "fetch"

SentInv == form.cmd # None =>
  /\ form.seen = Absent => Creates(Commands[form.cmd])
  /\ form.seen # Absent => made = 0
  /\ \A h \in Hands : Sent(h) => /\ hand[h].busy = Commands[form.cmd].busy /\ ~Commands[form.cmd].blind
                                 /\ ~hand[h].stored => hand[h].saw = form.seen
  /\ Guarded => /\ \A g, h \in Hands : Sent(g) /\ Sent(h) => g = h
                /\ ~cutShort /\ made # 0 =>
                     made = 1 /\ \E h \in Hands : Sent(h) /\ hand[h].stored /\ WillShut(hand[h])

LEMMA ForgottenKeeps ==
  ASSUME NEW hands, NEW f, NEW d, NEW h \in Hands, hands[h].form = f.no, f.cmd # None, f.no # 0
  PROVE  Forgotten(hands, f, d)[h] = hands[h]
BY DEF Forgotten

\* While its form is open, a handler keeps its flag.
LEMMA BusyKept ==
  ASSUME TypeOK, [Next]_vars, NEW h \in Hands, Active(h), hand'[h] # Idle, form' = form,
         form.cmd # None,
         hand[h].form = form.no
  PROVE  hand'[h].busy = hand[h].busy
<1>0. form.no # 0
  BY FormFields
<1>1. CASE hand' = hand
  BY <1>1
<1>2. CASE Cancel
  BY <1>2 DEF Cancel, NoForm
<1>3. CASE Leave
  <2>1. hand' = Forgotten(hand, form, Closed)
    BY <1>3 DEF Leave
  <2>2. QED
    BY <1>0, <2>1, ForgottenKeeps
<1>4. ASSUME NEW g \in Hands, Press(g) \/ Submit(g) \/ Refresh(g) \/ \E id \in Ids : Select(g, id)
      PROVE  hand'[h].busy = hand[h].busy
  <2>1. ~Begun(h)
    BY DEF Begun
  <2>2. QED
    BY <1>4, <2>1, BegunSteps
<1>5. ASSUME NEW g \in Hands, Write(g) PROVE hand'[h].busy = hand[h].busy
  <2>1. CASE g = h
    <3>1. Writes(h) /\ \E id \in Ids : hand'[h] = Written(h, id)
      BY <1>5, <2>1, WriteFacts
    <3>2. QED
      BY <3>1, WrittenTask
  <2>2. CASE g # h
    BY <1>5, <2>2 DEF Write, TypeOK
  <2>3. QED
    BY <2>1, <2>2
<1>6. ASSUME NEW g \in Hands, Read(g) PROVE hand'[h].busy = hand[h].busy
  <2>1. CASE g = h
    BY <1>6, <2>1, OwnStep, ToldTask
  <2>2. CASE g # h
    BY <1>6, <2>2 DEF Read, TypeOK
  <2>3. QED
    BY <2>1, <2>2
<1>7. ASSUME NEW g \in Hands, Active(g)
      PROVE  /\ Dropped(g)[h] # Idle => Dropped(g)[h].busy = hand[h].busy
             /\ Resumed(g)[h] # Idle => Resumed(g)[h].busy = hand[h].busy /\ Resumed(g)[h].form = hand[h].form
  <2>1. CASE g = h
    <3>1. Last(h) \in DOMAIN Calls(hand[h].cmd)
      BY WorkingTask
    <3>2. QED
      BY <2>1, <3>1, DroppedHands, ResumedHands, GoingTask
  <2>2. CASE g # h
    BY <1>7, <2>2, DroppedHands, ResumedHands
  <2>3. QED
    BY <2>1, <2>2
<1>8. ASSUME NEW g \in Hands, Refuse(g) \/ Lose(g) PROVE hand'[h].busy = hand[h].busy
  <2>1. Active(g) /\ hand' \in {Dropped(g), Resumed(g)}
    BY <1>8 DEF Refuse, Lose, Asking, Active
  <2>2. QED
    BY <1>7, <2>1
<1>9. ASSUME NEW g \in Hands, Answer(g) PROVE hand'[h].busy = hand[h].busy
  <2>1. Active(g)
    BY <1>9, AnswerFacts
  <2>2. CASE hand' \in {Dropped(g), Resumed(g)}
    BY <1>7, <2>1, <2>2
  <2>3. CASE hand' = Forgotten(Resumed(g), Filled(g), Drawn(g)) /\ form' = Filled(g)
    <3>1. Resumed(g) \in [Hands -> {Idle} \cup Working]
      BY <2>1, ResumedHands
    <3>2. Resumed(g)[h] # Idle
      <4>1. \/ hand'[h] = Resumed(g)[h]
            \/ Resumed(g)[h] # Idle
        BY <2>3, <3>1, ForgottenHands
      <4>2. QED
        BY <4>1
    <3>3. Resumed(g)[h].busy = hand[h].busy /\ Resumed(g)[h].form = hand[h].form
      BY <1>7, <2>1, <3>2
    <3>4. hand'[h] = Resumed(g)[h]
      BY <1>0, <2>3, <3>3, ForgottenKeeps
    <3>5. QED
      BY <3>3, <3>4
  <2>4. QED
    BY <1>9, <2>2, <2>3, AnswerFacts
<1>10. CASE Others \/ (\E row \in vanished : Sweep(row)) \/ (\E name \in DOMAIN Commands : Open(name)) \/ UNCHANGED vars
  BY <1>1, <1>10 DEF Others, Sweep, Open, vars
<1>11. QED
  BY <1>2, <1>3, <1>4, <1>5, <1>6, <1>8, <1>9, <1>10 DEF Next

\* A handler that has made its record keeps on until it shuts the form.
LEMMA ShutsLater ==
  ASSUME TypeOK, FormInv, [Next]_vars, NEW h \in Hands, Sent(h), hand[h].stored, WillShut(hand[h]),
         form' = form, form.cmd # None, ~cutShort'
  PROVE  hand'[h] # Idle /\ WillShut(hand'[h])
<1> DEFINE t == hand[h]
           u == hand'[h]
<1>0. t # Idle /\ Active(h) /\ t.at \in Nat /\ t.at \in DOMAIN Calls(t.cmd) /\ screen \in PageNames
      /\ t.cmd \in Names
      /\ Asked(h) = Calls(t.cmd)[t.at]
  BY WorkingTask DEF Sent, Active, TypeOK
<1>1. CASE u # Idle /\ u.cmd = t.cmd /\ u.at = t.at
  BY <1>1 DEF WillShut
<1>2. CASE Same(t, u)
  BY <1>0, <1>1, <1>2, SameFields
<1>3. CASE Begun(h)
  BY <1>0, <1>3 DEF Begun
<1>4. CASE Write(h)
  <2>1. Writes(h) /\ \E id \in Ids : u = Written(h, id)
    BY <1>4, WriteFacts
  <2>2. QED
    BY <1>0, <1>1, <2>1, WrittenTask, WorkingIsBusy
<1>5. CASE Read(h)
  BY <1>0, <1>1, <1>5, OwnStep, ToldTask, WorkingIsBusy
<1>6. CASE Refuse(h) \/ Lose(h)
  BY <1>6 DEF Refuse, Lose
<1>7. CASE Answer(h)
  <2>1. PICK m \in DOMAIN Calls(t.cmd) :
          /\ m >= t.at /\ Does(Calls(t.cmd)[m], {"shut"})
          /\ \A k \in t.at .. m : Calls(t.cmd)[k].ask # "fetch"
    BY DEF WillShut
  <2>2. m \in Nat /\ Last(h) \in Nat /\ m <= Last(h) /\ t.at <= Last(h)
    BY <1>0, <2>1, CallType1 DEF Last
  <2>3. ASSUME m # t.at, u = Resumed(h)[h] \/ Same(Resumed(h)[h], u) PROVE u # Idle /\ WillShut(u)
    <3>1. t.at # Last(h) /\ m >= t.at + 1
      BY <1>0, <2>1, <2>2, <2>3
    <3>2. Resumed(h)[h] = Going(h, t.at + 1) /\ t.at + 1 \in DOMAIN Calls(t.cmd)
      BY <1>0, <3>1, ResumedHands
    <3>3. Going(h, t.at + 1).at = t.at + 1 /\ Going(h, t.at + 1).cmd = t.cmd
          /\ Going(h, t.at + 1) # Idle
      BY <1>0, <3>2, GoingTask, WorkingIsBusy
    <3> DEFINE v == Going(h, t.at + 1)
    <3> HIDE DEF v
    <3>4. u # Idle /\ u.at = v.at /\ u.cmd = v.cmd
      BY <2>3, <3>2, <3>3, SameFields DEF v
    <3>5. \A k \in t.at + 1 .. m : Calls(t.cmd)[k].ask # "fetch"
      BY <1>0, <2>1, <2>2
    <3>6. QED
      BY <2>1, <3>1, <3>3, <3>4, <3>5 DEF WillShut, v
  <2>4. CASE Fetches(h) /\ ~Live(Brought(h)) /\ hand' = IF Asked(h).ask = "peek" THEN Resumed(h) ELSE Dropped(h)
    <3>1. Asked(h).ask = "peek"
      <4>1. t.at \in t.at .. m
        BY <1>0, <2>1, <2>2
      <4>2. Asked(h).ask # "fetch"
        BY <1>0, <2>1, <4>1
      <4>3. QED
        BY <2>4, <4>2 DEF Fetches, Fetching
    <3>2. Asked(h).then \subseteq {"show"}
      <4> HIDE DEF t
      <4>1. QED
        BY <1>0, <3>1, CallIsOrderly
    <3>3. m # t.at
      BY <1>0, <2>1, <3>2 DEF Does
    <3>4. QED
      BY <2>3, <2>4, <3>1, <3>3
  <2>5. CASE Lands(h)
    <3>1. m # t.at
      <4>1. ASSUME m = t.at PROVE FALSE
        <5>1. Brings(h, "shut")
          BY <1>0, <2>1, <4>1 DEF Does, Brings
        <5>2. form.cmd = t.cmd
          BY <1>0 DEF FormInv, OfForm, Sent
        <5>3. form' = NoForm(form.no)
          BY <2>5, <5>1, <5>2 DEF Lands, Filled
        <5>4. QED
          BY <5>3 DEF NoForm
      <4>2. QED
        BY <4>1
    <3>2. Same(Resumed(h)[h], u)
      BY <1>0, <2>5, ResumedHands, ForgottenHands DEF Lands, Same
    <3>3. QED
      BY <2>3, <3>1, <3>2
  <2>6. QED
    BY <1>7, <2>4, <2>5, AnswerFacts DEF Lands
<1>8. QED
  BY <1>2, <1>3, <1>4, <1>5, <1>6, <1>7, HandSteps

\* A handler that begins from a form does so while no other holds its flag.
LEMMA BegunFromForm ==
  ASSUME TypeOK, NEW h \in Hands, Begun(h), hand'[h].form = form.no, form.cmd # None, form' = form
  PROVE  /\ hand'[h].busy = Commands[form.cmd].busy /\ ~Commands[form.cmd].blind
         /\ hand'[h].saw = form.seen /\ ~Dead(form.cmd)
<1>1. PICK name \in Names, id \in Ids \cup {None}, to \in Statuses, saw \in Statuses, no \in Nat :
       /\ hand'[h] = Task(name, id, to, saw, no)
       /\ name \notin DOMAIN Commands => no = 0
       /\ name \in DOMAIN Commands =>
            /\ ~Dead(name)
            /\ IF IsForm(Commands[name]) THEN no = form.no /\ form.cmd = name /\ saw = form.seen
                                         ELSE no = 0 /\ saw = Shown(Commands[name], id)
            /\ IsForm(Commands[name]) /\ Commands[name].blind => form' = NoForm(form.no)
  BY DEF Begun
<1>2. /\ hand'[h].form = no /\ hand'[h].saw = saw
      /\ name \in DOMAIN Commands => hand'[h].busy = Commands[name].busy
  BY <1>1 DEF Task
<1>3. form.no # 0
  BY FormFields
<1>4. name \in DOMAIN Commands /\ form.cmd = name /\ saw = form.seen /\ IsForm(Commands[name])
      /\ ~Dead(name)
  BY <1>1, <1>2, <1>3
<1>5. ~Commands[name].blind
  BY <1>1, <1>4 DEF NoForm
<1>6. QED
  BY <1>2, <1>4, <1>5

\* The handlers sent from the form that is open were at work before, or one begins.
LEMMA SentBefore ==
  ASSUME TypeOK, [Next]_vars, NEW h \in Hands, hand'[h] # Idle, hand'[h].form = form.no,
         form' = form, form.cmd # None
  PROVE  Begun(h) \/ (Sent(h) /\ hand'[h].busy = hand[h].busy)
<1>1. CASE Begun(h)
  BY <1>1
<1>2. CASE Active(h) /\ hand'[h].form = hand[h].form
  BY <1>2, BusyKept DEF Sent
<1>3. QED
  BY <1>1, <1>2, HandKeeps

\* A form whose record is made, while it is open.
LEMMA MadeSteps ==
  ASSUME TypeOK, [Next]_vars
  PROVE  \/ made' = made
         \/ \E name \in DOMAIN Commands : Open(name)
         \/ \E h \in Hands : Write(h) /\ Makes(h) /\ hand[h].form = form.no /\ made' = made + 1
<1>1. ASSUME NEW h \in Hands, Write(h)
      PROVE  made' = made \/ (Write(h) /\ Makes(h) /\ hand[h].form = form.no /\ made' = made + 1)
  BY <1>1 DEF Write
<1>2. QED
  BY <1>1 DEF Next, vars, Cancel, Leave, Others, Sweep, Select, Press, Submit, Refresh, Refuse,
         Read,
       Lose, Answer

\* A command that makes records, sent by a form that is guarded, shuts it.
LEMMA MakerShuts ==
  ASSUME TypeOK, FormInv, NEW h \in Hands, Sent(h), Writes(h), form.cmd # None, Guarded,
         ~Commands[form.cmd].blind
  PROVE  WillShut(hand[h])
<1> DEFINE t == hand[h]
           c == Commands[form.cmd]
<1>1. t.cmd = form.cmd /\ Active(h)
  BY DEF FormInv, OfForm, Sent, Active
<1>2. /\ Calls(t.cmd) = c.run /\ t.at \in DOMAIN c.run /\ Asked(h) = c.run[t.at]
  BY <1>1, WriterCommands
<1>3. form.cmd \in DOMAIN Commands /\ IsForm(c) /\ screen \in PageNames
  BY FormFields DEF TypeOK
<1>4. SentOnce(c)
  BY <1>3 DEF Guarded, Page, Commands
<1>5. PICK m \in DOMAIN c.run :
            /\ m >= t.at /\ Does(c.run[m], {"shut"})
            /\ \A k \in t.at .. m : c.run[k].ask # "fetch"
  BY <1>2, <1>4 DEF SentOnce, Writes
<1>6. QED
  BY <1>2, <1>5 DEF WillShut

LEMMA GuardedIsBusy ==
  ASSUME TypeOK, form.cmd # None, Guarded, ~Commands[form.cmd].blind
  PROVE  Commands[form.cmd].busy # "none"
<1>1. form.cmd \in DOMAIN Commands /\ IsForm(Commands[form.cmd]) /\ screen \in PageNames
  BY FormFields DEF TypeOK
<1>2. SentOnce(Commands[form.cmd])
  BY <1>1 DEF Guarded, Page, Commands
<1>3. QED
  BY <1>2 DEF SentOnce

LEMMA SentOpen ==
  ASSUME TypeOK, FormInv, [Next]_vars, NEW name \in DOMAIN Commands, Open(name)
  PROVE  SentInv'
<1>1. Commands' = Commands
  BY ScreenStays, SamePage
<1>2. PICK id \in Ids :
        /\ Offered(name, Shown(Commands[name], id)) # {}
        /\ form' = [cmd |-> name, id |-> id, seen |-> Shown(Commands[name], id), no |-> form.no + 1]
  BY DEF Open
<1>3. made' = 0 /\ hand' = hand
  BY DEF Open
<1>4. PICK to \in Offered(name, Shown(Commands[name], id)) : TRUE
  BY <1>2
<1>5. <<Shown(Commands[name], id), to>> \in Commands[name].moves
  BY <1>4, OfferedType DEF TypeOK
<1>6. form'.seen = Absent => Creates(Commands[name])
  BY <1>2, <1>5 DEF Creates
<1>7. \A h \in Hands : Active(h) => hand[h].form # form'.no
  <2>1. ASSUME NEW h \in Hands, Active(h) PROVE hand[h].form # form'.no
    <3>1. hand[h].form \in Nat /\ form.no \in Nat
      BY <2>1, WorkingTask, FormNumber DEF Tasks
    <3>2. hand[h].form <= form.no
      BY <2>1 DEF FormInv, OfForm, Active
    <3>3. QED
      BY <1>2, <3>1, <3>2
  <2>2. QED
    BY <2>1
<1>8. form'.cmd = name
  BY <1>2
<1>9. QED
  BY <1>1, <1>3, <1>6, <1>7, <1>8 DEF SentInv, Sent, Active

LEMMA SentStep ==
  ASSUME TypeOK, TaskInv, FormInv, SentInv, [Next]_vars
  PROVE  SentInv'
<1>1. screen' = screen /\ Commands' = Commands /\ \A name : Calls(name)' = Calls(name)
  BY ScreenStays, SamePage
<1>2. CASE \E name \in DOMAIN Commands : Open(name)
  BY <1>2, SentOpen
<1>3. CASE form'.cmd = None
  BY <1>3 DEF SentInv
<1>4. CASE form' = form /\ form.cmd # None /\ ~\E name \in DOMAIN Commands : Open(name)
  <2>1. /\ form.seen = Absent => Creates(Commands[form.cmd])
        /\ form.seen # Absent => made = 0
        /\ \A h \in Hands : Sent(h) => /\ hand[h].busy = Commands[form.cmd].busy /\ ~Commands[form.cmd].blind
                                       /\ ~hand[h].stored => hand[h].saw = form.seen
    BY <1>4 DEF SentInv
  <2>2. Guarded => /\ \A g, h \in Hands : Sent(g) /\ Sent(h) => g = h
                   /\ ~cutShort /\ made # 0 =>
                        made = 1 /\ \E h \in Hands : Sent(h) /\ hand[h].stored /\ WillShut(hand[h])
    BY <1>4 DEF SentInv
  <2> DEFINE sent(h) == hand'[h] # Idle /\ hand'[h].form = form.no
  <2>3. ASSUME NEW h \in Hands, sent(h)
        PROVE  /\ hand'[h].busy = Commands[form.cmd].busy /\ ~Commands[form.cmd].blind
               /\ ~hand'[h].stored => hand'[h].saw = form.seen
    <3>1. CASE Begun(h)
      BY <1>4, <2>3, <3>1, BegunFromForm
    <3>2. CASE Sent(h) /\ hand'[h].busy = hand[h].busy
      <4>1. CASE Write(h)
        <5>1. Active(h) /\ Writes(h) /\ \E id \in Ids : hand'[h] = Written(h, id)
          BY <4>1, WriteFacts
        <5>2. hand'[h].stored
          BY <5>1, WrittenTask
        <5>3. QED
          BY <2>1, <3>2, <5>2
      <4>2. CASE ~Write(h)
        <5>1. hand'[h].stored = hand[h].stored /\ hand'[h].saw = hand[h].saw
          BY <2>3, <3>2, <4>2, HandKeeps DEF Begun, Sent
        <5>2. QED
          BY <2>1, <3>2, <5>1
      <4>3. QED
        BY <4>1, <4>2
    <3>3. QED
      BY <1>4, <2>3, <3>1, <3>2, SentBefore
  <2>4. ASSUME Guarded, NEW g \in Hands, NEW h \in Hands, sent(g), sent(h) PROVE g = h
    <3>1. ASSUME NEW i \in Hands, NEW j \in Hands, Begun(i), Sent(j) PROVE ~sent(i)
      <4>1. ASSUME sent(i) PROVE FALSE
        <5>1. ~Dead(form.cmd) /\ ~Commands[form.cmd].blind
          BY <1>4, <3>1, <4>1, BegunFromForm
        <5>2. Commands[form.cmd].busy # "none"
          BY <1>4, <2>4, <5>1, GuardedIsBusy
        <5>3. hand[j] # Idle /\ hand[j].busy = Commands[form.cmd].busy
          BY <2>1, <3>1 DEF Sent, Active
        <5>4. QED
          BY <5>1, <5>2, <5>3 DEF Dead
      <4>2. QED
        BY <4>1
    <3>2. ASSUME NEW i \in Hands, NEW j \in Hands, Begun(i), Begun(j) PROVE i = j
      BY <3>2, OneBegins
    <3>3. QED
      BY <1>4, <2>2, <2>4, <3>1, <3>2, SentBefore
  <2>5. made' # made => /\ form.seen = Absent /\ made' = made + 1
                        /\ \E h \in Hands : Write(h) /\ Makes(h) /\ Sent(h)
    <3>1. ASSUME NEW h \in Hands, Write(h), Makes(h),
                 hand[h].form = form.no PROVE form.seen = Absent /\ Sent(h)
      <4>1. Sent(h)
        BY <3>1, WriteFacts DEF Sent
      <4>2. QED
        BY <2>1, <3>1, <4>1 DEF Makes
    <3>2. QED
      BY <1>4, <3>1, MadeSteps
  <2>6. form.seen # Absent => made' = 0
    BY <2>1, <2>5
  <2>7. ASSUME Guarded, ~cutShort', made' # 0
        PROVE  made' = 1 /\ \E h \in Hands : sent(h) /\ hand'[h].stored /\ WillShut(hand'[h])
    <3>0. ~cutShort
      BY <2>7, CutShortStays
    <3>1. CASE made' = made
      <4>1. PICK h \in Hands : Sent(h) /\ hand[h].stored /\ WillShut(hand[h])
        BY <2>2, <2>7, <3>0, <3>1
      <4>2. made' = 1
        BY <2>2, <2>7, <3>0, <3>1
      <4>3. hand'[h] # Idle /\ WillShut(hand'[h])
        BY <1>4, <2>7, <4>1, ShutsLater
      <4>4. hand'[h].form = form.no /\ hand'[h].stored
        BY <4>1, <4>3, HandKeeps DEF Sent, Begun
      <4>5. QED
        BY <4>2, <4>3, <4>4
    <3>2. CASE made' # made
      <4>1. PICK h \in Hands : Write(h) /\ Makes(h) /\ Sent(h)
        BY <2>5, <3>2
      <4>2. made = 0
        <5>1. ~hand[h].stored
          BY <4>1 DEF Makes
        <5>2. QED
          BY <2>2, <2>7, <3>0, <4>1, <5>1
      <4>3. WillShut(hand[h])
        BY <1>4, <2>1, <2>7, <4>1, MakerShuts DEF Makes
      <4>4. PICK id \in Ids : hand'[h] = Written(h, id) /\ Writes(h) /\ Active(h)
        BY <4>1, OwnStep
      <4>5. /\ hand'[h].cmd = hand[h].cmd /\ hand'[h].at = hand[h].at /\ hand'[h].stored
            /\ hand'[h].form = hand[h].form /\ hand'[h] # Idle
        BY <4>4, WrittenTask, WorkingIsBusy DEF TypeOK
      <4>6. WillShut(hand'[h]) /\ sent(h)
        BY <4>1, <4>3, <4>5 DEF WillShut, Sent
      <4>7. QED
        BY <2>5, <3>2, <4>2, <4>5, <4>6
    <3>3. QED
      BY <3>1, <3>2
  <2>8. Guarded' <=> Guarded
    BY <1>1, <1>4 DEF Guarded
  <2>9. \A task : WillShut(task)' <=> WillShut(task)
    BY <1>1 DEF WillShut
  <2>10. \A h \in Hands : Sent(h)' <=> sent(h)
    BY <1>4 DEF Sent, Active
  <2> HIDE DEF sent
  <2>11. QED
    BY <1>1, <1>4, <2>1, <2>3, <2>4, <2>6, <2>7, <2>8, <2>9, <2>10 DEF SentInv
<1>5. QED
  BY <1>2, <1>3, <1>4, FormSteps
-----------------------------------------------------------------------------
(***************************************************************************)
(* What was written here and is not yet shown has a handler that will show *)
(* it: it holds a newer answer, or a call that brings one lies ahead.      *)
(***************************************************************************)
StoredInv == \A h \in Hands : Active(h) /\ hand[h].stored => Ran(hand[h], Writers)

LEMMA RanMore ==
  ASSUME NEW t, NEW u, u.cmd = t.cmd, Passed(t) \in Nat, Passed(u) \in Nat, Passed(u) >= Passed(t),
         NEW asks, Ran(t, asks)
  PROVE  Ran(u, asks)
<1>1. 1 .. Passed(t) \subseteq 1 .. Passed(u)
  OBVIOUS
<1>2. QED
  BY <1>1 DEF Ran

LEMMA StoredStep ==
  ASSUME TypeOK, StoredInv, [Next]_vars
  PROVE  StoredInv'
<1>1. ASSUME NEW h PROVE Ran(hand[h], Writers)' <=> Ran(hand'[h], Writers)
  <2>1. \A name : Calls(name)' = Calls(name)
    BY ScreenStays, SamePage
  <2>2. QED
    BY <2>1 DEF Ran, Passed
<1>2. SUFFICES ASSUME NEW h \in Hands, hand'[h] # Idle, hand'[h].stored PROVE Ran(hand'[h], Writers)
  BY <1>1 DEF StoredInv, Active
<1> DEFINE t == hand[h]
           u == hand'[h]
<1>3. t # Idle /\ t.stored => Ran(t, Writers)
  BY DEF StoredInv, Active
<1>4. t # Idle => /\ t.at \in Nat \ {0} /\ t.phase \in {"asked", "answered"} /\ Asked(h) = Calls(t.cmd)[t.at]
                  /\ Passed(t) \in Nat /\ Passed(t) <= t.at
  BY WorkingTask DEF Active, Tasks, Passed
<1>5. CASE Same(t, u)
  <2>1. t # Idle /\ t.stored /\ u.cmd = t.cmd /\ u.at = t.at /\ u.phase = t.phase
    BY <1>2, <1>5, SameFields
  <2>2. Passed(u) = Passed(t)
    BY <2>1 DEF Passed
  <2> HIDE DEF t, u
  <2>3. Ran(u, Writers)
    BY <1>3, <2>1, <2>2, RanSame
  <2>4. QED
    BY <2>3 DEF u
<1>6. CASE Begun(h)
  BY <1>2, <1>6 DEF Begun, Task
<1>7. CASE Write(h)
  <2>1. Active(h) /\ Writes(h) /\ \E id \in Ids : u = Written(h, id)
    BY <1>7, WriteFacts
  <2>2. u.phase = "answered" /\ u.cmd = t.cmd /\ u.at = t.at
    BY <2>1, WrittenTask
  <2>3. Calls(u.cmd)[t.at].ask \in Writers /\ t.at \in 1 .. Passed(u)
    BY <1>4, <2>1, <2>2 DEF Writes, Writing, Writers, Passed, Active
  <2> HIDE DEF t, u
  <2>4. Ran(u, Writers)
    BY <2>3 DEF Ran
  <2>5. QED
    BY <2>4 DEF u
<1>8. CASE Read(h)
  <2>1. u = Told(h) /\ ~Writes(h) /\ Active(h)
    BY <1>8, OwnStep
  <2>2. u.phase = "answered" /\ u.cmd = t.cmd /\ u.at = t.at /\ t.stored
    BY <1>2, <2>1, ToldTask
  <2>3. Passed(u) = t.at
    BY <2>2 DEF Passed
  <2> HIDE DEF u
  <2>4. Ran(u, Writers)
    BY <1>3, <1>4, <2>1, <2>2, <2>3, RanMore DEF Active
  <2>5. QED
    BY <2>4 DEF u
<1>9. CASE Refuse(h) \/ Lose(h) \/ Answer(h)
  <2>1. Active(h)
    BY <1>9, OtherHands
  <2>2. PICK n \in DOMAIN Calls(t.cmd) : n > t.at /\ Same(Going(h, n), u) /\ Going(h, n) \in Working
    BY <1>2, <1>9, <2>1, OwnStep
  <2>3. /\ Going(h, n).at = n /\ Going(h, n).phase = "asked" /\ Going(h, n).cmd = t.cmd
        /\ Going(h, n).stored = t.stored
    BY <2>1, GoingTask
  <2>4. Going(h, n) # Idle
    BY <2>2, WorkingIsBusy DEF TypeOK
  <2>5. u.at = n /\ u.phase = "asked" /\ u.cmd = t.cmd /\ u.stored = t.stored
    BY <2>2, <2>3, <2>4, SameFields
  <2>6. n \in Nat
    BY <2>1, WorkingTask, CallType1 DEF TypeOK
  <2>7. Passed(u) = n - 1 /\ n - 1 >= t.at /\ Ran(t, Writers) /\ Passed(t) \in Nat
        /\ Passed(t) <= t.at /\ t.at \in Nat
    BY <1>2, <1>3, <1>4, <2>1, <2>2, <2>5, <2>6 DEF Passed, Active
  <2> HIDE DEF t, u
  <2>8. Ran(u, Writers)
    BY <2>5, <2>6, <2>7, RanMore
  <2>9. QED
    BY <2>8 DEF u
<1>10. QED
  BY <1>5, <1>6, <1>7, <1>8, <1>9, HandSteps

\* A call that a task has yet to have answered, or whose answer it holds.
Ahead(task, effects) == \E n \in DOMAIN Calls(task.cmd) :
  n >= task.at /\ (n = task.at => task.phase = "asked") /\ Does(Calls(task.cmd)[n], effects)
Here(task, effects) == task.phase = "answered" /\ Does(At(task), effects)

LEMMA AheadStays ==
  ASSUME [Next]_vars, NEW h, NEW effects
  PROVE  /\ Ahead(hand[h], effects)' <=> Ahead(hand'[h], effects)
         /\ Here(hand[h], effects)' <=> Here(hand'[h], effects)
<1>1. (\A name : Calls(name)' = Calls(name)) /\ \A task : At(task)' = At(task)
  BY ScreenStays, SamePage
<1>2. QED
  BY <1>1 DEF Ahead, Here

LEMMA AheadSame ==
  ASSUME NEW t, NEW u, Same(t, u), t # Idle, NEW effects
  PROVE  (Ahead(u, effects) <=> Ahead(t, effects)) /\ (Here(u, effects) <=> Here(t, effects))
<1>1. u.cmd = t.cmd /\ u.at = t.at /\ u.phase = t.phase /\ At(u) = At(t)
  BY SameFields
<1>2. QED
  BY <1>1 DEF Ahead, Here

\* With an answer, what lay ahead still does or is here.
LEMMA AheadTold ==
  ASSUME NEW t, NEW u, u.cmd = t.cmd, u.at = t.at, u.phase = "answered", NEW effects,
         Ahead(t, effects)
  PROVE  Ahead(u, effects) \/ Here(u, effects)
<1>1. PICK n \in DOMAIN Calls(t.cmd) : n >= t.at /\ Does(Calls(t.cmd)[n], effects)
  BY DEF Ahead
<1>2. CASE n = t.at
  BY <1>1, <1>2 DEF Here, At
<1>3. CASE n # t.at
  BY <1>1, <1>3 DEF Ahead
<1>4. QED
  BY <1>2, <1>3

\* A call and those that follow it.
LEMMA FollowsOn ==
  ASSUME NEW u, u.phase = "answered", NEW run, Calls(u.cmd) = run, NEW n, n = u.at,
         NEW effects, Follows(run, n, effects)
  PROVE  Ahead(u, effects) \/ Here(u, effects)
<1>1. PICK m \in DOMAIN run : m >= n /\ Does(run[m], effects)
  BY DEF Follows
<1>2. CASE m = u.at
  BY <1>1, <1>2 DEF Here, At
<1>3. CASE m # u.at
  BY <1>1, <1>3 DEF Ahead
<1>4. QED
  BY <1>2, <1>3

\* An answer lets its handler go on, but a fetch that finds its record gone
\* and does not catch that.
LEMMA GoesOn ==
  ASSUME TypeOK, NEW h \in Hands, Answer(h), NEW effects, Ahead(hand[h], effects),
         Fetches(h) /\ ~Live(Brought(h)) => Asked(h).ask = "peek"
  PROVE  /\ hand'[h] # Idle /\ Ahead(hand'[h], effects) /\ hand'[h].phase = "asked"
         /\ \A field \in {"cmd", "id", "to", "stored"} : hand'[h][field] = hand[h][field]
<1> DEFINE t == hand[h]
           u == Going(h, t.at + 1)
<1>1. Active(h) /\ t.phase = "answered"
  BY AnswerFacts
<1>2. /\ t.cmd \in Names /\ t.at \in DOMAIN Calls(t.cmd) /\ t.at \in Nat \ {0}
      /\ screen \in PageNames
  BY <1>1, WorkingTask DEF TypeOK
<1>3. PICK n \in DOMAIN Calls(t.cmd) : n >= t.at /\ n # t.at /\ Does(Calls(t.cmd)[n], effects)
  BY <1>1 DEF Ahead
<1>4. n \in Nat /\ n <= Last(h) /\ Last(h) \in Nat
  BY <1>2, CallType1 DEF Last
<1>5. t.at # Last(h)
  BY <1>2, <1>3, <1>4
<1>6. t.at + 1 \in DOMAIN Calls(t.cmd) /\ Resumed(h)[h] = u
      /\ Resumed(h) \in [Hands -> {Idle} \cup Working]
  BY <1>1, <1>5, ResumedHands
<1>7. /\ u \in Working /\ u.at = t.at + 1 /\ u.phase = "asked"
      /\ u.cmd = t.cmd /\ u.id = t.id /\ u.to = t.to /\ u.stored = t.stored
  BY <1>1, <1>6, GoingTask
<1>8. u # Idle
  BY <1>7, WorkingIsBusy DEF TypeOK
<1>9. Ahead(u, effects)
  <2>1. n >= u.at
    BY <1>2, <1>3, <1>4, <1>7
  <2> HIDE DEF u
  <2>2. QED
    BY <1>3, <1>7, <2>1 DEF Ahead
<1>10. Same(u, hand'[h])
  <2>1. CASE hand' = Resumed(h)
    BY <1>6, <2>1 DEF Same
  <2>2. CASE hand' = Forgotten(Resumed(h), Filled(h), Drawn(h))
    BY <1>6, <2>2, ForgottenHands DEF Same
  <2>3. QED
    BY <2>1, <2>2, AnswerFacts
<1> HIDE DEF u
<1>11. hand'[h] # Idle /\ Ahead(hand'[h], effects) /\ hand'[h].phase = "asked"
  BY <1>7, <1>8, <1>9, <1>10, SameFields, AheadSame
<1>12. hand'[h].cmd = t.cmd /\ hand'[h].id = t.id /\ hand'[h].to = t.to
       /\ hand'[h].stored = t.stored
  BY <1>7, <1>8, <1>10, SameFields
<1>13. QED
  BY <1>11, <1>12

\* What was written here can be shown: no handler has stopped halfway, no old
\* answer came last, and nobody else has deleted the record.
Owed(id) == ~cutShort /\ ~overtaken /\ (Live(rows[id]) \/ rows[id].version = own[id].list)

\* A task that has written the record, or opens it; that wrote it, and deleted
\* it if it is gone; that brings it, as new as it was written.
Concerns(task, id) == task # Idle /\ task.id = id /\ (task.stored \/ task.cmd = "open")
Holding(task, id, row) == /\ task # Idle /\ task.stored /\ task.id = id
                          /\ row.status = Gone => task.to = Gone
Bringing(task, id, effects, version) ==
  Ahead(task, effects) \/ (Here(task, effects) /\ task.reply[id].version >= version)

ListInv == \A id \in Ids : Owed(id) /\ list[id].version < own[id].list =>
  \E h \in Hands : /\ Holding(hand[h], id, rows[id])
                   /\ Bringing(hand[h], id, {"list", "patch"}, own[id].list)

LEMMA RowVersions ==
  ASSUME TypeOK, VersionInv, [Next]_vars, NEW id \in Ids
  PROVE  /\ rows[id].version \in Nat /\ rows'[id].version \in Nat
         /\ own[id].list \in Nat /\ own[id].drawer \in Nat /\ own'[id].list \in Nat
         /\ own'[id].drawer \in Nat
         /\ list[id].version \in Nat /\ list'[id].version \in Nat
         /\ own[id].list <= own[id].drawer /\ own[id].drawer <= rows[id].version
         /\ own'[id].list <= own'[id].drawer /\ own'[id].drawer <= rows'[id].version
<1>1. TypeOK'
  BY TypeStep
<1>2. Rows' = Rows
  BY ScreenStays, SamePage
<1>3. /\ rows[id] \in Rows /\ rows'[id] \in Rows /\ list[id] \in Rows /\ list'[id] \in Rows
      /\ own[id] \in [list : Nat, drawer : Nat] /\ own'[id] \in [list : Nat, drawer : Nat]
  BY <1>1, <1>2 DEF TypeOK
<1>4. own[id].list <= own[id].drawer /\ own[id].drawer <= rows[id].version
  BY DEF VersionInv
<1>5. QED
  BY <1>3, <1>4, VersionsWritten DEF Rows

LEMMA OwedBefore ==
  ASSUME TypeOK, VersionInv, [Next]_vars, NEW id \in Ids, Owed(id)', own'[id].list = own[id].list,
         own[id].drawer > 0
  PROVE  /\ Owed(id)
         /\ rows'[id].status = Gone => rows'[id] = rows[id]
         /\ Live(rows[id]) => Live(rows'[id])
<1>1. MovesOn(rows[id], rows'[id]) /\ Copies(rows[id], rows[id])
  BY RowsMoveOn DEF VersionInv
<1>2. /\ rows[id].version \in Nat /\ rows'[id].version \in Nat /\ own[id].list \in Nat
      /\ own[id].drawer \in Nat
      /\ own[id].list <= own[id].drawer /\ own[id].drawer <= rows[id].version
  BY RowVersions
<1>3. ~cutShort' /\ ~overtaken' /\ (Live(rows'[id]) \/ rows'[id].version = own'[id].list)
  BY DEF Owed, Live
<1>4. ~cutShort /\ ~overtaken
  BY <1>3, CutShortStays, OvertakenStays
<1>5. rows[id].status # Absent
  BY <1>1, <1>2 DEF Copies, Fits
<1>6. rows'[id].version = own'[id].list => rows'[id] = rows[id]
  BY <1>1, <1>2 DEF MovesOn
<1>7. Live(rows'[id]) => Live(rows[id])
  BY <1>1, <1>5 DEF MovesOn, Live
<1>8. QED
  BY <1>3, <1>4, <1>6, <1>7 DEF Owed, Live

\* Unless an answer overtakes another, the list only grows newer.
LEMMA ListGrows ==
  ASSUME TypeOK, VersionInv, [Next]_vars, ~overtaken', NEW id \in Ids
  PROVE  list[id].version <= list'[id].version
<1>1. list[id].version \in Nat /\ list'[id].version \in Nat
  BY RowVersions
<1>2. CASE list' = list
  BY <1>1, <1>2
<1>3. ASSUME NEW h \in Hands, Lands(h) PROVE ~(list'[id].version < list[id].version)
  BY <1>3 DEF Lands, Overtakes
<1>4. QED
  BY <1>1, <1>2, <1>3, ListSteps

\* The calls of a handler that has written.
LEMMA HolderRuns ==
  ASSUME TypeOK, TaskInv, NEW h \in Hands, Active(h), hand[h].stored
  PROVE  /\ hand[h].cmd \in DOMAIN Commands /\ Calls(hand[h].cmd) = Commands[hand[h].cmd].run
         /\ Relists(Commands[hand[h].cmd]) /\ Redraws(Page, Commands[hand[h].cmd])
         /\ hand[h].to = Gone => Deletes(Commands[hand[h].cmd])
<1>1. Honest(hand[h]) /\ hand[h] # Idle /\ screen \in PageNames
  BY DEF TaskInv, Active, TypeOK
<1>2. hand[h].cmd \in DOMAIN Commands
  BY <1>1 DEF Honest
<1>3. \E move \in Commands[hand[h].cmd].moves : move[2] = hand[h].to
  BY <1>1, <1>2 DEF Honest
<1>4. Calls(hand[h].cmd) = Commands[hand[h].cmd].run
  BY <1>1, <1>2, CommandIsTyped DEF Calls
<1>5. Relists(Commands[hand[h].cmd]) /\ Redraws(Page, Commands[hand[h].cmd])
  BY <1>1, <1>2 DEF Page, Commands
<1>6. QED
  BY <1>2, <1>3, <1>4, <1>5 DEF Deletes

\* A fetch of a handler's own record finds it gone only if it is.
LEMMA FetchFinds ==
  ASSUME TypeOK, VersionInv, NEW h \in Hands, NEW id, Concerns(hand[h], id), Answer(h), Fetches(h),
         ~Live(Brought(h))
  PROVE  rows[id].status = Gone
<1>1. /\ Active(h) /\ hand[h].phase = "answered" /\ hand[h].id = id /\ About(Asked(h))
      /\ At(hand[h]) = Asked(h) /\ Truthful(hand[h]) /\ Finds(hand[h])
  BY AnswerFacts DEF Concerns, About, Fetches, Asked, VersionInv
<1>2. id \in Ids /\ Brought(h) \in Rows /\ Brought(h) = hand[h].reply[id]
  BY <1>1, AnswerBrings DEF Brought
<1>3. Copies(Brought(h), rows[id]) /\ Brought(h).version >= 1
  BY <1>1, <1>2 DEF Truthful, Finds, Concerns
<1>4. QED
  BY <1>2, <1>3 DEF Copies, Fits, Live, Rows

LEMMA HolderGoesOn ==
  ASSUME TypeOK, TaskInv, VersionInv, NEW h \in Hands, NEW id, Holding(hand[h], id, rows[id]),
         Answer(h),
         Fetches(h), ~Live(Brought(h))
  PROVE  Asked(h).ask = "peek"
<1>1. hand[h].to = Gone
  BY FetchFinds DEF Holding, Concerns
<1>2. Active(h) /\ hand[h].stored
  BY DEF Holding, Active
<1>3. hand[h].at \in DOMAIN Calls(hand[h].cmd) /\ Asked(h) = Calls(hand[h].cmd)[hand[h].at]
  BY <1>2, WorkingTask
<1>4. Asked(h).ask # "fetch"
  BY <1>1, <1>2, <1>3, HolderRuns DEF Relists
<1>5. QED
  BY <1>4 DEF Fetches, Fetching

\* A handler keeps what lies ahead of it, or has it answered with the record
\* as it is by then.
LEMMA Carried ==
  ASSUME TypeOK, TaskInv, VersionInv, [Next]_vars, NEW h \in Hands, NEW id \in Ids, NEW effects,
         Concerns(hand[h], id), ~cutShort', Ahead(hand[h], effects),
         Answer(h) /\ Fetches(h) /\ ~Live(Brought(h)) => Asked(h).ask = "peek"
  PROVE  /\ hand'[h] # Idle
         /\ \A field \in {"cmd", "id", "to", "stored"} : hand'[h][field] = hand[h][field]
         /\ \/ Ahead(hand'[h], effects)
            \/ Here(hand'[h], effects) /\ hand'[h].reply[id] = rows'[id]
<1> DEFINE t == hand[h]
           u == hand'[h]
<1>1. Active(h) /\ t # Idle /\ t.id = id /\ (t.stored \/ t.cmd = "open")
  BY DEF Concerns, Active
<1>2. CASE Same(t, u)
  <2>1. u # Idle /\ u.cmd = t.cmd /\ u.id = t.id /\ u.to = t.to /\ u.stored = t.stored
    BY <1>1, <1>2, SameFields
  <2>2. Ahead(u, effects)
    BY <1>1, <1>2, AheadSame
  <2>3. QED
    BY <2>1, <2>2
<1>3. CASE Begun(h)
  BY <1>1, <1>3 DEF Begun
<1>4. ASSUME Writes(h) PROVE t.stored
  <2>1. t.cmd \in DOMAIN Commands
    BY <1>1, <1>4, WriterCommands
  <2>2. t.cmd # "open"
    BY <2>1, CommandIsTyped DEF TypeOK
  <2>3. QED
    BY <1>1, <2>2
<1>5. CASE Write(h)
  <2>1. Writes(h) /\ t.stored
    BY <1>4, <1>5, WriteFacts
  <2>2. rows'[id] = Result(h, id) /\ u = Written(h, id)
    <3>1. ~Makes(h)
      BY <2>1 DEF Makes
    <3>2. QED
      BY <1>1, <1>5, <3>1, WriteFacts
  <2>3. /\ u \in Working /\ u.phase = "answered" /\ u.id = t.id /\ u.stored = t.stored
        /\ u.reply[id] = rows'[id] /\ u.cmd = t.cmd /\ u.to = t.to /\ u.at = t.at
    <3>1. Written(h, id).stored = TRUE /\ t.stored = TRUE
      <4>1. t.stored \in BOOLEAN
        BY <1>1, WorkingTask DEF Tasks
      <4>2. Written(h, id).stored \in BOOLEAN
        BY <1>1, <2>1, WrittenTask DEF Working, Tasks
      <4> HIDE DEF t
      <4>3. QED
        BY <1>1, <2>1, <4>1, <4>2, WrittenTask
    <3>2. /\ Written(h, id) \in Working /\ Written(h, id).phase = "answered"
          /\ Written(h, id).id = id
          /\ Written(h, id).reply[id] = Result(h, id)
          /\ Written(h, id).cmd = t.cmd /\ Written(h, id).to = t.to /\ Written(h, id).at = t.at
      BY <1>1, <2>1, WrittenTask
    <3>3. t.id = id
      BY <1>1
    <3> HIDE DEF t, u
    <3>4. QED
      BY <2>2, <3>1, <3>2, <3>3
  <2>4. u # Idle
    BY <2>3, WorkingIsBusy DEF TypeOK
  <2>5. Ahead(u, effects) \/ Here(u, effects)
    <3> HIDE DEF u
    <3>1. QED
      BY <2>3, AheadTold
  <2>6. QED
    BY <2>3, <2>4, <2>5
<1>6. CASE Refuse(h)
  BY <1>4, <1>6 DEF Refuse
<1>7. CASE Lose(h)
  BY <1>7 DEF Lose
<1>8. CASE Read(h)
  <2>1. u = Told(h) /\ ~Writes(h) /\ rows' = rows
    BY <1>8, OwnStep DEF Read
  <2>2. /\ u \in Working /\ u.phase = "answered" /\ u.reply[id] = rows'[id]
        /\ u.cmd = t.cmd /\ u.id = t.id /\ u.to = t.to /\ u.stored = t.stored /\ u.at = t.at
    BY <1>1, <2>1, ToldTask
  <2>3. u # Idle
    BY <2>2, WorkingIsBusy DEF TypeOK
  <2>4. Ahead(u, effects) \/ Here(u, effects)
    <3> HIDE DEF u
    <3>1. QED
      BY <2>2, AheadTold
  <2>5. QED
    BY <2>2, <2>3, <2>4
<1>9. CASE Answer(h)
  BY <1>9, GoesOn
<1>10. QED
  BY <1>2, <1>3, <1>5, <1>6, <1>7, <1>8, <1>9, HandSteps

\* And it keeps an answer until it comes.
LEMMA CarriedHere ==
  ASSUME TypeOK, [Next]_vars, NEW h \in Hands, NEW effects, Active(h), ~cutShort',
         Here(hand[h], effects), ~Answer(h)
  PROVE  /\ hand'[h] # Idle /\ Here(hand'[h], effects) /\ hand'[h].reply = hand[h].reply
         /\ \A field \in {"cmd", "id", "to", "stored"} : hand'[h][field] = hand[h][field]
<1>1. hand[h].phase = "answered"
  BY DEF Here
<1>2. Same(hand[h], hand'[h])
  BY <1>1, HandSteps DEF Begun, Write, Refuse, Read, Asking, Lose
<1>3. QED
  BY <1>2, SameFields, AheadSame DEF Active

\* A write holds its record, as it now is, until what follows has shown it.
LEMMA WriteHolds ==
  ASSUME TypeOK, TaskInv, [Next]_vars, NEW h \in Hands, Write(h), NEW id \in Ids, own'[id] # own[id]
  PROVE  /\ Active(h) /\ Writes(h) /\ hand[h].cmd \in DOMAIN Commands
         /\ hand[h].at \in DOMAIN Commands[hand[h].cmd].run
         /\ Asked(h) = Commands[hand[h].cmd].run[hand[h].at]
         /\ IF Makes(h) THEN rows[id] = Blank ELSE id = hand[h].id
         /\ Holding(hand'[h], id, rows'[id]) /\ hand'[h].reply[id] = rows'[id]
         /\ hand'[h].phase = "answered" /\ hand'[h].to = hand[h].to
         /\ rows'[id].status # Absent /\ (rows'[id].status = Gone => hand[h].to = Gone)
         /\ Asked(h).ask = "inner" => own'[id].list = own[id].list
         /\ \A effects : Follows(Commands[hand[h].cmd].run, hand[h].at, effects) =>
                           Ahead(hand'[h], effects) \/ Here(hand'[h], effects)
<1> DEFINE t == hand[h]
           u == hand'[h]
<1>1. Active(h) /\ Writes(h)
  BY WriteFacts
<1>2. /\ IF Makes(h) THEN rows[id] = Blank ELSE id = t.id
      /\ Passes(h, id) /\ rows'[id] = Result(h, id) /\ u = Written(h, id)
      /\ Asked(h).ask = "inner" => own'[id].list = own[id].list
  <2>1. PICK i \in Ids :
              /\ IF Makes(h) THEN rows[i] = Blank ELSE i = t.id
              /\ Passes(h, i) /\ rows'[i] = Result(h, i) /\ u = Written(h, i)
              /\ own'[i] = [drawer |-> Result(h, i).version,
                            list |-> IF Asked(h).ask = "inner" THEN own[i].list ELSE Result(h, i).version]
              /\ \A j \in Ids \ {i} : own'[j] = own[j]
    BY WriteFacts
  <2>2. i = id
    BY <2>1
  <2> HIDE DEF t, u
  <2>3. QED
    BY <2>1, <2>2
<1>3. /\ t.cmd \in DOMAIN Commands /\ Calls(t.cmd) = Commands[t.cmd].run
      /\ t.at \in DOMAIN Commands[t.cmd].run /\ Asked(h) = Commands[t.cmd].run[t.at]
  BY <1>1, WriterCommands
<1>4. /\ Written(h, id) \in Working /\ Written(h, id).phase = "answered" /\ Written(h, id).id = id
      /\ Written(h, id).stored /\ Written(h, id).reply[id] = Result(h, id)
      /\ Written(h, id).cmd = t.cmd /\ Written(h, id).to = t.to /\ Written(h, id).at = t.at
  BY <1>1, WrittenTask
<1>5. Written(h, id) # Idle
  BY <1>4, WorkingIsBusy DEF TypeOK
<1>6. Result(h, id).status # Absent /\ (Result(h, id).status = Gone => t.to = Gone)
  BY <1>1, <1>2, PassedRow
<1> HIDE DEF t, u
<1>7. Holding(u, id, rows'[id])
  BY <1>2, <1>4, <1>5, <1>6 DEF Holding
<1>8. ASSUME NEW effects, Follows(Commands[t.cmd].run, t.at, effects)
      PROVE  Ahead(u, effects) \/ Here(u, effects)
  <2>1. u.phase = "answered" /\ u.at = t.at /\ Calls(u.cmd) = Commands[t.cmd].run
    BY <1>2, <1>3, <1>4
  <2>2. QED
    BY <1>8, <2>1, FollowsOn
<1>9. u.reply[id] = rows'[id] /\ u.phase = "answered" /\ u.to = t.to
  BY <1>2, <1>4
<1>10. QED
  BY <1>1, <1>2, <1>3, <1>6, <1>7, <1>8, <1>9 DEF t, u

LEMMA OwnSteps == ASSUME [Next]_vars PROVE own' = own \/ \E h \in Hands : Write(h)
BY DEF Next, vars, Cancel, Leave, Others, Sweep, Open, Select, Press, Submit, Refresh, Refuse, Read,
       Lose, Answer

LEMMA ListStep ==
  ASSUME TypeOK, TaskInv, VersionInv, ListInv, [Next]_vars
  PROVE  ListInv'
<1> DEFINE E == {"list", "patch"}
<1>1. SUFFICES ASSUME NEW id \in Ids, Owed(id)', list'[id].version < own'[id].list
               PROVE  \E h \in Hands : /\ Holding(hand'[h], id, rows'[id])
                                       /\ Bringing(hand'[h], id, E, own'[id].list)
  <2>1. \A h : (Ahead(hand[h], E)' <=> Ahead(hand'[h], E)) /\ (Here(hand[h], E)' <=> Here(hand'[h], E))
    BY AheadStays
  <2>2. QED
    BY <2>1 DEF ListInv, Holding, Bringing
<1> HIDE DEF E
<1>2. /\ own'[id].list \in Nat /\ own[id].list \in Nat /\ own[id].drawer \in Nat
      /\ list[id].version \in Nat /\ list'[id].version \in Nat
      /\ own[id].list <= own[id].drawer /\ own'[id].list <= own'[id].drawer
      /\ own'[id].drawer <= rows'[id].version /\ rows'[id].version \in Nat
      /\ own'[id].drawer \in Nat
  BY RowVersions
<1>3. ~cutShort' /\ ~overtaken'
  BY <1>1 DEF Owed
<1>4. CASE own'[id].list # own[id].list
  <2>1. PICK h \in Hands : Write(h)
    BY <1>4, OwnSteps
  <2>2. own'[id] # own[id]
    BY <1>4
  <2>3. /\ Active(h) /\ Writes(h) /\ hand[h].cmd \in DOMAIN Commands
        /\ hand[h].at \in DOMAIN Commands[hand[h].cmd].run
        /\ Asked(h) = Commands[hand[h].cmd].run[hand[h].at]
        /\ Holding(hand'[h], id, rows'[id]) /\ hand'[h].reply[id] = rows'[id]
        /\ Follows(Commands[hand[h].cmd].run, hand[h].at, E) => Ahead(hand'[h], E) \/ Here(hand'[h], E)
        /\ Asked(h).ask # "inner"
    BY <1>4, <2>1, <2>2, WriteHolds
  <2>4. Relists(Commands[hand[h].cmd])
    <3>1. screen \in PageNames
      BY DEF TypeOK
    <3>2. QED
      BY <2>3, <3>1 DEF Page, Commands
  <2>5. Follows(Commands[hand[h].cmd].run, hand[h].at, E)
    BY <2>3, <2>4 DEF Relists, Writes, E
  <2>6. Bringing(hand'[h], id, E, own'[id].list)
    BY <1>2, <2>3, <2>5 DEF Bringing
  <2>7. QED
    BY <2>3, <2>6
<1>5. CASE own'[id].list = own[id].list
  <2>1. own[id].drawer > 0
    BY <1>1, <1>2, <1>5
  <2>2. Owed(id) /\ (rows'[id].status = Gone => rows'[id] = rows[id])
    BY <1>1, <1>5, <2>1, OwedBefore
  <2>3. list[id].version < own[id].list
    <3>1. list[id].version <= list'[id].version
      BY <1>3, ListGrows
    <3>2. QED
      BY <1>1, <1>2, <1>5, <3>1
  <2>4. PICK h \in Hands : Holding(hand[h], id, rows[id]) /\ Bringing(hand[h], id, E, own[id].list)
    BY <2>2, <2>3 DEF ListInv, E
  <2>5. Active(h) /\ Concerns(hand[h], id)
    BY <2>4 DEF Holding, Concerns, Active
  <2>6. ASSUME hand'[h] # Idle,
               \A field \in {"cmd", "id", "to", "stored"} : hand'[h][field] = hand[h][field]
        PROVE  Holding(hand'[h], id, rows'[id])
    <3>1. hand'[h].id = hand[h].id /\ hand'[h].to = hand[h].to /\ hand'[h].stored = hand[h].stored
      BY <2>6
    <3>2. QED
      BY <2>2, <2>4, <2>6, <3>1 DEF Holding
  <2>7. CASE Ahead(hand[h], E)
    <3>1. Answer(h) /\ Fetches(h) /\ ~Live(Brought(h)) => Asked(h).ask = "peek"
      BY <2>4, HolderGoesOn
    <3>2. /\ hand'[h] # Idle
          /\ \A field \in {"cmd", "id", "to", "stored"} : hand'[h][field] = hand[h][field]
          /\ Ahead(hand'[h], E) \/ (Here(hand'[h], E) /\ hand'[h].reply[id] = rows'[id])
      BY <1>3, <2>5, <2>7, <3>1, Carried
    <3>3. Bringing(hand'[h], id, E, own'[id].list)
      BY <1>2, <3>2 DEF Bringing
    <3>4. QED
      BY <2>6, <3>2, <3>3
  <2>8. CASE Here(hand[h], E) /\ hand[h].reply[id].version >= own[id].list /\ ~Answer(h)
    <3>1. /\ hand'[h] # Idle /\ Here(hand'[h], E) /\ hand'[h].reply = hand[h].reply
          /\ \A field \in {"cmd", "id", "to", "stored"} : hand'[h][field] = hand[h][field]
      BY <1>3, <2>5, <2>8, CarriedHere
    <3>2. Bringing(hand'[h], id, E, own'[id].list)
      BY <1>5, <2>8, <3>1 DEF Bringing
    <3>3. QED
      BY <2>6, <3>1, <3>2
  <2>9. CASE Here(hand[h], E) /\ hand[h].reply[id].version >= own[id].list /\ Answer(h)
    <3>1. hand[h].phase = "answered" /\ Does(Asked(h), E) /\ hand[h].id = id
      BY <2>5, <2>9 DEF Here, Asked, Concerns
    <3>2. Brings(h, "list") \/ Brings(h, "patch")
      BY <3>1 DEF Does, Brings, E
    <3>3. ~Fetches(h)
      BY <2>5, <3>1, <3>2, AnswerBrings DEF Fetches, Fetching, Writing, About
    <3>4. list' = Listed(h)
      BY <2>9, <3>3, AnswerFacts
    <3>5. Listed(h)[id] = hand[h].reply[id]
      BY <2>5, <3>1, <3>2, ListedRow DEF Brought
    <3>6. QED
      BY <1>1, <1>2, <1>5, <2>9, <3>4, <3>5
  <2>10. QED
    BY <2>4, <2>7, <2>8, <2>9 DEF Bringing
<1>6. QED
  BY <1>4, <1>5

\* The drawer, likewise: a handler will leave it, or show what it holds.
Leaving(task, id, row) == /\ Holding(task, id, row)
                          /\ Ahead(task, {"leave"}) \/ Here(task, {"leave"})
ShowingIt(task, id, row, version) == Live(row) /\ Concerns(task, id) /\ Bringing(task, id, {"show"}, version)

DrawerInv ==
  /\ Tracks => \A id \in Ids : own[id].list = own[id].drawer
  /\ ~Tracks => \A id \in Ids : Owed(id) /\ drawer.id = id /\ drawer.row.version < own[id].drawer =>
       \E h \in Hands : \/ Leaving(hand[h], id, rows[id])
                        \/ ShowingIt(hand[h], id, rows[id], own[id].drawer)

\* A page whose drawer follows its list writes nothing that the list does not tell.
LEMMA TrackedWrites ==
  ASSUME TypeOK, TaskInv, Tracks, DrawerInv, [Next]_vars, NEW id \in Ids
  PROVE  own'[id].list = own'[id].drawer
<1>1. CASE own'[id] = own[id]
  BY <1>1 DEF DrawerInv
<1>2. CASE own'[id] # own[id]
  <2>1. PICK h \in Hands : Write(h)
    BY <1>2, OwnSteps
  <2>2. /\ hand[h].cmd \in DOMAIN Commands /\ hand[h].at \in DOMAIN Commands[hand[h].cmd].run
        /\ Asked(h) = Commands[hand[h].cmd].run[hand[h].at]
    BY <1>2, <2>1, WriteHolds
  <2>3. Redraws(Page, Commands[hand[h].cmd])
    <3>1. screen \in PageNames
      BY DEF TypeOK
    <3>2. QED
      BY <2>2, <3>1 DEF Page, Commands
  <2>4. Asked(h).ask # "inner"
    <3>1. Page.kind \in {"live", "place"} /\ Page.kind # "none"
      BY DEF Tracks
    <3>2. QED
      BY <2>2, <2>3, <3>1 DEF Redraws
  <2>5. PICK i \in Ids :
              /\ own'[i] = [drawer |-> Result(h, i).version,
                            list |-> IF Asked(h).ask = "inner" THEN own[i].list ELSE Result(h, i).version]
              /\ \A j \in Ids \ {i} : own'[j] = own[j]
    BY <2>1, WriteFacts
  <2>6. i = id
    BY <1>2, <2>5
  <2>7. QED
    BY <2>4, <2>5, <2>6
<1>3. QED
  BY <1>1, <1>2

\* What a write of a record that the drawer shows does next.
LEMMA WriteRedraws ==
  ASSUME TypeOK, TaskInv, VersionInv, StoredInv, KeptInv, ~Tracks, [Next]_vars, NEW h \in Hands,
         Write(h),
         NEW id \in Ids, own'[id] # own[id], drawer.id = id
  PROVE  Leaving(hand'[h], id, rows'[id]) \/ ShowingIt(hand'[h], id, rows'[id], own'[id].drawer)
<1> DEFINE t == hand[h]
           c == Commands[t.cmd]
<1>1. /\ Active(h) /\ Writes(h) /\ t.cmd \in DOMAIN Commands
      /\ t.at \in DOMAIN c.run /\ Asked(h) = c.run[t.at]
      /\ IF Makes(h) THEN rows[id] = Blank ELSE id = t.id
      /\ Holding(hand'[h], id, rows'[id]) /\ hand'[h].reply[id] = rows'[id]
      /\ rows'[id].status # Absent /\ (rows'[id].status = Gone => t.to = Gone)
      /\ \A effects : Follows(c.run, t.at, effects) => Ahead(hand'[h], effects) \/ Here(hand'[h], effects)
  BY WriteHolds
<1>2. drawer # Closed /\ Page.kind \notin {"none", "live", "place"}
  <2>1. drawer # Closed
    BY DEF Closed
  <2>2. QED
    BY <2>1 DEF KeptInv, Tracks
<1>3. ~Makes(h)
  <2>1. rows[id].version >= 1
    BY <1>2 DEF VersionInv
  <2>2. rows[id] # Blank
    BY <2>1 DEF Blank
  <2>3. QED
    BY <1>1, <2>2
<1>4. screen \in PageNames /\ Honest(t) /\ t # Idle /\ At(t) = Asked(h) /\ Calls(t.cmd) = c.run
  BY <1>1, WriterCommands DEF TypeOK, TaskInv, Active, Asked
<1>5. Redraws(Page, c)
  BY <1>1, <1>4 DEF Page, Commands
<1>6. \/ Deletes(c) /\ Follows(c.run, IF Page.kind = "own" THEN Len(c.run) ELSE t.at, {"leave"})
      \/ ~Deletes(c) /\ Follows(c.run, t.at, {"show", "leave"})
      \/ (\A move \in c.moves : move[1] = Absent) /\ (\A m \in 1 .. t.at - 1 : ~Writing(c.run[m]))
  <2> HIDE DEF t, c
  <2>1. QED
    BY <1>1, <1>2, <1>5 DEF Redraws, Writes
<1>7. \E move \in c.moves : move[2] = t.to
  BY <1>1, <1>4 DEF Honest
<1>8. t.phase = "asked"
  BY WriteFacts
<1>9. CASE Deletes(c) /\ Follows(c.run, IF Page.kind = "own" THEN Len(c.run) ELSE t.at, {"leave"})
  <2>1. Follows(c.run, t.at, {"leave"})
    <3>1. t.cmd \in Names
      BY <1>1 DEF Names
    <3>2. t.at \in Nat /\ t.at <= Len(c.run) /\ Len(c.run) \in Nat /\ DOMAIN c.run = 1 .. Len(c.run)
      BY <1>1, <1>4, <3>1, CallType1
    <3> HIDE DEF t, c
    <3>3. QED
      BY <1>9, <3>2 DEF Follows
  <2>2. QED
    BY <1>1, <2>1 DEF Leaving
<1>10. CASE ~Deletes(c) /\ Follows(c.run, t.at, {"show", "leave"})
  <2>1. Follows(c.run, t.at, {"show"}) \/ Follows(c.run, t.at, {"leave"})
    BY <1>10 DEF Follows, Does
  <2>2. Live(rows'[id])
    BY <1>1, <1>7, <1>10 DEF Deletes, Live
  <2>3. Concerns(hand'[h], id)
    BY <1>1 DEF Holding, Concerns
  <2>4. rows'[id].version >= own'[id].drawer
    BY RowVersions
  <2> HIDE DEF t, c
  <2>5. QED
    BY <1>1, <2>1, <2>2, <2>3, <2>4 DEF Leaving, ShowingIt, Bringing
<1>11. CASE (\A move \in c.moves : move[1] = Absent) /\ (\A m \in 1 .. t.at - 1 : ~Writing(c.run[m]))
  <2>1. ~Ran(t, Writers) /\ ~Ran(t, {"move"})
    <3>1. Passed(t) = t.at - 1
      BY <1>8 DEF Passed
    <3>2. QED
      BY <1>4, <1>11, <3>1 DEF Ran, Writing, Writers
  <2>2. ~t.stored
    BY <1>1, <2>1 DEF StoredInv
  <2>3. At(t).ask # "always"
    BY <1>1, <1>4 DEF Writes, Writing
  <2>4. \E move \in c.moves : t.saw = IF Ran(t, {"move"}) THEN t.to ELSE move[1]
    BY <1>1, <1>4, <2>3 DEF Honest
  <2>5. t.saw = Absent
    BY <1>11, <2>1, <2>4
  <2>6. QED
    BY <1>1, <1>3, <2>2, <2>5 DEF Makes
<1>12. QED
  BY <1>6, <1>9, <1>10, <1>11

\* A click on a row opens an empty drawer: the handler that begins will fill it,
\* or the record was deleted from here and its handler leaves the drawer.
LEMMA SelectOpens ==
  ASSUME TypeOK, TaskInv, VersionInv, StoredInv, ListInv, [Next]_vars, NEW h \in Hands,
         NEW id \in Ids,
         Select(h, id), Page.opens # <<>>, Page.kind = "own", Owed(id), own[id].drawer > 0
  PROVE  \E g \in Hands : \/ Leaving(hand'[g], id, rows'[id])
                          \/ ShowingIt(hand'[g], id, rows'[id], own'[id].drawer)
<1>1. /\ ~Active(h) /\ hand' = [hand EXCEPT ![h] = Task("open", id, Absent, Absent, 0)]
      /\ Task("open", id, Absent, Absent, 0) \in Working /\ Live(list[id])
      /\ rows' = rows /\ own' = own
  BY SelectFacts
<1>2. /\ hand'[h] = Task("open", id, Absent, Absent, 0)
      /\ \A g \in Hands \ {h} : hand'[g] = hand[g]
  BY <1>1, NewHands
<1>3. screen \in PageNames
  BY DEF TypeOK
<1>4. CASE Live(rows[id])
  <2>1. /\ hand'[h].cmd = "open" /\ hand'[h].id = id /\ hand'[h].at = 1 /\ hand'[h].phase = "asked"
    BY <1>2 DEF Task
  <2>2. hand'[h] # Idle
    BY <1>1, <1>2, WorkingIsBusy DEF TypeOK
  <2>3. Follows(Page.opens, 1, {"show"})
    BY <1>3 DEF Page
  <2>4. Calls(hand'[h].cmd) = Page.opens
    BY <2>1 DEF Calls
  <2>5. Ahead(hand'[h], {"show"})
    BY <2>1, <2>3, <2>4 DEF Follows, Ahead
  <2>6. ShowingIt(hand'[h], id, rows'[id], own'[id].drawer)
    BY <1>1, <1>4, <2>1, <2>2, <2>5 DEF ShowingIt, Concerns, Bringing
  <2>7. QED
    BY <2>6
<1>5. CASE ~Live(rows[id])
  <2>1. /\ rows[id].version \in Nat /\ own[id].list \in Nat /\ list[id].version \in Nat
        /\ own[id].drawer <= rows[id].version /\ own[id].drawer \in Nat
    BY RowVersions
  <2>2. rows[id].version = own[id].list
    BY <1>5 DEF Owed
  <2>3. Fits(list[id], rows[id]) /\ Copies(rows[id], rows[id])
    BY DEF VersionInv
  <2>4. list[id].version < own[id].list
    BY <1>1, <1>5, <2>1, <2>2, <2>3 DEF Fits, Live
  <2>5. rows[id].status = Gone
    BY <1>5, <2>1, <2>3 DEF Copies, Fits, Live
  <2>6. PICK g \in Hands : Holding(hand[g], id, rows[id])
    BY <2>4 DEF ListInv
  <2>7. Active(g) /\ hand[g].stored /\ hand[g].to = Gone /\ g # h
    BY <1>1, <2>5, <2>6 DEF Holding, Active
  <2> DEFINE t == hand[g]
             c == Commands[t.cmd]
  <2>8. /\ t.cmd \in DOMAIN Commands /\ Calls(t.cmd) = c.run /\ Redraws(Page, c) /\ Deletes(c)
    BY <2>7, HolderRuns
  <2>9. /\ t.cmd \in Names /\ t.at \in DOMAIN Calls(t.cmd) /\ t.at \in Nat \ {0}
        /\ t.phase \in {"asked", "answered"}
    BY <2>7, WorkingTask DEF Tasks
  <2>10. /\ t.at <= Len(c.run) /\ Len(c.run) \in Nat /\ DOMAIN c.run = 1 .. Len(c.run)
    BY <1>3, <2>8, <2>9, CallType1
  <2>11. PICK n \in 1 .. Passed(t) : c.run[n].ask \in Writers
    BY <2>7, <2>8 DEF StoredInv, Ran
  <2>12. n \in DOMAIN c.run /\ Writing(c.run[n])
    <3>1. Passed(t) \in Nat /\ Passed(t) <= t.at
      BY <2>9 DEF Passed
    <3>2. n \in DOMAIN c.run
      BY <2>9, <2>10, <2>11, <3>1
    <3>3. QED
      BY <2>11, <3>2 DEF Writing, Writers
  <2>13. Follows(c.run, Len(c.run), {"leave"})
    <3> HIDE DEF c
    <3>1. QED
      BY <2>8, <2>12 DEF Redraws
  <2>14. Does(c.run[Len(c.run)], {"leave"})
    <3>1. PICK m \in DOMAIN c.run : m >= Len(c.run) /\ Does(c.run[m], {"leave"})
      BY <2>13 DEF Follows
    <3>2. m = Len(c.run)
      BY <2>10, <3>1
    <3>3. QED
      BY <3>1, <3>2
  <2>15. Ahead(t, {"leave"}) \/ Here(t, {"leave"})
    <3>1. Len(c.run) \in DOMAIN Calls(t.cmd)
      BY <2>8, <2>9, <2>10
    <3> HIDE DEF t, c
    <3>2. CASE t.at = Len(c.run) /\ t.phase = "answered"
      BY <2>8, <2>14, <3>2 DEF Here, At
    <3>3. CASE ~(t.at = Len(c.run) /\ t.phase = "answered")
      BY <2>8, <2>9, <2>10, <2>14, <3>1, <3>3 DEF Ahead
    <3>4. QED
      BY <3>2, <3>3
  <2>16. Leaving(hand'[g], id, rows'[id])
    BY <1>1, <1>2, <2>6, <2>7, <2>15 DEF Leaving
  <2>17. QED
    BY <2>16
<1>6. QED
  BY <1>4, <1>5

\* A drawer that is older than what was written here is not new, unless an
\* answer overtakes another, or it has just been opened.
LEMMA DrawerGrows ==
  ASSUME TypeOK, ~Tracks, [Next]_vars, ~overtaken', NEW id \in Ids, own'[id] = own[id],
         drawer'.id = id, drawer'.row.version < own[id].drawer
  PROVE  \/ drawer' = drawer
         \/ \E h \in Hands : Select(h, id) /\ Page.opens # <<>> /\ Page.kind = "own"
<1>1. drawer' # Closed
  BY DEF Closed
<1>2. CASE Leave
  BY <1>1, <1>2 DEF Leave
<1>3. ASSUME NEW h \in Hands, NEW i \in Ids, Select(h, i)
      PROVE  drawer' = drawer \/ (Select(h, id) /\ Page.opens # <<>> /\ Page.kind = "own")
  <2>1. CASE Page.opens = <<>>
    <3>1. drawer' = Showing(i, list[i]) /\ ~(list[i].version < own[i].drawer)
      BY <1>3, <2>1, SelectFacts
    <3>2. QED
      BY <3>1 DEF Showing
  <2>2. CASE Page.opens # <<>>
    <3>1. drawer' = IF Page.kind = "own" THEN Showing(i, Blank) ELSE drawer
      BY <1>3, <2>2, SelectFacts
    <3>2. QED
      BY <1>3, <2>2, <3>1 DEF Showing
  <2>3. QED
    BY <2>1, <2>2
<1>4. ASSUME NEW h \in Hands, Lands(h) PROVE drawer' = drawer
  <2>1. drawer' = Drawn(h) /\ ~Overtakes(h)
    BY <1>4 DEF Lands
  <2>2. CASE Brings(h, "show") /\ drawer' = Showing(hand[h].id, Brought(h))
    BY <2>1, <2>2 DEF Overtakes, Showing
  <2>3. CASE ~(Brings(h, "show") /\ drawer' = Showing(hand[h].id, Brought(h)))
    BY <1>1, <2>1, <2>3 DEF Drawn, Tracks
  <2>4. QED
    BY <2>2, <2>3
<1>5. QED
  BY <1>2, <1>3, <1>4, DrawerSteps

\* A handler that will leave the drawer, or show what was written, does so.
LEMMA LeavesOrShows ==
  ASSUME TypeOK, TaskInv, VersionInv, ~Tracks, [Next]_vars, NEW h \in Hands, NEW id \in Ids,
         Owed(id)',
         own'[id] = own[id], rows'[id].status = Gone => rows'[id] = rows[id],
         Live(rows[id]) => Live(rows'[id]),
         drawer' = drawer, drawer.id = id, drawer.row.version < own[id].drawer,
         Leaving(hand[h], id, rows[id]) \/ ShowingIt(hand[h], id, rows[id], own[id].drawer)
  PROVE  Leaving(hand'[h], id, rows'[id]) \/ ShowingIt(hand'[h], id, rows'[id], own'[id].drawer)
<1>1. ~cutShort'
  BY DEF Owed
<1>2. /\ own'[id].drawer <= rows'[id].version /\ rows'[id].version \in Nat
      /\ own'[id].drawer \in Nat
  BY RowVersions
<1>3. drawer # Closed
  BY DEF Closed
<1>4. Concerns(hand[h], id) /\ Active(h)
  BY DEF Leaving, Holding, ShowingIt, Concerns, Active
<1>5. ASSUME hand'[h] # Idle,
             \A field \in {"cmd", "id", "to", "stored"} : hand'[h][field] = hand[h][field]
      PROVE  /\ Holding(hand[h], id, rows[id]) => Holding(hand'[h], id, rows'[id])
             /\ Concerns(hand'[h], id)
  <2>1. hand'[h].id = hand[h].id /\ hand'[h].to = hand[h].to /\ hand'[h].stored = hand[h].stored
        /\ hand'[h].cmd = hand[h].cmd
    BY <1>5
  <2>2. QED
    BY <1>4, <1>5, <2>1 DEF Holding, Concerns
<1>6. CASE Leaving(hand[h], id, rows[id])
  <2>1. Holding(hand[h], id, rows[id])
    BY <1>6 DEF Leaving
  <2>2. CASE Ahead(hand[h], {"leave"})
    <3>1. Answer(h) /\ Fetches(h) /\ ~Live(Brought(h)) => Asked(h).ask = "peek"
      BY <2>1, HolderGoesOn
    <3>2. /\ hand'[h] # Idle
          /\ \A field \in {"cmd", "id", "to", "stored"} : hand'[h][field] = hand[h][field]
          /\ Ahead(hand'[h], {"leave"}) \/ (Here(hand'[h], {"leave"}) /\ hand'[h].reply[id] = rows'[id])
      BY <1>1, <1>4, <2>2, <3>1, Carried
    <3>3. QED
      BY <1>5, <2>1, <3>2 DEF Leaving
  <2>3. CASE Here(hand[h], {"leave"}) /\ ~Answer(h)
    <3>1. /\ hand'[h] # Idle /\ Here(hand'[h], {"leave"})
          /\ \A field \in {"cmd", "id", "to", "stored"} : hand'[h][field] = hand[h][field]
      BY <1>1, <1>4, <2>3, CarriedHere
    <3>2. QED
      BY <1>5, <2>1, <3>1 DEF Leaving
  <2>4. CASE Here(hand[h], {"leave"}) /\ Answer(h)
    <3>1. Brings(h, "leave")
      BY <2>4 DEF Here, Does, Brings, Asked
    <3>2. Asked(h).ask # "peek"
      <4>1. /\ screen \in PageNames /\ hand[h].cmd \in Names
            /\ hand[h].at \in DOMAIN Calls(hand[h].cmd)
            /\ Asked(h) = Calls(hand[h].cmd)[hand[h].at]
        BY <1>4, WorkingTask DEF TypeOK
      <4>2. Asked(h).ask = "peek" => Asked(h).then \subseteq {"show"}
        BY <4>1, CallIsOrderly
      <4>3. QED
        BY <3>1, <4>2 DEF Brings
    <3>3. ~(Fetches(h) /\ ~Live(Brought(h)))
      BY <2>1, <2>4, <3>2, HolderGoesOn
    <3>4. drawer' = Drawn(h)
      BY <2>4, <3>3, AnswerFacts
    <3>5. QED
      BY <1>3, <3>1, <3>4 DEF Drawn
  <2>5. QED
    BY <1>6, <2>2, <2>3, <2>4 DEF Leaving
<1>7. CASE ShowingIt(hand[h], id, rows[id], own[id].drawer)
  <2>1. Live(rows[id]) /\ Live(rows'[id])
    BY <1>7 DEF ShowingIt
  <2>2. ~(Answer(h) /\ Fetches(h) /\ ~Live(Brought(h)))
    BY <1>4, <2>1, FetchFinds DEF Live
  <2>3. CASE Ahead(hand[h], {"show"})
    <3>1. /\ hand'[h] # Idle
          /\ \A field \in {"cmd", "id", "to", "stored"} : hand'[h][field] = hand[h][field]
          /\ Ahead(hand'[h], {"show"}) \/ (Here(hand'[h], {"show"}) /\ hand'[h].reply[id] = rows'[id])
      BY <1>1, <1>4, <2>2, <2>3, Carried
    <3>2. QED
      BY <1>2, <1>5, <2>1, <3>1 DEF ShowingIt, Bringing
  <2>4. CASE Here(hand[h], {"show"}) /\ hand[h].reply[id].version >= own[id].drawer /\ ~Answer(h)
    <3>1. /\ hand'[h] # Idle /\ Here(hand'[h], {"show"}) /\ hand'[h].reply = hand[h].reply
          /\ \A field \in {"cmd", "id", "to", "stored"} : hand'[h][field] = hand[h][field]
      BY <1>1, <1>4, <2>4, CarriedHere
    <3>2. QED
      BY <1>5, <2>1, <2>4, <3>1 DEF ShowingIt, Bringing
  <2>5. CASE Here(hand[h], {"show"}) /\ hand[h].reply[id].version >= own[id].drawer /\ Answer(h)
    <3>1. Brings(h, "show") /\ hand[h].phase = "answered"
      BY <2>5 DEF Here, Does, Brings, Asked
    <3>2. drawer' = Drawn(h)
      BY <2>2, <2>5, AnswerFacts
    <3>3. hand[h].id = id /\ Brought(h) = hand[h].reply[id]
      BY <1>4 DEF Concerns, Brought
    <3>4. Drawn(h) = Closed \/ Drawn(h) = Showing(id, hand[h].reply[id])
      BY <3>1, <3>3 DEF Drawn
    <3>5. drawer.row = hand[h].reply[id]
      BY <1>3, <3>2, <3>4 DEF Showing
    <3>6. Brought(h) \in Rows
      BY <1>4, <3>1, AnswerBrings
    <3>7. hand[h].reply[id].version \in Nat
      BY <3>3, <3>6 DEF Rows
    <3>8. QED
      BY <1>2, <2>5, <3>5, <3>7
  <2>6. QED
    BY <1>7, <2>3, <2>4, <2>5 DEF ShowingIt, Bringing
<1>8. QED
  BY <1>6, <1>7

LEMMA DrawerStep ==
  ASSUME TypeOK, TaskInv, VersionInv, StoredInv, KeptInv, ListInv, DrawerInv, [Next]_vars
  PROVE  DrawerInv'
<1>1. Tracks' <=> Tracks
  BY ScreenStays, SamePage DEF Tracks
<1>2. CASE Tracks
  BY <1>1, <1>2, TrackedWrites DEF DrawerInv
<1>3. CASE ~Tracks
  <2>1. SUFFICES ASSUME NEW id \in Ids, Owed(id)', drawer'.id = id,
                        drawer'.row.version < own'[id].drawer
                 PROVE  \E h \in Hands : \/ Leaving(hand'[h], id, rows'[id])
                                         \/ ShowingIt(hand'[h], id, rows'[id], own'[id].drawer)
    <3>1. \A h : /\ Ahead(hand[h], {"leave"})' <=> Ahead(hand'[h], {"leave"})
                 /\ Here(hand[h], {"leave"})' <=> Here(hand'[h], {"leave"})
                 /\ Ahead(hand[h], {"show"})' <=> Ahead(hand'[h], {"show"})
                 /\ Here(hand[h], {"show"})' <=> Here(hand'[h], {"show"})
      BY AheadStays
    <3>2. QED
      BY <1>1, <1>3, <3>1 DEF DrawerInv, Leaving, ShowingIt, Holding, Concerns, Bringing, Live
  <2>2. ~cutShort' /\ ~overtaken'
    BY <2>1 DEF Owed
  <2>3. drawer' # Closed
    BY <2>1 DEF Closed
  <2>4. CASE own'[id] # own[id]
    <3>1. PICK h \in Hands : Write(h)
      BY <2>4, OwnSteps
    <3>2. drawer' = drawer
      BY <3>1, WriteFacts
    <3>3. QED
      BY <1>3, <2>1, <2>4, <3>1, <3>2, WriteRedraws
  <2>5. CASE own'[id] = own[id]
    <3>1. own[id].drawer > 0 /\ own[id].list = own'[id].list
      <4>1. own[id].drawer \in Nat
        BY RowVersions
      <4>2. drawer'.row.version \in Nat
        <5>1. TypeOK' /\ Drawers' = Drawers
          BY TypeStep, ScreenStays, SamePage
        <5>2. drawer' \in [id : Ids, row : Rows]
          BY <2>3, <5>1 DEF TypeOK, Drawers
        <5>3. QED
          BY <5>2 DEF Rows
      <4>3. QED
        BY <2>1, <2>5, <4>1, <4>2
    <3>2. /\ Owed(id) /\ (rows'[id].status = Gone => rows'[id] = rows[id])
          /\ Live(rows[id]) => Live(rows'[id])
      BY <2>1, <3>1, OwedBefore
    <3>3. CASE drawer' = drawer
      <4>1. PICK h \in Hands : Leaving(hand[h], id, rows[id]) \/ ShowingIt(hand[h], id, rows[id], own[id].drawer)
        BY <1>3, <2>1, <2>5, <3>2, <3>3 DEF DrawerInv
      <4>2. QED
        BY <1>3, <2>1, <2>5, <3>2, <3>3, <4>1, LeavesOrShows
    <3>4. ASSUME NEW h \in Hands, Select(h, id), Page.opens # <<>>, Page.kind = "own"
          PROVE  \E g \in Hands : \/ Leaving(hand'[g], id, rows'[id])
                                  \/ ShowingIt(hand'[g], id, rows'[id], own'[id].drawer)
      BY <3>1, <3>2, <3>4, SelectOpens
    <3>5. QED
      BY <1>3, <2>1, <2>2, <2>5, <3>3, <3>4, DrawerGrows
  <2>6. QED
    BY <2>4, <2>5
<1>4. QED
  BY <1>2, <1>3
-----------------------------------------------------------------------------
(***************************************************************************)
(* What the page promises.                                                 *)
(***************************************************************************)
WorkInv == /\ TypeOK /\ TaskInv /\ VersionInv /\ VanishedInv /\ FormInv /\ KeptInv /\ SentInv
           /\ StoredInv /\ ListInv /\ DrawerInv

LEMMA InitWork == Init => WorkInv
<1> SUFFICES ASSUME Init PROVE WorkInv
  OBVIOUS
<1>1. \A h \in Hands : hand[h] = Idle
  BY DEF Init
<1>2. TaskInv /\ FormInv
  BY <1>1 DEF TaskInv, FormInv, Honest, OfForm
<1>3. VanishedInv /\ SentInv
  BY DEF Init, VanishedInv, SentInv, NoForm
<1>4. StoredInv
  BY <1>1 DEF StoredInv, Active
<1>5. ListInv /\ DrawerInv
  <2>1. TypeOK /\ \A id \in Ids : own[id] = [list |-> 0, drawer |-> 0]
    BY InitType DEF Init
  <2>2. \A id \in Ids : own[id].list = 0 /\ own[id].drawer = 0
    BY <2>1
  <2>3. \A id \in Ids : drawer.id = id => drawer # Closed
    BY DEF Closed
  <2>4. \A id \in Ids : ~(list[id].version < own[id].list) /\ (drawer.id = id => ~(drawer.row.version < own[id].drawer))
    <3>1. \A id \in Ids : list[id].version \in Nat
      BY <2>1 DEF TypeOK, Rows
    <3>2. drawer # Closed => drawer.row.version \in Nat
      BY <2>1 DEF TypeOK, Drawers, Rows
    <3>3. QED
      BY <2>2, <2>3, <3>1, <3>2
  <2>5. QED
    BY <2>2, <2>4 DEF ListInv, DrawerInv
<1>6. QED
  BY <1>2, <1>3, <1>4, <1>5, InitType, InitVersion, InitKept DEF WorkInv

LEMMA WorkStep == WorkInv /\ [Next]_vars => WorkInv'
<1> SUFFICES ASSUME WorkInv, [Next]_vars PROVE WorkInv'
  OBVIOUS
<1>1. /\ TypeOK /\ TaskInv /\ VersionInv /\ VanishedInv /\ FormInv /\ KeptInv /\ SentInv
      /\ StoredInv /\ ListInv /\ DrawerInv
  BY DEF WorkInv
<1>2. TypeOK' /\ TaskInv' /\ VersionInv'
  BY <1>1, TypeStep, TaskStep, VersionStep
<1>3. VanishedInv' /\ FormInv' /\ KeptInv' /\ SentInv'
  BY <1>1, VanishedStep, FormStep, KeptStep, SentStep
<1>4. StoredInv' /\ ListInv' /\ DrawerInv'
  BY <1>1, StoredStep, ListStep, DrawerStep
<1>5. QED
  BY <1>2, <1>3, <1>4 DEF WorkInv

\* What handlers, answers, forms and lists agree on, whatever comes when.
THEOREM WorkHolds == Spec => []WorkInv
BY InitWork, WorkStep, PTL DEF Spec

\* A page that has deleted whatever leaves its list deletes nothing that nobody
\* asked it to, unless an older list came after a newer one (App.tsx: the sweep
\* of the catalogues).
THEOREM SweepsWhatWasAsked == Spec => []OnlyAskedIsDeleted
<1>1. WorkInv => OnlyAskedIsDeleted
  BY DEF WorkInv, VanishedInv, OnlyAskedIsDeleted, Live
<1>2. QED
  BY <1>1, WorkHolds, PTL

\* A form makes one record however often it is sent, on every page whose forms
\* are cleared when sent or hold a flag until they are shut.
THEOREM FormsMakeOne == Spec => []OneFormOneRecord
<1>1. WorkInv => OneFormOneRecord
  <2> SUFFICES ASSUME WorkInv, form.cmd # None, <<screen, form.cmd>> \notin Unguarded, ~cutShort
               PROVE  made <= 1
    BY DEF OneFormOneRecord
  <2>1. made \in Nat /\ SentInv
    BY DEF WorkInv, TypeOK
  <2>2. CASE Creates(Commands[form.cmd])
    BY <2>1, <2>2 DEF SentInv, Guarded
  <2>3. CASE ~Creates(Commands[form.cmd])
    BY <2>1, <2>3 DEF SentInv
  <2>4. QED
    BY <2>2, <2>3
<1>2. QED
  BY <1>1, WorkHolds, PTL

\* A form that its own handler shuts has been stored: an error, a refusal or a
\* late answer leaves what was typed where it is.
THEOREM ShutWhenStored == Spec => ClosedIsSaved
<1>1. WorkInv /\ [Next]_vars =>
        [\A h \in Hands :
           hand[h] # Idle /\ hand[h].form = form.no /\ form'.cmd # form.cmd =>
             hand[h].stored \/ (hand'[h] # Idle /\ hand'[h].at = hand[h].at)]_vars
  BY ClosedStep DEF WorkInv, Active
<1>2. QED
  BY <1>1, WorkHolds, PTL DEF Spec, ClosedIsSaved

\* What a page offers to a role is refused for a record that has moved on, or
\* for a fact of other records, and for nothing else.
THEOREM OfferedIsAllowed == Spec => OnlyStaleIsRefused
<1>1. WorkInv /\ [Next]_vars =>
        [\A h \in Hands : Refused(h) =>
           \/ rows[hand[h].id].status # hand[h].saw
           \/ role \in Asked(h).route.hidden
           \/ <<screen, hand[h].cmd>> \in Unmirrored]_vars
  BY RefusedStep DEF WorkInv
<1>2. QED
  BY <1>1, WorkHolds, PTL DEF Spec, OnlyStaleIsRefused

\* When every handler is done, the list and the drawer show what was written
\* from the page, unless a handler stopped halfway, an old answer came last, or
\* somebody else deleted the record: on every page whose handlers load or patch
\* the list after a write and show the record, or leave it, in the drawer.
THEOREM WritesAreSeen == Spec => []OwnWriteIsSeen
<1>1. WorkInv => OwnWriteIsSeen
  <2> SUFFICES ASSUME WorkInv, Quiet, ~cutShort, ~overtaken, NEW id \in Ids,
                      Live(rows[id]) \/ rows[id].version = own[id].list
               PROVE  /\ list[id].version >= own[id].list
                      /\ drawer # Closed /\ drawer.id = id => drawer.row.version >= own[id].drawer
    BY DEF OwnWriteIsSeen
  <2>1. TypeOK /\ KeptInv /\ ListInv /\ DrawerInv /\ Owed(id)
    BY DEF WorkInv, Owed
  <2>2. \A h \in Hands : hand[h] = Idle
    BY DEF Quiet
  <2>3. list[id].version \in Nat /\ own[id].list \in Nat /\ own[id].drawer \in Nat
    BY <2>1 DEF TypeOK, Rows
  <2>4. list[id].version >= own[id].list
    <3>1. ~(list[id].version < own[id].list)
      BY <2>1, <2>2 DEF ListInv, Holding
    <3>2. QED
      BY <2>3, <3>1
  <2>5. ASSUME drawer # Closed, drawer.id = id PROVE drawer.row.version >= own[id].drawer
    <3>1. drawer.row.version \in Nat
      BY <2>1, <2>5 DEF TypeOK, Drawers, Rows
    <3>2. CASE Tracks
      <4>1. drawer.row = list[id] /\ own[id].list = own[id].drawer
        BY <2>1, <2>5, <3>2 DEF KeptInv, DrawerInv
      <4>2. QED
        BY <2>4, <4>1
    <3>3. CASE ~Tracks
      <4>1. ~(drawer.row.version < own[id].drawer)
        BY <2>1, <2>2, <2>5, <3>3 DEF DrawerInv, Leaving, Holding, ShowingIt, Concerns
      <4>2. QED
        BY <2>3, <3>1, <4>1
    <3>4. QED
      BY <3>2, <3>3
  <2>6. QED
    BY <2>4, <2>5
<1>2. QED
  BY <1>1, WorkHolds, PTL
=============================================================================
