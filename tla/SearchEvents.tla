---------------------------- MODULE SearchEvents ----------------------------
(***************************************************************************)
(* One surface's search: what the user asks for, what the search thread    *)
(* reports, and what the search bar and the renderer show.                 *)
(*                                                                         *)
(* Every change of the query increases search_generation, an atomic that   *)
(* the three threads read for themselves. A report carries the generation  *)
(* of the query it belongs to and is dropped at every stage that finds     *)
(* another one: searchCallback, handleMessage on the app thread, and the   *)
(* renderer's drainMailbox, which reads it and then applies the message.   *)
(*                                                                         *)
(* A result is abstracted to the query it is of. The terminal's content is *)
(* fixed, so a query is reported once. Allocation does not fail.           *)
(***************************************************************************)
EXTENDS Naturals, Sequences

CONSTANTS Valid,        \* queries that can be searched for
          Matching,     \* those that have matches
          Invalid,      \* queries that cannot
          Failing,      \* valid ones whose pattern may fail while it runs
          Acts,         \* what else the user may do
          MaxGen,       \* bound: changes of the query
          MaxSelects    \* bound: navigations

None == "none"
Texts == Valid \cup Invalid

ASSUME SearchAssumption ==
    /\ Matching \subseteq Valid /\ Failing \subseteq Valid
    /\ None \notin Texts
    /\ Acts \subseteq {"end", "invalidate"}
    /\ MaxGen \in Nat /\ MaxSelects \in Nat

VARIABLES
    gen,        \* Surface.search_generation
    asked,      \* the query the user asked for last, or None
    search,     \* the search thread: "off", "on", or "stopping"
    selects,    \* navigations so far
    toSearch,   \* the search thread's mailbox
    eventGen,   \* its event_generation: that of the last query it handled
    cur,        \* QuerySearch.current, its selection, and whether reported
    pending,    \* the events of the report being sent
    inflight,   \* the one that passed searchCallback and is being pushed
    toApp,      \* the app mailbox
    bar,        \* what the search bar was told
    toRen,      \* the renderer mailbox
    accepted,   \* the message the renderer has accepted and now applies
    shown,      \* what the renderer highlights
    replacing   \* history: queries, all valid and none failed, have only
                \* replaced each other

vars == <<gen, asked, search, selects, toSearch, eventGen, cur, pending,
          inflight, toApp, bar, toRen, accepted, shown, replacing>>
thread == <<eventGen, cur, pending, inflight>>

NoEvent == [kind |-> None, gen |-> 0, of |-> None]
NoQuery == [text |-> None, selected |-> FALSE, reported |-> FALSE]
BarCleared == [total |-> None, rows |-> None, selected |-> None]
Event(kind, g, of) == [kind |-> kind, gen |-> g, of |-> of]

Init == /\ gen = 0
        /\ asked = None
        /\ search = "off"
        /\ selects = 0
        /\ toSearch = <<>>
        /\ eventGen = 0 /\ cur = NoQuery
        /\ pending = <<>> /\ inflight = NoEvent
        /\ toApp = <<>>
        /\ bar = BarCleared
        /\ toRen = <<>>
        /\ accepted = NoEvent
        /\ shown = [viewport |-> None, match |-> None]
        /\ replacing = TRUE

(***************************************************************************)
(* The app thread's operations.                                            *)
(***************************************************************************)
\* setSearchQuery: starts the thread if there is none.
SetQuery(text) ==
    /\ search # "stopping"
    /\ gen < MaxGen
    /\ gen' = gen + 1
    /\ asked' = text
    /\ search' = "on"
    /\ toSearch' = Append(toSearch, Event("query", gen + 1, text))
    /\ replacing' = (replacing /\ text \in Valid)
    /\ UNCHANGED <<selects, thread, toApp, bar, toRen, accepted, shown>>

Navigate ==
    /\ search = "on"
    /\ selects < MaxSelects
    /\ selects' = selects + 1
    /\ toSearch' = Append(toSearch, Event("select", 0, None))
    /\ UNCHANGED <<gen, asked, search, thread, toApp, bar, toRen, accepted, shown, replacing>>

\* syncClearSearchState.
SyncClearBarOnly(g) == UNCHANGED toRen /\ bar' = BarCleared   \* MUTANT
SyncClear(g) == /\ toRen' = Append(toRen, Event("clear", g, None))
                /\ bar' = BarCleared

\* invalidateSearchResults: an empty query, and a clear ahead of it.
Invalidate ==
    /\ "invalidate" \in Acts
    /\ search = "on"
    /\ gen < MaxGen
    /\ gen' = gen + 1
    /\ asked' = None
    /\ SyncClear(gen + 1)
    /\ toSearch' = Append(toSearch, Event("query", gen + 1, None))
    /\ replacing' = FALSE
    /\ UNCHANGED <<search, selects, thread, toApp, accepted, shown>>

\* endSearch, or setSearchQuery(""): Search.deinit sets `stopping`, after
\* which a report being sent is dropped, and joins the thread. Then the
\* results are cleared under the new generation.
EndBegins ==
    /\ "end" \in Acts
    /\ search = "on"
    /\ gen < MaxGen
    /\ gen' = gen + 1
    /\ asked' = None
    /\ search' = "stopping"
    /\ replacing' = FALSE
    /\ UNCHANGED <<selects, toSearch, thread, toApp, bar, toRen, accepted, shown>>

EndJoins ==
    /\ search = "stopping"
    /\ inflight = NoEvent
    /\ search' = "off"
    /\ toSearch' = <<>>
    /\ cur' = NoQuery
    /\ pending' = <<>>
    /\ SyncClear(gen)
    /\ UNCHANGED <<gen, asked, selects, eventGen, inflight, toApp, accepted, shown, replacing>>

\* shouldAcceptSearchGeneration.
AcceptAny(e) == TRUE                         \* MUTANT: accepts what is stale
Accept(e)    == e.gen = gen

\* handleMessage: the renderer's part goes on to the renderer, the rest to
\* the search bar.
AppHandles ==
    /\ search # "stopping"
    /\ toApp # <<>>
    /\ toApp' = Tail(toApp)
    /\ LET e == Head(toApp) IN
       IF ~Accept(e) THEN UNCHANGED <<bar, toRen>>
       ELSE IF e.kind \in {"viewport", "match"}
            THEN toRen' = Append(toRen, e) /\ UNCHANGED bar
            ELSE bar' = [bar EXCEPT ![e.kind] = e.of] /\ UNCHANGED toRen
    /\ UNCHANGED <<gen, asked, search, selects, toSearch, thread, accepted, shown, replacing>>

(***************************************************************************)
(* The search thread.                                                      *)
(***************************************************************************)
Found(text) == IF text \in Matching THEN text ELSE None

Highlight(g, of) == <<Event("match", g, of), Event("selected", g, of)>>

\* QuerySearch.cleared: every field, emptied.
ClearedReport(g) ==
    <<Event("total", g, None), Event("viewport", g, None), Event("rows", g, None)>>
    \o Highlight(g, None)

\* QuerySearch.notify of a query that is not reported yet, and a forced one.
FirstReport(g, q) ==
    <<Event("total", g, q.text), Event("viewport", g, Found(q.text))>>
    \o (IF q.text \in Matching THEN <<Event("rows", g, q.text)>> ELSE <<>>)
    \o (IF q.selected THEN Highlight(g, q.text) ELSE <<>>)
FullReport(g, q) ==
    <<Event("total", g, q.text), Event("viewport", g, Found(q.text)),
      Event("rows", g, Found(q.text))>>
    \o Highlight(g, IF q.selected THEN q.text ELSE None)

Report(g, q) ==
    /\ cur' = [q EXCEPT !.reported = TRUE]
    /\ pending' = FirstReport(g, q)

\* QuerySearch.changeQuery and the rest of step. An equivalent query replays
\* everything; one that ends another or is invalid clears everything; the
\* first one reports what it found.
Replays(text) == text # None /\ text = cur.text
ClearsIfInvalid(text) == text \in Invalid    \* MUTANT of Clears
Clears(text)  == text \in Invalid \/ cur # NoQuery

\* What runs then: nothing for an empty query or one that cannot run.
Runs(text) == IF text \in Valid THEN text ELSE None

ChangeQuery(g, text) ==
    LET new == [NoQuery EXCEPT !.text = Runs(text)] IN
    \/ /\ Replays(text)
       /\ cur' = [cur EXCEPT !.reported = TRUE]
       /\ pending' = FullReport(g, cur)
    \/ /\ ~Replays(text) /\ Clears(text)
       /\ cur' = new
       /\ pending' = ClearedReport(g)
    \/ /\ ~Replays(text) /\ ~Clears(text)
       /\ IF new = NoQuery THEN UNCHANGED <<cur, pending>> ELSE Report(g, new)

\* QuerySearch.select: the selection is reported again, and what was not yet.
Select ==
    LET q == [cur EXCEPT !.selected = @ \/ cur.text \in Matching] IN
    \/ cur = NoQuery /\ UNCHANGED <<cur, pending>>
    \/ cur # NoQuery /\ ~cur.reported /\ Report(eventGen, q)
    \/ /\ cur # NoQuery /\ cur.reported
       /\ cur' = q
       /\ pending' = IF q.selected THEN Highlight(eventGen, q.text) ELSE <<>>

\* endIfFailed, at the end of every step: a pattern that has failed ends its
\* query, and everything is cleared instead of what the step had to report.
Fails(g, text) ==
    /\ text \in Failing
    /\ cur' = NoQuery
    /\ pending' = ClearedReport(g)
    /\ replacing' = FALSE

\* A thread that is told to stop may still take messages; nothing it reports
\* then is sent, so the model stops it at once.
Free == search = "on" /\ pending = <<>> /\ inflight = NoEvent

ThreadHandles ==
    /\ Free
    /\ toSearch # <<>>
    /\ toSearch' = Tail(toSearch)
    /\ LET m == Head(toSearch) IN
       \/ /\ m.kind = "query"
          /\ eventGen' = m.gen
          /\ \/ ChangeQuery(m.gen, m.of) /\ UNCHANGED replacing
             \/ Fails(m.gen, Runs(m.of))
       \/ /\ m.kind = "select"
          /\ \/ Select /\ UNCHANGED replacing
             \/ Fails(eventGen, cur.text)
          /\ UNCHANGED eventGen
    /\ UNCHANGED <<gen, asked, search, selects, inflight, toApp, bar, toRen,
                   accepted, shown>>

\* A slice or a refresh of the running query: the first reports it, and in
\* any of them the pattern may fail.
ThreadProgresses ==
    /\ Free
    /\ cur # NoQuery
    /\ \/ ~cur.reported /\ Report(eventGen, cur) /\ UNCHANGED replacing
       \/ Fails(eventGen, cur.text)
    /\ UNCHANGED <<gen, asked, search, selects, toSearch, eventGen, inflight,
                   toApp, bar, toRen, accepted, shown>>

\* searchCallback: `stopping`, then the generation, decide.
ThreadEmits ==
    /\ pending # <<>>
    /\ inflight = NoEvent
    /\ pending' = Tail(pending)
    /\ inflight' = IF search = "on" /\ Accept(Head(pending)) THEN Head(pending)
                   ELSE NoEvent
    /\ UNCHANGED <<gen, asked, search, selects, toSearch, eventGen, cur, toApp,
                   bar, toRen, accepted, shown, replacing>>

\* pushSearchMessage: a push that waits while the search ends may give up.
ThreadPushes ==
    /\ inflight # NoEvent
    /\ inflight' = NoEvent
    /\ \/ toApp' = Append(toApp, inflight)
       \/ search = "stopping" /\ UNCHANGED toApp
    /\ UNCHANGED <<gen, asked, search, selects, toSearch, eventGen, cur, pending,
                   bar, toRen, accepted, shown, replacing>>

(***************************************************************************)
(* The renderer.                                                           *)
(***************************************************************************)
RenChecks ==
    /\ accepted = NoEvent
    /\ toRen # <<>>
    /\ toRen' = Tail(toRen)
    /\ accepted' = IF Accept(Head(toRen)) THEN Head(toRen) ELSE NoEvent
    /\ UNCHANGED <<gen, asked, search, selects, toSearch, thread, toApp, bar, shown, replacing>>

RenApplies ==
    /\ accepted # NoEvent
    /\ accepted' = NoEvent
    /\ shown' = CASE accepted.kind = "viewport" -> [shown EXCEPT !.viewport = accepted.of]
                  [] accepted.kind = "match" -> [shown EXCEPT !.match = accepted.of]
                  [] OTHER -> [viewport |-> None, match |-> None]
    /\ UNCHANGED <<gen, asked, search, selects, toSearch, thread, toApp, bar, toRen, replacing>>

Next == \/ \E text \in Texts : SetQuery(text)
        \/ Navigate \/ Invalidate \/ EndBegins \/ EndJoins \/ AppHandles
        \/ ThreadHandles \/ ThreadProgresses \/ ThreadEmits \/ ThreadPushes
        \/ RenChecks \/ RenApplies

Spec == Init /\ [][Next]_vars

(***************************************************************************)
(* Properties.                                                             *)
(***************************************************************************)
Kinds == {None, "query", "select", "total", "viewport", "rows", "match",
          "selected", "clear"}
Events == [kind : Kinds, gen : 0..MaxGen, of : Texts \cup {None}]
Queries == [text : Valid \cup {None}, selected : BOOLEAN, reported : BOOLEAN]

TypeOK ==
    /\ gen \in 0..MaxGen /\ eventGen \in 0..gen
    /\ asked \in Texts \cup {None}
    /\ search \in {"off", "on", "stopping"}
    /\ selects \in 0..MaxSelects
    /\ toSearch \in Seq(Events) /\ toApp \in Seq(Events) /\ toRen \in Seq(Events)
    /\ pending \in Seq(Events)
    /\ cur \in Queries
    /\ inflight \in Events /\ accepted \in Events
    /\ bar \in [{"total", "rows", "selected"} -> Valid \cup {None}]
    /\ shown \in [{"viewport", "match"} -> Valid \cup {None}]
    /\ replacing \in BOOLEAN

\* Nothing is under way any more.
AtRest == /\ toSearch = <<>> /\ pending = <<>> /\ toApp = <<>> /\ toRen = <<>>
          /\ inflight = NoEvent /\ accepted = NoEvent
          /\ search # "stopping"
          /\ cur # NoQuery => cur.reported

\* The bar never shows a result of another query than the one asked for:
\* whatever changes it is of that query, or clears it.
BarFollows ==
    [][\A f \in DOMAIN bar : bar'[f] # bar[f] => bar'[f] \in {None, asked'}]_vars

\* In the end the bar's total and the renderer's highlighted matches are
\* those of the query that runs: the one asked for, unless it cannot run or
\* has failed. None are left of one that was ended, replaced or failed.
ResultsCurrent ==
    AtRest => /\ bar.total = cur.text
              /\ shown.viewport = Found(cur.text)
              /\ cur.text \in {asked, None}
              /\ asked \in Valid \ Failing => cur.text = asked

\* In the end the renderer highlights no selected match of another query.
\* This fails when a query follows the end of a search at once.
SelectionCurrent == AtRest => shown.match \in {None, asked}

\* While queries only replace each other, and none of them fails, nothing of an
\* earlier one stays selected or listed, on the renderer's side or on the bar's.
ReplacedCurrent ==
    AtRest /\ replacing =>
        {shown.match, bar.rows, bar.selected} \subseteq {None, asked}
=============================================================================
