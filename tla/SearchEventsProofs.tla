------------------------- MODULE SearchEventsProofs -------------------------
(***************************************************************************)
(* What is proved of SearchEvents, for any queries, generations and        *)
(* navigations: the search bar follows the query asked for, and what it    *)
(* and the renderer show in the end is of that query.                      *)
(*                                                                         *)
(* Every message on its way is one of a set that depends on the generation *)
(* in force: what carries that generation is of the query asked for. A new *)
(* generation makes the set larger, since nothing on its way carries it.   *)
(*                                                                         *)
(* What is shown in the end follows from what is last on its way: the last *)
(* event of a kind that carries the generation in force, wherever it is,   *)
(* reports the query that runs, unless the one asked for has still to      *)
(* reach the search thread or to be reported. It runs from then on, unless *)
(* it cannot or its pattern fails.                                         *)
(***************************************************************************)
EXTENDS SearchEvents, SequenceTheorems, TLAPS

Shown == Valid \cup {None}

\* Reports on their way to the app thread.
Results == [kind : {"total", "viewport", "rows", "match", "selected"},
            gen : 0..MaxGen, of : Shown]
Reports == {e \in Results : e.gen <= gen /\ (e.gen = gen => e.of \in {None, asked})}

\* What the search thread has still to do.
Orders == {m \in [kind : {"query", "select"}, gen : 0..MaxGen, of : Texts \cup {None}] :
              m.kind = "query" => m.gen <= gen /\ (m.gen = gen => m.of = asked)}

\* What the renderer has still to show.
Updates == {e \in [kind : {"viewport", "match", "clear"}, gen : 0..MaxGen, of : Shown] :
              /\ e.gen <= gen /\ (e.gen = gen => e.of \in {None, asked})
              /\ e.kind = "clear" => e.of = None}

-----------------------------------------------------------------------------
(* The inductive invariant *)

Steady == /\ gen \in 0..MaxGen
          /\ asked \in Texts \cup {None}
          /\ search \in {"off", "on", "stopping"}
          /\ selects \in 0..MaxSelects
          /\ replacing \in BOOLEAN
OnTheWay == /\ toSearch \in Seq(Orders)
            /\ pending \in Seq(Reports) /\ toApp \in Seq(Reports)
            /\ inflight \in Reports \cup {NoEvent}
            /\ toRen \in Seq(Updates)
            /\ accepted \in Updates \cup {NoEvent}
Running == /\ cur \in Queries
           /\ eventGen \in 0..gen
           /\ eventGen = gen => cur.text \in {None, asked}
Seen == /\ bar \in [{"total", "rows", "selected"} -> Shown]
        /\ shown \in [{"viewport", "match"} -> Shown]
IInv == Steady /\ OnTheWay /\ Running /\ Seen

-----------------------------------------------------------------------------
(* Sequences of messages *)

LEMMA PairIn ==
  ASSUME NEW S, NEW a \in S, NEW b \in S
  PROVE  <<a, b>> \in Seq(S)
OBVIOUS

LEMMA TripleIn ==
  ASSUME NEW S, NEW a \in S, NEW b \in S, NEW c \in S
  PROVE  <<a, b, c>> \in Seq(S)
OBVIOUS

\* A new generation disturbs nothing on its way.
LEMMA NewGeneration ==
  ASSUME IInv, gen < MaxGen, gen' = gen + 1, asked' \in Texts \cup {None}
  PROVE  /\ gen' \in 0..MaxGen
         /\ Reports \subseteq Reports' /\ Orders \subseteq Orders' /\ Updates \subseteq Updates'
         /\ eventGen \in 0..gen' /\ eventGen # gen'
<1>1. gen \in 0..MaxGen /\ MaxGen \in Nat /\ eventGen \in 0..gen
  BY SearchAssumption DEF IInv, Steady, Running
<1>2. \A e \in Results : e.gen <= gen => e.gen <= gen' /\ e.gen # gen'
  BY <1>1 DEF Results
<1>3. \A m \in [kind : {"query", "select"}, gen : 0..MaxGen, of : Texts \cup {None}] :
         m.gen <= gen => m.gen <= gen' /\ m.gen # gen'
  BY <1>1
<1>4. \A e \in [kind : {"viewport", "match", "clear"}, gen : 0..MaxGen, of : Shown] :
         e.gen <= gen => e.gen <= gen' /\ e.gen # gen'
  BY <1>1
<1>5. Reports \subseteq Reports' /\ Orders \subseteq Orders'
  BY <1>2, <1>3 DEF Reports, Orders
<1>6. Updates \subseteq Updates'
  BY <1>4 DEF Updates, Shown
<1>. QED  BY <1>1, <1>5, <1>6

-----------------------------------------------------------------------------
(* What a query reports *)

\* One event of a report that may be sent.
LEMMA EventReports ==
  ASSUME IInv, NEW g \in 0..gen, NEW of \in Shown, g = gen => of \in {None, asked},
         NEW kind \in {"total", "viewport", "rows", "match", "selected"}
  PROVE  Event(kind, g, of) \in Reports
<1>1. gen \in 0..MaxGen /\ MaxGen \in Nat
  BY SearchAssumption DEF IInv, Steady
<1>2. Event(kind, g, of) \in Results /\ g <= gen
  BY <1>1 DEF Event, Results
<1>. QED  BY <1>2 DEF Event, Reports

LEMMA HighlightReports ==
  ASSUME IInv, NEW g \in 0..gen, NEW of \in Shown, g = gen => of \in {None, asked}
  PROVE  Highlight(g, of) \in Seq(Reports)
BY EventReports, PairIn DEF Highlight

LEMMA ClearedReports ==
  ASSUME IInv, NEW g \in 0..gen
  PROVE  ClearedReport(g) \in Seq(Reports)
<1>1. None \in Shown
  BY DEF Shown
<1>2. <<Event("total", g, None), Event("viewport", g, None), Event("rows", g, None)>>
         \in Seq(Reports)
  BY <1>1, EventReports, TripleIn
<1>. QED  BY <1>1, <1>2, HighlightReports, ConcatProperties DEF ClearedReport

LEMMA QueryReports ==
  ASSUME IInv, NEW g \in 0..gen, NEW q \in Queries, g = gen => q.text \in {None, asked}
  PROVE  FirstReport(g, q) \in Seq(Reports) /\ FullReport(g, q) \in Seq(Reports)
<1>1. /\ q.text \in Shown /\ None \in Shown /\ Found(q.text) \in Shown
      /\ g = gen => Found(q.text) \in {None, asked}
  BY DEF Queries, Shown, Found
<1>2. /\ Event("total", g, q.text) \in Reports
      /\ Event("viewport", g, Found(q.text)) \in Reports
      /\ Event("rows", g, Found(q.text)) \in Reports
      /\ Event("rows", g, q.text) \in Reports
  BY <1>1, EventReports
<1>3. FirstReport(g, q) \in Seq(Reports)
  <2>. DEFINE rows == IF q.text \in Matching THEN <<Event("rows", g, q.text)>> ELSE << >>
              marks == IF q.selected THEN Highlight(g, q.text) ELSE << >>
  <2>1. rows \in Seq(Reports) /\ marks \in Seq(Reports)
    BY <1>1, <1>2, HighlightReports
  <2>2. <<Event("total", g, q.text), Event("viewport", g, Found(q.text))>> \in Seq(Reports)
    BY <1>2, PairIn
  <2>3. FirstReport(g, q) =
          (<<Event("total", g, q.text), Event("viewport", g, Found(q.text))>> \o rows) \o marks
    BY DEF FirstReport
  <2>. QED  BY <2>1, <2>2, <2>3, ConcatProperties
<1>4. FullReport(g, q) \in Seq(Reports)
  <2>. DEFINE of == IF q.selected THEN q.text ELSE None
  <2>1. Highlight(g, of) \in Seq(Reports)
    BY <1>1, HighlightReports
  <2>2. <<Event("total", g, q.text), Event("viewport", g, Found(q.text)),
          Event("rows", g, Found(q.text))>> \in Seq(Reports)
    BY <1>2, TripleIn
  <2>. QED  BY <2>1, <2>2, ConcatProperties DEF FullReport
<1>. QED  BY <1>3, <1>4

-----------------------------------------------------------------------------
(* The steps *)

\* A step that leaves the generation and the query asked for as they are
\* leaves what may be on its way.
LEMMA SameGeneration ==
  ASSUME gen' = gen, asked' = asked
  PROVE  Reports' = Reports /\ Orders' = Orders /\ Updates' = Updates
BY DEF Reports, Orders, Updates, Shown

\* syncClearSearchState: the bar is cleared, and a clear sent.
LEMMA SyncClears ==
  ASSUME gen' \in 0..MaxGen, toRen \in Seq(Updates'),
         toRen' = Append(toRen, Event("clear", gen', None)), bar' = BarCleared
  PROVE  /\ toRen' \in Seq(Updates')
         /\ bar' \in [{"total", "rows", "selected"} -> Shown]
<1>1. Event("clear", gen', None) \in Updates'
  BY SearchAssumption DEF Event, Updates, Shown
<1>2. toRen' \in Seq(Updates')
  BY <1>1, AppendProperties
<1>3. BarCleared \in [{"total", "rows", "selected"} -> Shown]
  BY DEF BarCleared, Shown
<1>. QED  BY <1>2, <1>3

LEMMA SetQueryStep ==
  ASSUME IInv, NEW text \in Texts, SetQuery(text)
  PROVE  IInv'
<1>1. gen < MaxGen /\ gen' = gen + 1 /\ asked' = text
  BY DEF SetQuery
<1>2. /\ gen' \in 0..MaxGen
      /\ Reports \subseteq Reports' /\ Orders \subseteq Orders' /\ Updates \subseteq Updates'
      /\ eventGen \in 0..gen' /\ eventGen # gen'
  BY <1>1, NewGeneration
<1>3. Event("query", gen', text) \in Orders'
  BY <1>1, <1>2 DEF Event, Orders
<1>4. toSearch' \in Seq(Orders')
  <2>1. toSearch \in Seq(Orders')
    BY <1>2, SeqMonotonic DEF IInv, OnTheWay
  <2>2. toSearch' = Append(toSearch, Event("query", gen', text))
    BY <1>1 DEF SetQuery
  <2>. QED  BY <1>3, <2>1, <2>2, AppendProperties
<1>5. pending' \in Seq(Reports') /\ toApp' \in Seq(Reports') /\ toRen' \in Seq(Updates')
  BY <1>2, SeqMonotonic DEF IInv, OnTheWay, SetQuery, thread
<1>6. Steady'
  BY <1>2 DEF IInv, Steady, SetQuery
<1>7. OnTheWay'
  BY <1>2, <1>4, <1>5 DEF IInv, OnTheWay, SetQuery, thread
<1>8. Running' /\ Seen'
  BY <1>2 DEF IInv, Running, Seen, SetQuery, thread
<1>. QED  BY <1>6, <1>7, <1>8 DEF IInv

LEMMA InvalidateStep ==
  ASSUME IInv, Invalidate
  PROVE  IInv'
<1>1. gen < MaxGen /\ gen' = gen + 1 /\ asked' = None
  BY DEF Invalidate
<1>2. /\ gen' \in 0..MaxGen
      /\ Reports \subseteq Reports' /\ Orders \subseteq Orders' /\ Updates \subseteq Updates'
      /\ eventGen \in 0..gen' /\ eventGen # gen'
  BY <1>1, NewGeneration
<1>3. Event("query", gen', None) \in Orders'
  BY <1>1, <1>2 DEF Event, Orders
<1>4. toSearch' \in Seq(Orders')
  <2>1. toSearch \in Seq(Orders')
    BY <1>2, SeqMonotonic DEF IInv, OnTheWay
  <2>2. toSearch' = Append(toSearch, Event("query", gen', None))
    BY <1>1 DEF Invalidate
  <2>. QED  BY <1>3, <2>1, <2>2, AppendProperties
<1>5. pending' \in Seq(Reports') /\ toApp' \in Seq(Reports')
  BY <1>2, SeqMonotonic DEF IInv, OnTheWay, Invalidate, thread
<1>6. /\ toRen' \in Seq(Updates')
      /\ bar' \in [{"total", "rows", "selected"} -> Shown]
  <2>1. toRen \in Seq(Updates')
    BY <1>2, SeqMonotonic DEF IInv, OnTheWay
  <2>. QED  BY <1>1, <1>2, <2>1, SyncClears DEF Invalidate, SyncClear
<1>7. Steady'
  BY <1>2 DEF IInv, Steady, Invalidate
<1>8. OnTheWay'
  BY <1>2, <1>4, <1>5, <1>6 DEF IInv, OnTheWay, Invalidate, thread
<1>9. Running' /\ Seen'
  BY <1>2, <1>6 DEF IInv, Running, Seen, Invalidate, thread
<1>. QED  BY <1>7, <1>8, <1>9 DEF IInv

LEMMA EndStep ==
  ASSUME IInv, EndBegins \/ EndJoins
  PROVE  IInv'
<1>1. CASE EndBegins
  <2>1. gen < MaxGen /\ gen' = gen + 1 /\ asked' = None
    BY <1>1 DEF EndBegins
  <2>2. /\ gen' \in 0..MaxGen
        /\ Reports \subseteq Reports' /\ Orders \subseteq Orders' /\ Updates \subseteq Updates'
        /\ eventGen \in 0..gen' /\ eventGen # gen'
    BY <2>1, NewGeneration
  <2>3. /\ toSearch' \in Seq(Orders')
        /\ pending' \in Seq(Reports') /\ toApp' \in Seq(Reports')
        /\ toRen' \in Seq(Updates')
    BY <1>1, <2>2, SeqMonotonic DEF IInv, OnTheWay, EndBegins, thread
  <2>4. Steady'
    BY <1>1, <2>2 DEF IInv, Steady, EndBegins
  <2>5. OnTheWay'
    BY <1>1, <2>2, <2>3 DEF IInv, OnTheWay, EndBegins, thread
  <2>6. Running' /\ Seen'
    BY <1>1, <2>2 DEF IInv, Running, Seen, EndBegins, thread
  <2>. QED  BY <2>4, <2>5, <2>6 DEF IInv
<1>2. CASE EndJoins
  <2>1. Reports' = Reports /\ Orders' = Orders /\ Updates' = Updates
    BY <1>2, SameGeneration DEF EndJoins
  <2>2. /\ toRen' \in Seq(Updates')
        /\ bar' \in [{"total", "rows", "selected"} -> Shown]
    BY <1>2, <2>1, SyncClears DEF IInv, Steady, OnTheWay, EndJoins, SyncClear
  <2>3. /\ toSearch' \in Seq(Orders) /\ pending' \in Seq(Reports)
        /\ cur' \in Queries /\ cur'.text = None
    BY <1>2, EmptySeq DEF EndJoins, Queries, NoQuery
  <2>4. Steady'
    BY <1>2 DEF IInv, Steady, EndJoins
  <2>5. OnTheWay'
    BY <1>2, <2>1, <2>2, <2>3 DEF IInv, OnTheWay, EndJoins
  <2>6. Running' /\ Seen'
    BY <1>2, <2>2, <2>3 DEF IInv, Running, Seen, EndJoins
  <2>. QED  BY <2>4, <2>5, <2>6 DEF IInv
<1>. QED  BY <1>1, <1>2

LEMMA NavigateStep ==
  ASSUME IInv, Navigate
  PROVE  IInv'
<1>1. Reports' = Reports /\ Orders' = Orders /\ Updates' = Updates
  BY SameGeneration DEF Navigate
<1>2. toSearch' \in Seq(Orders)
  <2>1. Event("select", 0, None) \in Orders
    BY SearchAssumption DEF Event, Orders
  <2>. QED  BY <2>1, AppendProperties DEF IInv, OnTheWay, Navigate
<1>3. Steady'
  BY SearchAssumption DEF IInv, Steady, Navigate
<1>4. OnTheWay' /\ Running' /\ Seen'
  BY <1>1, <1>2 DEF IInv, OnTheWay, Running, Seen, Navigate, thread
<1>. QED  BY <1>3, <1>4 DEF IInv

\* What the app thread tells the bar is of the query asked for, or nothing.
LEMMA AppStep ==
  ASSUME IInv, AppHandles
  PROVE  IInv' /\ \A f \in DOMAIN bar : bar'[f] # bar[f] => bar'[f] \in {None, asked}
<1>. DEFINE e == Head(toApp)
<1>1. e \in Reports /\ toApp' \in Seq(Reports)
  BY HeadTailProperties DEF IInv, OnTheWay, AppHandles
<1>2. e \in Results /\ (Accept(e) => e.of \in {None, asked})
  BY <1>1 DEF Reports, Accept
<1>3. Reports' = Reports /\ Orders' = Orders /\ Updates' = Updates
  BY SameGeneration DEF AppHandles
<1>4. /\ toRen' \in Seq(Updates)
      /\ bar' \in [{"total", "rows", "selected"} -> Shown]
      /\ \A f \in DOMAIN bar : bar'[f] # bar[f] => bar'[f] \in {None, asked}
  <2>1. CASE ~Accept(e)
    BY <2>1 DEF IInv, OnTheWay, Seen, AppHandles
  <2>2. CASE Accept(e) /\ e.kind \in {"viewport", "match"}
    <3>1. e \in Updates
      BY <1>1, <1>2, <2>2 DEF Reports, Results, Updates
    <3>2. toRen' = Append(toRen, e) /\ bar' = bar
      BY <2>2 DEF AppHandles
    <3>. QED  BY <3>1, <3>2, AppendProperties DEF IInv, OnTheWay, Seen
  <2>3. CASE Accept(e) /\ e.kind \notin {"viewport", "match"}
    <3>1. e.kind \in {"total", "rows", "selected"} /\ e.of \in Shown
      BY <1>2, <2>3 DEF Results
    <3>2. bar' = [bar EXCEPT ![e.kind] = e.of] /\ toRen' = toRen
      BY <2>3 DEF AppHandles
    <3>. QED  BY <1>2, <2>3, <3>1, <3>2 DEF IInv, OnTheWay, Seen
  <2>. QED  BY <2>1, <2>2, <2>3
<1>5. Steady' /\ Running' /\ Seen'
  BY <1>4 DEF IInv, Steady, Running, Seen, AppHandles, thread
<1>6. OnTheWay'
  BY <1>1, <1>3, <1>4 DEF IInv, OnTheWay, AppHandles, thread
<1>. QED  BY <1>4, <1>5, <1>6 DEF IInv

\* QuerySearch.changeQuery, of a query that is asked for if it is the last.
LEMMA ChangeQueryStep ==
  ASSUME IInv, NEW g \in 0..gen, NEW text \in Texts \cup {None},
         g = gen => text = asked, ChangeQuery(g, text)
  PROVE  /\ pending' \in Seq(Reports)
         /\ cur' \in Queries
         /\ g = gen => cur'.text \in {None, asked}
<1>. DEFINE new == [NoQuery EXCEPT !.text = Runs(text)]
<1>1. new \in Queries /\ new.text \in {None, text}
  BY DEF NoQuery, Queries, Runs
<1>2. CASE Replays(text)
  <2>1. /\ cur' = [cur EXCEPT !.reported = TRUE]
        /\ pending' = FullReport(g, cur)
    BY <1>2 DEF ChangeQuery
  <2>2. cur \in Queries /\ cur.text = text
    BY <1>2 DEF IInv, Running, Replays
  <2>. QED  BY <2>1, <2>2, QueryReports DEF Queries
<1>3. CASE ~Replays(text) /\ Clears(text)
  <2>1. cur' = new /\ pending' = ClearedReport(g)
    BY <1>3 DEF ChangeQuery
  <2>. QED  BY <1>1, <2>1, ClearedReports
<1>4. CASE ~Replays(text) /\ ~Clears(text)
  <2>1. IF new = NoQuery THEN UNCHANGED <<cur, pending>> ELSE Report(g, new)
    BY <1>4 DEF ChangeQuery
  <2>2. CASE new = NoQuery
    <3>1. cur = NoQuery
      BY <1>4 DEF Clears
    <3>. QED  BY <2>1, <2>2, <3>1 DEF IInv, OnTheWay, Running, NoQuery
  <2>3. CASE new # NoQuery
    <3>1. cur' = [new EXCEPT !.reported = TRUE] /\ pending' = FirstReport(g, new)
      BY <2>1, <2>3 DEF Report
    <3>. QED  BY <1>1, <3>1, QueryReports DEF Queries
  <2>. QED  BY <2>2, <2>3
<1>. QED  BY <1>2, <1>3, <1>4

\* A pattern that fails ends its query.
LEMMA FailsStep ==
  ASSUME IInv, NEW g \in 0..gen, NEW text, Fails(g, text)
  PROVE  /\ pending' \in Seq(Reports)
         /\ cur' \in Queries /\ cur'.text = None
         /\ replacing' = FALSE
BY ClearedReports DEF Fails, NoQuery, Queries

\* QuerySearch.select: the query stays what it is.
LEMMA SelectStep ==
  ASSUME IInv, Select
  PROVE  /\ pending' \in Seq(Reports)
         /\ cur' \in Queries /\ cur'.text = cur.text
<1>. DEFINE q == [cur EXCEPT !.selected = @ \/ cur.text \in Matching]
<1>1. /\ cur \in Queries /\ pending \in Seq(Reports) /\ eventGen \in 0..gen
      /\ eventGen = gen => cur.text \in {None, asked}
  BY DEF IInv, OnTheWay, Running
<1>2. q \in Queries /\ q.text = cur.text
  BY <1>1 DEF Queries
<1>3. CASE UNCHANGED <<cur, pending>>
  BY <1>1, <1>3
<1>4. CASE Report(eventGen, q)
  <2>1. cur' = [q EXCEPT !.reported = TRUE] /\ pending' = FirstReport(eventGen, q)
    BY <1>4 DEF Report
  <2>. QED  BY <1>1, <1>2, <2>1, QueryReports DEF Queries
<1>5. CASE /\ cur' = q
           /\ pending' = IF q.selected THEN Highlight(eventGen, q.text) ELSE << >>
  <2>1. q.text \in Shown
    BY <1>2 DEF Queries, Shown
  <2>2. Highlight(eventGen, q.text) \in Seq(Reports)
    BY <1>1, <1>2, <2>1, HighlightReports
  <2>. QED  BY <1>2, <1>5, <2>2, EmptySeq
<1>. QED  BY <1>3, <1>4, <1>5 DEF Select

LEMMA ThreadStep ==
  ASSUME IInv, ThreadHandles \/ ThreadProgresses \/ ThreadEmits \/ ThreadPushes
  PROVE  IInv'
<1>1. gen' = gen /\ asked' = asked
  BY DEF ThreadHandles, ThreadProgresses, ThreadEmits, ThreadPushes
<1>2. Reports' = Reports /\ Orders' = Orders /\ Updates' = Updates
  BY <1>1, SameGeneration
<1>3. Steady' /\ Seen'
  BY DEF IInv, Steady, Seen, ThreadHandles, ThreadProgresses, ThreadEmits, ThreadPushes, Fails
<1>4. CASE ThreadHandles
  <2>. DEFINE m == Head(toSearch)
  <2>1. m \in Orders /\ toSearch' \in Seq(Orders)
    BY <1>4, HeadTailProperties DEF IInv, OnTheWay, ThreadHandles
  <2>2. /\ pending' \in Seq(Reports) /\ cur' \in Queries
        /\ eventGen' \in 0..gen
        /\ eventGen' = gen => cur'.text \in {None, asked}
    <3>1. CASE m.kind = "query" /\ eventGen' = m.gen /\ ChangeQuery(m.gen, m.of)
      <4>1. /\ m.gen \in 0..gen /\ m.of \in Texts \cup {None}
            /\ m.gen = gen => m.of = asked
        BY <2>1, <3>1 DEF Orders, IInv, Steady
      <4>. QED  BY <3>1, <4>1, ChangeQueryStep
    <3>2. CASE eventGen' = eventGen /\ Select
      BY <3>2, SelectStep DEF IInv, Running
    <3>3. CASE m.kind = "query" /\ eventGen' = m.gen /\ Fails(m.gen, Runs(m.of))
      <4>1. m.gen \in 0..gen
        BY <2>1, <3>3 DEF Orders, IInv, Steady
      <4>. QED  BY <3>3, <4>1, FailsStep
    <3>4. CASE eventGen' = eventGen /\ Fails(eventGen, cur.text)
      BY <3>4, FailsStep DEF IInv, Running
    <3>. QED  BY <1>4, <3>1, <3>2, <3>3, <3>4 DEF ThreadHandles
  <2>3. OnTheWay'
    BY <1>2, <1>4, <2>1, <2>2 DEF IInv, OnTheWay, ThreadHandles
  <2>4. Running'
    BY <1>1, <2>2 DEF Running
  <2>. QED  BY <1>3, <2>3, <2>4 DEF IInv
<1>5. CASE ThreadProgresses
  <2>1. /\ pending' \in Seq(Reports) /\ cur' \in Queries
        /\ eventGen = gen => cur'.text \in {None, asked}
    <3>1. CASE Report(eventGen, cur)
      <4>1. cur' = [cur EXCEPT !.reported = TRUE] /\ pending' = FirstReport(eventGen, cur)
        BY <3>1 DEF Report
      <4>. QED  BY <4>1, QueryReports DEF IInv, Running, Queries
    <3>2. CASE Fails(eventGen, cur.text)
      BY <3>2, FailsStep DEF IInv, Running
    <3>. QED  BY <1>5, <3>1, <3>2 DEF ThreadProgresses
  <2>2. OnTheWay'
    BY <1>2, <1>5, <2>1 DEF IInv, OnTheWay, ThreadProgresses
  <2>3. Running'
    BY <1>1, <1>5, <2>1 DEF IInv, Running, ThreadProgresses
  <2>. QED  BY <1>3, <2>2, <2>3 DEF IInv
<1>6. CASE ThreadEmits
  <2>1. Head(pending) \in Reports /\ pending' \in Seq(Reports)
    BY <1>6, HeadTailProperties DEF IInv, OnTheWay, ThreadEmits
  <2>2. OnTheWay'
    BY <1>2, <1>6, <2>1 DEF IInv, OnTheWay, ThreadEmits
  <2>3. Running'
    BY <1>6 DEF IInv, Running, ThreadEmits
  <2>. QED  BY <1>3, <2>2, <2>3 DEF IInv
<1>7. CASE ThreadPushes
  <2>1. toApp' \in Seq(Reports)
    <3>1. inflight \in Reports /\ toApp \in Seq(Reports)
      BY <1>7 DEF IInv, OnTheWay, ThreadPushes
    <3>2. toApp' = Append(toApp, inflight) \/ toApp' = toApp
      BY <1>7 DEF ThreadPushes
    <3>. QED  BY <3>1, <3>2, AppendProperties
  <2>2. OnTheWay'
    BY <1>2, <1>7, <2>1 DEF IInv, OnTheWay, ThreadPushes
  <2>3. Running'
    BY <1>7 DEF IInv, Running, ThreadPushes
  <2>. QED  BY <1>3, <2>2, <2>3 DEF IInv
<1>. QED  BY <1>4, <1>5, <1>6, <1>7

LEMMA RenStep ==
  ASSUME IInv, RenChecks \/ RenApplies
  PROVE  IInv'
<1>1. Reports' = Reports /\ Orders' = Orders /\ Updates' = Updates
  BY SameGeneration DEF RenChecks, RenApplies
<1>2. Steady' /\ Running'
  BY DEF IInv, Steady, Running, RenChecks, RenApplies, thread
<1>3. CASE RenChecks
  <2>1. Head(toRen) \in Updates /\ toRen' \in Seq(Updates)
    BY <1>3, HeadTailProperties DEF IInv, OnTheWay, RenChecks
  <2>2. OnTheWay'
    BY <1>1, <1>3, <2>1 DEF IInv, OnTheWay, RenChecks, thread
  <2>3. Seen'
    BY <1>3 DEF IInv, Seen, RenChecks
  <2>. QED  BY <1>2, <2>2, <2>3 DEF IInv
<1>4. CASE RenApplies
  <2>1. accepted.of \in Shown /\ None \in Shown
    BY <1>4 DEF IInv, OnTheWay, Updates, Shown, RenApplies
  <2>2. Seen'
    <3>1. shown' \in {[shown EXCEPT !.viewport = accepted.of],
                      [shown EXCEPT !.match = accepted.of],
                      [viewport |-> None, match |-> None]}
      BY <1>4 DEF RenApplies
    <3>. QED  BY <1>4, <2>1, <3>1 DEF IInv, Seen, RenApplies
  <2>3. OnTheWay'
    BY <1>1, <1>4 DEF IInv, OnTheWay, RenApplies, thread
  <2>. QED  BY <1>2, <2>2, <2>3 DEF IInv
<1>. QED  BY <1>3, <1>4

-----------------------------------------------------------------------------
(* The theorems *)

LEMMA InitIInv == Init => IInv
<1>. SUFFICES ASSUME Init PROVE IInv
  OBVIOUS
<1>1. Steady
  BY SearchAssumption DEF Init, Steady
<1>2. OnTheWay
  BY EmptySeq DEF Init, OnTheWay
<1>3. Running /\ Seen
  BY DEF Init, Running, Seen, NoQuery, Queries, BarCleared, Shown
<1>. QED  BY <1>1, <1>2, <1>3 DEF IInv

LEMMA NextIInv == IInv /\ [Next]_vars => IInv'
<1>. SUFFICES ASSUME IInv, [Next]_vars PROVE IInv'
  OBVIOUS
<1>1. CASE UNCHANGED vars
  BY <1>1 DEF vars, thread, IInv, Steady, OnTheWay, Running, Seen, Reports, Orders, Updates
<1>. QED
  BY <1>1, SetQueryStep, InvalidateStep, EndStep, NavigateStep, AppStep,
      ThreadStep, RenStep DEF Next

(* IInv holds in every state of every search: what the theorems below rest *)
(* on. Whatever is on its way and carries the generation in force is of    *)
(* the query asked for.                                                    *)
THEOREM Inductive == Spec => []IInv
BY InitIInv, NextIInv, PTL DEF Spec

(* TypeOK always holds; in particular the bar and the highlights only ever *)
(* show queries that can be searched for.                                  *)
THEOREM TypeCorrect == Spec => []TypeOK
<1>1. IInv => TypeOK
  <2>. SUFFICES ASSUME IInv PROVE TypeOK
    OBVIOUS
  <2>1. NoEvent \in Events
    BY SearchAssumption DEF NoEvent, Events, Kinds
  <2>2. Reports \subseteq Events /\ Orders \subseteq Events /\ Updates \subseteq Events
    BY DEF Reports, Results, Orders, Updates, Events, Kinds, Shown, Texts
  <2>3. /\ toSearch \in Seq(Events) /\ toApp \in Seq(Events)
        /\ toRen \in Seq(Events) /\ pending \in Seq(Events)
    BY <2>2, SeqMonotonic DEF IInv, OnTheWay
  <2>4. inflight \in Events /\ accepted \in Events
    BY <2>1, <2>2 DEF IInv, OnTheWay
  <2>. QED  BY <2>3, <2>4 DEF IInv, Steady, Running, Seen, Shown, TypeOK
<1>. QED  BY <1>1, Inductive, PTL

(* BarFollows always holds: whatever Surface.handleMessage tells the search *)
(* bar is of the query asked for when it does, or clears what it showed,    *)
(* however late the search thread's reports arrive.                         *)
THEOREM TheBarFollows == Spec => BarFollows
<1>1. IInv /\ [Next]_vars =>
        [\A f \in DOMAIN bar : bar'[f] # bar[f] => bar'[f] \in {None, asked'}]_vars
  <2>. SUFFICES ASSUME IInv, Next,
                       NEW f \in DOMAIN bar, bar'[f] # bar[f]
                PROVE  bar'[f] \in {None, asked'}
    BY DEF vars
  <2>1. CASE AppHandles
    BY <2>1, AppStep DEF AppHandles
  <2>2. CASE Invalidate \/ EndJoins
    <3>1. bar' = BarCleared /\ f \in {"total", "rows", "selected"}
      BY <2>2 DEF IInv, Seen, Invalidate, EndJoins, SyncClear
    <3>. QED  BY <3>1 DEF BarCleared
  <2>3. CASE bar' = bar
    BY <2>3
  <2>. QED
    BY <2>1, <2>2, <2>3 DEF Next, SetQuery, Navigate, EndBegins, ThreadHandles,
        ThreadProgresses, ThreadEmits, ThreadPushes, RenChecks, RenApplies
<1>. QED  BY <1>1, Inductive, PTL DEF Spec, BarFollows

-----------------------------------------------------------------------------
(* What is last on its way *)

\* An event of kind k that carries the generation in force: nobody drops it.
Counts(k, e) == e.kind = k /\ e.gen = gen
Clean(k, s) == \A i \in DOMAIN s : ~Counts(k, s[i])

\* What the bar's total and the renderer's viewport show of a query.
Wanted(k, text) == IF k = "total" THEN text ELSE Found(text)

\* The last event of kind k that counts says so.
Ends(k, text, s) == \E i \in DOMAIN s : /\ Counts(k, s[i]) /\ s[i].of = Wanted(k, text)
                                        /\ \A j \in DOMAIN s : j > i => ~Counts(k, s[j])

\* To the renderer a clear counts too. What it accepted it will apply.
Draws(e) == Counts("viewport", e) \/ Counts("clear", e)
Drawn(text) ==
    \/ \E i \in DOMAIN toRen : /\ Draws(toRen[i]) /\ toRen[i].of = Found(text)
                               /\ \A j \in DOMAIN toRen : j > i => ~Draws(toRen[j])
    \/ /\ \A i \in DOMAIN toRen : ~Draws(toRen[i])
       /\ IF accepted.kind \in {"viewport", "clear"}
          THEN accepted.of = Found(text)
          ELSE shown.viewport = Found(text)
Arrived(k, text) == IF k = "total" THEN bar.total = text ELSE Drawn(text)

\* Whatever comes last of kind k, or, if nothing comes, what is there.
Follows(k, text) ==
    \/ Ends(k, text, pending)
    \/ /\ Clean(k, pending)
       /\ \/ Counts(k, inflight) /\ inflight.of = Wanted(k, text)
          \/ /\ ~Counts(k, inflight)
             /\ Ends(k, text, toApp) \/ (Clean(k, toApp) /\ Arrived(k, text))

\* The query that runs, or is to run, for the one asked for.
Answer == IF eventGen = gen THEN cur.text ELSE Runs(asked)

\* The query asked for has not reached the search thread, or is not reported.
Asking == \E i \in DOMAIN toSearch : toSearch[i].kind = "query" /\ toSearch[i].gen = gen
Due == \/ asked # None /\ (Asking \/ (cur # NoQuery /\ ~cur.reported))
       \/ search = "stopping"
FollowInv == ~Due => \A k \in {"total", "viewport"} : Follows(k, Answer)

\* The orders, and what the thread works on.
OrderInv ==
    /\ \A i, j \in DOMAIN toSearch :
          i < j /\ toSearch[i].kind = "query" /\ toSearch[j].kind = "query"
             => toSearch[i].gen # gen
    /\ eventGen = gen => \A i \in DOMAIN toSearch : toSearch[i].kind # "query"
    /\ search = "on" => eventGen = gen \/ Asking
    /\ search # "on" => asked = None
    /\ search = "off" => cur = NoQuery
    /\ eventGen = gen => cur.text = Runs(asked) \/ (cur.text = None /\ asked \in Failing)

\* A report that counts is the running thread's, of the last query it was told.
Reported == {"total", "viewport", "rows", "match", "selected"}
LiveInv ==
    ~(eventGen = gen /\ search = "on") =>
        \A k \in Reported :
            Clean(k, pending) /\ ~Counts(k, inflight) /\ Clean(k, toApp)

\* An event of kind k that counts is to come, or what is there is not another
\* query's.
Coming(k) ==
    \/ ~Clean(k, pending) \/ Counts(k, inflight) \/ ~Clean(k, toApp)
    \/ /\ k = "match"
       /\ \/ ~Clean(k, toRen)
          \/ IF accepted.kind = "match" THEN accepted.of \in {None, asked}
             ELSE shown.match \in {None, asked}
    \/ k # "match" /\ bar[k] \in {None, asked}
Untouched == /\ pending = <<>> /\ inflight = NoEvent /\ toApp = <<>>
             /\ toRen = <<>> /\ accepted = NoEvent
             /\ bar = BarCleared /\ shown = [viewport |-> None, match |-> None]
ReplaceInv ==
    replacing =>
      /\ search # "stopping"
      /\ \A i \in DOMAIN toSearch : toSearch[i].kind = "query" => toSearch[i].of \in Valid
      /\ cur = NoQuery => Untouched
      /\ ~Asking => \A k \in {"rows", "match", "selected"} : Coming(k)

RInv == IInv /\ OrderInv /\ LiveInv /\ FollowInv /\ ReplaceInv

-----------------------------------------------------------------------------
(* Sequences of events and what counts in them *)

\* A sequence's domain.
LEMMA SeqDomain ==
  ASSUME NEW S, NEW s \in Seq(S)
  PROVE  Len(s) \in Nat /\ DOMAIN s = 1..Len(s)
OBVIOUS

\* The tail of a sequence.
LEMMA TailIs ==
  ASSUME NEW S, NEW s \in Seq(S), s # <<>>
  PROVE  /\ Tail(s) \in Seq(S) /\ Head(s) = s[1] /\ 1 \in DOMAIN s
         /\ \A i \in DOMAIN Tail(s) : i + 1 \in DOMAIN s /\ Tail(s)[i] = s[i + 1] /\ i \in Int
         /\ \A i \in DOMAIN s : i = 1 \/ (i - 1 \in DOMAIN Tail(s) /\ Tail(s)[i - 1] = s[i])
<1>1. Len(s) \in Nat /\ Len(s) # 0 /\ DOMAIN s = 1..Len(s)
  OBVIOUS
<1>2. Tail(s) \in Seq(S) /\ Len(Tail(s)) = Len(s) - 1 /\ DOMAIN Tail(s) = 1..(Len(s) - 1)
  BY <1>1
<1>3. \A i \in 1..(Len(s) - 1) : Tail(s)[i] = s[i + 1]
  BY <1>1, <1>2
<1>. QED  BY <1>1, <1>2, <1>3

\* One more at the end.
LEMMA AppendIs ==
  ASSUME NEW S, NEW s \in Seq(S), NEW e \in S
  PROVE  /\ Append(s, e) \in Seq(S) /\ Len(s) + 1 \in DOMAIN Append(s, e)
         /\ Append(s, e)[Len(s) + 1] = e /\ Len(s) \in Nat
         /\ \A i \in DOMAIN s : i \in DOMAIN Append(s, e) /\ Append(s, e)[i] = s[i] /\ i < Len(s) + 1
         /\ \A i \in DOMAIN Append(s, e) : i = Len(s) + 1 \/ i \in DOMAIN s
OBVIOUS

\* What is left when the first event is taken.
LEMMA CountsTail ==
  ASSUME NEW S, NEW s \in Seq(S), s # <<>>, NEW k, NEW w
  PROVE  /\ Clean(k, s) => Clean(k, Tail(s)) /\ ~Counts(k, Head(s))
         /\ ~Counts(k, Head(s)) /\ Clean(k, Tail(s)) => Clean(k, s)
         /\ Ends(k, w, s) => \/ Ends(k, w, Tail(s))
                          \/ /\ Clean(k, Tail(s))
                             /\ Counts(k, Head(s)) /\ Head(s).of = Wanted(k, w)
<1>1. /\ Clean(k, s) => Clean(k, Tail(s)) /\ ~Counts(k, Head(s))
      /\ ~Counts(k, Head(s)) /\ Clean(k, Tail(s)) => Clean(k, s)
  BY TailIs DEF Clean
<1>2. ASSUME Ends(k, w, s)
      PROVE  \/ Ends(k, w, Tail(s))
             \/ Clean(k, Tail(s)) /\ Counts(k, Head(s)) /\ Head(s).of = Wanted(k, w)
  <2>1. PICK i \in DOMAIN s : /\ Counts(k, s[i]) /\ s[i].of = Wanted(k, w)
                              /\ \A j \in DOMAIN s : j > i => ~Counts(k, s[j])
    BY <1>2 DEF Ends
  <2>2. DOMAIN s = 1..Len(s) /\ Len(s) \in Nat
    BY SeqDomain
  <2>3. CASE i = 1
    <3>1. \A j \in DOMAIN Tail(s) : j + 1 > i
      BY <2>3, TailIs
    <3>. QED  BY <2>1, <2>3, <3>1, TailIs DEF Clean
  <2>4. CASE i # 1
    <3>1. \A j \in DOMAIN Tail(s) : j > i - 1 => j + 1 > i
      BY <2>2, TailIs
    <3>2. i - 1 \in DOMAIN Tail(s) /\ Tail(s)[i - 1] = s[i]
      BY <2>4, TailIs
    <3>. QED  BY <2>1, <3>1, <3>2, TailIs DEF Ends
  <2>. QED  BY <2>3, <2>4
<1>. QED  BY <1>1, <1>2

\* One event more.
LEMMA CountsAppend ==
  ASSUME NEW S, NEW s \in Seq(S), NEW e \in S, NEW k, NEW w
  PROVE  /\ Clean(k, s) /\ ~Counts(k, e) => Clean(k, Append(s, e))
         /\ Clean(k, Append(s, e)) => Clean(k, s) /\ ~Counts(k, e)
         /\ Ends(k, w, s) /\ ~Counts(k, e) => Ends(k, w, Append(s, e))
         /\ Counts(k, e) /\ e.of = Wanted(k, w) => Ends(k, w, Append(s, e))
<1>1. /\ Clean(k, s) /\ ~Counts(k, e) => Clean(k, Append(s, e))
      /\ Clean(k, Append(s, e)) => Clean(k, s) /\ ~Counts(k, e)
  BY AppendIs DEF Clean
<1>2. ASSUME Ends(k, w, s), ~Counts(k, e) PROVE Ends(k, w, Append(s, e))
  BY <1>2, AppendIs DEF Ends
<1>3. ASSUME Counts(k, e), e.of = Wanted(k, w) PROVE Ends(k, w, Append(s, e))
  <2>1. \A j \in DOMAIN Append(s, e) : ~(j > Len(s) + 1)
    BY AppendIs
  <2>. QED  BY <1>3, <2>1, AppendIs DEF Ends
<1>. QED  BY <1>1, <1>2, <1>3

\* Nothing counts in no events.
LEMMA CountsNone == \A k : Clean(k, <<>>)
BY DEF Clean

\* Two sequences, one after the other.
LEMMA CountsConcat ==
  ASSUME NEW S, NEW s \in Seq(S), NEW t \in Seq(S), NEW k, NEW w
  PROVE  /\ s \o t \in Seq(S)
         /\ Clean(k, s) /\ Clean(k, t) => Clean(k, s \o t)
         /\ ~Clean(k, s) \/ ~Clean(k, t) => ~Clean(k, s \o t)
         /\ Ends(k, w, s) /\ Clean(k, t) => Ends(k, w, s \o t)
<1>. DEFINE n == Len(s)
            m == Len(t)
            u == s \o t
<1>1. /\ n \in Nat /\ m \in Nat /\ DOMAIN s = 1..n /\ DOMAIN t = 1..m
      /\ u \in Seq(S) /\ DOMAIN u = 1..(n + m)
  BY ConcatProperties
<1>2. \A i \in 1..n : u[i] = s[i]
  BY <1>1, ConcatProperties
<1>3. \A i \in 1..m : u[n + i] = t[i] /\ n + i \in 1..(n + m)
  <2>1. \A i \in 1..(n + m) : u[i] = IF i <= n THEN s[i] ELSE t[i - n]
    BY ConcatProperties
  <2>. HIDE DEF n, m, u
  <2>2. SUFFICES ASSUME NEW i \in 1..m PROVE u[n + i] = t[i] /\ n + i \in 1..(n + m)
    OBVIOUS
  <2>3. n + i \in 1..(n + m) /\ ~(n + i <= n) /\ (n + i) - n = i
    BY <1>1
  <2>. QED  BY <2>1, <2>3
<1>4. \A i \in 1..(n + m) : i \in 1..n \/ (i - n \in 1..m /\ u[i] = t[i - n])
  <2>1. \A i \in 1..(n + m) : i \in 1..n \/ (i - n \in 1..m /\ n + (i - n) = i)
    <3>. HIDE DEF n, m
    <3>. QED  BY <1>1
  <2>. QED  BY <1>3, <2>1
<1>. HIDE DEF n, m, u
<1>5. Clean(k, s) /\ Clean(k, t) => Clean(k, u)
  BY <1>1, <1>2, <1>4 DEF Clean
<1>6. ~Clean(k, s) \/ ~Clean(k, t) => ~Clean(k, u)
  <2>1. 1..n \subseteq 1..(n + m)
    BY <1>1
  <2>. QED  BY <1>1, <1>2, <1>3, <2>1 DEF Clean
<1>7. ASSUME Ends(k, w, s), Clean(k, t) PROVE Ends(k, w, u)
  <2>1. PICK i \in 1..n : /\ Counts(k, s[i]) /\ s[i].of = Wanted(k, w)
                          /\ \A j \in 1..n : j > i => ~Counts(k, s[j])
    BY <1>1, <1>7 DEF Ends
  <2>2. i \in 1..(n + m)
    BY <1>1
  <2>3. ASSUME NEW j \in 1..(n + m), j > i PROVE ~Counts(k, u[j])
    BY <1>1, <1>2, <1>4, <1>7, <2>1, <2>3 DEF Clean
  <2>. QED  BY <1>1, <1>2, <2>1, <2>2, <2>3 DEF Ends
<1>. QED  BY <1>1, <1>5, <1>6, <1>7 DEF u

-----------------------------------------------------------------------------
(* What a report says, and of which generation *)

\* An event of a report counts if it is of the generation in force.
LEMMA EventCounts ==
  ASSUME NEW k, NEW kind, NEW g, NEW of
  PROVE  /\ Counts(k, Event(kind, g, of)) <=> (kind = k /\ g = gen)
         /\ Event(kind, g, of).of = of
BY DEF Counts, Event

\* A selected match is told to the renderer and to the bar.
LEMMA HighlightCounts ==
  ASSUME NEW g, NEW of, NEW k
  PROVE  /\ g # gen \/ k \in {"total", "viewport", "rows"} => Clean(k, Highlight(g, of))
         /\ g = gen /\ k \in {"match", "selected"} => ~Clean(k, Highlight(g, of))
BY DEF Highlight, Clean, Counts, Event

\* The first three events of a report of everything.
LEMMA TripleCounts ==
  ASSUME NEW g, NEW a, NEW b, NEW c, NEW k
  PROVE  LET s == <<Event("total", g, a), Event("viewport", g, b), Event("rows", g, c)>>
         IN  /\ g # gen => Clean(k, s)
             /\ g = gen /\ k \in {"total", "viewport", "rows"} => ~Clean(k, s)
             /\ g = gen => Ends("total", a, s)
             /\ \A w : g = gen /\ b = Found(w) => Ends("viewport", w, s)
<1>. DEFINE s == <<Event("total", g, a), Event("viewport", g, b), Event("rows", g, c)>>
<1>1. /\ DOMAIN s = {1, 2, 3}
      /\ s[1] = Event("total", g, a) /\ s[2] = Event("viewport", g, b)
      /\ s[3] = Event("rows", g, c)
  OBVIOUS
<1>. HIDE DEF s
<1>2. g # gen => Clean(k, s)
  BY <1>1, EventCounts DEF Clean
<1>3. g = gen /\ k \in {"total", "viewport", "rows"} => ~Clean(k, s)
  BY <1>1, EventCounts DEF Clean
<1>4. g = gen => Ends("total", a, s)
  BY <1>1, EventCounts DEF Ends, Wanted
<1>5. \A w : g = gen /\ b = Found(w) => Ends("viewport", w, s)
  BY <1>1, EventCounts DEF Ends, Wanted
<1>. QED  BY <1>2, <1>3, <1>4, <1>5 DEF s

\* QuerySearch.cleared says None of everything.
LEMMA ClearedCounts ==
  ASSUME IInv, NEW g \in 0..gen, NEW k
  PROVE  /\ g # gen => Clean(k, ClearedReport(g))
         /\ g = gen /\ k \in Reported => ~Clean(k, ClearedReport(g))
         /\ g = gen /\ k \in {"total", "viewport"} => Ends(k, None, ClearedReport(g))
<1>. DEFINE s == <<Event("total", g, None), Event("viewport", g, None), Event("rows", g, None)>>
            t == Highlight(g, None)
<1>1. s \in Seq(Reports) /\ t \in Seq(Reports)
  <2>1. None \in Shown
    BY DEF Shown
  <2>2. s \in Seq(Reports)
    BY <2>1, EventReports, TripleIn
  <2>. QED  BY <2>1, <2>2, HighlightReports
<1>2. /\ g # gen => Clean(k, s) /\ Clean(k, t)
      /\ g = gen /\ k \in Reported => ~Clean(k, s) \/ ~Clean(k, t)
      /\ g = gen /\ k \in {"total", "viewport"} => Clean(k, t)
      /\ g = gen /\ k \in {"total", "viewport"} => Ends(k, None, s)
  <2>1. Found(None) = None
    BY DEF Found
  <2>. QED  BY <2>1, TripleCounts, HighlightCounts DEF Reported
<1>3. ClearedReport(g) = s \o t
  BY DEF ClearedReport
<1>. HIDE DEF s, t
<1>4. /\ Clean(k, s) /\ Clean(k, t) => Clean(k, s \o t)
      /\ ~Clean(k, s) \/ ~Clean(k, t) => ~Clean(k, s \o t)
      /\ Ends(k, None, s) /\ Clean(k, t) => Ends(k, None, s \o t)
  BY <1>1, CountsConcat
<1>. QED  BY <1>2, <1>3, <1>4 DEF Reported

\* A replay reports everything again.
LEMMA FullCounts ==
  ASSUME IInv, NEW g \in 0..gen, NEW q \in Queries, g = gen => q.text \in {None, asked}, NEW k
  PROVE  /\ g # gen => Clean(k, FullReport(g, q))
         /\ g = gen /\ k \in Reported => ~Clean(k, FullReport(g, q))
         /\ g = gen /\ k \in {"total", "viewport"} => Ends(k, q.text, FullReport(g, q))
<1>. DEFINE s == <<Event("total", g, q.text), Event("viewport", g, Found(q.text)),
                   Event("rows", g, Found(q.text))>>
            of == IF q.selected THEN q.text ELSE None
            t == Highlight(g, of)
<1>1. s \in Seq(Reports) /\ t \in Seq(Reports)
  <2>1. /\ q.text \in Shown /\ None \in Shown /\ Found(q.text) \in Shown
        /\ g = gen => {q.text, Found(q.text)} \subseteq {None, asked}
    BY DEF Queries, Shown, Found
  <2>2. of \in Shown /\ (g = gen => of \in {None, asked})
    BY <2>1
  <2>3. s \in Seq(Reports)
    BY <2>1, EventReports, TripleIn
  <2>. QED  BY <2>2, <2>3, HighlightReports
<1>2. /\ g # gen => Clean(k, s) /\ Clean(k, t)
      /\ g = gen /\ k \in Reported => ~Clean(k, s) \/ ~Clean(k, t)
      /\ g = gen /\ k \in {"total", "viewport"} => Clean(k, t) /\ Ends(k, q.text, s)
  BY TripleCounts, HighlightCounts DEF Reported
<1>3. FullReport(g, q) = s \o t
  BY DEF FullReport
<1>. HIDE DEF s, t
<1>4. /\ Clean(k, s) /\ Clean(k, t) => Clean(k, s \o t)
      /\ ~Clean(k, s) \/ ~Clean(k, t) => ~Clean(k, s \o t)
      /\ Ends(k, q.text, s) /\ Clean(k, t) => Ends(k, q.text, s \o t)
  BY <1>1, CountsConcat
<1>. QED  BY <1>2, <1>3, <1>4 DEF Reported

\* A first report says what was found.
LEMMA FirstCounts ==
  ASSUME IInv, NEW g \in 0..gen, NEW q \in Queries, g = gen => q.text \in {None, asked}, NEW k
  PROVE  /\ g # gen => Clean(k, FirstReport(g, q))
         /\ g = gen /\ k \in {"total", "viewport"} => Ends(k, q.text, FirstReport(g, q))
<1>. DEFINE s == <<Event("total", g, q.text), Event("viewport", g, Found(q.text))>>
            r == IF q.text \in Matching THEN <<Event("rows", g, q.text)>> ELSE <<>>
            t == IF q.selected THEN Highlight(g, q.text) ELSE <<>>
<1>1. s \in Seq(Reports) /\ r \in Seq(Reports) /\ t \in Seq(Reports)
  <2>1. /\ q.text \in Shown /\ Found(q.text) \in Shown
        /\ g = gen => {q.text, Found(q.text)} \subseteq {None, asked}
    BY DEF Queries, Shown, Found
  <2>2. s \in Seq(Reports)
    BY <2>1, EventReports, PairIn
  <2>3. <<Event("rows", g, q.text)>> \in Seq(Reports)
    <3>1. Event("rows", g, q.text) \in Reports
      BY <2>1, EventReports
    <3>. QED  BY <3>1
  <2>4. Highlight(g, q.text) \in Seq(Reports)
    BY <2>1, HighlightReports
  <2>. QED  BY <2>2, <2>3, <2>4, EmptySeq
<1>2. /\ g # gen => Clean(k, s)
      /\ g = gen /\ k \in {"total", "viewport"} => Ends(k, q.text, s)
  <2>1. DOMAIN s = {1, 2} /\ s[1] = Event("total", g, q.text)
        /\ s[2] = Event("viewport", g, Found(q.text))
    OBVIOUS
  <2>. HIDE DEF s
  <2>. QED  BY <2>1, EventCounts DEF Clean, Ends, Wanted
<1>3. g # gen \/ k \in {"total", "viewport"} => Clean(k, r) /\ Clean(k, t)
  <2>1. g # gen \/ k \in {"total", "viewport"} => Clean(k, <<Event("rows", g, q.text)>>)
    BY DEF Clean, Counts, Event
  <2>. QED  BY <2>1, HighlightCounts, CountsNone
<1>4. FirstReport(g, q) = (s \o r) \o t
  BY DEF FirstReport
<1>. HIDE DEF s, r, t
<1>5. /\ s \o r \in Seq(Reports)
      /\ g # gen => Clean(k, s \o r)
      /\ g = gen /\ k \in {"total", "viewport"} => Ends(k, q.text, s \o r)
  BY <1>1, <1>2, <1>3, CountsConcat
<1>. DEFINE u == s \o r
<1>6. /\ u \in Seq(Reports) /\ t \in Seq(Reports)
      /\ g # gen => Clean(k, u) /\ Clean(k, t)
      /\ g = gen /\ k \in {"total", "viewport"} => Ends(k, q.text, u) /\ Clean(k, t)
  BY <1>1, <1>3, <1>5
<1>7. FirstReport(g, q) = u \o t
  BY <1>4
<1>. HIDE DEF u
<1>. QED  BY <1>6, <1>7, CountsConcat

-----------------------------------------------------------------------------
(* The steps keep what is last on its way *)

\* What is on its way is older than a new generation.
LEMMA OlderThanNew ==
  ASSUME IInv, gen' = gen + 1
  PROVE  /\ eventGen # gen'
         /\ \A i \in DOMAIN toSearch : toSearch[i].kind = "query" => toSearch[i].gen # gen'
         /\ \A i \in DOMAIN pending : pending[i].gen # gen'
         /\ \A i \in DOMAIN toApp : toApp[i].gen # gen'
         /\ \A k \in Reported : inflight.kind = k => inflight.gen # gen'
<1>1. gen \in Nat /\ MaxGen \in Nat
  BY SearchAssumption DEF IInv, Steady
<1>2. \A g \in 0..gen : g # gen'
  BY <1>1
<1>3. \A e \in Reports : e.gen # gen'
  BY <1>1, <1>2 DEF Reports, Results
<1>4. eventGen \in 0..gen
  BY DEF IInv, Running
<1>5. \A m \in Orders : m.kind = "query" => m.gen # gen'
  BY <1>1, <1>2 DEF Orders
<1>6. \A i \in DOMAIN toSearch : toSearch[i] \in Orders
  BY DEF IInv, OnTheWay
<1>7. /\ \A i \in DOMAIN pending : pending[i] \in Reports
      /\ \A i \in DOMAIN toApp : toApp[i] \in Reports
      /\ inflight \in Reports \cup {NoEvent}
  BY DEF IInv, OnTheWay
<1>8. \A k \in Reported : NoEvent.kind # k
  BY DEF NoEvent, Reported, None
<1>. QED  BY <1>2, <1>3, <1>4, <1>5, <1>6, <1>7, <1>8

\* A change of the query: the order that carries it is the last.
LEMMA OrderAdded ==
  ASSUME IInv, gen' = gen + 1, NEW text \in Texts \cup {None}, asked' = text, search' = "on",
         eventGen' = eventGen, toSearch' = Append(toSearch, Event("query", gen + 1, text))
  PROVE  OrderInv' /\ Asking'
<1>. DEFINE m == Event("query", gen + 1, text)
            n == Len(toSearch) + 1
<1>1. m.kind = "query" /\ m.gen = gen'
  BY DEF Event
<1>2. /\ n \in DOMAIN toSearch' /\ toSearch'[n] = m /\ n \in Nat
      /\ \A i \in DOMAIN toSearch' : i = n \/ i \in DOMAIN toSearch
      /\ \A i \in DOMAIN toSearch : toSearch'[i] = toSearch[i] /\ i < n
  <2>1. toSearch \in Seq(Orders) /\ Len(toSearch) \in Nat /\ DOMAIN toSearch = 1..Len(toSearch)
    BY DEF IInv, OnTheWay
  <2>2. /\ DOMAIN toSearch' = 1..(Len(toSearch) + 1)
        /\ \A i \in DOMAIN toSearch : toSearch'[i] = toSearch[i]
        /\ toSearch'[Len(toSearch) + 1] = m
    BY <2>1
  <2>. QED  BY <2>1, <2>2
<1>. HIDE DEF m, n
<1>3. eventGen' # gen'
      /\ \A i \in DOMAIN toSearch : toSearch[i].kind = "query" => toSearch[i].gen # gen'
  BY OlderThanNew
<1>4. Asking'
  BY <1>1, <1>2 DEF Asking
<1>5. ASSUME NEW i \in DOMAIN toSearch', NEW j \in DOMAIN toSearch', i < j,
             toSearch'[i].kind = "query"
      PROVE  toSearch'[i].gen # gen'
  <2>1. i # n
    BY <1>2, <1>5
  <2>. QED  BY <1>2, <1>3, <1>5, <2>1
<1>. QED  BY <1>3, <1>4, <1>5 DEF OrderInv

\* Taking the first order.
LEMMA OrderTaken ==
  ASSUME IInv, toSearch # <<>>
  PROVE  /\ Head(toSearch) \in Orders /\ Head(toSearch) = toSearch[1] /\ 1 \in DOMAIN toSearch
         /\ \A i \in DOMAIN Tail(toSearch) :
              i + 1 \in DOMAIN toSearch /\ Tail(toSearch)[i] = toSearch[i + 1]
              /\ 1 < i + 1 /\ i \in Int
         /\ \A i \in DOMAIN toSearch :
              i = 1 \/ (i - 1 \in DOMAIN Tail(toSearch) /\ Tail(toSearch)[i - 1] = toSearch[i])
<1>1. toSearch \in Seq(Orders)
  BY DEF IInv, OnTheWay
<1>2. Len(toSearch) \in Nat /\ DOMAIN Tail(toSearch) = 1..(Len(toSearch) - 1)
  BY <1>1
<1>3. Head(toSearch) \in Orders
  BY <1>1
<1>4. \A i \in DOMAIN Tail(toSearch) : 1 < i + 1
  BY <1>2
<1>. QED  BY <1>1, <1>3, <1>4, TailIs

\* A query that is taken and counts was the one asked for last; while another
\* query waits, the one in force is still to come.
LEMMA QueryTaken ==
  ASSUME IInv, OrderInv, toSearch # <<>>, search = "on", toSearch' = Tail(toSearch), gen' = gen
  PROVE  /\ Head(toSearch).kind = "query" => eventGen # gen
         /\ Head(toSearch).kind = "query" /\ Head(toSearch).gen = gen =>
               ~Asking' /\ \A i \in DOMAIN toSearch' : toSearch'[i].kind # "query"
         /\ Head(toSearch).kind = "query" /\ Head(toSearch).gen # gen => Asking'
         /\ Head(toSearch).kind # "query" => (Asking' <=> Asking)
<1>1. Head(toSearch).kind = "query" => eventGen # gen
  BY OrderTaken DEF OrderInv
<1>2. ASSUME Head(toSearch).kind = "query", Head(toSearch).gen = gen
      PROVE  \A i \in DOMAIN toSearch' : toSearch'[i].kind # "query"
  BY <1>2, OrderTaken DEF OrderInv
<1>3. ASSUME Asking, Head(toSearch).kind # "query" \/ Head(toSearch).gen # gen
      PROVE  Asking'
  BY <1>3, OrderTaken DEF Asking
<1>4. Asking' => Asking
  BY OrderTaken DEF Asking
<1>5. eventGen # gen => Asking
  BY DEF OrderInv
<1>. QED  BY <1>1, <1>2, <1>3, <1>4, <1>5 DEF Asking

\* Queries that agree in every field are the same.
LEMMA SameQuery ==
  ASSUME NEW q \in Queries, NEW r \in Queries,
         q.text = r.text, q.selected = r.selected, q.reported = r.reported
  PROVE  q = r
BY DEF Queries

\* What a change of query reports, and what it leaves to report.
LEMMA QueryChanged ==
  ASSUME IInv, NEW g \in 0..gen, NEW text \in Texts \cup {None},
         g = gen => text = asked, pending = <<>>, ChangeQuery(g, text)
  PROVE  /\ g = gen => cur'.text = Runs(asked)
         /\ g # gen => \A k : Clean(k, pending')
         /\ g = gen => \A k \in {"total", "viewport"} :
                          \/ Ends(k, cur'.text, pending')
                          \/ asked # None /\ cur' # NoQuery /\ ~cur'.reported
                          \/ asked = None /\ pending' = <<>>
         /\ g = gen => (\A k \in Reported : ~Clean(k, pending')) \/ cur = NoQuery
         /\ text \in Valid => cur' # NoQuery
<1>. DEFINE new == [NoQuery EXCEPT !.text = Runs(text)]
<1>1. /\ new \in Queries /\ new.text = Runs(text) /\ ~new.reported
      /\ new = NoQuery <=> text \notin Valid
      /\ cur \in Queries /\ None \notin Valid
  <2>1. cur \in Queries /\ None \notin Valid
    BY SearchAssumption DEF IInv, Running, Texts
  <2>2. new.text = Runs(text) /\ new.reported = FALSE /\ new.selected = FALSE
        /\ NoQuery.text = None
    BY DEF NoQuery
  <2>3. new \in Queries
    BY DEF NoQuery, Queries, Runs
  <2>4. text \in Valid => new # NoQuery
    BY <2>1, <2>2 DEF Runs
  <2>5. text \notin Valid => new = NoQuery
    <3>. SUFFICES ASSUME text \notin Valid PROVE new = NoQuery
      OBVIOUS
    <3>1. Runs(text) = None
      BY DEF Runs
    <3>2. NoQuery \in Queries /\ NoQuery.selected = FALSE /\ NoQuery.reported = FALSE
      BY DEF NoQuery, Queries
    <3>. HIDE DEF new
    <3>. QED  BY <2>2, <2>3, <3>1, <3>2, SameQuery
  <2>. QED  BY <2>1, <2>2, <2>3, <2>4, <2>5
<1>2. CASE Replays(text)
  <2>1. /\ cur' = [cur EXCEPT !.reported = TRUE]
        /\ pending' = FullReport(g, cur)
    BY <1>2 DEF ChangeQuery
  <2>2. cur.text = text /\ text \in Valid
    BY <1>1, <1>2 DEF Replays, Queries
  <2>3. cur'.text = Runs(text) /\ cur'.reported
    BY <1>1, <2>1, <2>2 DEF Runs, Queries
  <2>4. g = gen => cur.text \in {None, asked}
    BY <2>2
  <2>5. \A k : /\ g # gen => Clean(k, FullReport(g, cur))
               /\ g = gen /\ k \in Reported => ~Clean(k, FullReport(g, cur))
               /\ g = gen /\ k \in {"total", "viewport"} => Ends(k, cur.text, FullReport(g, cur))
    BY <1>1, <2>4, FullCounts
  <2>6. cur' # NoQuery
    BY <2>3 DEF NoQuery
  <2>7. cur'.text = cur.text
    BY <2>2, <2>3 DEF Runs
  <2>. QED  BY <2>1, <2>3, <2>5, <2>6, <2>7
<1>3. CASE ~Replays(text) /\ Clears(text)
  <2>1. cur' = new /\ pending' = ClearedReport(g)
    BY <1>3 DEF ChangeQuery
  <2>2. \A k : /\ g # gen => Clean(k, ClearedReport(g))
               /\ g = gen /\ k \in Reported => ~Clean(k, ClearedReport(g))
               /\ g = gen /\ k \in {"total", "viewport"} => Ends(k, None, ClearedReport(g))
    BY ClearedCounts
  <2>3. asked \notin Valid /\ g = gen => new.text = None
    BY <1>1 DEF Runs
  <2>. HIDE DEF new
  <2>4. asked \in Valid /\ g = gen => asked # None /\ cur' # NoQuery /\ ~cur'.reported
    BY <1>1, <2>1
  <2>. QED  BY <1>1, <2>1, <2>2, <2>3, <2>4
<1>4. CASE ~Replays(text) /\ ~Clears(text)
  <2>1. IF new = NoQuery THEN UNCHANGED <<cur, pending>> ELSE Report(g, new)
    BY <1>4 DEF ChangeQuery
  <2>2. cur = NoQuery /\ text \notin Invalid
    BY <1>4 DEF Clears
  <2>. HIDE DEF new
  <2>3. CASE new = NoQuery
    <3>1. text = None /\ cur' = NoQuery /\ pending' = <<>>
      BY <1>1, <2>1, <2>2, <2>3 DEF Texts
    <3>2. cur'.text = Runs(text)
      BY <1>1, <3>1 DEF NoQuery, Runs
    <3>. QED  BY <1>1, <2>2, <3>1, <3>2, CountsNone
  <2>4. CASE new # NoQuery
    <3>1. cur' = [new EXCEPT !.reported = TRUE] /\ pending' = FirstReport(g, new)
      BY <2>1, <2>4 DEF Report
    <3>2. cur'.text = Runs(text) /\ cur'.reported
      BY <1>1, <3>1 DEF Queries
    <3>3. \A k : /\ g # gen => Clean(k, FirstReport(g, new))
                 /\ g = gen /\ k \in {"total", "viewport"} => Ends(k, new.text, FirstReport(g, new))
      <4>1. g = gen => new.text \in {None, asked}
        BY <1>1 DEF Runs
      <4>. QED  BY <1>1, <4>1, FirstCounts
    <3>4. cur' # NoQuery
      BY <3>2 DEF NoQuery
    <3>5. cur'.text = new.text
      BY <1>1, <3>2
    <3>. QED  BY <2>2, <3>1, <3>2, <3>3, <3>4, <3>5
  <2>. QED  BY <2>3, <2>4
<1>. QED  BY <1>2, <1>3, <1>4

\* What a report of the running query says, sent by select or by a slice of work.
LEMMA QueryReported ==
  ASSUME IInv, OrderInv, NEW q \in Queries, q.text = cur.text, Report(eventGen, q)
  PROVE  /\ cur'.text = cur.text /\ cur'.reported /\ cur' # NoQuery
         /\ eventGen # gen => \A k : Clean(k, pending')
         /\ eventGen = gen => \A k \in {"total", "viewport"} : Ends(k, cur'.text, pending')
<1>1. cur' = [q EXCEPT !.reported = TRUE] /\ pending' = FirstReport(eventGen, q)
  BY DEF Report
<1>2. cur'.text = cur.text /\ cur'.reported
  BY <1>1 DEF Queries
<1>3. cur' # NoQuery
  BY <1>2 DEF NoQuery
<1>4. eventGen \in 0..gen /\ (eventGen = gen => q.text \in {None, asked})
  BY DEF IInv, Running
<1>. QED  BY <1>1, <1>2, <1>3, <1>4, FirstCounts

\* QuerySearch.select.
LEMMA Selected ==
  ASSUME IInv, OrderInv, Select, pending = <<>>
  PROVE  /\ cur'.text = cur.text
         /\ cur = NoQuery <=> cur' = NoQuery
         /\ eventGen # gen => \A k : Clean(k, pending')
         /\ \/ \A k \in {"total", "viewport"} : Ends(k, cur'.text, pending')
            \/ eventGen # gen
            \/ /\ \A k \in {"total", "viewport"} : Clean(k, pending')
               /\ (cur' # NoQuery /\ ~cur'.reported) <=> (cur # NoQuery /\ ~cur.reported)
<1>. DEFINE q == [cur EXCEPT !.selected = @ \/ cur.text \in Matching]
<1>1. cur \in Queries
  BY DEF IInv, Running
<1>2. q \in Queries /\ q.text = cur.text /\ q.reported = cur.reported
  BY <1>1 DEF Queries
<1>3. CASE cur = NoQuery /\ UNCHANGED <<cur, pending>>
  BY <1>3, CountsNone
<1>4. CASE cur # NoQuery /\ ~cur.reported /\ Report(eventGen, q)
  <2>. HIDE DEF q
  <2>. QED  BY <1>2, <1>4, QueryReported
<1>5. CASE /\ cur # NoQuery /\ cur.reported
           /\ cur' = q
           /\ pending' = IF q.selected THEN Highlight(eventGen, q.text) ELSE <<>>
  <2>. HIDE DEF q
  <2>1. \A k : eventGen # gen \/ k \in {"total", "viewport"} => Clean(k, pending')
    BY <1>5, HighlightCounts, CountsNone
  <2>2. cur'.reported
    BY <1>2, <1>5
  <2>3. cur' # NoQuery
    BY <2>2 DEF NoQuery
  <2>. QED  BY <1>2, <1>5, <2>1, <2>2, <2>3
<1>. QED  BY <1>3, <1>4, <1>5 DEF Select

\* A pattern that failed: everything is reported as none.
LEMMA Failed ==
  ASSUME IInv, NEW g \in 0..gen, NEW text, Fails(g, text)
  PROVE  /\ cur' = NoQuery /\ cur'.text = None /\ text \in Failing
         /\ g # gen => \A k : Clean(k, pending')
         /\ g = gen => \A k \in {"total", "viewport"} : Ends(k, cur'.text, pending')
<1>1. cur' = NoQuery /\ pending' = ClearedReport(g) /\ text \in Failing
  BY DEF Fails
<1>2. cur'.text = None
  BY <1>1 DEF NoQuery
<1>. QED  BY <1>1, <1>2, ClearedCounts

\* A thread that takes an order: the query in force runs once it was taken.
LEMMA OrderHandled ==
  ASSUME IInv, OrderInv, ThreadHandles
  PROVE  OrderInv'
<1>. DEFINE m == Head(toSearch)
<1>1. /\ toSearch # <<>> /\ toSearch' = Tail(toSearch) /\ gen' = gen /\ asked' = asked
      /\ search = "on" /\ search' = "on" /\ pending = <<>> /\ m \in Orders
  BY OrderTaken DEF ThreadHandles, Free
<1>2. \A i, j \in DOMAIN toSearch' :
         i < j /\ toSearch'[i].kind = "query" /\ toSearch'[j].kind = "query"
            => toSearch'[i].gen # gen'
  <2>. SUFFICES ASSUME NEW i \in DOMAIN toSearch', NEW j \in DOMAIN toSearch', i < j,
                       toSearch'[i].kind = "query", toSearch'[j].kind = "query"
                PROVE  toSearch'[i].gen # gen
    BY <1>1
  <2>1. i + 1 \in DOMAIN toSearch /\ j + 1 \in DOMAIN toSearch /\ i + 1 < j + 1
    BY <1>1, OrderTaken
  <2>2. toSearch'[i] = toSearch[i + 1] /\ toSearch'[j] = toSearch[j + 1]
    BY <1>1, OrderTaken
  <2>. QED  BY <2>1, <2>2 DEF OrderInv
<1>3. /\ m.kind = "query" => eventGen # gen
      /\ m.kind = "query" /\ m.gen = gen =>
            \A i \in DOMAIN toSearch' : toSearch'[i].kind # "query"
      /\ m.kind = "query" /\ m.gen # gen => Asking'
      /\ m.kind # "query" => (Asking' <=> Asking)
  BY <1>1, QueryTaken
<1>4. CASE m.kind = "query" /\ eventGen' = m.gen /\ ChangeQuery(m.gen, m.of)
  <2>1. /\ m.gen \in 0..gen /\ m.of \in Texts \cup {None}
        /\ m.gen = gen => m.of = asked
    BY <1>1, <1>4 DEF Orders, IInv, Steady
  <2>2. m.gen = gen => cur'.text = Runs(asked)
    BY <1>1, <1>4, <2>1, QueryChanged
  <2>. HIDE DEF m
  <2>3. eventGen' = gen' => cur'.text = Runs(asked')
    BY <1>1, <1>4, <2>2
  <2>4. eventGen' = gen' => \A i \in DOMAIN toSearch' : toSearch'[i].kind # "query"
    BY <1>1, <1>3, <1>4
  <2>5. eventGen' = gen' \/ Asking'
    BY <1>1, <1>3, <1>4
  <2>. QED  BY <1>1, <1>2, <2>3, <2>4, <2>5 DEF OrderInv
<1>5. CASE m.kind = "select" /\ eventGen' = eventGen /\ Select
  <2>1. cur'.text = cur.text
    BY <1>1, <1>5, Selected
  <2>2. eventGen = gen => \A i \in DOMAIN toSearch' : toSearch'[i].kind # "query"
    BY <1>1, OrderTaken DEF OrderInv
  <2>. HIDE DEF m
  <2>3. eventGen' = gen' \/ Asking'
    BY <1>1, <1>3, <1>5 DEF OrderInv
  <2>4. eventGen' = gen' => cur'.text = Runs(asked') \/ (cur'.text = None /\ asked' \in Failing)
    BY <1>1, <1>5, <2>1 DEF OrderInv
  <2>5. eventGen' = gen' => \A i \in DOMAIN toSearch' : toSearch'[i].kind # "query"
    BY <1>1, <1>5, <2>2
  <2>. QED  BY <1>1, <1>2, <2>3, <2>4, <2>5 DEF OrderInv
<1>6. None \notin Failing
  BY SearchAssumption DEF Texts
<1>7. CASE m.kind = "query" /\ eventGen' = m.gen /\ Fails(m.gen, Runs(m.of))
  <2>1. m.gen \in 0..gen /\ (m.gen = gen => m.of = asked)
    BY <1>1, <1>7 DEF Orders, IInv, Steady
  <2>2. cur'.text = None /\ Runs(m.of) \in Failing
    BY <1>7, <2>1, Failed
  <2>3. m.of \in Failing
    BY <1>6, <2>2 DEF Runs
  <2>. HIDE DEF m
  <2>4. eventGen' = gen' => cur'.text = None /\ asked' \in Failing
    BY <1>1, <1>7, <2>1, <2>2, <2>3
  <2>5. eventGen' = gen' => \A i \in DOMAIN toSearch' : toSearch'[i].kind # "query"
    BY <1>1, <1>3, <1>7
  <2>6. eventGen' = gen' \/ Asking'
    BY <1>1, <1>3, <1>7
  <2>. QED  BY <1>1, <1>2, <2>4, <2>5, <2>6 DEF OrderInv
<1>8. CASE m.kind = "select" /\ eventGen' = eventGen /\ Fails(eventGen, cur.text)
  <2>1. cur'.text = None /\ cur.text \in Failing
    BY <1>8, Failed DEF IInv, Running
  <2>2. eventGen = gen => \A i \in DOMAIN toSearch' : toSearch'[i].kind # "query"
    BY <1>1, OrderTaken DEF OrderInv
  <2>. HIDE DEF m
  <2>3. eventGen' = gen' \/ Asking'
    BY <1>1, <1>3, <1>8 DEF OrderInv
  <2>4. eventGen' = gen' => asked' \in Failing
    BY <1>1, <1>6, <1>8, <2>1 DEF OrderInv, Runs
  <2>5. eventGen' = gen' => \A i \in DOMAIN toSearch' : toSearch'[i].kind # "query"
    BY <1>1, <1>8, <2>2
  <2>. QED  BY <1>1, <1>2, <2>1, <2>3, <2>4, <2>5 DEF OrderInv
<1>. QED  BY <1>4, <1>5, <1>7, <1>8 DEF ThreadHandles

\* Every action keeps the query in force the last of the orders.
LEMMA OrderKept ==
  ASSUME IInv, OrderInv, Next
  PROVE  OrderInv'
<1>1. ASSUME NEW text \in Texts, SetQuery(text) PROVE OrderInv'
  BY <1>1, OrderAdded DEF SetQuery, thread
<1>2. CASE Invalidate
  BY <1>2, OrderAdded DEF Invalidate, thread
<1>3. CASE Navigate
  <2>. DEFINE m == Event("select", 0, None)
              n == Len(toSearch) + 1
  <2>1. /\ n \in DOMAIN toSearch' /\ toSearch'[n] = m /\ n \in Nat
        /\ \A i \in DOMAIN toSearch' : i = n \/ i \in DOMAIN toSearch
        /\ \A i \in DOMAIN toSearch : i \in DOMAIN toSearch' /\ toSearch'[i] = toSearch[i] /\ i < n
    <3>1. toSearch \in Seq(Orders) /\ Len(toSearch) \in Nat /\ DOMAIN toSearch = 1..Len(toSearch)
      BY DEF IInv, OnTheWay
    <3>2. /\ DOMAIN toSearch' = 1..(Len(toSearch) + 1)
          /\ \A i \in DOMAIN toSearch : toSearch'[i] = toSearch[i]
          /\ toSearch'[Len(toSearch) + 1] = m
      BY <1>3, <3>1 DEF Navigate
    <3>. QED  BY <3>1, <3>2
  <2>2. m.kind # "query"
    BY DEF Event
  <2>3. /\ gen' = gen /\ asked' = asked /\ search' = search /\ eventGen' = eventGen /\ cur' = cur
    BY <1>3 DEF Navigate, thread
  <2>. HIDE DEF m, n
  <2>4. Asking' <=> Asking
    BY <2>1, <2>2, <2>3 DEF Asking
  <2>. QED  BY <2>1, <2>2, <2>3, <2>4 DEF OrderInv
<1>4. CASE EndBegins
  <2>1. gen' = gen + 1 /\ asked' = None /\ search' = "stopping" /\ toSearch' = toSearch
        /\ eventGen' = eventGen
    BY <1>4 DEF EndBegins, thread
  <2>. QED  BY <2>1, OlderThanNew DEF OrderInv
<1>5. CASE EndJoins
  <2>1. /\ gen' = gen /\ asked' = asked /\ search = "stopping" /\ search' = "off"
        /\ toSearch' = <<>> /\ cur' = NoQuery
    BY <1>5 DEF EndJoins
  <2>2. asked = None
    BY <2>1 DEF OrderInv
  <2>3. Runs(None) = None /\ NoQuery.text = None
    BY SearchAssumption DEF Runs, Texts, NoQuery
  <2>4. DOMAIN toSearch' = {}
    BY <2>1
  <2>. QED  BY <2>1, <2>2, <2>3, <2>4 DEF OrderInv
<1>6. CASE ThreadHandles
  BY <1>6, OrderHandled
<1>7. CASE ThreadProgresses
  <2>1. /\ search = "on" /\ cur \in Queries /\ eventGen \in 0..gen
        /\ UNCHANGED <<gen, asked, search, toSearch, eventGen>>
    BY <1>7 DEF ThreadProgresses, Free, IInv, Running
  <2>2. CASE Report(eventGen, cur)
    <3>1. cur'.text = cur.text
      BY <2>1, <2>2, QueryReported
    <3>. QED  BY <2>1, <3>1 DEF OrderInv, Asking
  <2>3. CASE Fails(eventGen, cur.text)
    <3>1. cur'.text = None /\ cur.text \in Failing /\ None \notin Failing
      BY <2>1, <2>3, Failed, SearchAssumption DEF Texts
    <3>2. eventGen = gen => asked \in Failing
      BY <3>1 DEF OrderInv, Runs
    <3>. QED  BY <2>1, <3>1, <3>2 DEF OrderInv, Asking
  <2>. QED  BY <1>7, <2>2, <2>3 DEF ThreadProgresses
<1>8. CASE UNCHANGED <<gen, asked, search, toSearch, eventGen, cur>>
  BY <1>8 DEF OrderInv, Asking
<1>. QED
  BY <1>1, <1>2, <1>3, <1>4, <1>5, <1>6, <1>7, <1>8
      DEF Next, AppHandles, ThreadEmits, ThreadPushes, RenChecks, RenApplies, thread

\* A report that counts is the running thread's, whatever happens.
LEMMA LiveKept ==
  ASSUME IInv, OrderInv, LiveInv, Next
  PROVE  LiveInv'
<1>. SUFFICES ASSUME NEW k \in Reported, ~(eventGen = gen /\ search = "on")'
              PROVE  Clean(k, pending)' /\ ~Counts(k, inflight)' /\ Clean(k, toApp)'
  BY DEF LiveInv
<1>0. k # None
  BY DEF Reported, None
<1>1. CASE gen' = gen + 1 /\ UNCHANGED <<pending, inflight, toApp>>
  BY <1>1, OlderThanNew DEF Clean, Counts
<1>2. CASE EndJoins
  BY <1>2, <1>0 DEF EndJoins, LiveInv, Clean, Counts, NoEvent
<1>3. CASE UNCHANGED <<gen, search, eventGen, pending, inflight, toApp>>
  BY <1>3 DEF LiveInv, Clean, Counts
<1>4. CASE AppHandles
  <2>1. /\ gen' = gen /\ search' = search /\ eventGen' = eventGen /\ pending' = pending
        /\ inflight' = inflight /\ toApp # <<>> /\ toApp' = Tail(toApp) /\ toApp \in Seq(Reports)
    BY <1>4 DEF AppHandles, thread, IInv, OnTheWay
  <2>2. Clean(k, pending) /\ ~Counts(k, inflight) /\ Clean(k, toApp)
    BY <2>1 DEF LiveInv
  <2>3. Clean(k, Tail(toApp))
    BY <2>1, <2>2, CountsTail
  <2>. QED  BY <2>1, <2>2, <2>3 DEF Clean, Counts
<1>5. CASE ThreadHandles
  <2>. DEFINE m == Head(toSearch)
  <2>1. /\ toSearch # <<>> /\ toSearch' = Tail(toSearch) /\ gen' = gen /\ search = "on" /\ search' = "on"
        /\ pending = <<>> /\ inflight = NoEvent /\ inflight' = inflight /\ toApp' = toApp
        /\ m \in Orders /\ eventGen' # gen
    BY <1>5, OrderTaken DEF ThreadHandles, Free
  <2>2. eventGen # gen
    <3>1. m.kind = "query" => eventGen # gen
      BY <2>1, QueryTaken
    <3>2. m.kind = "query" \/ eventGen' = eventGen
      BY <1>5 DEF ThreadHandles
    <3>. QED  BY <2>1, <3>1, <3>2
  <2>3. Clean(k, pending')
    <3>1. CASE m.kind = "query" /\ eventGen' = m.gen /\ ChangeQuery(m.gen, m.of)
      <4>1. /\ m.gen \in 0..gen /\ m.of \in Texts \cup {None} /\ m.gen # gen
        BY <2>1, <3>1 DEF Orders, IInv, Steady
      <4>. QED  BY <2>1, <3>1, <4>1, QueryChanged
    <3>2. CASE Select
      BY <2>1, <2>2, <3>2, Selected
    <3>3. CASE m.kind = "query" /\ eventGen' = m.gen /\ Fails(m.gen, Runs(m.of))
      <4>1. m.gen \in 0..gen /\ m.gen # gen
        BY <2>1, <3>3 DEF Orders, IInv, Steady
      <4>. QED  BY <3>3, <4>1, Failed
    <3>4. CASE Fails(eventGen, cur.text)
      BY <2>2, <3>4, Failed DEF IInv, Running
    <3>. QED  BY <1>5, <3>1, <3>2, <3>3, <3>4 DEF ThreadHandles
  <2>4. Clean(k, toApp)
    BY <2>2 DEF LiveInv
  <2>. QED  BY <1>0, <2>1, <2>3, <2>4 DEF Clean, Counts, NoEvent
<1>6. CASE ThreadProgresses
  <2>1. /\ gen' = gen /\ search = "on" /\ search' = "on" /\ eventGen' = eventGen
        /\ inflight = NoEvent /\ inflight' = inflight /\ toApp' = toApp
        /\ cur \in Queries /\ eventGen \in 0..gen
        /\ Report(eventGen, cur) \/ Fails(eventGen, cur.text)
    BY <1>6 DEF ThreadProgresses, Free, IInv, Running
  <2>2. Clean(k, pending') /\ Clean(k, toApp)
    BY <2>1, QueryReported, Failed DEF LiveInv
  <2>. QED  BY <1>0, <2>1, <2>2 DEF Clean, Counts, NoEvent
<1>7. CASE ThreadEmits
  <2>1. /\ gen' = gen /\ search' = search /\ eventGen' = eventGen /\ toApp' = toApp
        /\ pending # <<>> /\ pending' = Tail(pending) /\ pending \in Seq(Reports)
        /\ inflight' \in {NoEvent, Head(pending)}
    BY <1>7 DEF ThreadEmits, IInv, OnTheWay
  <2>2. Clean(k, pending) /\ Clean(k, toApp)
    BY <2>1 DEF LiveInv
  <2>3. Clean(k, Tail(pending)) /\ ~Counts(k, Head(pending))
    BY <2>1, <2>2, CountsTail
  <2>. QED  BY <1>0, <2>1, <2>2, <2>3 DEF Clean, Counts, NoEvent
<1>8. CASE ThreadPushes
  <2>1. /\ gen' = gen /\ search' = search /\ eventGen' = eventGen /\ pending' = pending
        /\ inflight' = NoEvent /\ toApp' \in {toApp, Append(toApp, inflight)}
        /\ inflight \in Reports /\ toApp \in Seq(Reports)
    BY <1>8 DEF ThreadPushes, IInv, OnTheWay
  <2>2. Clean(k, pending) /\ Clean(k, toApp) /\ ~Counts(k, inflight)
    BY <2>1 DEF LiveInv
  <2>3. Clean(k, Append(toApp, inflight))
    BY <2>1, <2>2, CountsAppend
  <2>. QED  BY <1>0, <2>1, <2>2, <2>3 DEF Clean, Counts, NoEvent
<1>. QED
  BY <1>1, <1>2, <1>3, <1>4, <1>5, <1>6, <1>7, <1>8
      DEF Next, SetQuery, Navigate, Invalidate, EndBegins, RenChecks, RenApplies, thread

-----------------------------------------------------------------------------
(* What comes last is of the query asked for *)

\* What is on its way, once the app thread and the renderer have taken it over.
OnScreen == <<bar, toRen, accepted, shown>>
ToScreen == <<pending, inflight, toApp, OnScreen>>

\* A step that leaves alone what is on its way and shown.
LEMMA FollowsStays ==
  ASSUME gen' = gen, UNCHANGED ToScreen, NEW k, NEW w, Follows(k, w)
  PROVE  Follows(k, w)'
BY DEF ToScreen, OnScreen, Follows, Ends, Clean, Counts, Wanted, Arrived, Drawn, Draws

\* A report that says what was found.
LEMMA FollowsReport ==
  ASSUME gen' = gen, NEW k, NEW w, Ends(k, w, pending')
  PROVE  Follows(k, w)'
BY DEF Follows, Ends, Counts, Wanted

\* A report that does not count.
LEMMA FollowsOther ==
  ASSUME gen' = gen, pending = <<>>, inflight' = inflight, toApp' = toApp,
         UNCHANGED OnScreen, NEW k, NEW w, Clean(k, pending'), Follows(k, w)
  PROVE  Follows(k, w)'
<1>1. ~Ends(k, w, pending)
  BY DEF Ends
<1>2. \/ Counts(k, inflight) /\ inflight.of = Wanted(k, w)
      \/ ~Counts(k, inflight) /\ (Ends(k, w, toApp) \/ (Clean(k, toApp) /\ Arrived(k, w)))
  BY <1>1 DEF Follows
<1>3. Clean(k, pending)'
  BY DEF Clean, Counts
<1>. QED
  BY <1>2, <1>3 DEF OnScreen, Follows, Ends, Clean, Counts, Wanted, Arrived, Drawn, Draws

\* The bar and the renderer are cleared, and nothing that counts is on its way.
LEMMA FollowsCleared ==
  ASSUME IInv, bar' = BarCleared,
         toRen' = Append(toRen, Event("clear", gen', None)), NEW k \in {"total", "viewport"},
         NEW w, w = None,
         Clean(k, pending)', ~Counts(k, inflight)', Clean(k, toApp)'
  PROVE  Follows(k, w)'
<1>1. Found(w) = None
  BY DEF Found
<1>2. bar'.total = None
  BY DEF BarCleared
<1>. DEFINE n == Len(toRen) + 1
            e == Event("clear", gen', None)
<1>3. n \in DOMAIN toRen' /\ toRen'[n] = e /\ \A j \in DOMAIN toRen' : ~(j > n)
  <2>1. toRen \in Seq(Updates) /\ Len(toRen) \in Nat
    BY DEF IInv, OnTheWay
  <2>2. DOMAIN toRen' = 1..(Len(toRen) + 1) /\ toRen'[Len(toRen) + 1] = e
    BY <2>1
  <2>. QED  BY <2>1, <2>2
<1>4. e.kind = "clear" /\ e.gen = gen' /\ e.of = None
  BY DEF Event
<1>. HIDE DEF n, e
<1>5. Drawn(w)'
  BY <1>1, <1>3, <1>4 DEF Drawn, Draws, Counts
<1>. QED  BY <1>1, <1>2, <1>5 DEF Follows, Arrived

\* An event that counts as it is emitted is pushed.
LEMMA FollowsEmitted ==
  ASSUME IInv, LiveInv, ThreadEmits, NEW k \in {"total", "viewport"}, NEW w, Follows(k, w)
  PROVE  Follows(k, w)'
<1>. DEFINE e == Head(pending)
            t == Tail(pending)
<1>1. /\ gen' = gen /\ asked' = asked /\ toApp' = toApp /\ UNCHANGED OnScreen
      /\ pending # <<>> /\ pending' = t /\ pending \in Seq(Reports) /\ inflight = NoEvent
      /\ inflight' = IF search = "on" /\ Accept(e) THEN e ELSE NoEvent
  BY DEF ThreadEmits, IInv, OnTheWay, OnScreen
<1>2. /\ Clean(k, pending) => Clean(k, t) /\ ~Counts(k, e)
      /\ Ends(k, w, pending) => Ends(k, w, t) \/ (Clean(k, t) /\ Counts(k, e) /\ e.of = Wanted(k, w))
      /\ ~Counts(k, e) /\ Clean(k, t) => Clean(k, pending)
  BY <1>1, CountsTail
<1>3. ~Counts(k, NoEvent)
  BY DEF Counts, NoEvent, None
<1>4. Counts(k, e) => inflight' = e
  <2>1. Counts(k, e) => ~Clean(k, pending)
    BY <1>2
  <2>2. Counts(k, e) => search = "on"
    BY <2>1 DEF LiveInv, Reported
  <2>. QED  BY <1>1, <2>2 DEF Counts, Accept
<1>. HIDE DEF e, t
<1>5. ~Counts(k, e) => ~Counts(k, inflight')
  BY <1>1, <1>3
<1>6. \/ Ends(k, w, t)
      \/ /\ Clean(k, t)
         /\ \/ Counts(k, inflight') /\ inflight'.of = Wanted(k, w)
            \/ ~Counts(k, inflight') /\ (Ends(k, w, toApp) \/ (Clean(k, toApp) /\ Arrived(k, w)))
  <2>1. CASE Ends(k, w, pending)
    BY <1>2, <1>4, <2>1
  <2>2. CASE ~Ends(k, w, pending)
    BY <1>1, <1>2, <1>3, <1>5, <2>2 DEF Follows
  <2>. QED  BY <2>1, <2>2
<1>. QED
  BY <1>1, <1>6 DEF OnScreen, Follows, Ends, Clean, Counts, Wanted, Arrived, Drawn, Draws

\* An event that counts is pushed behind the others.
LEMMA FollowsPushed ==
  ASSUME IInv, LiveInv, ThreadPushes, NEW k \in {"total", "viewport"}, NEW w, Follows(k, w)
  PROVE  Follows(k, w)'
<1>1. /\ gen' = gen /\ asked' = asked /\ pending' = pending /\ UNCHANGED OnScreen
      /\ inflight' = NoEvent /\ inflight \in Reports /\ toApp \in Seq(Reports)
      /\ toApp' = Append(toApp, inflight) \/ (search = "stopping" /\ toApp' = toApp)
  BY DEF ThreadPushes, IInv, OnTheWay, OnScreen
<1>2. /\ Clean(k, toApp) /\ ~Counts(k, inflight) => Clean(k, Append(toApp, inflight))
      /\ Ends(k, w, toApp) /\ ~Counts(k, inflight) => Ends(k, w, Append(toApp, inflight))
      /\ Counts(k, inflight) /\ inflight.of = Wanted(k, w) => Ends(k, w, Append(toApp, inflight))
  BY <1>1, CountsAppend
<1>3. ~Counts(k, NoEvent)
  BY DEF Counts, NoEvent, None
<1>4. Counts(k, inflight) => search = "on"
  BY DEF LiveInv, Reported
<1>5. Counts(k, inflight) => toApp' = Append(toApp, inflight)
  BY <1>1, <1>4
<1>6. \/ Ends(k, w, pending')
      \/ /\ Clean(k, pending') /\ ~Counts(k, inflight')
         /\ Ends(k, w, toApp') \/ (Clean(k, toApp') /\ Arrived(k, w))
  BY <1>1, <1>2, <1>3, <1>5 DEF Follows
<1>. QED
  BY <1>1, <1>6 DEF OnScreen, Follows, Ends, Clean, Counts, Wanted, Arrived, Drawn, Draws

\* One message more for the renderer.
LEMMA DrawnSent ==
  ASSUME IInv, NEW w, NEW e \in Updates, toRen' = Append(toRen, e), gen' = gen,
         accepted' = accepted, shown' = shown
  PROVE  /\ Draws(e) /\ e.of = Found(w) => Drawn(w)'
         /\ ~Draws(e) /\ Drawn(w) => Drawn(w)'
<1>. DEFINE n == Len(toRen) + 1
<1>1. /\ n \in DOMAIN toRen' /\ toRen'[n] = e
      /\ \A j \in DOMAIN toRen' : ~(j > n) /\ (j = n \/ j \in DOMAIN toRen)
      /\ \A j \in DOMAIN toRen : j \in DOMAIN toRen' /\ toRen'[j] = toRen[j] /\ j < n
  <2>1. toRen \in Seq(Updates) /\ Len(toRen) \in Nat /\ DOMAIN toRen = 1..Len(toRen)
    BY DEF IInv, OnTheWay
  <2>2. /\ DOMAIN toRen' = 1..(Len(toRen) + 1) /\ toRen'[Len(toRen) + 1] = e
        /\ \A j \in DOMAIN toRen : toRen'[j] = toRen[j]
    BY <2>1
  <2>. QED  BY <2>1, <2>2
<1>. HIDE DEF n
<1>2. ASSUME Draws(e), e.of = Found(w) PROVE Drawn(w)'
  BY <1>1, <1>2 DEF Drawn, Draws, Counts, Wanted
<1>3. ASSUME ~Draws(e), Drawn(w) PROVE Drawn(w)'
  <2>1. CASE \E i \in DOMAIN toRen : /\ Draws(toRen[i]) /\ toRen[i].of = Found(w)
                                     /\ \A j \in DOMAIN toRen : j > i => ~Draws(toRen[j])
    BY <1>1, <1>3, <2>1 DEF Drawn, Draws, Counts, Wanted
  <2>2. CASE /\ \A i \in DOMAIN toRen : ~Draws(toRen[i])
             /\ IF accepted.kind \in {"viewport", "clear"}
                THEN accepted.of = Found(w)
                ELSE shown.viewport = Found(w)
    BY <1>1, <1>3, <2>2 DEF Drawn, Draws, Counts, Wanted
  <2>. QED  BY <1>3, <2>1, <2>2 DEF Drawn
<1>. QED  BY <1>2, <1>3

\* The app thread hands on what counts, and only that.
LEMMA FollowsHandled ==
  ASSUME IInv, AppHandles, NEW k \in {"total", "viewport"}, NEW w, Follows(k, w)
  PROVE  Follows(k, w)'
<1>. DEFINE e == Head(toApp)
            t == Tail(toApp)
<1>1. /\ gen' = gen /\ asked' = asked /\ pending' = pending /\ inflight' = inflight
      /\ accepted' = accepted /\ shown' = shown
      /\ toApp # <<>> /\ toApp' = t /\ toApp \in Seq(Reports)
      /\ e \in Reports /\ e \in Results
  BY HeadTailProperties DEF AppHandles, thread, IInv, OnTheWay, Reports
<1>2. /\ Clean(k, toApp) => Clean(k, t) /\ ~Counts(k, e)
      /\ Ends(k, w, toApp) => Ends(k, w, t) \/ (Clean(k, t) /\ Counts(k, e) /\ e.of = Wanted(k, w))
  BY <1>1, CountsTail
<1>3. \/ ~Accept(e) /\ bar' = bar /\ toRen' = toRen
      \/ Accept(e) /\ e.kind \in {"viewport", "match"} /\ toRen' = Append(toRen, e) /\ bar' = bar
      \/ /\ Accept(e) /\ e.kind \in {"total", "rows", "selected"}
         /\ bar' = [bar EXCEPT ![e.kind] = e.of] /\ toRen' = toRen
  BY <1>1 DEF AppHandles, Results
<1>4. bar \in [{"total", "rows", "selected"} -> Shown]
  BY DEF IInv, Seen
<1>5. e.kind \in {"viewport", "match"} => e \in Updates
  BY <1>1 DEF Reports, Results, Updates
<1>. HIDE DEF e, t
<1>6. CASE k = "total"
  <2>1. Counts(k, e) => bar'.total = e.of
    BY <1>3, <1>4, <1>6 DEF Counts, Accept
  <2>2. ~Counts(k, e) => bar'.total = bar.total
    BY <1>3, <1>4, <1>6 DEF Counts, Accept
  <2>3. /\ Counts(k, e) /\ e.of = Wanted(k, w) => Arrived(k, w)'
        /\ ~Counts(k, e) /\ Arrived(k, w) => Arrived(k, w)'
    BY <1>1, <1>6, <2>1, <2>2 DEF Arrived, Wanted
  <2>. QED  BY <1>1, <1>2, <2>3 DEF Follows, Ends, Clean, Counts, Wanted
<1>7. CASE k = "viewport"
  <2>1. /\ Counts(k, e) /\ e.of = Wanted(k, w) => Drawn(w)'
        /\ ~Counts(k, e) /\ Drawn(w) => Drawn(w)'
    <3>1. CASE toRen' = toRen
      <4>1. ~Counts(k, e)
        BY <1>3, <1>7, <3>1, AppendProperties DEF Counts, Accept, IInv, OnTheWay
      <4>. QED  BY <1>1, <3>1, <4>1 DEF Drawn, Draws, Counts, Wanted
    <3>2. CASE Accept(e) /\ e.kind \in {"viewport", "match"} /\ toRen' = Append(toRen, e)
      <4>1. Draws(e) <=> Counts(k, e)
        BY <1>7, <3>2 DEF Draws, Counts
      <4>. QED  BY <1>1, <1>5, <1>7, <3>2, <4>1, DrawnSent DEF Wanted
    <3>. QED  BY <1>3, <3>1, <3>2
  <2>2. /\ Counts(k, e) /\ e.of = Wanted(k, w) => Arrived(k, w)'
        /\ ~Counts(k, e) /\ Arrived(k, w) => Arrived(k, w)'
    BY <1>7, <2>1 DEF Arrived
  <2>. QED  BY <1>1, <1>2, <2>2 DEF Follows, Ends, Clean, Counts, Wanted
<1>. QED  BY <1>6, <1>7

\* The renderer draws what counts.
LEMMA FollowsDrawn ==
  ASSUME IInv, RenChecks \/ RenApplies, NEW k \in {"total", "viewport"}, NEW w, Follows(k, w)
  PROVE  Follows(k, w)'
<1>1. /\ gen' = gen /\ asked' = asked /\ pending' = pending /\ inflight' = inflight
      /\ toApp' = toApp /\ bar' = bar
  BY DEF RenChecks, RenApplies, thread
<1>2. Drawn(w) => Drawn(w)'
  <2>1. CASE RenChecks
    <3>. DEFINE e == Head(toRen)
                t == Tail(toRen)
    <3>1. /\ toRen # <<>> /\ toRen' = t /\ toRen \in Seq(Updates) /\ e \in Updates
          /\ shown' = shown /\ accepted = NoEvent
          /\ accepted' = IF Accept(e) THEN e ELSE NoEvent
      BY <2>1, HeadTailProperties DEF RenChecks, IInv, OnTheWay
    <3>2. /\ e = toRen[1] /\ 1 \in DOMAIN toRen
          /\ \A i \in DOMAIN t : i + 1 \in DOMAIN toRen /\ t[i] = toRen[i + 1] /\ i \in Int
          /\ \A i \in DOMAIN toRen : i = 1 \/ (i - 1 \in DOMAIN t /\ t[i - 1] = toRen[i])
      BY <3>1, TailIs
    <3>3. Len(toRen) \in Nat /\ DOMAIN toRen = 1..Len(toRen)
      BY <3>1
    <3>. HIDE DEF e, t
    <3>4. CASE \A i \in DOMAIN toRen : ~Draws(toRen[i])
      <4>1. \A i \in DOMAIN t : ~Draws(t[i])
        BY <3>2, <3>4
      <4>2. ~Draws(e)
        BY <3>2, <3>4
      <4>3. NoEvent.kind \notin {"viewport", "clear"} /\ accepted'.kind \notin {"viewport", "clear"}
        BY <3>1, <4>2 DEF Draws, Counts, Accept, NoEvent, None
      <4>. QED  BY <1>1, <3>1, <3>4, <4>1, <4>3 DEF Drawn, Draws, Counts, Wanted
    <3>5. ASSUME NEW i \in DOMAIN toRen, Draws(toRen[i]), toRen[i].of = Found(w),
                 \A j \in DOMAIN toRen : j > i => ~Draws(toRen[j])
          PROVE  Drawn(w)'
      <4>1. CASE i = 1
        <5>1. \A j \in DOMAIN t : ~Draws(t[j])
          <6>1. \A j \in DOMAIN t : j + 1 > i
            BY <3>2, <3>3, <4>1
          <6>. QED  BY <3>2, <3>5, <6>1
        <5>2. accepted' = e /\ e.kind \in {"viewport", "clear"} /\ e.of = Found(w)
          BY <3>1, <3>2, <3>5, <4>1 DEF Draws, Counts, Accept
        <5>. QED  BY <1>1, <3>1, <5>1, <5>2 DEF Drawn, Draws, Counts, Wanted
      <4>2. CASE i # 1
        <5>1. i - 1 \in DOMAIN t /\ t[i - 1] = toRen[i]
          BY <3>2, <4>2
        <5>2. \A j \in DOMAIN t : j > i - 1 => j + 1 > i
          BY <3>2, <3>3
        <5>3. \A j \in DOMAIN t : j > i - 1 => ~Draws(t[j])
          BY <3>2, <3>5, <5>2
        <5>. QED  BY <1>1, <3>1, <3>5, <5>1, <5>3 DEF Drawn, Draws, Counts, Wanted
      <4>. QED  BY <4>1, <4>2
    <3>. QED  BY <3>4, <3>5 DEF Drawn
  <2>2. CASE RenApplies
    <3>1. /\ toRen' = toRen /\ accepted # NoEvent /\ accepted' = NoEvent /\ accepted \in Updates
          /\ shown \in [{"viewport", "match"} -> Shown]
      BY <2>2 DEF RenApplies, IInv, OnTheWay, Seen
    <3>2. /\ accepted.kind = "viewport" => shown'.viewport = accepted.of
          /\ accepted.kind = "match" => shown'.viewport = shown.viewport
          /\ accepted.kind = "clear" => shown'.viewport = accepted.of
      BY <2>2, <3>1 DEF RenApplies, Updates
    <3>3. NoEvent.kind \notin {"viewport", "clear"}
      BY DEF NoEvent, None
    <3>4. accepted.kind \in {"viewport", "match", "clear"}
      BY <3>1 DEF Updates
    <3>. QED  BY <1>1, <3>1, <3>2, <3>3, <3>4 DEF Drawn, Draws, Counts, Wanted
  <2>. QED  BY <2>1, <2>2
<1>3. Arrived(k, w) => Arrived(k, w)'
  BY <1>1, <1>2 DEF Arrived, Wanted
<1>. QED  BY <1>1, <1>3 DEF Follows, Ends, Clean, Counts, Wanted

\* Nothing is asked for, and nothing is to run.
LEMMA AnswerNone ==
  /\ OrderInv /\ asked = None => Answer = None
  /\ OrderInv' /\ asked' = None => Answer' = None
<1>1. Runs(None) = None /\ None \notin Failing
  BY SearchAssumption DEF Runs, Texts
<1>. QED  BY <1>1 DEF OrderInv, Answer

\* What follows is what is to run after the step, too.
LEMMA FollowsAnswer ==
  ASSUME NEW k, NEW w, w = Answer', Follows(k, w)'
  PROVE  Follows(k, Answer)'
BY DEF Follows, Ends, Wanted, Arrived, Drawn

\* The thread takes an order, or works: what it then reports comes last.
LEMMA FollowsThread ==
  ASSUME IInv, OrderInv, FollowInv, ThreadHandles \/ ThreadProgresses, ~Due', OrderInv',
         NEW k \in {"total", "viewport"}, NEW w, w = Answer'
  PROVE  Follows(k, w)'
<1>1. /\ gen' = gen /\ asked' = asked /\ search = "on" /\ search' = "on" /\ pending = <<>>
      /\ inflight' = inflight /\ toApp' = toApp /\ UNCHANGED OnScreen
  BY DEF ThreadHandles, ThreadProgresses, Free, OnScreen
<1>2. Ends(k, cur'.text, pending') /\ eventGen' = gen => Follows(k, w)'
  <2>1. eventGen' = gen => w = cur'.text
    BY <1>1 DEF Answer
  <2>. QED  BY <1>1, <2>1, FollowsReport
<1>3. Clean(k, pending') /\ ~Due /\ Answer = w => Follows(k, w)'
  <2>1. ~Due /\ Answer = w => Follows(k, w)
    BY DEF FollowInv
  <2>. QED  BY <1>1, <2>1, FollowsOther
<1>4. asked = None => ~Due /\ Answer = w
  BY <1>1, AnswerNone DEF Due
<1>5. asked # None => ~Asking' /\ (cur' = NoQuery \/ cur'.reported)
  BY <1>1 DEF Due
<1>6. CASE ThreadHandles
  <2>. DEFINE m == Head(toSearch)
  <2>1. toSearch # <<>> /\ toSearch' = Tail(toSearch) /\ m \in Orders
    BY <1>6, OrderTaken DEF ThreadHandles
  <2>2. /\ m.kind = "query" => eventGen # gen
        /\ m.kind = "query" /\ m.gen # gen => Asking'
        /\ m.kind # "query" => (Asking' <=> Asking)
    BY <1>1, <2>1, QueryTaken
  <2>3. CASE m.kind = "query" /\ eventGen' = m.gen /\ ChangeQuery(m.gen, m.of)
    <3>1. /\ m.gen \in 0..gen /\ m.of \in Texts \cup {None}
          /\ m.gen = gen => m.of = asked
      BY <2>1, <2>3 DEF Orders, IInv, Steady
    <3>2. /\ m.gen # gen => Clean(k, pending')
          /\ m.gen = gen => \/ Ends(k, cur'.text, pending')
                            \/ asked # None /\ cur' # NoQuery /\ ~cur'.reported
                            \/ asked = None /\ pending' = <<>>
      BY <1>1, <2>3, <3>1, QueryChanged
    <3>3. CASE m.gen # gen
      <4>1. asked = None
        BY <1>5, <2>2, <2>3, <3>3
      <4>. QED  BY <1>3, <1>4, <3>2, <3>3, <4>1
    <3>4. CASE m.gen = gen
      BY <1>2, <1>3, <1>4, <1>5, <2>3, <3>2, <3>4, CountsNone
    <3>. QED  BY <3>3, <3>4
  <2>4. CASE m.kind = "select" /\ eventGen' = eventGen /\ Select
    <3>1. /\ cur = NoQuery <=> cur' = NoQuery
          /\ cur'.text = cur.text
          /\ eventGen # gen => Clean(k, pending')
          /\ \/ Ends(k, cur'.text, pending')
             \/ eventGen # gen
             \/ /\ Clean(k, pending')
                /\ (cur' # NoQuery /\ ~cur'.reported) <=> (cur # NoQuery /\ ~cur.reported)
      BY <1>1, <2>4, Selected
    <3>2. CASE Ends(k, cur'.text, pending') /\ eventGen = gen
      BY <1>2, <2>4, <3>2
    <3>3. CASE eventGen # gen
      <4>1. Asking'
        BY <1>1, <2>2, <2>4, <3>3 DEF OrderInv
      <4>. QED  BY <1>3, <1>4, <1>5, <3>1, <3>3, <4>1
    <3>4. CASE /\ Clean(k, pending')
               /\ (cur' # NoQuery /\ ~cur'.reported) <=> (cur # NoQuery /\ ~cur.reported)
      <4>1. ~Due
        BY <1>1, <1>5, <2>2, <2>4, <3>4 DEF Due
      <4>2. Answer = w
        BY <1>1, <2>4, <3>1 DEF Answer
      <4>. QED  BY <1>3, <3>4, <4>1, <4>2
    <3>. QED  BY <3>1, <3>2, <3>3, <3>4
  <2>5. CASE m.kind = "query" /\ eventGen' = m.gen /\ Fails(m.gen, Runs(m.of))
    <3>1. m.gen \in 0..gen
      BY <2>1, <2>5 DEF Orders, IInv, Steady
    <3>2. /\ m.gen # gen => Clean(k, pending')
          /\ m.gen = gen => Ends(k, cur'.text, pending')
      BY <2>5, <3>1, Failed
    <3>3. CASE m.gen # gen
      <4>1. asked = None
        BY <1>5, <2>2, <2>5, <3>3
      <4>. QED  BY <1>3, <1>4, <3>2, <3>3, <4>1
    <3>4. CASE m.gen = gen
      BY <1>2, <2>5, <3>2, <3>4
    <3>. QED  BY <3>3, <3>4
  <2>6. CASE m.kind = "select" /\ eventGen' = eventGen /\ Fails(eventGen, cur.text)
    <3>1. /\ eventGen # gen => Clean(k, pending')
          /\ eventGen = gen => Ends(k, cur'.text, pending')
      BY <2>6, Failed DEF IInv, Running
    <3>2. CASE eventGen # gen
      <4>1. Asking'
        BY <1>1, <2>2, <2>6, <3>2 DEF OrderInv
      <4>. QED  BY <1>3, <1>4, <1>5, <3>1, <3>2, <4>1
    <3>3. CASE eventGen = gen
      BY <1>2, <2>6, <3>1, <3>3
    <3>. QED  BY <3>2, <3>3
  <2>. QED  BY <1>6, <2>3, <2>4, <2>5, <2>6 DEF ThreadHandles
<1>7. CASE ThreadProgresses
  <2>1. /\ eventGen' = eventGen /\ toSearch' = toSearch
        /\ cur \in Queries /\ eventGen \in 0..gen
        /\ Report(eventGen, cur) \/ Fails(eventGen, cur.text)
    BY <1>7 DEF ThreadProgresses, IInv, Running
  <2>2. /\ eventGen # gen => Clean(k, pending')
        /\ eventGen = gen => Ends(k, cur'.text, pending')
    BY <2>1, QueryReported, Failed
  <2>3. eventGen # gen => Asking'
    BY <1>1, <2>1 DEF OrderInv, Asking
  <2>. QED  BY <1>2, <1>3, <1>4, <1>5, <2>1, <2>2, <2>3
<1>. QED  BY <1>6, <1>7

\* Every action keeps what comes last of the query asked for.
LEMMA FollowKept ==
  ASSUME IInv, OrderInv, LiveInv, FollowInv, Next
  PROVE  FollowInv'
<1>. SUFFICES ASSUME ~Due', NEW k \in {"total", "viewport"}, NEW w, w = Answer'
              PROVE  Follows(k, w)'
  BY FollowsAnswer DEF FollowInv
<1>0. OrderInv'
  BY OrderKept
<1>1. ASSUME NEW text \in Texts, SetQuery(text) PROVE FALSE
  <2>1. Asking' /\ asked' # None
    BY <1>1, OrderAdded, SearchAssumption DEF SetQuery, thread
  <2>. QED  BY <2>1 DEF Due
<1>2. CASE Invalidate
  <2>1. /\ gen' = gen + 1 /\ asked' = None /\ UNCHANGED <<pending, inflight, toApp>>
        /\ bar' = BarCleared /\ toRen' = Append(toRen, Event("clear", gen', None))
    BY <1>2 DEF Invalidate, SyncClear, thread
  <2>2. Clean(k, pending)' /\ ~Counts(k, inflight)' /\ Clean(k, toApp)'
    BY <2>1, OlderThanNew DEF Clean, Counts, Reported
  <2>3. w = None
    BY <1>0, <2>1, AnswerNone
  <2>. QED  BY <2>1, <2>2, <2>3, FollowsCleared
<1>3. CASE EndBegins
  BY <1>3 DEF EndBegins, Due
<1>4. CASE EndJoins
  <2>1. /\ gen' = gen /\ asked' = asked /\ search = "stopping" /\ UNCHANGED toApp
        /\ inflight' = inflight /\ pending' = <<>>
        /\ bar' = BarCleared /\ toRen' = Append(toRen, Event("clear", gen', None))
    BY <1>4 DEF EndJoins, SyncClear
  <2>2. asked' = None
    BY <2>1 DEF OrderInv
  <2>3. Clean(k, pending)' /\ ~Counts(k, inflight)' /\ Clean(k, toApp)'
    BY <2>1 DEF LiveInv, Clean, Counts, Reported
  <2>4. w = None
    BY <1>0, <2>2, AnswerNone
  <2>. QED  BY <2>1, <2>3, <2>4, FollowsCleared
<1>5. CASE Navigate
  <2>1. /\ gen' = gen /\ asked' = asked /\ search' = search /\ cur' = cur /\ UNCHANGED ToScreen
        /\ eventGen' = eventGen
    BY <1>5 DEF Navigate, thread, ToScreen, OnScreen
  <2>2. Asking => Asking'
    <3>1. toSearch \in Seq(Orders) /\ toSearch' = Append(toSearch, Event("select", 0, None))
      BY <1>5 DEF IInv, OnTheWay, Navigate
    <3>2. \A i \in DOMAIN toSearch : i \in DOMAIN toSearch' /\ toSearch'[i] = toSearch[i]
      BY <3>1
    <3>. QED  BY <2>1, <3>2 DEF Asking
  <2>3. ~Due
    BY <2>1, <2>2 DEF Due
  <2>4. Follows(k, w)
    <3>1. Answer = w
      BY <2>1 DEF Answer
    <3>. QED  BY <2>3, <3>1 DEF FollowInv
  <2>. QED  BY <2>1, <2>4, FollowsStays
<1>6. CASE ThreadHandles \/ ThreadProgresses
  BY <1>0, <1>6, FollowsThread
<1>7. CASE AppHandles \/ ThreadEmits \/ ThreadPushes \/ RenChecks \/ RenApplies
  <2>1. UNCHANGED <<gen, asked, search, toSearch, cur, eventGen>>
    BY <1>7 DEF AppHandles, ThreadEmits, ThreadPushes, RenChecks, RenApplies, thread
  <2>2. ~Due
    BY <2>1 DEF Due, Asking
  <2>3. Follows(k, w)
    <3>1. Answer = w
      BY <2>1 DEF Answer
    <3>. QED  BY <2>2, <3>1 DEF FollowInv
  <2>. QED  BY <1>7, <2>3, FollowsHandled, FollowsEmitted, FollowsPushed, FollowsDrawn
<1>. QED  BY <1>1, <1>2, <1>3, <1>4, <1>5, <1>6, <1>7 DEF Next

-----------------------------------------------------------------------------
(* Queries that replace each other *)

\* A step that leaves the queries as they are: what is to come still comes.
LEMMA ComingStays ==
  ASSUME IInv, LiveInv, AppHandles \/ ThreadEmits \/ ThreadPushes \/ RenChecks \/ RenApplies,
         NEW k \in {"rows", "match", "selected"}, Coming(k)
  PROVE  Coming(k)'
<1>0. gen' = gen /\ asked' = asked
  BY DEF AppHandles, ThreadEmits, ThreadPushes, RenChecks, RenApplies
<1>1. ~Counts(k, NoEvent)
  BY DEF Counts, NoEvent, None
<1>2. CASE AppHandles
  <2>. DEFINE e == Head(toApp)
              t == Tail(toApp)
  <2>1. /\ pending' = pending /\ inflight' = inflight /\ accepted' = accepted /\ shown' = shown
        /\ toApp # <<>> /\ toApp' = t /\ toApp \in Seq(Reports)
        /\ e \in Reports /\ e \in Results /\ toRen \in Seq(Updates)
    BY <1>2, HeadTailProperties DEF AppHandles, thread, IInv, OnTheWay, Reports
  <2>2. ~Counts(k, e) /\ Clean(k, t) => Clean(k, toApp)
    BY <2>1, CountsTail
  <2>3. \/ ~Accept(e) /\ bar' = bar /\ toRen' = toRen
        \/ Accept(e) /\ e.kind \in {"viewport", "match"} /\ toRen' = Append(toRen, e) /\ bar' = bar
        \/ /\ Accept(e) /\ e.kind \in {"total", "rows", "selected"}
           /\ bar' = [bar EXCEPT ![e.kind] = e.of] /\ toRen' = toRen
    BY <1>2, <2>1 DEF AppHandles, Results
  <2>4. bar \in [{"total", "rows", "selected"} -> Shown]
    BY DEF IInv, Seen
  <2>5. Counts(k, e) => e.of \in {None, asked}
    BY <2>1 DEF Counts, Reports
  <2>6. /\ ~Clean(k, toRen) => ~Clean(k, toRen')
        /\ Counts(k, e) /\ k = "match" => ~Clean(k, toRen')
    <3>1. CASE toRen' = toRen /\ ~(Counts(k, e) /\ k = "match")
      BY <3>1
    <3>2. CASE Accept(e) /\ e.kind \in {"viewport", "match"} /\ toRen' = Append(toRen, e)
      <4>1. e \in Updates
        BY <2>1, <3>2 DEF Reports, Results, Updates
      <4>. QED  BY <2>1, <3>2, <4>1, CountsAppend
    <3>3. Counts(k, e) /\ k = "match" => Accept(e) /\ e.kind = "match"
      BY DEF Counts, Accept
    <3>. QED  BY <2>3, <3>1, <3>2, <3>3
  <2>. HIDE DEF e, t
  <2>7. k # "match" => bar'[k] = (IF Counts(k, e) THEN e.of ELSE bar[k])
    BY <2>3, <2>4 DEF Counts, Accept
  <2>. QED  BY <1>0, <2>1, <2>2, <2>5, <2>6, <2>7 DEF Coming, Clean, Counts
<1>3. CASE ThreadEmits
  <2>. DEFINE e == Head(pending)
              t == Tail(pending)
  <2>1. /\ toApp' = toApp /\ bar' = bar /\ toRen' = toRen /\ accepted' = accepted /\ shown' = shown
        /\ pending # <<>> /\ pending' = t /\ pending \in Seq(Reports) /\ inflight = NoEvent
        /\ inflight' = IF search = "on" /\ Accept(e) THEN e ELSE NoEvent
    BY <1>3 DEF ThreadEmits, IInv, OnTheWay
  <2>2. /\ ~Counts(k, e) /\ Clean(k, t) => Clean(k, pending)
        /\ Clean(k, pending) => ~Counts(k, e)
    BY <2>1, CountsTail
  <2>3. Counts(k, e) => inflight' = e
    <3>1. Counts(k, e) => search = "on"
      BY <2>2 DEF LiveInv, Reported
    <3>. QED  BY <2>1, <3>1 DEF Counts, Accept
  <2>. HIDE DEF e, t
  <2>. QED  BY <1>0, <1>1, <2>1, <2>2, <2>3 DEF Coming, Clean, Counts
<1>4. CASE ThreadPushes
  <2>1. /\ pending' = pending /\ bar' = bar /\ toRen' = toRen /\ accepted' = accepted
        /\ shown' = shown /\ inflight \in Reports /\ toApp \in Seq(Reports)
        /\ toApp' = Append(toApp, inflight) \/ (search = "stopping" /\ toApp' = toApp)
    BY <1>4 DEF ThreadPushes, IInv, OnTheWay
  <2>2. Clean(k, Append(toApp, inflight)) => Clean(k, toApp) /\ ~Counts(k, inflight)
    BY <2>1, CountsAppend
  <2>3. Counts(k, inflight) => search = "on"
    BY DEF LiveInv, Reported
  <2>. QED  BY <1>0, <2>1, <2>2, <2>3 DEF Coming, Clean, Counts
<1>5. CASE RenChecks
  <2>. DEFINE e == Head(toRen)
              t == Tail(toRen)
  <2>1. /\ pending' = pending /\ inflight' = inflight /\ toApp' = toApp /\ bar' = bar
        /\ toRen # <<>> /\ toRen' = t /\ toRen \in Seq(Updates) /\ e \in Updates
        /\ shown' = shown /\ accepted = NoEvent
        /\ accepted' = IF Accept(e) THEN e ELSE NoEvent
    BY <1>5, HeadTailProperties DEF RenChecks, thread, IInv, OnTheWay
  <2>2. ~Counts(k, e) /\ Clean(k, t) => Clean(k, toRen)
    BY <2>1, CountsTail
  <2>3. Accept(e) => e.of \in {None, asked}
    BY <2>1 DEF Updates, Accept
  <2>4. NoEvent.kind # "match"
    BY DEF NoEvent, None
  <2>. HIDE DEF e, t
  <2>5. Counts("match", e) => Accept(e)
    BY DEF Counts, Accept
  <2>6. CASE k = "match"
    <3>1. CASE ~Clean(k, pending) \/ Counts(k, inflight) \/ ~Clean(k, toApp) \/ ~Clean(k, t)
      BY <1>0, <2>1, <2>6, <3>1 DEF Coming, Clean, Counts
    <3>2. CASE Counts(k, e)
      <4>1. accepted'.kind = "match" /\ accepted'.of \in {None, asked'}
        BY <1>0, <2>1, <2>3, <2>5, <2>6, <3>2 DEF Counts
      <4>. QED  BY <2>6, <4>1 DEF Coming
    <3>3. CASE shown.match \in {None, asked}
      <4>1. shown'.match \in {None, asked'}
        BY <1>0, <2>1, <3>3
      <4>2. accepted'.kind = "match" => accepted'.of \in {None, asked'}
        BY <1>0, <2>1, <2>3, <2>4
      <4>. QED  BY <2>6, <4>1, <4>2 DEF Coming
    <3>4. ~Clean(k, toRen) => Counts(k, e) \/ ~Clean(k, t)
      BY <2>2
    <3>. QED  BY <2>1, <2>4, <2>6, <3>1, <3>2, <3>3, <3>4 DEF Coming
  <2>7. CASE k # "match"
    BY <1>0, <2>1, <2>7 DEF Coming, Clean, Counts
  <2>. QED  BY <2>6, <2>7
<1>6. CASE RenApplies
  <2>1. /\ pending' = pending /\ inflight' = inflight /\ toApp' = toApp /\ bar' = bar
        /\ toRen' = toRen /\ accepted # NoEvent /\ accepted' = NoEvent /\ accepted \in Updates
        /\ shown \in [{"viewport", "match"} -> Shown]
    BY <1>6 DEF RenApplies, thread, IInv, OnTheWay, Seen
  <2>2. /\ accepted.kind = "viewport" => shown'.match = shown.match
        /\ accepted.kind = "match" => shown'.match = accepted.of
        /\ accepted.kind = "clear" => shown'.match = None
        /\ accepted.kind \in {"viewport", "match", "clear"}
    BY <1>6, <2>1 DEF RenApplies, Updates
  <2>3. NoEvent.kind # "match"
    BY DEF NoEvent, None
  <2>. QED  BY <1>0, <2>1, <2>2, <2>3 DEF Coming, Clean, Counts
<1>. QED  BY <1>2, <1>3, <1>4, <1>5, <1>6

\* An order that waits behind the others.
LEMMA OrderAppended ==
  ASSUME IInv, NEW m, toSearch' = Append(toSearch, m)
  PROVE  /\ \A i \in DOMAIN toSearch' : toSearch'[i] = m \/ \E j \in DOMAIN toSearch : toSearch'[i] = toSearch[j]
         /\ \A j \in DOMAIN toSearch : j \in DOMAIN toSearch' /\ toSearch'[j] = toSearch[j]
<1>1. toSearch \in Seq(Orders) /\ Len(toSearch) \in Nat /\ DOMAIN toSearch = 1..Len(toSearch)
  BY DEF IInv, OnTheWay
<1>2. /\ DOMAIN toSearch' = 1..(Len(toSearch) + 1)
      /\ \A i \in DOMAIN toSearch : toSearch'[i] = toSearch[i]
      /\ toSearch'[Len(toSearch) + 1] = m
  BY <1>1
<1>3. \A i \in DOMAIN toSearch' : i = Len(toSearch) + 1 \/ i \in DOMAIN toSearch
  BY <1>1, <1>2
<1>4. \A i \in DOMAIN toSearch : i \in DOMAIN toSearch'
  BY <1>1, <1>2
<1>. QED  BY <1>2, <1>3, <1>4

\* What the thread reports leaves what is under way on the other threads.
LEMMA ComingOther ==
  ASSUME gen' = gen, asked' = asked, pending = <<>>, inflight' = inflight, toApp' = toApp,
         UNCHANGED OnScreen, NEW k, Coming(k)
  PROVE  Coming(k)'
<1>1. Clean(k, pending)
  BY DEF Clean
<1>. QED  BY <1>1 DEF OnScreen, Coming, Clean, Counts

\* Where nothing was ever reported there is nothing of another query.
LEMMA ComingUntouched ==
  ASSUME Untouched, gen' = gen, asked' = asked, UNCHANGED OnScreen,
         NEW k \in {"rows", "match", "selected"}
  PROVE  Coming(k)'
<1>1. CASE k = "match"
  <2>1. accepted'.kind # "match"
    BY DEF Untouched, OnScreen, NoEvent, None
  <2>2. shown'.match = None
    BY DEF Untouched, OnScreen
  <2>. QED  BY <1>1, <2>1, <2>2 DEF Coming
<1>2. CASE k # "match"
  <2>1. bar'[k] = None
    BY <1>2 DEF Untouched, OnScreen, BarCleared
  <2>. QED  BY <1>2, <2>1 DEF Coming
<1>. QED  BY <1>1, <1>2

\* The thread takes an order of one valid query after another.
LEMMA ReplaceHandled ==
  ASSUME IInv, OrderInv, ReplaceInv, ThreadHandles
  PROVE  ReplaceInv'
<1>. SUFFICES ASSUME replacing' PROVE ReplaceInv'
  BY DEF ReplaceInv
<1>. DEFINE m == Head(toSearch)
<1>1. /\ toSearch # <<>> /\ toSearch' = Tail(toSearch) /\ gen' = gen /\ asked' = asked
      /\ search = "on" /\ search' = "on" /\ pending = <<>> /\ m \in Orders
      /\ inflight' = inflight /\ toApp' = toApp /\ UNCHANGED OnScreen /\ replacing' = replacing
  BY OrderTaken DEF ThreadHandles, Free, OnScreen, Fails
<1>2. /\ \A i \in DOMAIN toSearch : toSearch[i].kind = "query" => toSearch[i].of \in Valid
      /\ cur = NoQuery => Untouched
      /\ ~Asking => \A k \in {"rows", "match", "selected"} : Coming(k)
  BY <1>1 DEF ReplaceInv
<1>3. \A i \in DOMAIN toSearch' : toSearch'[i].kind = "query" => toSearch'[i].of \in Valid
  BY <1>1, <1>2, OrderTaken
<1>4. /\ m.kind = "query" /\ m.gen # gen => Asking'
      /\ m.kind # "query" => (Asking' <=> Asking)
  BY <1>1, QueryTaken
<1>5. CASE m.kind = "query" /\ eventGen' = m.gen /\ ChangeQuery(m.gen, m.of)
  <2>1. /\ m.gen \in 0..gen /\ m.of \in Texts \cup {None} /\ m.of \in Valid
        /\ m.gen = gen => m.of = asked
    BY <1>1, <1>2, <1>5, OrderTaken DEF Orders, IInv, Steady
  <2>2. /\ cur' # NoQuery
        /\ m.gen = gen => (\A k \in Reported : ~Clean(k, pending')) \/ cur = NoQuery
    BY <1>1, <1>5, <2>1, QueryChanged
  <2>3. ASSUME ~Asking', NEW k \in {"rows", "match", "selected"} PROVE Coming(k)'
    <3>1. m.gen = gen
      BY <1>4, <1>5, <2>3
    <3>2. CASE cur = NoQuery
      BY <1>1, <1>2, <3>2, ComingUntouched
    <3>3. CASE ~Clean(k, pending')
      BY <1>1, <3>3 DEF Coming, Clean, Counts
    <3>. QED  BY <2>2, <3>1, <3>2, <3>3 DEF Reported
  <2>. QED  BY <1>1, <1>3, <2>2, <2>3 DEF ReplaceInv
<1>6. CASE m.kind = "select" /\ eventGen' = eventGen /\ Select
  <2>1. cur = NoQuery <=> cur' = NoQuery
    BY <1>1, <1>6, Selected
  <2>2. cur = NoQuery => pending' = <<>>
    BY <1>1, <1>6 DEF Select, Report
  <2>3. cur' = NoQuery => Untouched'
    BY <1>1, <1>2, <2>1, <2>2 DEF Untouched, OnScreen
  <2>4. ASSUME ~Asking', NEW k \in {"rows", "match", "selected"} PROVE Coming(k)'
    BY <1>1, <1>2, <1>4, <1>6, <2>4, ComingOther
  <2>. QED  BY <1>1, <1>3, <2>3, <2>4 DEF ReplaceInv
<1>. QED  BY <1>5, <1>6 DEF ThreadHandles, Fails

\* Every action keeps what is to come of the queries that replace each other.
LEMMA ReplaceKept ==
  ASSUME IInv, OrderInv, LiveInv, ReplaceInv, Next
  PROVE  ReplaceInv'
<1>. SUFFICES ASSUME replacing' PROVE ReplaceInv'
  BY DEF ReplaceInv
<1>1. ASSUME NEW text \in Texts, SetQuery(text) PROVE ReplaceInv'
  <2>1. /\ replacing /\ text \in Valid /\ search' = "on" /\ cur' = cur /\ UNCHANGED ToScreen
        /\ toSearch' = Append(toSearch, Event("query", gen + 1, text))
    BY <1>1 DEF SetQuery, thread, ToScreen, OnScreen
  <2>2. Asking'
    BY <1>1, OrderAdded DEF SetQuery, thread
  <2>3. Event("query", gen + 1, text).of \in Valid
    BY <2>1 DEF Event
  <2>4. \A i \in DOMAIN toSearch' : toSearch'[i].kind = "query" => toSearch'[i].of \in Valid
    BY <2>1, <2>3, OrderAppended DEF ReplaceInv
  <2>5. cur' = NoQuery => Untouched'
    BY <2>1 DEF ReplaceInv, Untouched, ToScreen, OnScreen
  <2>. QED  BY <2>1, <2>2, <2>4, <2>5 DEF ReplaceInv
<1>2. CASE Navigate
  <2>1. /\ replacing /\ search = "on" /\ search' = "on" /\ cur' = cur /\ gen' = gen /\ asked' = asked
        /\ UNCHANGED ToScreen /\ toSearch' = Append(toSearch, Event("select", 0, None))
    BY <1>2 DEF Navigate, thread, ToScreen, OnScreen
  <2>2. Event("select", 0, None).kind # "query"
    BY DEF Event
  <2>3. \A i \in DOMAIN toSearch' : toSearch'[i].kind = "query" => toSearch'[i].of \in Valid
    BY <2>1, <2>2, OrderAppended DEF ReplaceInv
  <2>4. Asking => Asking'
    BY <2>1, OrderAppended DEF Asking
  <2>5. cur' = NoQuery => Untouched'
    BY <2>1 DEF ReplaceInv, Untouched, ToScreen, OnScreen
  <2>6. ASSUME ~Asking', NEW k \in {"rows", "match", "selected"} PROVE Coming(k)'
    <3>1. Coming(k)
      BY <2>1, <2>4, <2>6 DEF ReplaceInv
    <3>. QED  BY <2>1, <3>1 DEF ToScreen, OnScreen, Coming, Clean, Counts
  <2>. QED  BY <2>1, <2>3, <2>5, <2>6 DEF ReplaceInv
<1>3. CASE Invalidate \/ EndBegins
  BY <1>3 DEF Invalidate, EndBegins
<1>4. CASE EndJoins
  BY <1>4 DEF EndJoins, ReplaceInv
<1>5. CASE ThreadHandles
  BY <1>5, ReplaceHandled
<1>6. CASE ThreadProgresses
  <2>1. /\ replacing /\ search = "on" /\ search' = "on" /\ gen' = gen /\ asked' = asked
        /\ pending = <<>> /\ inflight' = inflight /\ toApp' = toApp /\ toSearch' = toSearch
        /\ UNCHANGED OnScreen /\ cur \in Queries /\ Report(eventGen, cur)
    BY <1>6 DEF ThreadProgresses, Free, OnScreen, IInv, Running, Fails
  <2>2. cur' # NoQuery
    BY <2>1, QueryReported
  <2>3. ASSUME ~Asking', NEW k \in {"rows", "match", "selected"} PROVE Coming(k)'
    <3>1. Coming(k)
      BY <2>1, <2>3 DEF ReplaceInv, Asking
    <3>. QED  BY <2>1, <3>1, ComingOther
  <2>. QED  BY <2>1, <2>2, <2>3 DEF ReplaceInv
<1>7. CASE AppHandles \/ ThreadEmits \/ ThreadPushes \/ RenChecks \/ RenApplies
  <2>1. UNCHANGED <<gen, asked, search, toSearch, cur, replacing>>
    BY <1>7 DEF AppHandles, ThreadEmits, ThreadPushes, RenChecks, RenApplies, thread
  <2>2. ~Untouched
    BY <1>7 DEF Untouched, AppHandles, ThreadEmits, ThreadPushes, RenChecks, RenApplies
  <2>3. ASSUME ~Asking', NEW k \in {"rows", "match", "selected"} PROVE Coming(k)'
    <3>1. Coming(k)
      BY <2>1, <2>3 DEF ReplaceInv, Asking
    <3>. QED  BY <1>7, <3>1, ComingStays
  <2>. QED  BY <2>1, <2>2, <2>3 DEF ReplaceInv
<1>. QED  BY <1>1, <1>2, <1>3, <1>4, <1>5, <1>6, <1>7 DEF Next

-----------------------------------------------------------------------------
(* What the bar and the renderer come to show *)

\* Initially nothing is asked for, under way, or shown.
LEMMA InitRInv == Init => RInv
<1>. SUFFICES ASSUME Init PROVE RInv
  OBVIOUS
<1>1. IInv
  BY InitIInv
<1>2. /\ DOMAIN toSearch = {} /\ DOMAIN pending = {} /\ DOMAIN toApp = {} /\ DOMAIN toRen = {}
  BY DEF Init
<1>3. /\ asked = None /\ search = "off" /\ cur = NoQuery /\ inflight = NoEvent /\ accepted = NoEvent
      /\ bar.total = None /\ shown.viewport = None /\ cur.text = None
      /\ bar.rows = None /\ bar.selected = None /\ shown.match = None
  BY DEF Init, BarCleared, NoQuery
<1>4. Runs(None) = None /\ Found(None) = None /\ Answer = None
  BY <1>3, SearchAssumption DEF Answer, Runs, Found, Texts
<1>5. OrderInv
  BY <1>2, <1>3, <1>4 DEF OrderInv, Asking
<1>6. \A k \in Reported : ~Counts(k, inflight)
  BY <1>3 DEF Counts, NoEvent, Reported, None
<1>7. LiveInv
  BY <1>2, <1>6 DEF LiveInv, Clean
<1>8. accepted.kind \notin {"viewport", "clear", "match"}
  BY <1>3 DEF NoEvent, None
<1>9. FollowInv
  <2>1. Arrived("total", Answer) /\ Arrived("viewport", Answer)
    BY <1>2, <1>3, <1>4, <1>8 DEF Arrived, Drawn
  <2>. QED  BY <1>2, <1>6, <2>1 DEF FollowInv, Follows, Clean, Reported
<1>10. ReplaceInv
  BY <1>2, <1>3, <1>8 DEF Init, ReplaceInv, Untouched, Coming
<1>. QED  BY <1>1, <1>5, <1>7, <1>9, <1>10 DEF RInv

\* Every step keeps the strengthened invariant.
LEMMA NextRInv == RInv /\ [Next]_vars => RInv'
<1>. SUFFICES ASSUME RInv, [Next]_vars PROVE RInv'
  OBVIOUS
<1>1. IInv'
  BY NextIInv DEF RInv
<1>2. CASE Next
  BY <1>1, <1>2, OrderKept, LiveKept, FollowKept, ReplaceKept DEF RInv
<1>3. CASE UNCHANGED vars
  BY <1>1, <1>3 DEF RInv, vars, thread, OrderInv, LiveInv, FollowInv, ReplaceInv, Asking, Due,
     Follows, Coming, Untouched, Ends, Clean, Counts, Wanted, Arrived, Drawn, Draws, Answer
<1>. QED  BY <1>2, <1>3

\* The strengthened invariant holds: what comes last of every kind is of the
\* query that runs for the one asked for, on whatever threads it is.
THEOREM LastIsAsked == Spec => []RInv
<1>. QED  BY InitRInv, NextRInv, PTL DEF Spec

\* With nothing under way, what was to come has arrived.
LEMMA RestArrived ==
  ASSUME RInv, AtRest
  PROVE  /\ Arrived("total", cur.text) /\ Arrived("viewport", cur.text) /\ ~Asking
         /\ cur.text \in {asked, None}
         /\ asked \in Valid \ Failing => cur.text = asked
<1>1. /\ DOMAIN toSearch = {} /\ DOMAIN pending = {} /\ DOMAIN toApp = {}
      /\ inflight = NoEvent
  BY DEF AtRest
<1>2. ~Asking
  BY <1>1 DEF Asking
<1>3. ~Due
  BY <1>2 DEF Due, AtRest
<1>4. Follows("total", Answer) /\ Follows("viewport", Answer)
  BY <1>3 DEF RInv, FollowInv
<1>5. ~Counts("total", inflight) /\ ~Counts("viewport", inflight)
  BY <1>1 DEF Counts, NoEvent, None
<1>6. CASE search = "on"
  <2>1. eventGen = gen
    BY <1>2, <1>6 DEF RInv, OrderInv
  <2>2. Answer = cur.text
    BY <2>1 DEF Answer
  <2>3. cur.text \in {asked, None}
    BY <2>1 DEF RInv, IInv, Running
  <2>4. asked \in Valid \ Failing => cur.text = asked
    BY <2>1 DEF RInv, OrderInv, Runs
  <2>. QED  BY <1>1, <1>2, <1>4, <1>5, <2>2, <2>3, <2>4 DEF Follows, Ends
<1>7. CASE search # "on"
  <2>1. asked = None /\ search = "off" /\ cur = NoQuery
    BY <1>7 DEF RInv, OrderInv, IInv, Steady, AtRest
  <2>2. cur.text = None /\ Answer = None
    BY <2>1, AnswerNone DEF RInv, NoQuery
  <2>3. asked \notin Valid
    BY <2>1, SearchAssumption DEF Texts
  <2>. QED  BY <1>1, <1>2, <1>4, <1>5, <2>1, <2>2, <2>3 DEF Follows, Ends
<1>. QED  BY <1>6, <1>7

\* When nothing is under way, the bar's total and the renderer's matches are
\* those of the query that runs, the one asked for unless it cannot run or its
\* pattern has failed: handleMessage, drainMailbox and the search
\* thread drop by generation only what a later report replaces.
THEOREM ResultsAreCurrent == Spec => []ResultsCurrent
<1>1. RInv => ResultsCurrent
  <2>. SUFFICES ASSUME RInv, AtRest
                PROVE  /\ bar.total = cur.text
                       /\ shown.viewport = Found(cur.text)
                       /\ cur.text \in {asked, None}
                       /\ asked \in Valid \ Failing => cur.text = asked
    BY DEF ResultsCurrent
  <2>1. /\ Arrived("total", cur.text) /\ Arrived("viewport", cur.text)
        /\ cur.text \in {asked, None}
        /\ asked \in Valid \ Failing => cur.text = asked
    BY RestArrived
  <2>2. DOMAIN toRen = {} /\ accepted.kind \notin {"viewport", "clear"}
    BY DEF AtRest, NoEvent, None
  <2>. QED  BY <2>1, <2>2 DEF Arrived, Drawn
<1>. QED  BY <1>1, LastIsAsked, PTL

\* While valid queries only replace each other and none fails, no row, match or selection of
\* an earlier query is left: changeQuery reports every field again, emptied.
THEOREM ReplacedAreCurrent == Spec => []ReplacedCurrent
<1>1. RInv => ReplacedCurrent
  <2>. SUFFICES ASSUME RInv, AtRest, replacing
                PROVE  {shown.match, bar.rows, bar.selected} \subseteq {None, asked}
    BY DEF ReplacedCurrent
  <2>1. Coming("rows") /\ Coming("match") /\ Coming("selected")
    BY RestArrived DEF RInv, ReplaceInv
  <2>2. /\ DOMAIN pending = {} /\ DOMAIN toApp = {} /\ DOMAIN toRen = {}
        /\ accepted.kind # "match"
    BY DEF AtRest, NoEvent, None
  <2>3. \A k \in Reported : Clean(k, pending) /\ Clean(k, toApp) /\ Clean(k, toRen)
    BY <2>2 DEF Clean
  <2>4. \A k \in Reported : ~Counts(k, inflight)
    BY DEF AtRest, Counts, NoEvent, Reported, None
  <2>. QED  BY <2>1, <2>2, <2>3, <2>4 DEF Coming, Reported
<1>. QED  BY <1>1, LastIsAsked, PTL
=============================================================================
