----------------------------- MODULE ShellModel -----------------------------
(* The shell model of one window (win32_shell): which tabs it has, the panes  *)
(* of each and what is focused, apart from the native windows that show it.   *)
(* It is changed by intents.  `Prepare` runs an intent's reducer on a copy    *)
(* and validates the copy; the caller changes the native side and then makes  *)
(* the copy the model.  A reducer that refuses returns Refused.               *)
(*                                                                            *)
(* A node of a tree has no identity here: a split keeps its leaf's node and a *)
(* removal its parent's, so a tab's root node is the same for as long as the  *)
(* tab lives, and the tab stands for it.                                      *)
EXTENDS PaneTree

CONSTANT None  \* no tab, or no pane

ASSUME NoneAssumption == None \notin Nat

(* tabs    the live tabs in strip order; active, the one in front, or None    *)
(* kept    the tabs out of the strip that an undo may bring back              *)
(* keptPanes  the panes out of every tree that a redo may bring back          *)
(* tree    the panes of every tab, live or kept, but of one whose panes are   *)
(*         now a branch of another tab                                        *)
(* focus   the focused pane of every tab                                      *)
(* moves   for a tab that was dropped into another, the record that undoes    *)
(*         the drop and, once undone, repeats it                              *)
NoWindow ==
    [tabs |-> <<>>, active |-> None, kept |-> {}, keptPanes |-> {},
     tree |-> <<>>, focus |-> <<>>, moves |-> <<>>]

\* No model: what there is instead when an intent is refused.
Refused == [NoWindow EXCEPT !.tabs = <<None>>]

Live(s) == ToSet(s.tabs)
Tabs(s) == Live(s) \cup s.kept
TabOf(s, pane) == CHOOSE tab \in DOMAIN s.tree : pane \in Panes(s.tree[tab])
HasPane(s, pane) == \E tab \in DOMAIN s.tree : pane \in Panes(s.tree[tab])
LiveHasPane(s, pane) == HasPane(s, pane) /\ TabOf(s, pane) \in Live(s)
IndexIn(seq, e) == CHOOSE i \in DOMAIN seq : seq[i] = e
Least(i, j) == IF i < j THEN i ELSE j

MovedAway(s, tab) == tab \in DOMAIN s.moves /\ s.moves[tab].applied
Without(f, S) == Restrict(f, DOMAIN f \ S)
With(f, key, value) == [k \in DOMAIN f \cup {key} |-> IF k = key THEN value ELSE f[k]]

-----------------------------------------------------------------------------
(* ShellState.validate.                                                       *)

TabsValid(s) ==
    /\ s.active = None <=> s.tabs = <<>>
    /\ s.tabs # <<>> => s.active \in Live(s)
    /\ IsInjective(s.tabs) /\ Live(s) \cap s.kept = {}

TreesValid(s) ==
    /\ \A tab \in Tabs(s) : ~MovedAway(s, tab) =>
          /\ tab \in DOMAIN s.tree
          /\ s.focus[tab] \in Panes(s.tree[tab])
          /\ IsInjective(s.tree[tab])
    /\ \A a, b \in DOMAIN s.tree :
          a # b => Panes(s.tree[a]) \cap Panes(s.tree[b]) = {}
    /\ DOMAIN s.tree \subseteq Tabs(s)
    /\ \A pane \in s.keptPanes : ~HasPane(s, pane)

\* Mutant: a drop's target may go.
MovesValidSource(s) == DOMAIN s.moves \subseteq Tabs(s)

\* A transfer names its two tabs and the root of the branch it moved.  The
\* root goes with the tab whose tree it is in.
MovesValid(s) ==
    \A source \in DOMAIN s.moves : {source, s.moves[source].target} \subseteq Tabs(s)

Valid(s) == TabsValid(s) /\ TreesValid(s) /\ MovesValid(s)

\* Runtime.prepare.
Prepare(next) == IF next # Refused /\ Valid(next) THEN next ELSE Refused

-----------------------------------------------------------------------------
(* The reducers.                                                              *)

\* The tab in front once the one at `i` has left the strip `rest`.
NextActive(s, i, rest) ==
    IF rest = <<>> THEN None
    ELSE IF s.active = s.tabs[i] THEN rest[Least(i, Len(rest))] ELSE s.active

CreateTab(s, tab, pane, i) ==
    [s EXCEPT !.tabs = InsertAt(@, Least(i, Len(@) + 1), tab), !.active = tab,
              !.tree = With(@, tab, Single(pane)), !.focus = With(@, tab, pane)]

InsertPane(s, at, pane, dir) ==
    IF ~LiveHasPane(s, at) THEN Refused
    ELSE LET tab == TabOf(s, at) IN
        [s EXCEPT !.tree[tab] = Graft(@, PathOf(@, at), Single(pane), dir),
                  !.focus[tab] = pane]

SplitPane(s, at, pane, dir) == InsertPane(s, at, pane, dir)

RestorePane(s, pane, at, dir) ==
    IF pane \notin s.keptPanes \/ ~LiveHasPane(s, at) THEN Refused
    ELSE [InsertPane(s, at, pane, dir) EXCEPT
             !.keptPanes = @ \ {pane}, !.active = TabOf(s, at)]

\* The pane leaves its tree; the tab keeps its focus unless that was the pane.
RemovePane(s, pane) ==
    LET tab == TabOf(s, pane)
        path == PathOf(s.tree[tab], pane)
    IN [s EXCEPT !.tree[tab] = Cut(@, path),
                 !.focus[tab] = IF @ = pane THEN FirstPane(Sibling(s.tree[tab], path))
                                ELSE @]

CanRemovePane(s, pane) ==
    LiveHasPane(s, pane) /\ Panes(s.tree[TabOf(s, pane)]) # {pane}

ClosePaneIntent(s, pane) == IF CanRemovePane(s, pane) THEN RemovePane(s, pane) ELSE Refused

\* For undo: the model keeps the ID, and the tab comes to the front.
DetachPane(s, pane) ==
    IF ~CanRemovePane(s, pane) THEN Refused
    ELSE [RemovePane(s, pane) EXCEPT
             !.keptPanes = @ \cup {pane}, !.active = TabOf(s, pane)]

DiscardPane(s, pane) ==
    IF pane \in s.keptPanes THEN [s EXCEPT !.keptPanes = @ \ {pane}] ELSE Refused

CloseTabIntent(s, tab) ==
    IF tab \notin Live(s) THEN Refused
    ELSE IF Len(s.tabs) = 1 THEN NoWindow
    ELSE LET i == IndexIn(s.tabs, tab) IN
        [s EXCEPT !.tabs = RemoveAt(@, i), !.active = NextActive(s, i, RemoveAt(s.tabs, i)),
                  !.tree = Without(@, {tab}), !.focus = Without(@, {tab})]

DetachTab(s, tab) ==
    IF tab \notin Live(s) THEN Refused
    ELSE LET i == IndexIn(s.tabs, tab) IN
        [s EXCEPT !.tabs = RemoveAt(@, i), !.active = NextActive(s, i, RemoveAt(s.tabs, i)),
                  !.kept = @ \cup {tab}]

RestoreTab(s, tab, i, activate) ==
    IF tab \notin s.kept \/ i > Len(s.tabs) + 1 THEN Refused
    ELSE [s EXCEPT !.tabs = InsertAt(@, i, tab), !.kept = @ \ {tab},
                   !.active = IF activate \/ @ = None THEN tab ELSE @]

\* The last thing a window without a live tab keeps takes the window with it.
LeaveIfEmpty(s) == IF s.tabs = <<>> /\ s.kept = {} THEN NoWindow ELSE s

DiscardTab(s, tab) ==
    IF tab \notin s.kept THEN Refused
    ELSE LET next == [s EXCEPT !.kept = @ \ {tab}, !.tree = Without(@, {tab}),
                               !.focus = Without(@, {tab})]
         IN IF next.tabs = <<>> /\ next.kept = {}
            THEN [NoWindow EXCEPT !.moves = next.moves] ELSE next

ReorderTab(s, tab, i) ==
    IF tab \notin Live(s) \/ i > Len(s.tabs) THEN Refused
    ELSE [s EXCEPT !.tabs = InsertAt(RemoveAt(@, IndexIn(@, tab)), i, tab)]

-----------------------------------------------------------------------------
(* A tab dropped onto a pane of another tab: all its panes become a branch    *)
(* beside the pane, and the tab is kept, with no panes, for undo.             *)

ApplyMove(s, source) ==
    LET m == s.moves[source]
        i == IndexIn(s.tabs, source)
    IN [s EXCEPT
          !.tabs = RemoveAt(@, i), !.kept = @ \cup {source}, !.active = m.target,
          !.tree = [Without(s.tree, {source}) EXCEPT
                       ![m.target] = Graft(@, m.at, s.tree[source], m.dir)],
          !.focus[m.target] = IF m.sourceFocus \in Panes(s.tree[source])
                              THEN m.sourceFocus ELSE FirstPane(s.tree[source]),
          !.moves[source].applied = TRUE]

\* `sourceFocus` and `targetFocus` are what the two tabs focused at the drop.
TransferSubtree(s, source, pane, dir) ==
    IF source \in DOMAIN s.moves \/ source \notin Live(s) \/ ~LiveHasPane(s, pane)
       \/ (LiveHasPane(s, pane) /\ TabOf(s, pane) = source) THEN Refused
    ELSE LET target == TabOf(s, pane)
             m == [target |-> target, at |-> PathOf(s.tree[target], pane), dir |-> dir,
                   index |-> IndexIn(s.tabs, source), sourceFocus |-> s.focus[source],
                   targetFocus |-> s.focus[target], applied |-> FALSE]
         IN ApplyMove([s EXCEPT !.moves = With(@, source, m)], source)

UndoMove(s, source) ==
    LET m == s.moves[source]
        combined == s.tree[m.target]
        moved == Append(m.at, NewSide(m.dir))
        displaced == Append(m.at, OtherSide(NewSide(m.dir)))
    IN [s EXCEPT
          !.tabs = InsertAt(@, m.index, source), !.kept = @ \ {source}, !.active = source,
          !.tree = With([s.tree EXCEPT ![m.target] = Put(@, m.at, Branch(combined, displaced))],
                        source, Branch(combined, moved)),
          !.focus[source] = m.sourceFocus,
          !.focus[m.target] = m.targetFocus,
          !.moves[source].applied = FALSE]

SetTransferApplied(s, source, applied) ==
    IF source \notin DOMAIN s.moves THEN Refused
    ELSE IF s.moves[source].applied = applied THEN s
    ELSE IF applied
    THEN IF source \in Live(s) /\ s.moves[source].target \in Tabs(s)
         THEN ApplyMove(s, source) ELSE Refused
    ELSE IF source \in s.kept /\ s.moves[source].target \in Tabs(s)
            /\ s.moves[source].index <= Len(s.tabs) + 1
         THEN UndoMove(s, source) ELSE Refused

\* The branch stays where it is; an applied move's empty tab goes.
DiscardTransfer(s, source) ==
    IF source \notin DOMAIN s.moves THEN Refused
    ELSE LET next == [s EXCEPT !.moves = Without(@, {source})]
         IN IF ~s.moves[source].applied THEN next
            ELSE IF source \notin s.kept THEN Refused
            ELSE LeaveIfEmpty([next EXCEPT !.kept = @ \ {source},
                                           !.focus = Without(@, {source})])

-----------------------------------------------------------------------------
\* Runtime.setPaneFocus: no copy and no validation.  A pane of a kept tab would
\* be taken as well; the callers focus panes they found in the strip.
SetPaneFocus(s, pane) ==
    IF ~HasPane(s, pane) THEN s
    ELSE [s EXCEPT !.focus[TabOf(s, pane)] = pane, !.active = TabOf(s, pane)]
=============================================================================
