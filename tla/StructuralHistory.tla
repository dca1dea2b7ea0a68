------------------------- MODULE StructuralHistory --------------------------
(* Structural undo and redo in one window of the Windows app: closing a tab,  *)
(* splitting a pane and dropping a tab onto a pane can be undone for a while. *)
(* Every operation changes the native tabs and the shell model, in code that  *)
(* prepares the model's half, changes the native half and commits; and both   *)
(* halves keep panes alive for an undo or a redo that may never come.         *)
(*                                                                            *)
(* All of it runs on the UI thread, one operation at a time.  Ids are the     *)
(* generational ones of the code: one in use anywhere is not given out again. *)
(* Not modelled: a window's other tabs-and-panes actions that leave the       *)
(* layout alone, text undo inside a pane, and running out of memory.          *)
EXTENDS ShellModel, FiniteSets

CONSTANTS MaxPanes,    \* bound: panes that exist at one time
          MaxTabs,     \* bound: tabs that exist at one time, kept ones included
          HistoryMax,  \* max_entries: entries the undo list holds
          SplitSides,  \* the directions panes are split in
          DropSides    \* the sides of a pane tabs are dropped on

ASSUME BoundsAssumption ==
    /\ MaxPanes \in Nat \ {0} /\ MaxTabs \in Nat \ {0} /\ HistoryMax \in Nat \ {0}
    /\ SplitSides \cup DropSides \subseteq {"left", "right", "up", "down"}

VARIABLES
    shell,  \* the shell model
    tabs,   \* the native tabs in strip order: id, split tree, focused pane
    front,  \* the index of the native tab in front; 1 when there is none
    undo,   \* the undo list, oldest first
    redo,   \* the redo list, the most recently undone last
    alive   \* the panes that exist: each has a terminal and a program

vars == <<shell, tabs, front, undo, redo, alive>>

World == [shell |-> shell, tabs |-> tabs, front |-> front,
          undo |-> undo, redo |-> redo, alive |-> alive]

Become(world) ==
    \E w \in {world} :
       /\ shell' = w.shell /\ tabs' = w.tabs /\ front' = w.front
       /\ undo' = w.undo /\ redo' = w.redo /\ alive' = w.alive

-----------------------------------------------------------------------------
(* The native tabs.                                                           *)

NativeTab(id, tree, focus) == [id |-> id, tree |-> tree, focus |-> focus]

\* An entry's tab while its tab is in the strip.
NoTab == NativeTab(None, <<>>, None)

PanesOf(w, i) == Panes(w.tabs[i].tree)
LivePanes(w) == UNION {PanesOf(w, i) : i \in DOMAIN w.tabs}
TabAt(w, pane) == CHOOSE i \in DOMAIN w.tabs : pane \in PanesOf(w, i)
Ids(w) == {w.tabs[i].id : i \in DOMAIN w.tabs}
IndexOf(w, id) == CHOOSE i \in DOMAIN w.tabs : w.tabs[i].id = id

\* What the strip shows, for comparing one moment with another.
Layout(w) == [i \in DOMAIN w.tabs |-> <<w.tabs[i].id, w.tabs[i].tree>>]

\* activeTabAfterRemoval: the same tab when another one went; when the tab in
\* front went, the tab now at its place, or the last one.
FrontAfterRemoval(active, i, remaining) ==
    IF remaining = 0 THEN 1
    ELSE Least(IF i < active THEN active - 1 ELSE active, remaining)

\* Mutant: only the tab that was moved is followed.
FrontAfterReorderStays(active, from, to) == IF active = from THEN to ELSE active

FrontAfterReorder(active, from, to) ==
    IF active = from THEN to
    ELSE IF from < to /\ active > from /\ active <= to THEN active - 1
    ELSE IF from > to /\ active >= to /\ active < from THEN active + 1
    ELSE active

RemoveTab(w, i) ==
    [w EXCEPT !.tabs = RemoveAt(@, i),
              !.front = FrontAfterRemoval(@, i, Len(w.tabs) - 1)]

\* The pane leaves its native tree.  If it was focused, the first pane stands
\* in until the model's choice is followed.
RemoveLeaf(w, pane) ==
    LET i == TabAt(w, pane)
        rest == Cut(w.tabs[i].tree, PathOf(w.tabs[i].tree, pane))
    IN [w EXCEPT !.tabs[i].tree = rest,
                 !.tabs[i].focus = IF @ = pane THEN FirstPane(rest) ELSE @]

AddLeaf(w, at, pane, dir) ==
    LET i == TabAt(w, at)
    IN [w EXCEPT !.tabs[i].tree = Graft(@, PathOf(@, at), Single(pane), dir),
                 !.tabs[i].focus = pane]

\* activateSurface: the pane is focused in its tab, the tab comes to the front,
\* and the model is told.
Activate(w, pane) ==
    LET i == TabAt(w, pane)
    IN [w EXCEPT !.tabs[i].focus = pane, !.front = i,
                 !.shell = SetPaneFocus(@, pane)]

ActivateFront(w) == IF w.tabs = <<>> THEN w ELSE Activate(w, w.tabs[w.front].focus)

\* followShellFocus: the native side takes over the model's choice.
Follow(w, pane) ==
    IF ~HasPane(w.shell, pane) \/ TabOf(w.shell, pane) \notin Ids(w) THEN w
    ELSE LET tab == TabOf(w.shell, pane)
             i == IndexOf(w, tab)
         IN [w EXCEPT !.front = IF w.shell.active = tab THEN i ELSE @,
                      !.tabs[i].focus = IF pane \in PanesOf(w, i) THEN pane ELSE @]

\* A tab that left or came back in front hands the focus on.
FollowActive(w) ==
    IF w.shell.active = None THEN w ELSE Follow(w, w.shell.focus[w.shell.active])

-----------------------------------------------------------------------------
(* History entries.                                                           *)

\* Mutant: the index is kept within the tabs that are left.
CloseEntryClamped(tab, i, wasActive) ==
    [kind |-> "close", id |-> tab.id, tab |-> tab, wasActive |-> wasActive,
     index |-> IF i = Len(tabs) /\ i > 1 THEN i - 1 ELSE i]

CloseEntry(tab, i, wasActive) ==
    [kind |-> "close", id |-> tab.id, tab |-> tab, index |-> i, wasActive |-> wasActive]

SplitEntry(at, pane, dir) ==
    [kind |-> "split", at |-> at, pane |-> pane, dir |-> dir, detached |-> FALSE]

\* `tree` and `focus` are the target tab's from the other side of the drop.
MoveEntry(source, i, target) ==
    [kind |-> "move", id |-> source.id, tab |-> source, index |-> i,
     target |-> target.id, tree |-> target.tree, focus |-> target.focus,
     applied |-> TRUE]

\* dispose: gives up what the entry kept alive.  The model is Refused when it
\* refuses.
DisposeClose(w, e) ==
    IF e.tab = NoTab THEN w
    ELSE [w EXCEPT !.shell = Prepare(DiscardTab(@, e.id)),
                   !.alive = @ \ Panes(e.tab.tree)]

\* Mutants: the pane goes while it is shown; its ID is kept for good.
DisposeSplitShown(w, e) == [w EXCEPT !.alive = @ \ {e.pane}]
DisposeSplitForgets(w, e) == IF e.detached THEN [w EXCEPT !.alive = @ \ {e.pane}] ELSE w

\* Never refused: the pane goes even if the model keeps its ID.
DisposeSplit(w, e) ==
    LET next == Prepare(DiscardPane(w.shell, e.pane))
    IN IF ~e.detached THEN w
       ELSE [w EXCEPT !.shell = IF next = Refused THEN @ ELSE next,
                      !.alive = @ \ {e.pane}]

DisposeMove(w, e) == [w EXCEPT !.shell = Prepare(DiscardTransfer(@, e.id))]

Dispose(w, e) ==
    CASE e.kind = "close" -> DisposeClose(w, e)
      [] e.kind = "split" -> DisposeSplit(w, e)
      [] e.kind = "move"  -> DisposeMove(w, e)

DisposeNext(acc, e, stops) ==
    IF (stops /\ acc.left # <<>>) \/ Dispose(acc.world, e).shell = Refused
    THEN [acc EXCEPT !.left = Append(@, e)]
    ELSE [acc EXCEPT !.world = Dispose(@, e)]

\* Disposes `entries` in order.  `left` are those the model refused, and with
\* `stops` also all that follow the first of them.
DisposeEach(w, entries, stops) ==
    LET after[k \in 0 .. Len(entries)] ==
          IF k = 0 THEN [world |-> w, left |-> <<>>]
          ELSE DisposeNext(after[k - 1], entries[k], stops)
    IN after[Len(entries)]

ClearUndo(w) ==
    LET gone == DisposeEach(w, Reverse(w.undo), TRUE)
    IN [gone.world EXCEPT !.undo = Reverse(gone.left)]

ClearRedo(w) ==
    LET gone == DisposeEach(w, Reverse(w.redo), TRUE)
    IN [gone.world EXCEPT !.redo = Reverse(gone.left)]

\* tryClearStructuralHistory, which succeeded if nothing is left.
ClearHistory(w) == ClearRedo(ClearUndo(w))
Cleared(w) == w.undo = <<>> /\ w.redo = <<>>

\* The k oldest entries expire.  The redo list's newest are the oldest of it,
\* and everything in it is newer than the undo list.
ExpireOldest(w, k) ==
    LET n == Least(k, Len(w.undo))
        kept == Len(w.redo) - (k - n)
        ofUndo == DisposeEach(w, SubSeq(w.undo, 1, n), FALSE)
        ofRedo == DisposeEach(ofUndo.world, SubSeq(w.redo, kept + 1, Len(w.redo)), FALSE)
    IN [ofRedo.world EXCEPT
           !.undo = ofUndo.left \o SubSeq(w.undo, n + 1, Len(w.undo)),
           !.redo = SubSeq(w.redo, 1, kept) \o ofRedo.left]

\* The oldest entries make room for one more.
Evicted(w) ==
    LET over == IF Len(w.undo) < HistoryMax THEN 0 ELSE Len(w.undo) - HistoryMax + 1
        gone == DisposeEach(w, SubSeq(w.undo, 1, over), TRUE)
    IN [gone.world EXCEPT !.undo = gone.left \o SubSeq(w.undo, over + 1, Len(w.undo))]

\* pushStructuralUndo: the redo list goes, and what is too much of the undo
\* list.  Expiry, which it runs first, is an action of its own.
Push(w, e) ==
    LET bare == ClearRedo(w)
        room == IF bare.redo = <<>> THEN Evicted(bare) ELSE bare
    IN IF room.redo # <<>> \/ Len(room.undo) >= HistoryMax
       THEN [world |-> room, pushed |-> FALSE]
       ELSE [world |-> [room EXCEPT !.undo = Append(@, e)], pushed |-> TRUE]

-----------------------------------------------------------------------------
(* Ids that no state, history entry or model record names.                    *)

EntryPanes(e) ==
    CASE e.kind = "close" -> Panes(e.tab.tree)
      [] e.kind = "split" -> {e.at, e.pane}
      [] e.kind = "move"  -> Panes(e.tree) \cup Panes(e.tab.tree)

Entries == ToSet(undo) \cup ToSet(redo)
NamedPanes == alive \cup shell.keptPanes \cup UNION {EntryPanes(e) : e \in Entries}
NamedTabs == Tabs(shell) \cup Ids(World) \cup DOMAIN shell.moves

FreePanes == (1 .. MaxPanes) \ NamedPanes
FreeTabs == (1 .. MaxTabs) \ NamedTabs

-----------------------------------------------------------------------------
(* Making tabs, panes and drops, and closing tabs: what an undo reverts.      *)

Init ==
    /\ shell = CreateTab(NoWindow, 1, 1, 1)
    /\ tabs = <<NativeTab(1, Single(1), 1)>>
    /\ front = 1
    /\ undo = <<>> /\ redo = <<>>
    /\ alive = {1}

\* createNewTab, at the end or behind the tab in front.  It is not recorded.
NewTab(i) ==
    LET id == Min(FreeTabs)
        pane == Min(FreePanes)
        next == Prepare(CreateTab(shell, id, pane, i))
        w == [World EXCEPT !.tabs = InsertAt(@, i, NativeTab(id, Single(pane), pane)),
                           !.shell = next, !.alive = @ \cup {pane}]
    IN /\ tabs # <<>> /\ FreeTabs # {} /\ FreePanes # {}
       /\ i \in {front + 1, Len(tabs) + 1}
       /\ next # Refused
       /\ Become(Activate(ClearRedo(w), pane))

\* createNewSplit: the split is in place before the entry is pushed.
NewSplit(at, dir) ==
    LET pane == Min(FreePanes)
        next == Prepare(SplitPane(shell, at, pane, dir))
        w == [AddLeaf(World, at, pane, dir) EXCEPT !.shell = next, !.alive = @ \cup {pane}]
    IN /\ at \in LivePanes(World) /\ FreePanes # {}
       /\ next # Refused
       /\ \E split \in {w} : \E push \in {Push(split, SplitEntry(at, pane, dir))} :
             Become(Activate(IF push.pushed THEN push.world ELSE ClearRedo(push.world), pane))

\* rollbackTabClose: the tab comes back, with the tab that was in front.
PutBack(w, tab, i) ==
    ActivateFront([w EXCEPT !.tabs = InsertAt(@, i, tab), !.front = front])

\* closeTabUndoable: native removal, the entry, and last the model.
CloseTab(i) ==
    LET tab == tabs[i]
    IN \E w \in {RemoveTab(World, i)} :
       \E push \in {Push(w, CloseEntry(tab, i, i = front))} :
       \E next \in {Prepare(DetachTab(push.world.shell, tab.id))} :
          \/ ~push.pushed /\ Become(PutBack(push.world, tab, i))
          \/ /\ push.pushed /\ next = Refused
             /\ Become(PutBack([push.world EXCEPT !.undo = Front(@)], tab, i))
          \/ /\ push.pushed /\ next # Refused
             /\ \E shut \in {[push.world EXCEPT !.shell = next]} :
                   Become(ActivateFront(IF shell.active = tab.id THEN FollowActive(shut)
                                        ELSE shut))

\* commitTabDropSplit: the whole tab becomes a branch beside `pane`.  The
\* history is cleared, to `bare`, once the model was asked.
DropTab(i, pane, dir, bare) ==
    LET source == tabs[i]
        target == tabs[front]
        joined == [tabs EXCEPT
                      ![front].tree = Graft(@, PathOf(@, pane), source.tree, dir),
                      ![front].focus = source.focus]
        dropped == [World EXCEPT !.tabs = RemoveAt(joined, i),
                                 !.front = FrontAfterRemoval(@, i, Len(tabs) - 1)]
        e == MoveEntry(source, i, target)
        next == Prepare(TransferSubtree(bare.shell, source.id, pane, dir))
    IN /\ Prepare(TransferSubtree(shell, source.id, pane, dir)) # Refused
       /\ \/ (~Cleared(bare) \/ next = Refused) /\ Become(bare)
          \/ /\ Cleared(bare) /\ next # Refused
             /\ \E w \in {[bare EXCEPT !.tabs = dropped.tabs, !.front = dropped.front,
                                       !.shell = next, !.undo = <<e>>]} :
                   Become(Activate(Follow(w, next.focus[target.id]), source.focus))

-----------------------------------------------------------------------------
(* What cannot be undone, and clears the history first.  `bare` is what the   *)
(* clear makes of the state; if entries are left, the change is refused.      *)

\* What a pane's close asks of the model.
CloseIntent(w, pane) ==
    LET tab == w.tabs[TabAt(w, pane)]
    IN Prepare(IF Panes(tab.tree) = {pane} THEN CloseTabIntent(w.shell, tab.id)
               ELSE ClosePaneIntent(w.shell, pane))

\* windowDestroyed.
Destroyed(w, pane) ==
    LET i == TabAt(w, pane)
        last == PanesOf(w, i) = {pane}
        shut == [(IF last THEN RemoveTab(w, i) ELSE RemoveLeaf(w, pane))
                    EXCEPT !.shell = CloseIntent(w, pane), !.alive = @ \ {pane}]
    IN IF last THEN FollowActive(shut) ELSE Follow(shut, shut.shell.focus[w.tabs[i].id])

\* requestClose.  The model's half is prepared before the window is destroyed,
\* during which the keyboard, if the pane had it, may move to the pane `noted`.
ClosePane(pane, noted, bare) ==
    /\ pane \in LivePanes(World)
    /\ noted # None =>
          pane = tabs[front].focus /\ noted \in PanesOf(World, front) \ {pane}
    /\ \/ (~Cleared(bare) \/ CloseIntent(bare, pane) = Refused) /\ Become(bare)
       \/ /\ Cleared(bare) /\ CloseIntent(bare, pane) # Refused
          /\ \E told \in {IF noted = None THEN bare ELSE Activate(bare, noted)} :
             \E w \in {Destroyed(told, pane)} : Become(ActivateFront(w))

\* closeTabsBeside: all tabs but the one at `keep`, or those to its right.
CloseTabsBeside(keep, right, bare) ==
    LET beside == {i \in DOMAIN tabs : i > keep \/ (i < keep /\ ~right)}
        doomed == SetToSeq(UNION {PanesOf(World, i) : i \in beside})
        closed[k \in 0 .. Len(doomed)] ==
            IF k = 0 THEN bare ELSE ActivateFront(Destroyed(closed[k - 1], doomed[k]))
    IN /\ beside # {}
       /\ Become(IF Cleared(bare) THEN Activate(closed[Len(doomed)], tabs[keep].focus) ELSE bare)

\* Asked of the model before the history is cleared, and committed after.
MayReorder(i, to) == i # to /\ Prepare(ReorderTab(shell, tabs[i].id, to)) # Refused
Reordered(w, i, to, nowFront) ==
    [w EXCEPT !.tabs = InsertAt(RemoveAt(@, i), to, tabs[i]), !.front = nowFront,
              !.shell = Prepare(ReorderTab(@, tabs[i].id, to))]

MoveTab(i, to, bare) ==
    /\ MayReorder(i, to)
    /\ Become(IF Cleared(bare) THEN ActivateFront(Reordered(bare, i, to, to)) ELSE bare)

\* swapTabs, while a tab is dragged along the strip.
DragTab(i, to, bare) ==
    /\ MayReorder(i, to)
    /\ Become(IF Cleared(bare)
              THEN Reordered(bare, i, to, FrontAfterReorder(front, i, to)) ELSE bare)

\* Resizing or equalizing splits: what it does to ratios is left out.
Resize(bare) ==
    /\ \E i \in DOMAIN tabs : Cardinality(PanesOf(World, i)) > 1
    /\ Become(bare)

\* An action in a pane that has an undo of its own.
LocalAction == tabs # <<>> /\ Become(ClearRedo(World))

FocusPane(pane) == pane \in LivePanes(World) /\ Become(Activate(World, pane))

\* The prune timer, or the prune at the start of a push, an undo or a redo.
Expire(k) == k <= Len(undo) + Len(redo) /\ Become(ExpireOldest(World, k))

-----------------------------------------------------------------------------
(* Undo and redo.  A replay first finds what its entry names.                 *)

\* livePaneTabIndex and transferTreesMatchModel.
SameTab(w, p, q) == {p, q} \subseteq LivePanes(w) /\ TabAt(w, p) = TabAt(w, q)
HoldExactly(w, ids, panes) ==
    /\ panes \subseteq LivePanes(w)
    /\ panes = UNION {Panes(w.shell.tree[id]) : id \in ids \cap DOMAIN w.shell.tree}

CanUndo(w, e) ==
    CASE e.kind = "close" -> e.tab # NoTab
      [] e.kind = "split" -> ~e.detached /\ SameTab(w, e.at, e.pane)
      [] e.kind = "move"  -> /\ e.applied /\ e.tab # NoTab /\ e.target \in Ids(w)
                             /\ HoldExactly(w, {e.target}, EntryPanes(e))

CanRedo(w, e) ==
    CASE e.kind = "close" -> e.tab = NoTab /\ e.id \in Ids(w)
      [] e.kind = "split" -> e.detached /\ e.at \in LivePanes(w)
      [] e.kind = "move"  -> /\ ~e.applied /\ e.tab = NoTab /\ {e.id, e.target} \subseteq Ids(w)
                             /\ HoldExactly(w, {e.id, e.target}, EntryPanes(e))

Refusal(w, e) == [world |-> [w EXCEPT !.shell = Refused], entry |-> e]

\* restoreClosedTabEntry.
UndoneClose(w, e) ==
    LET i == Least(e.index, Len(w.tabs) + 1)
        next == Prepare(RestoreTab(w.shell, e.id, i, e.wasActive))
        behind == ~e.wasActive /\ w.tabs # <<>>
        back == [w EXCEPT !.tabs = InsertAt(@, i, e.tab), !.shell = next,
                          !.front = IF ~behind THEN i ELSE IF i <= @ THEN @ + 1 ELSE @]
    IN IF next = Refused THEN Refusal(w, e)
       ELSE [world |-> ActivateFront(IF behind THEN back ELSE Follow(back, next.focus[e.id])),
             entry |-> [e EXCEPT !.tab = NoTab, !.index = i]]

\* redoClosedTabEntry: hiding the tab in front moves the keyboard to the next
\* one, and with `noted` that is known before the model's half is committed.
RedoneClose(w, e, noted) ==
    LET i == IndexOf(w, e.id)
        cut == RemoveTab(w, i)
        told == IF noted THEN ActivateFront(cut) ELSE cut
        next == Prepare(DetachTab(told.shell, e.id))
        shut == [told EXCEPT !.shell = next]
    IN IF Prepare(DetachTab(w.shell, e.id)) = Refused THEN Refusal(w, e)
       ELSE [world |-> ActivateFront(IF w.shell.active = e.id THEN FollowActive(shut) ELSE shut),
             entry |-> [e EXCEPT !.tab = w.tabs[i], !.index = i, !.wasActive = (i = w.front)]]

UndoneSplit(w, e) ==
    LET next == Prepare(DetachPane(w.shell, e.pane))
        cut == [RemoveLeaf(w, e.pane) EXCEPT !.shell = next]
        id == w.tabs[TabAt(w, e.pane)].id
    IN IF next = Refused THEN Refusal(w, e)
       ELSE [world |-> ActivateFront(Follow(cut, next.focus[id])),
             entry |-> [e EXCEPT !.detached = TRUE]]

\* Mutant: the pane comes back on the left whatever side it was on.
RedoneSplitLeft(w, e) ==
    LET next == Prepare(RestorePane(w.shell, e.pane, e.at, "left"))
        back == [AddLeaf(w, e.at, e.pane, "left") EXCEPT !.shell = next]
    IN [world |-> Activate(back, e.pane), entry |-> [e EXCEPT !.detached = FALSE]]

RedoneSplit(w, e) ==
    LET next == Prepare(RestorePane(w.shell, e.pane, e.at, e.dir))
        back == [AddLeaf(w, e.at, e.pane, e.dir) EXCEPT !.shell = next]
    IN IF next = Refused THEN Refusal(w, e)
       ELSE [world |-> Activate(Follow(back, e.pane), e.pane),
             entry |-> [e EXCEPT !.detached = FALSE]]

\* The target tab swaps its tree and focus with the entry's, both ways.
Swapped(w, e) ==
    [w EXCEPT !.tabs = [i \in DOMAIN @ |->
        IF @[i].id = e.target THEN NativeTab(e.target, e.tree, e.focus) ELSE @[i]]]

UndoneMove(w, e) ==
    LET next == Prepare(SetTransferApplied(w.shell, e.id, FALSE))
        target == w.tabs[IndexOf(w, e.target)]
        i == Least(e.index, Len(w.tabs) + 1)
        parted == [Swapped(w, e) EXCEPT !.tabs = InsertAt(@, i, e.tab), !.front = i,
                                        !.shell = next]
        back == Follow(parted, next.focus[e.id])
    IN IF next = Refused THEN Refusal(w, e)
       ELSE [world |-> Activate(back, back.tabs[i].focus),
             entry |-> [e EXCEPT !.tab = NoTab, !.index = i, !.applied = FALSE,
                                 !.tree = target.tree, !.focus = target.focus]]

RedoneMove(w, e) ==
    LET next == Prepare(SetTransferApplied(w.shell, e.id, TRUE))
        i == IndexOf(w, e.id)
        target == w.tabs[IndexOf(w, e.target)]
        rest == [Swapped(w, e) EXCEPT !.tabs = RemoveAt(@, i), !.shell = next]
        joined == [rest EXCEPT !.front = IndexOf(rest, e.target)]
    IN IF next = Refused THEN Refusal(w, e)
       ELSE [world |-> Activate(Follow(joined, next.focus[e.target]), w.tabs[i].focus),
             entry |-> [e EXCEPT !.tab = w.tabs[i], !.index = i, !.applied = TRUE,
                                 !.tree = target.tree, !.focus = target.focus]]

Undone(w, e) ==
    CASE e.kind = "close" -> UndoneClose(w, e)
      [] e.kind = "split" -> UndoneSplit(w, e)
      [] e.kind = "move"  -> UndoneMove(w, e)

Redone(w, e, noted) ==
    CASE e.kind = "close" -> RedoneClose(w, e, noted)
      [] e.kind = "split" -> RedoneSplit(w, e)
      [] e.kind = "move"  -> RedoneMove(w, e)

\* An entry that cannot be replayed goes, and the next one is tried.  The
\* model may refuse to let go of it: then it is left on the other list.
SkipUndo(w) ==
    LET e == Last(w.undo)
        gone == Dispose(w, e)
    IN IF CanUndo(w, e) THEN w
       ELSE [(IF gone.shell = Refused THEN [w EXCEPT !.redo = Append(@, e)] ELSE gone)
                EXCEPT !.undo = Front(@)]

SkipRedo(w) ==
    LET e == Last(w.redo)
        gone == Dispose(w, e)
    IN IF CanRedo(w, e) THEN w
       ELSE [(IF gone.shell = Refused THEN [w EXCEPT !.undo = Append(@, e)] ELSE gone)
                EXCEPT !.redo = Front(@)]

UndoSkipped(w) ==
    LET after[k \in 0 .. Len(w.undo)] == IF k = 0 THEN w ELSE SkipUndo(after[k - 1])
    IN after[Len(w.undo)]

RedoSkipped(w) ==
    LET after[k \in 0 .. Len(w.redo)] == IF k = 0 THEN w ELSE SkipRedo(after[k - 1])
    IN after[Len(w.redo)]

\* applyLatestStructuralUndo.  An entry the model refuses goes back.
AfterUndo(w) ==
    LET next == Undone(w, Last(w.undo))
    IN IF next.world.shell = Refused THEN w
       ELSE [next.world EXCEPT !.undo = Front(@), !.redo = Append(@, next.entry)]

\* applyLatestStructuralRedo.
AfterRedo(w, noted) ==
    LET next == Redone(w, Last(w.redo), noted)
    IN IF next.world.shell = Refused THEN w
       ELSE [next.world EXCEPT !.redo = Front(@), !.undo = Append(@, next.entry)]

Undo ==
    /\ undo # <<>>
    /\ \E w \in {UndoSkipped(World)} : Become(IF w.undo = <<>> THEN w ELSE AfterUndo(w))

Redo(noted) ==
    /\ redo # <<>>
    /\ \E w \in {RedoSkipped(World)} : Become(IF w.redo = <<>> THEN w ELSE AfterRedo(w, noted))

Next ==
    \/ \E i \in 1 .. Len(tabs) + 1 : NewTab(i)
    \/ \E pane \in alive, dir \in SplitSides : NewSplit(pane, dir)
    \/ \E i \in DOMAIN tabs : CloseTab(i)
    \/ \E bare \in {ClearHistory(World)} :
          \/ \E i \in DOMAIN tabs \ {front} :
             \E pane \in PanesOf(World, front), dir \in DropSides : DropTab(i, pane, dir, bare)
          \/ \E pane \in alive, noted \in alive \cup {None} : ClosePane(pane, noted, bare)
          \/ \E i \in DOMAIN tabs, right \in BOOLEAN : CloseTabsBeside(i, right, bare)
          \/ \E i, to \in DOMAIN tabs : MoveTab(i, to, bare)
          \/ \E i, to \in DOMAIN tabs : DragTab(i, to, bare)
          \/ Resize(bare)
    \/ LocalAction
    \/ \E pane \in alive : FocusPane(pane)
    \/ \E k \in 1 .. HistoryMax : Expire(k)
    \/ Undo
    \/ \E noted \in BOOLEAN : Redo(noted)

Spec == Init /\ [][Next]_vars

-----------------------------------------------------------------------------
(* Properties.                                                                *)

\* An entry is in the phase its list says.
InPhase(e, undoable) ==
    CASE e.kind = "close" -> (e.tab # NoTab) = undoable
      [] e.kind = "split" -> e.detached = ~undoable
      [] e.kind = "move"  -> e.applied = undoable /\ (e.tab # NoTab) = undoable

\* Whatever is done, undone, redone, refused or expired, the native side and
\* the shell model agree on the tabs and their order, on the tab in front, on
\* every split tree and on the pane that has the keyboard, which is one of the
\* tab's (validateShellNativeMapping; see AuditPasses for tabs behind).
MappingAgrees ==
    /\ IF tabs = <<>> THEN front = 1 ELSE front \in DOMAIN tabs
    /\ \A i \in DOMAIN tabs : tabs[i].focus \in PanesOf(World, i)
    /\ shell.tabs = [i \in DOMAIN tabs |-> tabs[i].id]
    /\ \A i \in DOMAIN tabs : shell.tree[tabs[i].id] = tabs[i].tree
    /\ tabs # <<>> =>
          /\ shell.active = tabs[front].id
          /\ shell.focus[shell.active] = tabs[front].focus

\* The audit the code runs at the end of every structural change also asks
\* this of the tabs behind the one in front (validateShellNativeMapping).  It
\* fails for the focus of a tab behind, after a drop was undone twice.
AuditPasses ==
    /\ MappingAgrees
    /\ \A i \in DOMAIN tabs : shell.focus[tabs[i].id] = tabs[i].focus

\* A program runs for as long as its pane can be seen or brought back and no
\* longer: no live tab names a pane that was freed, no pane is left running
\* that neither a tab nor one entry of the history holds, and none is held twice.
\* The entries are in the phase their list says, and within the lists' bound.
HeldPanes(e) ==
    CASE e.kind = "close" -> Panes(e.tab.tree)
      [] e.kind = "split" -> IF e.detached THEN {e.pane} ELSE {}
      [] e.kind = "move"  -> {}

PanesAccounted ==
    LET entries == undo \o redo
        held == UNION {HeldPanes(entries[i]) : i \in DOMAIN entries}
    IN /\ Len(entries) <= HistoryMax
       /\ \A e \in ToSet(undo) : InPhase(e, TRUE)
       /\ \A e \in ToSet(redo) : InPhase(e, FALSE)
       /\ alive = LivePanes(World) \cup held
       /\ LivePanes(World) \cap held = {}
       /\ \A i, j \in DOMAIN entries :
             i # j => HeldPanes(entries[i]) \cap HeldPanes(entries[j]) = {}
       /\ \A i, j \in DOMAIN tabs : i # j => PanesOf(World, i) \cap PanesOf(World, j) = {}

\* The shell model keeps an ID out of use exactly while an entry of the history
\* may bring back what it named, and stays valid by its own rules.
RetainedIsHeld ==
    /\ Valid(shell)
    /\ shell.keptPanes = {e.pane : e \in {x \in Entries : x.kind = "split" /\ x.detached}}
    /\ shell.kept = {e.id : e \in {x \in Entries : x.kind # "split" /\ x.tab # NoTab}}
    /\ DOMAIN shell.moves = {e.id : e \in {x \in Entries : x.kind = "move"}}

\* Undoing what was just done, or redone, shows the tabs and splits that were
\* there before it.
UndoReverts ==
    [][ undo' # <<>> /\ Last(undo') \notin ToSet(undo) =>
           \A w \in {World'} : CanUndo(w, Last(w.undo))
                                /\ Layout(AfterUndo(w)) = Layout(World) ]_vars

\* And whatever happened since, undoing the last change and redoing it, or
\* redoing one and undoing it, comes back to the same tabs and splits, the same
\* programs, the same history and the same IDs kept for it.  Undoing takes that
\* what came after the change and is not in the history any more left it alone:
\* a clear that got stuck may have disposed a split of the same pane, or the
\* closes of tabs that stood before a dropped tab's place.
Undisturbed(w, e) ==
    CASE e.kind = "close" -> TRUE
      [] e.kind = "split" ->
            \A tree \in {w.tabs[TabAt(w, e.pane)].tree} :
               Sibling(tree, PathOf(tree, e.pane)) = Single(e.at)
      [] e.kind = "move"  -> e.index <= Len(w.tabs) + 1

Same(w, v) ==
    /\ Layout(w) = Layout(v) /\ w.alive = v.alive
    /\ Len(w.undo) = Len(v.undo) /\ Len(w.redo) = Len(v.redo)
    /\ w.shell.kept = v.shell.kept /\ w.shell.keptPanes = v.shell.keptPanes
    /\ w.shell.tree = v.shell.tree

RoundTrips ==
    /\ undo # <<>> /\ CanUndo(World, Last(undo)) /\ Undisturbed(World, Last(undo)) =>
          \E back \in {AfterUndo(World)} : \E again \in {AfterRedo(back, FALSE)} :
             Same(again, World)
    /\ redo # <<>> /\ CanRedo(World, Last(redo)) =>
          \E again \in {AfterRedo(World, FALSE)} : \E back \in {AfterUndo(again)} :
             Same(back, World)

\* A history clear gets stuck exactly when a tab that another tab was dropped
\* into is closed and the drop is still there to undo: the clear, newest first,
\* would free the target of the drop before the drop.  And a tab is refused as
\* a drop's source exactly when a drop of it is still there to undo or redo.
\* No other disposal is refused: entries go when they expire, however many
\* expire together, and the redo list can always be cleared, so that a change
\* that was made is always recorded.
ClosesItsTarget(i, j) ==
    undo[i].kind = "move" /\ undo[j].kind = "close" /\ undo[j].id = undo[i].target

RefusalsExplained ==
    /\ ~Cleared(ClearHistory(World)) <=>
          \E i, j \in DOMAIN undo : i < j /\ ClosesItsTarget(i, j)
    /\ \A i \in DOMAIN tabs \ {front} :
          \A pane \in PanesOf(World, front), dir \in DropSides :
             Prepare(TransferSubtree(shell, tabs[i].id, pane, dir)) = Refused <=>
                \E e \in Entries : e.kind = "move" /\ e.id = tabs[i].id
    /\ \A k \in 1 .. Len(undo) + Len(redo) :
          LET w == ExpireOldest(World, k)
          IN Len(w.undo) + Len(w.redo) = Len(undo) + Len(redo) - k
    /\ ClearRedo(World).redo = <<>>

=============================================================================
