------------------------------ MODULE PaneTree ------------------------------
(* The split tree of a tab.  A tree is a function from the paths of its       *)
(* leaves to the panes in them: the path of a leaf lists the side, first or   *)
(* second, taken at every split from the root down.  Split ratios, the axis   *)
(* of a split and zoom are left out; the order of the two sides is not.  The  *)
(* shell model's node graph and the native SplitTree both have this shape.    *)
EXTENDS Naturals, Sequences, SequencesExt, Functions

First == 1
Second == 2

Panes(t) == Range(t)
Single(pane) == [path \in {<<>>} |-> pane]
PathOf(t, pane) == CHOOSE path \in DOMAIN t : t[path] = pane

Under(t, path) == {leaf \in DOMAIN t : IsPrefix(path, leaf)}
Rest(path, leaf) == SubSeq(leaf, Len(path) + 1, Len(leaf))

\* The branch of `t` at `path`, as a tree of its own.
Branch(t, path) ==
    [rest \in {Rest(path, leaf) : leaf \in Under(t, path)} |-> t[path \o rest]]

\* `t` with the branch at `path` replaced by the tree `u`.
Put(t, path, u) ==
    [leaf \in (DOMAIN t \ Under(t, path)) \cup {path \o rest : rest \in DOMAIN u} |->
        IF IsPrefix(path, leaf) THEN u[Rest(path, leaf)] ELSE t[leaf]]

Join(l, r) ==
    [leaf \in {<<First>> \o rest : rest \in DOMAIN l}
                 \cup {<<Second>> \o rest : rest \in DOMAIN r} |->
        IF Head(leaf) = First THEN l[Tail(leaf)] ELSE r[Tail(leaf)]]

\* The side on which a split in direction `dir` puts what is new.
NewSide(dir) == IF dir \in {"left", "up"} THEN First ELSE Second
OtherSide(side) == First + Second - side

\* `t` with the branch at `path` split, the tree `u` on the `dir` side of it.
Graft(t, path, u, dir) ==
    LET old == Branch(t, path)
    IN Put(t, path, IF NewSide(dir) = First THEN Join(u, old) ELSE Join(old, u))

\* The branch beside the leaf at `path`; its split goes when the leaf does.
Sibling(t, path) == Branch(t, Append(Front(path), OtherSide(Last(path))))
Cut(t, path) == Put(t, Front(path), Sibling(t, path))

\* The pane reached by taking the first side at every split.
FirstPane(t) ==
    t[CHOOSE leaf \in DOMAIN t : \A i \in DOMAIN leaf : leaf[i] = First]
=============================================================================
