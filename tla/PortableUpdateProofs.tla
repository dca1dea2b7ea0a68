------------------------ MODULE PortableUpdateProofs ------------------------
(***************************************************************************)
(* What is proved of PortableUpdate, for any managed files, any number of  *)
(* processes, requests and failures.                                       *)
(***************************************************************************)
EXTENDS PortableUpdate, TLAPS

AllOld == [e \in Entries |-> "old"]

\* No file has been replaced and the update may still be asked for.
Untouched == saved.staged /\ Unopened

\* The backup was lost, and a launch has closed the update for that.
GivenUp == lost /\ saved.phase = "none" /\ ~saved.staged

\* Who is here holds the launch lock.
Holding == Writing \cup {"watch", "judge", "relaunch", "spawn"}

\* The install when the entries in `left` have yet to be replaced.
Mix(left) == [e \in Entries |-> IF e \in left THEN "old" ELSE "new"]

----------------------------------------------------------------------------
(* The inductive invariant: the record, the stage directory, the install,  *)
(* and for each process what holds where it is.                            *)

\* An update under way has its stage, this feed, and the latest token.
Record ==
    /\ saved.phase # "none" => saved.staged /\ feed = "same"
    /\ saved.phase # "none" => saved.token = applies /\ applies > 0

\* A marked backup is complete; it is missing only if it was lost.
Store ==
    /\ manifest => backup = AllOld
    /\ ~Unopened /\ ~lost => manifest
    /\ lost => ~manifest /\ backup = Empty /\ ~Untouched

Install ==
    /\ Untouched => tree = AllOld
    /\ PhaseIsTrue

Locked(p) == proc[p].at \in Holding => launchLock = p

\* A backup is made for a pending update, under the state lock.
Backs(p) ==
    /\ proc[p].at \in {"backup", "commit"} =>
           stateLock = p /\ saved.phase = "pending" /\ proc[p].seen.token = applies
    /\ proc[p].at = "backup" =>
           ~manifest /\ \A e \in Entries \ proc[p].left : backup[e] = "old"
    /\ proc[p].at = "commit" => manifest

\* A swap follows the request it read, and knows what it has replaced.
Swaps(p) ==
    /\ proc[p].at \in {"displace", "swap", "sharein"} =>
           ~Untouched /\ proc[p].seen.token = applies
    /\ proc[p].at \in {"displace", "sharein"} \/ (proc[p].at = "swap" /\ proc[p].left # {})
           => saved.phase = "swapped" \/ GivenUp
    /\ proc[p].at = "displace" => tree = AllOld
    /\ proc[p].at = "swap" =>
           /\ proc[p].left = {} \/ "exe" \in proc[p].left
           /\ tree = Mix(proc[p].left)
    /\ proc[p].at = "sharein" =>
           /\ "exe" \in proc[p].left /\ "share" \notin proc[p].left
           /\ tree = [Mix(proc[p].left) EXCEPT !["share"] = "none"]

Rolls(p) ==
    /\ proc[p].at = "mark" => ~Untouched
    /\ proc[p].at \in {"unshare", "reshare", "copyshare", "restore"} =>
           saved.phase = "rollback" \/ GivenUp
    /\ proc[p].at = "cleanup" => Unopened

\* Launches that clean up, and windows that drop a foreign stage.
Books(p) ==
    /\ proc[p].at = "clean" => ~saved.staged
    /\ proc[p].at = "checked" => proc[p].seen.phase = "none" /\ feed # "same"

\* A token is given to a build of a whole install; what is about to be
\* confirmed, if it is still what is recorded, is one.
Confirms(p) ==
    /\ proc[p].token <= applies
    /\ saved.phase = "pending" => proc[p].token < applies
    /\ saved.phase = "swapped" /\ proc[p].token = applies => Whole("new")
    /\ proc[p].at \in {"hash", "confirming"} =>
          /\ proc[p].seen.phase = "swapped" /\ proc[p].seen.token <= applies
          /\ saved.phase = "pending" => proc[p].seen.token < applies
    /\ proc[p].at = "confirming" /\ saved = proc[p].seen => Whole("new")

Local(p) == Locked(p) /\ Backs(p) /\ Swaps(p) /\ Rolls(p) /\ Books(p) /\ Confirms(p)

IInv == Record /\ Store /\ Install /\ \A p \in Procs : Local(p)

\* Types, and noctty.exe is a build, in the install and in its backup.
ExeSound == tree["exe"] \in {"old", "new"} /\ backup["exe"] \in {"old", "new", "none"}
Types == TypeOK /\ ExeSound

----------------------------------------------------------------------------
(* Processes.                                                              *)

Ats == AppAt \cup HelperAt \cup {"gone"}
Aside(p) ==
    \A q \in Procs \ {p} :
        /\ proc'[q].at = proc[q].at /\ proc'[q].seen = proc[q].seen
        /\ proc'[q].token = proc[q].token /\ proc'[q].left = proc[q].left

\* p alone has moved.
Moved(p) == proc' \in [Procs -> Process] /\ Aside(p)

LEMMA GoneTyped == Gone \in Process /\ Gone.at = "gone" /\ Gone.token = 0
  BY ConstantsAssumption DEF Gone, Process, Unread, Saved, Phase

LEMMA GoMoves ==
    ASSUME Types, NEW p \in Procs, NEW at \in Ats, Go(p, at)
    PROVE  /\ Moved(p) /\ proc'[p].at = at /\ proc'[p].seen = proc[p].seen
           /\ proc'[p].token = proc[p].token /\ proc'[p].left = proc[p].left
  <1>1. proc[p] \in Process BY DEF Types, TypeOK
  <1>2. [proc[p] EXCEPT !.at = at] \in Process BY <1>1 DEF Process, Ats
  <1> QED BY <1>1, <1>2 DEF Types, TypeOK, Go, Moved, Aside, Process

LEMMA PastMoves ==
    ASSUME Types, NEW p \in Procs, Continue(p) \/ Open(p)
    PROVE  /\ Moved(p) /\ proc'[p].at \in {"confirm", "open"}
           /\ proc'[p].token \in {0, proc[p].token}
  <1>1. proc[p] \in Process BY DEF Types, TypeOK
  <1>2. ASSUME NEW at \in {"confirm", "open"}, NEW k \in {0, proc[p].token}
        PROVE  Past(p, at, k) \in Process /\ Past(p, at, k).at = at /\ Past(p, at, k).token = k
    <2>1. k \in 0 .. MaxApplies /\ at \in Ats /\ proc[p].exe \in {"old", "new"}
          /\ proc[p].boss \in Procs \cup {Nobody}
      BY <1>1, ConstantsAssumption DEF Process, Ats, AppAt
    <2> QED BY <2>1, GoneTyped DEF Past, Process, Ats
  <1>3. /\ Onward(p) \in Process /\ Onward(p).at = "confirm" /\ Onward(p).token = proc[p].token
        /\ Opened(p) \in Process /\ Opened(p).at = "open" /\ Opened(p).token = 0
    BY <1>2 DEF Onward, Opened
  <1> QED BY <1>3 DEF Types, TypeOK, Continue, Open, Moved, Aside

LEMMA EndedMoves ==
    ASSUME Types, NEW p \in Procs, NEW how \in {"ok", "failed"}
    PROVE  /\ Ended(p, how) \in [Procs -> Process] /\ Ended(p, how)[p] = Gone
           /\ \A q \in Procs \ {p} :
                 LET e == Ended(p, how)[q] IN
                 e.at = proc[q].at /\ e.seen = proc[q].seen
                 /\ e.token = proc[q].token /\ e.left = proc[q].left
  <1>1. ASSUME NEW q \in Procs, q # p
        PROVE  /\ Ended(p, how)[q] \in Process
               /\ Ended(p, how)[q].at = proc[q].at /\ Ended(p, how)[q].seen = proc[q].seen
               /\ Ended(p, how)[q].token = proc[q].token
               /\ Ended(p, how)[q].left = proc[q].left
    <2>1. proc[q] \in Process BY DEF Types, TypeOK
    <2>2. Ended(p, how)[q] \in {[proc[q] EXCEPT !.kid = how], [proc[q] EXCEPT !.boss = Nobody],
                                proc[q]}
      BY <1>1 DEF Ended
    <2> QED BY <2>1, <2>2 DEF Process
  <1>2. Ended(p, how)[p] = Gone BY DEF Ended
  <1>3. Ended(p, how) = [q \in Procs |-> Ended(p, how)[q]] BY DEF Ended
  <1> QED BY <1>1, <1>2, <1>3, GoneTyped

LEMMA ExitMoves ==
    ASSUME Types, NEW p \in Procs, NEW how \in {"ok", "failed"}, Exit(p, how)
    PROVE  Moved(p) /\ proc'[p] = Gone
  BY EndedMoves, Zenon DEF Exit, Moved, Aside

LEMMA ReplaceMoves ==
    ASSUME Types, NEW p \in Procs, NEW started \in Process, Replace(p, started)
    PROVE  Moved(p) /\ proc'[p] = started
  <1>1. Ended(p, "ok") \in [Procs -> Process] BY EndedMoves
  <1>2. proc' = [Ended(p, "ok") EXCEPT ![p] = started] BY DEF Replace
  <1>3. proc' \in [Procs -> Process] /\ proc'[p] = started BY <1>1, <1>2
  <1>4. \A q \in Procs \ {p} : proc'[q] = Ended(p, "ok")[q] BY <1>1, <1>2
  <1>5. Aside(p) BY <1>4, EndedMoves DEF Aside
  <1> QED BY <1>3, <1>5 DEF Moved

LEMMA StartedTyped ==
    ASSUME Types
    PROVE  /\ \A at \in Ats, k \in 0 .. MaxApplies :
                 App(at, k) \in Process /\ App(at, k).at = at /\ App(at, k).token = k
           /\ \A m \in {"swap", "rollback"} :
                 Helper(m) \in Process /\ Helper(m).at = "claim" /\ Helper(m).token = 0
  <1>1. tree["exe"] \in {"old", "new"} /\ 0 \in 0 .. MaxApplies
    BY ConstantsAssumption DEF Types, ExeSound
  <1>2. ASSUME NEW at \in Ats, NEW k \in 0 .. MaxApplies
        PROVE  App(at, k) \in Process /\ App(at, k).at = at /\ App(at, k).token = k
    BY <1>1, GoneTyped DEF App, Process, Ats
  <1>3. ASSUME NEW m \in {"swap", "rollback"}
        PROVE  Helper(m) \in Process /\ Helper(m).at = "claim" /\ Helper(m).token = 0
    BY <1>1, GoneTyped DEF Helper, Process, HelperAt
  <1> QED BY <1>2, <1>3

----------------------------------------------------------------------------
(* A step that leaves what is shared alone.                                *)

Shared == <<saved, feed, tree, backup, manifest, applies, lost>>

\* Nobody but p loses a lock.
LocksKept(p) ==
    \A q \in Procs \ {p} : /\ launchLock = q => launchLock' = q
                           /\ stateLock = q => stateLock' = q

LEMMA ReleasedKeeps ==
    ASSUME NEW p \in Procs, NEW lock, NEW next, next \in {lock, Released(lock, p)}
    PROVE  \A q \in Procs \ {p} : lock = q => next = q
  BY DEF Released

Plain == {"load", "match", "probe", "recoverable", "lock", "abandon", "finalize",
          "confirm", "open", "claim", "recover", "gone"}
Bare == {"verify", "watch", "judge", "relaunch", "spawn"}

\* Where p goes, nothing is asked of it but the launch lock.
Settles(p) ==
    /\ proc'[p].at \in Plain \/ (proc'[p].at \in Bare /\ launchLock' = p)
    /\ proc'[p].token = 0 \/ proc'[p].token = proc[p].token

LEMMA OneHolds ==
    ASSUME IInv, NEW p \in Procs, proc[p].at \in Holding
    PROVE  \A q \in Procs \ {p} : proc[q].at \notin Holding
  BY DEF IInv, Local, Locked

\* Nothing is asked of a process for the helper's work if it does not work.
LEMMA IdleLocal ==
    ASSUME NEW q \in Procs, proc[q].at \notin Holding
    PROVE  Locked(q) /\ Backs(q) /\ Swaps(q) /\ Rolls(q)
  BY DEF Locked, Backs, Swaps, Rolls, Holding, Writing

LEMMA OthersLocked ==
    ASSUME IInv, NEW p \in Procs, Aside(p), LocksKept(p)
    PROVE  \A q \in Procs \ {p} : Locked(q)'
  BY DEF IInv, Local, Locked, Aside, LocksKept

\* What is asked of q stays so while nothing of it changes.
LEMMA OneKept ==
    ASSUME NEW q \in Procs, Local(q), UNCHANGED Shared,
           launchLock = q => launchLock' = q, stateLock = q => stateLock' = q,
           proc'[q].at = proc[q].at, proc'[q].seen = proc[q].seen,
           proc'[q].token = proc[q].token, proc'[q].left = proc[q].left
    PROVE  Local(q)'
  <1>1. UNCHANGED <<saved, feed, tree, backup, manifest, applies, lost>> BY DEF Shared
  <1>2. Locked(q)' /\ Backs(q)' BY <1>1 DEF Local, Locked, Backs
  <1>3. Swaps(q)' BY <1>1, Zenon DEF Local, Swaps, Untouched, Unopened, GivenUp, Mix, AllOld
  <1>4. Rolls(q)' /\ Books(q)'
    BY <1>1, Zenon DEF Local, Rolls, Books, Untouched, Unopened, GivenUp
  <1>5. Confirms(q)' BY <1>1, Zenon DEF Local, Confirms, Whole
  <1> QED BY <1>2, <1>3, <1>4, <1>5 DEF Local

LEMMA OthersKept ==
    ASSUME IInv, NEW p \in Procs, Aside(p), LocksKept(p), UNCHANGED Shared
    PROVE  \A q \in Procs \ {p} : Local(q)'
  BY OneKept DEF IInv, Aside, LocksKept

LEMMA PlainLocal ==
    ASSUME Types, IInv, NEW p \in Procs, Settles(p), UNCHANGED Shared
    PROVE  Local(p)'
  <1>1. Locked(p)' BY DEF Settles, Locked, Plain, Bare, Holding, Writing
  <1>2. Backs(p)' /\ Swaps(p)' /\ Rolls(p)' /\ Books(p)'
    BY DEF Settles, Backs, Swaps, Rolls, Books, Plain, Bare
  <1>3. applies \in Nat /\ applies' = applies /\ saved' = saved /\ tree' = tree
    BY ConstantsAssumption DEF Types, TypeOK, Shared
  <1>4. /\ proc[p].token <= applies /\ (saved.phase = "pending" => proc[p].token < applies)
        /\ (saved.phase = "swapped" /\ proc[p].token = applies => Whole("new"))
        /\ (saved.phase # "none" => applies > 0)
    BY DEF IInv, Local, Confirms, Record
  <1>5. Whole("new")' <=> Whole("new") BY <1>3 DEF Whole
  <1>6. Confirms(p)' BY <1>3, <1>4, <1>5 DEF Confirms, Settles, Plain, Bare
  <1> QED BY <1>1, <1>2, <1>6 DEF Local

LEMMA SharedKept ==
    ASSUME IInv, UNCHANGED Shared
    PROVE  Record' /\ Store' /\ Install'
  <1>1. UNCHANGED <<saved, feed, tree, backup, manifest, applies, lost>> BY DEF Shared
  <1> QED BY <1>1, Zenon DEF IInv, Record, Store, Install, PhaseIsTrue, Untouched, Unopened,
                             AllOld, Empty, Whole

LocksTyped == {stateLock', launchLock'} \subseteq Procs \cup {Nobody}

\* What a step that changes nothing shared leaves of the rest.
Quiet == UNCHANGED Shared /\ displaced' \in Version /\ faults' \in 0 .. MaxFaults

LEMMA SharedTyped ==
    ASSUME Types, Quiet, LocksTyped, proc' \in [Procs -> Process]
    PROVE  Types'
  <1>1. /\ UNCHANGED <<saved, feed, tree, backup, manifest, applies, lost>>
        /\ displaced' \in Version /\ faults' \in 0 .. MaxFaults
    BY DEF Quiet, Shared
  <1> QED BY <1>1 DEF Types, TypeOK, ExeSound, LocksTyped

\* A step of p that leaves what is shared alone.
LEMMA StepsTo ==
    ASSUME Types, IInv, NEW p \in Procs, Moved(p), Quiet, LocksKept(p), LocksTyped,
           Local(p)'
    PROVE  Types' /\ IInv'
  <1>1. UNCHANGED Shared BY DEF Quiet
  <1>2. IInv' BY <1>1, OthersKept, SharedKept, Zenon DEF IInv, Moved
  <1> QED BY <1>2, SharedTyped DEF Moved

LEMMA Steps ==
    ASSUME Types, IInv, NEW p \in Procs, Moved(p), Quiet, LocksKept(p), LocksTyped,
           Settles(p)
    PROVE  Types' /\ IInv'
  BY StepsTo, PlainLocal DEF Quiet

LEMMA SameLocks ==
    ASSUME Types, NEW p \in Procs, UNCHANGED locks
    PROVE  LocksKept(p) /\ LocksTyped
  BY DEF Types, TypeOK, locks, LocksKept, LocksTyped

LEMMA ReleasedLocks ==
    ASSUME Types, NEW p \in Procs, stateLock' \in {stateLock, Released(stateLock, p)},
           launchLock' \in {launchLock, Released(launchLock, p)}
    PROVE  LocksKept(p) /\ LocksTyped
  BY DEF Types, TypeOK, Released, LocksKept, LocksTyped

LEMMA GoStep ==
    ASSUME Types, IInv, NEW p \in Procs, NEW at \in Plain, Go(p, at), Quiet,
           LocksKept(p), LocksTyped
    PROVE  Types' /\ IInv'
  <1>1. at \in Ats BY DEF Plain, Ats, AppAt, HelperAt
  <1> QED BY <1>1, GoMoves, Steps DEF Settles

LEMMA PastStep ==
    ASSUME Types, IInv, NEW p \in Procs, Continue(p) \/ Open(p), Quiet,
           LocksKept(p), LocksTyped
    PROVE  Types' /\ IInv'
  BY PastMoves, Steps DEF Settles, Plain

LEMMA ExitStep ==
    ASSUME Types, IInv, NEW p \in Procs, Exit(p, "ok") \/ Exit(p, "failed"), Quiet
    PROVE  Types' /\ IInv'
  <1>1. LocksKept(p) /\ LocksTyped BY ReleasedLocks DEF Exit
  <1>2. Moved(p) /\ proc'[p] = Gone BY ExitMoves
  <1> QED BY <1>1, <1>2, GoneTyped, Steps DEF Settles, Plain

LEMMA ReplaceStep ==
    ASSUME Types, IInv, NEW p \in Procs, NEW started \in Process, Replace(p, started),
           started.at \in Plain, started.token = 0, Quiet
    PROVE  Types' /\ IInv'
  <1>1. LocksKept(p) /\ LocksTyped BY ReleasedLocks DEF Replace
  <1>2. Moved(p) /\ proc'[p] = started BY ReplaceMoves
  <1> QED BY <1>1, <1>2, Steps DEF Settles

----------------------------------------------------------------------------
(* A launch.                                                               *)

LEMMA UnfaultedQuiet ==
    ASSUME Types, UNCHANGED <<saved, feed, disk, applies, lost>>, faults' = faults \/ Fault
    PROVE  Quiet
  BY ConstantsAssumption DEF Types, TypeOK, Quiet, Shared, disk, Fault

LEMMA StartInv ==
    ASSUME Types, IInv, NEW p \in Procs, Start(p)
    PROVE  Types' /\ IInv'
  <1>1. 0 \in 0 .. MaxApplies /\ "load" \in Ats
    BY ConstantsAssumption DEF Ats, AppAt
  <1>2. App("load", 0) \in Process /\ App("load", 0).at = "load" /\ App("load", 0).token = 0
    BY <1>1, StartedTyped
  <1>3. Moved(p) /\ proc'[p] = App("load", 0)
    BY <1>2 DEF Start, Moved, Aside, Types, TypeOK
  <1>4. Quiet /\ LocksKept(p) /\ LocksTyped
    BY UnfaultedQuiet, SameLocks DEF Start
  <1> QED BY <1>2, <1>3, <1>4, Steps DEF Settles, Plain

LEMMA LoadInv ==
    ASSUME Types, IInv, NEW p \in Procs, Load(p)
    PROVE  Types' /\ IInv'
  <1>1. Quiet /\ LocksKept(p) /\ LocksTyped
    BY UnfaultedQuiet, SameLocks DEF Load
  <1>2. CASE saved.phase = "none"
    <2>1. Continue(p) BY <1>2 DEF Load, Continue
    <2> QED BY <2>1, <1>1, PastStep
  <1>3. CASE saved.phase # "none"
    <2>1. proc' = [proc EXCEPT ![p].at = "match", ![p].seen = saved] BY <1>3 DEF Load
    <2>2. proc[p] \in Process /\ saved \in Saved BY DEF Types, TypeOK
    <2>3. [proc[p] EXCEPT !.at = "match", !.seen = saved] \in Process
      BY <2>2 DEF Process, AppAt
    <2>4. Moved(p) /\ proc'[p].at = "match" /\ proc'[p].token = proc[p].token
      BY <2>1, <2>2, <2>3 DEF Moved, Aside, Types, TypeOK, Process
    <2> QED BY <1>1, <2>4, Steps DEF Settles, Plain
  <1> QED BY <1>2, <1>3

LEMMA MatchInv ==
    ASSUME Types, IInv, NEW p \in Procs, Match(p)
    PROVE  Types' /\ IInv'
  <1>1. Quiet BY UnfaultedQuiet DEF Match
  <1>2. CASE proc[p].seen.staged
    <2>1. /\ proc' = [proc EXCEPT ![p].at = "probe",
                            ![p].match = proc[p].seen.phase = "swapped"
                                         /\ proc[p].exe = "new" /\ Whole("new")]
          /\ UNCHANGED locks
      BY <1>2 DEF Match
    <2>2. proc[p] \in Process BY DEF Types, TypeOK
    <2>3. [proc[p] EXCEPT !.at = "probe",
                          !.match = proc[p].seen.phase = "swapped"
                                    /\ proc[p].exe = "new" /\ Whole("new")] \in Process
      BY <2>2 DEF Process, AppAt
    <2>4. Moved(p) /\ proc'[p].at = "probe" /\ proc'[p].token = proc[p].token
      BY <2>1, <2>2, <2>3 DEF Moved, Aside, Types, TypeOK, Process
    <2>5. LocksKept(p) /\ LocksTyped BY <2>1, SameLocks
    <2> QED BY <1>1, <2>4, <2>5, Steps DEF Settles, Plain
  <1>3. CASE ~proc[p].seen.staged /\ proc[p].seen.phase = "pending"
    <2>1. Go(p, "abandon") /\ LocksKept(p) /\ LocksTyped BY <1>3, SameLocks DEF Match
    <2> QED BY <1>1, <2>1, GoStep DEF Plain
  <1>4. CASE ~proc[p].seen.staged /\ proc[p].seen.phase # "pending"
    BY <1>1, <1>4, ExitStep DEF Match
  <1> QED BY <1>2, <1>3, <1>4

LEMMA ProbeInv ==
    ASSUME Types, IInv, NEW p \in Procs, Probe(p)
    PROVE  Types' /\ IInv'
  <1>1. Quiet BY UnfaultedQuiet DEF Probe
  <1>2. CASE Exit(p, "ok") BY <1>1, <1>2, ExitStep
  <1>3. CASE ~Exit(p, "ok")
    <2>1. /\ UNCHANGED locks
          /\ \/ Continue(p)
             \/ Go(p, "finalize")
             \/ proc' = [proc EXCEPT ![p].at = "recoverable", ![p].mode = Decision(p)]
                /\ Decision(p) \in {"swap", "rollback"}
      BY <1>3 DEF Probe, Decision
    <2>2. LocksKept(p) /\ LocksTyped BY <2>1, SameLocks
    <2>3. CASE Continue(p) BY <1>1, <2>2, <2>3, PastStep
    <2>4. CASE Go(p, "finalize") BY <1>1, <2>2, <2>4, GoStep DEF Plain
    <2>5. CASE proc' = [proc EXCEPT ![p].at = "recoverable", ![p].mode = Decision(p)]
               /\ Decision(p) \in {"swap", "rollback"}
      <3>1. proc[p] \in Process BY DEF Types, TypeOK
      <3>2. [proc[p] EXCEPT !.at = "recoverable", !.mode = Decision(p)] \in Process
        BY <2>5, <3>1 DEF Process, AppAt
      <3>3. Moved(p) /\ proc'[p].at = "recoverable" /\ proc'[p].token = proc[p].token
        BY <2>5, <3>1, <3>2 DEF Moved, Aside, Types, TypeOK, Process
      <3> QED BY <1>1, <2>2, <3>3, Steps DEF Settles, Plain
    <2> QED BY <2>1, <2>3, <2>4, <2>5
  <1> QED BY <1>2, <1>3

LEMMA LaunchFailsInv ==
    ASSUME Types, IInv, NEW p \in Procs, LaunchFails(p), Quiet
    PROVE  Types' /\ IInv'
  <1>1. CASE proc[p].mode = "swap"
    <2>1. Go(p, "abandon") /\ LocksKept(p) /\ LocksTyped
      BY <1>1, ReleasedLocks DEF LaunchFails
    <2> QED BY <2>1, GoStep DEF Plain
  <1>2. CASE proc[p].mode # "swap" BY <1>2, ExitStep DEF LaunchFails
  <1> QED BY <1>1, <1>2

LEMMA TakeLaunchLockInv ==
    ASSUME Types, IInv, NEW p \in Procs, TakeLaunchLock(p)
    PROVE  Types' /\ IInv'
  <1>1. Quiet BY UnfaultedQuiet DEF TakeLaunchLock
  <1>2. CASE Exit(p, "ok") BY <1>1, <1>2, ExitStep
  <1>3. CASE ~Exit(p, "ok")
    <2>1. launchLock = Nobody /\ launchLock' = p /\ Go(p, "spawn") /\ UNCHANGED stateLock
      BY <1>3 DEF TakeLaunchLock, Held
    <2>2. LocksKept(p) /\ LocksTyped
      BY <2>1, ConstantsAssumption DEF LocksKept, LocksTyped, Types, TypeOK
    <2>3. Moved(p) /\ proc'[p].at = "spawn" /\ proc'[p].token = proc[p].token
      BY <2>1, GoMoves DEF Ats, AppAt
    <2> QED BY <1>1, <2>1, <2>2, <2>3, Steps DEF Settles, Bare
  <1> QED BY <1>2, <1>3

LEMMA SpawnHelperInv ==
    ASSUME Types, IInv, NEW p \in Procs, SpawnHelper(p)
    PROVE  Types' /\ IInv'
  <1>1. Quiet BY UnfaultedQuiet DEF SpawnHelper
  <1>2. launchLock = p
    BY DEF SpawnHelper, At, IInv, Local, Locked, Holding
  <1>3. CASE ~saved.staged BY <1>1, <1>3, LaunchFailsInv DEF SpawnHelper
  <1>4. CASE saved.staged /\ saved.phase = "none"
    <2>1. Continue(p) /\ launchLock' = Nobody /\ UNCHANGED stateLock
      BY <1>4 DEF SpawnHelper
    <2>2. LocksKept(p) /\ LocksTyped BY <1>2, <2>1, ReleasedLocks DEF Released
    <2> QED BY <1>1, <2>1, <2>2, PastStep
  <1>5. CASE saved.staged /\ saved.phase # "none" /\ ~StillWanted(proc[p].mode)
    BY <1>1, <1>5, ExitStep DEF SpawnHelper
  <1>6. CASE saved.staged /\ saved.phase # "none" /\ StillWanted(proc[p].mode)
    <2>1. Replace(p, Helper(proc[p].mode)) BY <1>6 DEF SpawnHelper
    <2>2. /\ proc[p].mode \in {"app", "swap", "rollback"}
          /\ tree["exe"] \in {"old", "new"}
      BY DEF Types, TypeOK, ExeSound, Process
    <2>3. Helper(proc[p].mode) \in Process /\ Helper(proc[p].mode).at = "claim"
          /\ Helper(proc[p].mode).token = 0
      BY <2>2, GoneTyped DEF Helper, Process, HelperAt
    <2> QED BY <1>1, <2>1, <2>3, ReplaceStep DEF Plain
  <1> QED BY <1>3, <1>4, <1>5, <1>6

LEMMA LaunchFaultInv ==
    ASSUME Types, IInv, NEW p \in Procs, LaunchFault(p)
    PROVE  Types' /\ IInv'
  BY UnfaultedQuiet, LaunchFailsInv DEF LaunchFault

----------------------------------------------------------------------------
(* A window.                                                               *)

\* The token of a process keeps to the bounds while the record does.
LEMMA TokenKept ==
    ASSUME Types, IInv, NEW p \in Procs, UNCHANGED Shared, proc'[p].token = proc[p].token,
           proc'[p].at \notin {"hash", "confirming"}
    PROVE  Confirms(p)'
  <1>1. UNCHANGED <<saved, applies, tree>> BY DEF Shared
  <1>2. Confirms(p) BY DEF IInv, Local
  <1> QED BY <1>1, <1>2 DEF Confirms, Whole

LEMMA ConfirmInv ==
    ASSUME Types, IInv, NEW p \in Procs, Confirm(p)
    PROVE  Types' /\ IInv'
  <1>1. Quiet /\ LocksKept(p) /\ LocksTyped BY UnfaultedQuiet, SameLocks DEF Confirm
  <1>2. CASE saved.phase = "swapped" /\ saved.staged
    <2>1. proc' = [proc EXCEPT ![p].at = "hash", ![p].seen = saved] BY <1>2 DEF Confirm
    <2>2. proc[p] \in Process /\ saved \in Saved BY DEF Types, TypeOK
    <2>3. [proc[p] EXCEPT !.at = "hash", !.seen = saved] \in Process
      BY <2>2 DEF Process, AppAt
    <2>4. /\ Moved(p) /\ proc'[p].at = "hash" /\ proc'[p].token = proc[p].token
          /\ proc'[p].seen = saved
      BY <2>1, <2>2, <2>3 DEF Moved, Aside, Types, TypeOK, Process
    <2>5. UNCHANGED <<saved, applies, tree>> /\ applies \in Nat
      BY <1>1, ConstantsAssumption DEF Quiet, Shared, Types, TypeOK
    <2>6. Confirms(p) /\ saved.token = applies BY <1>2 DEF IInv, Local, Record
    <2>7. Confirms(p)' BY <1>2, <2>4, <2>5, <2>6 DEF Confirms, Whole
    <2>8. Locked(p)' /\ Backs(p)' /\ Swaps(p)' /\ Rolls(p)' /\ Books(p)'
      BY <2>4 DEF Locked, Backs, Swaps, Rolls, Books, Holding, Writing
    <2> QED BY <1>1, <2>4, <2>7, <2>8, StepsTo DEF Local
  <1>3. CASE ~(saved.phase = "swapped" /\ saved.staged)
    <2>1. Open(p) BY <1>3 DEF Confirm, Open
    <2> QED BY <1>1, <2>1, PastStep
  <1> QED BY <1>2, <1>3

LEMMA HashInv ==
    ASSUME Types, IInv, NEW p \in Procs, Hash(p)
    PROVE  Types' /\ IInv'
  <1>1. Quiet /\ LocksKept(p) /\ LocksTyped BY UnfaultedQuiet, SameLocks DEF Hash
  <1>2. CASE Open(p) BY <1>1, <1>2, PastStep
  <1>3. CASE ~Open(p)
    <2>1. Go(p, "confirming") /\ (Whole("new") \/ proc[p].token = proc[p].seen.token)
      BY <1>3 DEF Hash
    <2>2. /\ Moved(p) /\ proc'[p].at = "confirming" /\ proc'[p].token = proc[p].token
          /\ proc'[p].seen = proc[p].seen
      BY <2>1, GoMoves DEF Ats, AppAt
    <2>3. UNCHANGED <<saved, applies, tree>> /\ Confirms(p) /\ proc[p].at = "hash"
      BY <1>1 DEF Quiet, Shared, IInv, Local, Hash, At
    <2>4. saved = proc[p].seen => Whole("new")
      BY <2>1, <2>3 DEF Confirms, IInv, Record
    <2>5. Confirms(p)' BY <2>2, <2>3, <2>4 DEF Confirms, Whole
    <2>6. Locked(p)' /\ Backs(p)' /\ Swaps(p)' /\ Rolls(p)' /\ Books(p)'
      BY <2>2 DEF Locked, Backs, Swaps, Rolls, Books, Holding, Writing
    <2> QED BY <1>1, <2>2, <2>5, <2>6, StepsTo DEF Local
  <1> QED BY <1>2, <1>3

LEMMA QuitInv ==
    ASSUME Types, IInv, NEW p \in Procs, Quit(p)
    PROVE  Types' /\ IInv'
  BY UnfaultedQuiet, ExitStep DEF Quit

LEMMA CheckInv ==
    ASSUME Types, IInv, NEW p \in Procs, Check(p)
    PROVE  Types' /\ IInv'
  <1>1. Quiet /\ LocksKept(p) /\ LocksTyped BY UnfaultedQuiet, SameLocks DEF Check
  <1>2. proc' = [proc EXCEPT ![p].at = "checked", ![p].seen = saved] BY DEF Check
  <1>3. proc[p] \in Process /\ saved \in Saved BY DEF Types, TypeOK
  <1>4. [proc[p] EXCEPT !.at = "checked", !.seen = saved] \in Process
    BY <1>3 DEF Process, AppAt
  <1>5. /\ Moved(p) /\ proc'[p].at = "checked" /\ proc'[p].token = proc[p].token
        /\ proc'[p].seen = saved
    BY <1>2, <1>3, <1>4 DEF Moved, Aside, Types, TypeOK, Process
  <1>6. feed' = feed /\ feed = "other" /\ saved.phase = "none"
    BY <1>1 DEF Check, IInv, Record, Quiet, Shared
  <1>7. Books(p)' BY <1>5, <1>6 DEF Books
  <1>8. Confirms(p)' BY <1>1, <1>5, TokenKept DEF Quiet
  <1>9. Locked(p)' /\ Backs(p)' /\ Swaps(p)' /\ Rolls(p)'
    BY <1>5 DEF Locked, Backs, Swaps, Rolls, Holding, Writing
  <1> QED BY <1>1, <1>5, <1>7, <1>8, <1>9, StepsTo DEF Local

----------------------------------------------------------------------------
(* The helper, where it only moves.                                        *)

LEMMA BareStep ==
    ASSUME Types, IInv, NEW p \in Procs, NEW at \in Bare, Go(p, at), Quiet,
           LocksKept(p), LocksTyped, launchLock' = p
    PROVE  Types' /\ IInv'
  <1>1. at \in Ats BY DEF Bare, Ats, AppAt, HelperAt
  <1> QED BY <1>1, GoMoves, Steps DEF Settles

LEMMA MarkStep ==
    ASSUME Types, IInv, NEW p \in Procs, Go(p, "mark"), Quiet,
           LocksKept(p), LocksTyped, launchLock' = p, ~Untouched
    PROVE  Types' /\ IInv'
  <1>1. Moved(p) /\ proc'[p].at = "mark" /\ proc'[p].token = proc[p].token
    BY GoMoves DEF Ats, HelperAt
  <1>2. UNCHANGED saved BY DEF Quiet, Shared
  <1>3. Rolls(p)' BY <1>1, <1>2 DEF Rolls, Untouched, Unopened
  <1>4. Confirms(p)' BY <1>1, TokenKept DEF Quiet
  <1>5. Locked(p)' /\ Backs(p)' /\ Swaps(p)' /\ Books(p)'
    BY <1>1 DEF Locked, Backs, Swaps, Books
  <1> QED BY <1>1, <1>3, <1>4, <1>5, StepsTo DEF Local

LEMMA ClaimInv ==
    ASSUME Types, IInv, NEW p \in Procs, Claim(p)
    PROVE  Types' /\ IInv'
  <1>1. Quiet BY UnfaultedQuiet DEF Claim
  <1>2. CASE UNCHANGED launchLock /\ Go(p, "recover")
    <2>1. LocksKept(p) /\ LocksTyped BY <1>2, ReleasedLocks DEF Claim
    <2> QED BY <1>1, <1>2, <2>1, GoStep DEF Plain
  <1>3. CASE ~(UNCHANGED launchLock /\ Go(p, "recover"))
    <2>1. /\ saved.staged /\ launchLock = Nobody /\ launchLock' = p
          /\ stateLock' = stateLock /\ StillWanted(proc[p].mode)
          /\ Go(p, IF proc[p].mode = "swap" THEN "verify" ELSE "mark")
      BY <1>3 DEF Claim
    <2>2. LocksKept(p) /\ LocksTyped
      BY <2>1, ConstantsAssumption DEF LocksKept, LocksTyped, Types, TypeOK
    <2>3. CASE proc[p].mode = "swap"
      BY <1>1, <2>1, <2>2, <2>3, BareStep DEF Bare
    <2>4. CASE proc[p].mode # "swap"
      <3>1. ~Untouched BY <2>1, <2>4 DEF StillWanted, Untouched, Unopened
      <3> QED BY <1>1, <2>1, <2>2, <2>4, <3>1, MarkStep
    <2> QED BY <2>3, <2>4
  <1> QED BY <1>2, <1>3

LEMMA BeginSwapInv ==
    ASSUME Types, IInv, NEW p \in Procs, BeginSwap(p)
    PROVE  Types' /\ IInv'
  <1>1. UNCHANGED Shared /\ UNCHANGED <<locks, faults>> /\ displaced' \in Version
    BY DEF BeginSwap, Shared, Types, TypeOK, Version
  <1>2. LocksKept(p) /\ LocksTyped BY <1>1, SameLocks
  <1>3. /\ proc[p].at = "displace" /\ proc[p] \in Process /\ Local(p) /\ launchLock = p
        /\ Untouched' = Untouched
    BY <1>1 DEF BeginSwap, At, Types, TypeOK, IInv, Local, Locked, Holding, Writing,
                Shared, Untouched, Unopened
  <1>4. Quiet BY <1>1 DEF Quiet, Types, TypeOK
  <1>5. CASE manifest
    <2>1. proc' = [proc EXCEPT ![p].at = "swap", ![p].left = Entries]
      BY <1>5 DEF BeginSwap
    <2>2. [proc[p] EXCEPT !.at = "swap", !.left = Entries] \in Process
      BY <1>3 DEF Process, HelperAt
    <2>3. /\ Moved(p) /\ proc'[p].at = "swap" /\ proc'[p].left = Entries
          /\ proc'[p].token = proc[p].token /\ proc'[p].seen = proc[p].seen
      BY <1>3, <2>1, <2>2 DEF Moved, Aside, Types, TypeOK, Process
    <2>4. tree' = AllOld /\ AllOld = Mix(Entries) /\ "exe" \in Entries
      BY <1>1, <1>3 DEF Local, Swaps, Shared, AllOld, Mix, Entries
    <2>5. UNCHANGED <<saved, lost, applies>> BY <1>1 DEF Shared
    <2>6. Swaps(p)'
      BY <1>3, <2>3, <2>4, <2>5 DEF Swaps, Local, GivenUp, Mix, AllOld
    <2>7. Confirms(p)' BY <1>1, <2>3, TokenKept
    <2>8. Locked(p)' /\ Backs(p)' /\ Rolls(p)' /\ Books(p)'
      BY <1>1, <1>3, <2>3 DEF Locked, Backs, Rolls, Books, locks
    <2> QED BY <1>2, <1>4, <2>3, <2>6, <2>7, <2>8, StepsTo DEF Local
  <1>6. CASE ~manifest
    <2>1. Go(p, "mark") /\ displaced' = displaced BY <1>6 DEF BeginSwap
    <2>2. ~Untouched /\ launchLock' = p BY <1>1, <1>3 DEF Local, Swaps, locks
    <2> QED BY <1>2, <1>4, <2>1, <2>2, MarkStep
  <1> QED BY <1>5, <1>6

LEMMA SpawnNewInv ==
    ASSUME Types, IInv, NEW p \in Procs, SpawnNew(p)
    PROVE  Types' /\ IInv'
  <1>0. PICK q \in Procs \ {p} :
        /\ At(q, "gone")
        /\ proc' = [proc EXCEPT ![p].at = "watch", ![p].kid = "running",
                     ![q] = [App("load", proc[p].seen.token) EXCEPT !.boss = p]]
    BY DEF SpawnNew
  <1>1. /\ proc[p] \in Process /\ proc[q] \in Process /\ proc[q].at = "gone"
        /\ proc[p].at = "swap" /\ proc[p].left = {}
    BY <1>0 DEF Types, TypeOK, SpawnNew, At
  <1>2. /\ Quiet /\ LocksTyped /\ UNCHANGED locks /\ launchLock = p
        /\ proc[p].seen.token = applies /\ tree = Mix({}) /\ ~Untouched
    BY <1>1, UnfaultedQuiet, SameLocks
    DEF SpawnNew, IInv, Local, Locked, Swaps, Holding, Writing
  <1> DEFINE kid == [App("load", proc[p].seen.token) EXCEPT !.boss = p]
             boss == [proc[p] EXCEPT !.at = "watch", !.kid = "running"]
  <1>3. kid \in Process /\ kid.at = "load" /\ kid.token = applies
    <2>1. "load" \in Ats /\ proc[p].seen.token \in 0 .. MaxApplies
      BY <1>1 DEF Ats, AppAt, Process, Saved
    <2>2. App("load", proc[p].seen.token) \in Process
          /\ App("load", proc[p].seen.token).at = "load"
          /\ App("load", proc[p].seen.token).token = proc[p].seen.token
      BY <2>1, StartedTyped
    <2> QED BY <1>2, <2>2 DEF Process
  <1>4. boss \in Process /\ boss.at = "watch" /\ boss.token = proc[p].token
    BY <1>1 DEF Process, HelperAt
  <1>5. proc' = [proc EXCEPT ![p] = boss, ![q] = kid] BY <1>0
  <1> HIDE DEF kid, boss
  <1>6. /\ proc' \in [Procs -> Process] /\ proc'[p] = boss /\ proc'[q] = kid
        /\ \A r \in Procs \ {p, q} : proc'[r] = proc[r]
    BY <1>3, <1>4, <1>5 DEF Types, TypeOK
  <1>7. UNCHANGED Shared /\ launchLock' = launchLock /\ stateLock' = stateLock
    BY <1>2 DEF Quiet, locks
  <1>8. Local(p)'
    <2>1. Settles(p) BY <1>2, <1>4, <1>6, <1>7 DEF Settles, Bare
    <2> QED BY <1>7, <2>1, PlainLocal
  <1>9. Local(q)'
    <2>1. /\ applies \in Nat /\ (saved.phase = "pending" => Untouched)
          /\ UNCHANGED <<saved, applies, tree>> /\ Whole("new")
      BY <1>2, <1>7, ConstantsAssumption
      DEF Types, TypeOK, IInv, Record, Untouched, Unopened, Shared, Whole, Mix
    <2>2. proc'[q].at = "load" /\ proc'[q].token = applies /\ applies <= applies
          /\ saved.phase # "pending" /\ Whole("new")'
      BY <1>2, <1>3, <1>6, <2>1 DEF Whole
    <2>4. Confirms(q)' BY <2>1, <2>2 DEF Confirms
    <2>3. Locked(q)' /\ Backs(q)' /\ Swaps(q)' /\ Rolls(q)' /\ Books(q)'
      BY <1>3, <1>6 DEF Locked, Backs, Swaps, Rolls, Books, Holding, Writing
    <2> QED BY <2>3, <2>4 DEF Local
  <1>10. \A r \in Procs \ {p, q} : Local(r)'
    BY <1>6, <1>7, OneKept DEF IInv
  <1>11. IInv' BY <1>7, <1>8, <1>9, <1>10, SharedKept DEF IInv
  <1> QED BY <1>2, <1>6, <1>11, SharedTyped

LEMMA StopWatchingInv ==
    ASSUME Types, IInv, NEW p \in Procs, StopWatching(p)
    PROVE  Types' /\ IInv'
  <1>1. Quiet BY UnfaultedQuiet DEF StopWatching
  <1>2. CASE saved.phase = "confirmed"
    BY <1>1, <1>2, SameLocks, GoStep DEF StopWatching, Plain
  <1>3. CASE saved.phase # "confirmed" BY <1>1, <1>3, ExitStep DEF StopWatching
  <1> QED BY <1>2, <1>3

LEMMA KidEndedInv ==
    ASSUME Types, IInv, NEW p \in Procs, KidEnded(p)
    PROVE  Types' /\ IInv'
  <1>1. Quiet BY UnfaultedQuiet DEF KidEnded
  <1>2. launchLock = p BY DEF KidEnded, At, IInv, Local, Locked, Holding
  <1>3. \/ Go(p, "judge") /\ UNCHANGED locks
        \/ Go(p, "finalize") /\ UNCHANGED locks
        \/ Exit(p, "ok")
    BY DEF KidEnded
  <1>4. CASE Go(p, "judge") /\ UNCHANGED locks
    BY <1>1, <1>2, <1>4, SameLocks, BareStep DEF Bare, locks
  <1>5. CASE Go(p, "finalize") /\ UNCHANGED locks
    BY <1>1, <1>5, SameLocks, GoStep DEF Plain
  <1>6. CASE Exit(p, "ok") BY <1>1, <1>6, ExitStep
  <1> QED BY <1>3, <1>4, <1>5, <1>6

LEMMA ReplaceApp ==
    ASSUME Types, IInv, NEW p \in Procs, NEW at \in {"load", "confirm"},
           Replace(p, App(at, 0)), Quiet
    PROVE  Types' /\ IInv'
  <1>1. at \in Ats /\ 0 \in 0 .. MaxApplies BY ConstantsAssumption DEF Ats, AppAt
  <1>2. App(at, 0) \in Process /\ App(at, 0).at = at /\ App(at, 0).token = 0
    BY <1>1, StartedTyped
  <1> QED BY <1>2, ReplaceStep DEF Plain

LEMMA RelaunchInv ==
    ASSUME Types, IInv, NEW p \in Procs, Relaunch(p)
    PROVE  Types' /\ IInv'
  BY UnfaultedQuiet, ReplaceApp DEF Relaunch

LEMMA RecoverStuckInv ==
    ASSUME Types, IInv, NEW p \in Procs, RecoverStuck(p)
    PROVE  Types' /\ IInv'
  BY UnfaultedQuiet, ReplaceApp DEF RecoverStuck

LEMMA AppFaultInv ==
    ASSUME Types, IInv, NEW p \in Procs, AppFault(p)
    PROVE  Types' /\ IInv'
  BY UnfaultedQuiet, SameLocks, PastStep DEF AppFault

LEMMA CrashInv ==
    ASSUME Types, IInv, NEW p \in Procs, Crash(p)
    PROVE  Types' /\ IInv'
  BY UnfaultedQuiet, ExitStep DEF Crash

LEMMA HelperFaultInv ==
    ASSUME Types, IInv, NEW p \in Procs, HelperFault(p)
    PROVE  Types' /\ IInv'
  <1>1. Quiet BY UnfaultedQuiet DEF HelperFault
  <1>2. LocksKept(p) /\ LocksTyped BY ReleasedLocks DEF HelperFault
  <1>3. Local(p) /\ launchLock' = launchLock BY DEF IInv, HelperFault
  <1>4. CASE Go(p, "recover") BY <1>1, <1>2, <1>4, GoStep DEF Plain
  <1>5. CASE At(p, "swap") /\ proc[p].left = {} /\ Go(p, "judge")
    <2>1. launchLock' = p BY <1>3, <1>5 DEF At, Local, Locked, Holding, Writing
    <2> QED BY <1>1, <1>2, <1>5, <2>1, BareStep DEF Bare
  <1>6. CASE (At(p, "displace") \/ At(p, "swap")) /\ Go(p, "mark")
    <2>1. launchLock' = p /\ ~Untouched
      BY <1>3, <1>6 DEF At, Local, Locked, Swaps, Holding, Writing
    <2> QED BY <1>1, <1>2, <1>6, <2>1, MarkStep
  <1> QED BY <1>4, <1>5, <1>6 DEF HelperFault

----------------------------------------------------------------------------
(* The record is closed: the stage is forgotten.                           *)

\* Nothing the swap has yet to replace is of the new build.
LEMMA UnfinishedOld ==
    ASSUME NEW q \in Procs, Swaps(q),
           \/ proc[q].at \in {"displace", "sharein"}
           \/ proc[q].at = "swap" /\ proc[q].left # {}
    PROVE  tree["exe"] = "old" /\ ~Whole("new")
  <1>1. tree["exe"] = "old"
    BY ConstantsAssumption DEF Swaps, Mix, AllOld, Entries
  <1> QED BY <1>1 DEF Whole, Entries

LEMMA Closes ==
    ASSUME Types, IInv, NEW p \in Procs, Moved(p), LocksKept(p), LocksTyped,
           UNCHANGED <<tree, applies, lost>>,
           UNCHANGED <<backup, manifest>>, displaced' \in Version, faults' \in 0 .. MaxFaults,
           saved' \in Saved, saved'.phase = "none", ~saved'.staged,
           feed' \in {feed, "checked"}, saved.phase # "pending",
           saved.phase \in {"swapped", "rollback"} => lost,
           proc'[p].at \in Plain \cup {"clean"},
           proc'[p].token = 0 \/ proc'[p].token = proc[p].token
    PROVE  Types' /\ IInv'
  <1>1. Types' BY DEF Types, TypeOK, ExeSound, Moved, LocksTyped
  <1>2. Record' /\ Store' BY DEF IInv, Record, Store, Untouched, Unopened, AllOld, Empty
  <1>3. Install'
    <2>1. ~lost => Whole("old") \/ Whole("new")
      BY DEF IInv, Install, PhaseIsTrue, Unopened, Types, TypeOK, Saved, Phase
    <2> QED BY <2>1 DEF Install, PhaseIsTrue, Untouched, Unopened, Whole
  <1>4. ASSUME NEW q \in Procs \ {p} PROVE Local(q)'
    <2>1. /\ Local(q) /\ Locked(q)' /\ proc'[q].at = proc[q].at
          /\ proc'[q].seen = proc[q].seen /\ proc'[q].token = proc[q].token
          /\ proc'[q].left = proc[q].left
      BY OthersLocked DEF IInv, Moved, Aside
    <2>2. Backs(q)' BY <2>1 DEF Local, Backs
    <2>3. saved.phase \in {"swapped", "rollback"} \/ GivenUp => GivenUp' BY DEF GivenUp
    <2>4. Swaps(q)'
      BY <2>1, <2>3 DEF Local, Swaps, Untouched, Mix, AllOld
    <2>5. Rolls(q)' BY <2>1, <2>3 DEF Local, Rolls, Untouched, Unopened
    <2>6. Books(q)' BY <2>1 DEF Local, Books
    <2>7. Confirms(q)' BY <2>1 DEF Local, Confirms
    <2> QED BY <2>1, <2>2, <2>4, <2>5, <2>6, <2>7 DEF Local
  <1>5. Local(p)'
    <2>1. Locked(p)' /\ Backs(p)' /\ Swaps(p)' /\ Rolls(p)' /\ Books(p)'
      BY DEF Locked, Backs, Swaps, Rolls, Books, Plain, Holding, Writing
    <2>2. proc[p].token <= applies /\ applies \in Nat
      BY ConstantsAssumption DEF IInv, Local, Confirms, Types, TypeOK
    <2>3. Confirms(p)' BY <2>2 DEF Confirms, Plain
    <2> QED BY <2>1, <2>3 DEF Local
  <1> QED BY <1>1, <1>2, <1>3, <1>4, <1>5 DEF IInv

LEMMA ClearedTyped ==
    Cleared \in Saved /\ Cleared.phase = "none" /\ ~Cleared.staged
  BY ConstantsAssumption DEF Cleared, Saved, Phase

LEMMA RecoverableInv ==
    ASSUME Types, IInv, NEW p \in Procs, Recoverable(p)
    PROVE  Types' /\ IInv'
  <1>1. UNCHANGED <<feed, tree, backup, manifest, displaced, applies, faults, lost>>
    BY DEF Recoverable, disk
  <1>2. CASE saved.staged /\ saved.phase \in {"swapped", "rollback"} /\ ~manifest
    <2>1. saved' = Cleared /\ Continue(p) /\ UNCHANGED locks BY <1>2 DEF Recoverable
    <2>2. /\ Moved(p) /\ proc'[p].at \in Plain
          /\ (proc'[p].token = 0 \/ proc'[p].token = proc[p].token)
      BY <2>1, PastMoves DEF Plain
    <2>3. LocksKept(p) /\ LocksTyped BY <2>1, SameLocks
    <2>4. lost BY <1>2 DEF IInv, Store, Unopened
    <2>5. displaced' \in Version /\ faults' \in 0 .. MaxFaults
      BY <1>1 DEF Types, TypeOK
    <2> QED BY <1>1, <1>2, <2>1, <2>2, <2>3, <2>4, <2>5, ClearedTyped, Closes
  <1>3. CASE ~(saved.staged /\ saved.phase \in {"swapped", "rollback"} /\ ~manifest)
    <2>1. Quiet BY <1>1, <1>3 DEF Recoverable, Quiet, Shared, Types, TypeOK
    <2>2. CASE saved.staged
      BY <1>3, <2>1, <2>2, SameLocks, GoStep DEF Recoverable, Plain
    <2>3. CASE ~saved.staged
      BY <1>3, <2>1, <2>3, LaunchFailsInv DEF Recoverable
    <2> QED BY <2>2, <2>3
  <1> QED BY <1>2, <1>3

LEMMA FinalizeInv ==
    ASSUME Types, IInv, NEW p \in Procs, Finalize(p)
    PROVE  Types' /\ IInv'
  <1>1. UNCHANGED <<feed, tree, backup, manifest, displaced, applies, faults, lost>>
    BY DEF Finalize, disk
  <1>2. CASE saved.phase = "confirmed" /\ saved.staged
    <2>1. saved' = Cleared /\ Go(p, "clean") /\ UNCHANGED locks BY <1>2 DEF Finalize
    <2>2. Moved(p) /\ proc'[p].at = "clean" /\ proc'[p].token = proc[p].token
      BY <2>1, GoMoves DEF Ats, AppAt
    <2>3. LocksKept(p) /\ LocksTyped BY <2>1, SameLocks
    <2>4. displaced' \in Version /\ faults' \in 0 .. MaxFaults
      BY <1>1 DEF Types, TypeOK
    <2> QED BY <1>1, <1>2, <2>1, <2>2, <2>3, <2>4, ClearedTyped, Closes
  <1>3. CASE ~(saved.phase = "confirmed" /\ saved.staged)
    <2>1. Quiet BY <1>1, <1>3 DEF Finalize, Quiet, Shared, Types, TypeOK
    <2>2. CASE proc[p].mode = "app"
      BY <1>3, <2>1, <2>2, SameLocks, PastStep DEF Finalize
    <2>3. CASE proc[p].mode # "app"
      BY <1>3, <2>1, <2>3, ExitStep DEF Finalize
    <2> QED BY <2>2, <2>3
  <1> QED BY <1>2, <1>3

LEMMA DropForeignInv ==
    ASSUME Types, IInv, NEW p \in Procs, DropForeign(p)
    PROVE  Types' /\ IInv'
  <1>1. UNCHANGED <<tree, backup, manifest, displaced, applies, faults, lost, locks>>
        /\ feed' = "checked" /\ Open(p) /\ saved' = Invalidated(proc[p].seen)
    BY DEF DropForeign, disk
  <1>2. proc[p].seen.phase = "none" /\ saved.phase = "none" /\ proc[p].seen \in Saved
    BY DEF DropForeign, At, IInv, Record, Local, Books, Types, TypeOK, Process
  <1>3. saved' \in Saved /\ saved'.phase = "none" /\ ~saved'.staged
    BY <1>1, <1>2 DEF Invalidated, Saved
  <1>4. /\ Moved(p) /\ proc'[p].at \in Plain
        /\ (proc'[p].token = 0 \/ proc'[p].token = proc[p].token)
    BY <1>1, PastMoves DEF Plain
  <1>5. LocksKept(p) /\ LocksTyped BY <1>1, SameLocks
  <1>6. displaced' \in Version /\ faults' \in 0 .. MaxFaults
    BY <1>1 DEF Types, TypeOK
  <1> QED BY <1>1, <1>2, <1>3, <1>4, <1>5, <1>6, Closes

----------------------------------------------------------------------------
(* A pending update is given up; a swapped one is confirmed; another is    *)
(* asked for.                                                              *)

LEMMA AbandonedKept ==
    ASSUME Types, IInv, NEW p \in Procs, Moved(p), LocksKept(p), LocksTyped,
           UNCHANGED <<feed, disk, applies, faults, lost>>,
           Free, saved' = Abandoned,
           proc'[p].at \in Plain, proc'[p].token = 0 \/ proc'[p].token = proc[p].token
    PROVE  Types' /\ IInv'
  <1>1. CASE saved' = saved
    <2>1. Quiet BY <1>1 DEF Quiet, Shared, disk, Types, TypeOK
    <2> QED BY <2>1, Steps DEF Settles
  <1>2. CASE saved' # saved
    <2>1. /\ saved.staged /\ saved.phase = "pending"
          /\ saved' = [saved EXCEPT !.phase = "none", !.token = 0]
      BY <1>2 DEF Abandoned
    <2>2. saved' \in Saved /\ saved'.phase = "none" /\ saved'.staged
      <3>1. saved \in Saved /\ 0 \in 0 .. MaxApplies
        BY ConstantsAssumption DEF Types, TypeOK
      <3> QED BY <2>1, <3>1 DEF Saved, Phase
    <2>3. UNCHANGED <<feed, tree, backup, manifest, displaced, applies, faults, lost>>
      BY DEF disk
    <2>4. Types' BY <2>2, <2>3 DEF Types, TypeOK, ExeSound, Moved, LocksTyped
    <2>5. Untouched /\ tree = AllOld /\ ~lost
      BY <2>1 DEF IInv, Install, Store, Untouched, Unopened
    <2>6. Record' /\ Store' /\ Install'
      BY <2>2, <2>3, <2>5
      DEF IInv, Record, Store, Install, PhaseIsTrue, Unopened, Untouched, Whole, AllOld, Empty
    <2>7. ASSUME NEW q \in Procs \ {p} PROVE Local(q)'
      <3>1. /\ Local(q) /\ Locked(q)' /\ proc'[q].at = proc[q].at
            /\ proc'[q].seen = proc[q].seen /\ proc'[q].token = proc[q].token
            /\ proc'[q].left = proc[q].left
        BY OthersLocked DEF IInv, Moved, Aside
      <3>2. proc[q].at \notin {"backup", "commit", "displace", "swap", "sharein", "mark",
                               "unshare", "reshare", "copyshare", "restore"}
        BY <2>1, <2>5, <3>1, ConstantsAssumption
        DEF Local, Backs, Swaps, Rolls, Free, GivenUp
      <3>3. Backs(q)' /\ Swaps(q)' BY <3>1, <3>2 DEF Backs, Swaps
      <3>4. Rolls(q)' BY <2>2, <3>1, <3>2 DEF Rolls, Unopened
      <3>5. Books(q)' BY <2>1, <2>3, <3>1 DEF Local, Books
      <3>6. Confirms(q)' BY <2>2, <2>3, <3>1 DEF Local, Confirms
      <3> QED BY <3>1, <3>3, <3>4, <3>5, <3>6 DEF Local
    <2>8. Local(p)'
      <3>1. Locked(p)' /\ Backs(p)' /\ Swaps(p)' /\ Rolls(p)' /\ Books(p)'
        BY DEF Locked, Backs, Swaps, Rolls, Books, Plain, Holding, Writing
      <3>2. proc[p].token <= applies /\ applies \in Nat /\ applies' = applies
        BY <2>3, ConstantsAssumption DEF IInv, Local, Confirms, Types, TypeOK
      <3>3. Confirms(p)' BY <2>2, <3>2 DEF Confirms, Plain
      <3> QED BY <3>1, <3>3 DEF Local
    <2> QED BY <2>4, <2>6, <2>7, <2>8 DEF IInv
  <1> QED BY <1>1, <1>2

LEMMA AbandonInv ==
    ASSUME Types, IInv, NEW p \in Procs, Abandon(p)
    PROVE  Types' /\ IInv'
  <1>1. /\ Moved(p) /\ proc'[p].at \in Plain
        /\ (proc'[p].token = 0 \/ proc'[p].token = proc[p].token)
    BY PastMoves DEF Abandon, Plain
  <1>2. LocksKept(p) /\ LocksTyped BY SameLocks DEF Abandon
  <1> QED BY <1>1, <1>2, AbandonedKept DEF Abandon

LEMMA RecoverInv ==
    ASSUME Types, IInv, NEW p \in Procs, Recover(p)
    PROVE  Types' /\ IInv'
  <1>1. CASE saved.staged /\ saved.phase = "pending"
    <2>1. "confirm" \in Ats /\ 0 \in 0 .. MaxApplies
      BY ConstantsAssumption DEF Ats, AppAt
    <2>2. App("confirm", 0) \in Process /\ App("confirm", 0).at = "confirm"
          /\ App("confirm", 0).token = 0
      BY <2>1, StartedTyped
    <2>3. Replace(p, App("confirm", 0)) BY <1>1 DEF Recover
    <2>4. LocksKept(p) /\ LocksTyped BY <2>3, ReleasedLocks DEF Replace
    <2>5. Moved(p) /\ proc'[p].at \in Plain /\ proc'[p].token = 0
      BY <2>2, <2>3, ReplaceMoves DEF Plain
    <2> QED BY <2>4, <2>5, AbandonedKept DEF Recover
  <1>2. CASE ~(saved.staged /\ saved.phase = "pending")
    <2>1. Exit(p, "failed") BY <1>2 DEF Recover
    <2>2. LocksKept(p) /\ LocksTyped BY <2>1, ReleasedLocks DEF Exit
    <2>3. Moved(p) /\ proc'[p].at \in Plain /\ proc'[p].token = 0
      BY <2>1, ExitMoves, GoneTyped DEF Plain
    <2> QED BY <2>2, <2>3, AbandonedKept DEF Recover
  <1> QED BY <1>1, <1>2

LEMMA ConfirmingInv ==
    ASSUME Types, IInv, NEW p \in Procs, Confirming(p)
    PROVE  Types' /\ IInv'
  <1>1. /\ Moved(p) /\ proc'[p].at \in Plain
        /\ (proc'[p].token = 0 \/ proc'[p].token = proc[p].token)
    BY PastMoves DEF Confirming, Plain
  <1>2. LocksKept(p) /\ LocksTyped BY SameLocks DEF Confirming
  <1>3. UNCHANGED <<feed, tree, backup, manifest, displaced, applies, faults, lost>>
    BY DEF Confirming, disk
  <1>4. CASE ~(saved.phase = "swapped" /\ SameTransaction(p))
    <2>1. Quiet BY <1>3, <1>4 DEF Confirming, Quiet, Shared, Types, TypeOK
    <2> QED BY <1>1, <1>2, <2>1, Steps DEF Settles
  <1>5. CASE saved.phase = "swapped" /\ SameTransaction(p)
    <2>1. saved' = [saved EXCEPT !.phase = "confirmed"] BY <1>5 DEF Confirming
    <2>2. saved' \in Saved /\ saved'.phase = "confirmed" /\ saved'.token = saved.token
          /\ saved'.staged = saved.staged
      BY <2>1 DEF Types, TypeOK, Saved, Phase
    <2>3. Types' BY <1>1, <1>2, <1>3, <2>2 DEF Types, TypeOK, ExeSound, Moved, LocksTyped
    <2>4. Whole("new")
      BY <1>5 DEF Confirming, At, SameTransaction, IInv, Local, Confirms
    <2>5. Record' /\ Store' /\ Install'
      BY <1>3, <1>5, <2>2, <2>4
      DEF IInv, Record, Store, Install, PhaseIsTrue, Unopened, Untouched, Whole, AllOld, Empty
    <2>6. ASSUME NEW q \in Procs \ {p} PROVE Local(q)'
      <3>1. /\ Local(q) /\ Locked(q)' /\ proc'[q].at = proc[q].at
            /\ proc'[q].seen = proc[q].seen /\ proc'[q].token = proc[q].token
            /\ proc'[q].left = proc[q].left
        BY <1>1, <1>2, OthersLocked DEF IInv, Moved, Aside
      <3>2. /\ proc[q].at \notin {"backup", "commit", "displace", "sharein", "unshare",
                                  "reshare", "copyshare", "restore", "cleanup"}
            /\ ~(proc[q].at = "swap" /\ proc[q].left # {})
        BY <1>5, <2>4, <3>1, UnfinishedOld
        DEF Local, Backs, Rolls, GivenUp, Unopened
      <3>3. Backs(q)' /\ Rolls(q)'
        BY <2>2, <3>1, <3>2 DEF Backs, Rolls, Untouched, Unopened
      <3>4. Swaps(q)'
        BY <1>3, <2>2, <3>1, <3>2 DEF Local, Swaps, Untouched, Unopened, Mix
      <3>5. Books(q)' BY <1>3, <2>2, <3>1 DEF Local, Books
      <3>6. Confirms(q)' BY <1>3, <2>2, <3>1 DEF Local, Confirms
      <3> QED BY <3>1, <3>3, <3>4, <3>5, <3>6 DEF Local
    <2>7. Local(p)'
      <3>1. Locked(p)' /\ Backs(p)' /\ Swaps(p)' /\ Rolls(p)' /\ Books(p)'
        BY <1>1 DEF Locked, Backs, Swaps, Rolls, Books, Plain, Holding, Writing
      <3>2. proc[p].token <= applies /\ applies \in Nat /\ applies' = applies
        BY <1>3, ConstantsAssumption DEF IInv, Local, Confirms, Types, TypeOK
      <3>3. Confirms(p)' BY <1>1, <2>2, <3>2 DEF Confirms, Plain
      <3> QED BY <3>1, <3>3 DEF Local
    <2> QED BY <2>3, <2>5, <2>6, <2>7 DEF IInv
  <1> QED BY <1>4, <1>5

LEMMA RequestApplyInv ==
    ASSUME Types, IInv, NEW p \in Procs, RequestApply(p)
    PROVE  Types' /\ IInv'
  <1>1. /\ saved.staged /\ saved.phase = "none" /\ feed = "same" /\ applies < MaxApplies
        /\ applies' = applies + 1
        /\ saved' = [saved EXCEPT !.phase = "pending", !.token = applies + 1]
        /\ backup' = Empty /\ manifest' = FALSE /\ displaced' = "none"
        /\ UNCHANGED <<feed, tree, faults, lost>>
    BY DEF RequestApply
  <1>2. /\ LocksKept(p) /\ LocksTyped /\ Moved(p)
        /\ proc'[p].at = "gone" /\ proc'[p].token = 0
    BY ReleasedLocks, ExitMoves, GoneTyped DEF RequestApply, Exit
  <1>3. applies \in Nat /\ applies' \in 0 .. MaxApplies
    BY <1>1, ConstantsAssumption DEF Types, TypeOK
  <1>4. saved' \in Saved /\ saved'.phase = "pending" /\ saved'.token = applies'
        /\ saved'.staged
    BY <1>1, <1>3 DEF Types, TypeOK, Saved, Phase
  <1>5. Types'
    BY <1>1, <1>2, <1>3, <1>4
    DEF Types, TypeOK, ExeSound, Moved, LocksTyped, Empty, Version, Entries
  <1>6. Untouched /\ tree = AllOld /\ ~lost
    BY <1>1 DEF IInv, Install, Store, Untouched, Unopened
  <1>7. Record' /\ Store' /\ Install'
    BY <1>1, <1>3, <1>4, <1>6
    DEF IInv, Record, Store, Install, PhaseIsTrue, Unopened, Untouched, Whole, AllOld
  <1>8. ASSUME NEW q \in Procs \ {p} PROVE Local(q)'
    <2>1. /\ Local(q) /\ Locked(q)' /\ proc'[q].at = proc[q].at
          /\ proc'[q].seen = proc[q].seen /\ proc'[q].token = proc[q].token
          /\ proc'[q].left = proc[q].left
      BY <1>2, OthersLocked DEF IInv, Moved, Aside
    <2>2. proc[q].at \notin {"backup", "commit", "displace", "swap", "sharein", "mark",
                             "unshare", "reshare", "copyshare", "restore", "clean", "checked"}
      BY <1>1, <1>6, <2>1 DEF Local, Backs, Swaps, Rolls, Books, GivenUp
    <2>3. Backs(q)' /\ Swaps(q)' /\ Books(q)' BY <2>1, <2>2 DEF Backs, Swaps, Books
    <2>4. Rolls(q)' BY <1>4, <2>1, <2>2 DEF Rolls, Unopened
    <2>5. proc[q].token \in Nat /\ proc[q].seen.token \in Nat
      BY ConstantsAssumption DEF Types, TypeOK, Process, Saved
    <2>6. /\ proc[q].token <= applies
          /\ proc[q].at \in {"hash", "confirming"} =>
                proc[q].seen.phase = "swapped" /\ proc[q].seen.token <= applies
      BY <2>1 DEF Local, Confirms
    <2>7. /\ proc'[q].token <= applies' /\ proc'[q].token < applies'
          /\ proc'[q].at \in {"hash", "confirming"} =>
                /\ proc'[q].seen.phase = "swapped" /\ proc'[q].seen.token <= applies'
                /\ proc'[q].seen.token < applies'
      BY <1>1, <1>3, <2>1, <2>5, <2>6
    <2>8. Confirms(q)' BY <1>4, <2>7 DEF Confirms
    <2> QED BY <2>1, <2>3, <2>4, <2>8 DEF Local
  <1>9. Local(p)'
    BY <1>2, <1>3, <1>4, <1>1
    DEF Local, Locked, Backs, Swaps, Rolls, Books, Confirms, Holding, Writing
  <1> QED BY <1>5, <1>7, <1>8, <1>9 DEF IInv

----------------------------------------------------------------------------
(* The helper at work: it alone holds the launch lock, and writes.         *)

\* What is asked of the others, who do not work, stays so.
LEMMA OthersIdle ==
    ASSUME Types, IInv, NEW p \in Procs, proc[p].at \in Holding, Moved(p),
           UNCHANGED <<saved, feed, applies>>,
           saved.phase = "swapped" /\ Whole("new") => Whole("new")'
    PROVE  \A q \in Procs \ {p} : Local(q)'
  <1> SUFFICES ASSUME NEW q \in Procs \ {p} PROVE Local(q)'
    OBVIOUS
  <1>1. /\ Local(q) /\ proc'[q].at = proc[q].at /\ proc'[q].seen = proc[q].seen
        /\ proc'[q].token = proc[q].token /\ proc[q].at \notin Holding
    BY OneHolds DEF IInv, Moved, Aside
  <1>2. Locked(q)' /\ Backs(q)' /\ Swaps(q)' /\ Rolls(q)'
    BY <1>1 DEF Locked, Backs, Swaps, Rolls, Holding, Writing
  <1>3. Books(q)' BY <1>1 DEF Local, Books
  <1>4. Confirms(q)' BY <1>1 DEF Local, Confirms
  <1> QED BY <1>2, <1>3, <1>4 DEF Local

LEMMA WorkStep ==
    ASSUME Types, IInv, NEW p \in Procs, Moved(p),
           proc[p].at \in Holding, proc'[p].at \in Holding, proc'[p].token = proc[p].token,
           UNCHANGED <<saved, feed, applies, lost, launchLock>>, LocksTyped,
           tree' \in [Entries -> Version], backup' \in [Entries -> Version],
           manifest' \in BOOLEAN, displaced' \in Version, faults' \in 0 .. MaxFaults,
           ExeSound', saved.phase = "swapped" /\ Whole("new") => Whole("new")',
           Store', Install', Backs(p)', Swaps(p)', Rolls(p)'
    PROVE  Types' /\ IInv'
  <1>1. Types' BY DEF Types, TypeOK, Moved, LocksTyped
  <1>2. Record' BY DEF IInv, Record
  <1>3. Local(p) BY DEF IInv
  <1>4. Locked(p)' BY <1>3 DEF Local, Locked
  <1>5. Books(p)' BY DEF Books, Holding, Writing
  <1>6. Confirms(p)' BY <1>3 DEF Local, Confirms, Holding, Writing
  <1>7. Local(p)' BY <1>4, <1>5, <1>6 DEF Local
  <1>8. \A q \in Procs \ {p} : Local(q)' BY OthersIdle
  <1> QED BY <1>1, <1>2, <1>7, <1>8 DEF IInv

----------------------------------------------------------------------------
(* The backup.                                                             *)

LEMMA VerifyInv ==
    ASSUME Types, IInv, NEW p \in Procs, Verify(p)
    PROVE  Types' /\ IInv'
  <1>1. /\ UNCHANGED <<saved, feed, tree, manifest, displaced, launchLock,
                       applies, faults, lost>>
        /\ proc[p].at = "verify" /\ proc[p] \in Process /\ saved \in Saved
    BY DEF Verify, At, Types, TypeOK
  <1>2. CASE ~(saved.staged /\ saved.phase = "pending")
    <2>1. Go(p, "recover") /\ UNCHANGED <<stateLock, backup>> BY <1>2 DEF Verify
    <2>2. Quiet BY <1>1, <2>1 DEF Quiet, Shared, Types, TypeOK
    <2>3. LocksKept(p) /\ LocksTyped BY <1>1, <2>1, SameLocks DEF locks
    <2> QED BY <2>1, <2>2, <2>3, GoStep DEF Plain
  <1>3. CASE saved.staged /\ saved.phase = "pending"
    <2>1. /\ stateLock' = p /\ Untouched /\ ~lost /\ saved.token = applies
      BY <1>3 DEF Verify, IInv, Record, Store, Untouched, Unopened
    <2>2. LocksTyped BY <1>1, <2>1 DEF LocksTyped, Types, TypeOK
    <2>3. Install' BY <1>1 DEF IInv, Install, PhaseIsTrue, Untouched, Unopened, Whole, AllOld
    <2>4. Whole("new") => Whole("new")' BY <1>1 DEF Whole
    <2>5. CASE manifest
      <3>1. /\ proc' = [proc EXCEPT ![p].at = "commit", ![p].seen = saved]
            /\ UNCHANGED backup
        BY <1>3, <2>5 DEF Verify
      <3>2. [proc[p] EXCEPT !.at = "commit", !.seen = saved] \in Process
        BY <1>1 DEF Process, HelperAt
      <3>3. /\ Moved(p) /\ proc'[p].at = "commit" /\ proc'[p].token = proc[p].token
            /\ proc'[p].seen = saved
        BY <1>1, <3>1, <3>2 DEF Moved, Aside, Types, TypeOK, Process
      <3>4. Store' BY <1>1, <3>1 DEF IInv, Store, Untouched, Unopened, AllOld, Empty
      <3>5. Backs(p)' /\ Swaps(p)' /\ Rolls(p)'
        BY <1>1, <1>3, <2>1, <2>5, <3>3 DEF Backs, Swaps, Rolls
      <3>6. ExeSound' BY <1>1, <3>1 DEF Types, ExeSound
      <3>7. /\ tree' \in [Entries -> Version] /\ backup' \in [Entries -> Version]
            /\ manifest' \in BOOLEAN /\ displaced' \in Version /\ faults' \in 0 .. MaxFaults
        BY <1>1, <3>1 DEF Types, TypeOK
      <3>8. proc[p].at \in Holding /\ proc'[p].at \in Holding
        BY <1>1, <3>3 DEF Holding, Writing
      <3> QED BY <1>1, <2>2, <2>3, <2>4, <3>3, <3>4, <3>5, <3>6, <3>7, <3>8, WorkStep
    <2>6. CASE ~manifest
      <3>1. /\ proc' = [proc EXCEPT ![p].at = "backup", ![p].seen = saved, ![p].left = Entries]
            /\ backup' = Empty
        BY <1>3, <2>6 DEF Verify
      <3>2. [proc[p] EXCEPT !.at = "backup", !.seen = saved, !.left = Entries] \in Process
        BY <1>1 DEF Process, HelperAt
      <3>3. /\ Moved(p) /\ proc'[p].at = "backup" /\ proc'[p].token = proc[p].token
            /\ proc'[p].seen = saved /\ proc'[p].left = Entries
        BY <1>1, <3>1, <3>2 DEF Moved, Aside, Types, TypeOK, Process
      <3>4. Store' BY <1>1, <1>3, <2>1, <2>6 DEF Store, Unopened
      <3>5. Backs(p)' /\ Swaps(p)' /\ Rolls(p)'
        BY <1>1, <1>3, <2>1, <2>6, <3>3 DEF Backs, Swaps, Rolls
      <3>6. ExeSound' BY <1>1, <3>1 DEF Types, ExeSound, Empty, Entries
      <3>7. /\ tree' \in [Entries -> Version] /\ backup' \in [Entries -> Version]
            /\ manifest' \in BOOLEAN /\ displaced' \in Version /\ faults' \in 0 .. MaxFaults
        BY <1>1, <3>1 DEF Types, TypeOK, Empty, Version
      <3>8. proc[p].at \in Holding /\ proc'[p].at \in Holding
        BY <1>1, <3>3 DEF Holding, Writing
      <3> QED BY <1>1, <2>2, <2>3, <2>4, <3>3, <3>4, <3>5, <3>6, <3>7, <3>8, WorkStep
    <2> QED BY <2>5, <2>6
  <1> QED BY <1>2, <1>3

LEMMA CopyEntryInv ==
    ASSUME Types, IInv, NEW p \in Procs, CopyEntry(p)
    PROVE  Types' /\ IInv'
  <1>1. PICK e \in proc[p].left :
        /\ backup' = [backup EXCEPT ![e] = tree[e]]
        /\ proc' = [proc EXCEPT ![p].left = @ \ {e}]
    BY DEF CopyEntry
  <1>2. /\ UNCHANGED <<saved, feed, tree, manifest, displaced, locks, applies, faults, lost>>
        /\ UNCHANGED <<stateLock, launchLock>>
        /\ proc[p].at = "backup" /\ proc[p] \in Process /\ Local(p)
        /\ tree \in [Entries -> Version] /\ backup \in [Entries -> Version]
    BY DEF CopyEntry, At, Types, TypeOK, IInv, locks
  <1>3. /\ saved.phase = "pending" /\ ~manifest /\ Untouched /\ ~lost /\ tree = AllOld
    BY <1>2 DEF Local, Backs, IInv, Record, Store, Install, Untouched, Unopened
  <1>4. e \in Entries BY <1>2 DEF Process
  <1>5. [proc[p] EXCEPT !.left = proc[p].left \ {e}] \in Process
    BY <1>2 DEF Process
  <1>6. /\ Moved(p) /\ proc'[p].at = "backup" /\ proc'[p].token = proc[p].token
        /\ proc'[p].seen = proc[p].seen /\ proc'[p].left = proc[p].left \ {e}
    BY <1>1, <1>2, <1>5 DEF Moved, Aside, Types, TypeOK, Process
  <1>7. backup' \in [Entries -> Version] /\ ExeSound'
    BY <1>1, <1>2, <1>3, <1>4 DEF AllOld, Types, ExeSound, Entries
  <1>8. \A f \in Entries \ proc'[p].left : backup'[f] = "old"
    BY <1>1, <1>2, <1>3, <1>4, <1>6 DEF Local, Backs, AllOld
  <1>9. Backs(p)' BY <1>2, <1>6, <1>8 DEF Local, Backs
  <1>10. Swaps(p)' /\ Rolls(p)' BY <1>6 DEF Swaps, Rolls
  <1>11. Store' BY <1>2, <1>3 DEF Store, Unopened
  <1>12. Install'
    BY <1>2 DEF IInv, Install, PhaseIsTrue, Untouched, Unopened, Whole, AllOld
  <1>13. LocksTyped BY <1>2, SameLocks
  <1>14. Whole("new") => Whole("new")' BY <1>2 DEF Whole
  <1>15. proc[p].at \in Holding /\ proc'[p].at \in Holding
    BY <1>2, <1>6 DEF Holding, Writing
  <1>16. tree' \in [Entries -> Version] /\ manifest' \in BOOLEAN /\ displaced' \in Version
         /\ faults' \in 0 .. MaxFaults
    BY <1>2 DEF Types, TypeOK
  <1> QED BY <1>2, <1>6, <1>7, <1>9, <1>10, <1>11, <1>12, <1>13, <1>14, <1>15, <1>16, WorkStep

LEMMA CommitManifestInv ==
    ASSUME Types, IInv, NEW p \in Procs, CommitManifest(p)
    PROVE  Types' /\ IInv'
  <1>1. /\ UNCHANGED <<saved, feed, tree, backup, displaced, locks, applies, faults, lost>>
        /\ UNCHANGED <<stateLock, launchLock>> /\ manifest' = TRUE /\ Go(p, "commit")
        /\ proc[p].at = "backup" /\ proc[p].left = {} /\ Local(p)
    BY DEF CommitManifest, At, IInv, locks
  <1>2. /\ Moved(p) /\ proc'[p].at = "commit" /\ proc'[p].token = proc[p].token
        /\ proc'[p].seen = proc[p].seen
    BY <1>1, GoMoves DEF Ats, HelperAt
  <1>3. saved.phase = "pending" /\ Untouched /\ ~lost
    BY <1>1 DEF Local, Backs, IInv, Record, Store, Untouched, Unopened
  <1>4. backup = AllOld
    BY <1>1 DEF Local, Backs, Types, TypeOK, AllOld
  <1>5. Store' BY <1>1, <1>3, <1>4 DEF Store, AllOld
  <1>6. Backs(p)' BY <1>1, <1>2 DEF Local, Backs
  <1>7. Swaps(p)' /\ Rolls(p)' BY <1>2 DEF Swaps, Rolls
  <1>8. Install'
    BY <1>1 DEF IInv, Install, PhaseIsTrue, Untouched, Unopened, Whole, AllOld
  <1>9. LocksTyped BY <1>1, SameLocks
  <1>10. Whole("new") => Whole("new")' BY <1>1 DEF Whole
  <1>11. proc[p].at \in Holding /\ proc'[p].at \in Holding
    BY <1>1, <1>2 DEF Holding, Writing
  <1>12. /\ tree' \in [Entries -> Version] /\ backup' \in [Entries -> Version]
         /\ manifest' \in BOOLEAN /\ displaced' \in Version /\ faults' \in 0 .. MaxFaults
         /\ ExeSound'
    BY <1>1 DEF Types, TypeOK, ExeSound
  <1> QED BY <1>1, <1>2, <1>5, <1>6, <1>7, <1>8, <1>9, <1>10, <1>11, <1>12, WorkStep

LEMMA RecordSwappedInv ==
    ASSUME Types, IInv, NEW p \in Procs, RecordSwapped(p)
    PROVE  Types' /\ IInv'
  <1>1. /\ UNCHANGED <<feed, tree, backup, manifest, displaced, launchLock,
                       applies, faults, lost>>
        /\ stateLock' = Nobody /\ Go(p, "displace")
        /\ saved' = [saved EXCEPT !.phase = "swapped"]
        /\ proc[p].at = "commit" /\ Local(p)
    BY DEF RecordSwapped, At, IInv, disk
  <1>2. /\ Moved(p) /\ proc'[p].at = "displace" /\ proc'[p].token = proc[p].token
        /\ proc'[p].seen = proc[p].seen
    BY <1>1, GoMoves DEF Ats, HelperAt
  <1>3. /\ saved.phase = "pending" /\ saved.staged /\ Untouched /\ ~lost /\ manifest
        /\ proc[p].seen.token = applies /\ tree = AllOld /\ launchLock = p
        /\ saved.token = applies /\ feed = "same" /\ applies > 0
    BY <1>1 DEF Local, Locked, Backs, Holding, Writing, IInv, Record, Store, Install,
                Untouched, Unopened
  <1>4. /\ saved' \in Saved /\ saved'.phase = "swapped" /\ saved'.token = applies
        /\ saved'.staged
    BY <1>1, <1>3 DEF Types, TypeOK, Saved, Phase
  <1>5. Types'
    BY <1>1, <1>2, <1>4 DEF Types, TypeOK, ExeSound, Moved
  <1>6. Record' BY <1>1, <1>3, <1>4 DEF Record
  <1>7. Store' BY <1>1, <1>3 DEF IInv, Store, AllOld
  <1>8. Install'
    <2>1. tree'["exe"] = "old" BY <1>1, <1>3 DEF AllOld, Entries
    <2> QED BY <1>4, <2>1 DEF Install, PhaseIsTrue, Untouched, Unopened
  <1>9. ASSUME NEW q \in Procs \ {p} PROVE Local(q)'
    <2>1. /\ Local(q) /\ proc'[q].at = proc[q].at /\ proc'[q].seen = proc[q].seen
          /\ proc'[q].token = proc[q].token /\ proc[q].at \notin Holding
      BY <1>1, <1>2, OneHolds DEF IInv, Moved, Aside, Holding, Writing
    <2>2. Locked(q)' /\ Backs(q)' /\ Swaps(q)' /\ Rolls(q)'
      BY <2>1 DEF Locked, Backs, Swaps, Rolls, Holding, Writing
    <2>3. Books(q)' BY <1>3, <2>1 DEF Local, Books
    <2>4. /\ proc[q].token <= applies /\ proc[q].token # applies
          /\ proc[q].at \in {"hash", "confirming"} =>
                /\ proc[q].seen.phase = "swapped" /\ proc[q].seen.token <= applies
                /\ proc[q].seen.token # applies
      BY <1>3, <2>1, ConstantsAssumption DEF Local, Confirms, Types, TypeOK, Process, Saved
    <2>5. Confirms(q)' BY <1>1, <1>4, <2>1, <2>4 DEF Confirms
    <2> QED BY <2>2, <2>3, <2>5 DEF Local
  <1>10. Local(p)'
    <2>1. Locked(p)' /\ Backs(p)' /\ Rolls(p)' /\ Books(p)'
      BY <1>1, <1>2, <1>3 DEF Locked, Backs, Rolls, Books
    <2>2. Swaps(p)'
      BY <1>1, <1>2, <1>3, <1>4 DEF Swaps, Untouched, Unopened, AllOld
    <2>3. proc[p].token <= applies /\ proc[p].token # applies
      BY <1>1, <1>3, ConstantsAssumption DEF Local, Confirms, Types, TypeOK, Process
    <2>4. Confirms(p)' BY <1>1, <1>2, <1>4, <2>3 DEF Confirms
    <2> QED BY <2>1, <2>2, <2>4 DEF Local
  <1> QED BY <1>5, <1>6, <1>7, <1>8, <1>9, <1>10 DEF IInv

----------------------------------------------------------------------------
(* The swap.                                                               *)

\* A change of the install during the swap, with noctty.exe still the old one
\* or everything replaced.
LEMMA SwapStep ==
    ASSUME Types, IInv, NEW p \in Procs, Moved(p),
           proc[p].at \in {"swap", "sharein"}, proc'[p].at \in {"swap", "sharein", "mark"},
           \/ proc[p].at = "sharein"
           \/ proc[p].at = "swap" /\ proc[p].left # {},
           proc'[p].token = proc[p].token,
           UNCHANGED <<saved, feed, applies, lost, locks, backup, manifest>>,
           displaced' \in Version, faults' \in 0 .. MaxFaults,
           tree' \in [Entries -> Version],
           tree'["exe"] = "old" \/ tree' = Mix({}),
           Swaps(p)'
    PROVE  Types' /\ IInv'
  <1>1. /\ UNCHANGED <<stateLock, launchLock>> /\ LocksTyped
        /\ Swaps(p) /\ ~Untouched
    BY SameLocks DEF IInv, Local, Swaps, locks
  <1>2. ~Whole("new") BY <1>1, UnfinishedOld
  <1>3. saved.phase = "swapped" \/ GivenUp BY <1>1 DEF Swaps
  <1>4. Store' BY DEF IInv, Store, Untouched, Unopened, AllOld, Empty
  <1>5. Install'
    <2>1. tree'["exe"] = "new" => Whole("new")' BY DEF Mix, Whole
    <2> QED BY <1>1, <1>3, <2>1 DEF Install, PhaseIsTrue, Untouched, Unopened, GivenUp
  <1>6. Backs(p)' BY DEF Backs
  <1>7. Rolls(p)' BY <1>1 DEF Rolls, Untouched, Unopened
  <1>8. ExeSound' BY DEF Types, ExeSound, Mix, Entries
  <1>9. proc[p].at \in Holding /\ proc'[p].at \in Holding BY DEF Holding, Writing
  <1>10. backup' \in [Entries -> Version] /\ manifest' \in BOOLEAN
    BY DEF Types, TypeOK
  <1> QED BY <1>1, <1>2, <1>4, <1>5, <1>6, <1>7, <1>8, <1>9, <1>10, WorkStep

LEMMA SwapEntryInv ==
    ASSUME Types, IInv, NEW p \in Procs, SwapEntry(p)
    PROVE  Types' /\ IInv'
  <1>1. PICK e \in Ready(proc[p].left) :
        /\ tree' = [tree EXCEPT ![e] = IF e = "share" THEN "none" ELSE "new"]
        /\ displaced' = IF e = "share" THEN tree["share"] ELSE displaced
        /\ proc' = [proc EXCEPT ![p].left = @ \ {e},
                                ![p].at = IF e = "share" THEN "sharein" ELSE "swap"]
    BY DEF SwapEntry
  <1>2. /\ UNCHANGED <<saved, feed, backup, manifest, locks, applies, faults, lost>>
        /\ proc[p].at = "swap" /\ proc[p] \in Process /\ Swaps(p)
        /\ tree \in [Entries -> Version] /\ displaced \in Version
        /\ faults' \in 0 .. MaxFaults
    BY DEF SwapEntry, At, Types, TypeOK, IInv, Local
  <1>3. e \in proc[p].left /\ e \in Entries /\ "share" \in Entries /\ "exe" \in Entries
        /\ "exe" \notin Files
    BY <1>1, <1>2, ConstantsAssumption DEF Ready, Process, Entries
  <1>4. /\ proc[p].left # {} /\ "exe" \in proc[p].left /\ ~Untouched
        /\ (saved.phase = "swapped" \/ GivenUp)
        /\ tree = Mix(proc[p].left) /\ proc[p].seen.token = applies
    BY <1>2, <1>3 DEF Swaps
  <1> DEFINE next == IF e = "share" THEN "sharein" ELSE "swap"
             left == proc[p].left \ {e}
  <1>5. [proc[p] EXCEPT !.left = left, !.at = next] \in Process
    BY <1>2 DEF Process, HelperAt
  <1>6. /\ Moved(p) /\ proc'[p].at = next /\ proc'[p].token = proc[p].token
        /\ proc'[p].seen = proc[p].seen /\ proc'[p].left = left
    BY <1>1, <1>2, <1>5 DEF Moved, Aside, Types, TypeOK, Process
  <1>7. /\ tree' \in [Entries -> Version] /\ displaced' \in Version
    BY <1>1, <1>2, <1>3 DEF Version
  <1>8. CASE e = "share"
    <2>1. "exe" \in left /\ "share" \notin left /\ tree' = [Mix(left) EXCEPT !["share"] = "none"]
      BY <1>1, <1>3, <1>4, <1>8 DEF Mix
    <2>2. Swaps(p)'
      BY <1>2, <1>4, <1>6, <1>8, <2>1
      DEF Swaps, Untouched, Unopened, GivenUp, Mix
    <2>3. tree'["exe"] = "old" BY <1>3, <2>1 DEF Mix
    <2> QED BY <1>2, <1>4, <1>6, <1>7, <1>8, <2>2, <2>3, SwapStep
  <1>9. CASE e # "share"
    <2>1. tree' = Mix(left) BY <1>1, <1>3, <1>4, <1>9 DEF Mix
    <2>2. left = {} \/ "exe" \in left
      BY <1>1, <1>3, <1>4 DEF Ready
    <2>3. Swaps(p)'
      BY <1>2, <1>4, <1>6, <1>9, <2>1, <2>2
      DEF Swaps, Untouched, Unopened, GivenUp, Mix
    <2>4. tree'["exe"] = "old" \/ tree' = Mix({}) BY <1>3, <2>1, <2>2 DEF Mix
    <2> QED BY <1>2, <1>4, <1>6, <1>7, <1>9, <2>3, <2>4, SwapStep
  <1> QED BY <1>8, <1>9

LEMMA ShareInInv ==
    ASSUME Types, IInv, NEW p \in Procs, ShareIn(p)
    PROVE  Types' /\ IInv'
  <1>1. /\ UNCHANGED <<saved, feed, backup, manifest, displaced, locks, applies, faults, lost>>
        /\ tree' = [tree EXCEPT !["share"] = "new"] /\ Go(p, "swap")
        /\ proc[p].at = "sharein" /\ Swaps(p)
        /\ tree \in [Entries -> Version] /\ displaced' \in Version
        /\ faults' \in 0 .. MaxFaults
    BY DEF ShareIn, At, Types, TypeOK, IInv, Local
  <1>2. /\ Moved(p) /\ proc'[p].at = "swap" /\ proc'[p].token = proc[p].token
        /\ proc'[p].seen = proc[p].seen /\ proc'[p].left = proc[p].left
    BY <1>1, GoMoves DEF Ats, HelperAt
  <1>3. /\ ~Untouched /\ (saved.phase = "swapped" \/ GivenUp)
        /\ "exe" \in proc[p].left /\ "share" \notin proc[p].left
        /\ tree = [Mix(proc[p].left) EXCEPT !["share"] = "none"]
        /\ proc[p].seen.token = applies
    BY <1>1 DEF Swaps
  <1>4. tree' = Mix(proc[p].left) BY <1>1, <1>3 DEF Mix, Entries
  <1>5. tree'["exe"] = "old" BY <1>3, <1>4 DEF Mix, Entries
  <1>6. Swaps(p)'
    BY <1>1, <1>2, <1>3, <1>4 DEF Swaps, Untouched, Unopened, GivenUp, Mix
  <1>7. tree' \in [Entries -> Version] BY <1>1 DEF Version
  <1> QED BY <1>1, <1>2, <1>5, <1>6, <1>7, SwapStep

LEMMA ShareStuckInv ==
    ASSUME Types, IInv, NEW p \in Procs, ShareStuck(p)
    PROVE  Types' /\ IInv'
  <1>1. /\ UNCHANGED <<saved, feed, backup, manifest, locks, applies, lost>>
        /\ \/ tree' = [tree EXCEPT !["share"] = displaced] /\ displaced' = "none"
           \/ UNCHANGED <<tree, displaced>>
        /\ Go(p, "mark") /\ proc[p].at = "sharein" /\ Swaps(p)
        /\ tree \in [Entries -> Version] /\ displaced \in Version
        /\ faults' \in 0 .. MaxFaults
    BY ConstantsAssumption DEF ShareStuck, Fault, At, Types, TypeOK, IInv, Local
  <1>2. /\ Moved(p) /\ proc'[p].at = "mark" /\ proc'[p].token = proc[p].token
    BY <1>1, GoMoves DEF Ats, HelperAt
  <1>3. tree["exe"] = "old" BY <1>1, UnfinishedOld
  <1>4. tree'["exe"] = "old" BY <1>1, <1>3 DEF Entries
  <1>5. tree' \in [Entries -> Version] /\ displaced' \in Version BY <1>1 DEF Version
  <1>6. Swaps(p)' BY <1>2 DEF Swaps
  <1> QED BY <1>1, <1>2, <1>4, <1>5, <1>6, SwapStep

----------------------------------------------------------------------------
(* The rollback.                                                           *)

LEMMA MarksRollback ==
    ASSUME Types, IInv, NEW p \in Procs, NEW at \in {"mark", "unshare"}, Go(p, at),
           proc[p].at \in Holding, ~Unopened,
           saved' = [saved EXCEPT !.phase = "rollback"],
           UNCHANGED <<feed, disk, locks, applies, faults, lost>>
    PROVE  Types' /\ IInv'
  <1>1. /\ UNCHANGED <<tree, backup, manifest, displaced, stateLock, launchLock>>
        /\ Local(p) /\ at \in Ats
    BY DEF disk, locks, IInv, Ats, HelperAt
  <1>2. /\ Moved(p) /\ proc'[p].at = at /\ proc'[p].token = proc[p].token
    BY <1>1, GoMoves
  <1>3. saved' \in Saved /\ saved'.phase = "rollback" /\ saved'.staged = saved.staged
        /\ saved'.token = saved.token
    BY DEF Types, TypeOK, Saved, Phase
  <1>4. Types' BY <1>1, <1>2, <1>3 DEF Types, TypeOK, ExeSound, Moved
  <1>5. saved.phase # "none" /\ ~Unopened' /\ ~Untouched'
    BY <1>3 DEF Unopened, Untouched
  <1>6. Record' BY <1>3, <1>5 DEF IInv, Record
  <1>7. Store' BY <1>1, <1>5 DEF IInv, Store, AllOld, Empty
  <1>8. Install' BY <1>3, <1>5 DEF Install, PhaseIsTrue
  <1>9. ASSUME NEW q \in Procs \ {p} PROVE Local(q)'
    <2>1. /\ Local(q) /\ proc'[q].at = proc[q].at /\ proc'[q].seen = proc[q].seen
          /\ proc'[q].token = proc[q].token /\ proc[q].at \notin Holding
      BY <1>1, <1>2, OneHolds DEF IInv, Moved, Aside
    <2>2. Locked(q)' /\ Backs(q)' /\ Swaps(q)' /\ Rolls(q)'
      BY <2>1 DEF Locked, Backs, Swaps, Rolls, Holding, Writing
    <2>3. Books(q)' BY <1>3, <2>1 DEF Local, Books
    <2>4. Confirms(q)' BY <1>3, <2>1 DEF Local, Confirms
    <2> QED BY <2>2, <2>3, <2>4 DEF Local
  <1>10. Local(p)'
    <2>1. Locked(p)' /\ Backs(p)' /\ Swaps(p)' /\ Rolls(p)' /\ Books(p)'
      BY <1>1, <1>2, <1>3, <1>5 DEF Local, Locked, Backs, Swaps, Rolls, Books
    <2>2. Confirms(p)' BY <1>1, <1>2, <1>3 DEF Local, Confirms
    <2> QED BY <2>1, <2>2 DEF Local
  <1> QED BY <1>4, <1>6, <1>7, <1>8, <1>9, <1>10 DEF IInv

LEMMA MarkRollbackInv ==
    ASSUME Types, IInv, NEW p \in Procs, MarkRollback(p)
    PROVE  Types' /\ IInv'
  <1>1. proc[p].at \in Holding BY DEF MarkRollback, At, Holding
  <1>2. CASE saved.phase \in {"swapped", "confirmed", "rollback"}
    <2>1. ~Unopened BY <1>2 DEF Unopened
    <2> QED BY <1>1, <1>2, <2>1, MarksRollback DEF MarkRollback
  <1>3. CASE saved.phase \notin {"swapped", "confirmed", "rollback"}
    <2>1. Go(p, "recover") /\ UNCHANGED <<saved, feed, disk, locks, applies, faults, lost>>
      BY <1>3 DEF MarkRollback
    <2> QED BY <2>1, UnfaultedQuiet, SameLocks, GoStep DEF Plain
  <1> QED BY <1>2, <1>3

LEMMA MarkInv ==
    ASSUME Types, IInv, NEW p \in Procs, Mark(p)
    PROVE  Types' /\ IInv'
  <1>1. proc[p].at = "mark" /\ proc[p].at \in Holding BY DEF Mark, At, Holding, Writing
  <1>2. CASE saved.staged
    <2>1. ~Unopened BY <1>1, <1>2 DEF IInv, Local, Rolls, Untouched
    <2> QED BY <1>1, <1>2, <2>1, MarksRollback DEF Mark
  <1>3. CASE ~saved.staged
    <2>1. Go(p, "recover") /\ UNCHANGED <<saved, feed, disk, locks, applies, faults, lost>>
      BY <1>3 DEF Mark
    <2> QED BY <2>1, UnfaultedQuiet, SameLocks, GoStep DEF Plain
  <1> QED BY <1>2, <1>3

\* A change of the install during a rollback.
Undoing == {"unshare", "reshare", "copyshare", "restore"}

LEMMA UndoStep ==
    ASSUME Types, IInv, NEW p \in Procs, Moved(p),
           proc[p].at \in Undoing, proc'[p].at \in Undoing,
           proc'[p].token = proc[p].token,
           UNCHANGED <<saved, feed, applies, lost, locks, backup, manifest>>,
           displaced' \in Version, faults' \in 0 .. MaxFaults,
           tree' \in [Entries -> Version], tree'["exe"] \in {"old", "new"}
    PROVE  Types' /\ IInv'
  <1>1. UNCHANGED <<stateLock, launchLock>> /\ LocksTyped /\ Rolls(p)
    BY SameLocks DEF IInv, Local, locks
  <1>2. saved.phase = "rollback" \/ GivenUp BY <1>1 DEF Rolls, Undoing
  <1>3. Store' BY DEF IInv, Store, Untouched, Unopened, AllOld, Empty
  <1>4. Install' BY <1>2 DEF Install, PhaseIsTrue, Untouched, Unopened, GivenUp
  <1>5. Backs(p)' /\ Swaps(p)' BY DEF Backs, Swaps, Undoing
  <1>6. Rolls(p)' BY <1>2 DEF Rolls, GivenUp, Undoing
  <1>7. ExeSound' BY DEF Types, ExeSound
  <1>8. proc[p].at \in Holding /\ proc'[p].at \in Holding BY DEF Undoing, Holding, Writing
  <1>9. backup' \in [Entries -> Version] /\ manifest' \in BOOLEAN
    BY DEF Types, TypeOK
  <1>10. saved.phase # "swapped" BY <1>2 DEF GivenUp
  <1> QED BY <1>1, <1>3, <1>4, <1>5, <1>6, <1>7, <1>8, <1>9, <1>10, WorkStep

LEMMA RestoringMoves ==
    ASSUME Types, NEW p \in Procs, Restoring(p)
    PROVE  Moved(p) /\ proc'[p].at = "restore" /\ proc'[p].token = proc[p].token
  <1>1. proc[p] \in Process BY DEF Types, TypeOK
  <1>2. [proc[p] EXCEPT !.at = "restore", !.left = Entries \ {"share"}] \in Process
    BY <1>1 DEF Process, HelperAt
  <1> QED BY <1>1, <1>2 DEF Restoring, Moved, Aside, Types, TypeOK, Process

\* A helper that leaves the rollback.
LEMMA GivesUp ==
    ASSUME Types, IInv, NEW p \in Procs, Go(p, "recover"),
           UNCHANGED <<saved, feed, disk, locks, applies, faults, lost>>
    PROVE  Types' /\ IInv'
  BY UnfaultedQuiet, SameLocks, GoStep DEF Plain

LEMMA RemoveShareInv ==
    ASSUME Types, IInv, NEW p \in Procs, RemoveShare(p)
    PROVE  Types' /\ IInv'
  <1>1. CASE manifest
    <2>1. /\ tree' = [tree EXCEPT !["share"] = "none"] /\ Go(p, "reshare")
          /\ UNCHANGED <<saved, feed, backup, manifest, displaced, locks,
                         applies, faults, lost>>
          /\ proc[p].at \in Undoing
      BY <1>1 DEF RemoveShare, At, Undoing
    <2>2. /\ Moved(p) /\ proc'[p].at \in Undoing /\ proc'[p].token = proc[p].token
      BY <2>1, GoMoves DEF Ats, HelperAt, Undoing
    <2>3. tree' \in [Entries -> Version] /\ tree'["exe"] \in {"old", "new"}
          /\ displaced' \in Version /\ faults' \in 0 .. MaxFaults
      BY <2>1 DEF Types, TypeOK, ExeSound, Version, Entries
    <2> QED BY <2>1, <2>2, <2>3, UndoStep
  <1>2. CASE ~manifest BY <1>2, GivesUp DEF RemoveShare, disk
  <1> QED BY <1>1, <1>2

LEMMA ReturnShareInv ==
    ASSUME Types, IInv, NEW p \in Procs, ReturnShare(p) \/ ReturnStuck(p)
    PROVE  Types' /\ IInv'
  <1>1. /\ UNCHANGED <<saved, feed, backup, manifest, locks, applies, lost>>
        /\ \/ tree' = [tree EXCEPT !["share"] = displaced] /\ displaced' = "none"
              /\ Restoring(p)
           \/ tree' = [tree EXCEPT !["share"] = "torn"] /\ displaced' = displaced
              /\ Go(p, "copyshare")
        /\ proc[p].at \in Undoing /\ faults' \in 0 .. MaxFaults
    BY ConstantsAssumption DEF ReturnShare, ReturnStuck, Fault, At, Undoing, Types, TypeOK
  <1>2. /\ Moved(p) /\ proc'[p].at \in Undoing /\ proc'[p].token = proc[p].token
    BY <1>1, GoMoves, RestoringMoves DEF Ats, HelperAt, Undoing
  <1>3. tree' \in [Entries -> Version] /\ tree'["exe"] \in {"old", "new"}
        /\ displaced' \in Version
    BY <1>1 DEF Types, TypeOK, ExeSound, Version, Entries
  <1> QED BY <1>1, <1>2, <1>3, UndoStep

LEMMA CopyShareInv ==
    ASSUME Types, IInv, NEW p \in Procs, CopyShare(p)
    PROVE  Types' /\ IInv'
  <1>1. /\ UNCHANGED <<saved, feed, backup, manifest, displaced, locks,
                       applies, faults, lost>>
        /\ tree' = [tree EXCEPT !["share"] = backup["share"]] /\ Restoring(p)
        /\ proc[p].at \in Undoing
    BY DEF CopyShare, At, Undoing
  <1>2. /\ Moved(p) /\ proc'[p].at \in Undoing /\ proc'[p].token = proc[p].token
    BY <1>1, RestoringMoves DEF Undoing
  <1>3. tree' \in [Entries -> Version] /\ tree'["exe"] \in {"old", "new"}
        /\ displaced' \in Version /\ faults' \in 0 .. MaxFaults
    BY <1>1 DEF Types, TypeOK, ExeSound, Entries
  <1> QED BY <1>1, <1>2, <1>3, UndoStep

LEMMA RestoreEntryInv ==
    ASSUME Types, IInv, NEW p \in Procs, RestoreEntry(p)
    PROVE  Types' /\ IInv'
  <1>1. PICK e \in proc[p].left :
        IF backup[e] = "none" THEN Go(p, "recover") /\ UNCHANGED tree
        ELSE /\ tree' = [tree EXCEPT ![e] = backup[e]]
             /\ proc' = [proc EXCEPT ![p].left = @ \ {e}]
    BY DEF RestoreEntry
  <1>2. /\ UNCHANGED <<saved, feed, backup, manifest, displaced, locks,
                       applies, faults, lost>>
        /\ proc[p].at = "restore" /\ proc[p] \in Process
    BY DEF RestoreEntry, At, Types, TypeOK
  <1>3. CASE backup[e] = "none" BY <1>1, <1>2, <1>3, GivesUp DEF disk
  <1>4. CASE backup[e] # "none"
    <2>1. e \in Entries /\ [proc[p] EXCEPT !.left = proc[p].left \ {e}] \in Process
      BY <1>2 DEF Process
    <2>2. /\ Moved(p) /\ proc'[p].at = "restore" /\ proc'[p].token = proc[p].token
      BY <1>1, <1>2, <1>4, <2>1 DEF Moved, Aside, Types, TypeOK, Process
    <2>3. tree' \in [Entries -> Version] /\ tree'["exe"] \in {"old", "new"}
          /\ displaced' \in Version /\ faults' \in 0 .. MaxFaults
      BY <1>1, <1>2, <1>4, <2>1 DEF Types, TypeOK, ExeSound, Entries
    <2>4. proc[p].at \in Undoing /\ proc'[p].at \in Undoing BY <1>2, <2>2 DEF Undoing
    <2> QED BY <1>2, <2>2, <2>3, <2>4, UndoStep
  <1> QED BY <1>3, <1>4

\* What a rollback has verified against its backup is the old install.
LEMMA VerifiedIsOld ==
    ASSUME Types, IInv, saved.phase = "rollback", tree = backup
    PROVE  tree = AllOld /\ ~lost
  <1>1. ~lost
    <2>1. lost => tree["exe"] = "none" BY DEF IInv, Store, Empty, Entries
    <2> QED BY <2>1 DEF Types, ExeSound
  <1> QED BY <1>1 DEF IInv, Store, Unopened

LEMMA RestoredInv ==
    ASSUME Types, IInv, NEW p \in Procs, Restored(p)
    PROVE  Types' /\ IInv'
  <1>1. /\ UNCHANGED <<feed, tree, backup, manifest, displaced, stateLock, launchLock,
                       applies, faults, lost>>
        /\ UNCHANGED locks /\ proc[p].at = "restore" /\ Local(p)
    BY DEF Restored, At, disk, locks, IInv
  <1>2. CASE ~(tree = backup /\ saved.phase = "rollback")
    BY <1>1, <1>2, GivesUp DEF Restored
  <1>3. CASE tree = backup /\ saved.phase = "rollback"
    <2>1. /\ saved' = [saved EXCEPT !.phase = "none", !.token = 0] /\ Go(p, "cleanup")
      BY <1>3 DEF Restored
    <2>2. tree = AllOld /\ ~lost /\ saved.staged /\ feed = "same"
      BY <1>3, VerifiedIsOld DEF IInv, Record
    <2>3. saved' \in Saved /\ saved'.phase = "none" /\ saved'.staged
      <3>1. saved \in Saved /\ 0 \in 0 .. MaxApplies
        BY ConstantsAssumption DEF Types, TypeOK
      <3> QED BY <2>1, <2>2, <3>1 DEF Saved, Phase
    <2>4. /\ Moved(p) /\ proc'[p].at = "cleanup" /\ proc'[p].token = proc[p].token
      BY <2>1, GoMoves DEF Ats, HelperAt
    <2>5. Types' BY <1>1, <2>3, <2>4 DEF Types, TypeOK, ExeSound, Moved
    <2>6. Record' /\ Store' /\ Install'
      BY <1>1, <2>2, <2>3
      DEF IInv, Record, Store, Install, PhaseIsTrue, Untouched, Unopened, Whole, AllOld
    <2>7. ASSUME NEW q \in Procs \ {p} PROVE Local(q)'
      <3>1. /\ Local(q) /\ proc'[q].at = proc[q].at /\ proc'[q].seen = proc[q].seen
            /\ proc'[q].token = proc[q].token /\ proc[q].at \notin Holding
        BY <1>1, <2>4, OneHolds DEF IInv, Moved, Aside, Holding, Writing
      <3>2. Locked(q)' /\ Backs(q)' /\ Swaps(q)' /\ Rolls(q)'
        BY <3>1 DEF Locked, Backs, Swaps, Rolls, Holding, Writing
      <3>3. Books(q)' BY <2>2, <3>1 DEF Local, Books
      <3>4. Confirms(q)' BY <1>1, <2>3, <3>1 DEF Local, Confirms
      <3> QED BY <3>2, <3>3, <3>4 DEF Local
    <2>8. Local(p)'
      <3>1. Locked(p) /\ Confirms(p) BY <1>1 DEF Local
      <3>2. Locked(p)' BY <1>1, <3>1 DEF Locked, Holding, Writing
      <3>3. Backs(p)' /\ Swaps(p)' /\ Rolls(p)' /\ Books(p)'
        BY <2>3, <2>4 DEF Backs, Swaps, Rolls, Books, Unopened
      <3>4. Confirms(p)' BY <1>1, <2>3, <2>4, <3>1 DEF Confirms
      <3> QED BY <3>2, <3>3, <3>4 DEF Local
    <2> QED BY <2>5, <2>6, <2>7, <2>8 DEF IInv
  <1> QED BY <1>2, <1>3

LEMMA CleanupInv ==
    ASSUME Types, IInv, NEW p \in Procs, Cleanup(p)
    PROVE  Types' /\ IInv'
  <1>1. /\ UNCHANGED <<saved, feed, tree, locks, applies, faults, lost>>
        /\ UNCHANGED <<stateLock, launchLock>> /\ Go(p, "relaunch")
        /\ backup' = Empty /\ manifest' = FALSE /\ displaced' = "none"
        /\ proc[p].at = "cleanup" /\ Unopened
    BY DEF Cleanup, At, locks, IInv, Local, Rolls
  <1>2. /\ Moved(p) /\ proc'[p].at = "relaunch" /\ proc'[p].token = proc[p].token
    BY <1>1, GoMoves DEF Ats, HelperAt
  <1>3. Store' BY <1>1 DEF IInv, Store, Untouched, Unopened
  <1>4. Install'
    BY <1>1 DEF IInv, Install, PhaseIsTrue, Untouched, Unopened, Whole, AllOld
  <1>5. Backs(p)' /\ Swaps(p)' /\ Rolls(p)' BY <1>2 DEF Backs, Swaps, Rolls
  <1>6. LocksTyped BY <1>1, SameLocks
  <1>7. Whole("new") => Whole("new")' BY <1>1 DEF Whole
  <1>8. proc[p].at \in Holding /\ proc'[p].at \in Holding
    BY <1>1, <1>2 DEF Holding, Writing
  <1>9. /\ tree' \in [Entries -> Version] /\ backup' \in [Entries -> Version]
        /\ manifest' \in BOOLEAN /\ displaced' \in Version /\ faults' \in 0 .. MaxFaults
        /\ ExeSound'
    BY <1>1 DEF Types, TypeOK, ExeSound, Empty, Version, Entries
  <1> QED BY <1>1, <1>2, <1>3, <1>4, <1>5, <1>6, <1>7, <1>8, <1>9, WorkStep

----------------------------------------------------------------------------
(* What changes the stage directory or the feed with no helper at work.    *)

\* With nothing pending, no helper makes a backup, and nobody else asks
\* anything of it.
LEMMA StoreDropped ==
    ASSUME NEW q \in Procs, Local(q), saved.phase # "pending",
           UNCHANGED <<saved, feed, tree, applies>>, lost => lost',
           launchLock = q => launchLock' = q,
           proc'[q].at = proc[q].at, proc'[q].seen = proc[q].seen,
           proc'[q].token = proc[q].token, proc'[q].left = proc[q].left
    PROVE  Local(q)'
  <1>1. Locked(q)' BY DEF Local, Locked
  <1>2. Backs(q)' BY DEF Local, Backs
  <1>3. Swaps(q)' BY DEF Local, Swaps, Untouched, Unopened, GivenUp, Mix, AllOld
  <1>4. Rolls(q)' /\ Books(q)'
    BY DEF Local, Rolls, Books, Untouched, Unopened, GivenUp
  <1>5. Confirms(q)' BY DEF Local, Confirms, Whole
  <1> QED BY <1>1, <1>2, <1>3, <1>4, <1>5 DEF Local

LEMMA CleanInv ==
    ASSUME Types, IInv, NEW p \in Procs, Clean(p)
    PROVE  Types' /\ IInv'
  <1>1. /\ UNCHANGED <<saved, feed, tree, applies, faults, lost>>
        /\ backup' = Empty /\ manifest' = FALSE /\ displaced' = "none"
        /\ (Continue(p) /\ UNCHANGED locks) \/ Exit(p, "ok")
    BY DEF Clean
  <1>2. saved.phase = "none"
    BY DEF Clean, At, IInv, Record, Local, Books
  <1>3. /\ Moved(p) /\ proc'[p].at \in {"confirm", "gone", "open"}
        /\ (proc'[p].token = 0 \/ proc'[p].token = proc[p].token)
    BY <1>1, PastMoves, ExitMoves, GoneTyped
  <1>4. LocksKept(p) /\ LocksTyped
    BY <1>1, SameLocks, ReleasedLocks DEF Exit
  <1>5. Types'
    BY <1>1, <1>3, <1>4
    DEF Types, TypeOK, ExeSound, Moved, LocksTyped, Empty, Version, Entries
  <1>6. Record' BY <1>1 DEF IInv, Record
  <1>7. Store' BY <1>1, <1>2 DEF IInv, Store, Untouched, Unopened
  <1>8. Install'
    BY <1>1 DEF IInv, Install, PhaseIsTrue, Untouched, Unopened, Whole, AllOld
  <1>9. ASSUME NEW q \in Procs \ {p} PROVE Local(q)'
    <2>1. /\ Local(q) /\ proc'[q].at = proc[q].at /\ proc'[q].seen = proc[q].seen
          /\ proc'[q].token = proc[q].token /\ proc'[q].left = proc[q].left
          /\ (launchLock = q => launchLock' = q)
      BY <1>3, <1>4 DEF IInv, Moved, Aside, LocksKept
    <2> QED BY <1>1, <1>2, <2>1, StoreDropped
  <1>10. Local(p)'
    <2>1. Locked(p)' /\ Backs(p)' /\ Swaps(p)' /\ Rolls(p)' /\ Books(p)'
      BY <1>3 DEF Locked, Backs, Swaps, Rolls, Books, Holding, Writing
    <2>2. proc[p].token <= applies /\ applies \in Nat /\ applies' = applies
      BY <1>1, ConstantsAssumption DEF IInv, Local, Confirms, Types, TypeOK
    <2>3. Confirms(p)' BY <1>1, <1>2, <1>3, <2>2 DEF Confirms
    <2> QED BY <2>1, <2>3 DEF Local
  <1> QED BY <1>5, <1>6, <1>7, <1>8, <1>9, <1>10 DEF IInv

LEMMA LoseBackupInv ==
    ASSUME Types, IInv, LoseBackup
    PROVE  Types' /\ IInv'
  <1>1. /\ UNCHANGED <<saved, feed, tree, displaced, stateLock, launchLock, proc, applies>>
        /\ saved.phase \in {"swapped", "rollback"}
        /\ manifest' = FALSE /\ backup' = Empty /\ lost' = TRUE
        /\ faults' \in 0 .. MaxFaults
    BY ConstantsAssumption DEF LoseBackup, locks, Fault, Types, TypeOK
  <1>2. Types'
    BY <1>1 DEF Types, TypeOK, ExeSound, Empty, Version, Entries
  <1>3. Record' /\ Store' BY <1>1 DEF IInv, Record, Store, Untouched, Unopened
  <1>4. Install'
    BY <1>1 DEF IInv, Install, PhaseIsTrue, Untouched, Unopened, Whole, AllOld
  <1>5. ASSUME NEW q \in Procs PROVE Local(q)'
    <2>1. Local(q) BY DEF IInv
    <2> QED BY <1>1, <2>1, StoreDropped
  <1> QED BY <1>2, <1>3, <1>4, <1>5 DEF IInv

\* The feed is changed with no update under way.
FeedKept == FeedChanges \subseteq {"none"}

LEMMA ChangeFeedInv ==
    ASSUME Types, IInv, ChangeFeed, FeedKept
    PROVE  Types' /\ IInv'
  <1>1. /\ UNCHANGED <<saved, tree, backup, manifest, displaced, stateLock, launchLock,
                       proc, applies, faults, lost>>
        /\ saved.phase = "none" /\ feed' = "other"
    BY DEF ChangeFeed, FeedKept, disk, locks
  <1>2. Types' BY <1>1 DEF Types, TypeOK, ExeSound
  <1>3. Record' /\ Store' /\ Install'
    BY <1>1
    DEF IInv, Record, Store, Install, PhaseIsTrue, Untouched, Unopened, Whole, AllOld, Empty
  <1>4. ASSUME NEW q \in Procs PROVE Local(q)'
    <2>1. Local(q) BY DEF IInv
    <2>2. Locked(q)' /\ Backs(q)' BY <1>1, <2>1 DEF Local, Locked, Backs
    <2>3. Swaps(q)'
      BY <1>1, <2>1 DEF Local, Swaps, Untouched, Unopened, GivenUp, Mix, AllOld
    <2>4. Rolls(q)' BY <1>1, <2>1 DEF Local, Rolls, Untouched, Unopened, GivenUp
    <2>5. Books(q)' BY <1>1, <2>1 DEF Local, Books
    <2>6. Confirms(q)' BY <1>1, <2>1 DEF Local, Confirms, Whole
    <2> QED BY <2>2, <2>3, <2>4, <2>5, <2>6 DEF Local
  <1> QED BY <1>2, <1>3, <1>4 DEF IInv

----------------------------------------------------------------------------
(* The specification.                                                      *)

LEMMA InitInv ==
    ASSUME Init
    PROVE  Types /\ IInv
  <1>1. 0 \in 0 .. MaxApplies /\ 0 \in 0 .. MaxFaults BY ConstantsAssumption
  <1>2. Types
    BY <1>1, GoneTyped
    DEF Init, Types, TypeOK, ExeSound, Saved, Phase, Version, Empty, Entries
  <1>3. Record /\ Store /\ Install
    BY DEF Init, Record, Store, Install, PhaseIsTrue, Untouched, Unopened, Whole, AllOld, Empty
  <1>4. ASSUME NEW p \in Procs PROVE Local(p)
    <2>1. proc[p].at = "gone" /\ proc[p].token = 0 BY GoneTyped DEF Init
    <2>2. Locked(p) /\ Backs(p) /\ Swaps(p) /\ Rolls(p) /\ Books(p)
      BY <2>1 DEF Locked, Backs, Swaps, Rolls, Books, Holding, Writing
    <2>3. Confirms(p) BY <2>1 DEF Init, Confirms
    <2> QED BY <2>2, <2>3 DEF Local
  <1> QED BY <1>2, <1>3, <1>4 DEF IInv

LEMMA NextInv ==
    ASSUME Types, IInv, Next, FeedKept
    PROVE  Types' /\ IInv'
  <1>1. ASSUME NEW p \in Procs, Start(p) \/ Preflight(p) PROVE Types' /\ IInv'
    BY <1>1, StartInv, LoadInv, MatchInv, ProbeInv, RecoverableInv, TakeLaunchLockInv,
       SpawnHelperInv, AbandonInv, FinalizeInv, CleanInv
    DEF Preflight
  <1>2. ASSUME NEW p \in Procs, Window(p) PROVE Types' /\ IInv'
    BY <1>2, ConfirmInv, HashInv, ConfirmingInv, RequestApplyInv, CheckInv,
       DropForeignInv, QuitInv
    DEF Window
  <1>3. ASSUME NEW p \in Procs, Swap(p) PROVE Types' /\ IInv'
    BY <1>3, ClaimInv, VerifyInv, CopyEntryInv, CommitManifestInv, RecordSwappedInv,
       BeginSwapInv, SwapEntryInv, ShareInInv, SpawnNewInv, StopWatchingInv, KidEndedInv
    DEF Swap
  <1>4. ASSUME NEW p \in Procs, Rollback(p) PROVE Types' /\ IInv'
    BY <1>4, MarkRollbackInv, MarkInv, RemoveShareInv, ReturnShareInv, CopyShareInv,
       RestoreEntryInv, RestoredInv, CleanupInv, RelaunchInv, RecoverInv
    DEF Rollback
  <1>5. ASSUME NEW p \in Procs, Breaks(p) PROVE Types' /\ IInv'
    BY <1>5, LaunchFaultInv, HelperFaultInv, ShareStuckInv, ReturnShareInv,
       RecoverStuckInv, AppFaultInv, CrashInv
    DEF Breaks
  <1> QED BY <1>1, <1>2, <1>3, <1>4, <1>5, LoseBackupInv, ChangeFeedInv DEF Next, Goes

LEMMA Inductive ==
    ASSUME FeedKept
    PROVE  Spec => [](Types /\ IInv)
  <1>1. Init => Types /\ IInv BY InitInv
  <1>2. Types /\ IInv /\ [Next]_vars => (Types /\ IInv)'
    <2>1. ASSUME Types, IInv, UNCHANGED vars PROVE (Types /\ IInv)'
      <3>1. Quiet /\ UNCHANGED <<locks, proc>>
        BY <2>1 DEF vars, disk, Quiet, Shared, Types, TypeOK
      <3>2. LocksTyped /\ proc' \in [Procs -> Process]
        BY <2>1, <3>1 DEF locks, LocksTyped, Types, TypeOK
      <3>3. UNCHANGED Shared /\ UNCHANGED <<stateLock, launchLock>>
        BY <3>1 DEF Quiet, locks
      <3>4. Types' BY <2>1, <3>1, <3>2, SharedTyped
      <3>5. \A q \in Procs : Local(q)'
        BY <2>1, <3>1, <3>3, OneKept DEF IInv
      <3> QED BY <2>1, <3>3, <3>4, <3>5, SharedKept DEF IInv
    <2> QED BY <2>1, NextInv
  <1> QED BY <1>1, <1>2, PTL DEF Spec

\* The model's variables keep their types, so every record that is read back
\* is one the code can have written.
THEOREM TypeCorrect ==
    ASSUME FeedKept
    PROVE  Spec => []TypeOK
  <1>1. Types /\ IInv => TypeOK BY DEF Types
  <1> QED BY <1>1, Inductive, PTL

\* From the first file that may be replaced until the update is closed there
\* is a complete backup of the old build, whatever process ends where, unless
\* somebody else deleted it.
THEOREM BackupIsThere ==
    ASSUME FeedKept
    PROVE  Spec => []BackupCovers
  <1>1. Types /\ IInv => BackupCovers BY DEF IInv, Store, BackupCovers, AllOld
  <1> QED BY <1>1, Inductive, PTL

\* The recorded phase never says more of the install than is true: closed, it
\* is one build's; confirmed, it is the new one's; and while it is swapped
\* noctty.exe is replaced last.
THEOREM PhaseHolds ==
    ASSUME FeedKept
    PROVE  Spec => []PhaseIsTrue
  <1>1. Types /\ IInv => PhaseIsTrue BY DEF IInv, Install
  <1> QED BY <1>1, Inductive, PTL

\* Never two helpers at the files of an install: who is at work holds the
\* launch lock.
THEOREM AloneAtWork ==
    ASSUME FeedKept
    PROVE  Spec => []OneWriter
  <1>1. Types /\ IInv => OneWriter BY DEF IInv, Local, Locked, Holding, OneWriter
  <1> QED BY <1>1, Inductive, PTL

\* Only portable_apply.rollback closes a rollback whose backup is there, and
\* it has compared every file with that backup.
LEMMA RollbackCloses ==
    ASSUME Types, IInv, Next, saved.phase = "rollback", saved'.phase = "none", ~lost
    PROVE  Whole("old")
  <1>1. feed = "same" /\ manifest BY DEF IInv, Record, Store, Unopened
  <1>2. saved' # saved OBVIOUS
  <1>3. ASSUME NEW p \in Procs, Start(p) \/ Preflight(p) PROVE FALSE
    BY <1>1, <1>2, <1>3
    DEF Preflight, Start, Load, Match, Probe, Recoverable, TakeLaunchLock, SpawnHelper,
        Abandon, Abandoned, Finalize, Clean
  <1>4. ASSUME NEW p \in Procs, Window(p) PROVE FALSE
    <2>1. ~At(p, "checked") BY <1>1 DEF At, IInv, Local, Books
    <2> QED BY <1>2, <1>4, <2>1
         DEF Window, Confirm, Hash, Confirming, RequestApply, Check, DropForeign, Quit
  <1>5. ASSUME NEW p \in Procs, Swap(p) PROVE FALSE
    <2>1. ~RecordSwapped(p) BY DEF RecordSwapped, At, IInv, Local, Backs
    <2> QED BY <1>2, <1>5, <2>1
         DEF Swap, Claim, Verify, CopyEntry, CommitManifest, BeginSwap, SwapEntry, ShareIn,
             SpawnNew, StopWatching, KidEnded
  <1>6. ASSUME NEW p \in Procs, Rollback(p) PROVE Whole("old")
    <2>1. CASE Restored(p)
      <3>1. tree = backup BY <1>2, <2>1 DEF Restored
      <3> QED BY <3>1, VerifiedIsOld DEF Whole, AllOld
    <2>2. CASE MarkRollback(p) \/ Mark(p)
      <3>1. saved \in Saved BY DEF Types, TypeOK
      <3> QED BY <1>2, <2>2, <3>1 DEF MarkRollback, Mark, Saved
    <2>3. CASE ~Restored(p) /\ ~MarkRollback(p) /\ ~Mark(p)
      BY <1>2, <1>6, <2>3
      DEF Rollback, RemoveShare, ReturnShare, CopyShare, RestoreEntry, Cleanup, Relaunch,
          Recover, Abandoned
    <2> QED BY <2>1, <2>2, <2>3
  <1>7. ASSUME NEW p \in Procs, Breaks(p) PROVE FALSE
    BY <1>2, <1>7
    DEF Breaks, LaunchFault, HelperFault, ShareStuck, ReturnStuck, RecoverStuck, AppFault, Crash
  <1>8. ~ChangeFeed /\ ~LoseBackup BY <1>2 DEF ChangeFeed, LoseBackup
  <1> QED BY <1>3, <1>4, <1>5, <1>6, <1>7, <1>8 DEF Next, Goes

\* A rollback is closed only over a whole old install.
THEOREM RollbackIsWhole ==
    ASSUME FeedKept
    PROVE  Spec => RolledBackIsOld
  <1>1. Types /\ IInv /\ [Next]_vars
        => [saved.phase = "rollback" /\ saved'.phase = "none" /\ ~lost => Whole("old")]_vars
    BY RollbackCloses
  <1> QED BY <1>1, Inductive, PTL DEF Spec, RolledBackIsOld

=============================================================================
