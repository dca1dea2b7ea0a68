--------------------------- MODULE PortableUpdate ---------------------------
(***************************************************************************)
(* How a portable install replaces itself (update/portable_apply.zig and   *)
(* the portable half of update/github_releases.zig).                       *)
(*                                                                         *)
(* Applying a staged update spans processes.  A running noctty records the *)
(* wish and quits.  The next launch copies itself aside and starts that    *)
(* copy, the helper, which backs the install up, swaps the staged files in *)
(* one by one, starts the new build and watches it for 15 s.  The new      *)
(* build confirms.  Otherwise the helper, or that of a later launch, puts  *)
(* the backup back.                                                        *)
(*                                                                         *)
(* What they share is on disk: update-state.json (saved), the install      *)
(* (tree), the stage directory (backup, manifest, displaced) and two lock  *)
(* files.  Any process can end between any two steps; Windows then drops   *)
(* its locks.                                                              *)
(***************************************************************************)
EXTENDS Naturals

CONSTANTS
    Files,        \* the managed files other than share and noctty.exe
    Procs,        \* bound: processes alive at a time
    Nobody,       \* no process
    MaxApplies,   \* bound: how often the user asks for the update
    MaxFaults,    \* bound: failed operations, ended processes, lost backups
    FeedChanges   \* bound: the phases in which the user picks another feed

Phase == {"none", "pending", "swapped", "confirmed", "rollback"}

ASSUME ConstantsAssumption == /\ Nobody \notin Procs
                              /\ {"share", "exe"} \cap Files = {}
                              /\ MaxApplies \in Nat /\ MaxFaults \in Nat
                              /\ FeedChanges \subseteq Phase

Entries == Files \cup {"share", "exe"}

\* "torn": a share directory of which only a part was copied.
Version == {"old", "new", "torn", "none"}

VARIABLES
    saved,        \* update-state.json: [phase, token, staged]
    feed,         \* whether the feed it names is the one in use
    tree,         \* which build each managed entry of the install is of
    backup,       \* the copy in the stage directory
    manifest,     \* its .complete marker is there and matches it
    displaced,    \* the share directory the swap moved aside
    stateLock,    \* who holds update-state.json.lock
    launchLock,   \* who holds portable-update-launch.lock
    proc,         \* the noctty processes
    applies,      \* how often the update was asked for: the token of the last
    faults,       \* how much has gone wrong
    lost          \* the backup was deleted by somebody else

disk == <<tree, backup, manifest, displaced>>
locks == <<stateLock, launchLock>>
vars == <<saved, feed, disk, locks, proc, applies, faults, lost>>

Saved == [phase : Phase, token : 0 .. MaxApplies, staged : BOOLEAN]

\* `exe` is the build a process runs, `token` the confirmation token in its
\* environment, `seen` what it read of the saved state, `match` whether the
\* install was the staged payload when it looked.  For a helper, `mode` is
\* what it was started for, `left` the entries it has yet to handle, `kid`
\* how the build it started is doing; `boss` is the helper that started it.
AppAt == {"load", "match", "probe", "recoverable", "lock", "spawn", "abandon",
          "finalize", "clean", "confirm", "hash", "confirming", "open",
          "checked"}
HelperAt == {"claim", "verify", "backup", "commit", "displace",
             "swap", "sharein", "watch", "judge", "mark", "unshare", "reshare",
             "copyshare", "restore", "cleanup", "relaunch", "recover",
             "finalize", "clean"}
Process == [at : AppAt \cup HelperAt \cup {"gone"}, exe : {"old", "new"},
            token : 0 .. MaxApplies, seen : Saved, match : BOOLEAN,
            mode : {"app", "swap", "rollback"}, left : SUBSET Entries,
            kid : {"none", "running", "ok", "failed"},
            boss : Procs \cup {Nobody}]

Unread == [phase |-> "none", token |-> 0, staged |-> FALSE]
Gone == [at |-> "gone", exe |-> "old", token |-> 0, seen |-> Unread,
         match |-> FALSE, mode |-> "app", left |-> {}, kid |-> "none",
         boss |-> Nobody]

\* A whole install: one build's files and no other's.
Whole(v) == tree = [e \in Entries |-> v]
Empty == [e \in Entries |-> "none"]

Init == /\ saved = [phase |-> "none", token |-> 0, staged |-> TRUE]
        /\ feed = "same"
        /\ tree = [e \in Entries |-> "old"]
        /\ backup = Empty
        /\ manifest = FALSE
        /\ displaced = "none"
        /\ stateLock = Nobody
        /\ launchLock = Nobody
        /\ proc = [p \in Procs |-> Gone]
        /\ applies = 0
        /\ faults = 0
        /\ lost = FALSE

-----------------------------------------------------------------------------
(* Processes.                                                              *)

At(p, at) == proc[p].at = at

\* What is left when p ends: its helper learns how, its child forgets it.
Ended(p, how) ==
    [q \in Procs |->
        IF q = p THEN Gone
        ELSE CASE q = proc[p].boss -> [proc[q] EXCEPT !.kid = how]
               [] q # proc[p].boss /\ proc[q].boss = p -> [proc[q] EXCEPT !.boss = Nobody]
               [] OTHER -> proc[q]]
Released(lock, p) == IF lock = p THEN Nobody ELSE lock

Exit(p, how) == /\ proc' = Ended(p, how)
                /\ stateLock' = Released(stateLock, p)
                /\ launchLock' = Released(launchLock, p)

\* p ends having started another process, which takes its place.
Replace(p, started) ==
    /\ proc' = [Ended(p, "ok") EXCEPT ![p] = started]
    /\ stateLock' = Released(stateLock, p)
    /\ launchLock' = Released(launchLock, p)

App(at, token) == [Gone EXCEPT !.at = at, !.exe = tree["exe"], !.token = token]
Helper(mode) == [Gone EXCEPT !.at = "claim", !.exe = tree["exe"], !.mode = mode]

Go(p, at) == proc' = [proc EXCEPT ![p].at = at]
\* Past the preflight, and past the confirmation.
Past(p, at, token) == [Gone EXCEPT !.at = at, !.exe = proc[p].exe, !.token = token,
                                   !.boss = proc[p].boss]
Onward(p) == Past(p, "confirm", proc[p].token)
Opened(p) == Past(p, "open", 0)
Continue(p) == proc' = [proc EXCEPT ![p] = Onward(p)]
Open(p) == proc' = [proc EXCEPT ![p] = Opened(p)]
Free == stateLock = Nobody
Fault == faults < MaxFaults /\ faults' = faults + 1

-----------------------------------------------------------------------------
(* A launch, up to its window: preflightPortableUpdateStartup.             *)

\* A place is left for the build a helper starts.
Start(p) == /\ At(p, "gone") /\ \E q \in Procs \ {p} : At(q, "gone")
            /\ proc' = [proc EXCEPT ![p] = App("load", 0)]
            /\ UNCHANGED <<saved, feed, disk, locks, applies, faults, lost>>

\* The state is read without its lock.
Load(p) == /\ At(p, "load")
           /\ proc' = IF saved.phase = "none"
                      THEN [proc EXCEPT ![p] = Onward(p)]
                      ELSE [proc EXCEPT ![p].at = "match", ![p].seen = saved]
           /\ UNCHANGED <<saved, feed, disk, locks, applies, faults, lost>>

\* A record that names no staged update: the launch fails, unless the update
\* is only pending; then it goes on, and the record stays as it is because
\* abandonPendingPortableApply wants a portable stage.
Match(p) == /\ At(p, "match")
            /\ IF proc[p].seen.staged
               THEN /\ proc' = [proc EXCEPT
                            ![p].at = "probe",
                            ![p].match = proc[p].seen.phase = "swapped"
                                         /\ proc[p].exe = "new" /\ Whole("new")]
                    /\ UNCHANGED locks
               ELSE IF proc[p].seen.phase = "pending"
                    THEN Go(p, "abandon") /\ UNCHANGED locks
                    ELSE Exit(p, "failed")
            /\ UNCHANGED <<saved, feed, disk, applies, faults, lost>>

\* Another launch that is probing holds the launch lock for a moment.
Held(p) == {launchLock # Nobody}
           \cup {TRUE : q \in {q \in Procs \ {p} : At(q, "probe")}}

\* The token, or the install itself, says that this build is the target.
Vouched(p) == proc[p].match
              \/ (proc[p].token # 0 /\ proc[p].token = proc[p].seen.token)

\* shouldDeferPortableStartupToHelper, then portable_apply.decide.
(* Mutant: a confirmed update is left to the helper that watches it.       *)
ConfirmedGoesOn(p) ==
    CASE proc[p].seen.phase = "pending" -> "swap"
      [] proc[p].seen.phase = "confirmed" -> "go on"
      [] proc[p].seen.phase = "swapped" /\ Vouched(p) /\ proc[p].exe = "new" -> "go on"
      [] OTHER -> "rollback"
Decision(p) ==
    CASE proc[p].seen.phase = "pending" -> "swap"
      [] proc[p].seen.phase = "confirmed" -> "cleanup"
      [] proc[p].seen.phase = "swapped" /\ Vouched(p) /\ proc[p].exe = "new" -> "go on"
      [] OTHER -> "rollback"
Probe(p) ==
    /\ At(p, "probe")
    /\ \E active \in Held(p) :
         IF active /\ ~(proc[p].seen.phase = "swapped" /\ Vouched(p))
         THEN Exit(p, "ok")
         ELSE /\ CASE Decision(p) = "go on" -> Continue(p)
                   [] Decision(p) = "cleanup" -> Go(p, "finalize")
                   [] OTHER -> proc' = [proc EXCEPT ![p].at = "recoverable",
                                                    ![p].mode = Decision(p)]
              /\ UNCHANGED locks
    /\ UNCHANGED <<saved, feed, disk, applies, faults, lost>>

Cleared == [phase |-> "none", token |-> 0, staged |-> FALSE]

\* A launch that cannot start the helper goes on without the update, or fails
\* when what it owes is a rollback.
LaunchFails(p) == IF proc[p].mode = "swap"
                  THEN /\ Go(p, "abandon")
                       /\ launchLock' = Released(launchLock, p)
                       /\ UNCHANGED stateLock
                  ELSE Exit(p, "failed")

\* abandonUnrecoverablePortableApply.
Recoverable(p) ==
    /\ At(p, "recoverable") /\ Free
    /\ IF saved.staged /\ saved.phase \in {"swapped", "rollback"} /\ ~manifest
       THEN saved' = Cleared /\ Continue(p) /\ UNCHANGED locks
       ELSE /\ UNCHANGED saved
            /\ IF saved.staged THEN Go(p, "lock") /\ UNCHANGED locks
               ELSE LaunchFails(p)
    /\ UNCHANGED <<feed, disk, applies, faults, lost>>

TakeLaunchLock(p) ==
    /\ At(p, "lock")
    /\ \E held \in Held(p) :
         IF held THEN Exit(p, "ok")
         ELSE launchLock' = p /\ Go(p, "spawn") /\ UNCHANGED stateLock
    /\ UNCHANGED <<saved, feed, disk, applies, faults, lost>>

\* Read again under both locks: what the launch decided may be done already.
StillWanted(mode) == IF mode = "swap" THEN saved.phase = "pending"
                     ELSE saved.phase \in {"swapped", "confirmed", "rollback"}
SpawnHelper(p) ==
    /\ At(p, "spawn") /\ Free
    /\ CASE ~saved.staged -> LaunchFails(p)
         [] saved.staged /\ saved.phase = "none" ->
                /\ Continue(p) /\ launchLock' = Nobody /\ UNCHANGED stateLock
         [] saved.staged /\ saved.phase # "none" /\ ~StillWanted(proc[p].mode) ->
                Exit(p, "ok")
         [] OTHER -> Replace(p, Helper(proc[p].mode))
    /\ UNCHANGED <<saved, feed, disk, applies, faults, lost>>

\* The helper's image cannot be written or started, a lock cannot be opened.
LaunchFault(p) == /\ proc[p].at \in {"recoverable", "lock", "spawn"} /\ Fault
                  /\ LaunchFails(p)
                  /\ UNCHANGED <<saved, feed, disk, applies, lost>>

\* abandonPendingPortableApply.
Abandoned == IF saved.staged /\ saved.phase = "pending"
             THEN [saved EXCEPT !.phase = "none", !.token = 0] ELSE saved
Abandon(p) == /\ At(p, "abandon") /\ Free
              /\ saved' = Abandoned
              /\ Continue(p)
              /\ UNCHANGED <<feed, disk, locks, applies, faults, lost>>

\* finalizePortableConfirmation, of a launch or of a helper.  An error is
\* logged by the one and ends the other.
Finalize(p) == /\ At(p, "finalize") /\ Free
               /\ IF saved.phase = "confirmed" /\ saved.staged
                  THEN saved' = Cleared /\ Go(p, "clean") /\ UNCHANGED locks
                  ELSE /\ UNCHANGED saved
                       /\ IF proc[p].mode = "app"
                          THEN Continue(p) /\ UNCHANGED locks
                          ELSE Exit(p, "ok")
               /\ UNCHANGED <<feed, disk, applies, faults, lost>>

\* cleanupPortableRecoveryPaths takes no lock.
Clean(p) == /\ At(p, "clean")
            /\ backup' = Empty /\ manifest' = FALSE /\ displaced' = "none"
            /\ IF proc[p].mode = "app" THEN Continue(p) /\ UNCHANGED locks
               ELSE Exit(p, "ok")
            /\ UNCHANGED <<saved, feed, tree, applies, faults, lost>>

-----------------------------------------------------------------------------
(* A window: confirmPortableUpdateStartup, the request, the update check.  *)

\* The baseline is read without the lock, and the install hashed after it.
Confirm(p) == /\ At(p, "confirm")
              /\ proc' = IF saved.phase = "swapped" /\ saved.staged
                         THEN [proc EXCEPT ![p].at = "hash", ![p].seen = saved]
                         ELSE [proc EXCEPT ![p] = Opened(p)]
              /\ UNCHANGED <<saved, feed, disk, locks, applies, faults, lost>>

Hash(p) == /\ At(p, "hash")
           /\ IF /\ proc[p].exe = "new"
                 /\ Whole("new") \/ proc[p].token = proc[p].seen.token
              THEN Go(p, "confirming") ELSE Open(p)
           /\ UNCHANGED <<saved, feed, disk, locks, applies, faults, lost>>

\* stagedTransactionEqual: every request has a token of its own.
(* Mutant: only the phase is compared.                                     *)
AnyTransaction(p) == proc[p].seen.phase = "swapped"
SameTransaction(p) == saved = proc[p].seen
Confirming(p) ==
    /\ At(p, "confirming") /\ Free
    /\ saved' = IF saved.phase = "swapped" /\ SameTransaction(p)
                THEN [saved EXCEPT !.phase = "confirmed"] ELSE saved
    /\ Open(p)
    /\ UNCHANGED <<feed, disk, locks, applies, faults, lost>>

\* Apply (applyStagedUpdate, recordPortableApplyPending), offered by a build
\* older than the staged one.  What an earlier transaction left is deleted.
RequestApply(p) ==
    /\ At(p, "open") /\ Free
    /\ proc[p].exe = "old" /\ feed = "same" /\ saved.staged /\ saved.phase = "none"
    /\ applies < MaxApplies
    /\ applies' = applies + 1
    /\ saved' = [saved EXCEPT !.phase = "pending", !.token = applies + 1]
    /\ backup' = Empty /\ manifest' = FALSE /\ displaced' = "none"
    /\ Exit(p, "ok")
    /\ UNCHANGED <<feed, tree, faults, lost>>

Quit(p) == /\ At(p, "open")
           /\ Exit(p, "ok")
           /\ UNCHANGED <<saved, feed, disk, applies, faults, lost>>

\* checkLatestStableRelease, on a thread of its own: invalidateForeignFeedState
\* drops what was staged from another feed.  It takes no lock, reads the
\* state first and writes back what it read; the phase stays in it.
ChangeFeed == /\ saved.phase \in FeedChanges /\ feed = "same"
              /\ feed' = "other"
              /\ UNCHANGED <<saved, disk, locks, proc, applies, faults, lost>>

Check(p) == /\ At(p, "open") /\ feed = "other"
            /\ proc' = [proc EXCEPT ![p].at = "checked", ![p].seen = saved]
            /\ UNCHANGED <<saved, feed, disk, locks, applies, faults, lost>>

Invalidated(state) == [state EXCEPT !.staged = FALSE]
DropForeign(p) == /\ At(p, "checked")
                  /\ saved' = Invalidated(proc[p].seen)
                  /\ feed' = "checked"
                  /\ Open(p)
                  /\ UNCHANGED <<disk, locks, applies, faults, lost>>

-----------------------------------------------------------------------------
(* The helper: maybeRunPortableUpdateHelper.                               *)

\* claimPortableHelperLaunchLock waits for the launch lock, which the launch
\* that started the helper holds until it has ended.
(* Mutant: a lock that is taken is not waited for.                         *)
ClaimAnyway(p) ==
    /\ At(p, "claim") /\ saved.staged /\ Free /\ StillWanted(proc[p].mode)
    /\ launchLock' = p
    /\ Go(p, IF proc[p].mode = "swap" THEN "verify" ELSE "mark")
    /\ UNCHANGED <<saved, feed, disk, stateLock, applies, faults, lost>>
Claim(p) == /\ At(p, "claim")
            /\ IF saved.staged
               THEN /\ launchLock = Nobody /\ Free
                    /\ IF StillWanted(proc[p].mode)
                       THEN /\ launchLock' = p
                            /\ Go(p, IF proc[p].mode = "swap" THEN "verify" ELSE "mark")
                       ELSE UNCHANGED launchLock /\ Go(p, "recover")
               ELSE UNCHANGED launchLock /\ Go(p, "recover")
            /\ UNCHANGED <<saved, feed, disk, stateLock, applies, faults, lost>>

\* The state lock is held from here until the phase is saved.  The staged
\* files are unpacked and verified again.
Verify(p) ==
    /\ At(p, "verify") /\ Free
    /\ IF saved.staged /\ saved.phase = "pending"
       THEN /\ stateLock' = p
            /\ IF manifest
               THEN /\ proc' = [proc EXCEPT ![p].at = "commit", ![p].seen = saved]
                    /\ UNCHANGED backup
               ELSE /\ proc' = [proc EXCEPT ![p].at = "backup", ![p].seen = saved,
                                            ![p].left = Entries]
                    /\ backup' = Empty
       ELSE Go(p, "recover") /\ UNCHANGED <<stateLock, backup>>
    /\ UNCHANGED <<saved, feed, tree, manifest, displaced, launchLock,
                   applies, faults, lost>>

\* prepareBackup, one entry at a time, the marker last.
CopyEntry(p) == /\ At(p, "backup")
                /\ \E e \in proc[p].left :
                     /\ backup' = [backup EXCEPT ![e] = tree[e]]
                     /\ proc' = [proc EXCEPT ![p].left = @ \ {e}]
                /\ UNCHANGED <<saved, feed, tree, manifest, displaced, locks,
                               applies, faults, lost>>
(* Mutant: the marker is written first.                                    *)
CommitEarly(p) == /\ At(p, "backup")
                  /\ manifest' = TRUE
                  /\ Go(p, "commit")
                  /\ UNCHANGED <<saved, feed, tree, backup, displaced, locks,
                                 applies, faults, lost>>
CommitManifest(p) == /\ At(p, "backup") /\ proc[p].left = {}
                     /\ manifest' = TRUE
                     /\ Go(p, "commit")
                     /\ UNCHANGED <<saved, feed, tree, backup, displaced, locks,
                                    applies, faults, lost>>

\* Swapped is recorded before the first file is.
RecordSwapped(p) == /\ At(p, "commit")
                    /\ saved' = [saved EXCEPT !.phase = "swapped"]
                    /\ stateLock' = Nobody
                    /\ Go(p, "displace")
                    /\ UNCHANGED <<feed, disk, launchLock, applies, faults, lost>>

-----------------------------------------------------------------------------
(* swapPayload.                                                            *)

BeginSwap(p) ==
    /\ At(p, "displace")
    /\ IF manifest
       THEN /\ displaced' = "none"
            /\ proc' = [proc EXCEPT ![p].at = "swap", ![p].left = Entries]
       ELSE Go(p, "mark") /\ UNCHANGED displaced
    /\ UNCHANGED <<saved, feed, tree, backup, manifest, locks, applies, faults, lost>>

\* A file is replaced at once, noctty.exe after everything else.
Ready(left) == IF left = {"exe"} THEN left ELSE left \ {"exe"}
SwapEntry(p) ==
    /\ At(p, "swap")
    /\ \E e \in Ready(proc[p].left) :
         /\ tree' = [tree EXCEPT ![e] = IF e = "share" THEN "none" ELSE "new"]
         /\ displaced' = IF e = "share" THEN tree["share"] ELSE displaced
         /\ proc' = [proc EXCEPT ![p].left = @ \ {e},
                                 ![p].at = IF e = "share" THEN "sharein" ELSE "swap"]
    /\ UNCHANGED <<saved, feed, backup, manifest, locks, applies, faults, lost>>

\* The second of the two renames that replace a directory.
ShareIn(p) == /\ At(p, "sharein")
              /\ tree' = [tree EXCEPT !["share"] = "new"]
              /\ Go(p, "swap")
              /\ UNCHANGED <<saved, feed, backup, manifest, displaced, locks,
                             applies, faults, lost>>

-----------------------------------------------------------------------------
(* The new build, watched.                                                 *)

SpawnNew(p) ==
    /\ At(p, "swap") /\ proc[p].left = {}
    /\ \E q \in Procs \ {p} :
         /\ At(q, "gone")
         /\ proc' = [proc EXCEPT ![p].at = "watch", ![p].kid = "running",
                      ![q] = [App("load", proc[p].seen.token) EXCEPT !.boss = p]]
    /\ UNCHANGED <<saved, feed, disk, locks, applies, faults, lost>>

\* 15 s later.
StopWatching(p) ==
    /\ At(p, "watch") /\ proc[p].kid = "running"
    /\ IF saved.phase = "confirmed" THEN Go(p, "finalize") /\ UNCHANGED locks
       ELSE Exit(p, "ok")
    /\ UNCHANGED <<saved, feed, disk, applies, faults, lost>>

KidEnded(p) ==
    /\ At(p, "watch") /\ proc[p].kid \in {"ok", "failed"}
    /\ CASE proc[p].kid = "failed" /\ saved.phase \in {"swapped", "confirmed"} ->
                Go(p, "judge") /\ UNCHANGED locks
         [] proc[p].kid = "ok" /\ saved.phase = "confirmed" ->
                Go(p, "finalize") /\ UNCHANGED locks
         [] OTHER -> Exit(p, "ok")
    /\ UNCHANGED <<saved, feed, disk, applies, faults, lost>>

\* markPortableRollback.
MarkRollback(p) ==
    /\ At(p, "judge") /\ Free
    /\ IF saved.phase \in {"swapped", "confirmed", "rollback"}
       THEN saved' = [saved EXCEPT !.phase = "rollback"] /\ Go(p, "mark")
       ELSE Go(p, "recover") /\ UNCHANGED saved
    /\ UNCHANGED <<feed, disk, locks, applies, faults, lost>>

-----------------------------------------------------------------------------
(* rollbackPortableUpdateAndRelaunch and portable_apply.rollback.          *)

Mark(p) == /\ At(p, "mark") /\ Free
           /\ IF saved.staged
              THEN saved' = [saved EXCEPT !.phase = "rollback"] /\ Go(p, "unshare")
              ELSE Go(p, "recover") /\ UNCHANGED saved
           /\ UNCHANGED <<feed, disk, locks, applies, faults, lost>>

RemoveShare(p) == /\ At(p, "unshare")
                  /\ IF manifest
                     THEN /\ tree' = [tree EXCEPT !["share"] = "none"]
                          /\ Go(p, "reshare")
                     ELSE Go(p, "recover") /\ UNCHANGED tree
                  /\ UNCHANGED <<saved, feed, backup, manifest, displaced, locks,
                                 applies, faults, lost>>

\* The directory moved aside comes back; without one the backup is copied.
Restoring(p) == proc' = [proc EXCEPT ![p].at = "restore",
                                     ![p].left = Entries \ {"share"}]
ReturnShare(p) ==
    /\ At(p, "reshare")
    /\ IF displaced # "none"
       THEN /\ tree' = [tree EXCEPT !["share"] = displaced]
            /\ displaced' = "none"
            /\ Restoring(p)
       ELSE /\ tree' = [tree EXCEPT !["share"] = "torn"]
            /\ Go(p, "copyshare")
            /\ UNCHANGED displaced
    /\ UNCHANGED <<saved, feed, backup, manifest, locks, applies, faults, lost>>
CopyShare(p) == /\ At(p, "copyshare")
                /\ tree' = [tree EXCEPT !["share"] = backup["share"]]
                /\ Restoring(p)
                /\ UNCHANGED <<saved, feed, backup, manifest, displaced, locks,
                               applies, faults, lost>>

RestoreEntry(p) == /\ At(p, "restore")
                   /\ \E e \in proc[p].left :
                        IF backup[e] = "none" THEN Go(p, "recover") /\ UNCHANGED tree
                        ELSE /\ tree' = [tree EXCEPT ![e] = backup[e]]
                             /\ proc' = [proc EXCEPT ![p].left = @ \ {e}]
                   /\ UNCHANGED <<saved, feed, backup, manifest, displaced, locks,
                                  applies, faults, lost>>

\* Every file is hashed against the marker before the update is closed.
(* Mutant: closed before the files are back.                               *)
RestoredEarly(p) == /\ At(p, "restore") /\ Free
                    /\ saved' = [saved EXCEPT !.phase = "none", !.token = 0]
                    /\ Go(p, "cleanup")
                    /\ UNCHANGED <<feed, disk, locks, applies, faults, lost>>
Restored(p) == /\ At(p, "restore") /\ proc[p].left = {} /\ Free
               /\ IF tree = backup /\ saved.phase = "rollback"
                  THEN /\ saved' = [saved EXCEPT !.phase = "none", !.token = 0]
                       /\ Go(p, "cleanup")
                  ELSE Go(p, "recover") /\ UNCHANGED saved
               /\ UNCHANGED <<feed, disk, locks, applies, faults, lost>>
Cleanup(p) == /\ At(p, "cleanup")
              /\ backup' = Empty /\ manifest' = FALSE /\ displaced' = "none"
              /\ Go(p, "relaunch")
              /\ UNCHANGED <<saved, feed, tree, locks, applies, faults, lost>>
Relaunch(p) == /\ At(p, "relaunch")
               /\ Replace(p, App("load", 0))
               /\ UNCHANGED <<saved, feed, disk, applies, faults, lost>>

\* recoverPendingPortableFailure: a pending update is given up and noctty
\* opened without it, past the preflight.
Recover(p) == /\ At(p, "recover") /\ Free
              /\ saved' = Abandoned
              /\ IF saved.staged /\ saved.phase = "pending"
                 THEN Replace(p, App("confirm", 0))
                 ELSE Exit(p, "failed")
              /\ UNCHANGED <<feed, disk, applies, faults, lost>>

-----------------------------------------------------------------------------
(* What goes wrong.                                                        *)

Lower == {"verify", "backup", "commit"}
Rolling == {"judge", "mark", "unshare", "copyshare", "restore"}

\* An operation of the helper fails: a file in use, a full disk, a timeout.
\* A swap that fails is undone at once.
HelperFault(p) ==
    /\ proc[p].mode # "app" /\ Fault
    /\ \/ proc[p].at \in Lower \cup Rolling \cup {"finalize"} /\ Go(p, "recover")
       \/ At(p, "swap") /\ proc[p].left = {} /\ Go(p, "judge")
       \/ At(p, "displace") /\ Go(p, "mark")
       \/ At(p, "swap") /\ proc[p].left # {} /\ Go(p, "mark")
    /\ stateLock' = Released(stateLock, p)
    /\ UNCHANGED <<saved, feed, disk, launchLock, applies, lost>>

\* The second rename of a directory fails; the first is undone if it can be.
ShareStuck(p) == /\ At(p, "sharein") /\ Fault
                 /\ \/ /\ tree' = [tree EXCEPT !["share"] = displaced]
                       /\ displaced' = "none"
                    \/ UNCHANGED <<tree, displaced>>
                 /\ Go(p, "mark")
                 /\ UNCHANGED <<saved, feed, backup, manifest, locks, applies, lost>>

\* The displaced directory does not come back: the backup is copied instead.
ReturnStuck(p) == /\ At(p, "reshare") /\ displaced # "none" /\ Fault
                  /\ tree' = [tree EXCEPT !["share"] = "torn"]
                  /\ Go(p, "copyshare")
                  /\ UNCHANGED <<saved, feed, backup, manifest, displaced, locks,
                                 applies, lost>>

\* What failed before may keep a pending update from being given up as well:
\* noctty is opened all the same.
RecoverStuck(p) == /\ At(p, "recover") /\ saved.staged /\ saved.phase = "pending"
                   /\ faults > 0
                   /\ Replace(p, App("confirm", 0))
                   /\ UNCHANGED <<saved, feed, disk, applies, faults, lost>>

\* Bookkeeping of a launch fails, and the launch goes on.
AppFault(p) == /\ Fault
               /\ \/ At(p, "finalize") /\ proc[p].mode = "app" /\ Continue(p)
                  \/ At(p, "abandon") /\ Continue(p)
                  \/ proc[p].at \in {"confirm", "hash", "confirming"} /\ Open(p)
               /\ UNCHANGED <<saved, feed, disk, locks, applies, lost>>

\* The process is ended or the machine is: nothing of it is left but files.
Crash(p) == /\ ~At(p, "gone") /\ Fault
            /\ Exit(p, "failed")
            /\ UNCHANGED <<saved, feed, disk, applies, lost>>

\* Somebody deletes the backup.
LoseBackup == /\ saved.phase \in {"swapped", "rollback"} /\ manifest /\ Fault
              /\ manifest' = FALSE /\ backup' = Empty
              /\ lost' = TRUE
              /\ UNCHANGED <<saved, feed, tree, displaced, locks, proc, applies>>

-----------------------------------------------------------------------------
Preflight(p) == \/ Load(p) \/ Match(p) \/ Probe(p) \/ Recoverable(p)
                \/ TakeLaunchLock(p) \/ SpawnHelper(p) \/ Abandon(p)
                \/ Finalize(p) \/ Clean(p)
Window(p) == \/ Confirm(p) \/ Hash(p) \/ Confirming(p)
             \/ RequestApply(p) \/ Check(p) \/ DropForeign(p) \/ Quit(p)
Swap(p) == \/ Claim(p) \/ Verify(p) \/ CopyEntry(p)
           \/ CommitManifest(p) \/ RecordSwapped(p) \/ BeginSwap(p)
           \/ SwapEntry(p) \/ ShareIn(p)
           \/ SpawnNew(p) \/ StopWatching(p) \/ KidEnded(p)
Rollback(p) == \/ MarkRollback(p) \/ Mark(p) \/ RemoveShare(p) \/ ReturnShare(p)
               \/ CopyShare(p) \/ RestoreEntry(p) \/ Restored(p) \/ Cleanup(p)
               \/ Relaunch(p) \/ Recover(p)
Goes(p) == Preflight(p) \/ Window(p) \/ Swap(p) \/ Rollback(p)
Breaks(p) == \/ LaunchFault(p) \/ HelperFault(p) \/ ShareStuck(p)
             \/ ReturnStuck(p) \/ RecoverStuck(p) \/ AppFault(p) \/ Crash(p)

Next == \/ \E p \in Procs : Start(p) \/ Goes(p) \/ Breaks(p)
        \/ ChangeFeed \/ LoseBackup
Spec == Init /\ [][Next]_vars

\* A process that is not ended goes on.  LockFileEx serves its waiters in
\* turn, so helpers that wait are not passed over forever.  The user opens
\* noctty again, closes it in the end, and does not forever open two at the
\* same instant.
Apart(Takes(_), p) == Takes(p) /\ proc'[p].at # "gone"
FairSpec == /\ Spec
            /\ WF_vars(\E p \in Procs : Start(p))
            /\ \A p \in Procs : WF_vars(Goes(p))
            /\ SF_vars(\E p \in Procs : Claim(p))
            /\ SF_vars(\E p \in Procs : Apart(Probe, p))
            /\ SF_vars(\E p \in Procs : Apart(TakeLaunchLock, p))

-----------------------------------------------------------------------------
TypeOK == /\ saved \in Saved
          /\ feed \in {"same", "other", "checked"}
          /\ tree \in [Entries -> Version] /\ backup \in [Entries -> Version]
          /\ manifest \in BOOLEAN /\ displaced \in Version
          /\ {stateLock, launchLock} \subseteq Procs \cup {Nobody}
          /\ proc \in [Procs -> Process]
          /\ applies \in 0 .. MaxApplies /\ faults \in 0 .. MaxFaults
          /\ lost \in BOOLEAN

\* Nothing of the install has been replaced, or all of it is back.
Unopened == saved.phase \in {"none", "pending"}

\* From the first file that may be replaced until the update is closed there
\* is a complete backup of the old build to go back to (prepareBackup before
\* the phase is saved, cleanup only after it is cleared), whatever process
\* ended where and whoever starts meanwhile.
BackupCovers == ~Unopened /\ ~lost => manifest /\ backup = [e \in Entries |-> "old"]

\* The recorded phase never says more of the install than is true.  With no
\* update under way it is one build's, never a mix: each way of closing one
\* waits until its files are all in, or all back.  Only a whole new install is
\* confirmed, also by a build that was started for an earlier request and held
\* up since (stagedTransactionEqual).  And noctty.exe is replaced last: while
\* the update is swapped an executable of the new build stands in a whole new
\* install, so an interrupted swap is always met by the old preflight.
PhaseIsTrue ==
    /\ Unopened /\ ~lost => Whole("old") \/ Whole("new")
    /\ saved.phase = "confirmed" => Whole("new")
    /\ saved.phase = "swapped" /\ tree["exe"] = "new" => Whole("new")

\* Two helpers never replace files at a time, even when one of them was
\* started by a launch that had read an older state.
Writing == {"verify", "backup", "commit", "displace", "swap", "sharein", "mark",
            "unshare", "reshare", "copyshare", "restore", "cleanup"}
OneWriter == \A p, q \in Procs :
                proc[p].at \in Writing /\ proc[q].at \in Writing => p = q

\* A record of an update that may have replaced files names the stage it came
\* from: without one preflightPortableUpdateStartup returns an error, and no
\* launch opens a window again.
LaunchPossible == ~Unopened => saved.staged

\* A rollback is closed only over a whole old install.
RolledBackIsOld ==
    [][saved.phase = "rollback" /\ saved'.phase = "none" /\ ~lost => Whole("old")]_vars

\* Whatever fails, in the end no update is left half applied: launches and
\* helpers confirm it, put it back or give it up.
Resolves == saved.phase # "none" ~> saved.phase = "none"
=============================================================================
