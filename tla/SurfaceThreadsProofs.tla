----------------------- MODULE SurfaceThreadsProofs -----------------------
(***************************************************************************)
(* The safety properties of SurfaceThreads, proved for every capacity of   *)
(* the mailboxes (the renderer's more than one), every bound on the work   *)
(* and every choice of the optional happenings.                            *)
(*                                                                         *)
(* IInv is inductive: one lemma per thread, one step per action.           *)
(***************************************************************************)
EXTENDS SurfaceThreads, TLAPS

-----------------------------------------------------------------------------
(* What the shared steps keep well typed *)

Styles == {"never", "forever", "unless"}
Flags  == {"none", "stopping", "searchStopping"}

LEMMA GotoTyped ==
  ASSUME TypeOK, NEW t \in Threads, NEW label \in Labels, Goto(t, label)
  PROVE  pc' \in [Threads -> Labels]
BY DEF TypeOK, Goto

LEMMA NotifyTyped ==
  ASSUME TypeOK, NEW q \in Queues, Notify(q)
  PROVE  wake' \in [Queues -> BOOLEAN]
BY DEF TypeOK, Notify

LEMMA PopTyped ==
  ASSUME TypeOK, NEW q \in Queues, Pop(q)
  PROVE  len' \in [Queues -> Nat] /\ \A r \in Queues : len'[r] <= Cap[r]
<1>1. len[q] \in Nat /\ len[q] > 0
  BY DEF TypeOK, Pop
<1>2. ASSUME NEW r \in Queues
      PROVE  len'[r] \in Nat /\ len'[r] <= Cap[r]
  <2>1. len[r] \in Nat /\ Cap[r] \in Nat /\ len[r] <= Cap[r]
    BY BoundsAssumption DEF TypeOK
  <2>2. len'[r] = IF r = q THEN len[q] - 1 ELSE len[r]
    BY DEF TypeOK, Pop
  <2>. QED  BY <1>1, <2>1, <2>2
<1>3. len' = [r \in Queues |-> len'[r]]
  BY DEF TypeOK, Pop
<1>. QED  BY <1>2, <1>3

LEMMA EmptyTyped ==
  ASSUME TypeOK, NEW q, len' = [len EXCEPT ![q] = 0]
  PROVE  len' \in [Queues -> Nat] /\ \A r \in Queues : len'[r] <= Cap[r]
<1>1. ASSUME NEW r \in Queues
      PROVE  len'[r] \in Nat /\ len'[r] <= Cap[r]
  <2>1. len[r] \in Nat /\ Cap[r] \in Nat /\ len[r] <= Cap[r]
    BY BoundsAssumption DEF TypeOK
  <2>2. len'[r] = IF r = q THEN 0 ELSE len[r]
    BY DEF TypeOK
  <2>. QED  BY <2>1, <2>2
<1>2. len' = [r \in Queues |-> len'[r]]
  BY DEF TypeOK
<1>. QED  BY <1>1, <1>2

LEMMA BeginTyped ==
  ASSUME TypeOK, NEW t \in Threads, NEW label \in Sending, NEW to \in Queues,
         NEW style \in Styles, NEW flag \in Flags, NEW held \in BOOLEAN,
         NEW next \in Returns, Begin(t, label, to, style, flag, held, next)
  PROVE  /\ pc' \in [Threads -> Labels]
         /\ job' \in [Threads -> Jobs]
         /\ work' \in 0..MaxWork
<1>1. pc' \in [Threads -> Labels]
  BY GotoTyped DEF Begin, Labels
<1>2. [to |-> to, style |-> style, flag |-> flag, held |-> held, next |-> next] \in Jobs
  BY DEF Jobs, Styles, Flags
<1>3. job' \in [Threads -> Jobs]
  BY <1>2 DEF Begin, TypeOK
<1>4. work' \in 0..MaxWork
  BY BoundsAssumption DEF Begin, TypeOK
<1>. QED  BY <1>1, <1>3, <1>4

LEMMA AppSendsTyped ==
  ASSUME TypeOK, NEW next \in Returns, AppSends(next)
  PROVE  /\ pc' \in [Threads -> Labels]
         /\ job' \in [Threads -> Jobs]
         /\ work' \in 0..MaxWork
         /\ lock' \in Threads \cup {"free"}
<1>0. /\ "app" \in Threads /\ "io" \in Queues /\ "forever" \in Styles
      /\ "none" \in Flags /\ "try" \in Sending /\ "hint" \in Sending
      /\ \A q \in {"ren", "search"} : q \in Queues
  BY DEF Threads, Queues, Styles, Flags, Sending
<1>1. lock' \in Threads \cup {"free"}
  BY <1>0 DEF AppSends, AppSendsIo, AppSendsWorker, TypeOK
<1>2. CASE \E held \in BOOLEAN :
             Begin("app", "try", "io", "forever", "none", held, next)
  <2>1. PICK held \in BOOLEAN :
               Begin("app", "try", "io", "forever", "none", held, next)
    BY <1>2
  <2>. QED  BY <1>0, <1>1, <2>1, BeginTyped
<1>3. CASE \E q \in {"ren", "search"} :
             Begin("app", "hint", q, "forever", "none", FALSE, next)
  <2>1. PICK q \in {"ren", "search"} :
               Begin("app", "hint", q, "forever", "none", FALSE, next)
    BY <1>3
  <2>. QED  BY <1>0, <1>1, <2>1, BeginTyped
<1>. QED
  BY <1>1, <1>2, <1>3 DEF AppSends, AppSendsIo, AppSendsWorker

-----------------------------------------------------------------------------
(* A step of a send, of any thread *)

LEMMA SendStep ==
  ASSUME IInv, NEW t \in Threads, Send(t)
  PROVE  IInv'
<1>1. CASE TrySucceeds(t)
  BY <1>1, BoundsAssumption DEF Threads, Queues, Returns, Jobs, Goto, Room,
      Put, TrySucceeds, Sending, Closing, Labels, TypeOK, Afterwards, SendInv,
      LockInv, EndInv, IInv
<1>2. CASE TryFails(t)
  <2>1. TypeOK'
    <3>1. job[t].to \in Queues
      BY DEF IInv, TypeOK, Jobs
    <3>2. pc' \in [Threads -> Labels]
      BY <1>2, GotoTyped DEF IInv, TryFails, Labels, Sending
    <3>3. wake' \in [Queues -> BOOLEAN] /\ lock' \in Threads \cup {"free"}
      BY <1>2, <3>1, NotifyTyped DEF IInv, TypeOK, TryFails, MakeRoom, Release
    <3>. QED  BY <1>2, <3>2, <3>3 DEF IInv, TypeOK, TryFails
  <2>2. SendInv'
    BY <1>2 DEF Threads, Queues, Returns, Jobs, Goto, Notify, Room, Release,
        MakeRoom, TryFails, Sending, Closing, Labels, TypeOK, Afterwards,
        SendInv, IInv
  <2>3. LockInv'
    BY <1>2 DEF Threads, Queues, Returns, Jobs, Goto, Notify, Room, Release,
        MakeRoom, TryFails, Sending, Closing, Labels, TypeOK, Afterwards,
        SendInv, LockInv, IInv
  <2>4. EndInv'
    BY <1>2 DEF Threads, Queues, Returns, Jobs, Goto, Notify, Room, Release,
        MakeRoom, TryFails, Sending, Closing, Labels, TypeOK, Afterwards,
        SendInv, EndInv, IInv
  <2>. QED  BY <2>1, <2>2, <2>3, <2>4 DEF IInv
<1>3. CASE Hint(t)
  BY <1>3, BoundsAssumption DEF Threads, Queues, Returns, Jobs, Goto, Notify,
      Hint, Sending, Closing, Labels, TypeOK, Afterwards, SendInv, LockInv,
      EndInv, IInv
<1>4. CASE PushEnds(t)
  BY <1>4, BoundsAssumption DEF Threads, Queues, Returns, Jobs, Goto, Room,
      Put, AfterPush, PushEnds, Sending, Closing, Labels, TypeOK, Afterwards,
      SendInv, LockInv, EndInv, IInv
<1>5. CASE PushGivesUp(t)
  BY <1>5, BoundsAssumption DEF Threads, Queues, Returns, Jobs, Flag, Goto,
      Room, AfterPush, PushGivesUp, Sending, Closing, Labels, TypeOK,
      Afterwards, SendInv, LockInv, EndInv, IInv
<1>6. CASE SendNotifies(t)
  <2>1. TypeOK'
    <3>1. job[t].to \in Queues
      BY DEF IInv, TypeOK, Jobs
    <3>2. pc' \in [Threads -> Labels]
      BY <1>6, GotoTyped DEF IInv, SendNotifies, Labels, Sending
    <3>3. wake' \in [Queues -> BOOLEAN] /\ owed' \subseteq Queues
      BY <1>6, <3>1, NotifyTyped DEF IInv, TypeOK, SendNotifies, NotifyAfter
    <3>. QED  BY <1>6, <3>2, <3>3 DEF IInv, TypeOK, SendNotifies
  <2>2. SendInv'
    BY <1>6 DEF Threads, Queues, Returns, Jobs, Goto, Notify, NotifyAfter,
        SendNotifies, Sending, Closing, Labels, TypeOK, Afterwards, SendInv,
        IInv
  <2>3. LockInv'
    BY <1>6 DEF Threads, Queues, Returns, Jobs, Goto, Notify, NotifyAfter,
        SendNotifies, Sending, Closing, Labels, TypeOK, Afterwards, SendInv,
        LockInv, IInv
  <2>4. EndInv'
    BY <1>6 DEF Threads, Queues, Returns, Jobs, Goto, Notify, NotifyAfter,
        SendNotifies, Sending, Closing, Labels, TypeOK, Afterwards, SendInv,
        EndInv, IInv
  <2>. QED  BY <2>1, <2>2, <2>3, <2>4 DEF IInv
<1>7. CASE Relock(t)
  BY <1>7, BoundsAssumption DEF Threads, Queues, Returns, Jobs, Goto, Relock,
      Sending, Closing, Labels, TypeOK, Afterwards, SendInv, LockInv, EndInv,
      IInv
<1>8. CASE Sent(t)
  <2>1. TypeOK'
    <3>1. job[t].next \in Labels
      BY <1>8 DEF IInv, SendInv, Afterwards, Sent, Labels, Sending, Threads
    <3>2. pc' \in [Threads -> Labels]
      BY <1>8, <3>1, GotoTyped DEF IInv, Sent
    <3>3. Idle \in Jobs
      BY DEF Idle, Jobs, Queues, Returns
    <3>4. job' \in [Threads -> Jobs] /\ lock' \in Threads \cup {"free"}
      BY <1>8, <3>3 DEF IInv, TypeOK, Sent, Release
    <3>. QED  BY <1>8, <3>2, <3>4 DEF IInv, TypeOK, Sent
  <2>2. SendInv'
    BY <1>8 DEF Threads, Queues, Returns, Jobs, Idle, Goto, Release, Sent,
        Sending, Closing, Labels, TypeOK, Afterwards, SendInv, LockInv, IInv
  <2>3. LockInv'
    BY <1>8 DEF Threads, Queues, Returns, Jobs, Idle, Goto, Release, Sent,
        Sending, Closing, Labels, TypeOK, Afterwards, SendInv, LockInv, IInv
  <2>4. EndInv'
    BY <1>8 DEF Threads, Queues, Returns, Jobs, Idle, Goto, Release, Sent,
        Sending, Closing, Labels, TypeOK, Afterwards, SendInv, LockInv,
        EndInv, IInv
  <2>. QED  BY <2>1, <2>2, <2>3, <2>4 DEF IInv
<1>. QED
  BY <1>1, <1>2, <1>3, <1>4, <1>5, <1>6, <1>7, <1>8 DEF Send

-----------------------------------------------------------------------------
(* The app thread *)

LEMMA AppStep ==
  ASSUME IInv, App
  PROVE  IInv'
<1>1. CASE AppInput
  <2>1. TypeOK'
    <3>1. /\ pc' \in [Threads -> Labels]
          /\ job' \in [Threads -> Jobs]
          /\ work' \in 0..MaxWork
          /\ lock' \in Threads \cup {"free"}
      BY <1>1, AppSendsTyped DEF IInv, AppInput, Returns
    <3>. QED  BY <1>1, <3>1 DEF IInv, TypeOK, AppInput
  <2>2. SendInv'
    BY <1>1 DEF Threads, Queues, Returns, Jobs, Goto, Begin, AppSendsIo,
        AppSendsWorker, AppSends, AppInput, Sending, Closing, Labels, TypeOK,
        Afterwards, SendInv, IInv
  <2>3. LockInv'
    BY <1>1 DEF Threads, Queues, Returns, Jobs, Goto, Begin, AppSendsIo,
        AppSendsWorker, AppSends, AppInput, Sending, Closing, Labels, TypeOK,
        Afterwards, SendInv, LockInv, IInv
  <2>4. EndInv'
    BY <1>1 DEF Threads, Queues, Returns, Jobs, Goto, Begin, AppSendsIo,
        AppSendsWorker, AppSends, AppInput, Sending, Closing, Labels, TypeOK,
        Afterwards, SendInv, EndInv, IInv
  <2>. QED  BY <2>1, <2>2, <2>3, <2>4 DEF IInv
<1>2. CASE AppDraws
  <2>1. TypeOK'
    <3>1. /\ "app" \in Threads /\ "wait" \in Sending
          /\ "app" \in Queues /\ "forever" \in Styles /\ "none" \in Flags
      BY DEF Threads, Sending, Queues, Styles, Flags
    <3>2. /\ pc' \in [Threads -> Labels]
          /\ job' \in [Threads -> Jobs]
          /\ work' \in 0..MaxWork
      BY <1>2, <3>1, BeginTyped DEF IInv, AppDraws, Returns
    <3>. QED  BY <1>2, <3>2 DEF IInv, TypeOK, AppDraws
  <2>2. SendInv'
    BY <1>2 DEF Threads, Queues, Returns, Jobs, Goto, Begin, AppDraws,
        Sending, Closing, Labels, TypeOK, Afterwards, SendInv, IInv
  <2>3. LockInv'
    BY <1>2 DEF Threads, Queues, Returns, Jobs, Goto, Begin, AppDraws,
        Sending, Closing, Labels, TypeOK, Afterwards, SendInv, LockInv, IInv
  <2>4. EndInv'
    BY <1>2 DEF Threads, Queues, Returns, Jobs, Goto, Begin, AppDraws,
        Sending, Closing, Labels, TypeOK, Afterwards, SendInv, EndInv, IInv
  <2>. QED  BY <2>1, <2>2, <2>3, <2>4 DEF IInv
<1>3. CASE Woken("app")
  BY <1>3, BoundsAssumption DEF Threads, Queues, Goto, Woken, Sending,
      Closing, Labels, TypeOK, Afterwards, SendInv, LockInv, EndInv, IInv
<1>4. CASE AppHandles
  <2>1. TypeOK'
    <3>1. len' \in [Queues -> Nat] /\ \A q \in Queues : len'[q] <= Cap[q]
      BY <1>4, PopTyped DEF IInv, AppHandles, Queues
    <3>2. /\ pc' \in [Threads -> Labels]
          /\ job' \in [Threads -> Jobs]
          /\ work' \in 0..MaxWork
          /\ lock' \in Threads \cup {"free"}
      BY <1>4, AppSendsTyped DEF IInv, TypeOK, AppHandles, Returns
    <3>. QED  BY <1>4, <3>1, <3>2 DEF IInv, TypeOK, AppHandles
  <2>2. SendInv'
    BY <1>4 DEF Threads, Queues, Returns, Jobs, Goto, Begin, Pop, AppSendsIo,
        AppSendsWorker, AppSends, AppHandles, Sending, Closing, Labels,
        TypeOK, Afterwards, SendInv, IInv
  <2>3. LockInv'
    BY <1>4 DEF Threads, Queues, Returns, Jobs, Goto, Begin, Pop, AppSendsIo,
        AppSendsWorker, AppSends, AppHandles, Sending, Closing, Labels,
        TypeOK, Afterwards, SendInv, LockInv, IInv
  <2>4. EndInv'
    BY <1>4 DEF Threads, Queues, Returns, Jobs, Goto, Begin, Pop, AppSendsIo,
        AppSendsWorker, AppSends, AppHandles, Sending, Closing, Labels,
        TypeOK, Afterwards, SendInv, EndInv, IInv
  <2>. QED  BY <2>1, <2>2, <2>3, <2>4 DEF IInv
<1>5. CASE DrainEnds("app")
  BY <1>5, BoundsAssumption DEF Threads, Queues, Goto, DrainEnds, Sending,
      Closing, Labels, TypeOK, Afterwards, SendInv, LockInv, EndInv, IInv
<1>6. CASE StartSearch
  <2>1. TypeOK'
    <3>1. [to |-> "search", style |-> "forever", flag |-> "none",
           held |-> FALSE, next |-> "idle"] \in Jobs
      BY DEF Jobs, Queues, Returns
    <3>2. pc' \in [Threads -> Labels]
      BY <1>6 DEF IInv, TypeOK, StartSearch, Labels, Sending
    <3>4. job' \in [Threads -> Jobs]
      BY <1>6, <3>1 DEF IInv, TypeOK, StartSearch
    <3>5. work' \in 0..MaxWork
      BY <1>6, BoundsAssumption DEF IInv, TypeOK, StartSearch
    <3>3. stop' \in [Queues -> BOOLEAN] /\ wake' \in [Queues -> BOOLEAN]
      BY <1>6 DEF IInv, TypeOK, StartSearch
    <3>. QED  BY <1>6, <3>2, <3>3, <3>4, <3>5 DEF IInv, TypeOK, StartSearch
  <2>2. SendInv'
    BY <1>6 DEF Threads, Queues, Returns, Jobs, StartSearch, Sending, Closing,
        Labels, TypeOK, Afterwards, SendInv, IInv
  <2>3. LockInv'
    BY <1>6 DEF Threads, Queues, Returns, Jobs, StartSearch, Sending, Closing,
        Labels, TypeOK, Afterwards, SendInv, LockInv, IInv
  <2>4. EndInv'
    BY <1>6 DEF Threads, Queues, Returns, Jobs, StartSearch, Sending, Closing,
        Labels, TypeOK, Afterwards, SendInv, EndInv, IInv
  <2>. QED  BY <2>1, <2>2, <2>3, <2>4 DEF IInv
<1>7. CASE EndSearch
  BY <1>7, BoundsAssumption DEF Threads, Queues, Goto, TellSearch, EndSearch,
      Sending, Closing, Labels, TypeOK, Afterwards, SendInv, LockInv, EndInv,
      IInv
<1>8. CASE Close
  <2>1. TypeOK'
    <3>1. pc' \in [Threads -> Labels]
      BY <1>8, GotoTyped DEF IInv, Close, Threads, Labels, Closing
    <3>. QED  BY <1>8, <3>1 DEF IInv, TypeOK, Close, TellIo, TellSearch
  <2>2. SendInv'
    BY <1>8 DEF Threads, Queues, Returns, Jobs, Goto, TellSearch, TellIo,
        Close, Sending, Closing, Labels, TypeOK, Afterwards, SendInv, IInv
  <2>3. LockInv'
    BY <1>8 DEF Threads, Queues, Returns, Jobs, Goto, TellSearch, TellIo,
        Close, Sending, Closing, Labels, TypeOK, Afterwards, SendInv, LockInv,
        IInv
  <2>4. EndInv'
    BY <1>8 DEF Threads, Queues, Returns, Jobs, Goto, TellSearch, TellIo,
        Close, Sending, Closing, Labels, TypeOK, Afterwards, SendInv, EndInv,
        IInv
  <2>. QED  BY <2>1, <2>2, <2>3, <2>4 DEF IInv
<1>9. CASE Stop
  BY <1>9, BoundsAssumption DEF Threads, Queues, Goto, StopNext, Stop,
      Sending, Closing, Labels, TypeOK, Afterwards, SendInv, LockInv, EndInv,
      IInv
<1>10. CASE JoinSearch
  <2>1. TypeOK'
    <3>1. [to |-> "ren", style |-> "forever", flag |-> "none",
           held |-> FALSE, next |-> "idle"] \in Jobs
      BY DEF Jobs, Queues, Returns
    <3>2. pc' \in [Threads -> Labels]
      BY <1>10 DEF IInv, TypeOK, JoinSearch, Labels, Sending, Closing
    <3>4. job' \in [Threads -> Jobs]
      BY <1>10, <3>1 DEF IInv, TypeOK, JoinSearch
    <3>3. len' \in [Queues -> Nat] /\ \A q \in Queues : len'[q] <= Cap[q]
      BY <1>10, EmptyTyped DEF IInv, JoinSearch
    <3>. QED  BY <1>10, <3>2, <3>3, <3>4 DEF IInv, TypeOK, JoinSearch
  <2>2. SendInv'
    BY <1>10 DEF Threads, Queues, Returns, Jobs, JoinSearch, Sending, Closing,
        Labels, TypeOK, Afterwards, SendInv, IInv
  <2>3. LockInv'
    BY <1>10 DEF Threads, Queues, Returns, Jobs, JoinSearch, Sending, Closing,
        Labels, TypeOK, Afterwards, SendInv, LockInv, IInv
  <2>4. EndInv'
    BY <1>10 DEF Threads, Queues, Returns, Jobs, JoinSearch, Sending, Closing,
        Labels, TypeOK, Afterwards, SendInv, EndInv, IInv
  <2>. QED  BY <2>1, <2>2, <2>3, <2>4 DEF IInv
<1>11. CASE JoinIo
  BY <1>11, BoundsAssumption DEF Threads, Queues, Goto, JoinIo, Sending,
      Closing, Labels, TypeOK, Afterwards, SendInv, LockInv, EndInv, IInv
<1>12. CASE JoinRen
  BY <1>12, BoundsAssumption DEF Threads, Queues, Goto, JoinRen, Sending,
      Closing, Labels, TypeOK, Afterwards, SendInv, LockInv, EndInv, IInv
<1>13. CASE DropLate
  BY <1>13, BoundsAssumption DEF Threads, Queues, Pop, DropLate, Sending,
      Closing, Labels, TypeOK, Afterwards, SendInv, LockInv, EndInv, IInv
<1>. QED
  BY <1>1, <1>2, <1>3, <1>4, <1>5, <1>6, <1>7, <1>8, <1>9, <1>10, <1>11,
      <1>12, <1>13, SendStep DEF Threads, App

-----------------------------------------------------------------------------
(* The IO thread *)

LEMMA IoStep ==
  ASSUME IInv, Io
  PROVE  IInv'
<1>1. CASE IoEnters
  <2>1. TypeOK'
    BY <1>1, BoundsAssumption DEF Threads, Queues, Returns, Jobs, IoEnters,
        Sending, Closing, Labels, TypeOK, EndInv, IInv
  <2>2. SendInv'
    BY <1>1 DEF Threads, Queues, Returns, Jobs, IoEnters, Sending, Closing,
        Labels, TypeOK, Afterwards, SendInv, EndInv, IInv
  <2>3. LockInv'
    BY <1>1 DEF Threads, Queues, Returns, Jobs, IoEnters, Sending, Closing,
        Labels, TypeOK, Afterwards, SendInv, LockInv, EndInv, IInv
  <2>4. EndInv'
    BY <1>1 DEF Threads, Queues, Returns, Jobs, IoEnters, Sending, Closing,
        Labels, TypeOK, Afterwards, SendInv, EndInv, IInv
  <2>. QED  BY <2>1, <2>2, <2>3, <2>4 DEF IInv
<1>2. CASE IoFails
  <2>1. TypeOK'
    <3>1. pc' \in [Threads -> Labels]
      BY <1>2 DEF IInv, TypeOK, IoFails, Goto, Labels
    <3>. QED  BY <1>2, <3>1 DEF IInv, TypeOK, IoFails
  <2>2. SendInv'
    BY <1>2 DEF Threads, Queues, Returns, Jobs, Goto, IoFails, Sending,
        Closing, Labels, TypeOK, Afterwards, SendInv, EndInv, IInv
  <2>3. LockInv'
    BY <1>2 DEF Threads, Queues, Returns, Jobs, Goto, IoFails, Sending,
        Closing, Labels, TypeOK, Afterwards, SendInv, LockInv, EndInv, IInv
  <2>4. EndInv'
    BY <1>2 DEF Threads, Queues, Returns, Jobs, Goto, IoFails, Sending,
        Closing, Labels, TypeOK, Afterwards, SendInv, EndInv, IInv
  <2>. QED  BY <2>1, <2>2, <2>3, <2>4 DEF IInv
<1>3. CASE IoReportsFailure
  BY <1>3, BoundsAssumption DEF Threads, Queues, Goto, Notify,
      IoReportsFailure, Sending, Closing, Labels, TypeOK, Afterwards, SendInv,
      LockInv, EndInv, IInv
<1>4. CASE Woken("io")
  BY <1>4, BoundsAssumption DEF Threads, Queues, Goto, Woken, Sending,
      Closing, Labels, TypeOK, Afterwards, SendInv, LockInv, EndInv, IInv
<1>5. CASE IoHandles
  BY <1>5, BoundsAssumption DEF Threads, Queues, Goto, Pop, IoHandles,
      Sending, Closing, Labels, TypeOK, Afterwards, SendInv, LockInv, EndInv,
      IInv
<1>6. CASE IoLocks
  BY <1>6, BoundsAssumption DEF Threads, Queues, Goto, IoLocks, Sending,
      Closing, Labels, TypeOK, Afterwards, SendInv, LockInv, EndInv, IInv
<1>7. CASE IoDrained
  <2>1. TypeOK'
    <3>1. pc' \in [Threads -> Labels]
      BY <1>7, GotoTyped DEF IInv, IoDrained, Threads, Labels
    <3>2. wake' \in [Queues -> BOOLEAN]
      BY <1>7, NotifyTyped DEF IInv, TypeOK, IoDrained, Queues
    <3>. QED  BY <1>7, <3>1, <3>2 DEF IInv, TypeOK, IoDrained
  <2>2. SendInv'
    BY <1>7 DEF Threads, Queues, Returns, Jobs, Goto, Notify, IoDrained,
        Sending, Closing, Labels, TypeOK, Afterwards, SendInv, IInv
  <2>3. LockInv'
    BY <1>7 DEF Threads, Queues, Returns, Jobs, Goto, Notify, IoDrained,
        Sending, Closing, Labels, TypeOK, Afterwards, SendInv, LockInv, IInv
  <2>4. EndInv'
    BY <1>7 DEF Threads, Queues, Returns, Jobs, Goto, Notify, IoDrained,
        Sending, Closing, Labels, TypeOK, Afterwards, SendInv, EndInv, IInv
  <2>. QED  BY <2>1, <2>2, <2>3, <2>4 DEF IInv
<1>8. CASE IoScrolls
  <2>1. TypeOK'
    <3>1. /\ "io" \in Threads /\ "try" \in Sending
          /\ "app" \in Queues /\ "never" \in Styles /\ "none" \in Flags
      BY DEF Threads, Sending, Queues, Styles, Flags
    <3>2. /\ pc' \in [Threads -> Labels]
          /\ job' \in [Threads -> Jobs]
          /\ work' \in 0..MaxWork
      BY <1>8, <3>1, BeginTyped DEF IInv, IoScrolls, Returns
    <3>. QED  BY <1>8, <3>2 DEF IInv, TypeOK, IoScrolls
  <2>2. SendInv'
    BY <1>8 DEF Threads, Queues, Returns, Jobs, Goto, Begin, IoScrolls,
        Sending, Closing, Labels, TypeOK, Afterwards, SendInv, IInv
  <2>3. LockInv'
    BY <1>8 DEF Threads, Queues, Returns, Jobs, Goto, Begin, IoScrolls,
        Sending, Closing, Labels, TypeOK, Afterwards, SendInv, LockInv, IInv
  <2>4. EndInv'
    BY <1>8 DEF Threads, Queues, Returns, Jobs, Goto, Begin, IoScrolls,
        Sending, Closing, Labels, TypeOK, Afterwards, SendInv, EndInv, IInv
  <2>. QED  BY <2>1, <2>2, <2>3, <2>4 DEF IInv
<1>9. CASE IoResizes
  <2>1. TypeOK'
    <3>1. /\ "io" \in Threads /\ "hint" \in Sending
          /\ "ren" \in Queues /\ "forever" \in Styles /\ "none" \in Flags
      BY DEF Threads, Sending, Queues, Styles, Flags
    <3>2. /\ pc' \in [Threads -> Labels]
          /\ job' \in [Threads -> Jobs]
          /\ work' \in 0..MaxWork
      BY <1>9, <3>1, BeginTyped DEF IInv, IoResizes, Returns
    <3>. QED  BY <1>9, <3>2 DEF IInv, TypeOK, IoResizes
  <2>2. SendInv'
    BY <1>9 DEF Threads, Queues, Returns, Jobs, Goto, Begin, IoResizes,
        Sending, Closing, Labels, TypeOK, Afterwards, SendInv, IInv
  <2>3. LockInv'
    BY <1>9 DEF Threads, Queues, Returns, Jobs, Goto, Begin, IoResizes,
        Sending, Closing, Labels, TypeOK, Afterwards, SendInv, LockInv, IInv
  <2>4. EndInv'
    BY <1>9 DEF Threads, Queues, Returns, Jobs, Goto, Begin, IoResizes,
        Sending, Closing, Labels, TypeOK, Afterwards, SendInv, EndInv, IInv
  <2>. QED  BY <2>1, <2>2, <2>3, <2>4 DEF IInv
<1>10. CASE ChildExits
  <2>1. TypeOK'
    <3>1. /\ "io" \in Threads /\ "wait" \in Sending
          /\ "app" \in Queues /\ "unless" \in Styles /\ "stopping" \in Flags
      BY DEF Threads, Sending, Queues, Styles, Flags
    <3>2. /\ pc' \in [Threads -> Labels]
          /\ job' \in [Threads -> Jobs]
          /\ work' \in 0..MaxWork
      BY <1>10, <3>1, BeginTyped DEF IInv, ChildExits, Returns
    <3>. QED  BY <1>10, <3>2 DEF IInv, TypeOK, ChildExits
  <2>2. SendInv'
    BY <1>10 DEF Threads, Queues, Returns, Jobs, Goto, Begin, ChildExits,
        Sending, Closing, Labels, TypeOK, Afterwards, SendInv, IInv
  <2>3. LockInv'
    BY <1>10 DEF Threads, Queues, Returns, Jobs, Goto, Begin, ChildExits,
        Sending, Closing, Labels, TypeOK, Afterwards, SendInv, LockInv, IInv
  <2>4. EndInv'
    BY <1>10 DEF Threads, Queues, Returns, Jobs, Goto, Begin, ChildExits,
        Sending, Closing, Labels, TypeOK, Afterwards, SendInv, EndInv, IInv
  <2>. QED  BY <2>1, <2>2, <2>3, <2>4 DEF IInv
<1>11. CASE IoStops
  BY <1>11, BoundsAssumption DEF Threads, Queues, Goto, IoStops, Sending,
      Closing, Labels, TypeOK, Afterwards, SendInv, LockInv, EndInv, IInv
<1>12. CASE CancelRead
  BY <1>12, BoundsAssumption DEF Threads, Queues, Goto, CancelRead, Sending,
      Closing, Labels, TypeOK, Afterwards, SendInv, LockInv, EndInv, IInv
<1>13. CASE JoinReader
  BY <1>13, BoundsAssumption DEF Threads, Queues, Goto, ReaderGone,
      JoinReader, Sending, Closing, Labels, TypeOK, Afterwards, SendInv,
      LockInv, EndInv, IInv
<1>. QED
  BY <1>1, <1>2, <1>3, <1>4, <1>5, <1>6, <1>7, <1>8, <1>9, <1>10, <1>11,
      <1>12, <1>13, SendStep DEF Threads, Io

-----------------------------------------------------------------------------
(* The pty reader *)

LEMMA ReaderStep ==
  ASSUME IInv, Reader
  PROVE  IInv'
<1>1. CASE ReaderChecks
  BY <1>1, BoundsAssumption DEF Threads, Queues, Goto, ReaderChecks, Sending,
      Closing, Labels, TypeOK, Afterwards, SendInv, LockInv, EndInv, IInv
<1>2. CASE ReaderReads
  BY <1>2, BoundsAssumption DEF Threads, Queues, Goto, ReaderReads, Sending,
      Closing, Labels, TypeOK, Afterwards, SendInv, LockInv, EndInv, IInv
<1>3. CASE ReaderLocks
  <2>1. TypeOK'
    <3>1. /\ "reader" \in Threads /\ "try" \in Sending
          /\ "ren" \in Queues /\ "never" \in Styles /\ "none" \in Flags
      BY DEF Threads, Sending, Queues, Styles, Flags
    <3>2. CASE Goto("reader", "parse") /\ UNCHANGED <<job, work>>
      BY <1>3, <3>1, <3>2, GotoTyped DEF IInv, TypeOK, Labels, ReaderLocks
    <3>3. CASE Begin("reader", "try", "ren", "never", "none", TRUE, "parse")
      <4>1. /\ pc' \in [Threads -> Labels]
            /\ job' \in [Threads -> Jobs]
            /\ work' \in 0..MaxWork
        BY <3>1, <3>3, BeginTyped DEF IInv, Returns
      <4>. QED  BY <1>3, <3>1, <4>1 DEF IInv, TypeOK, ReaderLocks
    <3>. QED  BY <1>3, <3>2, <3>3 DEF ReaderLocks
  <2>2. SendInv'
    BY <1>3 DEF Threads, Queues, Returns, Jobs, Goto, Begin, ReaderLocks,
        Sending, Closing, Labels, TypeOK, Afterwards, SendInv, IInv
  <2>3. LockInv'
    BY <1>3 DEF Threads, Queues, Returns, Jobs, Goto, Begin, ReaderLocks,
        Sending, Closing, Labels, TypeOK, Afterwards, SendInv, LockInv, IInv
  <2>4. EndInv'
    BY <1>3 DEF Threads, Queues, Returns, Jobs, Goto, Begin, ReaderLocks,
        Sending, Closing, Labels, TypeOK, Afterwards, SendInv, EndInv, IInv
  <2>. QED  BY <2>1, <2>2, <2>3, <2>4 DEF IInv
<1>4. CASE ReaderReports
  <2>1. TypeOK'
    <3>1. /\ "reader" \in Threads /\ "try" \in Sending
          /\ {"app", "io"} \subseteq Queues /\ "unless" \in Styles /\ "stopping" \in Flags
      BY DEF Threads, Sending, Queues, Styles, Flags
    <3>2. /\ pc' \in [Threads -> Labels]
          /\ job' \in [Threads -> Jobs]
          /\ work' \in 0..MaxWork
      BY <1>4, <3>1, BeginTyped DEF IInv, ReaderReports, Returns
    <3>. QED  BY <1>4, <3>2 DEF IInv, TypeOK, ReaderReports
  <2>2. SendInv'
    BY <1>4 DEF Threads, Queues, Returns, Jobs, Goto, Begin, ReaderReports,
        Sending, Closing, Labels, TypeOK, Afterwards, SendInv, IInv
  <2>3. LockInv'
    BY <1>4 DEF Threads, Queues, Returns, Jobs, Goto, Begin, ReaderReports,
        Sending, Closing, Labels, TypeOK, Afterwards, SendInv, LockInv, IInv
  <2>4. EndInv'
    BY <1>4 DEF Threads, Queues, Returns, Jobs, Goto, Begin, ReaderReports,
        Sending, Closing, Labels, TypeOK, Afterwards, SendInv, EndInv, IInv
  <2>. QED  BY <2>1, <2>2, <2>3, <2>4 DEF IInv
<1>5. CASE ReaderUnlocks
  BY <1>5, BoundsAssumption DEF Threads, Queues, Goto, ReaderUnlocks, Sending,
      Closing, Labels, TypeOK, Afterwards, SendInv, LockInv, EndInv, IInv
<1>6. CASE ReaderRenders
  <2>1. TypeOK'
    <3>1. pc' \in [Threads -> Labels]
      BY <1>6, GotoTyped DEF IInv, ReaderRenders, Threads, Labels
    <3>2. wake' \in [Queues -> BOOLEAN]
      BY <1>6, NotifyTyped DEF IInv, TypeOK, ReaderRenders, Queues
    <3>. QED  BY <1>6, <3>1, <3>2 DEF IInv, TypeOK, ReaderRenders
  <2>2. SendInv'
    BY <1>6 DEF Threads, Queues, Returns, Jobs, Goto, Notify, ReaderRenders,
        Sending, Closing, Labels, TypeOK, Afterwards, SendInv, IInv
  <2>3. LockInv'
    BY <1>6 DEF Threads, Queues, Returns, Jobs, Goto, Notify, ReaderRenders,
        Sending, Closing, Labels, TypeOK, Afterwards, SendInv, LockInv, IInv
  <2>4. EndInv'
    BY <1>6 DEF Threads, Queues, Returns, Jobs, Goto, Notify, ReaderRenders,
        Sending, Closing, Labels, TypeOK, Afterwards, SendInv, EndInv, IInv
  <2>. QED  BY <2>1, <2>2, <2>3, <2>4 DEF IInv
<1>7. CASE ReaderEnds
  <2>1. TypeOK'
    <3>1. /\ "reader" \in Threads /\ "wait" \in Sending
          /\ "app" \in Queues /\ "unless" \in Styles /\ "stopping" \in Flags
      BY DEF Threads, Sending, Queues, Styles, Flags
    <3>2. /\ pc' \in [Threads -> Labels]
          /\ job' \in [Threads -> Jobs]
          /\ work' \in 0..MaxWork
      BY <1>7, <3>1, BeginTyped DEF IInv, ReaderEnds, Returns
    <3>. QED  BY <1>7, <3>2 DEF IInv, TypeOK, ReaderEnds
  <2>2. SendInv'
    BY <1>7 DEF Threads, Queues, Returns, Jobs, Goto, Begin, ReaderEnds,
        Sending, Closing, Labels, TypeOK, Afterwards, SendInv, IInv
  <2>3. LockInv'
    BY <1>7 DEF Threads, Queues, Returns, Jobs, Goto, Begin, ReaderEnds,
        Sending, Closing, Labels, TypeOK, Afterwards, SendInv, LockInv, IInv
  <2>4. EndInv'
    BY <1>7 DEF Threads, Queues, Returns, Jobs, Goto, Begin, ReaderEnds,
        Sending, Closing, Labels, TypeOK, Afterwards, SendInv, EndInv, IInv
  <2>. QED  BY <2>1, <2>2, <2>3, <2>4 DEF IInv
<1>. QED
  BY <1>1, <1>2, <1>3, <1>4, <1>5, <1>6, <1>7, SendStep DEF Threads, Reader

-----------------------------------------------------------------------------
(* The renderer thread *)

LEMMA RenStep ==
  ASSUME IInv, Ren
  PROVE  IInv'
<1>1. CASE Woken("ren")
  BY <1>1, BoundsAssumption DEF Threads, Queues, Goto, Woken, Sending,
      Closing, Labels, TypeOK, Afterwards, SendInv, LockInv, EndInv, IInv
<1>2. CASE RenHandles
  BY <1>2, BoundsAssumption DEF Threads, Queues, Goto, Pop, RenHandles,
      Sending, Closing, Labels, TypeOK, Afterwards, SendInv, LockInv, EndInv,
      IInv
<1>3. CASE RenDrained
  BY <1>3, BoundsAssumption DEF Threads, Queues, Goto, RenDrained, Sending,
      Closing, Labels, TypeOK, Afterwards, SendInv, LockInv, EndInv, IInv
<1>4. CASE RenReads
  <2>1. TypeOK'
    <3>1. /\ "ren" \in Threads /\ "try" \in Sending
          /\ "app" \in Queues /\ "never" \in Styles /\ "none" \in Flags
      BY DEF Threads, Sending, Queues, Styles, Flags
    <3>2. CASE Goto("ren", "idle") /\ UNCHANGED <<job, work>>
      BY <1>4, <3>1, <3>2, GotoTyped DEF IInv, TypeOK, Labels, RenReads
    <3>3. CASE Begin("ren", "try", "app", "never", "none", FALSE, "idle")
      <4>1. /\ pc' \in [Threads -> Labels]
            /\ job' \in [Threads -> Jobs]
            /\ work' \in 0..MaxWork
        BY <3>1, <3>3, BeginTyped DEF IInv, Returns
      <4>. QED  BY <1>4, <3>1, <4>1 DEF IInv, TypeOK, RenReads
    <3>. QED  BY <1>4, <3>2, <3>3 DEF RenReads
  <2>2. SendInv'
    BY <1>4 DEF Threads, Queues, Returns, Jobs, Goto, Begin, RenReads,
        Sending, Closing, Labels, TypeOK, Afterwards, SendInv, IInv
  <2>3. LockInv'
    BY <1>4 DEF Threads, Queues, Returns, Jobs, Goto, Begin, RenReads,
        Sending, Closing, Labels, TypeOK, Afterwards, SendInv, LockInv, IInv
  <2>4. EndInv'
    BY <1>4 DEF Threads, Queues, Returns, Jobs, Goto, Begin, RenReads,
        Sending, Closing, Labels, TypeOK, Afterwards, SendInv, EndInv, IInv
  <2>. QED  BY <2>1, <2>2, <2>3, <2>4 DEF IInv
<1>5. CASE RenStops
  BY <1>5, BoundsAssumption DEF Threads, Queues, Goto, RenStops, Sending,
      Closing, Labels, TypeOK, Afterwards, SendInv, LockInv, EndInv, IInv
<1>. QED
  BY <1>1, <1>2, <1>3, <1>4, <1>5, SendStep DEF Threads, Ren

-----------------------------------------------------------------------------
(* The search thread *)

LEMMA SearchStep ==
  ASSUME IInv, Search
  PROVE  IInv'
<1>1. CASE Woken("search")
  BY <1>1, BoundsAssumption DEF Threads, Queues, Goto, Woken, Sending,
      Closing, Labels, TypeOK, Afterwards, SendInv, LockInv, EndInv, IInv
<1>2. CASE SearchHandles
  BY <1>2, BoundsAssumption DEF Threads, Queues, Goto, Pop, SearchHandles,
      Sending, Closing, Labels, TypeOK, Afterwards, SendInv, LockInv, EndInv,
      IInv
<1>3. CASE DrainEnds("search")
  BY <1>3, BoundsAssumption DEF Threads, Queues, Goto, DrainEnds, Sending,
      Closing, Labels, TypeOK, Afterwards, SendInv, LockInv, EndInv, IInv
<1>4. CASE SearchContinues
  BY <1>4, BoundsAssumption DEF Threads, Queues, Goto, SearchContinues,
      Sending, Closing, Labels, TypeOK, Afterwards, SendInv, LockInv, EndInv,
      IInv
<1>5. CASE SearchSteps
  BY <1>5, BoundsAssumption DEF Threads, Queues, Goto, SearchSteps, Sending,
      Closing, Labels, TypeOK, Afterwards, SendInv, LockInv, EndInv, IInv
<1>6. CASE SearchReports
  <2>1. TypeOK'
    <3>1. /\ "search" \in Threads /\ "wait" \in Sending
          /\ "app" \in Queues /\ "unless" \in Styles /\ "searchStopping" \in Flags
      BY DEF Threads, Sending, Queues, Styles, Flags
    <3>2. CASE Goto("search", "drain") /\ UNCHANGED <<job, work>>
      BY <1>6, <3>1, <3>2, GotoTyped DEF IInv, TypeOK, Labels, SearchReports
    <3>3. CASE Begin("search", "wait", "app", "unless", "searchStopping", FALSE, "report")
      <4>1. /\ pc' \in [Threads -> Labels]
            /\ job' \in [Threads -> Jobs]
            /\ work' \in 0..MaxWork
        BY <3>1, <3>3, BeginTyped DEF IInv, Returns
      <4>. QED  BY <1>6, <3>1, <4>1 DEF IInv, TypeOK, SearchReports
    <3>. QED  BY <1>6, <3>2, <3>3 DEF SearchReports
  <2>2. SendInv'
    BY <1>6 DEF Threads, Queues, Returns, Jobs, Goto, Begin, SearchReports,
        Sending, Closing, Labels, TypeOK, Afterwards, SendInv, IInv
  <2>3. LockInv'
    BY <1>6 DEF Threads, Queues, Returns, Jobs, Goto, Begin, SearchReports,
        Sending, Closing, Labels, TypeOK, Afterwards, SendInv, LockInv, IInv
  <2>4. EndInv'
    BY <1>6 DEF Threads, Queues, Returns, Jobs, Goto, Begin, SearchReports,
        Sending, Closing, Labels, TypeOK, Afterwards, SendInv, EndInv, IInv
  <2>. QED  BY <2>1, <2>2, <2>3, <2>4 DEF IInv
<1>7. CASE SearchStops
  BY <1>7, BoundsAssumption DEF Threads, Queues, Goto, SearchStops, Sending,
      Closing, Labels, TypeOK, Afterwards, SendInv, LockInv, EndInv, IInv
<1>. QED
  BY <1>1, <1>2, <1>3, <1>4, <1>5, <1>6, <1>7, SendStep DEF Threads, Search

-----------------------------------------------------------------------------
(* The theorems *)

LEMMA InitIInv == Init => IInv
<1>. SUFFICES ASSUME Init PROVE IInv
  OBVIOUS
<1>1. Idle \in Jobs /\ Idle.next = "idle" /\ Idle.held = FALSE
  BY DEF Idle, Jobs, Queues, Returns
<1>2. TypeOK
  <2>1. len \in [Queues -> Nat] /\ \A q \in Queues : len[q] <= Cap[q]
    <3>1. \A q \in Queues : Cap[q] \in Nat
      BY BoundsAssumption
    <3>. QED  BY <3>1 DEF Init
  <2>2. pc \in [Threads -> Labels]
    BY DEF Init, Labels, Threads
  <2>3. job \in [Threads -> Jobs]
    BY <1>1 DEF Init
  <2>4. work \in 0..MaxWork
    BY BoundsAssumption DEF Init
  <2>5. wake \in [Queues -> BOOLEAN] /\ stop \in [Queues -> BOOLEAN]
    BY DEF Init
  <2>6. /\ lock \in Threads \cup {"free"} /\ owed \subseteq Queues
        /\ stopping \in BOOLEAN /\ searchStopping \in BOOLEAN
    BY DEF Init
  <2>. QED  BY <2>1, <2>2, <2>3, <2>4, <2>5, <2>6 DEF TypeOK
<1>3. SendInv /\ LockInv /\ EndInv
  BY <1>1 DEF Init, SendInv, LockInv, EndInv, Threads, Sending
<1>. QED  BY <1>2, <1>3 DEF IInv

LEMMA NextIInv == IInv /\ [Next]_vars => IInv'
<1>. SUFFICES ASSUME IInv, [Next]_vars PROVE IInv'
  OBVIOUS
<1>1. CASE UNCHANGED vars
  BY <1>1 DEF vars, IInv, TypeOK, SendInv, LockInv, EndInv
<1>2. CASE App \/ Io \/ Reader \/ Ren \/ Search
  BY <1>2, AppStep, IoStep, ReaderStep, RenStep, SearchStep
<1>. QED  BY <1>1, <1>2 DEF Next, Gone

(* IInv holds in every state of every surface: the invariant the theorems  *)
(* below are read off from.                                                *)
THEOREM Inductive == Spec => []IInv
BY InitIInv, NextIInv, PTL DEF Spec

(* TypeOK always holds; in particular no mailbox of the five threads, of   *)
(* whatever capacity, ever holds more messages than it has slots.          *)
THEOREM TypeCorrect == Spec => []TypeOK
<1>1. IInv => TypeOK
  BY DEF IInv
<1>. QED  BY <1>1, Inductive, PTL

(* LockDiscipline always holds: no thread waits for room in a mailbox, or  *)
(* for another thread to exit, with the terminal lock held                 *)
(* (mailbox.zig's and stream_handler.zig's unlock and relock).             *)
THEOREM LockDisciplined == Spec => []LockDiscipline
<1>1. IInv => LockDiscipline
  BY DEF IInv, LockInv, LockDiscipline, Waiting
<1>. QED  BY <1>1, Inductive, PTL

(* NothingUsesFreed always holds: Surface.deinit frees the mailboxes and   *)
(* the terminal lock, and Search.deinit the search mailbox, only when no   *)
(* thread is left that could use them.                                     *)
THEOREM NothingIsUsedFreed == Spec => []NothingUsesFreed
<1>1. IInv => NothingUsesFreed
  BY DEF IInv, TypeOK, LockInv, EndInv, NothingUsesFreed, Threads, Sending
<1>. QED  BY <1>1, Inductive, PTL

-----------------------------------------------------------------------------
(* No wake is lost *)

\* A mailbox that is not empty is always somebody's business: what
\* follows proves NoLostWake, for every value of the constants whose
\* Events leave out "handler_error".  That event is left out because a handler
\* that fails ends its drain (src/src/termio/Thread.zig:404) and the messages
\* behind it do wait for the next notification.
\*
\* NoLostWake is not inductive: it lets any sender that is to take the lock
\* again count as one who will notify, and it says nothing of what the reader
\* owes.  AttendInv strengthens it: such a sender counts only for the io
\* mailbox, whose push takes the lock before it notifies, and the reader's
\* debts are bounded by where the reader is (Debts).  The induction uses IInv
\* for the types, the lock and who is in which send.

\* The mailbox's own thread has still to look at it before it next waits.
Looking(q) ==
    \/ pc[q] \in {"drain", "locking", "step", "report"}
    \/ q = "app" /\ pc[q] \in Closing
    \/ pc[q] \in Sending /\ job[q].next \in {"drain", "report"}
\* Thread t, in the middle of a send to q, has still to notify q.
Promises(t, q) == /\ job[t].to = q
                  /\ pc[t] = "notify" \/ (pc[t] = "relock" /\ q = "io")
Promised(q) == \E t \in Threads : Promises(t, q)
\* If q holds a message, someone is to look at it or its thread is ending.
Attended(q) ==
    len[q] > 0 => \/ wake[q] \/ Looking(q) \/ Promised(q) \/ q \in owed
                  \/ stop[q] \/ pc[q] \in {"exited", "closed"}
\* What the reader owes of notifications, by where it is: it only ever defers
\* those to the io and renderer threads, and pays io first.
Debts ==
    /\ owed \subseteq {"io", "ren"}
    /\ pc["reader"] = "render" => owed \subseteq {"ren"}
    /\ pc["reader"] \in Sending => job["reader"].to \in {"app", "io", "ren"}
AttendInv == Debts /\ \A q \in Queues : Attended(q)

\* A step of a send to any mailbox (the pushes of apprt/surface.zig, App.zig,
\* termio/mailbox.zig, and the wake) leaves every filled mailbox attended.
LEMMA SendWakes ==
  ASSUME IInv, AttendInv, "handler_error" \notin Events,
         NEW t \in Threads, Send(t)
  PROVE  AttendInv'
<1>1. CASE TrySucceeds(t)
  BY <1>1 DEF Goto, TypeOK, IInv, Sending, Closing, AttendInv, Debts,
     Attended, Looking, Promised, Promises, TrySucceeds, Put, Room, Jobs
<1>2. CASE TryFails(t)
  BY <1>2 DEF Threads, Queues, Goto, TypeOK, IInv, Sending, Closing,
     AttendInv, Debts, Attended, Looking, Promised, Promises, TryFails,
     MakeRoom, Release, Notify, Jobs
<1>3. CASE Hint(t)
  BY <1>3 DEF Goto, Sending, Closing, AttendInv, Debts, Attended, Looking,
     Promised, Promises, Hint, Notify, Jobs, SendInv
<1>4. CASE PushEnds(t)
  BY <1>4 DEF Goto, TypeOK, IInv, Sending, Closing, AttendInv, Debts,
     Attended, Looking, Promised, Promises, PushEnds, Put, AfterPush, Jobs
<1>5. CASE PushGivesUp(t)
  BY <1>5 DEF Goto, Sending, Closing, AttendInv, Debts, Attended, Looking,
     Promised, Promises, PushGivesUp, AfterPush, Jobs
<1>6. CASE SendNotifies(t)
  <2>1. /\ pc[t] = "notify" /\ pc'[t] \in {"relock", "sent"}
        /\ \A u \in Threads \ {t} : pc'[u] = pc[u]
        /\ len' = len /\ stop' = stop /\ job' = job /\ job[t].to \in Queues
    BY <1>6 DEF SendNotifies, Goto, IInv, TypeOK, Jobs
  <2>2. CASE t = "reader" /\ job[t].to # "app"
    <3>1. owed' = owed \cup {job[t].to} /\ wake' = wake
      BY <1>6, <2>2 DEF SendNotifies, NotifyAfter
    <3>2. Debts'
      BY <2>1, <2>2, <3>1 DEF AttendInv, Debts, Sending
    <3>3. ASSUME NEW q \in Queues PROVE Attended(q)'
      BY <2>1, <2>2, <3>1 DEF AttendInv, Attended, Looking, Promised,
         Promises, Threads, Queues
    <3>. QED  BY <3>2, <3>3 DEF AttendInv
  <2>3. CASE ~(t = "reader" /\ job[t].to # "app")
    <3>1. owed' = owed /\ wake' = [wake EXCEPT ![job[t].to] = TRUE]
      BY <1>6, <2>3 DEF SendNotifies, NotifyAfter, Notify
    <3>2. Debts'
      BY <2>1, <3>1 DEF AttendInv, Debts, Sending, Threads
    <3>3. ASSUME NEW q \in Queues PROVE Attended(q)'
      BY <2>1, <3>1, SMTT(30) DEF AttendInv, Attended, Looking, Promised,
         Promises, IInv, TypeOK, Sending, Closing, Threads, Queues
    <3>. QED  BY <3>2, <3>3 DEF AttendInv
  <2>. QED  BY <2>2, <2>3
<1>7. CASE Relock(t)
  BY <1>7 DEF Goto, Sending, Closing, AttendInv, Debts, Attended, Looking,
     Promised, Promises, Relock, Jobs
<1>8. CASE Sent(t)
  BY <1>8 DEF Threads, Queues, Goto, TypeOK, IInv, Sending, Closing,
     AttendInv, Debts, Attended, Looking, Promised, Promises, Sent, Idle,
     SendInv, Afterwards, Jobs
<1>. QED  BY <1>1, <1>2, <1>3, <1>4, <1>5, <1>6, <1>7, <1>8 DEF Send

\* So does a step of the app thread: its input, its drain, and the close of the
\* surface.
LEMMA AppWakes ==
  ASSUME IInv, AttendInv, "handler_error" \notin Events, App
  PROVE  AttendInv'
<1>1. CASE AppInput
  BY <1>1 DEF Threads, Queues, Goto, TypeOK, IInv, Sending, Closing,
     AttendInv, Debts, Attended, Looking, Promised, Promises, AppInput,
     AppSends, AppSendsIo, AppSendsWorker, Begin
<1>2. CASE AppDraws
  BY <1>2 DEF Goto, Sending, Closing, AttendInv, Debts, Attended, Looking,
     Promised, Promises, AppDraws, Begin
<1>3. CASE Woken("app")
  BY <1>3 DEF Threads, Goto, TypeOK, IInv, AttendInv, Debts, Attended,
     Looking, Promised, Promises, Woken
<1>4. CASE AppHandles
  BY <1>4 DEF Threads, Queues, Goto, TypeOK, IInv, Sending, AttendInv, Debts,
     Attended, Looking, Promised, Promises, AppHandles, Pop, AppSends,
     AppSendsIo, AppSendsWorker, Begin
<1>5. CASE DrainEnds("app")
  BY <1>5 DEF Goto, AttendInv, Debts, Attended, Looking, Promised, Promises,
     DrainEnds
<1>6. CASE StartSearch
  BY <1>6 DEF Threads, Queues, TypeOK, IInv, Sending, Closing, AttendInv,
     Debts, Attended, Looking, Promised, Promises, StartSearch
<1>7. CASE EndSearch
  BY <1>7 DEF Goto, Sending, Closing, AttendInv, Debts, Attended, Looking,
     Promised, Promises, EndSearch
<1>8. CASE Close
  BY <1>8 DEF Threads, Queues, Goto, TypeOK, IInv, Closing, AttendInv, Debts,
     Attended, Looking, Promised, Promises, Close
<1>9. CASE Stop
  BY <1>9 DEF Goto, Sending, Closing, AttendInv, Debts, Attended, Looking,
     Promised, Promises, Stop, StopNext
<1>10. CASE JoinSearch
  BY <1>10 DEF Threads, Queues, TypeOK, IInv, Sending, Closing, AttendInv,
     Debts, Attended, Looking, Promised, Promises, JoinSearch
<1>11. CASE JoinIo
  BY <1>11 DEF Goto, Closing, AttendInv, Debts, Attended, Looking, Promised,
     Promises, JoinIo
<1>12. CASE JoinRen
  BY <1>12 DEF Goto, TypeOK, IInv, AttendInv, Debts, Attended, Looking,
     Promised, Promises, JoinRen
<1>13. CASE DropLate
  BY <1>13 DEF AttendInv, Debts, Attended, Looking, Promised, Promises,
     DropLate, Pop
<1>. QED  BY <1>1, <1>2, <1>3, <1>4, <1>5, <1>6, <1>7, <1>8, <1>9, <1>10,
   <1>11, <1>12, <1>13, SendWakes DEF Threads, App

\* So does a step of the io thread (src/src/termio/Thread.zig).
LEMMA IoWakes ==
  ASSUME IInv, AttendInv, "handler_error" \notin Events, Io
  PROVE  AttendInv'
<1>1. CASE IoEnters
  BY <1>1 DEF Threads, Queues, TypeOK, IInv, Sending, AttendInv, Debts,
     Attended, Looking, Promised, Promises, EndInv, IoEnters
<1>2. CASE IoFails
  BY <1>2 DEF Threads, Queues, Goto, TypeOK, IInv, Sending, AttendInv, Debts,
     Attended, Looking, Promised, Promises, EndInv, IoFails
<1>3. CASE IoReportsFailure
  BY <1>3 DEF Goto, AttendInv, Debts, Attended, Looking, Promised, Promises,
     IoReportsFailure, Notify
<1>4. CASE Woken("io")
  BY <1>4 DEF Threads, Goto, TypeOK, IInv, AttendInv, Debts, Attended,
     Looking, Promised, Promises, Woken
<1>5. CASE IoHandles
  BY <1>5 DEF Threads, Queues, Goto, TypeOK, IInv, AttendInv, Debts, Attended,
     Looking, Promised, Promises, IoHandles, Pop
<1>6. CASE IoLocks
  BY <1>6 DEF Goto, AttendInv, Debts, Attended, Looking, Promised, Promises,
     IoLocks
<1>7. CASE IoDrained
  BY <1>7 DEF Goto, TypeOK, IInv, AttendInv, Debts, Attended, Looking,
     Promised, Promises, IoDrained, Notify
<1>8. CASE IoScrolls
  BY <1>8 DEF Goto, Sending, AttendInv, Debts, Attended, Looking, Promised,
     Promises, IoScrolls, Begin
<1>9. CASE IoResizes
  BY <1>9 DEF Goto, Sending, AttendInv, Debts, Attended, Looking, Promised,
     Promises, IoResizes, Begin
<1>10. CASE ChildExits
  BY <1>10 DEF Goto, Sending, AttendInv, Debts, Attended, Looking, Promised,
     Promises, ChildExits, Begin
<1>11. CASE IoStops
  BY <1>11 DEF Goto, AttendInv, Debts, Attended, Looking, Promised, Promises,
     IoStops
<1>12. CASE CancelRead
  BY <1>12 DEF Goto, Sending, AttendInv, Debts, Attended, Looking, Promised,
     Promises, CancelRead
<1>13. CASE JoinReader
  BY <1>13 DEF Goto, Sending, AttendInv, Debts, Attended, Looking, Promised,
     Promises, JoinReader, ReaderGone
<1>. QED  BY <1>1, <1>2, <1>3, <1>4, <1>5, <1>6, <1>7, <1>8, <1>9, <1>10,
   <1>11, <1>12, <1>13, SendWakes DEF Threads, Io

\* So does a step of the reader thread, whose wakes for io and the renderer
\* come after the message that makes them due.
LEMMA ReaderWakes ==
  ASSUME IInv, AttendInv, "handler_error" \notin Events, Reader
  PROVE  AttendInv'
<1>1. CASE ReaderChecks
  BY <1>1 DEF Goto, Sending, AttendInv, Debts, Attended, Looking, Promised,
     Promises, ReaderChecks
<1>2. CASE ReaderReads
  BY <1>2 DEF Goto, Sending, AttendInv, Debts, Attended, Looking, Promised,
     Promises, ReaderReads
<1>3. CASE ReaderLocks
  BY <1>3 DEF Threads, Queues, Goto, TypeOK, IInv, Sending, AttendInv, Debts,
     Attended, Looking, Promised, Promises, ReaderLocks, Begin
<1>4. CASE ReaderReports
  BY <1>4 DEF Goto, TypeOK, IInv, Sending, AttendInv, Debts, Attended,
     Looking, Promised, Promises, ReaderReports, Begin
<1>5. CASE ReaderUnlocks
  <2>1. Debts'
    BY <1>5 DEF Goto, Sending, AttendInv, Debts, Attended, Looking, Promised,
       Promises, ReaderUnlocks
  <2>2. ASSUME NEW q \in Queues PROVE Attended(q)'
    <3>1. CASE "io" \in owed
      BY <1>5, <3>1 DEF Threads, Queues, Goto, TypeOK, IInv, AttendInv,
         Attended, Looking, Promised, Promises, ReaderUnlocks
    <3>2. CASE "io" \notin owed
      <4>1. wake' = wake /\ owed' = owed
        BY <1>5, <3>2 DEF IInv, TypeOK, ReaderUnlocks
      <4>. QED  BY <1>5, <3>2, <4>1 DEF Goto, Sending, AttendInv, Attended,
         Looking, Promised, Promises, ReaderUnlocks
    <3>. QED  BY <3>1, <3>2
  <2>. QED  BY <2>1, <2>2 DEF AttendInv
<1>6. CASE ReaderRenders
  BY <1>6 DEF Goto, TypeOK, IInv, Sending, AttendInv, Debts, Attended,
     Looking, Promised, Promises, ReaderRenders, Notify
<1>7. CASE ReaderEnds
  BY <1>7 DEF Goto, TypeOK, IInv, Sending, AttendInv, Debts, Attended,
     Looking, Promised, Promises, ReaderEnds, Begin
<1>. QED  BY <1>1, <1>2, <1>3, <1>4, <1>5, <1>6, <1>7, SendWakes DEF Threads,
   Reader

\* So does a step of the renderer thread (src/src/renderer/Thread.zig).
LEMMA RenWakes ==
  ASSUME IInv, AttendInv, "handler_error" \notin Events, Ren
  PROVE  AttendInv'
<1>1. CASE Woken("ren")
  BY <1>1 DEF Threads, Goto, TypeOK, IInv, AttendInv, Debts, Attended,
     Looking, Promised, Promises, Woken
<1>2. CASE RenHandles
  BY <1>2 DEF AttendInv, Debts, Attended, Looking, Promised, Promises,
     RenHandles, Pop
<1>3. CASE RenDrained
  BY <1>3 DEF Goto, AttendInv, Debts, Attended, Looking, Promised, Promises,
     RenDrained
<1>4. CASE RenReads
  BY <1>4 DEF Threads, Queues, Goto, TypeOK, IInv, Sending, AttendInv, Debts,
     Attended, Looking, Promised, Promises, RenReads, Begin
<1>5. CASE RenStops
  BY <1>5 DEF Goto, AttendInv, Debts, Attended, Looking, Promised, Promises,
     RenStops
<1>. QED  BY <1>1, <1>2, <1>3, <1>4, <1>5, SendWakes DEF Threads, Ren

\* So does a step of the search thread (src/src/terminal/search/Thread.zig).
LEMMA SearchWakes ==
  ASSUME IInv, AttendInv, "handler_error" \notin Events, Search
  PROVE  AttendInv'
<1>1. CASE Woken("search")
  BY <1>1 DEF Threads, Goto, TypeOK, IInv, AttendInv, Debts, Attended,
     Looking, Promised, Promises, Woken
<1>2. CASE SearchHandles
  BY <1>2 DEF Threads, Queues, Goto, TypeOK, IInv, AttendInv, Debts, Attended,
     Looking, Promised, Promises, SearchHandles, Pop
<1>3. CASE DrainEnds("search")
  BY <1>3 DEF Goto, AttendInv, Debts, Attended, Looking, Promised, Promises,
     DrainEnds
<1>4. CASE SearchContinues
  BY <1>4 DEF Goto, AttendInv, Debts, Attended, Looking, Promised, Promises,
     SearchContinues
<1>5. CASE SearchSteps
  BY <1>5 DEF Goto, AttendInv, Debts, Attended, Looking, Promised, Promises,
     SearchSteps
<1>6. CASE SearchReports
  BY <1>6 DEF Threads, Queues, Goto, TypeOK, IInv, Sending, AttendInv, Debts,
     Attended, Looking, Promised, Promises, SearchReports, Begin
<1>7. CASE SearchStops
  BY <1>7 DEF Goto, AttendInv, Debts, Attended, Looking, Promised, Promises,
     SearchStops
<1>. QED  BY <1>1, <1>2, <1>3, <1>4, <1>5, <1>6, <1>7, SendWakes DEF Threads,
   Search

\* A message in a mailbox is never left behind: as long as the receiving thread
\* runs, either its wake is set, or it is draining, or a sender has still to
\* notify it, so no push of termio, renderer, search or app mailbox is
\* forgotten whatever the interleaving of senders, drains and waits.
THEOREM NoWakeIsLost ==
  ASSUME "handler_error" \notin Events
  PROVE  Spec => []NoLostWake
<1>1. Init => AttendInv
  BY DEF Init, AttendInv, Debts, Attended, Sending, Threads, Queues
<1>2. IInv /\ AttendInv /\ [Next]_vars => AttendInv'
  <2>. SUFFICES ASSUME IInv, AttendInv, [Next]_vars PROVE AttendInv'
    OBVIOUS
  <2>1. CASE UNCHANGED vars
    BY <2>1 DEF vars, AttendInv, Debts, Attended, Looking, Promised, Promises
  <2>2. CASE App \/ Io \/ Reader \/ Ren \/ Search
    BY <2>2, AppWakes, IoWakes, ReaderWakes, RenWakes, SearchWakes
  <2>. QED  BY <2>1, <2>2 DEF Next, Gone
<1>3. AttendInv => NoLostWake
  BY DEF AttendInv, Attended, Looking, Promised, Promises, NoLostWake, WillLook
<1>. QED  BY <1>1, <1>2, <1>3, Inductive, PTL DEF Spec
=============================================================================
