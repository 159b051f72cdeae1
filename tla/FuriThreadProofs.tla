-------------------------- MODULE FuriThreadProofs --------------------------
(***************************************************************************)
(* Proofs that the safety properties of FuriThread hold for any number of  *)
(* threads, any of them joined, and any size of the scrub queue.           *)
(*                                                                         *)
(* The inductive invariant says, for every thread, how its fields follow   *)
(* from where its owner, its task and the scrubber are (Phase, Reports),   *)
(* and which threads the queue and the scrubber hold (Scrubbing).          *)
(*                                                                         *)
(* The other protocol of thread.c, the thread flags, shares nothing with   *)
(* this one; the theorems about it are at the end.                         *)
(***************************************************************************)
EXTENDS FuriThread, FuriThreadFlags, SequenceFacts, TLAPS

\* furi_thread_scrub has taken th from the queue and is at p.
Scrubs(th, p) == thread_to_scrub = th /\ scrub_pc = p

\* The fields of a thread whose owner has called furi_thread_start.
Started(th) ==
    \/ task[th] = "entry" /\ state[th] = "Starting" /\ ~tls[th]
    \/ task[th] \in {"running", "callback"} /\ state[th] = "Running" /\ tls[th]
    \/ task[th] \in {"stopping", "put", "suspend"} /\ state[th] = "Stopping" /\ tls[th]
    \/ task[th] = "none" /\ state[th] = "Stopping" /\ tls[th] /\ Scrubs(th, "clear")
    \/ task[th] = "none" /\ state[th] = "Stopping" /\ ~tls[th] /\ Scrubs(th, "stop")
    \/ /\ task[th] = "none" /\ state[th] = "Stopped" /\ ~tls[th]
       /\ th \in Joined \/ Scrubs(th, "report")

Phase(th) ==
    /\ th \in allocated <=> owner[th] # "none"
    /\ owner[th] \in {"none", "idle"} =>
          task[th] = "none" /\ state[th] = "Stopped" /\ ~tls[th]
    /\ owner[th] \in {"starting", "create"} =>
          task[th] = "none" /\ state[th] = "Starting" /\ ~tls[th]
    /\ owner[th] = "started" => Started(th)

\* The state that was reported last follows from where owner and task are.
Reports(th) ==
    th \notin Joined =>
        /\ owner[th] \in {"none", "idle", "starting"} => reported[th] = "Stopped"
        /\ owner[th] = "create" => reported[th] = "Starting"
        /\ owner[th] = "started" =>
              /\ task[th] \in {"entry", "running"} => reported[th] = "Starting"
              /\ task[th] \in {"callback", "stopping"} => reported[th] = "Running"
              /\ task[th] \in {"put", "suspend", "none"} => reported[th] = "Stopping"

Scrubbing ==
    /\ IsInjective(queue)
    /\ \A th \in Thread :
          task[th] = "suspend" <=> th \in ToSet(queue) \/ Scrubs(th, "delete")
    /\ scrub_pc = "get" => thread_to_scrub = NULL
    /\ scrub_pc # "get" => thread_to_scrub \in Thread
    /\ scrub_pc = "delete" => thread_to_scrub \notin ToSet(queue)
    /\ scrub_pc \in {"clear", "stop"} =>
          /\ owner[thread_to_scrub] = "started"
          /\ task[thread_to_scrub] = "none"
          /\ state[thread_to_scrub] = "Stopping"
    /\ scrub_pc = "report" /\ thread_to_scrub \notin Joined =>
          /\ owner[thread_to_scrub] = "started"
          /\ task[thread_to_scrub] = "none"
          /\ state[thread_to_scrub] = "Stopped"

\* The inductive invariant.
Inv ==
    /\ TypeOK
    /\ \A th \in Thread : Phase(th)
    /\ \A th \in Thread : Reports(th)
    /\ Scrubbing

-----------------------------------------------------------------------------

\* No thread is allocated at first.
LEMMA InitInv == Init => Inv
  <1> SUFFICES ASSUME Init PROVE Inv
    OBVIOUS
  <1>1. TypeOK
    BY QueueSizeType DEF Init, TypeOK, State, TaskPc, OwnerPc, ScrubPc
  <1>2. ToSet(queue) = {} /\ IsInjective(queue)
    BY DEF Init, ToSet, IsInjective
  <1> QED
    BY <1>1, <1>2 DEF Init, Inv, Phase, Reports, Scrubbing, Scrubs

\* The steps of a thread's owner.
LEMMA OwnerInv ==
    ASSUME Inv, NEW th \in Thread, Owner(th)
    PROVE  Inv'
  <1> USE DEF Inv, Phase, Reports, Started, Scrubs, OwnerStep, SetState, Report, scrubber
  <1> USE DEF State, TaskPc, OwnerPc, ScrubPc
  <1>1. CASE Alloc(th)
    <2> USE <1>1 DEF Alloc
    <2>1. TypeOK'
      BY DEF TypeOK
    <2>2. ASSUME NEW x \in Thread PROVE Phase(x)' /\ Reports(x)'
      <3>1. CASE x = th
        BY <3>1 DEF TypeOK, Scrubbing
      <3>2. CASE x # th
        BY <3>2 DEF TypeOK
      <3> QED
        BY <3>1, <3>2
    <2>3. Scrubbing'
      BY DEF Scrubbing, TypeOK
    <2> QED
      BY <2>1, <2>2, <2>3 DEF Inv
  <1>2. CASE Free(th)
    <2> USE <1>2 DEF Free
    <2>1. TypeOK'
      BY DEF TypeOK
    <2>2. ASSUME NEW x \in Thread PROVE Phase(x)' /\ Reports(x)'
      <3>1. CASE x = th
        BY <3>1 DEF TypeOK, Scrubbing
      <3>2. CASE x # th
        BY <3>2 DEF TypeOK
      <3> QED
        BY <3>1, <3>2
    <2>3. Scrubbing'
      BY DEF Scrubbing, TypeOK
    <2> QED
      BY <2>1, <2>2, <2>3 DEF Inv
  <1>3. CASE Start(th)
    <2> USE <1>3 DEF Start
    <2>1. TypeOK'
      BY DEF TypeOK
    <2>2. ASSUME NEW x \in Thread PROVE Phase(x)' /\ Reports(x)'
      <3>1. CASE x = th
        BY <3>1 DEF TypeOK, Scrubbing
      <3>2. CASE x # th
        BY <3>2 DEF TypeOK
      <3> QED
        BY <3>1, <3>2
    <2>3. Scrubbing'
      BY DEF Scrubbing, TypeOK
    <2> QED
      BY <2>1, <2>2, <2>3 DEF Inv
  <1>4. CASE StartReport(th)
    <2> USE <1>4 DEF StartReport
    <2>1. TypeOK'
      BY DEF TypeOK
    <2>2. ASSUME NEW x \in Thread PROVE Phase(x)' /\ Reports(x)'
      <3>1. CASE x = th
        BY <3>1 DEF TypeOK, Scrubbing
      <3>2. CASE x # th
        BY <3>2 DEF TypeOK
      <3> QED
        BY <3>1, <3>2
    <2>3. Scrubbing'
      BY DEF Scrubbing, TypeOK
    <2> QED
      BY <2>1, <2>2, <2>3 DEF Inv
  <1>5. CASE StartCreate(th)
    <2> USE <1>5 DEF StartCreate
    <2>1. TypeOK'
      BY DEF TypeOK
    <2>2. ASSUME NEW x \in Thread PROVE Phase(x)' /\ Reports(x)'
      <3>1. CASE x = th
        BY <3>1 DEF TypeOK, Scrubbing
      <3>2. CASE x # th
        BY <3>2 DEF TypeOK
      <3> QED
        BY <3>1, <3>2
    <2>3. Scrubbing'
      BY DEF Scrubbing, TypeOK
    <2> QED
      BY <2>1, <2>2, <2>3 DEF Inv
  <1>6. CASE Join(th)
    <2> USE <1>6 DEF Join
    <2>1. TypeOK'
      BY DEF TypeOK
    <2>2. ASSUME NEW x \in Thread PROVE Phase(x)' /\ Reports(x)'
      <3>1. CASE x = th
        BY <3>1 DEF TypeOK, Scrubbing
      <3>2. CASE x # th
        BY <3>2 DEF TypeOK
      <3> QED
        BY <3>1, <3>2
    <2>3. Scrubbing'
      BY DEF Scrubbing, TypeOK
    <2> QED
      BY <2>1, <2>2, <2>3 DEF Inv
  <1> QED
    BY <1>1, <1>2, <1>3, <1>4, <1>5, <1>6 DEF Owner

\* The steps of a thread's task, up to furi_message_queue_put.
LEMMA BodyInv ==
    ASSUME Inv, NEW th \in Thread,
           BodyEntry(th) \/ BodyRun(th) \/ BodyReturn(th) \/ BodyReport(th)
    PROVE  Inv'
  <1> USE DEF Inv, Phase, Reports, Started, Scrubs, TaskStep, SetState, Report, scrubber
  <1> USE DEF State, TaskPc, OwnerPc, ScrubPc
  <1>1. CASE BodyEntry(th)
    <2> USE <1>1 DEF BodyEntry
    <2>1. TypeOK'
      BY DEF TypeOK
    <2>2. ASSUME NEW x \in Thread PROVE Phase(x)' /\ Reports(x)'
      <3>1. CASE x = th
        BY <3>1 DEF TypeOK, Scrubbing
      <3>2. CASE x # th
        BY <3>2 DEF TypeOK
      <3> QED
        BY <3>1, <3>2
    <2>3. Scrubbing'
      BY DEF Scrubbing, TypeOK
    <2> QED
      BY <2>1, <2>2, <2>3 DEF Inv
  <1>2. CASE BodyRun(th)
    <2> USE <1>2 DEF BodyRun
    <2>1. TypeOK'
      BY DEF TypeOK
    <2>2. ASSUME NEW x \in Thread PROVE Phase(x)' /\ Reports(x)'
      <3>1. CASE x = th
        BY <3>1 DEF TypeOK, Scrubbing
      <3>2. CASE x # th
        BY <3>2 DEF TypeOK
      <3> QED
        BY <3>1, <3>2
    <2>3. Scrubbing'
      BY DEF Scrubbing, TypeOK
    <2> QED
      BY <2>1, <2>2, <2>3 DEF Inv
  <1>3. CASE BodyReturn(th)
    <2> USE <1>3 DEF BodyReturn
    <2>1. TypeOK'
      BY DEF TypeOK
    <2>2. ASSUME NEW x \in Thread PROVE Phase(x)' /\ Reports(x)'
      <3>1. CASE x = th
        BY <3>1 DEF TypeOK, Scrubbing
      <3>2. CASE x # th
        BY <3>2 DEF TypeOK
      <3> QED
        BY <3>1, <3>2
    <2>3. Scrubbing'
      BY DEF Scrubbing, TypeOK
    <2> QED
      BY <2>1, <2>2, <2>3 DEF Inv
  <1>4. CASE BodyReport(th)
    <2> USE <1>4 DEF BodyReport
    <2>1. TypeOK'
      BY DEF TypeOK
    <2>2. ASSUME NEW x \in Thread PROVE Phase(x)' /\ Reports(x)'
      <3>1. CASE x = th
        BY <3>1 DEF TypeOK, Scrubbing
      <3>2. CASE x # th
        BY <3>2 DEF TypeOK
      <3> QED
        BY <3>1, <3>2
    <2>3. Scrubbing'
      BY DEF Scrubbing, TypeOK
    <2> QED
      BY <2>1, <2>2, <2>3 DEF Inv
  <1> QED
    BY <1>1, <1>2, <1>3, <1>4

\* furi_message_queue_put: the thread is in the queue once.
LEMMA BodyPutInv ==
    ASSUME Inv, NEW th \in Thread, BodyPut(th)
    PROVE  Inv'
  <1> USE DEF Inv, BodyPut, TaskStep
  <1>1. /\ th \notin ToSet(queue)
        /\ queue' \in Seq(Thread)
        /\ Len(queue') = Len(queue) + 1
        /\ ToSet(queue') = ToSet(queue) \cup {th}
        /\ IsInjective(queue')
    BY AppendFacts, AppendProperties DEF TypeOK, Scrubbing, Scrubs
  <1>2. TypeOK'
    BY <1>1, QueueSizeType, LenProperties DEF TypeOK, TaskPc, HasRoom
  <1>3. ASSUME NEW x \in Thread PROVE Phase(x)' /\ Reports(x)'
    BY <1>3 DEF TypeOK, Phase, Started, Reports, Scrubs
  <1>4. Scrubbing'
    BY <1>1 DEF Scrubbing, Scrubs, TypeOK
  <1> QED
    BY <1>2, <1>3, <1>4

\* The steps of furi_thread_scrub.
LEMMA ScrubInv ==
    ASSUME Inv, Scrub
    PROVE  Inv'
  <1> USE DEF Inv, ScrubStep, After
  <1>1. CASE ScrubGet
    <2> USE <1>1 DEF ScrubGet
    <2> DEFINE th == Head(queue)
    <2>1. /\ th \in Thread /\ thread_to_scrub' = th
          /\ queue' \in Seq(Thread)
          /\ Len(queue') = Len(queue) - 1
          /\ ToSet(queue) = ToSet(queue') \cup {th}
          /\ th \notin ToSet(queue')
          /\ IsInjective(queue')
      BY TailFacts, HeadTailProperties DEF TypeOK, Scrubbing
    <2> HIDE DEF th
    <2>2. TypeOK'
      BY <2>1, QueueSizeType, LenProperties DEF TypeOK, ScrubPc
    <2>3. ASSUME NEW x \in Thread PROVE Phase(x)' /\ Reports(x)'
      BY <2>3 DEF Phase, Started, Reports, Scrubs
    <2>4. Scrubbing'
      BY <2>1 DEF Scrubbing, Scrubs
    <2> QED
      BY <2>2, <2>3, <2>4
  <1>2. CASE ScrubDelete
    <2> USE <1>2 DEF ScrubDelete
    <2>1. thread_to_scrub \in Thread
      BY DEF Scrubbing
    <2>2. TypeOK'
      BY <2>1 DEF TypeOK, State, TaskPc, OwnerPc, ScrubPc
    <2>3. ASSUME NEW x \in Thread PROVE Phase(x)' /\ Reports(x)'
      BY <2>1, <2>3 DEF TypeOK, Phase, Started, Reports, Scrubs, Scrubbing
    <2>4. /\ owner[thread_to_scrub] = "started"
          /\ state[thread_to_scrub] = "Stopping"
      BY <2>1 DEF TypeOK, OwnerPc, Phase, Started, Scrubbing, Scrubs
    <2>5. Scrubbing'
      BY <2>1, <2>4 DEF TypeOK, Scrubbing, Scrubs
    <2> QED
      BY <2>2, <2>3, <2>5
  <1>3. CASE ScrubClear
    <2> USE <1>3 DEF ScrubClear
    <2>1. thread_to_scrub \in Thread
      BY DEF Scrubbing
    <2>2. TypeOK'
      BY <2>1 DEF TypeOK, State, TaskPc, OwnerPc, ScrubPc
    <2>3. ASSUME NEW x \in Thread PROVE Phase(x)' /\ Reports(x)'
      BY <2>1, <2>3 DEF TypeOK, Phase, Started, Reports, Scrubs, Scrubbing
    <2>4. Scrubbing'
      BY <2>1 DEF TypeOK, Phase, Started, Scrubbing, Scrubs
    <2> QED
      BY <2>2, <2>3, <2>4
  <1>4. CASE ScrubStop
    <2> USE <1>4 DEF ScrubStop
    <2>1. thread_to_scrub \in Thread
      BY DEF Scrubbing
    <2>2. TypeOK'
      BY <2>1 DEF SetState, TypeOK, State, TaskPc, OwnerPc, ScrubPc
    <2>3. ASSUME NEW x \in Thread PROVE Phase(x)' /\ Reports(x)'
      BY <2>1, <2>3 DEF SetState, TypeOK, Phase, Started, Reports, Scrubs, Scrubbing
    <2>4. Scrubbing'
      BY <2>1 DEF SetState, TypeOK, Phase, Started, Scrubbing, Scrubs
    <2> QED
      BY <2>2, <2>3, <2>4
  <1>5. CASE ScrubReport
    <2> USE <1>5 DEF ScrubReport
    <2>1. thread_to_scrub \in Thread
      BY DEF Scrubbing
    <2>2. TypeOK'
      BY <2>1 DEF Report, TypeOK, State, TaskPc, OwnerPc, ScrubPc
    <2>3. ASSUME NEW x \in Thread PROVE Phase(x)' /\ Reports(x)'
      BY <2>1, <2>3 DEF Report, TypeOK, Phase, Started, Reports, Scrubs, Scrubbing
    <2>4. Scrubbing'
      BY <2>1 DEF Report, TypeOK, Phase, Started, Scrubbing, Scrubs
    <2> QED
      BY <2>2, <2>3, <2>4
  <1>6. CASE ScrubReturn
    <2> USE <1>6 DEF ScrubReturn
    <2>1. thread_to_scrub \in Thread
      BY DEF Scrubbing
    <2>2. TypeOK'
      BY <2>1 DEF TypeOK, State, TaskPc, OwnerPc, ScrubPc
    <2>3. ASSUME NEW x \in Thread PROVE Phase(x)' /\ Reports(x)'
      BY <2>1, <2>3 DEF TypeOK, Phase, Started, Reports, Scrubs, Scrubbing
    <2>4. Scrubbing'
      BY <2>1 DEF TypeOK, Phase, Started, Scrubbing, Scrubs
    <2> QED
      BY <2>2, <2>3, <2>4
  <1> QED
    BY <1>1, <1>2, <1>3, <1>4, <1>5, <1>6 DEF Scrub

\* Every step keeps the invariant.
LEMMA NextInv == Inv /\ [Next]_vars => Inv'
  <1> SUFFICES ASSUME Inv, [Next]_vars PROVE Inv'
    OBVIOUS
  <1>1. ASSUME NEW th \in Thread, Owner(th) PROVE Inv'
    BY <1>1, OwnerInv
  <1>2. ASSUME NEW th \in Thread, Body(th) PROVE Inv'
    BY <1>2, BodyInv, BodyPutInv DEF Body
  <1>3. CASE UNCHANGED vars
    BY <1>3 DEF vars, scrubber, Inv, TypeOK, Phase, Started, Reports, Scrubbing, Scrubs
  <1> QED
    BY <1>1, <1>2, <1>3, ScrubInv DEF Next

\* Inv holds in every reachable state.
LEMMA Invariance == Spec => []Inv
  BY InitInv, NextInv, PTL DEF Spec

\* Every variable keeps its type; the scrub queue never exceeds its size.
THEOREM ThreadTypeOK == Spec => []TypeOK
  <1>1. Inv => TypeOK
    BY DEF Inv
  <1> QED
    BY Invariance, <1>1, PTL

\* Whoever sees the state Stopped finds no task, no local storage and nothing in
\* the scrub queue that belongs to the thread: its memory may be used again.
LEMMA ThreadStoppedHasNoTask == Spec => []StoppedHasNoTask
  <1>1. Inv => StoppedHasNoTask
    BY JoinedType DEF Inv, TypeOK, OwnerPc, ScrubPc, Phase, Started, Scrubbing, Scrubs,
        StoppedHasNoTask
  <1> QED
    BY Invariance, <1>1, PTL

\* furi_thread_scrub deletes a task once, at its end and in allocated memory.
LEMMA ThreadTasksLive == Spec => []TasksLive
  <1>1. Inv => ToSet(queue) \subseteq Thread
    BY LenProperties DEF Inv, TypeOK, ToSet
  <1>2. Inv => TasksLive
    <2> SUFFICES ASSUME Inv PROVE TasksLive
      OBVIOUS
    <2>1. ASSUME NEW th \in Thread, task[th] # "none" PROVE th \in allocated
      BY <2>1 DEF Inv, TypeOK, OwnerPc, Phase
    <2>2. ASSUME NEW th \in ToSet(queue)
          PROVE  /\ task[th] = "suspend"
                 /\ thread_to_scrub = th => scrub_pc \in {"report", "return"}
      BY <1>1, <2>2, JoinedType DEF Inv, TypeOK, ScrubPc, Scrubbing, Scrubs
    <2> QED
      BY <2>1, <2>2 DEF Inv, Scrubbing, Scrubs, TasksLive
  <1> QED
    BY Invariance, <1>2, PTL

\* The memory that a task lives in is not its owner's before the task is gone, for
\* any threads and any size of the scrub queue.
THEOREM ThreadTaskMemorySafe == Spec => []TaskMemorySafe
  BY ThreadStoppedHasNoTask, ThreadTasksLive, PTL DEF TaskMemorySafe

\* furi_thread_scrub does not touch a thread after it has told its owner, who acts
\* on the state callback, that the thread is stopped.
THEOREM ThreadScrubTouchesLive == Spec => []ScrubTouchesLive
  <1>1. Inv => ScrubTouchesLive
    BY DEF Inv, TypeOK, OwnerPc, ScrubPc, Phase, Scrubbing, Scrubs, ScrubTouchesLive, Touched
  <1> QED
    BY Invariance, <1>1, PTL

\* An owner who acts on the state callback is given the four states in turn, by
\* its own thread, the task and the scrubber, and again after a restart.
THEOREM ThreadReportedInOrder == Spec => ReportedInOrder
  <1>1. Inv /\ [Next]_vars => [InOrder]_vars
    <2> SUFFICES ASSUME Inv, Next, NEW th \in allocated \ Joined,
                        th \in allocated', reported'[th] # reported[th]
                 PROVE  reported'[th] = Successor[reported[th]]
      BY DEF InOrder
    <2>1. th \in Thread /\ Phase(th) /\ Reports(th)
      BY DEF Inv, TypeOK
    <2> USE DEF Inv, TypeOK, Successor, Report
    <2>2. ASSUME NEW u \in Thread, Owner(u)
          PROVE  reported'[th] = Successor[reported[th]]
      BY <2>1, <2>2 DEF Owner, Alloc, Free, Start, StartReport, StartCreate, Join,
            OwnerStep, Phase, Reports
    <2>3. ASSUME NEW u \in Thread, Body(u)
          PROVE  reported'[th] = Successor[reported[th]]
      BY <2>1, <2>3 DEF Body, BodyEntry, BodyRun, BodyReturn, BodyReport, BodyPut,
            TaskStep, OwnerPc, Phase, Started, Reports
    <2>4. CASE Scrub
      BY <2>1, <2>4 DEF Scrub, ScrubGet, ScrubDelete, ScrubClear, ScrubStop, ScrubReport,
            ScrubReturn, ScrubStep, After, Scrubbing, Reports
    <2> QED
      BY <2>2, <2>3, <2>4 DEF Next
  <1> QED
    BY Invariance, <1>1, PTL DEF Spec, ReportedInOrder

-----------------------------------------------------------------------------
\* FuriThread implements FuriThreadLife.

\* What the refinement mapping gives for each variable of FuriThreadLife.
LifeFn == [th \in Thread |-> LifeOf(th)]
EndedSeq == (IF AtWork THEN <<thread_to_scrub>> ELSE <<>>) \o queue
IsReleased == scrub_pc = "report"

\* LifeOf is what the owner of a thread may know: while its owner has it, and
\* nobody has started it, a thread is none or ready, and while its task is
\* before furi_message_queue_put it is running.
LEMMA LifeOfFacts ==
    ASSUME Inv, NEW th \in Thread
    PROVE  /\ owner[th] = "none" => LifeOf(th) = "none"
           /\ owner[th] = "idle" => LifeOf(th) = "ready"
           /\ owner[th] \in {"starting", "create"} => LifeOf(th) = "running"
           /\ task[th] \in {"entry", "running", "callback", "stopping", "put"} =>
                 LifeOf(th) = "running"
           /\ task[th] = "suspend" => LifeOf(th) = "ended"
           /\ Scrubs(th, "clear") \/ Scrubs(th, "stop") => LifeOf(th) = "ended"
           /\ Scrubs(th, "report") /\ th \notin Joined => LifeOf(th) = "ended"
  BY JoinedType DEF Inv, TypeOK, OwnerPc, TaskPc, ScrubPc, State, Phase, Started, Scrubbing,
        Scrubs, LifeOf, AtWork

\* A step that leaves alone what LifeOf looks at leaves the lives alone.
LEMMA LivesKept ==
    ASSUME UNCHANGED <<allocated, queue, thread_to_scrub, scrub_pc>>,
           \A x \in Thread : state[x] = "Stopped" <=> state'[x] = "Stopped"
    PROVE  LifeFn' = LifeFn /\ EndedSeq' = EndedSeq /\ IsReleased' = IsReleased
  BY DEF LifeFn, LifeOf, EndedSeq, AtWork, IsReleased

\* In the initial state no thread is allocated and none has ended.
LEMMA LifeInitially == Init => Life!LifeInit
  BY JoinedType DEF Init, Life!LifeInit, LifeOf, AtWork

\* The lives after a step are the lives of the state after it.
LEMMA LifeOfFactsNext ==
    ASSUME Inv', NEW th \in Thread
    PROVE  /\ (owner[th] = "none" => LifeOf(th) = "none")'
           /\ (owner[th] = "idle" => LifeOf(th) = "ready")'
           /\ (owner[th] \in {"starting", "create"} => LifeOf(th) = "running")'
           /\ (task[th] \in {"entry", "running", "callback", "stopping", "put"} =>
                 LifeOf(th) = "running")'
           /\ (task[th] = "suspend" => LifeOf(th) = "ended")'
           /\ (Scrubs(th, "clear") \/ Scrubs(th, "stop") => LifeOf(th) = "ended")'
           /\ (Scrubs(th, "report") /\ th \notin Joined => LifeOf(th) = "ended")'
  BY JoinedType DEF Inv, TypeOK, OwnerPc, TaskPc, ScrubPc, State, Phase, Started, Scrubbing,
        Scrubs, LifeOf, AtWork

\* Nothing but the life of th changes.
LEMMA OneLife ==
    ASSUME NEW th \in Thread, NEW from, NEW to,
           LifeOf(th) = from, LifeOf(th)' = to,
           \A x \in Thread \ {th} : LifeOf(x)' = LifeOf(x)
    PROVE  Life!LifeStep(th, from, to)
  BY DEF Life!LifeStep

\* A step that the variables of FuriThreadLife do not show.
LEMMA NoLife ==
    ASSUME UNCHANGED <<LifeFn, EndedSeq, IsReleased>>
    PROVE  UNCHANGED Life!thread_vars
  BY DEF Life!thread_vars, LifeFn, EndedSeq, IsReleased

\* The owner's steps are those of FuriThreadLife, or change no life.
LEMMA OwnerLives ==
    ASSUME Inv, Inv', NEW th \in Thread, Owner(th)
    PROVE  Life!LifeNext \/ UNCHANGED Life!thread_vars
  <1> USE DEF scrubber, OwnerStep, SetState, Inv, TypeOK
  <1>1. CASE Alloc(th) \/ Free(th) \/ Start(th)
    <2>1. \A x \in Thread \ {th} : LifeOf(x)' = LifeOf(x)
      BY <1>1 DEF Alloc, Free, Start, LifeOf, AtWork
    <2>2. UNCHANGED <<EndedSeq, IsReleased>>
      BY <1>1 DEF Alloc, Free, Start, EndedSeq, AtWork, IsReleased
    <2>3. CASE Alloc(th)
      <3>1. LifeOf(th) = "none" /\ LifeOf(th)' = "ready"
        BY <2>3, LifeOfFacts, LifeOfFactsNext DEF Alloc
      <3> QED
        BY <2>1, <2>2, <3>1, OneLife DEF Life!LifeNext, Life!Alloc, EndedSeq, IsReleased
    <2>4. CASE Free(th)
      <3>1. LifeOf(th) = "ready" /\ LifeOf(th)' = "none"
        BY <2>4, LifeOfFacts, LifeOfFactsNext DEF Free
      <3> QED
        BY <2>1, <2>2, <3>1, OneLife DEF Life!LifeNext, Life!Free, EndedSeq, IsReleased
    <2>5. CASE Start(th)
      <3>1. LifeOf(th) = "ready" /\ LifeOf(th)' = "running"
        BY <2>5, LifeOfFacts, LifeOfFactsNext DEF Start
      <3> QED
        BY <2>1, <2>2, <3>1, OneLife DEF Life!LifeNext, Life!Start, EndedSeq, IsReleased
    <2> QED
      BY <1>1, <2>3, <2>4, <2>5
  <1>2. CASE StartReport(th) \/ StartCreate(th) \/ Join(th)
    BY <1>2, LivesKept, NoLife DEF StartReport, StartCreate, Join
  <1> QED
    BY <1>1, <1>2 DEF Owner

\* Of the task's steps only furi_message_queue_put ends a life.
LEMMA BodyLives ==
    ASSUME Inv, Inv', NEW th \in Thread, Body(th)
    PROVE  Life!LifeNext \/ UNCHANGED Life!thread_vars
  <1> USE DEF scrubber, TaskStep, SetState, Inv, TypeOK
  <1>1. CASE BodyEntry(th) \/ BodyRun(th) \/ BodyReturn(th) \/ BodyReport(th)
    <2>1. UNCHANGED <<allocated, queue, thread_to_scrub, scrub_pc>>
      BY <1>1 DEF BodyEntry, BodyRun, BodyReturn, BodyReport
    <2>2. \A x \in Thread : state[x] = "Stopped" <=> state'[x] = "Stopped"
      BY <1>1 DEF BodyEntry, BodyRun, BodyReturn, BodyReport
    <2> QED
      BY <2>1, <2>2, LivesKept, NoLife
  <1>2. CASE BodyPut(th)
    <2>1. LifeOf(th) = "running" /\ LifeOf(th)' = "ended"
      BY <1>2, LifeOfFacts, LifeOfFactsNext DEF BodyPut
    <2>2. ToSet(queue') = ToSet(queue) \cup {th}
      BY <1>2, AppendFacts DEF BodyPut
    <2>3. \A x \in Thread \ {th} : LifeOf(x)' = LifeOf(x)
      BY <1>2, <2>2 DEF BodyPut, LifeOf, AtWork
    <2>4. EndedSeq' = Append(EndedSeq, th)
      <3>1. CASE AtWork
        BY <1>2, <3>1 DEF BodyPut, EndedSeq, AtWork
      <3>2. CASE ~AtWork
        BY <1>2, <3>2 DEF BodyPut, EndedSeq, AtWork
      <3> QED
        BY <3>1, <3>2
    <2>5. IsReleased' = IsReleased
      BY <1>2 DEF BodyPut, IsReleased
    <2> QED
      BY <2>1, <2>3, <2>4, <2>5, OneLife DEF Life!LifeNext, Life!End, EndedSeq, IsReleased
  <1> QED
    BY <1>1, <1>2 DEF Body

\* The scrubber's steps: taking a thread changes nothing the owners may know,
\* the write of Stopped and the state callback are Stop and Report.
LEMMA ScrubLives ==
    ASSUME Inv, Inv', Scrub
    PROVE  Life!LifeNext \/ UNCHANGED Life!thread_vars
  <1> USE DEF ScrubStep, After, SetState, Inv, TypeOK
  <1>1. CASE ScrubGet
    <2>1. /\ queue \in Seq(Thread) /\ queue # <<>>
          /\ ToSet(queue) = ToSet(queue') \cup {thread_to_scrub'}
          /\ thread_to_scrub' \notin ToSet(queue')
          /\ thread_to_scrub' \in Thread
      BY <1>1, TailFacts DEF ScrubGet, Scrubbing
    <2>2. ~AtWork /\ AtWork' /\ scrub_pc' = "delete"
      BY <1>1, <2>1, JoinedType DEF ScrubGet, Scrubbing, AtWork
    <2>3. LifeFn' = LifeFn
      BY <1>1, <2>1, <2>2 DEF ScrubGet, LifeFn, LifeOf
    <2>4. EndedSeq' = EndedSeq
      BY <1>1, <2>1, <2>2 DEF ScrubGet, EndedSeq
    <2>5. IsReleased' = IsReleased
      BY <1>1, <2>2 DEF ScrubGet, IsReleased
    <2> QED
      BY <2>3, <2>4, <2>5, NoLife
  <1>2. CASE ScrubDelete \/ ScrubClear
    <2>1. AtWork /\ AtWork' /\ scrub_pc # "report" /\ scrub_pc' # "report"
      BY <1>2, JoinedType DEF ScrubDelete, ScrubClear, AtWork, Scrubbing
    <2>2. UNCHANGED <<allocated, state, queue, thread_to_scrub>>
      BY <1>2 DEF ScrubDelete, ScrubClear
    <2> QED
      BY <2>1, <2>2, NoLife DEF LifeFn, LifeOf, EndedSeq, IsReleased
  <1>3. CASE ScrubStop
    <2>0. PICK th \in Thread : th = thread_to_scrub
      BY <1>3 DEF ScrubStop, Scrubbing
    <2>1. /\ th \in Thread /\ AtWork /\ AtWork' /\ EndedSeq = <<th>> \o queue
          /\ EndedSeq' = EndedSeq /\ ~IsReleased /\ IsReleased'
      BY <2>0, <1>3, JoinedType DEF ScrubStop, AtWork, Scrubbing, EndedSeq, IsReleased
    <2>2. EndedSeq # <<>> /\ Head(EndedSeq) = th
      BY <2>0, <2>1
    <2>3. \A x \in Thread \ {th} : LifeOf(x)' = LifeOf(x)
      BY <2>0, <1>3, <2>1 DEF ScrubStop, LifeOf
    <2>4. LifeOf(th) = "ended"
      BY <2>0, <1>3, <2>1, LifeOfFacts DEF ScrubStop, Scrubs
    <2>5. CASE th \in Joined
      <3>1. LifeOf(th)' = "ready"
        BY <2>0, <1>3, <2>1, <2>5 DEF ScrubStop, LifeOf, Scrubbing, Scrubs, Phase, OwnerPc
      <3>2. Life!LifeStep(th, "ended", "ready")
        BY <2>0, <2>1, <2>3, <2>4, <3>1, OneLife
      <3> QED
        BY <2>0, <2>1, <2>2, <2>5, <3>2 DEF Life!LifeNext, Life!Stop, EndedSeq, IsReleased
    <2>6. CASE th \notin Joined
      <3>1. LifeOf(th)' = "ended"
        BY <2>0, <1>3, <2>1, <2>6, LifeOfFactsNext DEF ScrubStop, Scrubs
      <3>2. LifeFn' = LifeFn
        BY <2>0, <2>1, <2>3, <2>4, <3>1 DEF LifeFn
      <3> QED
        BY <2>0, <2>1, <2>2, <2>6, <3>2 DEF Life!LifeNext, Life!Stop, LifeFn, EndedSeq, IsReleased
    <2> QED
      BY <2>0, <2>5, <2>6
  <1>4. CASE ScrubReport
    <2>0. PICK th \in Thread : th = thread_to_scrub
      BY <1>4 DEF ScrubReport, Scrubbing
    <2>1. /\ th \in Thread /\ AtWork /\ ~AtWork' /\ EndedSeq = <<th>> \o queue
          /\ EndedSeq' = <<>> \o queue /\ IsReleased /\ ~IsReleased'
      BY <2>0, <1>4, JoinedType DEF ScrubReport, AtWork, Scrubbing, EndedSeq, IsReleased
    <2>2. Head(EndedSeq) = th /\ EndedSeq' = Tail(EndedSeq)
      BY <2>0, <2>1
    <2>3. \A x \in Thread \ {th} : LifeOf(x)' = LifeOf(x)
      BY <2>0, <1>4, <2>1 DEF ScrubReport, LifeOf
    <2>4. CASE th \in Joined
      <3>1. LifeFn' = LifeFn
        BY <2>0, <1>4, <2>1, <2>3, <2>4 DEF ScrubReport, LifeOf, LifeFn
      <3> QED
        BY <2>0, <2>1, <2>2, <2>4, <3>1 DEF Life!LifeNext, Life!Report, LifeFn, EndedSeq, IsReleased
    <2>5. CASE th \notin Joined
      <3>1. LifeOf(th) = "ended" /\ LifeOf(th)' = "ready"
        BY <2>0, <1>4, <2>1, <2>5, LifeOfFacts, LifeOfFactsNext DEF ScrubReport, Scrubs
      <3>2. Life!LifeStep(th, "ended", "ready")
        BY <2>0, <2>1, <2>3, <3>1, OneLife
      <3> QED
        BY <2>0, <2>1, <2>2, <2>5, <3>2 DEF Life!LifeNext, Life!Report, EndedSeq, IsReleased
    <2> QED
      BY <2>0, <2>4, <2>5
  <1>5. CASE ScrubReturn
    <2>1. ~AtWork /\ ~AtWork' /\ IsReleased' = IsReleased
      BY <1>5 DEF ScrubReturn, AtWork, IsReleased
    <2> QED
      BY <1>5, <2>1, NoLife DEF ScrubReturn, LifeFn, LifeOf, EndedSeq
  <1> QED
    BY <1>1, <1>2, <1>3, <1>4, <1>5 DEF Scrub

\* FuriThread implements FuriThreadLife for any threads, any of them joined, and
\* any size of the scrub queue: the modules composed from FuriThreadLife rest on
\* what thread.c does.
THEOREM ThreadImplementsLife == Spec => ImplementsLife
  <1>1. Inv /\ Inv' /\ [Next]_vars => [Life!LifeNext]_(Life!thread_vars)
    <2> SUFFICES ASSUME Inv, Inv', [Next]_vars
                 PROVE  Life!LifeNext \/ UNCHANGED Life!thread_vars
      OBVIOUS
    <2>1. CASE UNCHANGED vars
      BY <2>1, LivesKept, NoLife DEF vars, scrubber
    <2> QED
      BY <2>1, OwnerLives, BodyLives, ScrubLives DEF Next
  <1> QED
    BY LifeInitially, Invariance, <1>1, PTL DEF Spec, ImplementsLife, Life!LifeSpec

-----------------------------------------------------------------------------
(***************************************************************************)
(* Thread flags, for any constants: the proofs need nothing of them.       *)
(***************************************************************************)
\* What has come and was not taken is owed, wherever it is: in the notification's
\* value, with the wait that collects it, or in the copy that clear writes back.
\* A wait that clears nothing has collected what is still in the value.
Held ==
    /\ value \subseteq owed
    /\ pc = "wait" => rflags \cap option.mask \subseteq owed
    /\ pc = "wait" /\ option.noclear => rflags \cap option.mask \subseteq value
    /\ pc = "clear" => cflags \subseteq owed

LEMMA HeldKept == Held /\ [FlagsNext]_flags_vars => Held'
  <1> SUFFICES ASSUME Held, [FlagsNext]_flags_vars PROVE Held'
    OBVIOUS
  <1> USE DEF wait, clear
  <1>1. ASSUME NEW s \in Setter, NEW f, SetNotify(s, f) PROVE Held'
    BY <1>1 DEF Held, SetNotify, NotifiedValue
  <1>2. CASE Get \/ \E s \in Setter : SetQuery(s)
    BY <1>2 DEF Held, Get, SetQuery
  <1>3. ASSUME NEW f, ClearQuery(f) PROVE Held'
    BY <1>3 DEF Held, ClearQuery
  <1>4. CASE ClearWrite
    BY <1>4 DEF Held, ClearWrite
  <1>5. ASSUME NEW opt, Wait(opt) PROVE Held'
    BY <1>5 DEF Held, Wait
  <1>6. CASE WaitReceive
    BY <1>6 DEF Held, WaitReceive, Taken, Received
  <1>7. CASE WaitMore
    BY <1>7 DEF Held, WaitMore, Taken, Received
  <1>8. CASE WaitFail
    BY <1>8 DEF Held, WaitFail
  <1>9. CASE UNCHANGED flags_vars
    BY <1>9 DEF Held, flags_vars
  <1> QED
    BY <1>1, <1>2, <1>3, <1>4, <1>5, <1>6, <1>7, <1>8, <1>9 DEF FlagsNext

\* furi_thread_flags_wait reports no flag twice, and none that was not set, for any
\* flags, setters, options and rounds (thread.c:559-627).
THEOREM FlagsReceivedOnce == FlagsSpec => ReceivedOnce
  <1>1. FlagsInit => Held
    BY DEF FlagsInit, Held
  <1>2. Held /\ [FlagsNext]_flags_vars
        => [WaitReceive => rflags' \cap option.mask \subseteq owed]_flags_vars
    BY DEF Held, WaitReceive, Received
  <1> QED
    BY <1>1, <1>2, HeldKept, PTL DEF FlagsSpec, ReceivedOnce

\* Flags go missing only in furi_thread_flags_clear and in a wait that gives up.
THEOREM FlagsStay == FlagsSpec => FlagsKept
  <1>1. FlagsInit => Held
    BY DEF FlagsInit, Held
  <1>2. Held /\ [FlagsNext]_flags_vars
        => [Missing' \subseteq Missing \/ ClearWrite \/ GivesUp]_flags_vars
    <2> SUFFICES ASSUME Held, FlagsNext, ~ClearWrite, ~GivesUp
                 PROVE  Missing' \subseteq Missing
      OBVIOUS
    <2> USE DEF wait, clear, Missing
    <2>1. ASSUME NEW s \in Setter, NEW f, SetNotify(s, f) PROVE Missing' \subseteq Missing
      BY <2>1 DEF SetNotify, NotifiedValue
    <2>2. CASE Get \/ \E s \in Setter : SetQuery(s)
      BY <2>2 DEF Get, SetQuery
    <2>3. ASSUME NEW f, ClearQuery(f) PROVE Missing' \subseteq Missing
      BY <2>3 DEF ClearQuery
    <2>4. ASSUME NEW opt, Wait(opt) PROVE Missing' \subseteq Missing
      BY <2>4 DEF Wait
    <2>5. CASE WaitReceive
      BY <2>5 DEF Held, WaitReceive, Taken, Received
    <2>6. CASE WaitMore
      BY <2>6 DEF WaitMore, Taken, Received, GivesUp
    <2>7. CASE WaitFail
      BY <2>7 DEF WaitFail, GivesUp
    <2> QED
      BY <2>1, <2>2, <2>3, <2>4, <2>5, <2>6, <2>7 DEF FlagsNext
  <1> QED
    BY <1>1, <1>2, HeldKept, PTL DEF FlagsSpec, FlagsKept

=============================================================================
