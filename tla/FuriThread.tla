----------------------------- MODULE FuriThread -----------------------------
(***************************************************************************)
(* The life of a thread in furi/core/thread.c: furi_thread_start creates a *)
(* FreeRTOS task inside the FuriThread's own memory, the task queues       *)
(* itself for scrubbing when its callback returns, and the InitSrv thread, *)
(* which runs at the lowest priority in furi_thread_scrub, deletes the     *)
(* task and reports the thread as stopped.                                 *)
(*                                                                         *)
(* Every thread has an owner, who allocates, starts, waits for and frees   *)
(* it.  The owner of a thread in Joined waits in furi_thread_join, which   *)
(* polls the state; the owner of any other acts on the state callback, as  *)
(* loader.c, rpc.c and region.c do.                                        *)
(*                                                                         *)
(* furi_thread_set_state writes the state first and reads state_callback   *)
(* second: two steps, since others read the state in between.              *)
(***************************************************************************)
EXTENDS Integers, SequencesExt

CONSTANTS
    Thread,         \* memory for FuriThread
    Joined,         \* the threads whose owner calls furi_thread_join
    QueueSize,      \* furi_thread_scrub_message_queue, 8 in the code
    NULL

ASSUME JoinedType == Joined \subseteq Thread /\ NULL \notin Thread
ASSUME QueueSizeType == QueueSize \in Nat \ {0}

VARIABLES
    allocated,      \* the threads whose memory is allocated
    state,          \* FuriThread.state
    task,           \* where the FreeRTOS task in FuriThread.container is
    tls,            \* the task's local storage points to the FuriThread
    owner,          \* where the owner of each thread is
    queue,          \* furi_thread_scrub_message_queue
    scrub_pc,       \* where furi_thread_scrub is
    thread_to_scrub,\* its local variable
    reported        \* history: the state the state callback was last given

scrubber == <<queue, scrub_pc, thread_to_scrub>>
vars == <<allocated, state, task, tls, owner, scrubber, reported>>

State == {"Stopped", "Starting", "Running", "Stopping"}

\* "entry" to "callback": before the Running state, before its state callback,
\* in FuriThread.callback; "stopping" and "put": before the Stopping state
\* callback, in furi_message_queue_put; "suspend": in or about to enter
\* vTaskSuspend.
TaskPc == {"none", "entry", "running", "callback", "stopping", "put", "suspend"}

\* "starting" and "create": in furi_thread_start, before the state callback and
\* before xTaskCreateStatic; "started": after it.
OwnerPc == {"none", "idle", "starting", "create", "started"}

ScrubPc == {"get", "delete", "clear", "stop", "report", "return"}

TypeOK ==
    /\ allocated \subseteq Thread
    /\ state \in [Thread -> State]
    /\ task \in [Thread -> TaskPc]
    /\ tls \in [Thread -> BOOLEAN]
    /\ owner \in [Thread -> OwnerPc]
    /\ queue \in Seq(Thread) /\ Len(queue) <= QueueSize
    /\ scrub_pc \in ScrubPc
    /\ thread_to_scrub \in Thread \cup {NULL}
    /\ reported \in [Thread -> State]

Init ==
    /\ allocated = {}
    /\ state = [th \in Thread |-> "Stopped"]
    /\ task = [th \in Thread |-> "none"]
    /\ tls = [th \in Thread |-> FALSE]
    /\ owner = [th \in Thread |-> "none"]
    /\ queue = <<>>
    /\ scrub_pc = "get"
    /\ thread_to_scrub = NULL
    /\ reported = [th \in Thread |-> "Stopped"]

OwnerStep(th, from, to) == owner[th] = from /\ owner' = [owner EXCEPT ![th] = to]

TaskStep(th, from, to) == task[th] = from /\ task' = [task EXCEPT ![th] = to]

SetState(th, s) == state' = [state EXCEPT ![th] = s]

Report(th, s) == reported' = [reported EXCEPT ![th] = s]

-----------------------------------------------------------------------------
\* The owner.

\* furi_thread_alloc; the memory is zeroed, and FuriThreadStateStopped is zero.
Alloc(th) ==
    /\ OwnerStep(th, "none", "idle")
    /\ allocated' = allocated \cup {th}
    /\ SetState(th, "Stopped")
    /\ Report(th, "Stopped")
    /\ UNCHANGED <<task, tls, scrubber>>

\* Mutation of Free: the state is not checked.
FreeUnchecked(th) ==
    /\ owner[th] \in {"idle", "started"}
    /\ owner' = [owner EXCEPT ![th] = "none"]
    /\ allocated' = allocated \ {th}
    /\ SetState(th, "Stopped")
    /\ UNCHANGED <<task, tls, scrubber, reported>>

\* furi_thread_free: vPortFree clears the memory.
Free(th) ==
    /\ OwnerStep(th, "idle", "none")
    /\ state[th] = "Stopped"
    /\ allocated' = allocated \ {th}
    /\ SetState(th, "Stopped")
    /\ UNCHANGED <<task, tls, scrubber, reported>>

\* furi_thread_start, up to the write of the Starting state.
Start(th) ==
    /\ OwnerStep(th, "idle", "starting")
    /\ state[th] = "Stopped"
    /\ SetState(th, "Starting")
    /\ UNCHANGED <<allocated, task, tls, scrubber, reported>>

\* Its state callback.
StartReport(th) ==
    /\ OwnerStep(th, "starting", "create")
    /\ Report(th, "Starting")
    /\ UNCHANGED <<allocated, state, task, tls, scrubber>>

\* xTaskCreateStatic into FuriThread.container and stack_buffer.
StartCreate(th) ==
    /\ OwnerStep(th, "create", "started")
    /\ task' = [task EXCEPT ![th] = "entry"]
    /\ tls' = [tls EXCEPT ![th] = FALSE]
    /\ UNCHANGED <<allocated, state, scrubber, reported>>

\* furi_thread_join has polled the state and returns.
Join(th) ==
    /\ th \in Joined
    /\ OwnerStep(th, "started", "idle")
    /\ state[th] = "Stopped"
    /\ UNCHANGED <<allocated, state, task, tls, scrubber, reported>>

-----------------------------------------------------------------------------
\* furi_thread_body

\* Up to the write of the Running state.
BodyEntry(th) ==
    /\ TaskStep(th, "entry", "running")
    /\ ~tls[th]
    /\ state[th] = "Starting"
    /\ tls' = [tls EXCEPT ![th] = TRUE]
    /\ SetState(th, "Running")
    /\ UNCHANGED <<allocated, owner, scrubber, reported>>

\* Mutation of BodyRun: the state is written without furi_thread_set_state.
BodyRunSilent(th) ==
    /\ TaskStep(th, "running", "callback")
    /\ UNCHANGED <<allocated, state, tls, owner, scrubber, reported>>

\* The Running state callback; then FuriThread.callback runs.
BodyRun(th) ==
    /\ TaskStep(th, "running", "callback")
    /\ Report(th, "Running")
    /\ UNCHANGED <<allocated, state, tls, owner, scrubber>>

\* FuriThread.callback returns: the write of the Stopping state.
BodyReturn(th) ==
    /\ TaskStep(th, "callback", "stopping")
    /\ state[th] = "Running"
    /\ SetState(th, "Stopping")
    /\ UNCHANGED <<allocated, tls, owner, scrubber, reported>>

\* The Stopping state callback.
BodyReport(th) ==
    /\ TaskStep(th, "stopping", "put")
    /\ Report(th, "Stopping")
    /\ UNCHANGED <<allocated, state, tls, owner, scrubber>>

HasRoom == Len(queue) < QueueSize

\* Mutation of BodyPut: the put does not wait, its result is not used.
BodyPutNoWait(th) ==
    /\ TaskStep(th, "put", "suspend")
    /\ queue' = IF HasRoom THEN Append(queue, th) ELSE queue
    /\ UNCHANGED <<allocated, state, tls, owner, scrub_pc, thread_to_scrub, reported>>

\* furi_message_queue_put with FuriWaitForever, then vTaskSuspend.
BodyPut(th) ==
    /\ TaskStep(th, "put", "suspend")
    /\ HasRoom
    /\ queue' = Append(queue, th)
    /\ UNCHANGED <<allocated, state, tls, owner, scrub_pc, thread_to_scrub, reported>>

-----------------------------------------------------------------------------
\* furi_thread_scrub, in the InitSrv thread.

\* Mutation of After: the state is reported before the local storage is cleared.
AfterClearLast ==
    [get |-> "delete", delete |-> "stop", stop |-> "report", report |-> "clear",
     clear |-> "return"]

\* Mutation of After: the state is written before the task is deleted.
AfterStopFirst ==
    [get |-> "stop", stop |-> "delete", delete |-> "clear", clear |-> "report",
     report |-> "return"]

\* The order of the steps of a round.
After ==
    [get |-> "delete", delete |-> "clear", clear |-> "stop", stop |-> "report",
     report |-> "return"]

ScrubStep(p) == scrub_pc = p /\ scrub_pc' = After[p]

\* furi_message_queue_get
ScrubGet ==
    /\ ScrubStep("get")
    /\ queue # <<>>
    /\ thread_to_scrub' = Head(queue)
    /\ queue' = Tail(queue)
    /\ UNCHANGED <<allocated, state, task, tls, owner, reported>>

\* vTaskDelete, wherever the task is: it may not have reached vTaskSuspend.
ScrubDelete ==
    /\ ScrubStep("delete")
    /\ task' = [task EXCEPT ![thread_to_scrub] = "none"]
    /\ UNCHANGED <<allocated, state, tls, owner, queue, thread_to_scrub, reported>>

\* The local storage is ours and is cleared.
ScrubClear ==
    /\ ScrubStep("clear")
    /\ tls[thread_to_scrub]
    /\ tls' = [tls EXCEPT ![thread_to_scrub] = FALSE]
    /\ UNCHANGED <<allocated, state, task, owner, queue, thread_to_scrub, reported>>

\* furi_thread_set_state: the write.
ScrubStop ==
    /\ ScrubStep("stop")
    /\ SetState(thread_to_scrub, "Stopped")
    /\ UNCHANGED <<allocated, task, tls, owner, queue, thread_to_scrub, reported>>

\* furi_thread_set_state: state_callback is read and called.  It tells an owner
\* who does not join that the thread may be released.  What a freed block holds
\* is zero, which is no callback.
ScrubReport ==
    /\ ScrubStep("report")
    /\ IF thread_to_scrub \in allocated
       THEN Report(thread_to_scrub, "Stopped")
       ELSE UNCHANGED reported
    /\ owner' = IF thread_to_scrub \in Joined THEN owner
                ELSE [owner EXCEPT ![thread_to_scrub] = "idle"]
    /\ UNCHANGED <<allocated, state, task, tls, queue, thread_to_scrub>>

\* The state callback returns.
ScrubReturn ==
    /\ scrub_pc = "return"
    /\ scrub_pc' = "get"
    /\ thread_to_scrub' = NULL
    /\ UNCHANGED <<allocated, state, task, tls, owner, queue, reported>>

-----------------------------------------------------------------------------

Owner(th) ==
    \/ Alloc(th) \/ Free(th) \/ Start(th) \/ StartReport(th) \/ StartCreate(th)
    \/ Join(th)

Body(th) ==
    \/ BodyEntry(th) \/ BodyRun(th) \/ BodyReturn(th) \/ BodyReport(th) \/ BodyPut(th)

Scrub ==
    \/ ScrubGet \/ ScrubDelete \/ ScrubClear \/ ScrubStop \/ ScrubReport
    \/ ScrubReturn

Next == (\E th \in Thread : Owner(th) \/ Body(th)) \/ Scrub

Spec == Init /\ [][Next]_vars

\* Tasks are scheduled, InitSrv included, which thread.c requires of its users
\* ("some other thread uses all cpu time, which delays kernel from releasing
\* task handle").  Waiters for room in a queue are served in the order they
\* came, given equal priorities, so a thread does not lose the race for ever.
\* No callback is obliged to return, except the state callback.
Fairness ==
    /\ WF_vars(Scrub)
    /\ \A th \in Thread :
          /\ WF_vars(BodyEntry(th)) /\ WF_vars(BodyRun(th)) /\ WF_vars(BodyReport(th))
          /\ SF_vars(BodyPut(th))
          /\ WF_vars(StartReport(th)) /\ WF_vars(StartCreate(th))
          /\ WF_vars(Join(th))

FairSpec == Spec /\ Fairness

-----------------------------------------------------------------------------

\* A thread whose state is Stopped has no task, none on the way to the scrub
\* queue, in it, or taken from it and not yet deleted: whoever sees Stopped may
\* reuse the stack and the container that the task lived in.
StoppedHasNoTask ==
    \A th \in Thread : state[th] = "Stopped" =>
        /\ task[th] = "none"
        /\ ~tls[th]
        /\ th \notin ToSet(queue)
        /\ thread_to_scrub = th => scrub_pc \in {"report", "return"}

\* A task runs only in allocated memory, and the scrub queue holds each thread
\* at most once and only ones whose task is at its end: furi_thread_scrub
\* deletes no task that is still needed and none twice.
TasksLive ==
    /\ \A th \in Thread : task[th] # "none" => th \in allocated
    /\ IsInjective(queue)
    /\ \A th \in ToSet(queue) :
          /\ task[th] = "suspend"
          /\ thread_to_scrub = th => scrub_pc \in {"report", "return"}
    /\ scrub_pc = "delete" => task[thread_to_scrub] = "suspend"

\* The stack and the control block of a task are the thread's memory: they are in
\* use exactly while there is a task, and a task is deleted once, at its end.
TaskMemorySafe == StoppedHasNoTask /\ TasksLive

\* What furi_thread_scrub is about to read or write.
Touched == IF scrub_pc \in {"get", "return"} THEN {} ELSE {thread_to_scrub}

\* thread.h, FuriThreadStateStopped: "Thread is stopped and is safe to release.
\* [...] It is safe to release thread instance": furi_thread_scrub does not
\* touch a thread that has been released.
SafeToRelease == Touched \subseteq allocated

\* The same for threads whose owner acts on the state callback, and so may free
\* or restart the thread while the callback that told it is still running.
ScrubTouchesLive == Touched \ Joined \subseteq allocated

\* The life of each thread as its owner may know it: a thread has ended when it
\* is in the scrub queue, and is its owner's again when furi_thread_join may
\* return or the Stopped state has been reported.
AtWork == thread_to_scrub # NULL /\ scrub_pc # "return"

LifeOf(th) ==
    IF th \notin allocated THEN "none"
    ELSE IF \/ th \in ToSet(queue)
            \/ AtWork /\ thread_to_scrub = th /\ (th \notin Joined \/ scrub_pc # "report")
         THEN "ended"
    ELSE IF state[th] = "Stopped" THEN "ready" ELSE "running"

Life == INSTANCE FuriThreadLife WITH
    life <- [th \in Thread |-> LifeOf(th)],
    ended <- (IF AtWork THEN <<thread_to_scrub>> ELSE <<>>) \o queue,
    released <- scrub_pc = "report"

\* The threads live as FuriThreadLife says: from the start on a thread is not
\* its owner's until the scrubber, which takes the ended threads in turn, has
\* deleted its task and written or reported the Stopped state.
ImplementsLife == Life!LifeSpec

Successor == [Stopped |-> "Starting", Starting |-> "Running", Running |-> "Stopping",
              Stopping |-> "Stopped"]

\* What a step may do to the state last reported by an owner's callback.
InOrder ==
    \A th \in (allocated \cap allocated') \ Joined :
        reported'[th] # reported[th] => reported'[th] = Successor[reported[th]]

\* The state callback is given Starting, Running, Stopping and Stopped in turn,
\* although three different tasks deliver them, over any number of restarts by
\* owners who act on it.
ReportedInOrder == [][InOrder]_vars

\* A thread whose callback has returned is joined or reported to its owner,
\* whatever else is in the scrub queue and however often others restart.
JoinReturns ==
    \A th \in Thread : task[th] \in {"stopping", "put"} ~> owner[th] = "idle"

=============================================================================
