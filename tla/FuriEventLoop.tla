---------------------------- MODULE FuriEventLoop ----------------------------
(***************************************************************************)
(* The event loop of furi/core/event_loop.c: one thread that sleeps on a   *)
(* FreeRTOS task notification and runs the callbacks that message queues,  *)
(* semaphores and stream buffers, deferred calls, timer requests and       *)
(* thread flags ask for.                                                   *)
(*                                                                         *)
(* The loop's thread is one sequential process, with pc at the points      *)
(* where other threads can interfere.  "app" and the "_cb" values mean     *)
(* that the thread is executing application code, which may call any of    *)
(* the API any number of times before it returns.  Other threads change    *)
(* the level of an object first and notify its link second: put and get in *)
(* message_queue.c, semaphore.c and stream_buffer.c are not atomic with    *)
(* furi_event_loop_link_notify.                                            *)
(*                                                                         *)
(* FURI_CRITICAL sections are single actions.  Time, the timers and the    *)
(* tick are the subject of FuriEventLoopTimer; here a wait may time out    *)
(* whenever nothing has been notified.                                     *)
(***************************************************************************)
EXTENDS Integers, SequencesExt

CONSTANTS
    Object,         \* the primitives the loop can be subscribed to
    Item,           \* memory for FuriEventLoopItem
    Thread,         \* threads other than the loop's
    Events,         \* Events[o]: the event words o may be subscribed with
    Capacity,       \* capacity of every object
    MaxPending,     \* bound: deferred calls queued at once
    MaxRequests,    \* bound: timer requests queued at once
    UsesThreadFlags,\* bound: whether anybody sets the loop thread's flags
    NULL

\* FuriEventLoopEvent: a direction and the Edge and Once flags.
EventWord == [dir : {"in", "out"}, edge : BOOLEAN, once : BOOLEAN]

ASSUME EventsType == Events \in [Object -> SUBSET EventWord]
ASSUME BoundsType == /\ Capacity \in Nat \ {0}
                     /\ MaxPending \in Nat
                     /\ MaxRequests \in Nat
                     /\ UsesThreadFlags \in BOOLEAN
ASSUME NullFresh == NULL \notin Object \cup Item

VARIABLES
    pc,             \* where the loop's thread is
    notified,       \* the task's notification value, a set of FuriEventLoopFlag
    flags,          \* local of furi_event_loop_run
    item,           \* local of furi_event_loop_process_waiting_list
    status,         \* local of furi_event_loop_process_waiting_list
    current_item,   \* FuriEventLoop.current_item
    tree,           \* FuriEventLoop.tree
    waiting_list,   \* FuriEventLoop.waiting_list
    pending_queue,  \* length of FuriEventLoop.pending_queue
    timer_queue,    \* length of FuriEventLoop.timer_queue
    subscribed,     \* FuriEventLoop.are_thread_flags_subscribed
    object,         \* FuriEventLoopItem.object, NULL in memory that is free
    event,          \* FuriEventLoopItem.event
    owned,          \* FuriEventLoopItem.owner is not NULL
    item_in,        \* FuriEventLoopLink.item_in of each object
    item_out,       \* FuriEventLoopLink.item_out of each object
    level,          \* messages, tokens or bytes in each object
    notifying,      \* the object whose link a thread is about to notify
    direction,      \* and the direction
    halted          \* history: a run of this instance has been stopped

work == <<item, status, current_item>>
items == <<object, event, owned>>
links == <<tree, item_in, item_out>>
queues == <<pending_queue, timer_queue, subscribed>>
env == <<level, notifying, direction, halted>>
vars == <<pc, notified, flags, work, waiting_list, items, links, queues, env>>

\* FuriEventLoopFlag, and "Cleared" for a notification that is pending although
\* its value has been cleared.
Flag == {"Event", "Stop", "Timer", "Pending", "ThreadFlag", "Cleared"}

\* The thread executes application code.
AppPc == {"app", "event_cb", "pending_cb", "flags_cb", "tick_cb"}
\* The thread is inside furi_event_loop_process_waiting_list.
EventPc == {"event", "process", "event_cb", "finish", "sync"}
LoopPc == {"wait", "restore", "timer", "pending", "thread_flag"} \cup EventPc

TypeOK ==
    /\ pc \in AppPc \cup LoopPc \cup {"none", "alloc", "fault"}
    /\ notified \in SUBSET Flag
    /\ flags \in SUBSET Flag
    /\ item \in Item \cup {NULL}
    /\ status \in {"Complete", "Incomplete", "FreeLater"}
    /\ current_item \in Item \cup {NULL}
    /\ tree \in [Object -> Item \cup {NULL}]
    /\ waiting_list \in Seq(Item)
    /\ pending_queue \in Nat
    /\ timer_queue \in Nat
    /\ subscribed \in BOOLEAN
    /\ object \in [Item -> Object \cup {NULL}]
    /\ event \in [Item -> EventWord]
    /\ owned \in [Item -> BOOLEAN]
    /\ item_in \in [Object -> Item \cup {NULL}]
    /\ item_out \in [Object -> Item \cup {NULL}]
    /\ level \in [Object -> 0..Capacity]
    /\ notifying \in [Thread -> Object \cup {NULL}]
    /\ direction \in [Thread -> {"in", "out"}]
    /\ halted \in BOOLEAN

allocated == {i \in Item : object[i] # NULL}

\* What malloc and, with configHEAP_CLEAR_MEMORY_ON_FREE, free leave in a block.
NoEvent == [dir |-> "in", edge |-> FALSE, once |-> FALSE]

\* furi_event_loop_item_free
ItemFree(i) ==
    /\ object' = [object EXCEPT ![i] = NULL]
    /\ event' = [event EXCEPT ![i] = NoEvent]
    /\ owned' = [owned EXCEPT ![i] = FALSE]

\* furi_event_loop_item_free_later
ItemFreeLater(i) ==
    /\ owned' = [owned EXCEPT ![i] = FALSE]
    /\ UNCHANGED <<object, event>>

\* The get_level contracts of queues, semaphores and stream buffers.
Level(o, d) == IF d = "in" THEN level[o] ELSE Capacity - level[o]

ItemLevel(i) == Level(object[i], event[i].dir)

\* furi_event_loop_item_is_waiting
IsWaiting(i) == i \in ToSet(waiting_list)

Link(o, d) == IF d = "in" THEN item_in[o] ELSE item_out[o]

InApp == pc \in AppPc

\* The device has not halted in furi_crash or a hard fault.
Alive == pc # "fault"

Goto(p, q) == pc = p /\ pc' = q

-----------------------------------------------------------------------------
\* Notification of an item.

\* Mutation of Enqueued: WaitingList_push_front.
EnqueuedFront(i) == IF IsWaiting(i) THEN waiting_list ELSE <<i>> \o waiting_list

\* WaitingList_push_back, unless furi_event_loop_item_is_waiting.
Enqueued(i) == IF IsWaiting(i) THEN waiting_list ELSE Append(waiting_list, i)

\* furi_event_loop_item_notify
ItemNotify(i) ==
    /\ waiting_list' = Enqueued(i)
    /\ notified' = notified \cup {"Event"}

\* furi_event_loop_link_notify: one critical section.
LinkNotify(o, d) ==
    IF Link(o, d) # NULL THEN ItemNotify(Link(o, d))
                         ELSE UNCHANGED <<waiting_list, notified>>

-----------------------------------------------------------------------------
\* Other threads and interrupts.

Changed(t, o, d, by) ==
    /\ Alive
    /\ notifying[t] = NULL
    /\ level[o] + by \in 0..Capacity
    /\ level' = [level EXCEPT ![o] = @ + by]
    /\ notifying' = [notifying EXCEPT ![t] = o]
    /\ direction' = [direction EXCEPT ![t] = d]
    /\ UNCHANGED <<pc, notified, flags, work, waiting_list, items, links, queues>>
    /\ UNCHANGED halted

\* furi_message_queue_put, furi_semaphore_release, furi_stream_buffer_send: the
\* FreeRTOS call succeeded, the link is not notified yet.
ThreadPut(t, o) == Changed(t, o, "in", 1)

\* furi_message_queue_get, furi_semaphore_acquire, furi_stream_buffer_receive.
ThreadGet(t, o) == Changed(t, o, "out", -1)

\* They notify the link and return.
ThreadNotify(t) ==
    /\ Alive
    /\ notifying[t] # NULL
    /\ LinkNotify(notifying[t], direction[t])
    /\ notifying' = [notifying EXCEPT ![t] = NULL]
    /\ direction' = [direction EXCEPT ![t] = "in"]
    /\ UNCHANGED <<pc, flags, work, items, links, queues, level, halted>>

\* furi_event_loop_stop, from any thread that knows the instance.
Stop ==
    /\ Alive
    /\ pc \notin {"none", "alloc"}
    /\ notified' = notified \cup {"Stop"}
    /\ UNCHANGED <<pc, flags, work, waiting_list, items, links, queues, env>>

\* furi_event_loop_thread_flag_callback, from furi_thread_flags_set on this
\* thread: it does not look whether the thread has a loop.
ThreadFlagSet ==
    /\ Alive
    /\ UsesThreadFlags
    /\ notified' = notified \cup {"ThreadFlag"}
    /\ UNCHANGED <<pc, flags, work, waiting_list, items, links, queues, env>>

-----------------------------------------------------------------------------
\* The API, called by the application code of the loop's thread.

SetLink(o, d, i) ==
    /\ item_in' = IF d = "in" THEN [item_in EXCEPT ![o] = i] ELSE item_in
    /\ item_out' = IF d = "out" THEN [item_out EXCEPT ![o] = i] ELSE item_out

\* furi_event_loop_object_subscribe, one critical section, into the free item i.
\* A level-triggered subscription to an object that is ready is notified at once.
Subscribe(o, e, i) ==
    /\ InApp
    /\ Link(o, e.dir) = NULL
    /\ tree[o] = NULL
    /\ object' = [object EXCEPT ![i] = o]
    /\ event' = [event EXCEPT ![i] = e]
    /\ owned' = [owned EXCEPT ![i] = TRUE]
    /\ tree' = [tree EXCEPT ![o] = i]
    /\ SetLink(o, e.dir, i)
    /\ IF ~e.edge /\ Level(o, e.dir) > 0 THEN ItemNotify(i)
                                         ELSE UNCHANGED <<waiting_list, notified>>
    /\ UNCHANGED <<pc, flags, work, queues, env>>

\* The same, when the object has a subscription for the other direction: the
\* furi_check on the tree fails.
SubscribeSecond(o, e) ==
    /\ InApp
    /\ Link(o, e.dir) = NULL
    /\ tree[o] # NULL
    /\ pc' = "fault"
    /\ UNCHANGED <<notified, flags, work, waiting_list, items, links, queues, env>>

\* Mutation of Unlinked: an unsubscribed item stays in the list.
UnlinkedNothing(i) == waiting_list

\* WaitingList_unlink, if furi_event_loop_item_is_waiting.
Unlinked(i) ==
    IF IsWaiting(i)
    THEN RemoveAt(waiting_list, CHOOSE j \in DOMAIN waiting_list : waiting_list[j] = i)
    ELSE waiting_list

\* Mutation of Disconnect: the link is not reset.
DisconnectKeepsLink(o) ==
    /\ tree' = [tree EXCEPT ![o] = NULL]
    /\ waiting_list' = Unlinked(tree[o])
    /\ UNCHANGED <<item_in, item_out>>

\* The part of furi_event_loop_unsubscribe that takes the object's item out of
\* the loop's structures.
Disconnect(o) ==
    /\ tree' = [tree EXCEPT ![o] = NULL]
    /\ waiting_list' = Unlinked(tree[o])
    /\ SetLink(o, event[tree[o]].dir, NULL)

\* Mutation of Release: the item of the running callback is not spared.
ReleaseNow(i) == ItemFree(i)

\* The item whose callback is running is freed when the callback has returned.
Release(i) == IF current_item = i THEN ItemFreeLater(i) ELSE ItemFree(i)

\* furi_event_loop_unsubscribe
Unsubscribe(o) ==
    /\ InApp
    /\ tree[o] # NULL
    /\ Disconnect(o)
    /\ Release(tree[o])
    /\ UNCHANGED <<pc, notified, flags, work, queues, env>>

\* The loop's own thread puts into or gets from an object.  Between the FreeRTOS
\* call and the link's notification only other threads run, and only this thread
\* looks at what is notified, so this is one step.
AppChanged(o, d, by) ==
    /\ InApp
    /\ level[o] + by \in 0..Capacity
    /\ level' = [level EXCEPT ![o] = @ + by]
    /\ LinkNotify(o, d)
    /\ UNCHANGED <<pc, flags, work, items, links, queues>>
    /\ UNCHANGED <<notifying, direction, halted>>

AppPut(o) == AppChanged(o, "in", 1)

AppGet(o) == AppChanged(o, "out", -1)

\* furi_event_loop_pend_callback
PendCallback ==
    /\ InApp
    /\ pending_queue < MaxPending
    /\ pending_queue' = pending_queue + 1
    /\ notified' = notified \cup {"Pending"}
    /\ UNCHANGED <<pc, flags, work, waiting_list, items, links, timer_queue, subscribed, env>>

\* furi_event_loop_timer_start, _stop and _free put a request in the queue.
TimerRequest ==
    /\ InApp
    /\ timer_queue < MaxRequests
    /\ timer_queue' = timer_queue + 1
    /\ notified' = notified \cup {"Timer"}
    /\ UNCHANGED <<pc, flags, work, waiting_list, items, links, pending_queue, subscribed, env>>

\* furi_event_loop_subscribe_thread_flags
SubscribeThreadFlags ==
    /\ InApp
    /\ UsesThreadFlags
    /\ ~subscribed
    /\ subscribed' = TRUE
    /\ UNCHANGED <<pc, notified, flags, work, waiting_list, items, links>>
    /\ UNCHANGED <<pending_queue, timer_queue, env>>

\* furi_event_loop_unsubscribe_thread_flags
UnsubscribeThreadFlags ==
    /\ InApp
    /\ subscribed
    /\ subscribed' = FALSE
    /\ UNCHANGED <<pc, notified, flags, work, waiting_list, items, links>>
    /\ UNCHANGED <<pending_queue, timer_queue, env>>

-----------------------------------------------------------------------------
\* Life of the instance.

\* furi_event_loop_alloc clears what was notified to the task before: first the
\* state,
Alloc ==
    /\ Goto("none", "alloc")
    /\ notified' = {}
    /\ halted' = FALSE
    /\ UNCHANGED <<flags, work, waiting_list, items, links, queues>>
    /\ UNCHANGED <<level, notifying, direction>>

\* then the value.  A thread flag set in between leaves a notification of nothing.
AllocValue ==
    /\ Goto("alloc", "app")
    /\ notified' = IF notified = {} THEN {} ELSE {"Cleared"}
    /\ UNCHANGED <<flags, work, waiting_list, items, links, queues, env>>

\* furi_event_loop_free.  The application has unsubscribed from everything: the
\* code checks it for waiting items and for thread flags.
Free ==
    /\ Goto("app", "none")
    /\ waiting_list = <<>>
    /\ ~subscribed
    /\ \A o \in Object : tree[o] = NULL
    /\ timer_queue' = 0
    /\ pending_queue' = 0
    /\ notified' = {}
    /\ UNCHANGED <<flags, work, waiting_list, items, links, subscribed, env>>

\* furi_event_loop_run, up to the loop.
Run ==
    /\ Goto("app", "wait")
    /\ UNCHANGED <<notified, flags, work, waiting_list, items, links, queues, env>>

-----------------------------------------------------------------------------
\* furi_event_loop_run, the loop.

\* Mutation of Stops: Stop is served last.
StopsLast(f) == f = {"Stop"}

\* Stop comes before everything else,
Stops(f) == "Stop" \in f

\* then events, timer requests, deferred calls and thread flags; furi_crash if
\* there is no flag at all.
Branch(f) ==
    CASE "Event" \in f -> "event"
      [] "Event" \notin f /\ "Timer" \in f -> "timer"
      [] f \cap {"Event", "Timer"} = {} /\ "Pending" \in f -> "pending"
      [] f \cap {"Event", "Timer", "Pending"} = {} /\ "ThreadFlag" \in f -> "thread_flag"
      [] OTHER -> "fault"

\* xTaskNotifyWaitIndexed returns pdTRUE: the whole value is taken and cleared,
\* and one bit of it is served.  Stop leaves the loop with whatever else was set.
Wait ==
    /\ pc = "wait"
    /\ notified # {}
    /\ notified' = {}
    /\ IF Stops(notified)
       THEN pc' = "app" /\ halted' = TRUE /\ flags' = {}
       ELSE /\ pc' = Branch(notified)
            /\ flags' = notified \ {"Cleared"}
            /\ UNCHANGED halted
    /\ UNCHANGED <<work, waiting_list, items, links, queues>>
    /\ UNCHANGED <<level, notifying, direction>>

\* The wait times out: a timer's callback, the tick's callback, or nothing.
Timeout ==
    /\ Goto("wait", "tick_cb")
    /\ notified = {}
    /\ UNCHANGED <<notified, flags, work, waiting_list, items, links, queues, env>>

\* furi_event_loop_get_waiting_item; without an item there is nothing to sync.
GetWaitingItem ==
    /\ pc = "event"
    /\ IF waiting_list = <<>>
       THEN pc' = "restore" /\ UNCHANGED <<item, waiting_list>>
       ELSE /\ pc' = "process"
            /\ item' = Head(waiting_list)
            /\ waiting_list' = Tail(waiting_list)
    /\ UNCHANGED <<notified, flags, status, current_item, items, links, queues, env>>

\* furi_event_loop_process_event up to the callback.  The level is looked at
\* when the item's turn comes, which may be long after it was notified.
ProcessEvent ==
    /\ pc = "process"
    /\ ~event[item].once
    /\ IF event[item].edge \/ ItemLevel(item) > 0
       THEN pc' = "event_cb" /\ current_item' = item /\ UNCHANGED status
       ELSE pc' = "finish" /\ status' = "Complete" /\ UNCHANGED current_item
    /\ UNCHANGED <<notified, flags, item, waiting_list, items, links, queues, env>>

\* The same for a Once subscription: furi_event_loop_unsubscribe comes first,
\* while current_item is still NULL, so it frees the item; the event, the
\* contract and the callback are then read from the freed block, which
\* vPortFree has cleared.
ProcessOnce ==
    /\ Goto("process", "fault")
    /\ event[item].once
    /\ Disconnect(object[item])
    /\ Release(item)
    /\ UNCHANGED <<notified, flags, work, queues, env>>

\* Mutation of StatusAfterCallback: no second look at the level.
StatusNoSecondLook == IF owned[item] THEN "Complete" ELSE "FreeLater"

\* furi_event_loop_process_level_event and _edge_event after the callback, and
\* the end of furi_event_loop_process_event.
StatusAfterCallback ==
    CASE ~owned[item] -> "FreeLater"
      [] owned[item] /\ ~event[item].edge /\ ItemLevel(item) > 0 -> "Incomplete"
      [] OTHER -> "Complete"

EventCallbackReturn ==
    /\ Goto("event_cb", "finish")
    /\ current_item' = NULL
    /\ status' = StatusAfterCallback
    /\ UNCHANGED <<notified, flags, item, waiting_list, items, links, queues, env>>

\* furi_event_loop_process_waiting_list acts on the status.
Finish ==
    /\ Goto("finish", "sync")
    /\ item' = NULL
    /\ status' = "Complete"
    /\ IF status = "Incomplete" THEN ItemNotify(item)
                                ELSE UNCHANGED <<waiting_list, notified>>
    /\ IF status = "FreeLater" THEN ItemFree(item) ELSE UNCHANGED items
    /\ UNCHANGED <<flags, current_item, links, queues, env>>

\* Mutation of Resynced: items left in the list are not notified again.
ResyncedNothing == notified

Resynced == IF waiting_list # <<>> THEN notified \cup {"Event"} ELSE notified

\* furi_event_loop_sync_flags
SyncFlags ==
    /\ Goto("sync", "restore")
    /\ notified' = Resynced
    /\ UNCHANGED <<flags, work, waiting_list, items, links, queues, env>>

\* Mutation of Restored: the flags that were not served are dropped.
RestoredNothing(served) == notified

\* furi_event_loop_restore_flags
Restored(served) == notified \cup (flags \ {served})

RestoreFlags ==
    /\ Goto("restore", "wait")
    /\ notified' = Restored("Event")
    /\ flags' = {}
    /\ UNCHANGED <<work, waiting_list, items, links, queues, env>>

\* furi_event_loop_process_timer_queue, which empties the queue, and
\* furi_event_loop_restore_flags.
ProcessTimerQueue ==
    /\ Goto("timer", "wait")
    /\ timer_queue' = 0
    /\ notified' = Restored("Timer")
    /\ flags' = {}
    /\ UNCHANGED <<work, waiting_list, items, links, pending_queue, subscribed, env>>

\* furi_event_loop_process_pending_callbacks: until the queue is empty.  No
\* flags are restored afterwards.
ProcessPending ==
    /\ pc = "pending"
    /\ IF pending_queue > 0 THEN pc' = "pending_cb" /\ UNCHANGED flags
                            ELSE pc' = "wait" /\ flags' = {}
    /\ UNCHANGED <<notified, work, waiting_list, items, links, queues, env>>

\* PendingQueue_pop_back
Popped == pending_queue - 1

\* The entry is removed after its callback has returned.
PendingCallbackReturn ==
    /\ Goto("pending_cb", "pending")
    /\ pending_queue' = Popped
    /\ UNCHANGED <<notified, flags, work, waiting_list, items, links>>
    /\ UNCHANGED <<timer_queue, subscribed, env>>

\* The ThreadFlag branch of furi_event_loop_run.
ProcessThreadFlag ==
    /\ pc = "thread_flag"
    /\ pc' = IF subscribed THEN "flags_cb" ELSE "wait"
    /\ flags' = {}
    /\ UNCHANGED <<notified, work, waiting_list, items, links, queues, env>>

\* The thread flags callback, the timer's or the tick's returns to the loop.
CallbackReturn ==
    /\ pc \in {"flags_cb", "tick_cb"}
    /\ pc' = "wait"
    /\ UNCHANGED <<notified, flags, work, waiting_list, items, links, queues, env>>

-----------------------------------------------------------------------------

Init ==
    /\ pc = "app"
    /\ notified = {}
    /\ flags = {}
    /\ item = NULL
    /\ status = "Complete"
    /\ current_item = NULL
    /\ tree = [o \in Object |-> NULL]
    /\ waiting_list = <<>>
    /\ pending_queue = 0
    /\ timer_queue = 0
    /\ subscribed = FALSE
    /\ object = [i \in Item |-> NULL]
    /\ event = [i \in Item |-> NoEvent]
    /\ owned = [i \in Item |-> FALSE]
    /\ item_in = [o \in Object |-> NULL]
    /\ item_out = [o \in Object |-> NULL]
    /\ level = [o \in Object |-> 0]
    /\ notifying = [t \in Thread |-> NULL]
    /\ direction = [t \in Thread |-> "in"]
    /\ halted = FALSE

OtherThread ==
    \/ \E t \in Thread, o \in Object : ThreadPut(t, o) \/ ThreadGet(t, o)
    \/ \E t \in Thread : ThreadNotify(t)
    \/ Stop
    \/ ThreadFlagSet

Application ==
    \/ \E o \in Object : \E e \in Events[o] :
            \/ \E i \in Item \ allocated : Subscribe(o, e, i)
            \/ SubscribeSecond(o, e)
    \/ \E o \in Object : Unsubscribe(o) \/ AppPut(o) \/ AppGet(o)
    \/ PendCallback \/ TimerRequest
    \/ SubscribeThreadFlags \/ UnsubscribeThreadFlags
    \/ Alloc \/ AllocValue \/ Free \/ Run

\* Everything the loop does by itself, the return of a callback included.
Loop ==
    \/ Wait
    \/ GetWaitingItem \/ ProcessEvent \/ ProcessOnce \/ EventCallbackReturn
    \/ Finish \/ SyncFlags \/ RestoreFlags
    \/ ProcessTimerQueue
    \/ ProcessPending \/ PendingCallbackReturn
    \/ ProcessThreadFlag
    \/ CallbackReturn

Next == OtherThread \/ Application \/ Loop \/ Timeout

Spec == Init /\ [][Next]_vars

\* The loop's thread is scheduled, callbacks return, and a thread that has
\* changed a level goes on to notify the link.  Nothing obliges anybody to put,
\* get, stop or call the API, and a wait need not time out.
Fairness ==
    /\ WF_vars(Loop)
    /\ \A t \in Thread : WF_vars(ThreadNotify(t))

FairSpec == Spec /\ Fairness

-----------------------------------------------------------------------------
\* Safety.

\* What another thread dereferences in furi_event_loop_link_notify, and the loop
\* in furi_event_loop_unsubscribe, is an allocated item of that object, for that
\* direction, owned by the loop, over any sequence of subscriptions and
\* unsubscriptions from inside and outside callbacks.
LinksLive ==
    \A o \in Object :
        /\ \A d \in {"in", "out"} :
              Link(o, d) # NULL => Link(o, d) = tree[o] /\ event[tree[o]].dir = d
        /\ tree[o] # NULL =>
              /\ tree[o] \in allocated
              /\ owned[tree[o]]
              /\ object[tree[o]] = o
              /\ Link(o, event[tree[o]].dir) = tree[o]

\* The waiting list holds each item at most once and only subscribed ones:
\* nothing freed is left in it, whatever was unsubscribed while it waited.
WaitingLive ==
    /\ IsInjective(waiting_list)
    /\ \A i \in ToSet(waiting_list) : i \in allocated /\ tree[object[i]] = i

\* The item being processed is allocated until furi_event_loop_process_waiting_list
\* is done with it, and an item that is neither subscribed nor being processed is
\* not allocated: unsubscribing inside a callback neither frees early nor leaks.
ItemsFreedOnce ==
    /\ pc \in {"process", "event_cb", "finish"} => item \in allocated
    /\ \A i \in allocated :
          \/ tree[object[i]] = i
          \/ i = item /\ ~owned[i] /\ (pc = "finish" => status = "FreeLater")

\* Nothing that the loop or another thread dereferences has been freed, and what
\* is unsubscribed is freed once.
ItemsLive == LinksLive /\ WaitingLive /\ ItemsFreedOnce

\* The item is due for another look at its level: in the list, on its way there,
\* or with a thread that has raised the level about to notify it.
Served(i) ==
    \/ IsWaiting(i)
    \/ i = item /\ pc \in {"process", "event_cb"}
    \/ i = item /\ pc = "finish" /\ status = "Incomplete"
    \/ \E t \in Thread : notifying[t] = object[i] /\ direction[t] = event[i].dir

\* A level-triggered subscription whose level is above zero is never forgotten,
\* although put and get notify after the fact and the loop looks at the level
\* without a lock before and after the callback.
LevelNotMissed ==
    \A o \in Object :
        tree[o] # NULL /\ ~event[tree[o]].edge /\ ItemLevel(tree[o]) > 0 /\ pc # "fault"
            => Served(tree[o])

\* Until the loop is stopped, an item in the waiting list has the Event flag
\* notified, or the loop is at a point from which it will notify it: no wakeup
\* is lost although the wait clears all flags and serves one.
EventNotLost ==
    waiting_list # <<>> /\ ~halted /\ pc # "fault" =>
        "Event" \in notified \/ pc \in EventPc

\* Until the loop is stopped, queued timer requests and deferred calls have
\* their flag notified, held in the local flags of the run, or in service.
RequestsNotLost ==
    ~halted /\ pc # "fault" =>
        /\ timer_queue > 0 => "Timer" \in notified \cup flags
        /\ pending_queue > 0 =>
              "Pending" \in notified \cup flags \/ pc \in {"pending", "pending_cb"}

\* The wait clears all flags and the loop serves one: the others are notified
\* again, so that no event, timer request or deferred call is left without one.
WakeupsKept == EventNotLost /\ RequestsNotLost

-----------------------------------------------------------------------------
\* Liveness.

\* The loop is inside furi_event_loop_run.
Running == pc \notin {"app", "none", "alloc", "fault"}

\* The loop does nothing any more but deferred calls, each of which, while it is
\* in the queue, has posted another.
Deferring == <>[](pc \in {"pending", "pending_cb"})

Due(o) ==
    /\ Running
    /\ tree[o] # NULL /\ ~event[tree[o]].edge /\ ItemLevel(tree[o]) > 0

\* event_loop.h, on level-triggered events: "the event will be generated
\* repeatedly until the level becomes zero".  The callback of a ready object
\* runs, unless the level drops, the object is unsubscribed, the loop stops, or
\* deferred calls go on posting others without end: other objects that stay ready,
\* deferred calls that come to an end and thread flags do not keep it from its
\* turn.  Until the loop is stopped for the first time: Stop
\* drops the other flags.
LevelServed ==
    \A o \in Object :
        Deferring \/ ((Due(o) /\ ~halted) ~> (~Due(o) \/ halted \/ current_item = tree[o]))

\* furi_event_loop_stop ends furi_event_loop_run, unless deferred calls go on
\* posting others without end: neither levels that stay high nor thread flags and
\* deferred calls that keep coming to other branches of the loop outrun it.
StopHonoured == Deferring \/ (("Stop" \in notified /\ Running) ~> ~Running)

\* event_loop.h, furi_event_loop_run: "Can be stopped with
\* `furi_event_loop_stop`".  It ends, whatever callbacks do before they return.
StopAlwaysHonoured == ("Stop" \in notified /\ Running) ~> ~Running

\* event_loop.h, furi_event_loop_subscribe_thread_flags: "The callback to call
\* when a flag has been set": it is called, unless the loop is stopped, the
\* subscription ends, or events keep coming in.
ThreadFlagsReported ==
    ("ThreadFlag" \in notified /\ subscribed /\ Running /\ ~halted)
        ~> (pc = "flags_cb" \/ ~subscribed \/ halted \/ waiting_list # <<>>)

\* event_loop.h, FuriEventLoopEventFlagOnce: "the event subscription will be
\* cancelled upon the first occurred event".  The event is delivered: a Once
\* subscription does not bring the loop down, nor does a thread flag that is set
\* while furi_event_loop_alloc clears what came before it.
NoFault == pc # "fault"

=============================================================================
