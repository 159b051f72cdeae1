-------------------------- MODULE FuriEventLoopTimer --------------------------
(***************************************************************************)
(* The timers and the tick of the event loop: event_loop_timer.c and       *)
(* event_loop_tick.c, with the part of furi_event_loop_run that decides    *)
(* between them, the requests and everything else.                         *)
(*                                                                         *)
(* furi_event_loop_timer_start, _restart, _stop and _free only queue a     *)
(* request; the loop carries it out later, and between the two callbacks   *)
(* run, time passes and further requests replace the first.  FuriEventLoop *)
(* models the other flags in full; here everything else the loop serves is *)
(* the flag Event, whose callback is application code like the timers'.    *)
(*                                                                         *)
(* now is the 32-bit tick count: it counts modulo Wrap.  The age of a      *)
(* timer, unless its interval is 0, and of the tick are history variables  *)
(* that do not wrap.                                                       *)
(***************************************************************************)
EXTENDS Integers, SequencesExt

CONSTANTS
    Timer,          \* memory for FuriEventLoopTimer
    Periodic,       \* the timers that are allocated as periodic
    Interval,       \* intervals passed to furi_event_loop_timer_start
    TickInterval,   \* intervals passed to furi_event_loop_tick_set
    Wrap,           \* the tick count's modulus, 2^32 in the code
    MaxAge,         \* bound: ticks a timer or the tick is left unattended
    Sources,        \* bound: what else is notified, out of Event and Stop
    NULL

ASSUME TimersType == Periodic \subseteq Timer /\ NULL \notin Timer
ASSUME IntervalType == Interval \subseteq Nat /\ TickInterval \subseteq Nat
ASSUME SourcesType == Sources \subseteq {"Event", "Stop"}
\* Nothing is left unattended for a whole turn of the tick count, 49 days.
ASSUME WrapLarge == /\ Wrap \in Nat /\ MaxAge \in 1..Wrap - 1
                    /\ \A n \in Interval \cup TickInterval : n <= MaxAge

VARIABLES
    now,            \* xTaskGetTickCount()
    pc,             \* where the loop's thread is
    sleep,          \* what is left of ticks_to_sleep
    notified,       \* the task's notification value
    flags,          \* local of furi_event_loop_run
    timer_list,     \* FuriEventLoop.timer_list
    timer_queue,    \* FuriEventLoop.timer_queue
    alive,          \* the timers that are allocated
    interval, start_time, next_interval, request, active,   \* FuriEventLoopTimer
    tick_interval,  \* FuriEventLoop.tick.interval, 0 without a callback
    prev_time,      \* FuriEventLoop.tick.prev_time
    current,        \* the timer whose callback runs
    age,            \* history: ticks since each timer's period began
    tick_age,       \* history: ticks since the tick's period began
    halted          \* history: a run of this instance has been stopped

lists == <<timer_list, timer_queue>>
fields == <<alive, interval, start_time, next_interval, request, active>>
tick == <<tick_interval, prev_time, tick_age>>
vars == <<now, pc, sleep, notified, flags, lists, fields, tick, current, age, halted>>

Request == {"None", "Start", "Stop", "Free"}

\* The thread executes application code.
AppPc == {"app", "event_cb", "timer_cb", "tick_cb"}

\* FuriWaitForever
Forever == Wrap

Ticks == 0..Wrap - 1

TypeOK ==
    /\ now \in Ticks
    /\ pc \in AppPc \cup {"top", "wait", "queue", "free"}
    /\ sleep \in 0..Forever
    /\ notified \subseteq {"Stop", "Event", "Timer"}
    /\ flags \subseteq {"Event", "Timer"}
    /\ timer_list \in Seq(Timer) /\ timer_queue \in Seq(Timer)
    /\ alive \subseteq Timer
    /\ interval \in [Timer -> Ticks] /\ next_interval \in [Timer -> Ticks]
    /\ start_time \in [Timer -> Ticks]
    /\ request \in [Timer -> Request]
    /\ active \in [Timer -> BOOLEAN]
    /\ tick_interval \in Ticks /\ prev_time \in Ticks
    /\ current \in Timer \cup {NULL}
    /\ age \in [Timer -> 0..MaxAge] /\ tick_age \in 0..MaxAge
    /\ halted \in BOOLEAN

-----------------------------------------------------------------------------
\* Time.

\* uint32_t subtraction of two tick counts.
Since(t0) == (now - t0 + Wrap) % Wrap

\* furi_event_loop_timer_get_elapsed_time
Elapsed(t) == Since(start_time[t])

Left(elapsed, i) == IF elapsed < i THEN i - elapsed ELSE 0

\* furi_event_loop_timer_get_remaining_time_private, and the public function.
Remaining(t) == Left(Elapsed(t), interval[t])

\* furi_event_loop_timer_is_expired
Expired(t) == Elapsed(t) >= interval[t]

\* What UDIV of the Cortex-M4 yields: nothing enables the divide-by-zero trap.
Quotient(a, b) == IF b = 0 THEN 0 ELSE a \div b

\* Mutation of ListPosition: strictly after, so before timers that tie.
ListPosition_Before(list, left, i, s) ==
    Max({0} \cup {k \in DOMAIN list : Left(Since(s), i) > left[list[k]]})

\* Mutation of ListPosition: by interval.
ListPosition_Interval(list, left, i, s) ==
    Max({0} \cup {k \in DOMAIN list : i >= interval[list[k]]})

\* The loop of furi_event_loop_schedule_timer, from the last timer backwards: how
\* many timers stay in front of one with interval i that starts at s.
ListPosition(list, left, i, s) ==
    Max({0} \cup {k \in DOMAIN list : Left(Since(s), i) >= left[list[k]]})

\* furi_event_loop_schedule_timer
Scheduled(list, t, i, s) ==
    InsertAt(list, ListPosition(list, [u \in Timer |-> Remaining(u)], i, s) + 1, t)

InApp == pc \in AppPc

-----------------------------------------------------------------------------
\* The environment.

\* A system tick.  A task that waits sleeps a little less.
TimePasses ==
    /\ \A t \in Timer : active[t] => age[t] < MaxAge
    /\ tick_interval > 0 => tick_age < MaxAge
    /\ now' = (now + 1) % Wrap
    /\ age' = [t \in Timer |-> IF active[t] /\ interval[t] > 0 THEN age[t] + 1 ELSE age[t]]
    /\ tick_age' = IF tick_interval > 0 THEN tick_age + 1 ELSE tick_age
    /\ sleep' = IF pc = "wait" /\ sleep \in 1..Forever - 1 THEN sleep - 1 ELSE sleep
    /\ UNCHANGED <<pc, notified, flags, lists, fields, tick_interval, prev_time>>
    /\ UNCHANGED <<current, halted>>

\* An event or a deferred call for this loop, or furi_event_loop_stop.
Notify(flag) ==
    /\ flag \notin notified
    /\ notified' = notified \cup {flag}
    /\ UNCHANGED <<now, pc, sleep, flags, lists, fields, tick, current, age, halted>>

-----------------------------------------------------------------------------
\* The API, called by application code.

\* furi_event_loop_timer_alloc
TimerAlloc(t) ==
    /\ InApp
    /\ t \notin alive
    /\ alive' = alive \cup {t}
    /\ UNCHANGED <<now, pc, sleep, notified, flags, lists, tick, current, age, halted>>
    /\ UNCHANGED <<interval, start_time, next_interval, request, active>>

\* TimerList_unlink, TimerQueue_unlink
Unlinked(list, t) == RemoveAt(list, CHOOSE k \in DOMAIN list : list[k] = t)

\* Mutation of EnqueueRequest: queued again without TimerQueue_unlink.
EnqueueRequest_NoUnlink(t, r) ==
    /\ request[t] # "Free"
    /\ timer_queue' = Append(timer_queue, t)
    /\ request' = [request EXCEPT ![t] = r]
    /\ notified' = notified \cup {"Timer"}

\* furi_event_loop_timer_enqueue_request: the newest request replaces the one
\* before it and goes to the back of the queue.
EnqueueRequest(t, r) ==
    /\ request[t] # "Free"
    /\ timer_queue' = Append(IF request[t] = "None" THEN timer_queue
                                                   ELSE Unlinked(timer_queue, t), t)
    /\ request' = [request EXCEPT ![t] = r]
    /\ notified' = notified \cup {"Timer"}

\* What the four requests have in common.
Enqueue(t, r) ==
    /\ InApp
    /\ t \in alive
    /\ EnqueueRequest(t, r)
    /\ UNCHANGED <<now, pc, sleep, flags, timer_list, alive, interval, start_time, active>>
    /\ UNCHANGED <<tick, current, age, halted>>

\* furi_event_loop_timer_start
TimerStart(t, i) ==
    /\ Enqueue(t, "Start")
    /\ next_interval' = [next_interval EXCEPT ![t] = i]

\* furi_event_loop_timer_restart takes the interval that is in force, not the one
\* a queued start has asked for.
TimerRestart(t) ==
    /\ Enqueue(t, "Start")
    /\ next_interval' = [next_interval EXCEPT ![t] = interval[t]]

\* furi_event_loop_timer_stop
TimerStop(t) == Enqueue(t, "Stop") /\ UNCHANGED next_interval

\* furi_event_loop_timer_free
TimerFree(t) == Enqueue(t, "Free") /\ UNCHANGED next_interval

\* furi_event_loop_tick_set; interval 0 stands for a NULL callback.
TickSet(i) ==
    /\ InApp
    /\ tick_interval' = i
    /\ prev_time' = now
    /\ tick_age' = 0
    /\ UNCHANGED <<now, pc, sleep, notified, flags, lists, fields, current, age, halted>>

-----------------------------------------------------------------------------
\* furi_event_loop_run

\* Up to the loop: furi_event_loop_init_tick.
Run ==
    /\ pc = "app"
    /\ pc' = "top"
    /\ IF tick_interval > 0 THEN prev_time' = now /\ tick_age' = 0
                            ELSE UNCHANGED <<prev_time, tick_age>>
    /\ UNCHANGED <<now, sleep, notified, flags, lists, fields, tick_interval, current, age>>
    /\ UNCHANGED halted

\* furi_event_loop_get_timer_wait_time
TimerWaitTime == IF timer_list = <<>> THEN Forever ELSE Remaining(Head(timer_list))

\* furi_event_loop_get_tick_wait_time
TickWaitTime == IF tick_interval = 0 THEN Forever ELSE Left(Since(prev_time), tick_interval)

\* The top of the loop, up to the wait.
Sleep ==
    /\ pc = "top"
    /\ pc' = "wait"
    /\ sleep' = Min({TimerWaitTime, TickWaitTime})
    /\ UNCHANGED <<now, notified, flags, lists, fields, tick, current, age, halted>>

\* Mutation of Branch: the flags that are not served are not restored.
Branch_Drop(f) ==
    IF "Event" \in f THEN pc' = "event_cb" /\ flags' = {}
                     ELSE pc' = "queue" /\ flags' = {}

\* Which flag is served first, and which are left to furi_event_loop_restore_flags.
Branch(f) ==
    IF "Event" \in f THEN pc' = "event_cb" /\ flags' = f \ {"Event"}
                     ELSE pc' = "queue" /\ flags' = f \ {"Timer"}

\* xTaskNotifyWaitIndexed returns pdTRUE.
Wake ==
    /\ pc = "wait"
    /\ notified # {}
    /\ notified' = {}
    /\ sleep' = 0
    /\ IF "Stop" \in notified
       THEN pc' = "app" /\ halted' = TRUE /\ flags' = {}
       ELSE Branch(notified) /\ UNCHANGED halted
    /\ UNCHANGED <<now, lists, fields, tick, current, age>>

\* Mutation of Detached: the timer stays in the list.
Detached_Nothing(t) == timer_list

\* A request is carried out on a timer that is in no list.
Detached(t) == IF active[t] THEN Unlinked(timer_list, t) ELSE timer_list

\* One round of furi_event_loop_process_timer_queue.
ProcessRequest ==
    /\ pc \in {"queue", "free"}
    /\ timer_queue # <<>>
    /\ timer_queue' = Tail(timer_queue)
    /\ LET t == Head(timer_queue)
           i == next_interval[t]
       IN  \/ /\ request[t] = "Start"
              /\ active' = [active EXCEPT ![t] = TRUE]
              /\ interval' = [interval EXCEPT ![t] = i]
              /\ start_time' = [start_time EXCEPT ![t] = now]
              /\ request' = [request EXCEPT ![t] = "None"]
              /\ timer_list' = Scheduled(Detached(t), t, i, now)
              /\ age' = [age EXCEPT ![t] = 0]
              /\ UNCHANGED <<alive, next_interval>>
           \/ /\ request[t] = "Stop"
              /\ active' = [active EXCEPT ![t] = FALSE]
              /\ request' = [request EXCEPT ![t] = "None"]
              /\ timer_list' = Detached(t)
              /\ age' = [age EXCEPT ![t] = 0]
              /\ UNCHANGED <<alive, interval, start_time, next_interval>>
           \/ /\ request[t] = "Free"
              /\ alive' = alive \ {t}
              /\ timer_list' = Detached(t)
              /\ active' = [active EXCEPT ![t] = FALSE]
              /\ interval' = [interval EXCEPT ![t] = 0]
              /\ start_time' = [start_time EXCEPT ![t] = 0]
              /\ next_interval' = [next_interval EXCEPT ![t] = 0]
              /\ request' = [request EXCEPT ![t] = "None"]
              /\ age' = [age EXCEPT ![t] = 0]
    /\ UNCHANGED <<now, pc, sleep, notified, flags, tick, current, halted>>

\* The queue is empty: furi_event_loop_restore_flags.
QueueDone ==
    /\ pc = "queue"
    /\ timer_queue = <<>>
    /\ pc' = "top"
    /\ notified' = notified \cup flags
    /\ flags' = {}
    /\ UNCHANGED <<now, sleep, lists, fields, tick, current, age, halted>>

\* The callback of an event returns, and furi_event_loop_restore_flags.
EventReturn ==
    /\ pc = "event_cb"
    /\ pc' = "top"
    /\ notified' = notified \cup flags
    /\ flags' = {}
    /\ UNCHANGED <<now, sleep, lists, fields, tick, current, age, halted>>

\* The front of the list is the only timer that is looked at.
FrontExpired == timer_list # <<>> /\ Expired(Head(timer_list))

TimedOut == pc = "wait" /\ notified = {} /\ sleep = 0

\* Mutation of NextPeriod: the next period begins when the callback runs.
NextPeriod_Now(t) == now

\* start_time of a periodic timer's next period: the periods that were missed
\* are skipped.
NextPeriod(t) ==
    (start_time[t] + interval[t] * Quotient(Elapsed(t), interval[t])) % Wrap

\* What happens to the timer at the front before its callback is called.
Rearm(t) ==
    IF t \in Periodic
    THEN /\ start_time' = [start_time EXCEPT ![t] = NextPeriod(t)]
         /\ timer_list' = Scheduled(Tail(timer_list), t, interval[t], NextPeriod(t))
         /\ age' = [age EXCEPT ![t] = IF interval[t] = 0 THEN 0 ELSE @ % interval[t]]
         /\ UNCHANGED active
    ELSE /\ timer_list' = Tail(timer_list)
         /\ active' = [active EXCEPT ![t] = FALSE]
         /\ age' = [age EXCEPT ![t] = 0]
         /\ UNCHANGED start_time

\* The wait timed out and furi_event_loop_process_expired_timers finds one.
Fire ==
    /\ TimedOut
    /\ FrontExpired
    /\ Rearm(Head(timer_list))
    /\ current' = Head(timer_list)
    /\ pc' = "timer_cb"
    /\ UNCHANGED <<now, sleep, notified, flags, timer_queue, alive, interval, next_interval>>
    /\ UNCHANGED <<request, tick, halted>>

\* tick.prev_time after a tick: one interval further, however late it comes, so
\* that the ticks it missed are due at once.
TickPeriod == (prev_time + tick_interval) % Wrap

\* It finds none: furi_event_loop_process_tick.
ProcessTick ==
    /\ TimedOut
    /\ ~FrontExpired
    /\ IF tick_interval > 0 /\ Since(prev_time) >= tick_interval
       THEN pc' = "tick_cb" /\ prev_time' = TickPeriod /\ tick_age' = tick_age - tick_interval
       ELSE pc' = "top" /\ UNCHANGED <<prev_time, tick_age>>
    /\ UNCHANGED <<now, sleep, notified, flags, lists, fields, tick_interval, current, age>>
    /\ UNCHANGED halted

\* The callback of the timer or of the tick returns.
CallbackReturn ==
    /\ pc \in {"timer_cb", "tick_cb"}
    /\ pc' = "top"
    /\ current' = NULL
    /\ UNCHANGED <<now, sleep, notified, flags, lists, fields, tick, age, halted>>

\* furi_event_loop_free: the application has freed every timer.
LoopFree ==
    /\ pc = "app"
    /\ alive # {}
    /\ \A t \in alive : request[t] = "Free"
    /\ pc' = "free"
    /\ UNCHANGED <<now, sleep, notified, flags, lists, fields, tick, current, age, halted>>

\* The rest of furi_event_loop_free, and the next furi_event_loop_alloc.
LoopFreed ==
    /\ pc = "free"
    /\ timer_queue = <<>>
    /\ pc' = "app"
    /\ notified' = {}
    /\ tick_interval' = 0
    /\ prev_time' = 0
    /\ tick_age' = 0
    /\ halted' = FALSE
    /\ UNCHANGED <<now, sleep, flags, lists, fields, current, age>>

-----------------------------------------------------------------------------

Init ==
    /\ now = 0
    /\ pc = "app"
    /\ sleep = 0
    /\ notified = {} /\ flags = {}
    /\ timer_list = <<>> /\ timer_queue = <<>>
    /\ alive = {}
    /\ interval = [t \in Timer |-> 0]
    /\ start_time = [t \in Timer |-> 0]
    /\ next_interval = [t \in Timer |-> 0]
    /\ request = [t \in Timer |-> "None"]
    /\ active = [t \in Timer |-> FALSE]
    /\ tick_interval = 0 /\ prev_time = 0
    /\ current = NULL
    /\ age = [t \in Timer |-> 0] /\ tick_age = 0
    /\ halted = FALSE

Application ==
    \/ \E t \in Timer :
          \/ TimerAlloc(t)
          \/ \E i \in Interval : TimerStart(t, i)
          \/ TimerRestart(t)
          \/ TimerStop(t)
          \/ TimerFree(t)
    \/ \E i \in TickInterval : TickSet(i)
    \/ Run
    \/ LoopFree

Loop ==
    \/ Sleep \/ Wake
    \/ ProcessRequest \/ QueueDone
    \/ EventReturn
    \/ Fire \/ ProcessTick
    \/ CallbackReturn
    \/ LoopFreed

Environment ==
    \/ TimePasses
    \/ \E f \in Sources : Notify(f)

Next == Application \/ Loop \/ Environment

Spec == Init /\ [][Next]_vars

\* Time passes, callbacks return and the loop's thread is scheduled.
FairSpec == Spec /\ WF_vars(Loop) /\ WF_vars(TimePasses)

-----------------------------------------------------------------------------
\* Safety.

\* The intrusive lists hold exactly the timers whose fields say so, each once:
\* TimerList_unlink and TimerQueue_unlink are never called on a timer that is in
\* no list, and nothing freed is left in one, over any sequence of start,
\* restart, stop and free from inside and outside the timers' own callbacks.
ListsExact ==
    /\ IsInjective(timer_list) /\ ToSet(timer_list) = {t \in alive : active[t]}
    /\ IsInjective(timer_queue) /\ ToSet(timer_queue) = {t \in alive : request[t] # "None"}

\* event_loop_timer.c: "TimerList_front() points to the first timer to expire".
\* It does at any later time, too: the list stays sorted by remaining time while
\* timers expire, are left overdue and the tick count wraps.
FrontFirst ==
    \A j \in 1..Len(timer_list) - 1 :
        Remaining(timer_list[j]) <= Remaining(timer_list[j + 1])

\* The lists agree with the fields, and the front is the timer to wait for.
TimerListsExact == ListsExact /\ FrontFirst

\* The 32-bit arithmetic of periods agrees with a clock that does not wrap, over
\* any sequence of starts, late callbacks and turns of the tick count: the period
\* of a periodic timer, and that of the tick, begins a whole number of intervals
\* after the first one.  They differ in what they missed: the timer's period is
\* the latest one, and the tick's the one after the last that was called.
NoDrift ==
    /\ \A t \in ToSet(timer_list) : interval[t] > 0 => Elapsed(t) = age[t]
    /\ tick_interval > 0 => Since(prev_time) = tick_age

\* No callback runs while a request for its timer is queued: after
\* furi_event_loop_timer_stop or _free has returned, the timer stays silent,
\* although it may be overdue.  Until the loop is stopped for the first time: Stop
\* drops the Timer flag.
StopSilences ==
    [][~halted /\ current = NULL /\ current' # NULL => request[current'] = "None"]_vars

\* furi_event_loop_free: the furi_check of an empty timer list holds when the
\* application has freed its timers, with the loop running or stopped.
FreeFindsNoTimer == pc = "free" /\ timer_queue = <<>> => timer_list = <<>> /\ alive = {}

\* event_loop.h, furi_event_loop_tick_set: "ticks will be skipped if the event loop
\* is busy": when a tick is called, no other is due.
TicksSkipped ==
    [][pc # "tick_cb" /\ pc' = "tick_cb" => Since(prev_time)' < tick_interval]_vars

-----------------------------------------------------------------------------
\* Liveness.

\* The loop runs and nothing is asked of the timer but to expire.
Awaited(t) ==
    t \in ToSet(timer_list) /\ request[t] = "None" /\ pc \notin {"app", "free"} /\ ~halted

\* A periodic timer of interval 0 is always expired, and the tick is served only
\* when no timer is; the clock of this model then stops at its bound.
TickStarved == tick_interval > 0 /\ tick_age = MaxAge

\* Every timer that is started fires, unless it is stopped, freed or restarted,
\* the loop is stopped, notifications never cease (the loop serves timers only when
\* a wait ends without one), or the tick is starved.
TimerFires ==
    \/ []<>(notified # {})
    \/ <>[]TickStarved
    \/ \A t \in Timer : Awaited(t) ~> (~Awaited(t) \/ current = t)

=============================================================================
