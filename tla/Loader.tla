------------------------------- MODULE Loader -------------------------------
(***************************************************************************)
(* The loader service (services/loader/loader.c, loader_queue.c,           *)
(* loader_menu.c and loader_applications.c) with the threads it owns, the  *)
(* scrubber that ends them, its callers and the desktop, which unloads its *)
(* animation before an application starts (services/desktop/desktop.c).    *)
(*                                                                         *)
(* It composes FuriThreadLife: the loader owns three threads.  The state   *)
(* callback of the application's thread is loader_thread_state_callback:   *)
(* it puts AppClosed into the loader's queue, from the scrubber's thread,  *)
(* and waits there while the queue is full.                                *)
(*                                                                         *)
(* Names are told apart by what loader_do_start_by_name makes of them:     *)
(* "app" is found and started, "Apps" is LOADER_APPLICATIONS_NAME, and     *)
(* "missing" is not found, or is a file that does not load.                *)
(***************************************************************************)
EXTENDS FuriThreadLife

CONSTANTS
    App,                \* loader->app.thread, of either kind
    Menu, Applications, \* the threads of LoaderMenu and LoaderApplications
    Desktop,            \* the thread of the desktop service
    Client,             \* other callers: shells, RPC sessions
    MAGIC,              \* LOADER_MAGIC_THREAD_VALUE
    LoaderQueueSize,    \* of loader->queue, 1 in the code
    LAUNCH_MAX,         \* LOADER_QUEUE_MAX_SIZE, 4 in the code
    Names,              \* bound: the names each caller passes to the loader
    MaxChoices,         \* bound: what users and applications decide in a run
    NULL

Window == {Menu, Applications}
Caller == Client \cup {Desktop, App} \cup Window
Name == {"app", "Apps", "missing"}

ASSUME ThreadsType == Thread = Window \cup {App} /\ Joined = Window /\ App \notin Window
ASSUME CallersType ==
    /\ MAGIC \notin Thread \cup {NULL} /\ NULL \notin Caller \cup Name
    /\ Desktop \notin Client \cup Thread /\ Client \cap Thread = {}
ASSUME SizesType == {LoaderQueueSize, LAUNCH_MAX} \subseteq Nat \ {0} /\ MaxChoices \in Nat
ASSUME NamesType == Names \in [Caller -> SUBSET Name]

VARIABLES
    queue,          \* loader->queue
    thread,         \* loader->app.thread: NULL, MAGIC or App
    launch_queue,   \* loader->launch_queue
    shown,          \* the Windows whose pointer in Loader is not NULL
    pc,             \* where the loader's thread is
    job,            \* the message it handles
    call,           \* where each caller is in a call of the loader's API
    msg,            \* the message of that call
    holds,          \* the clients whose loader_lock returned true
    window,         \* where the Windows' threads are
    subscribed,     \* Applications has subscribed to loader->pubsub
    stop_flag,      \* its thread flag APPLICATION_STOP_EVENT
    desk,           \* where the desktop's thread is
    events,         \* the custom events in its view dispatcher's queue
    semaphore,      \* desktop->animation_semaphore
    app_running,    \* desktop->app_running
    halted,         \* the furi_check that has failed
    choices         \* what users and applications have decided so far

service == <<thread, launch_queue, shown, pc, job>>
calls == <<call, msg, holds>>
windows == <<window, subscribed, stop_flag>>
desktop == <<desk, events, semaphore, app_running>>
vars == <<thread_vars, queue, service, calls, windows, desktop, halted, choices>>

\* The messages whose sender waits for api_lock_unlock.  IsLocked also stands
\* for the other requests that only read loader->app.
Sync == {"StartByName", "Lock", "IsLocked", "Enqueue", "Clear"}
MessageType == Sync \cup {"StartDetached", "ShowMenu", "WindowClosed", "AppClosed", "Unlock"}

Message(type, name, from) == [type |-> type, name |-> name, from |-> from]

\* "Autorun" and "Deferred" are starts that no message asks for.
Job == [type : MessageType \cup {"Autorun", "Deferred"}, name : Name \cup {NULL},
        from : Caller \cup {NULL}]

NoJob == Message("IsLocked", NULL, NULL)

TypeOK ==
    /\ life \in [Thread -> {"none", "ready", "running", "ended"}]
    /\ queue \in Seq(Job) /\ Len(queue) <= LoaderQueueSize
    /\ thread \in {NULL, MAGIC, App}
    /\ launch_queue \in Seq(Names[App]) /\ Len(launch_queue) <= LAUNCH_MAX
    /\ shown \subseteq Window
    /\ pc \in {"boot", "get", "before", "animation", "load", "start", "done", "failed",
               "dialog", "next", "join", "free"}
    /\ job \in Job
    /\ call \in [Caller -> {"idle", "put", "reply", "true", "false"}]
    /\ msg \in [Caller -> Job] /\ holds \subseteq Client
    /\ window \in [Window -> {"browse", "chosen", "start", "wait", "leave", "closed"}]
    /\ subscribed \in BOOLEAN /\ stop_flag \in BOOLEAN
    /\ desk \in {"alloc", "subscribed", "ask", "run"}
    /\ events \in Seq({"Before", "After"}) /\ Len(events) <= 2
    /\ semaphore \in 0..1 /\ app_running \in BOOLEAN
    /\ halted \in {"no", "animation", "unlock", "enqueue"}
    /\ choices \in 0..MaxChoices

Init ==
    /\ LifeInit
    /\ queue = <<>> /\ thread = NULL /\ launch_queue = <<>> /\ shown = {}
    /\ pc = "boot" /\ job = NoJob
    /\ call = [c \in Caller |-> "idle"] /\ msg = [c \in Caller |-> NoJob] /\ holds = {}
    /\ window = [w \in Window |-> "browse"] /\ subscribed = FALSE /\ stop_flag = FALSE
    /\ desk = "alloc" /\ events = <<>> /\ semaphore = 0 /\ app_running = FALSE
    /\ halted = "no" /\ choices = 0

-----------------------------------------------------------------------------
\* A step of the threads by themselves; one that a user or an application chose.

Running == halted = "no" /\ UNCHANGED choices
Choose == halted = "no" /\ choices < MaxChoices /\ choices' = choices + 1

-----------------------------------------------------------------------------
\* Calls of the loader's API.

Call(c, m) ==
    /\ call[c] = "idle"
    /\ call' = [call EXCEPT ![c] = "put"]
    /\ msg' = [msg EXCEPT ![c] = m]

Room == Len(queue) < LoaderQueueSize

\* furi_message_queue_put with FuriWaitForever; then api_lock_wait_unlock.
Put(c) ==
    /\ Running
    /\ call[c] = "put"
    /\ Room
    /\ queue' = Append(queue, msg[c])
    /\ IF msg[c].type \in Sync
       THEN call' = [call EXCEPT ![c] = "reply"] /\ UNCHANGED msg
       ELSE call' = [call EXCEPT ![c] = "idle"] /\ msg' = [msg EXCEPT ![c] = NoJob]
    /\ UNCHANGED <<thread_vars, service, holds, windows, desktop, halted>>

\* api_lock_unlock, after *value is written.
Reply(c, value) ==
    /\ call' = [call EXCEPT ![c] = IF value THEN "true" ELSE "false"]
    /\ UNCHANGED <<msg, holds>>

\* The call returns to c: what c does with the result is a step of its own.
Returned(c) ==
    /\ call[c] \in {"true", "false"}
    /\ call' = [call EXCEPT ![c] = "idle"]
    /\ msg' = [msg EXCEPT ![c] = NoJob]

-----------------------------------------------------------------------------
\* The loader's thread.

Take(type) ==
    /\ pc = "get"
    /\ queue # <<>>
    /\ Head(queue).type = type
    /\ queue' = Tail(queue)

From == Head(queue).from

GoTo(p, q) == pc = p /\ pc' = q

\* The message has been handled.
Handled(p) == GoTo(p, "get") /\ job' = NoJob

\* The service's record exists: an autorun application, then the loop.
Boot ==
    /\ Running
    /\ \/ GoTo("boot", "get") /\ UNCHANGED job
       \/ GoTo("boot", "before") /\ job' = Message("Autorun", "app", NULL)
    /\ UNCHANGED <<thread_vars, queue, thread, launch_queue, shown, calls, windows, desktop,
                   halted>>

DoStart ==
    /\ Running
    /\ \E type \in {"StartByName", "StartDetached"} : Take(type)
    /\ job' = Head(queue)
    /\ pc' = "before"
    /\ UNCHANGED <<thread_vars, thread, launch_queue, shown, calls, windows, desktop, halted>>

\* loader_do_start_by_name publishes BeforeLoad; desktop_loader_callback.
BeforeLoad ==
    /\ Running
    /\ IF desk = "alloc"
       THEN GoTo("before", "load") /\ UNCHANGED events
       ELSE GoTo("before", "animation") /\ events' = Append(events, "Before")
    /\ UNCHANGED <<thread_vars, queue, thread, launch_queue, shown, job, calls, windows, desk,
                   semaphore, app_running, halted>>

\* furi_semaphore_acquire in desktop_loader_callback succeeds.
AnimationUnloaded ==
    /\ Running
    /\ GoTo("animation", "load")
    /\ semaphore = 1
    /\ semaphore' = 0
    /\ UNCHANGED <<thread_vars, queue, thread, launch_queue, shown, job, calls, windows, desk,
                   events, app_running, halted>>

\* The desktop's thread waits for the loader, and the loader for it.
DesktopBlocked == call[Desktop] = "reply" \/ (call[Desktop] = "put" /\ ~Room)

\* The 3000 ms are over.  The desktop answers within them unless it is blocked.
AnimationTimeout ==
    /\ Running
    /\ pc = "animation"
    /\ semaphore = 0
    /\ DesktopBlocked
    /\ halted' = "animation"
    /\ UNCHANGED <<thread_vars, queue, service, calls, windows, desktop>>

LoadFails ==
    /\ Running
    /\ GoTo("load", "failed")
    /\ thread # NULL \/ job.name = "missing"
    /\ UNCHANGED <<thread_vars, queue, thread, launch_queue, shown, job, calls, windows,
                   desktop, halted>>

\* loader_start_internal_app and loader_start_external_app: the thread.
LoadApp ==
    /\ Running
    /\ GoTo("load", "start")
    /\ thread = NULL /\ job.name = "app"
    /\ Alloc(App)
    /\ thread' = App
    /\ UNCHANGED <<queue, launch_queue, shown, job, calls, windows, desktop, halted>>

\* loader_menu_alloc and loader_applications_alloc: the thread.
ShowWindow(w) ==
    /\ Alloc(w)
    /\ shown' = shown \cup {w}
    /\ pc' = "start"

\* loader_do_applications_show
LoadApplications ==
    /\ Running
    /\ pc = "load"
    /\ thread = NULL /\ job.name = "Apps"
    /\ IF Applications \in shown
       THEN pc' = "done" /\ UNCHANGED <<thread_vars, shown>>
       ELSE ShowWindow(Applications)
    /\ UNCHANGED <<queue, thread, launch_queue, job, calls, windows, desktop, halted>>

\* furi_thread_start.  A new task has no thread flags set.
StartThread ==
    /\ Running
    /\ \/ GoTo("start", "done") /\ job.name = "app" /\ Start(App) /\ UNCHANGED <<job, windows>>
       \/ GoTo("start", "done") /\ job.name = "Apps" /\ Start(Applications)
          /\ window' = [window EXCEPT ![Applications] = "browse"]
          /\ stop_flag' = FALSE
          /\ UNCHANGED <<job, subscribed>>
       \/ Handled("start") /\ job.type = "ShowMenu" /\ Start(Menu)
          /\ window' = [window EXCEPT ![Menu] = "browse"]
          /\ UNCHANGED <<subscribed, stop_flag>>
    /\ UNCHANGED <<queue, thread, launch_queue, shown, calls, desktop, halted>>

\* Mutation of EmitQueueEmpty: also while the loader is locked.
EmitQueueEmptyAlways ==
    /\ events' = IF desk = "alloc" THEN events ELSE Append(events, "After")
    /\ stop_flag' = (stop_flag \/ subscribed)

\* loader_do_emit_queue_empty_event, and what the subscribers make of it:
\* desktop_loader_callback and, in loader_applications.c, loader_pubsub_callback.
EmitQueueEmpty ==
    IF thread # NULL THEN UNCHANGED <<events, stop_flag>> ELSE
    /\ events' = IF desk = "alloc" THEN events ELSE Append(events, "After")
    /\ stop_flag' = (stop_flag \/ subscribed)

\* The start succeeded: LoaderStatusOk.
StartDone ==
    /\ Running
    /\ Handled("done")
    /\ IF job.type = "StartByName" THEN Reply(job.from, TRUE) ELSE UNCHANGED calls
    /\ UNCHANGED <<thread_vars, queue, thread, launch_queue, shown, windows, desktop, halted>>

\* It failed, and loader_show_gui_error, if it is called, shows nothing because
\* the loader is locked: or the caller shows the error, or nobody.
StartFailed ==
    /\ Running
    /\ Handled("failed")
    /\ \/ job.type = "StartByName" /\ Reply(job.from, FALSE)
       \/ job.type = "StartDetached" /\ thread # NULL /\ UNCHANGED calls
       \/ job.type = "Autorun" /\ UNCHANGED calls
    /\ IF job.type = "Autorun" THEN UNCHANGED <<events, stop_flag>> ELSE EmitQueueEmpty
    /\ UNCHANGED <<thread_vars, queue, thread, launch_queue, shown, window, subscribed, desk,
                   semaphore, app_running, halted>>

\* Mutation of ShowError: a deferred launch that fails is not followed by the next.
ShowErrorLast ==
    /\ Running
    /\ \/ job.type = "StartDetached" /\ thread = NULL /\ GoTo("failed", "dialog") /\ UNCHANGED job
       \/ job.type = "Deferred" /\ Handled("failed")
    /\ UNCHANGED <<thread_vars, queue, thread, launch_queue, shown, calls, windows, desktop,
                   halted>>

\* It failed, and the loader shows the error; a deferred launch says whether it
\* should (LoaderDeferredLaunchFlagGui), and goes on to the next.
ShowError ==
    /\ Running
    /\ \/ job.type \in {"StartDetached", "Deferred"} /\ thread = NULL /\ GoTo("failed", "dialog")
       \/ job.type = "Deferred" /\ GoTo("failed", "next")
    /\ UNCHANGED <<thread_vars, queue, thread, launch_queue, shown, job, calls, windows,
                   desktop, halted>>

\* The user dismisses the dialog.
Dismiss ==
    /\ Running
    /\ \/ job.type = "Deferred" /\ GoTo("dialog", "next") /\ UNCHANGED <<job, events, stop_flag>>
       \/ job.type # "Deferred" /\ Handled("dialog") /\ EmitQueueEmpty
    /\ UNCHANGED <<thread_vars, queue, thread, launch_queue, shown, calls, window, subscribed,
                   desk, semaphore, app_running, halted>>

\* loader_do_next_deferred_launch_if_available
NextDeferred ==
    /\ Running
    /\ IF launch_queue # <<>>
       THEN /\ GoTo("next", "before")
            /\ job' = Message("Deferred", Head(launch_queue), NULL)
            /\ launch_queue' = Tail(launch_queue)
            /\ UNCHANGED <<events, stop_flag>>
       ELSE Handled("next") /\ EmitQueueEmpty /\ UNCHANGED launch_queue
    /\ UNCHANGED <<thread_vars, queue, thread, shown, calls, window, subscribed, desk, semaphore,
                   app_running, halted>>

DoMenuShow ==
    /\ Running
    /\ Take("ShowMenu")
    /\ IF Menu \in shown
       THEN UNCHANGED <<thread_vars, shown, pc, job>>
       ELSE ShowWindow(Menu) /\ job' = Head(queue)
    /\ UNCHANGED <<thread, launch_queue, calls, windows, desktop, halted>>

\* loader_do_menu_closed, loader_do_applications_closed
DoWindowClosed ==
    /\ Running
    /\ Take("WindowClosed")
    /\ IF From \in shown THEN pc' = "join" /\ job' = Head(queue) ELSE UNCHANGED <<pc, job>>
    /\ UNCHANGED <<thread_vars, thread, launch_queue, shown, calls, windows, desktop, halted>>

\* loader_menu_free, loader_applications_free: furi_thread_join has returned.
FreeWindow ==
    /\ Running
    /\ Handled("join")
    /\ job.type = "WindowClosed"
    /\ Free(job.from)
    /\ shown' = shown \ {job.from}
    /\ UNCHANGED <<queue, thread, launch_queue, calls, windows, desktop, halted>>

\* loader_do_app_closed, from furi_thread_join, which finds the thread stopped,
\* to the ApplicationStopped event, which no subscriber acts on.
DoAppClosed ==
    /\ Running
    /\ Take("AppClosed")
    /\ pc' = "next"
    /\ Free(App)
    /\ thread' = NULL
    /\ UNCHANGED <<launch_queue, shown, job, calls, windows, desktop, halted>>

\* Mutation of DoLock: only another lock keeps the lock away.
DoLockOverApp ==
    /\ Running
    /\ Take("Lock")
    /\ Reply(From, thread # MAGIC)
    /\ thread' = MAGIC
    /\ UNCHANGED <<thread_vars, launch_queue, shown, pc, job, windows, desktop, halted>>

DoLock ==
    /\ Running
    /\ Take("Lock")
    /\ Reply(From, thread = NULL)
    /\ thread' = IF thread = NULL THEN MAGIC ELSE thread
    /\ UNCHANGED <<thread_vars, launch_queue, shown, pc, job, windows, desktop, halted>>

DoUnlock ==
    /\ Running
    /\ Take("Unlock")
    /\ IF thread = MAGIC
       THEN thread' = NULL /\ UNCHANGED halted
       ELSE halted' = "unlock" /\ UNCHANGED thread
    /\ UNCHANGED <<thread_vars, launch_queue, shown, pc, job, calls, windows, desktop>>

DoIsLocked ==
    /\ Running
    /\ Take("IsLocked")
    /\ Reply(From, thread # NULL)
    /\ UNCHANGED <<thread_vars, service, windows, desktop, halted>>

\* loader_queue_push, whose failure furi_check does not accept.
DoEnqueue ==
    /\ Running
    /\ Take("Enqueue")
    /\ IF Len(launch_queue) < LAUNCH_MAX
       THEN /\ launch_queue' = Append(launch_queue, Head(queue).name)
            /\ Reply(From, TRUE)
            /\ UNCHANGED halted
       ELSE halted' = "enqueue" /\ UNCHANGED <<launch_queue, calls>>
    /\ UNCHANGED <<thread_vars, thread, shown, pc, job, windows, desktop>>

DoClear ==
    /\ Running
    /\ Take("Clear")
    /\ launch_queue' = <<>>
    /\ Reply(From, TRUE)
    /\ UNCHANGED <<thread_vars, thread, shown, pc, job, windows, desktop, halted>>

-----------------------------------------------------------------------------
\* The callers.  A shell takes the lock for a command and gives it back.

ClientCalls(c) ==
    /\ Choose
    /\ \/ \E n \in Names[c] : Call(c, Message("StartByName", n, c))
       \/ c \notin holds /\ Call(c, Message("Lock", NULL, c))
       \/ Call(c, Message("IsLocked", NULL, c))
    /\ UNCHANGED <<thread_vars, queue, service, holds, windows, desktop, halted>>

ClientUnlocks(c) ==
    /\ Choose
    /\ c \in holds
    /\ Call(c, Message("Unlock", NULL, c))
    /\ holds' = holds \ {c}
    /\ UNCHANGED <<thread_vars, queue, service, windows, desktop, halted>>

ClientReturned(c) ==
    /\ Running
    /\ Returned(c)
    /\ holds' = IF msg[c].type = "Lock" /\ call[c] = "true" THEN holds \cup {c} ELSE holds
    /\ UNCHANGED <<thread_vars, queue, service, windows, desktop, halted>>

\* The application calls the loader, and returns.
AppCalls ==
    /\ Choose
    /\ life[App] = "running"
    /\ \/ \E n \in Names[App] : Call(App, Message("Enqueue", n, App))
       \/ Call(App, Message("Clear", NULL, App))
    /\ UNCHANGED <<thread_vars, queue, service, holds, windows, desktop, halted>>

AppReturned ==
    /\ Running
    /\ Returned(App)
    /\ UNCHANGED <<thread_vars, queue, service, holds, windows, desktop, halted>>

\* Mutation of AppReturns: loader_thread_state_callback acts on Stopping as well.
AppReturnsTells ==
    /\ Choose
    /\ call[App] = "idle"
    /\ End(App)
    /\ Room
    /\ queue' = Append(queue, Message("AppClosed", NULL, NULL))
    /\ UNCHANGED <<service, calls, windows, desktop, halted>>

AppReturns ==
    /\ Choose
    /\ call[App] = "idle"
    /\ End(App)
    /\ UNCHANGED <<queue, service, calls, windows, desktop, halted>>

WindowStep(w, from, to) ==
    /\ life[w] = "running"
    /\ call[w] = "idle"
    /\ window[w] = from
    /\ window' = [window EXCEPT ![w] = to]

\* loader_menu_start
MenuStarts ==
    /\ Choose
    /\ WindowStep(Menu, "browse", "start")
    /\ \E n \in Names[Menu] : Call(Menu, Message("StartByName", n, Menu))
    /\ UNCHANGED <<thread_vars, queue, service, holds, subscribed, stop_flag, desktop, halted>>

\* The call returns; an error is shown, which keeps nobody else waiting.
MenuStarted ==
    /\ Running
    /\ Returned(Menu)
    /\ window' = [window EXCEPT ![Menu] = "browse"]
    /\ UNCHANGED <<thread_vars, queue, service, holds, subscribed, stop_flag, desktop, halted>>

\* The loader holds the mutex of loader->pubsub while the desktop's callback waits.
PubSubFree == pc # "animation"

\* loader_applications_start_app: a file is chosen; furi_pubsub_subscribe.
ApplicationsSubscribe ==
    /\ Choose
    /\ PubSubFree
    /\ WindowStep(Applications, "browse", "chosen")
    /\ subscribed' = TRUE
    /\ UNCHANGED <<thread_vars, queue, service, calls, stop_flag, desktop, halted>>

ApplicationsStart ==
    /\ Running
    /\ WindowStep(Applications, "chosen", "start")
    /\ \E n \in Names[Applications] :
          Call(Applications, Message("StartByName", n, Applications))
    /\ UNCHANGED <<thread_vars, queue, service, holds, subscribed, stop_flag, desktop, halted>>

ApplicationsStarted ==
    /\ Running
    /\ Returned(Applications)
    /\ window' = [window EXCEPT ![Applications] =
                     IF call[Applications] = "true" THEN "wait" ELSE "leave"]
    /\ UNCHANGED <<thread_vars, queue, service, holds, subscribed, stop_flag, desktop, halted>>

\* furi_thread_flags_wait
ApplicationsWait ==
    /\ Running
    /\ WindowStep(Applications, "wait", "leave")
    /\ stop_flag
    /\ stop_flag' = FALSE
    /\ UNCHANGED <<thread_vars, queue, service, calls, subscribed, desktop, halted>>

ApplicationsUnsubscribe ==
    /\ Running
    /\ PubSubFree
    /\ WindowStep(Applications, "leave", "browse")
    /\ subscribed' = FALSE
    /\ UNCHANGED <<thread_vars, queue, service, calls, stop_flag, desktop, halted>>

\* The user leaves the window: closed_cb.
WindowCloses(w) ==
    /\ Choose
    /\ WindowStep(w, "browse", "closed")
    /\ Call(w, Message("WindowClosed", NULL, w))
    /\ UNCHANGED <<thread_vars, queue, service, holds, subscribed, stop_flag, desktop, halted>>

WindowReturns(w) ==
    /\ Running
    /\ window[w] = "closed" /\ call[w] = "idle"
    /\ End(w)
    /\ UNCHANGED <<queue, service, calls, windows, desktop, halted>>

-----------------------------------------------------------------------------
\* The desktop's thread.

\* desktop_alloc subscribes,
DesktopSubscribe ==
    /\ Running
    /\ PubSubFree
    /\ desk = "alloc"
    /\ desk' = "subscribed"
    /\ UNCHANGED <<thread_vars, queue, service, calls, windows, events, semaphore, app_running,
                   halted>>

\* and then calls loader_is_locked.
DesktopAsks ==
    /\ Running
    /\ desk = "subscribed"
    /\ Call(Desktop, Message("IsLocked", NULL, Desktop))
    /\ desk' = "ask"
    /\ UNCHANGED <<thread_vars, queue, service, holds, windows, events, semaphore, app_running,
                   halted>>

DesktopReturned ==
    /\ Running
    /\ Returned(Desktop)
    /\ app_running' = (call[Desktop] = "true")
    /\ desk' = "run"
    /\ UNCHANGED <<thread_vars, queue, service, holds, windows, events, semaphore, halted>>

\* Mutation of DesktopEvent: the semaphore is released after the application.
DesktopEventLate ==
    /\ Running
    /\ desk = "run" /\ call[Desktop] = "idle"
    /\ events # <<>>
    /\ events' = Tail(events)
    /\ app_running' = (Head(events) = "Before")
    /\ semaphore' = IF Head(events) = "After" THEN 1 ELSE semaphore
    /\ UNCHANGED <<thread_vars, queue, service, calls, windows, desk, halted>>

\* desktop_custom_event_callback; furi_semaphore_release fails on a full one.
DesktopEvent ==
    /\ Running
    /\ desk = "run" /\ call[Desktop] = "idle"
    /\ events # <<>>
    /\ events' = Tail(events)
    /\ app_running' = (Head(events) = "Before")
    /\ semaphore' = IF Head(events) = "Before" THEN 1 ELSE semaphore
    /\ UNCHANGED <<thread_vars, queue, service, calls, windows, desk, halted>>

\* desktop_scene_main_on_event: favourites, the browser, the menu.
DesktopCalls ==
    /\ Choose
    /\ desk = "run"
    /\ \/ \E n \in Names[Desktop] : Call(Desktop, Message("StartDetached", n, Desktop))
       \/ Call(Desktop, Message("ShowMenu", NULL, Desktop))
    /\ UNCHANGED <<thread_vars, queue, service, holds, windows, desktop, halted>>

-----------------------------------------------------------------------------
\* The scrubber.

ScrubStop ==
    /\ Running
    /\ Stop
    /\ UNCHANGED <<queue, service, calls, windows, desktop, halted>>

\* loader_thread_state_callback, in the scrubber's thread, for the application;
\* no callback for a window.
ScrubReport ==
    /\ Running
    /\ Report
    /\ IF Head(ended) = App
       THEN Room /\ queue' = Append(queue, Message("AppClosed", NULL, NULL))
       ELSE UNCHANGED queue
    /\ UNCHANGED <<service, calls, windows, desktop, halted>>

Service ==
    \/ Boot \/ DoStart \/ BeforeLoad \/ AnimationUnloaded \/ LoadFails \/ LoadApp
    \/ LoadApplications \/ StartThread \/ StartDone \/ StartFailed \/ ShowError \/ Dismiss
    \/ NextDeferred \/ DoMenuShow \/ DoWindowClosed \/ FreeWindow \/ DoAppClosed
    \/ DoLock \/ DoUnlock \/ DoIsLocked \/ DoEnqueue \/ DoClear

DesktopRuns == DesktopSubscribe \/ DesktopAsks \/ DesktopReturned \/ DesktopEvent

ApplicationsRuns ==
    \/ ApplicationsStart \/ ApplicationsStarted \/ ApplicationsWait \/ ApplicationsUnsubscribe

\* What users and applications decide.
Choice ==
    \/ \E c \in Client : ClientCalls(c) \/ ClientUnlocks(c)
    \/ AppCalls \/ AppReturns \/ MenuStarts \/ ApplicationsSubscribe
    \/ \E w \in Window : WindowCloses(w)
    \/ DesktopCalls

\* What the threads do by themselves.
System ==
    \/ Service \/ AnimationTimeout \/ ScrubStop \/ ScrubReport
    \/ DesktopRuns \/ ApplicationsRuns \/ MenuStarted \/ AppReturned
    \/ \E c \in Client : ClientReturned(c)
    \/ \E w \in Window : WindowReturns(w)
    \/ \E c \in Caller : Put(c)

Next == System \/ Choice

Spec == Init /\ [][Next]_vars

\* The processor does not idle while a thread can run, and a timeout expires.
\* That is all that is needed with finitely many choices: between two of them
\* only finitely many steps can be taken.  An error that is shown is dismissed.
Fairness == WF_vars(System)

FairSpec == Spec /\ Fairness

-----------------------------------------------------------------------------

\* loader_do_app_closed joins, frees and forgets loader->app.thread without
\* looking at the message: whenever AppClosed is in the queue, that is the
\* application whose thread the scrubber has stopped, and its memory is in use
\* for no one else.
AppClosedGenuine ==
    \A i \in DOMAIN queue : queue[i].type = "AppClosed" =>
        thread = App /\ life[App] = "ready" /\ App \notin ToSet(ended)

\* The clients between a loader_lock that returned or will return true and the
\* end of their loader_unlock.
LockOwners ==
    {c \in Client : \/ c \in holds
                    \/ msg[c].type = "Lock" /\ call[c] = "true"
                    \/ msg[c].type = "Unlock"
                    \/ \E i \in DOMAIN queue : queue[i].type = "Unlock" /\ queue[i].from = c}

\* The one word app.thread is both the lock and the application: an application
\* has a thread exactly while it is there, and it is the magic value exactly
\* while one client has the lock.  So furi_check in loader_do_unlock holds, and
\* a shell that got the lock runs beside no application.
LockExact ==
    /\ thread = App <=> life[App] # "none"
    /\ thread = MAGIC <=> LockOwners # {}
    /\ \A c, d \in LockOwners : c = d
    /\ halted # "unlock"

\* While an application runs, the desktop knows: it does not lock itself or
\* arm the auto-lock timer under the application (desktop->app_running), however
\* its start raced the desktop's, a second start, a lock or a chain of launches.
DesktopKnows == thread = App /\ desk = "run" => app_running

\* desktop_loader_callback: furi_check(furi_semaphore_acquire(
\* desktop->animation_semaphore, 3000) == FuriStatusOk).
AnimationInTime == halted # "animation"

\* The loader joins a window while the scrubber, on its way to that window,
\* waits for room in the loader's queue.
Stuck == pc = "join" /\ released /\ Head(ended) = App /\ ~Room

Waiting == {c \in Caller : call[c] \in {"put", "reply"}}

\* Every call of the loader's API returns, unless the loader and the scrubber
\* wait for each other, or a furi_check has failed.
CallsReturn == Waiting # {} ~> Waiting = {} \/ Stuck \/ halted # "no"

\* The Applications browser waits only while there is an application to wait
\* for: NoMoreAppsInQueue is published after the last of a chain, and reaches it.
BrowserComesBack ==
    window[Applications] = "wait" ~>
        window[Applications] # "wait" \/ life[App] = "running" \/ Stuck \/ halted # "no"
=============================================================================
