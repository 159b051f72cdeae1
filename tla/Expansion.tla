----------------------------- MODULE Expansion -----------------------------
(***************************************************************************)
(* The expansion service (services/expansion/expansion.c), its worker      *)
(* (expansion_worker.c, expansion_protocol.h) and the thread that shares   *)
(* out the serial ports (targets/f7/furi_hal/furi_hal_serial_control.c).   *)
(*                                                                         *)
(* Five kinds of thread run here: the control thread of the service, the   *)
(* worker it starts for a connected module (composed from FuriThreadLife), *)
(* the serial control thread, an application, and the storage service,     *)
(* which runs expansion_storage_callback when a card is mounted.  The      *)
(* module on the wire is the environment.                                  *)
(*                                                                         *)
(* A step that waits for room in the serial control queue is disabled      *)
(* until there is some.  Received bytes are pieces: a piece is what one    *)
(* read of rx_buf returns.                                                 *)
(***************************************************************************)
EXTENDS FuriThreadLife

CONSTANTS
    Serial,             \* FuriHalSerialId
    Control, App,       \* the control thread, the application's thread
    QueueSize,          \* EXPANSION_CONTROL_QUEUE_SIZE, 8 in the code
    SerialQueueSize,    \* of the serial control queue, 8 in the code
    LogPorts,           \* bound: the ports logging is configured for
    MaxEvents,          \* bound: what the environment does in a run
    NULL

Caller == Thread \cup {Control, App}

ASSUME SerialType == NULL \notin Serial \cup Caller /\ Serial # {}
ASSUME CallerType == Joined = Thread /\ Control # App /\ {Control, App} \cap Thread = {}
ASSUME BoundsType == /\ {QueueSize, SerialQueueSize} \subseteq Nat \ {0}
                     /\ MaxEvents \in Nat /\ LogPorts \subseteq Serial \cup {NULL}

VARIABLES
    \* struct Expansion and the control thread
    queue, state, serial_id, worker, pc, job,
    \* FuriHalSerialControl: its queue, the callers it has not answered, who
    \* holds each handle, expansion_serial (expansion_cb is set with it), the
    \* pins that have the gpio's interrupt callback, those of them whose
    \* interrupt is on, log_config_serial_id
    squeue, waits, owner, listening, hooked, irq, log_id,
    wk,             \* struct ExpansionWorker and the worker's own thread
    call, msg,      \* the application's call of the expansion API
    quiet,          \* its last call was expansion_disable, and has returned
    reloaded,       \* a card was mounted since then
    mounting,       \* storage is in expansion_storage_callback
    halted,         \* the furi_check that has failed, or the memory misused
    events          \* what the environment has done so far

control == <<queue, state, serial_id, worker, pc, job>>
serial == <<squeue, waits, owner, listening, hooked, irq, log_id>>
app == <<call, msg, quiet, reloaded>>
vars == <<thread_vars, control, serial, wk, app, mounting, halted, events>>

-----------------------------------------------------------------------------
\* Messages and types.

\* lock: a caller waits for api_lock_unlock.
Message(type, s, lock) == [type |-> type, serial |-> s, lock |-> lock]
SyncType == {"Enable", "Disable", "SetListenSerial"}
MessageType == SyncType \cup {"ReloadSettings", "ModuleConnected", "ModuleDisconnected"}
MessageSet == [type : MessageType, serial : Serial \cup {NULL}, lock : BOOLEAN]
NoJob == Message("Enable", NULL, FALSE)

SMessage(type, s, from) == [type |-> type, serial |-> s, from |-> from]
SMessageSet ==
    [type : {"Acquire", "Release", "Logging", "Listen", "Ignore", "Irq"},
     serial : Serial \cup {NULL}, from : Caller \cup {NULL}]

\* ExpansionFrameType, as far as the handlers tell frames apart.
Frame == {"BaudRate", "StartRpc", "StopRpc", "Otg", "Heartbeat", "Data", "Status"}
LongFrame == {"BaudRate", "Data"}       \* their content takes several bytes

\* at: what expansion_protocol_decode asks for: the start of a frame (all of a
\* short one), what is left of a long one, or that when the current call of
\* receive has some of it.
WorkerSet ==
    [pc : {"acquire", "acquired", "receive", "exit", "released", "tell", "return"},
     at : {"start", "rest", "some"}, frame : LongFrame \cup {NULL},
     proto : {"HandShake", "Connected", "RpcActive"},
     reason : {"Unknown", "User", "Error", "Timeout"},
     flags : SUBSET {"Stop", "Error"}, stopped : BOOLEAN,
     serial : Serial \cup {NULL}, rx : 0..1, rx_on : BOOLEAN, rx_buf : BOOLEAN,
     session : BOOLEAN]

NewWorker(s) ==
    [pc |-> "acquire", at |-> "start", frame |-> NULL, proto |-> "HandShake",
     reason |-> "Unknown", flags |-> {}, stopped |-> FALSE, serial |-> s,
     rx |-> 0, rx_on |-> FALSE, rx_buf |-> TRUE, session |-> FALSE]

TypeOK ==
    /\ life \in [Thread -> {"none", "ready", "running", "ended"}]
    /\ queue \in Seq(MessageSet) /\ Len(queue) <= QueueSize
    /\ state \in {"Disabled", "Enabled", "Running"}
    /\ serial_id \in Serial /\ worker \in Thread \cup {NULL}
    /\ pc \in {"get", "load", "switch", "off", "stop", "stopped", "free", "join",
               "alloc", "start", "next", "done"}
    /\ job \in MessageSet
    /\ squeue \in Seq(SMessageSet) /\ Len(squeue) <= SerialQueueSize
    /\ waits \subseteq Caller /\ owner \in [Serial -> Caller \cup {NULL}]
    /\ listening \in Serial \cup {NULL} /\ irq \subseteq hooked /\ hooked \subseteq Serial
    /\ log_id \in Serial \cup {NULL}
    /\ wk \in [Thread -> WorkerSet]
    /\ call \in {"idle", "put", "wait", "acquire"} /\ msg \in MessageSet
    /\ quiet \in BOOLEAN /\ reloaded \in BOOLEAN /\ mounting \in BOOLEAN
    /\ halted \in {"no", "listen", "handle", "rx_buf", "gpio"}
    /\ events \in 0..MaxEvents

Init ==
    /\ LifeInit
    /\ queue = <<>> /\ state = "Disabled" /\ serial_id = (CHOOSE s \in Serial : TRUE) /\ worker = NULL
    /\ pc = "get" /\ job = NoJob
    /\ squeue = <<>> /\ waits = {} /\ owner = [s \in Serial |-> NULL]
    /\ listening = NULL /\ hooked = {} /\ irq = {} /\ log_id = NULL
    /\ wk = [w \in Thread |-> NewWorker(NULL)]
    /\ call = "idle" /\ msg = NoJob /\ quiet = FALSE /\ reloaded = FALSE
    /\ mounting = FALSE /\ halted = "no"
    /\ events = 0

Event == events < MaxEvents /\ events' = events + 1

Halt(why) ==
    /\ halted' = why
    /\ UNCHANGED <<thread_vars, control, serial, wk, app, mounting, events>>

\* furi_message_queue_put, when there is room.
Put(m) == Len(queue) < QueueSize /\ queue' = Append(queue, m)

-----------------------------------------------------------------------------
\* The serial control thread.

\* A call of furi_hal_serial_control: the caller p waits for api_lock_unlock.
Ask(type, s, p) ==
    /\ Len(squeue) < SerialQueueSize
    /\ squeue' = Append(squeue, SMessage(type, s, p))
    /\ waits' = waits \cup {p}
    /\ UNCHANGED <<owner, listening, hooked, irq, log_id>>

\* furi_hal_serial_control_enable_expansion_irq: the callback goes to the gpio,
\* whose furi_check refuses a second one (furi_hal_gpio.c:203), with the pin's
\* interrupt.
ArmChecked(s) == s \notin hooked
Arm(s) == hooked' = hooked \cup {s} /\ irq' = irq \cup {s}
Disarm(s) == hooked' = hooked \ {s} /\ irq' = irq \ {s}

\* furi_hal_serial_control_log_set_handle: detection is off while the ports
\* are reconfigured, and on again after it.
LogSetHandle(pins) ==
    LET on == IF listening = NULL THEN {} ELSE {listening} IN
    hooked' = hooked \cup on /\ irq' = pins \cup on

\* furi_hal_serial_init, by the caller that has got the handle of s.
TakePin(s) == irq' = irq \ {s} /\ UNCHANGED <<squeue, waits, owner, listening, hooked, log_id>>

\* Each handler says what it does to owner, listening, hooked, irq and log_id.
HandleAcquire(s, p) ==
    /\ owner' = IF owner[s] = NULL THEN [owner EXCEPT ![s] = p] ELSE owner
    /\ CASE owner[s] = NULL /\ log_id = s -> LogSetHandle(irq)
         [] owner[s] = NULL /\ log_id # s /\ listening = s -> Disarm(s)
         [] OTHER -> UNCHANGED <<hooked, irq>>
    /\ UNCHANGED <<listening, log_id>>

\* Mutation of HandleRelease: detection is not armed again.
HandleReleaseDeaf(s, p) ==
    /\ owner' = [owner EXCEPT ![s] = NULL]
    /\ irq' = irq \ {s}
    /\ UNCHANGED <<listening, hooked, log_id>>

\* What becomes of the port: the log's again, or armed for detection.
ReleaseChecked(s) == log_id # s /\ listening = s => ArmChecked(s)

\* furi_hal_serial_deinit makes the pin analog, which ends its interrupt but
\* leaves the callback with the gpio.
HandleRelease(s, p) ==
    /\ owner' = [owner EXCEPT ![s] = NULL]
    /\ CASE log_id = s -> LogSetHandle(irq \ {s})
         [] log_id # s /\ listening = s -> Arm(s)
         [] OTHER -> irq' = irq \ {s} /\ UNCHANGED hooked
    /\ UNCHANGED <<listening, log_id>>

HandleLogging(s) ==
    /\ log_id' = s
    /\ LogSetHandle(irq)
    /\ UNCHANGED <<owner, listening>>

\* furi_hal_serial_control_handler_expansion_set_callback and its checks.
ListenChecked(type, s) == IF type = "Listen" THEN listening = NULL ELSE listening = s

HandleListen(type, s) ==
    /\ listening' = IF type = "Listen" THEN s ELSE NULL
    /\ IF type = "Listen" THEN Arm(s) ELSE Disarm(s)
    /\ UNCHANGED <<owner, log_id>>

\* Mutation of Detect: expansion_detect_callback waits for room.
DetectWaiting == IF listening = NULL THEN UNCHANGED queue ELSE Put(Message("ModuleConnected", NULL, FALSE))

\* handler_expansion_irq calls expansion_detect_callback, which gives the
\* message up when there is no room.
Detect ==
    IF listening # NULL /\ Len(queue) < QueueSize
    THEN queue' = Append(queue, Message("ModuleConnected", NULL, FALSE))
    ELSE UNCHANGED queue

\* furi_hal_serial_control_thread
SerialThread ==
    /\ halted = "no" /\ squeue # <<>>
    /\ LET m == Head(squeue) IN
       IF m.type \in {"Listen", "Ignore"} /\ ~ListenChecked(m.type, m.serial)
       THEN Halt("listen")
       ELSE IF \/ m.type = "Release" /\ ~ReleaseChecked(m.serial)
               \/ m.type = "Listen" /\ ~ArmChecked(m.serial)
       THEN Halt("gpio")
       ELSE /\ squeue' = Tail(squeue)
            /\ waits' = waits \ {m.from}
            /\ CASE m.type = "Acquire" -> HandleAcquire(m.serial, m.from)
                 [] m.type = "Release" -> HandleRelease(m.serial, m.from)
                 [] m.type = "Logging" -> HandleLogging(m.serial)
                 [] m.type \in {"Listen", "Ignore"} -> HandleListen(m.type, m.serial)
                 [] m.type = "Irq" -> UNCHANGED <<owner, listening, hooked, irq, log_id>>
            /\ IF m.type = "Irq" THEN Detect ELSE UNCHANGED queue
            /\ UNCHANGED <<thread_vars, state, serial_id, worker, pc, job, wk, app,
                           mounting, halted, events>>

\* An edge on the Rx pin of s: furi_hal_serial_control_expansion_irq_callback
\* does not wait for room either.
Edge(s) ==
    /\ halted = "no" /\ s \in irq
    /\ Event
    /\ squeue' = IF Len(squeue) < SerialQueueSize
                 THEN Append(squeue, SMessage("Irq", NULL, NULL)) ELSE squeue
    /\ UNCHANGED <<thread_vars, control, waits, owner, listening, hooked, irq, log_id, wk, app,
                   mounting, halted>>

-----------------------------------------------------------------------------
\* The control thread.

Goto(next) == pc' = next
Resting(p) == p \notin waits
At(p) == halted = "no" /\ pc = p

\* Mutation of ControlGet: the caller is let go before the handler runs.
ControlGetEarly ==
    /\ At("get")
    /\ queue # <<>>
    /\ job' = [Head(queue) EXCEPT !.lock = FALSE]
    /\ queue' = Tail(queue)
    /\ Goto(IF job'.type = "ReloadSettings" \/ (job'.type = "Enable" /\ state = "Disabled")
            THEN "load" ELSE "switch")
    /\ IF Head(queue).lock
       THEN call' = "idle" /\ quiet' = (msg.type = "Disable") /\ UNCHANGED <<msg, reloaded>>
       ELSE UNCHANGED app
    /\ UNCHANGED <<thread_vars, state, serial_id, worker, serial, wk, mounting, halted, events>>

ControlGet ==
    /\ At("get")
    /\ queue # <<>>
    /\ job' = Head(queue)
    /\ queue' = Tail(queue)
    /\ Goto(IF job'.type = "ReloadSettings" \/ (job'.type = "Enable" /\ state = "Disabled")
            THEN "load" ELSE "switch")
    /\ UNCHANGED <<thread_vars, state, serial_id, worker, serial, wk, app, mounting, halted, events>>

\* expansion_settings_load asks the storage service, which does not answer
\* while it is in its callback; the file may say anything.
ControlLoad ==
    /\ At("load")
    /\ ~mounting
    /\ \E index \in Serial \cup {NULL} :
        IF job.type = "Enable"
        THEN job' = [job EXCEPT !.serial = index] /\ Goto(IF index = NULL THEN "done" ELSE "next")
        ELSE /\ job' = Message(IF index = NULL THEN "Disable" ELSE "SetListenSerial", index, FALSE)
             /\ Goto("switch")
    /\ reloaded' = (quiet /\ (reloaded \/ job.type = "ReloadSettings"))
    /\ UNCHANGED <<thread_vars, queue, state, serial_id, worker, serial, wk, call, msg, quiet, mounting,
                   halted, events>>

\* Mutation of Ignored: ModuleConnected is not refused while a worker runs.
IgnoredLess(j) ==
    CASE j.type = "Enable" -> TRUE
      [] j.type = "Disable" -> state = "Disabled"
      [] j.type = "SetListenSerial" -> state # "Disabled" /\ serial_id = j.serial
      [] j.type = "ModuleConnected" -> state = "Disabled"
      [] j.type = "ModuleDisconnected" -> state # "Running"

\* The early returns of the handlers.
Ignored(j) ==
    CASE j.type = "Enable" -> TRUE
      [] j.type = "Disable" -> state = "Disabled"
      [] j.type = "SetListenSerial" -> state # "Disabled" /\ serial_id = j.serial
      [] j.type = "ModuleConnected" -> state # "Enabled"
      [] j.type = "ModuleDisconnected" -> state # "Running"

\* A handler first takes down what runs: the worker, or the detection.
TakeDown(j) ==
    CASE j.type = "ModuleDisconnected" -> "free"
      [] j.type = "ModuleConnected" -> "off"
      [] j.type \in {"Disable", "SetListenSerial"} ->
            [Disabled |-> "next", Enabled |-> "off", Running |-> "stop"][state]

ControlSwitch ==
    /\ At("switch")
    /\ Goto(IF Ignored(job) THEN "done" ELSE TakeDown(job))
    /\ state' = IF job.type = "ModuleDisconnected" /\ ~Ignored(job) THEN "Enabled" ELSE state
    /\ UNCHANGED <<thread_vars, queue, serial_id, worker, job, serial, wk, app, mounting, halted, events>>

ControlOff ==
    /\ At("off")
    /\ Ask("Ignore", serial_id, Control)
    /\ Goto(IF job.type = "ModuleConnected" THEN "alloc" ELSE "next")
    /\ UNCHANGED <<thread_vars, queue, state, serial_id, worker, job, wk, app, mounting, halted, events>>

\* expansion_worker_stop: the flag, then furi_thread_join.
ControlStop ==
    /\ At("stop")
    /\ wk' = [wk EXCEPT ![worker].flags = @ \cup {"Stop"}]
    /\ Goto("stopped")
    /\ UNCHANGED <<thread_vars, queue, state, serial_id, worker, job, serial, app, mounting, halted, events>>

\* expansion_worker_free: the buffer goes first, then it joins, which after
\* expansion_worker_stop does not wait.
ControlFree ==
    /\ \/ At("free")
       \/ At("stopped") /\ life[worker] = "ready"
    /\ wk' = [wk EXCEPT ![worker].rx_buf = FALSE]
    /\ Goto("join")
    /\ UNCHANGED <<thread_vars, queue, state, serial_id, worker, job, serial, app, mounting, halted, events>>

ControlJoin ==
    /\ At("join")
    /\ Free(worker)
    /\ worker' = NULL
    /\ Goto("next")
    /\ UNCHANGED <<queue, state, serial_id, job, serial, wk, app, mounting, halted, events>>

\* The end of handler_disable, of the others that leave detection on.
ControlDisabled ==
    /\ At("next") /\ job.type = "Disable"
    /\ Resting(Control)
    /\ state' = "Disabled"
    /\ Goto("done")
    /\ UNCHANGED <<thread_vars, queue, serial_id, worker, job, serial, wk, app, mounting, halted, events>>

ControlListen ==
    /\ At("next") /\ job.type # "Disable"
    /\ Resting(Control)
    /\ state' = "Enabled"
    /\ serial_id' = IF job.type = "ModuleDisconnected" THEN serial_id ELSE job.serial
    /\ Ask("Listen", serial_id', Control)
    /\ Goto("done")
    /\ UNCHANGED <<thread_vars, queue, worker, job, wk, app, mounting, halted, events>>

\* expansion_worker_alloc and expansion_worker_start.
ControlAlloc ==
    /\ At("alloc")
    /\ Resting(Control)
    /\ state' = "Running"
    /\ \E w \in Thread :
        /\ Alloc(w)
        /\ worker' = w
        /\ wk' = [wk EXCEPT ![w] = NewWorker(serial_id)]
    /\ Goto("start")
    /\ UNCHANGED <<queue, serial_id, job, serial, app, mounting, halted, events>>

ControlStart ==
    /\ At("start")
    /\ Start(worker)
    /\ Goto("done")
    /\ UNCHANGED <<queue, state, serial_id, worker, job, serial, wk, app, mounting, halted, events>>

\* api_lock_unlock, when a caller waits for this message.
ControlDone ==
    /\ At("done")
    /\ Resting(Control)
    /\ Goto("get")
    /\ job' = NoJob
    /\ IF job.lock
       THEN /\ call' = "idle" /\ msg' = NoJob
            /\ quiet' = (msg.type = "Disable")
            /\ reloaded' = FALSE
       ELSE UNCHANGED app
    /\ UNCHANGED <<thread_vars, queue, state, serial_id, worker, serial, wk, mounting, halted, events>>

ControlThread ==
    \/ ControlGet \/ ControlLoad \/ ControlSwitch \/ ControlOff
    \/ ControlStop \/ ControlFree \/ ControlJoin \/ ControlDisabled \/ ControlListen
    \/ ControlAlloc \/ ControlStart \/ ControlDone

-----------------------------------------------------------------------------
\* The worker.

WorkerAt(w, p) == halted = "no" /\ life[w] = "running" /\ wk[w].pc = p

Set(w, record) == wk' = [wk EXCEPT ![w] = record]

elsewhere == <<control, app, mounting, halted, events>>

WorkerAcquire(w) ==
    /\ WorkerAt(w, "acquire")
    /\ Ask("Acquire", wk[w].serial, w)
    /\ Set(w, [wk[w] EXCEPT !.pc = "acquired"])
    /\ UNCHANGED <<thread_vars, elsewhere>>

\* furi_check(instance->serial_handle); then furi_hal_serial_init takes the pin
\* from the interrupt, a heartbeat is sent and receive reads rx_buf.
WorkerAcquired(w) ==
    /\ WorkerAt(w, "acquired")
    /\ Resting(w)
    /\ IF owner[wk[w].serial] # w THEN Halt("handle")
       ELSE IF ~wk[w].rx_buf THEN Halt("rx_buf")
       ELSE /\ Set(w, [wk[w] EXCEPT !.pc = "receive", !.rx_on = TRUE])
            /\ TakePin(wk[w].serial)
            /\ UNCHANGED <<thread_vars, elsewhere>>

\* expansion_handlers[state]: how each may leave the state and the session.
Handled(k) ==
    LET ok == {<<k.proto, k.session>>} IN
    CASE k.proto = "HandShake" /\ k.frame = "BaudRate" -> {<<"Connected", FALSE>>} \cup ok
      [] k.proto = "Connected" /\ k.frame = "StartRpc" -> {<<"RpcActive", TRUE>>}
      [] k.proto = "Connected" /\ k.frame \in {"Otg", "Heartbeat"} -> ok
      [] k.proto = "RpcActive" /\ k.frame = "StopRpc" -> {<<"Connected", FALSE>>}
      [] k.proto = "RpcActive" /\ k.frame \in {"Data", "Status", "Heartbeat"} -> ok
      [] OTHER -> {}

\* A piece that receive finds in rx_buf starts a long frame, or adds to one, or
\* ends a frame that the handler accepts; or the loop ends, with a frame that
\* decode or the handler refuses, by its content or for want of time.
WorkerRead(w) ==
    /\ WorkerAt(w, "receive")
    /\ wk[w].rx = 1
    /\ IF ~wk[w].rx_buf THEN Halt("rx_buf")
       ELSE LET k == [wk[w] EXCEPT !.rx = 0] IN
            /\ \/ k.at = "start" /\ \E f \in LongFrame :
                    Set(w, [k EXCEPT !.frame = f, !.at = "rest"])
               \/ k.at = "rest" /\ Set(w, [k EXCEPT !.at = "some"])
               \/ \E f \in IF k.at = "start" THEN Frame \ LongFrame ELSE {k.frame} :
                    \E r \in Handled([k EXCEPT !.frame = f]) :
                        Set(w, [k EXCEPT !.at = "start", !.frame = NULL,
                                         !.proto = r[1], !.session = r[2]])
               \/ Set(w, [k EXCEPT !.pc = "exit", !.at = "start", !.frame = NULL])
            /\ UNCHANGED <<thread_vars, serial, elsewhere>>

\* furi_thread_flags_wait takes the flags, or times out.  receive then returns
\* what it has: nothing of the frame ends the nothing of the frame ends the loop, but with some of it decode
\* calls receive again for the rest, which reads rx_buf again.
WorkerBreak(w) ==
    /\ WorkerAt(w, "receive")
    /\ wk[w].rx = 0
    /\ IF wk[w].at = "some" /\ ~wk[w].rx_buf THEN Halt("rx_buf")
       ELSE /\ LET k == [wk[w] EXCEPT
                            !.flags = {},
                            !.stopped = @ \/ "Stop" \in wk[w].flags,
                            !.reason = IF "Stop" \in wk[w].flags THEN "User"
                                       ELSE IF "Error" \in wk[w].flags THEN "Error" ELSE "Timeout"]
               IN Set(w, IF k.at = "some" THEN [k EXCEPT !.at = "rest"]
                      ELSE [k EXCEPT !.pc = "exit", !.at = "start", !.frame = NULL])
            /\ UNCHANGED <<thread_vars, serial, elsewhere>>

\* Mutation of WorkerExit: a session is closed only by a StopRpc frame.
WorkerExitOpen(w) ==
    /\ WorkerAt(w, "exit")
    /\ Ask("Release", wk[w].serial, w)
    /\ Set(w, [wk[w] EXCEPT !.pc = "released", !.rx_on = FALSE, !.rx = 0, !.flags = {}])
    /\ UNCHANGED <<thread_vars, elsewhere>>

\* Reception stops, the session is closed, the port is released.
WorkerExit(w) ==
    /\ WorkerAt(w, "exit")
    /\ Ask("Release", wk[w].serial, w)
    /\ Set(w, [wk[w] EXCEPT !.pc = "released", !.rx_on = FALSE, !.rx = 0, !.flags = {},
                            !.session = @ /\ wk[w].proto # "RpcActive"])
    /\ UNCHANGED <<thread_vars, elsewhere>>

\* Mutation of WorkerReleased: a silent module is not told about.
WorkerReleasedErrors(w) ==
    /\ WorkerAt(w, "released")
    /\ Resting(w)
    /\ Set(w, [wk[w] EXCEPT !.pc = IF wk[w].reason \in {"Unknown", "Error"} THEN "tell" ELSE "return"])
    /\ UNCHANGED <<thread_vars, serial, elsewhere>>

WorkerReleased(w) ==
    /\ WorkerAt(w, "released")
    /\ Resting(w)
    /\ Set(w, [wk[w] EXCEPT !.pc = IF wk[w].reason # "User" THEN "tell" ELSE "return"])
    /\ UNCHANGED <<thread_vars, serial, elsewhere>>

\* expansion_worker_callback, which waits for room.
WorkerTell(w) ==
    /\ WorkerAt(w, "tell")
    /\ Put(Message("ModuleDisconnected", NULL, FALSE))
    /\ Set(w, [wk[w] EXCEPT !.pc = "return"])
    /\ UNCHANGED <<thread_vars, state, serial_id, worker, pc, job, serial, app, mounting, halted, events>>

WorkerReturn(w) ==
    /\ WorkerAt(w, "return")
    /\ End(w)
    /\ UNCHANGED <<serial, wk, elsewhere>>

WorkerThread(w) ==
    \/ WorkerAcquire(w) \/ WorkerAcquired(w) \/ WorkerRead(w) \/ WorkerBreak(w)
    \/ WorkerExit(w) \/ WorkerReleased(w) \/ WorkerTell(w) \/ WorkerReturn(w)

\* The scrubber of furi/core/thread.c.
Scrubber == halted = "no" /\ (Stop \/ Report) /\ UNCHANGED <<serial, wk, elsewhere>>

\* expansion_worker_serial_rx_callback, in interrupt context.
Piece(w) ==
    /\ halted = "no" /\ wk[w].rx_on /\ wk[w].rx = 0
    /\ IF ~wk[w].rx_buf THEN events < MaxEvents /\ Halt("rx_buf")
       ELSE /\ Event
            /\ Set(w, [wk[w] EXCEPT !.rx = 1])
            /\ UNCHANGED <<thread_vars, control, serial, app, mounting, halted>>

Noise(w) ==
    /\ halted = "no" /\ wk[w].rx_on
    /\ Event
    /\ Set(w, [wk[w] EXCEPT !.flags = @ \cup {"Error"}])
    /\ UNCHANGED <<thread_vars, control, serial, app, mounting, halted>>

-----------------------------------------------------------------------------
\* The application, which follows expansion.h: it disables expansion before it
\* acquires a port and enables it after it has released it; and the storage.

Holds(s) == owner[s] = App
AppIdle == halted = "no" /\ call = "idle" /\ Resting(App)
others == <<thread_vars, wk, mounting, halted>>

AppCall(type, s) ==
    /\ AppIdle
    /\ \A t \in Serial : ~Holds(t)
    /\ Event
    /\ call' = "put"
    /\ msg' = Message(type, s, TRUE)
    /\ quiet' = FALSE /\ reloaded' = FALSE
    /\ UNCHANGED <<control, serial, others>>

AppPut ==
    /\ halted = "no" /\ call = "put"
    /\ Put(msg)
    /\ call' = "wait"
    /\ UNCHANGED <<state, serial_id, worker, pc, job, serial, msg, quiet, reloaded, events, others>>

AppAcquire(s) ==
    /\ AppIdle
    /\ quiet
    /\ \A t \in Serial : ~Holds(t)
    /\ Event
    /\ Ask("Acquire", s, App)
    /\ call' = "acquire"
    /\ msg' = [msg EXCEPT !.serial = s]
    /\ UNCHANGED <<control, quiet, reloaded, others>>

AppAcquired ==
    /\ halted = "no" /\ call = "acquire"
    /\ Resting(App)
    /\ IF ~Holds(msg.serial) THEN Halt("handle")
       ELSE /\ call' = "idle" /\ msg' = NoJob
            /\ TakePin(msg.serial)
            /\ UNCHANGED <<control, quiet, reloaded, events, others>>

AppRelease(s) ==
    /\ AppIdle
    /\ Holds(s)
    /\ Ask("Release", s, App)
    /\ UNCHANGED <<control, app, events, others>>

\* furi_hal_serial_control_set_logging_config
AppLogging(s) ==
    /\ AppIdle
    /\ Event
    /\ Ask("Logging", s, App)
    /\ UNCHANGED <<control, app, others>>

Mount ==
    /\ halted = "no" /\ ~mounting
    /\ Event
    /\ mounting' = TRUE
    /\ UNCHANGED <<thread_vars, control, serial, wk, app, halted>>

\* expansion_storage_callback waits for room.
MountPut ==
    /\ halted = "no" /\ mounting
    /\ Put(Message("ReloadSettings", NULL, FALSE))
    /\ mounting' = FALSE
    /\ UNCHANGED <<thread_vars, state, serial_id, worker, pc, job, serial, wk, app, halted, events>>

System ==
    \/ ControlThread \/ SerialThread \/ Scrubber
    \/ \E w \in Thread : WorkerThread(w)
    \/ AppPut \/ AppAcquired \/ MountPut

Environment ==
    \/ \E s \in Serial : Edge(s) \/ AppAcquire(s) \/ AppRelease(s) \/ AppCall("SetListenSerial", s)
    \/ \E s \in LogPorts : AppLogging(s)
    \/ AppCall("Enable", NULL) \/ AppCall("Disable", NULL) \/ Mount
    \/ \E w \in Thread : Piece(w) \/ Noise(w)

Next == System \/ Environment

Spec == Init /\ [][Next]_vars

FairSpec == Spec /\ WF_vars(System)

-----------------------------------------------------------------------------
\* Properties.

\* Between two messages the serial control thread listens exactly when the
\* service is Enabled, on the port the service thinks of: the furi_checks of
\* furi_hal_serial_control.c:199-204 hold, whatever order calls, edges, mounts
\* and ends of workers come in.
ListenExact ==
    /\ halted # "listen"
    /\ pc = "get" => listening = (IF state = "Enabled" THEN serial_id ELSE NULL)

\* While the service listens on a port that nobody holds, an edge on its pin
\* is seen: no logging change and no release of the port leaves it deaf
\* (furi_hal_serial_control.c:85-113, 143-160).  The gpio's furi_check, which a
\* release fails when detection was armed while the port was in use, fails
\* only if a card was mounted since the application's expansion_disable.
Armed == listening # NULL /\ owner[listening] = NULL => listening \in irq

DetectionArmed == Armed /\ (halted = "gpio" => quiet /\ reloaded)

\* An application that follows expansion.h:38-42 (disable, acquire, release,
\* enable) gives its port back.
ReleaseReturns == halted # "gpio"

\* From the return of expansion_disable to the application's next call no
\* worker lives, no port is held by one and nothing listens, whatever stale
\* messages of modules are still queued; only a mounted card may change it.
DisableHolds ==
    quiet /\ ~reloaded =>
        /\ state = "Disabled" /\ listening = NULL
        /\ \A w \in Thread : life[w] = "none" /\ \A s \in Serial : owner[s] # w

\* A worker that has ended leaves neither the session nor the port open
\* (expansion_worker.c:364-373).
WorkerCleansUp ==
    \A w \in Thread : life[w] \in {"ended", "ready"} /\ wk[w].pc = "return" =>
        ~wk[w].session /\ ~wk[w].rx_on /\ \A s \in Serial : owner[s] # w

\* The deadlocks this code has, when the queue is full: the control thread
\* joins a worker that waits to put ModuleDisconnected, or loads settings from
\* the storage that waits to put ReloadSettings.
Stuck ==
    /\ Len(queue) = QueueSize
    /\ \/ pc \in {"stopped", "join"} /\ wk[worker].pc = "tell"
       \/ pc = "load" /\ mounting

\* Every call of the expansion API returns once the module falls silent, but
\* for the two deadlocks of Stuck.
CallsReturn == call # "idle" ~> call = "idle" \/ halted # "no" \/ Stuck

\* When a module is gone the service comes back from Running, so that the next
\* module is detected.
DetectionReturns ==
    state = "Running" ~> state # "Running" \/ halted # "no" \/ Stuck

\* A worker that took the Stop flag receives nothing more (expansion.h:
\* expansion_disable "will cease all communications with the expansion module").
StopObeyed == \A w \in Thread : wk[w].stopped => wk[w].pc # "receive"

\* A serial port is there for whoever is entitled to it: the application that
\* has called expansion_disable, or the worker (expansion_worker.c:348).
HandleThere == halted # "handle"
=============================================================================
