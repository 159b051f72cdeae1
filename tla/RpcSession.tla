----------------------------- MODULE RpcSession -----------------------------
(***************************************************************************)
(* RPC sessions (services/rpc/rpc.c) and the three transports that open    *)
(* and close them: the shell command of services/rpc/rpc_cli.c, the        *)
(* expansion worker (services/expansion/expansion_worker.c) and the        *)
(* bluetooth service (services/bt/bt_service/bt.c), where two threads do:  *)
(* the GAP thread and bt's own.                                            *)
(*                                                                         *)
(* A session's thread is composed from FuriThreadLife: its state callback, *)
(* run by the scrubber, has the timer daemon free the session.  That waits *)
(* for an application that has given the session a callback (rpc_app.c)    *)
(* and joins the thread that streams the screen (rpc_gui.c), which may be  *)
(* in send_bytes_callback in its turn.                                     *)
(*                                                                         *)
(* Bytes are pieces; a piece may complete a request.  callbacks_mutex is   *)
(* held by a thread while it is in send_bytes_callback, and for the length *)
(* of one step by whoever sets a callback.                                 *)
(***************************************************************************)
EXTENDS FuriThreadLife

CONSTANTS
    Streamer,           \* the memory of each session's GuiRpcWorker
    StreamSize,         \* RPC_BUFFER_SIZE, in pieces
    TimerQueueSize,     \* configTIMER_QUEUE_LENGTH
    MaxEvents,          \* bound: what hosts, modules, phones, users and other tasks do
    NULL

Session == Thread \ Joined
Transport == {"usb", "uart", "ble"}

ASSUME SessionType == Joined \subseteq Thread /\ Streamer \in [Session -> Joined]
ASSUME StreamersDiffer == \A s, r \in Session : Streamer[s] = Streamer[r] => s = r
ASSUME SizesType == /\ StreamSize \in Nat \ {0} /\ TimerQueueSize \in Nat \ {0} /\ MaxEvents \in Nat
                    /\ NULL \notin Session \cup {0, 1}

VARIABLES
    ses,            \* struct RpcSession and where its thread is
    busy,           \* the session whose thread holds rpc->busy_mutex
    gui,            \* GuiRpcWorker of each session: its flags, whether it is in rpc_send
    app,            \* the application started over RPC, and the context it was given
    pending,        \* sessions whose callback is in the timer daemon's queue
    others,         \* the commands of other tasks that are in that queue
    daemon,         \* the timer daemon: where in which session's free it is
    tp,             \* the transports' threads
    usb,            \* CliRpc: session_close_request, terminate_semaphore
    uart,           \* ExpansionWorker: tx_semaphore, NULL when freed; the flag Error
    bt,             \* struct Bt: its session, flags and event callback
    btsrv,          \* the thread of the bt service
    halted,         \* a furi_check has failed, or memory was used that is not there
    events          \* what the environment has done so far

freeing == <<pending, others, daemon>>
transports == <<tp, usb, uart, bt, btsrv>>
vars == <<thread_vars, ses, busy, gui, app, freeing, transports, halted, events>>

\* does: what the thread makes of the bytes it has read: "none" without any,
\* "more" when they are not all of a message, "last" when they are not and the
\* session has been closed.
SessionSet ==
    [pc : {"read", "empty", "wait", "decoded", "join", "answer", "sending", "sent", "bt", "end"},
     does : {"none", "more", "last", "request", "stream", "stop", "unknown", "error"},
     owner : Transport \cup {NULL}, stream : 0..StreamSize,
     flags : SUBSET {"NewData", "Disconnect"}, decode_error : BOOLEAN,
     callbacks : SUBSET {"send", "close", "empty", "terminated", "app"}, closed : BOOLEAN]

NewSession(t, callbacks) ==
    [pc |-> "read", does |-> "none", owner |-> t, stream |-> 0, flags |-> {},
     decode_error |-> FALSE, callbacks |-> callbacks, closed |-> FALSE]

TypeOK ==
    /\ life \in [Thread -> {"none", "ready", "running", "ended"}]
    /\ ses \in [Session -> SessionSet]
    /\ busy \in Session \cup {NULL}
    /\ gui \in [Session -> [flags : SUBSET {"Transmit", "Exit"}, sending : BOOLEAN]]
    /\ app \in [pc : {"idle", "start", "rpc", "kept", "exit"}, session : Session \cup {NULL}]
    /\ ended \in Seq(Thread) /\ released \in BOOLEAN /\ pending \in Seq(Session)
    /\ others \in Nat /\ Len(pending) + others <= TimerQueueSize
    /\ daemon \in [pc : {"idle", "app", "gui", "last"}, session : Session \cup {NULL}]
    /\ tp \in [Transport -> [pc : {"idle", "opening", "open", "feed", "close", "closing", "wait"},
                             session : Session \cup {NULL}]]
    /\ usb \in [request : BOOLEAN, semaphore : 0..1]
    /\ uart \in [tx_semaphore : {0, 1, NULL}, error : BOOLEAN]
    /\ bt \in [session : Session \cup {NULL}, callback : BOOLEAN, disconnected : BOOLEAN,
               sent : BOOLEAN]
    /\ btsrv \in [pc : {"idle", "close", "closing", "answer"}, session : Session \cup {NULL},
                  for : Session \cup {NULL}]
    /\ halted \in BOOLEAN
    /\ events \in 0..MaxEvents

Init ==
    /\ LifeInit
    /\ ses = [s \in Session |-> NewSession(NULL, {})]
    /\ busy = NULL
    /\ gui = [s \in Session |-> [flags |-> {}, sending |-> FALSE]]
    /\ app = [pc |-> "idle", session |-> NULL]
    /\ pending = <<>> /\ others = 0 /\ daemon = [pc |-> "idle", session |-> NULL]
    /\ tp = [t \in Transport |-> [pc |-> "idle", session |-> NULL]]
    /\ usb = [request |-> FALSE, semaphore |-> 0]
    /\ uart = [tx_semaphore |-> NULL, error |-> FALSE]
    /\ bt = [session |-> NULL, callback |-> FALSE, disconnected |-> FALSE, sent |-> FALSE]
    /\ btsrv = [pc |-> "idle", session |-> NULL, for |-> NULL]
    /\ halted = FALSE /\ events = 0

\* A step the threads take by themselves; one that comes from outside.  The last
\* event is left to the end of a connection.
Running == ~halted /\ UNCHANGED events
Event == ~halted /\ events < MaxEvents /\ events' = events + 1
Input == Event /\ events' < MaxEvents

\* The furi_check of rpc_session_feed and _close, or memory that is no session.
Halt ==
    /\ halted' = TRUE
    /\ UNCHANGED <<thread_vars, ses, busy, gui, app, freeing, transports>>

-----------------------------------------------------------------------------
\* The thread of a session: rpc_session_worker.

At(s, p) == Running /\ life[s] = "running" /\ ses[s].pc = p
Set(s, r) == ses' = [ses EXCEPT ![s] = r]

\* The session's thread or its GuiRpcWorker is in send_bytes_callback.
InCallback(s) == ses[s].pc = "sending" \/ gui[s].sending

\* Mutation of MutexFree: the callbacks are set without the mutex.
MutexIgnored(s) == TRUE

\* callbacks_mutex can be had.
MutexFree(s) == ~InCallback(s)

\* rpc_system_gui_start_screen_stream has started the GuiRpcWorker.
IsStreaming(s) == life[Streamer[s]] # "none"

\* rpc_send has called send_bytes_callback: bt's starts by clearing the flags,
\* unless BT_RPC_EVENT_DISCONNECTED is set.
SendStarts(s) ==
    /\ MutexFree(s)
    /\ bt' = IF ses[s].owner = "ble" /\ "send" \in ses[s].callbacks /\ ~bt.disconnected
             THEN [bt EXCEPT !.sent = FALSE] ELSE bt

\* What follows a read of the stream, once its callback has been called.
AfterRead(r) == [r EXCEPT !.pc = IF r.does \in {"none", "more"} THEN "wait" ELSE "decoded"]

\* rpc_pb_stream_read: after a decode error it only drains the stream.  An
\* empty stream is told without the mutex: the pointer is looked at here,
Read(s) ==
    /\ At(s, "read")
    /\ \E d \in IF ses[s].stream = 0 \/ ses[s].decode_error THEN {ses[s].does}
                ELSE {"more", "request", "unknown", "error"} :
        LET r == [ses[s] EXCEPT !.stream = IF @ = 0 THEN 0 ELSE @ - 1, !.does = d] IN
        Set(s, IF r.stream = 0 /\ "empty" \in r.callbacks THEN [r EXCEPT !.pc = "empty"]
               ELSE AfterRead(r))
    /\ UNCHANGED <<thread_vars, busy, gui, app, freeing, transports, halted>>

\* and called here.  bt_serial_buffer_is_empty_callback needs a context, which
\* bt sets last, and the mutex that the GAP thread holds while it feeds.
EmptyCallback(s) ==
    /\ At(s, "empty")
    /\ tp["ble"].pc # "feed"
    /\ IF tp["ble"] = [pc |-> "opening", session |-> s] THEN Halt
       ELSE /\ Set(s, AfterRead(ses[s]))
            /\ UNCHANGED <<thread_vars, busy, gui, app, freeing, transports, halted>>

\* The session is closed in the middle of a message: the decoder fails or, when
\* the message was cut between two fields, takes what it has for the message.
Cut(r) == {[r EXCEPT !.flags = {}, !.pc = "end"]}
          \cup IF r.does = "more" THEN {[r EXCEPT !.flags = {}, !.pc = "decoded", !.does = "last"]}
               ELSE {}


\* furi_thread_flags_wait.  The session terminates when the stream is empty;
\* until then Disconnect is set again.
WaitFlags(s) ==
    /\ At(s, "wait")
    /\ ses[s].flags # {}
    /\ \E r \in IF "Disconnect" \in ses[s].flags /\ ses[s].stream = 0 THEN Cut(ses[s])
                ELSE {[ses[s] EXCEPT !.flags = @ \cap {"Disconnect"}, !.pc = "read"]} : Set(s, r)
    /\ UNCHANGED <<thread_vars, busy, gui, app, freeing, transports, halted>>

\* The handler of a request is called with busy_mutex.  What it is asked for is
\* one of these: "stream" starts to stream the screen, after the answer, or ends
\* that, when the GuiRpcWorker is joined before the answer.
Handle(s) ==
    /\ At(s, "decoded")
    /\ ses[s].does \in {"request", "last"}
    /\ busy = NULL /\ busy' = s
    /\ \E d \in IF ses[s].does = "last" THEN {"last"} ELSE {"request", "stop", "stream"} :
        IF d = "stream" /\ IsStreaming(s)
        THEN /\ Set(s, [ses[s] EXCEPT !.pc = "join"])
             /\ gui' = [gui EXCEPT ![s].flags = @ \cup {"Exit"}]
        ELSE Set(s, [ses[s] EXCEPT !.pc = "answer", !.does = d]) /\ UNCHANGED gui
    /\ UNCHANGED <<thread_vars, app, freeing, transports, halted>>

\* A message that no handler is for, or that does not decode.
NoHandler(s) ==
    /\ At(s, "decoded")
    /\ ses[s].does \in {"unknown", "error"}
    /\ Set(s, IF ses[s].does = "unknown" THEN [ses[s] EXCEPT !.pc = "answer"]
              ELSE [ses[s] EXCEPT !.pc = "answer", !.decode_error = TRUE, !.stream = 0])
    /\ UNCHANGED <<thread_vars, busy, gui, app, freeing, transports, halted>>

\* A request may start an application, which is given the session's context.  (It
\* counts as an event.)
StartApp(s) ==
    /\ Input
    /\ life[s] = "running" /\ ses[s].pc = "decoded" /\ ses[s].does = "request"
    /\ busy = NULL /\ busy' = s
    /\ app.pc = "idle" /\ app' = [pc |-> "start", session |-> s]
    /\ Set(s, [ses[s] EXCEPT !.pc = "answer"])
    /\ UNCHANGED <<thread_vars, gui, freeing, transports, halted>>

JoinStream(s) ==
    /\ At(s, "join")
    /\ Free(Streamer[s])
    /\ gui' = [gui EXCEPT ![s].flags = {}]
    /\ Set(s, [ses[s] EXCEPT !.pc = "answer"])
    /\ UNCHANGED <<busy, app, freeing, transports, halted>>

\* Each request is answered with rpc_send.
Send(s) ==
    /\ At(s, "answer")
    /\ SendStarts(s)
    /\ Set(s, [ses[s] EXCEPT !.pc = IF "send" \in ses[s].callbacks THEN "sending" ELSE "sent"])
    /\ UNCHANGED <<thread_vars, busy, gui, app, freeing, tp, usb, uart, btsrv, halted>>

\* rpc_system_gui_screen_stream_frame_transmit_thread
Transmit(s) ==
    /\ Running
    /\ life[Streamer[s]] = "running" /\ "Transmit" \in gui[s].flags
    /\ SendStarts(s)
    /\ gui' = [gui EXCEPT ![s] = [flags |-> @.flags \ {"Transmit"},
                                  sending |-> "send" \in ses[s].callbacks]]
    /\ UNCHANGED <<thread_vars, ses, busy, app, freeing, tp, usb, uart, btsrv, halted>>

TransmitEnds(s) ==
    /\ Running
    /\ gui[s] = [flags |-> {"Exit"}, sending |-> FALSE]
    /\ End(Streamer[s])
    /\ UNCHANGED <<ses, busy, gui, app, freeing, transports, halted>>

\* send_bytes_callback returns, and callbacks_mutex is released:
Sent(s, transport) ==
    /\ Running
    /\ ses[s].owner = transport
    /\ \/ At(s, "sending") /\ Set(s, [ses[s] EXCEPT !.pc = "sent"]) /\ UNCHANGED gui
       \/ gui[s].sending /\ gui' = [gui EXCEPT ![s].sending = FALSE] /\ UNCHANGED ses
    /\ UNCHANGED <<thread_vars, busy, app, freeing, tp, usb, btsrv, halted>>

\* pipe_send when the host has read or the pipe is broken;
SentUsb(s) == Sent(s, "usb") /\ UNCHANGED <<uart, bt>>

\* expansion_worker_rpc_send_callback with the semaphore, or after 250 ms;
SentUart(s) ==
    /\ Sent(s, "uart")
    /\ uart' = IF uart.tx_semaphore = 1 THEN [uart EXCEPT !.tx_semaphore = 0]
               ELSE [uart EXCEPT !.error = TRUE]
    /\ UNCHANGED bt

\* bt_rpc_send_bytes_callback when the phone has confirmed or is gone.
SentBle(s) ==
    /\ Sent(s, "ble")
    /\ bt.disconnected \/ bt.sent
    /\ bt' = IF bt.disconnected THEN bt ELSE [bt EXCEPT !.sent = FALSE]
    /\ UNCHANGED uart

\* A request has been answered: busy_mutex is released, the stream started.
Answered(s) ==
    /\ busy' = IF busy = s THEN NULL ELSE busy
    /\ IF ses[s].does = "stream" THEN LifeStep(Streamer[s], "none", "running") ELSE UNCHANGED life
    /\ UNCHANGED <<ended, released, gui, app, freeing, tp, uart, bt, btsrv, halted>>

\* Mutation of AfterSend: the session ends itself at a request to stop.
AfterSendEnds(s) ==
    /\ At(s, "sent")
    /\ Answered(s)
    /\ Set(s, [ses[s] EXCEPT !.does = "none", !.pc =
                  IF ses[s].does \in {"last", "stop"} THEN "end" ELSE "read"])
    /\ UNCHANGED usb

\* Mutation of AfterSend: busy_mutex stays with a session that has been closed.
AfterSendHolds(s) ==
    /\ At(s, "sent")
    /\ IF ses[s].does = "last"
       THEN UNCHANGED <<thread_vars, busy, gui, app, freeing, tp, uart, bt, btsrv, halted>>
       ELSE Answered(s)
    /\ Set(s, [ses[s] EXCEPT !.does = "none", !.pc =
                  IF ses[s].does = "last" THEN "end" ELSE "read"])
    /\ UNCHANGED usb

\* closed_callback, which only the shell sets; a phone whose message did not
\* decode is sent away by bt.
AfterSend(s) ==
    /\ At(s, "sent")
    /\ Answered(s)
    /\ IF ses[s].does \in {"stop", "error"}
       THEN /\ MutexFree(s)
            /\ usb' = IF "close" \in ses[s].callbacks THEN [usb EXCEPT !.request = TRUE] ELSE usb
       ELSE UNCHANGED usb
    /\ Set(s, [ses[s] EXCEPT !.does = "none", !.pc =
                  IF ses[s].does = "last" THEN "end"
                  ELSE IF ses[s].does = "error" /\ ses[s].owner = "ble" THEN "bt" ELSE "read"])

Return(s) ==
    /\ At(s, "end")
    /\ End(s)
    /\ UNCHANGED <<ses, busy, gui, app, freeing, transports, halted>>

-----------------------------------------------------------------------------
\* How a session is freed: the scrubber and the timer daemon.

ScrubStop == Running /\ Stop /\ UNCHANGED <<ses, busy, gui, app, freeing, transports, halted>>

QueueFull == Len(pending) + others >= TimerQueueSize

\* rpc_session_thread_state_callback waits for room without a timeout; a
\* GuiRpcWorker has no state callback.
ScrubReport ==
    /\ Running
    /\ Report
    /\ IF Head(ended) \in Session THEN ~QueueFull /\ pending' = Append(pending, Head(ended))
       ELSE UNCHANGED pending
    /\ UNCHANGED <<others, daemon, ses, busy, gui, app, transports, halted>>

DaemonGoes(from, to) == Running /\ daemon.pc = from /\ daemon' = [daemon EXCEPT !.pc = to]

\* The daemon works off what other tasks want of their timers.
DaemonTimer ==
    /\ Running
    /\ daemon.pc = "idle" /\ others > 0
    /\ others' = others - 1
    /\ UNCHANGED <<thread_vars, ses, busy, gui, app, pending, daemon, transports, halted>>

\* rpc_session_thread_pending_callback begins.  rpc_system_app_free tells the
\* application that the session is closed, if it has set its callback: those of
\* applications/main take the callback back at once, another may keep it.
DaemonTakes ==
    /\ Running
    /\ daemon.pc = "idle" /\ pending # <<>>
    /\ LET s == Head(pending) IN
        /\ daemon' = [pc |-> "app", session |-> s]
        /\ IF "app" \notin ses[s].callbacks THEN UNCHANGED <<ses, app>>
           ELSE \/ /\ Set(s, [ses[s] EXCEPT !.callbacks = @ \ {"app"}])
                   /\ app' = [app EXCEPT !.session = NULL]
                \/ app' = [app EXCEPT !.pc = IF @ = "rpc" THEN "kept" ELSE @] /\ UNCHANGED ses
    /\ pending' = Tail(pending)
    /\ UNCHANGED <<thread_vars, busy, gui, others, transports, halted>>

\* rpc_system_app_free goes on only when there is no callback, looking once a
\* tick; then the context is not valid any more.  rpc_system_gui_free follows.
DaemonLeavesApp ==
    /\ DaemonGoes("app", "gui")
    /\ "app" \notin ses[daemon.session].callbacks
    /\ gui' = IF IsStreaming(daemon.session)
              THEN [gui EXCEPT ![daemon.session].flags = @ \cup {"Exit"}] ELSE gui
    /\ UNCHANGED <<thread_vars, ses, busy, app, pending, others, transports, halted>>

\* furi_thread_join, in the daemon.
DaemonJoins ==
    /\ DaemonGoes("gui", "last")
    /\ IF IsStreaming(daemon.session) THEN Free(Streamer[daemon.session]) ELSE UNCHANGED thread_vars
    /\ gui' = [gui EXCEPT ![daemon.session].flags = {}]
    /\ UNCHANGED <<ses, busy, app, pending, others, transports, halted>>

\* terminated_callback; then the session's thread is freed, and the session.
Terminate ==
    /\ Running
    /\ daemon.pc = "last"
    /\ MutexFree(daemon.session)
    /\ daemon' = [pc |-> "idle", session |-> NULL]
    /\ usb' = IF "terminated" \in ses[daemon.session].callbacks
              THEN [usb EXCEPT !.semaphore = 1] ELSE usb
    /\ Free(daemon.session)
    /\ Set(daemon.session, NewSession(NULL, {}))
    /\ UNCHANGED <<busy, gui, app, pending, others, tp, uart, bt, btsrv, halted>>

-----------------------------------------------------------------------------
\* What transports do to a session.

Freed(s) == life[s] = "none"

\* Sessions that bluetooth still has a pointer to.
Pointed == {bt.session, btsrv.session, tp["ble"].session}

\* rpc_session_open.  The callbacks are set before the transport feeds.  Memory
\* is not handed out again under a stale pointer, whose use is then seen; which
\* of the rest it is does not matter.
Open(t, pc, callbacks) ==
    /\ Input
    /\ tp[t].pc = "idle"
    /\ \E s \in Session \ (Pointed \cup {app.session}) : Freed(s)
    /\ LET s == CHOOSE s \in Session \ (Pointed \cup {app.session}) : Freed(s) IN
        /\ LifeStep(s, "none", "running") /\ UNCHANGED <<ended, released>>
        /\ Set(s, NewSession(t, callbacks))
        /\ tp' = [tp EXCEPT ![t] = [pc |-> pc, session |-> s]]
        /\ bt' = IF t = "ble" THEN [bt EXCEPT !.session = s, !.disconnected = FALSE] ELSE bt
    /\ UNCHANGED <<busy, gui, app, freeing, btsrv, halted>>

\* rpc_session_feed: a piece that finds no room in its time is lost.
Feed(s) ==
    Set(s, [ses[s] EXCEPT !.stream = IF @ < StreamSize THEN @ + 1 ELSE @,
                          !.flags = @ \cup {"NewData"}])

\* rpc_session_close takes the mutex for each callback,
CloseSend(s) == MutexFree(s) /\ Set(s, [ses[s] EXCEPT !.callbacks = @ \ {"send"}])

\* and sets Disconnect.
CloseRest(s) ==
    /\ MutexFree(s)
    /\ Set(s, [ses[s] EXCEPT !.callbacks = @ \ {"close", "empty"}, !.closed = TRUE,
                             !.flags = @ \cup {"Disconnect"}])

-----------------------------------------------------------------------------
\* The transports.

Goto(t, from, to) == tp[t].pc = from /\ tp' = [tp EXCEPT ![t].pc = to]
Leave(t) == tp' = [tp EXCEPT ![t] = [pc |-> "idle", session |-> NULL]]

\* rpc_cli_command_start_session
UsbOpen ==
    /\ Open("usb", "open", {"send", "close", "terminated"})
    /\ usb' = [request |-> FALSE, semaphore |-> 0]
    /\ UNCHANGED uart

\* pipe_receive returns a byte: it is looked at after session_close_request.
UsbByte ==
    /\ Event
    /\ tp["usb"].pc = "open"
    /\ IF usb.request THEN Goto("usb", "open", "close") /\ UNCHANGED ses
       ELSE Input /\ Feed(tp["usb"].session) /\ UNCHANGED tp
    /\ UNCHANGED <<thread_vars, busy, gui, app, freeing, usb, uart, bt, btsrv, halted>>

UsbBroken ==
    /\ Event
    /\ Goto("usb", "open", "close")
    /\ UNCHANGED <<thread_vars, ses, busy, gui, app, freeing, usb, uart, bt, btsrv, halted>>

\* The semaphore that rpc_cli_session_terminated_callback releases.
UsbWait ==
    /\ Running
    /\ tp["usb"].pc = "wait" /\ usb.semaphore = 1
    /\ usb' = [request |-> FALSE, semaphore |-> 0]
    /\ Leave("usb")
    /\ UNCHANGED <<thread_vars, ses, busy, gui, app, freeing, uart, bt, btsrv, halted>>

\* The expansion worker in RpcActive: expansion_worker_rpc_session_open,
UartOpen ==
    /\ Open("uart", "open", {"send"})
    /\ uart' = [tx_semaphore |-> 1, error |-> FALSE]
    /\ UNCHANGED usb

\* a Data frame, a Status frame, StopRpc or the end of the worker.
UartFrame ==
    /\ Event
    /\ tp["uart"].pc = "open"
    /\ \/ Input /\ Feed(tp["uart"].session) /\ UNCHANGED <<tp, uart>>
       \/ Input /\ uart' = [uart EXCEPT !.tx_semaphore = 1] /\ UNCHANGED <<ses, tp>>
       \/ Goto("uart", "open", "close") /\ UNCHANGED <<ses, uart>>
    /\ UNCHANGED <<thread_vars, busy, gui, app, freeing, usb, bt, btsrv, halted>>

UartError ==
    /\ Running
    /\ uart.error
    /\ Goto("uart", "open", "close")
    /\ UNCHANGED <<thread_vars, ses, busy, gui, app, freeing, usb, uart, bt, btsrv, halted>>

\* expansion_worker_rpc_session_close and the shell's rpc_session_close.
Close(t) ==
    /\ Running
    /\ tp[t].pc \in {"close", "closing"}
    /\ \/ Goto(t, "close", "closing") /\ CloseSend(tp[t].session) /\ UNCHANGED uart
       \/ /\ tp[t].pc = "closing" /\ CloseRest(tp[t].session)
          /\ IF t = "usb" THEN Goto(t, "closing", "wait") /\ UNCHANGED uart
             ELSE Leave(t) /\ uart' = [tx_semaphore |-> NULL, error |-> FALSE]
    /\ UNCHANGED <<thread_vars, busy, gui, app, freeing, usb, bt, btsrv, halted>>

\* bt_on_gap_event_callback and bt_serial_event_callback, in the GAP thread.  It
\* sets the session's context after the callbacks.
GapConnected == Open("ble", "opening", {"send", "empty"}) /\ UNCHANGED <<usb, uart>>

GapContext ==
    /\ Running
    /\ tp["ble"].pc = "opening"
    /\ IF bt.session = NULL \/ Freed(bt.session) THEN Halt
       ELSE /\ Goto("ble", "opening", "open")
            /\ bt' = [bt EXCEPT !.callback = TRUE]
            /\ UNCHANGED <<thread_vars, ses, busy, gui, app, freeing, usb, uart, btsrv, halted>>

GapData ==
    /\ Input
    /\ bt.callback
    /\ Goto("ble", "open", "feed")
    /\ UNCHANGED <<thread_vars, ses, busy, gui, app, freeing, usb, uart, bt, btsrv, halted>>

GapFeed ==
    /\ Running
    /\ tp["ble"].pc = "feed"
    /\ IF bt.session = NULL \/ Freed(bt.session) THEN Halt
       ELSE /\ Feed(bt.session)
            /\ Goto("ble", "feed", "open")
            /\ UNCHANGED <<thread_vars, busy, gui, app, freeing, usb, uart, bt, btsrv, halted>>

\* The phone confirms what was sent.
GapSent ==
    /\ Running
    /\ tp["ble"].pc = "open" /\ bt.callback
    /\ \E s \in Session : ses[s].owner = "ble" /\ InCallback(s)
    /\ ~bt.sent
    /\ bt' = [bt EXCEPT !.sent = TRUE]
    /\ UNCHANGED <<thread_vars, ses, busy, gui, app, freeing, tp, usb, uart, btsrv, halted>>


GapDisconnected ==
    /\ Event
    /\ tp["ble"].pc = "open"
    /\ IF bt.session = NULL THEN Leave("ble") /\ UNCHANGED bt
       ELSE /\ bt' = [bt EXCEPT !.disconnected = TRUE]
            /\ tp' = [tp EXCEPT !["ble"] = [pc |-> "close", session |-> bt.session]]
    /\ UNCHANGED <<thread_vars, ses, busy, gui, app, freeing, usb, uart, btsrv, halted>>

GapClose ==
    /\ Running
    /\ tp["ble"].pc \in {"close", "closing"}
    /\ LET s == tp["ble"].session IN
       IF Freed(s) THEN Halt
       ELSE /\ \/ Goto("ble", "close", "closing") /\ CloseSend(s) /\ UNCHANGED bt
               \/ /\ tp["ble"].pc = "closing" /\ CloseRest(s)
                  /\ Leave("ble")
                  /\ bt' = [bt EXCEPT !.session = NULL, !.callback = FALSE]
            /\ UNCHANGED <<thread_vars, busy, gui, app, freeing, usb, uart, btsrv, halted>>

\* The thread of bt takes a message: bt_disconnect or another profile, from a
\* user, or from the session s whose message did not decode.
BtTakes(s) ==
    /\ btsrv.pc = "idle"
    /\ IF bt.session = NULL
       THEN btsrv' = [pc |-> "answer", session |-> NULL, for |-> s] /\ UNCHANGED bt
       ELSE /\ bt' = [bt EXCEPT !.disconnected = TRUE]
            /\ btsrv' = [pc |-> "close", session |-> bt.session, for |-> s]
    /\ UNCHANGED <<thread_vars, ses, busy, gui, app, freeing, tp, usb, uart, halted>>

BtUser == Input /\ BtTakes(NULL)

BtAsked(s) == At(s, "bt") /\ BtTakes(s)

\* bt_close_rpc_connection
BtClose ==
    /\ Running
    /\ btsrv.pc \in {"close", "closing"}
    /\ LET s == btsrv.session IN
       IF Freed(s) THEN Halt
       ELSE /\ \/ /\ btsrv.pc = "close" /\ CloseSend(s)
                  /\ btsrv' = [btsrv EXCEPT !.pc = "closing"] /\ UNCHANGED bt
               \/ /\ btsrv.pc = "closing" /\ CloseRest(s)
                  /\ btsrv' = [btsrv EXCEPT !.pc = "answer", !.session = NULL]
                  /\ bt' = [bt EXCEPT !.session = NULL, !.callback = FALSE]
            /\ UNCHANGED <<thread_vars, busy, gui, app, freeing, tp, usb, uart, halted>>

\* Another profile ends the GAP thread and the connection.
BtAnswers ==
    /\ Running
    /\ btsrv.pc = "answer"
    /\ \/ tp["ble"].pc \in {"idle", "open"} /\ Leave("ble")
       \/ btsrv.for = NULL /\ UNCHANGED tp
    /\ ses' = IF btsrv.for = NULL THEN ses ELSE [ses EXCEPT ![btsrv.for].pc = "read"]
    /\ btsrv' = [pc |-> "idle", session |-> NULL, for |-> NULL]
    /\ UNCHANGED <<thread_vars, busy, gui, app, freeing, usb, uart, bt, halted>>

-----------------------------------------------------------------------------
\* Applications, the screen and other tasks.

\* rpc_system_app_instance_is_valid: the context is in the list.
Valid(s) ==
    /\ life[s] # "none"
    /\ daemon.session = s => daemon.pc = "app"

\* The application that was started sets its callback (rpc_system_app_set_callback).
AppSets ==
    /\ Running
    /\ app.pc = "start"
    /\ IF ~Valid(app.session) THEN Halt
       ELSE /\ app' = [app EXCEPT !.pc = "rpc"]
            /\ Set(app.session, [ses[app.session] EXCEPT !.callbacks = @ \cup {"app"}])
            /\ UNCHANGED <<thread_vars, busy, gui, freeing, transports, halted>>

\* It exits, looks whether it still has a context,
AppExits ==
    /\ Running
    /\ app.pc \in {"rpc", "kept"}
    /\ app' = [app EXCEPT !.pc = IF app.session = NULL THEN "idle" ELSE "exit"]
    /\ UNCHANGED <<thread_vars, ses, busy, gui, freeing, transports, halted>>

\* and takes the callback back.  In between the context may be gone: then the one
\* it has read from its own memory is used, which is NULL by then or no context.
AppClears ==
    /\ Running
    /\ app.pc = "exit"
    /\ IF app.session = NULL \/ ~Valid(app.session) THEN Halt
       ELSE /\ app' = [pc |-> "idle", session |-> NULL]
            /\ Set(app.session, [ses[app.session] EXCEPT !.callbacks = @ \ {"app"}])
            /\ UNCHANGED <<thread_vars, busy, gui, freeing, transports, halted>>

\* The gui has drawn (rpc_system_gui_screen_stream_frame_callback).
Frame(s) ==
    /\ Input
    /\ IsStreaming(s) /\ gui[s].flags = {}
    /\ gui' = [gui EXCEPT ![s].flags = {"Transmit"}]
    /\ UNCHANGED <<thread_vars, ses, busy, app, freeing, transports, halted>>

\* Another task wants something of its timers.  It need not be said of a daemon
\* that is free: it works that off at once.
OtherTimer ==
    /\ Running
    /\ daemon.pc # "idle" /\ ~QueueFull
    /\ others' = others + 1
    /\ UNCHANGED <<thread_vars, ses, busy, gui, app, pending, daemon, transports, halted>>

-----------------------------------------------------------------------------

SessionThread(s) ==
    \/ Read(s) \/ EmptyCallback(s) \/ WaitFlags(s) \/ Handle(s) \/ NoHandler(s)
    \/ JoinStream(s) \/ Send(s) \/ SentUsb(s) \/ SentUart(s) \/ SentBle(s) \/ AfterSend(s) \/ Return(s) \/ BtAsked(s)

Daemon == DaemonTimer \/ DaemonTakes \/ DaemonLeavesApp \/ DaemonJoins \/ Terminate

System ==
    \/ \E s \in Session : SessionThread(s) \/ Transmit(s) \/ TransmitEnds(s)
    \/ ScrubStop \/ ScrubReport \/ Daemon
    \/ \E t \in {"usb", "uart"} : Close(t)
    \/ UsbWait \/ UartError \/ GapContext \/ GapFeed \/ GapSent \/ GapClose \/ BtClose \/ BtAnswers

Environment ==
    \/ UsbOpen \/ UsbByte \/ UsbBroken \/ UartOpen \/ UartFrame
    \/ GapConnected \/ GapData \/ GapDisconnected \/ BtUser
    \/ AppSets \/ AppExits \/ AppClears \/ OtherTimer \/ \E s \in Session : StartApp(s) \/ Frame(s)

Next == System \/ Environment

Spec == Init /\ [][Next]_vars

FairSpec == Spec /\ WF_vars(System)

-----------------------------------------------------------------------------
\* Properties.

\* While a thread, the session's or its GuiRpcWorker, is in send_bytes_callback,
\* what the callback works with is there: the command's CliRpc, which is on its
\* stack, and the worker's semaphore, which is freed right after rpc_session_close.
ContextAlive ==
    \A s \in Session : InCallback(s) =>
        /\ ses[s].owner = "usb" => tp["usb"].session = s
        /\ ses[s].owner = "uart" => tp["uart"].session = s /\ uart.tx_semaphore # NULL

\* The shell and the worker never feed or close a session that the timer daemon
\* has freed, though nothing tells the worker when that is.
OwnersSafe ==
    \A t \in {"usb", "uart"} : tp[t].pc \in {"open", "close", "closing"} => ~Freed(tp[t].session)

\* A session is freed only when its thread is done with busy_mutex, and only
\* after its transport has closed it (rpc.c:158, 342).
FreedOnlyClosed ==
    /\ \A s \in Session : life[s] \in {"ended", "ready"} => ses[s].closed
    /\ busy # NULL => life[busy] = "running"

\* The timer daemon waits for an application that keeps its callback.
Kept == daemon.pc = "app" /\ "app" \in ses[daemon.session].callbacks

\* The timer daemon joins a GuiRpcWorker, and the scrubber, which would have to
\* stop it, waits for room in the daemon's queue.
Stuck ==
    /\ daemon.pc = "gui" /\ life[Streamer[daemon.session]] \in {"running", "ended"}
    /\ released /\ Head(ended) \in Session /\ QueueFull



\* rpc_system_app_free tells the application that its session is closed before it
\* waits for it (rpc_app.c:567).  A callback set after it has looked is not told.
KeeperTold == Kept => app.pc # "rpc"

\* The scrubber releases every thread that is joined (furi_thread_join), although
\* it waits for the timer daemon in the state callbacks of sessions.
StreamerStops == ~Stuck

\* The context that an application was started with is valid when it sets its
\* callback (the furi_check of rpc_app.c:472).
ContextValid == app.pc = "start" => Valid(app.session)

\* bt_serial_buffer_is_empty_callback has its context (the furi_assert of bt.c:249).
ContextGiven ==
    \A s \in Session : ses[s].pc = "empty" => tp["ble"] # [pc |-> "opening", session |-> s]

\* rpc.h: "It is guaranteed that no callbacks will be called as soon as session
\* is closed."  A thread that has found buffer_is_empty_callback set calls it.
NoCallbackAfterClose == \A s \in Session : ses[s].pc = "empty" => ~ses[s].closed
=============================================================================
