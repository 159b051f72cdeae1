-------------------------- MODULE RpcSessionProofs --------------------------
(***************************************************************************)
(* The life of RPC sessions, for any sessions, any size of the stream and  *)
(* any number of events: who may still use a session is settled by its     *)
(* owner, by whether it has been closed and by what callbacks it has.      *)
(***************************************************************************)
EXTENDS RpcSession, SequenceFacts

Wired == {"usb", "uart"}
Opened == {"open", "close", "closing"}

\* The timer daemon and its queue hold, each once, sessions whose thread is Stopped
\* and is the daemon's to free.
Queues ==
    /\ IsInjective(pending) /\ \A s \in ToSet(pending) : life[s] = "ready"
    /\ daemon.pc # "idle" => daemon.session # NULL
    /\ daemon.session # NULL =>
           life[daemon.session] = "ready" /\ daemon.session \notin ToSet(pending)
    /\ released => ended # <<>>

\* Whatever ends a session's thread goes back to rpc_session_close.
Closings ==
    \A s \in Session :
        \/ life[s] \in {"ended", "ready"} \/ ses[s].pc = "end" \/ ses[s].does = "last"
        \/ "Disconnect" \in ses[s].flags
        => ses[s].closed

\* busy_mutex is held from the call of a handler until it has answered.
BusyHeld ==
    busy # NULL => life[busy] = "running" /\ ses[busy].pc \in {"join", "answer", "sending", "sent"}

\* What the shell and the worker have opened is theirs and has not been closed.
Owned ==
    /\ \A t \in Wired : tp[t].pc \in Opened =>
        /\ tp[t].session \in Session
        /\ life[tp[t].session] = "running"
        /\ ses[tp[t].session].owner = t
        /\ ~ses[tp[t].session].closed
    /\ tp["uart"].pc \in Opened => uart.tx_semaphore # NULL

\* A session of which a thread may call, or is in, send_bytes_callback is still open.
Sends ==
    \A s \in Session, t \in Wired :
        /\ ses[s].owner = t
        /\ InCallback(s) \/ "send" \in ses[s].callbacks
        => tp[t].session = s /\ tp[t].pc \in {"open", "close"}

\* The pointers of bluetooth, stale ones too, lead to no session of the others.
Bluetooth ==
    /\ \A s \in Pointed \cap Session : life[s] = "none" \/ ses[s].owner = "ble"
    /\ tp["ble"].pc \in {"close", "closing"} => tp["ble"].session # NULL
    /\ btsrv.pc \in {"close", "closing"} => btsrv.session # NULL
    /\ btsrv.for # NULL => life[btsrv.for] = "running" /\ ses[btsrv.for].pc = "bt"

RpcInv == TypeOK /\ Queues /\ Closings /\ BusyHeld /\ Owned /\ Sends /\ Bluetooth

-----------------------------------------------------------------------------

LEMMA NewSessionType ==
    ASSUME NEW t \in Transport \cup {NULL},
           NEW c \in SUBSET {"send", "close", "empty", "terminated", "app"}
    PROVE  NewSession(t, c) \in SessionSet
  BY SizesType DEF NewSession, SessionSet

\* A GuiRpcWorker is no session's thread.
LEMMA StreamersApart ==
    ASSUME NEW s \in Session
    PROVE  Streamer[s] \in Thread /\ Streamer[s] \notin Session
  BY SessionType DEF Session

LEMMA SessionsAreThreads == Session \subseteq Thread
  BY DEF Session

\* What a step of a GuiRpcWorker does to the lives of threads.
LEMMA StreamerLife ==
    ASSUME TypeOK, NEW s \in Session, NEW from, NEW to \in {"none", "ready", "running", "ended"},
           LifeStep(Streamer[s], from, to)
    PROVE  /\ life' \in [Thread -> {"none", "ready", "running", "ended"}]
           /\ \A x \in Session : life'[x] = life[x]
  BY StreamersApart, SessionsAreThreads DEF TypeOK, LifeStep

LEMMA RpcInitially == Init => RpcInv
  <1> SUFFICES ASSUME Init PROVE RpcInv
    OBVIOUS
  <1> USE SizesType DEF Init, LifeInit, Transport
  <1>1. /\ ended \in Seq(Thread) /\ Len(pending) = 0
        /\ ToSet(pending) = {} /\ IsInjective(pending) /\ pending \in Seq(Session)
    BY DEF ToSet, IsInjective
  <1>2. NewSession(NULL, {}) \in SessionSet
    BY NewSessionType
  <1>3. TypeOK
    <2>1. life \in [Thread -> {"none", "ready", "running", "ended"}] /\ released \in BOOLEAN
      OBVIOUS
    <2>2. ses \in [Session -> SessionSet]
      BY <1>2
    <2>3. tp \in [Transport -> [pc : {"idle", "opening", "open", "feed", "close", "closing", "wait"},
                               session : Session \cup {NULL}]]
      OBVIOUS
    <2>4. /\ usb \in [request : BOOLEAN, semaphore : 0..1]
          /\ uart \in [tx_semaphore : {0, 1, NULL}, error : BOOLEAN]
          /\ bt \in [session : Session \cup {NULL}, callback : BOOLEAN, disconnected : BOOLEAN,
                     sent : BOOLEAN]
          /\ btsrv \in [pc : {"idle", "close", "closing", "answer"},
                        session : Session \cup {NULL}, for : Session \cup {NULL}]
      OBVIOUS
    <2>5. busy \in Session \cup {NULL} /\ halted \in BOOLEAN
      OBVIOUS
    <2>6. events \in 0..MaxEvents
      OBVIOUS
    <2>7. /\ gui \in [Session -> [flags : SUBSET {"Transmit", "Exit"}, sending : BOOLEAN]]
          /\ app \in [pc : {"idle", "start", "rpc", "kept", "exit"}, session : Session \cup {NULL}]
          /\ daemon \in [pc : {"idle", "app", "gui", "last"}, session : Session \cup {NULL}]
      OBVIOUS
    <2>8. others \in Nat /\ Len(pending) + others <= TimerQueueSize
      BY <1>1
    <2> HIDE DEF Init, LifeInit, Transport
    <2> QED
      BY <1>1, <2>1, <2>2, <2>3, <2>4, <2>5, <2>6, <2>7, <2>8 DEF TypeOK
  <1>4. Queues
    BY <1>1 DEF Queues
  <1>5. Closings /\ BusyHeld /\ Owned /\ Sends /\ Bluetooth
    BY SessionsAreThreads
       DEF NewSession, Closings, BusyHeld, Owned, Sends, InCallback, Bluetooth, Pointed, Wired, Opened
  <1> QED
    BY <1>3, <1>4, <1>5 DEF RpcInv

LEMMA QueuedAreSessions ==
    ASSUME pending \in Seq(Session)
    PROVE  ToSet(pending) \subseteq Session
  BY DEF ToSet

\* The part of the invariant that does not depend on busy_mutex and the queues
\* survives a step of a session's own thread, which neither changes its owner,
\* nor its callbacks, nor closes it.
LEMMA ThreadStepKeeps ==
    ASSUME RpcInv, TypeOK', NEW s \in Session, NEW r \in SessionSet,
           life[s] = "running", ses[s].pc # "bt", Set(s, r),
           \A x \in Session : life'[x] = life[x],
           \A x \in Session : gui'[x].sending => gui[x].sending \/ "send" \in ses[x].callbacks,
           r.owner = ses[s].owner, r.callbacks = ses[s].callbacks, r.closed = ses[s].closed,
           r.pc = "end" \/ r.does = "last" \/ "Disconnect" \in r.flags => r.closed,
           r.pc = "sending" => ses[s].pc = "sending" \/ "send" \in r.callbacks,
           \/ busy' = NULL
           \/ busy' = s /\ r.pc \in {"join", "answer", "sending", "sent"}
           \/ busy' = busy /\ busy # s,
           UNCHANGED <<ended, released, pending, daemon, tp, btsrv>>,
           bt'.session = bt.session,
           uart.tx_semaphore # NULL => uart'.tx_semaphore # NULL
    PROVE  RpcInv'
  <1> USE DEF RpcInv, Set
  <1>1. /\ ses' = [ses EXCEPT ![s] = r] /\ ses'[s] = r
        /\ \A x \in Session \ {s} : ses'[x] = ses[x]
    BY DEF TypeOK
  <1>2. Queues'
    BY QueuedAreSessions DEF Queues, TypeOK
  <1>3. Closings'
    BY <1>1 DEF Closings
  <1>4. BusyHeld'
    BY <1>1 DEF BusyHeld, TypeOK
  <1>5. Owned'
    BY <1>1 DEF Owned
  <1>6. Sends'
    BY <1>1 DEF Sends, InCallback
  <1>7. Bluetooth'
    BY <1>1 DEF Bluetooth, Pointed, TypeOK
  <1> QED
    BY <1>2, <1>3, <1>4, <1>5, <1>6, <1>7

-----------------------------------------------------------------------------
\* What the other threads do to a session leaves its thread where it is, gives it
\* no send_bytes_callback, and sets Disconnect only when it is closed.
Untouched(x) ==
    /\ ses'[x].owner = ses[x].owner /\ ses'[x].pc = ses[x].pc /\ ses'[x].does = ses[x].does
    /\ "send" \in ses'[x].callbacks => "send" \in ses[x].callbacks
    /\ ses[x].closed => ses'[x].closed
    /\ "Disconnect" \in ses'[x].flags => "Disconnect" \in ses[x].flags \/ ses'[x].closed

\* Nobody is in, nor will call, send_bytes_callback of the session.
Silent(x) == ses'[x].pc # "sending" /\ ~gui'[x].sending /\ "send" \notin ses'[x].callbacks

LEMMA FeedFacts ==
    ASSUME TypeOK, NEW s \in Session, Feed(s)
    PROVE  /\ ses' \in [Session -> SessionSet]
           /\ \A x \in Session : Untouched(x) /\ (ses'[x].closed => ses[x].closed)
  <1> DEFINE n == IF ses[s].stream < StreamSize THEN ses[s].stream + 1 ELSE ses[s].stream
             f == ses[s].flags \cup {"NewData"}
             r == [ses[s] EXCEPT !.stream = n, !.flags = f]
  <1>1. ses' = [ses EXCEPT ![s] = r] /\ ses[s] \in SessionSet
    BY DEF Feed, Set, TypeOK
  <1>2. n \in 0..StreamSize
    BY <1>1, SizesType DEF SessionSet
  <1>3. f \subseteq {"NewData", "Disconnect"} /\ ("Disconnect" \in f => "Disconnect" \in ses[s].flags)
    BY <1>1 DEF SessionSet
  <1> HIDE DEF n, f
  <1>4. /\ r \in SessionSet /\ r.flags = f
        /\ r.owner = ses[s].owner /\ r.pc = ses[s].pc /\ r.does = ses[s].does
        /\ r.callbacks = ses[s].callbacks /\ r.closed = ses[s].closed
    BY <1>1, <1>2, <1>3 DEF SessionSet
  <1> HIDE DEF r
  <1> QED
    BY <1>1, <1>3, <1>4 DEF TypeOK, Untouched

LEMMA CloseSendFacts ==
    ASSUME TypeOK, NEW s \in Session, CloseSend(s), UNCHANGED gui
    PROVE  /\ ses' \in [Session -> SessionSet]
           /\ \A x \in Session : Untouched(x) /\ (ses'[x].closed => ses[x].closed)
           /\ Silent(s)
  <1> DEFINE r == [ses[s] EXCEPT !.callbacks = @ \ {"send"}]
  <1>1. /\ ses' = [ses EXCEPT ![s] = r] /\ ses[s] \in SessionSet
        /\ ses[s].pc # "sending" /\ ~gui[s].sending
    BY DEF CloseSend, MutexFree, InCallback, Set, TypeOK
  <1>2. /\ r \in SessionSet /\ r.flags = ses[s].flags
        /\ r.owner = ses[s].owner /\ r.pc = ses[s].pc /\ r.does = ses[s].does
        /\ r.callbacks = ses[s].callbacks \ {"send"} /\ r.closed = ses[s].closed
    BY <1>1 DEF SessionSet
  <1> HIDE DEF r
  <1> QED
    BY <1>1, <1>2 DEF TypeOK, Untouched, Silent

LEMMA CloseRestFacts ==
    ASSUME TypeOK, NEW s \in Session, CloseRest(s)
    PROVE  /\ ses' \in [Session -> SessionSet]
           /\ \A x \in Session : Untouched(x) /\ (ses'[x].closed => ses[x].closed \/ x = s)
  <1> DEFINE r == [ses[s] EXCEPT !.callbacks = @ \ {"close", "empty"}, !.closed = TRUE,
                                 !.flags = @ \cup {"Disconnect"}]
  <1>1. ses' = [ses EXCEPT ![s] = r] /\ ses[s] \in SessionSet
    BY DEF CloseRest, MutexFree, Set, TypeOK
  <1>2. /\ r \in SessionSet
        /\ r.owner = ses[s].owner /\ r.pc = ses[s].pc /\ r.does = ses[s].does
        /\ r.callbacks = ses[s].callbacks \ {"close", "empty"} /\ r.closed
    BY <1>1 DEF SessionSet
  <1> HIDE DEF r
  <1> QED
    BY <1>1, <1>2 DEF TypeOK, Untouched

\* A step of a transport keeps the invariant if the shell and the worker go on
\* only with sessions that are not closed, and leave only what sends no more.
LEMMA TransportKeeps ==
    ASSUME RpcInv, TypeOK', busy' = busy,
           \A x \in Session : life'[x] = life[x] /\ Untouched(x),
           \A x \in Session : gui'[x].sending => gui[x].sending \/ "send" \in ses[x].callbacks,
           \A t \in Wired : tp'[t].pc \in Opened =>
               /\ tp[t].pc \in Opened /\ tp'[t].session = tp[t].session
               /\ ~ses'[tp[t].session].closed,
           \A t \in Wired : tp[t].pc \in {"open", "close"} =>
               \/ tp'[t].session = tp[t].session /\ tp'[t].pc \in {"open", "close"}
               \/ Silent(tp[t].session),
           tp'["uart"].pc \in Opened /\ uart.tx_semaphore # NULL => uart'.tx_semaphore # NULL
    PROVE  Closings' /\ BusyHeld' /\ Owned' /\ Sends'
  <1> USE DEF RpcInv
  <1>1. Closings'
    BY DEF Closings, Untouched
  <1>2. BusyHeld'
    BY DEF BusyHeld, Untouched, TypeOK
  <1>3. Owned'
    BY DEF Owned, Untouched, Wired
  <1>4. Sends'
    BY DEF Sends, InCallback, Untouched, Silent
  <1> QED
    BY <1>1, <1>2, <1>3, <1>4

\* Bluetooth's threads copy their pointers to sessions from each other only.
LEMMA PointersKeep ==
    ASSUME RpcInv, TypeOK',
           \A x \in Session : life'[x] = life[x] /\ Untouched(x),
           Pointed' \subseteq Pointed \cup {NULL},
           tp'["ble"].pc \in {"close", "closing"} => tp'["ble"].session # NULL,
           btsrv'.pc \in {"close", "closing"} => btsrv'.session # NULL,
           \/ btsrv'.for \in {btsrv.for, NULL}
           \/ life[btsrv'.for] = "running" /\ ses[btsrv'.for].pc = "bt"
    PROVE  Bluetooth'
  <1>1. \A x \in Pointed' \cap Session : life'[x] = "none" \/ ses'[x].owner = "ble"
    BY SizesType DEF RpcInv, Bluetooth, Untouched
  <1>2. btsrv'.for # NULL => life'[btsrv'.for] = "running" /\ ses'[btsrv'.for].pc = "bt"
    BY DEF RpcInv, Bluetooth, Untouched, TypeOK
  <1> QED
    BY <1>1, <1>2 DEF Bluetooth

\* A step that leaves the transports where they are and closes nothing.
LEMMA CalmKeeps ==
    ASSUME RpcInv, TypeOK', Queues', UNCHANGED <<busy, tp, btsrv>>, bt'.session = bt.session,
           uart.tx_semaphore # NULL => uart'.tx_semaphore # NULL,
           \A x \in Session : /\ life'[x] = life[x] /\ Untouched(x)
                              /\ ses'[x].closed => ses[x].closed,
           \A x \in Session : gui'[x].sending => gui[x].sending \/ "send" \in ses[x].callbacks
    PROVE  RpcInv'
  <1>1. Closings' /\ BusyHeld' /\ Owned' /\ Sends'
    BY TransportKeeps DEF RpcInv, Owned
  <1>2. Bluetooth'
    BY PointersKeep DEF RpcInv, Bluetooth, Pointed
  <1> QED
    BY <1>1, <1>2 DEF RpcInv

\* The queues do not change but with these.
LEMMA QueuesKeep ==
    ASSUME RpcInv, UNCHANGED <<pending, daemon>>,
           UNCHANGED <<ended, released>> \/ (released' => ended' # <<>>),
           \A x \in Session : life'[x] = life[x]
    PROVE  Queues'
  BY QueuedAreSessions DEF RpcInv, Queues, TypeOK

\* A furi_check that fails leaves everything as it is.
LEMMA HaltKeeps ==
    ASSUME RpcInv, Halt, events' \in 0..MaxEvents
    PROVE  RpcInv'
  BY DEF Halt, freeing, transports, thread_vars, RpcInv, TypeOK, Queues, Closings, BusyHeld,
         Owned, Sends, InCallback, Bluetooth, Pointed

\* What the invariant says of a session's own thread.
LEMMA SessionFacts ==
    ASSUME RpcInv, NEW s \in Session
    PROVE  /\ ses[s] \in SessionSet /\ ses[s].stream \in 0..StreamSize
           /\ ses[s].pc = "end" \/ ses[s].does = "last" \/ "Disconnect" \in ses[s].flags
              => ses[s].closed
           /\ busy \in Session \cup {NULL}
           /\ busy = s => ses[s].pc \in {"join", "answer", "sending", "sent"}
  BY SizesType DEF RpcInv, TypeOK, SessionSet, Closings, BusyHeld

\* The types after a step that leaves the queues and the transports' pcs alone.
LEMMA TypesKeep ==
    ASSUME RpcInv, UNCHANGED <<pending, others, daemon, tp, btsrv, halted>>,
           ended' \in Seq(Thread), released' \in BOOLEAN, events' \in 0..MaxEvents,
           life' \in [Thread -> {"none", "ready", "running", "ended"}],
           ses' \in [Session -> SessionSet], busy' \in Session \cup {NULL},
           gui' \in [Session -> [flags : SUBSET {"Transmit", "Exit"}, sending : BOOLEAN]],
           app' \in [pc : {"idle", "start", "rpc", "kept", "exit"}, session : Session \cup {NULL}],
           usb' \in [request : BOOLEAN, semaphore : 0..1],
           uart' \in [tx_semaphore : {0, 1, NULL}, error : BOOLEAN],
           bt' \in [session : Session \cup {NULL}, callback : BOOLEAN, disconnected : BOOLEAN,
                    sent : BOOLEAN]
    PROVE  TypeOK'
  BY DEF RpcInv, TypeOK

\* The parts of the type invariant that steps of these kinds change.
LEMMA TypeParts ==
    ASSUME RpcInv
    PROVE  /\ ended \in Seq(Thread) /\ released \in BOOLEAN /\ events \in 0..MaxEvents
           /\ life \in [Thread -> {"none", "ready", "running", "ended"}]
           /\ ses \in [Session -> SessionSet] /\ busy \in Session \cup {NULL}
           /\ gui \in [Session -> [flags : SUBSET {"Transmit", "Exit"}, sending : BOOLEAN]]
           /\ app \in [pc : {"idle", "start", "rpc", "kept", "exit"}, session : Session \cup {NULL}]
           /\ usb \in [request : BOOLEAN, semaphore : 0..1]
           /\ uart \in [tx_semaphore : {0, 1, NULL}, error : BOOLEAN]
           /\ bt \in [session : Session \cup {NULL}, callback : BOOLEAN, disconnected : BOOLEAN,
                      sent : BOOLEAN]
  BY DEF RpcInv, TypeOK

\* rpc_session_worker, from its wait to a message and to its end.
LEMMA WorkerKeeps ==
    ASSUME RpcInv, NEW s \in Session,
           Read(s) \/ EmptyCallback(s) \/ WaitFlags(s) \/ NoHandler(s)
    PROVE  RpcInv'
  <1> USE DEF At, Running, transports, freeing, thread_vars
  <1>1. /\ ses[s] \in SessionSet /\ ses[s].stream \in 0..StreamSize
        /\ ses[s].pc = "end" \/ ses[s].does = "last" \/ "Disconnect" \in ses[s].flags
           => ses[s].closed
        /\ busy \in Session \cup {NULL}
        /\ busy = s => ses[s].pc \in {"join", "answer", "sending", "sent"}
    BY SessionFacts
  \* Each of them is a step of this kind.
  <1>2. ASSUME NEW r \in SessionSet, Set(s, r), life[s] = "running",
               ses[s].pc \in {"read", "empty", "wait", "decoded"},
               r.owner = ses[s].owner, r.callbacks = ses[s].callbacks, r.closed = ses[s].closed,
               r.pc = "end" \/ r.does = "last" \/ "Disconnect" \in r.flags => r.closed,
               r.pc # "sending",
               UNCHANGED <<thread_vars, busy, gui, app, freeing, transports, halted, events>>
        PROVE  RpcInv'
    <2>1. TypeOK'
      BY <1>2, TypesKeep, TypeParts DEF Set
    <2> QED
      BY <1>1, <1>2, <2>1, ThreadStepKeeps
  <1>3. CASE Read(s)
    <2>1. PICK d \in {"none", "more", "last", "request", "stream", "stop", "unknown", "error"} :
            LET r == [ses[s] EXCEPT !.stream = IF @ = 0 THEN 0 ELSE @ - 1, !.does = d] IN
            /\ d = ses[s].does \/ d # "last"
            /\ Set(s, IF r.stream = 0 /\ "empty" \in r.callbacks THEN [r EXCEPT !.pc = "empty"]
                      ELSE AfterRead(r))
      BY <1>1, <1>3 DEF Read, SessionSet
    <2>2. PICK p \in {"empty", "wait", "decoded"}, n \in 0..StreamSize :
            Set(s, [ses[s] EXCEPT !.stream = n, !.does = d, !.pc = p])
      <3>1. ses[s].stream # 0 => ses[s].stream - 1 \in 0..StreamSize
        BY <1>1, SizesType
      <3> QED
        BY <1>1, <2>1, <3>1 DEF AfterRead, SessionSet
    <2> DEFINE r == [ses[s] EXCEPT !.stream = n, !.does = d, !.pc = p]
    <2>3. /\ r \in SessionSet
          /\ r.owner = ses[s].owner /\ r.callbacks = ses[s].callbacks /\ r.closed = ses[s].closed
          /\ r.flags = ses[s].flags /\ r.does = d /\ r.pc = p
      BY <1>1 DEF SessionSet
    <2> HIDE DEF r
    <2>4. Set(s, r)
      BY <2>2 DEF r
    <2>5. /\ life[s] = "running" /\ ses[s].pc = "read"
          /\ UNCHANGED <<thread_vars, busy, gui, app, freeing, transports, halted, events>>
      BY <1>3 DEF Read
    <2> QED
      BY <1>1, <1>2, <2>1, <2>3, <2>4, <2>5
  <1>4. CASE EmptyCallback(s)
    <2>1. CASE Halt
      BY <1>4, <2>1, HaltKeeps DEF EmptyCallback, RpcInv, TypeOK
    <2>2. CASE ~Halt
      <3> DEFINE r == AfterRead(ses[s])
      <3>1. /\ r \in SessionSet
            /\ r.owner = ses[s].owner /\ r.callbacks = ses[s].callbacks /\ r.closed = ses[s].closed
            /\ r.flags = ses[s].flags /\ r.does = ses[s].does /\ r.pc \in {"wait", "decoded"}
        BY <1>1 DEF AfterRead, SessionSet
      <3>2. /\ life[s] = "running" /\ ses[s].pc = "empty" /\ Set(s, r)
            /\ UNCHANGED <<thread_vars, busy, gui, app, freeing, transports, halted, events>>
        BY <1>4, <2>2 DEF EmptyCallback
      <3> HIDE DEF r
      <3> QED
        BY <1>1, <1>2, <3>1, <3>2
    <2> QED
      BY <2>1, <2>2
  <1>5. CASE WaitFlags(s)
    <2>1. /\ life[s] = "running" /\ ses[s].pc = "wait"
          /\ UNCHANGED <<thread_vars, busy, gui, app, freeing, transports, halted, events>>
      BY <1>5 DEF WaitFlags
    <2>2. PICK r : /\ Set(s, r)
                   /\ \/ "Disconnect" \in ses[s].flags /\ r \in Cut(ses[s])
                      \/ r = [ses[s] EXCEPT !.flags = @ \cap {"Disconnect"}, !.pc = "read"]
      BY <1>5 DEF WaitFlags
    <2>3. /\ r \in SessionSet
          /\ r.owner = ses[s].owner /\ r.callbacks = ses[s].callbacks /\ r.closed = ses[s].closed
          /\ r.pc \in {"end", "decoded", "read"}
          /\ \/ ses[s].closed
             \/ r.flags \subseteq ses[s].flags /\ r.does = ses[s].does /\ r.pc = "read"
      <3>1. CASE "Disconnect" \in ses[s].flags /\ r \in Cut(ses[s])
        <4>1. \/ r = [ses[s] EXCEPT !.flags = {}, !.pc = "end"]
              \/ r = [ses[s] EXCEPT !.flags = {}, !.pc = "decoded", !.does = "last"]
          BY <3>1 DEF Cut
        <4>2. CASE r = [ses[s] EXCEPT !.flags = {}, !.pc = "end"]
          BY <1>1, <3>1, <4>2 DEF SessionSet
        <4>3. CASE r = [ses[s] EXCEPT !.flags = {}, !.pc = "decoded", !.does = "last"]
          BY <1>1, <3>1, <4>3 DEF SessionSet
        <4> QED
          BY <4>1, <4>2, <4>3
      <3>2. CASE r = [ses[s] EXCEPT !.flags = @ \cap {"Disconnect"}, !.pc = "read"]
        BY <1>1, <3>2 DEF SessionSet
      <3> QED
        BY <2>2, <3>1, <3>2
    <2> QED
      BY <1>1, <1>2, <2>1, <2>2, <2>3
  <1>6. CASE NoHandler(s)
    <2>1. /\ life[s] = "running" /\ ses[s].pc = "decoded"
          /\ UNCHANGED <<thread_vars, busy, gui, app, freeing, transports, halted, events>>
      BY <1>6 DEF NoHandler
    <2>2. PICK r \in SessionSet :
            /\ Set(s, r)
            /\ r.owner = ses[s].owner /\ r.callbacks = ses[s].callbacks /\ r.closed = ses[s].closed
            /\ r.flags = ses[s].flags /\ r.does = ses[s].does /\ r.pc = "answer"
      <3> DEFINE q == [ses[s] EXCEPT !.pc = "answer"]
                 e == [ses[s] EXCEPT !.pc = "answer", !.decode_error = TRUE, !.stream = 0]
      <3>1. Set(s, q) \/ Set(s, e)
        BY <1>6 DEF NoHandler
      <3>2. /\ q \in SessionSet
            /\ q.owner = ses[s].owner /\ q.callbacks = ses[s].callbacks /\ q.closed = ses[s].closed
            /\ q.flags = ses[s].flags /\ q.does = ses[s].does /\ q.pc = "answer"
        BY <1>1 DEF SessionSet
      <3>3. /\ e \in SessionSet
            /\ e.owner = ses[s].owner /\ e.callbacks = ses[s].callbacks /\ e.closed = ses[s].closed
            /\ e.flags = ses[s].flags /\ e.does = ses[s].does /\ e.pc = "answer"
        <4>1. 0 \in 0..StreamSize
          BY SizesType
        <4> QED
          BY <1>1, <4>1 DEF SessionSet
      <3> HIDE DEF q, e
      <3> QED
        BY <3>1, <3>2, <3>3
    <2> QED
      BY <1>1, <1>2, <2>1, <2>2
  <1> QED
    BY <1>3, <1>4, <1>5, <1>6

\* rpc_session_worker, from the call of a handler to the end of its answer.
LEMMA AnswerKeeps ==
    ASSUME RpcInv, NEW s \in Session,
           Handle(s) \/ StartApp(s) \/ JoinStream(s) \/ Send(s) \/ AfterSend(s)
    PROVE  RpcInv'
  <1> USE DEF At, Running, transports, freeing, thread_vars
  <1> DEFINE GuiSet == [flags : SUBSET {"Transmit", "Exit"}, sending : BOOLEAN]
             BtSet == [session : Session \cup {NULL}, callback : BOOLEAN,
                       disconnected : BOOLEAN, sent : BOOLEAN]
  <1>1. /\ ses[s] \in SessionSet /\ ses[s].stream \in 0..StreamSize
        /\ ses[s].pc = "end" \/ ses[s].does = "last" \/ "Disconnect" \in ses[s].flags
           => ses[s].closed
        /\ busy \in Session \cup {NULL}
        /\ busy = s => ses[s].pc \in {"join", "answer", "sending", "sent"}
        /\ gui \in [Session -> GuiSet] /\ bt \in BtSet
    BY SessionFacts DEF RpcInv, TypeOK
  <1> HIDE DEF GuiSet, BtSet
  \* Each of them is a step of this kind.
  <1>2. ASSUME NEW p \in {"join", "answer", "sending", "sent", "end", "bt", "read"},
               NEW d \in {"none", "more", "last", "request", "stream", "stop", "unknown", "error"},
               Set(s, [ses[s] EXCEPT !.pc = p, !.does = d]),
               d = "last" => ses[s].does = "last",
               p = "end" => ses[s].closed,
               p = "sending" => "send" \in ses[s].callbacks,
               life[s] = "running", ses[s].pc # "bt",
               life' \in [Thread -> {"none", "ready", "running", "ended"}],
               \A x \in Session : life'[x] = life[x],
               gui' \in [Session -> GuiSet],
               \A x \in Session : gui'[x].sending = gui[x].sending,
               \/ busy' = NULL
               \/ busy' = s /\ p \in {"join", "answer", "sending", "sent"}
               \/ busy' = busy /\ busy # s,
               app' \in [pc : {"idle", "start", "rpc", "kept", "exit"},
                         session : Session \cup {NULL}],
               usb' \in [request : BOOLEAN, semaphore : 0..1],
               bt' \in BtSet, bt'.session = bt.session,
               UNCHANGED <<ended, released, freeing, tp, uart, btsrv, halted>>,
               events' \in 0..MaxEvents
        PROVE  RpcInv'
    <2> DEFINE r == [ses[s] EXCEPT !.pc = p, !.does = d]
    <2>1. /\ r \in SessionSet
          /\ r.owner = ses[s].owner /\ r.callbacks = ses[s].callbacks /\ r.closed = ses[s].closed
          /\ r.flags = ses[s].flags /\ r.pc = p /\ r.does = d
      BY <1>1 DEF SessionSet
    <2>2. Set(s, r)
      BY <1>2
    <2> HIDE DEF r
    <2>3. TypeOK'
      BY <1>1, <1>2, <2>1, <2>2, TypesKeep, TypeParts DEF Set, GuiSet, BtSet
    <2> QED
      BY <1>1, <1>2, <2>1, <2>2, <2>3, ThreadStepKeeps
  <1>3. /\ app \in [pc : {"idle", "start", "rpc", "kept", "exit"}, session : Session \cup {NULL}]
        /\ usb \in [request : BOOLEAN, semaphore : 0..1]
        /\ life \in [Thread -> {"none", "ready", "running", "ended"}]
        /\ events \in 0..MaxEvents
        /\ ses[s].does \in {"none", "more", "last", "request", "stream", "stop", "unknown", "error"}
    BY <1>1 DEF RpcInv, TypeOK, SessionSet
  <1>4. ASSUME NEW p \in {"join", "answer", "sending", "sent"},
               ses' = [ses EXCEPT ![s] = [ses[s] EXCEPT !.pc = p]]
        PROVE  ses' = [ses EXCEPT ![s] = [ses[s] EXCEPT !.pc = p, !.does = ses[s].does]]
    BY <1>1, <1>4 DEF SessionSet
  <1>5. CASE Handle(s)
    <2>1. /\ life[s] = "running" /\ ses[s].pc = "decoded" /\ ses[s].does \in {"request", "last"}
          /\ busy' = s
          /\ UNCHANGED <<life, ended, released, app, freeing, transports, halted, events>>
      BY <1>5 DEF Handle
    <2>2. CASE /\ Set(s, [ses[s] EXCEPT !.pc = "join"])
               /\ gui' = [gui EXCEPT ![s].flags = @ \cup {"Exit"}]
      <3>1. Set(s, [ses[s] EXCEPT !.pc = "join", !.does = ses[s].does])
        BY <1>4, <2>2 DEF Set
      <3>2. gui' \in [Session -> GuiSet] /\ \A x \in Session : gui'[x].sending = gui[x].sending
        BY <1>1, <2>2 DEF GuiSet
      <3> QED
        BY <1>1, <1>2, <1>3, <2>1, <3>1, <3>2
    <2>3. ASSUME NEW d \in {"last", "request", "stop", "stream"},
                 d = "last" => ses[s].does = "last",
                 Set(s, [ses[s] EXCEPT !.pc = "answer", !.does = d]), UNCHANGED gui
          PROVE  RpcInv'
      BY <1>1, <1>2, <1>3, <2>1, <2>3
    <2> QED
      BY <1>5, <2>2, <2>3 DEF Handle
  <1>6. CASE StartApp(s)
    <2>1. /\ life[s] = "running" /\ ses[s].pc = "decoded" /\ ses[s].does = "request"
          /\ busy' = s /\ app' = [pc |-> "start", session |-> s]
          /\ UNCHANGED <<life, ended, released, gui, freeing, transports, halted>>
      BY <1>6 DEF StartApp
    <2>2. events' \in 0..MaxEvents
      BY <1>3, <1>6, SizesType DEF StartApp, Input, Event
    <2>3. Set(s, [ses[s] EXCEPT !.pc = "answer", !.does = ses[s].does])
      BY <1>4, <1>6 DEF StartApp, Set
    <2>4. app' \in [pc : {"idle", "start", "rpc", "kept", "exit"}, session : Session \cup {NULL}]
      BY <2>1
    <2> QED
      BY <1>1, <1>2, <1>3, <2>1, <2>2, <2>3, <2>4
  <1>7. CASE JoinStream(s)
    <2>1. /\ life[s] = "running" /\ ses[s].pc = "join"
          /\ LifeStep(Streamer[s], "ready", "none")
          /\ UNCHANGED <<ended, released, busy, app, freeing, transports, halted, events>>
      BY <1>7 DEF JoinStream, Free
    <2>2. Set(s, [ses[s] EXCEPT !.pc = "answer", !.does = ses[s].does])
      BY <1>4, <1>7 DEF JoinStream, Set
    <2>3. gui' \in [Session -> GuiSet] /\ \A x \in Session : gui'[x].sending = gui[x].sending
      BY <1>1, <1>7 DEF JoinStream, GuiSet
    <2>4. /\ life' \in [Thread -> {"none", "ready", "running", "ended"}]
          /\ \A x \in Session : life'[x] = life[x]
      BY <2>1, StreamerLife DEF RpcInv
    <2>5. busy' = s \/ (busy' = busy /\ busy # s)
      BY <2>1
    <2>6. "answer" # "end" /\ "answer" # "sending" /\ UNCHANGED <<app, usb, uart, bt, events>>
      BY <2>1
    <2> QED
      BY <1>1, <1>2, <1>3, <2>1, <2>2, <2>3, <2>4, <2>5, <2>6
  <1>8. CASE Send(s)
    <2>1. /\ life[s] = "running" /\ ses[s].pc = "answer"
          /\ UNCHANGED <<life, ended, released, busy, gui, app, freeing, tp, usb, uart, btsrv,
                         halted, events>>
      BY <1>8 DEF Send
    <2>2. bt' \in BtSet /\ bt'.session = bt.session
      BY <1>1, <1>8 DEF Send, SendStarts, BtSet
    <2>3. PICK q \in {"sending", "sent"} :
            /\ Set(s, [ses[s] EXCEPT !.pc = q, !.does = ses[s].does])
            /\ q = "sending" => "send" \in ses[s].callbacks
      BY <1>4, <1>8 DEF Send, Set
    <2>4. busy' = s \/ (busy' = busy /\ busy # s)
      BY <2>1
    <2>5. q # "end" /\ UNCHANGED <<life, gui, app, usb, uart, events>>
      BY <2>1
    <2> QED
      BY <1>1, <1>2, <1>3, <2>1, <2>2, <2>3, <2>4, <2>5
  <1>9. CASE AfterSend(s)
    <2>1. /\ life[s] = "running" /\ ses[s].pc = "sent"
          /\ busy' = IF busy = s THEN NULL ELSE busy
          /\ UNCHANGED <<ended, released, gui, app, freeing, tp, uart, bt, btsrv, halted, events>>
      BY <1>9 DEF AfterSend, Answered
    <2>2. usb' \in [request : BOOLEAN, semaphore : 0..1]
      <3>1. usb' = [usb EXCEPT !.request = TRUE] \/ usb' = usb
        BY <1>9 DEF AfterSend
      <3> QED
        BY <1>3, <3>1
    <2>3. /\ life' \in [Thread -> {"none", "ready", "running", "ended"}]
          /\ \A x \in Session : life'[x] = life[x]
      <3>1. LifeStep(Streamer[s], "none", "running") \/ life' = life
        BY <1>9 DEF AfterSend, Answered
      <3> QED
        BY <1>3, <3>1, StreamerLife DEF RpcInv
    <2>4. PICK q \in {"end", "bt", "read"} :
            /\ Set(s, [ses[s] EXCEPT !.pc = q, !.does = "none"])
            /\ q = "end" => ses[s].does = "last"
      <3> DEFINE q == IF ses[s].does = "last" THEN "end"
                      ELSE IF ses[s].does = "error" /\ ses[s].owner = "ble" THEN "bt" ELSE "read"
      <3>1. q \in {"end", "bt", "read"} /\ (q = "end" => ses[s].does = "last")
        OBVIOUS
      <3>2. Set(s, [ses[s] EXCEPT !.does = "none", !.pc = q])
        BY <1>9 DEF AfterSend
      <3> HIDE DEF q
      <3>3. [ses[s] EXCEPT !.does = "none", !.pc = q] = [ses[s] EXCEPT !.pc = q, !.does = "none"]
        BY <1>1 DEF SessionSet
      <3> QED
        BY <3>1, <3>2, <3>3
    <2> QED
      BY <1>1, <1>2, <1>3, <2>1, <2>2, <2>3, <2>4
  <1> QED
    BY <1>5, <1>6, <1>7, <1>8, <1>9

\* send_bytes_callback returns to a session's thread or to its GuiRpcWorker.
LEMMA SentKeeps ==
    ASSUME RpcInv, NEW s \in Session, SentUsb(s) \/ SentUart(s) \/ SentBle(s)
    PROVE  RpcInv'
  <1> USE DEF Running, freeing, thread_vars
  <1>1. /\ UNCHANGED <<life, ended, released, busy, app, pending, others, daemon, tp, usb, btsrv,
                       halted, events>>
        /\ \/ At(s, "sending") /\ Set(s, [ses[s] EXCEPT !.pc = "sent"]) /\ UNCHANGED gui
           \/ gui' = [gui EXCEPT ![s].sending = FALSE] /\ UNCHANGED ses
    BY DEF SentUsb, SentUart, SentBle, Sent
  <1>2. /\ bt'.session = bt.session
        /\ bt' \in [session : Session \cup {NULL}, callback : BOOLEAN,
                    disconnected : BOOLEAN, sent : BOOLEAN]
    <2>1. bt' = [bt EXCEPT !.sent = FALSE] \/ bt' = bt
      BY DEF SentUsb, SentUart, SentBle
    <2> QED
      BY <2>1, TypeParts
  <1>3. /\ uart' \in [tx_semaphore : {0, 1, NULL}, error : BOOLEAN]
        /\ uart.tx_semaphore # NULL => uart'.tx_semaphore # NULL
    <2>1. \/ uart' = [uart EXCEPT !.tx_semaphore = 0] \/ uart' = [uart EXCEPT !.error = TRUE]
          \/ uart' = uart
      BY DEF SentUsb, SentUart, SentBle
    <2> QED
      BY <2>1, TypeParts, SizesType
  <1>4. /\ ses[s] \in SessionSet
        /\ ses[s].pc = "end" \/ ses[s].does = "last" \/ "Disconnect" \in ses[s].flags
           => ses[s].closed
        /\ busy = s => ses[s].pc \in {"join", "answer", "sending", "sent"}
    BY SessionFacts
  <1>5. CASE At(s, "sending") /\ Set(s, [ses[s] EXCEPT !.pc = "sent"]) /\ UNCHANGED gui
    <2> DEFINE r == [ses[s] EXCEPT !.pc = "sent"]
    <2>1. /\ r \in SessionSet
          /\ r.owner = ses[s].owner /\ r.callbacks = ses[s].callbacks /\ r.closed = ses[s].closed
          /\ r.flags = ses[s].flags /\ r.does = ses[s].does /\ r.pc = "sent"
      BY <1>4 DEF SessionSet
    <2>2. life[s] = "running" /\ ses[s].pc = "sending" /\ Set(s, r) /\ UNCHANGED gui
      BY <1>5 DEF At
    <2> HIDE DEF r
    <2>3. TypeOK'
      BY <1>1, <1>2, <1>3, <2>1, <2>2, TypesKeep, TypeParts DEF Set
    <2>4. busy' = s \/ (busy' = busy /\ busy # s)
      BY <1>1
    <2> QED
      BY <1>1, <1>2, <1>3, <1>4, <2>1, <2>2, <2>3, <2>4, ThreadStepKeeps
  <1>6. CASE gui' = [gui EXCEPT ![s].sending = FALSE] /\ UNCHANGED ses
    <2>1. /\ gui' \in [Session -> [flags : SUBSET {"Transmit", "Exit"}, sending : BOOLEAN]]
          /\ \A x \in Session : gui'[x].sending => gui[x].sending
      <3> DEFINE r == [gui[s] EXCEPT !.sending = FALSE]
      <3>1. gui' = [gui EXCEPT ![s] = r]
        BY <1>6
      <3>2. r \in [flags : SUBSET {"Transmit", "Exit"}, sending : BOOLEAN] /\ ~r.sending
        <4>1. gui[s] \in [flags : SUBSET {"Transmit", "Exit"}, sending : BOOLEAN]
          BY TypeParts
        <4> QED
          BY <4>1
      <3> HIDE DEF r
      <3> QED
        BY <3>1, <3>2, TypeParts
    <2>2. TypeOK'
      BY <1>1, <1>2, <1>3, <1>6, <2>1, TypesKeep, TypeParts
    <2>3. Queues'
      BY <1>1, QueuesKeep
    <2>4. \A x \in Session : Untouched(x)
      BY <1>6 DEF Untouched
    <2> QED
      BY <1>1, <1>2, <1>3, <1>6, <2>1, <2>2, <2>3, <2>4, CalmKeeps
  <1> QED
    BY <1>1, <1>5, <1>6

\* The GuiRpcWorker of a session, and the frames that the gui gives it.
LEMMA StreamKeeps ==
    ASSUME RpcInv, NEW s \in Session, Transmit(s) \/ TransmitEnds(s) \/ Frame(s)
    PROVE  RpcInv'
  <1> USE DEF Running, freeing, transports, thread_vars
  <1>1. /\ UNCHANGED <<released, ses, busy, app, pending, others, daemon, tp, usb, uart, btsrv,
                       halted>>
        /\ \/ UNCHANGED <<life, ended>>
           \/ LifeStep(Streamer[s], "running", "ended") /\ ended' = Append(ended, Streamer[s])
    <2>1. CASE Transmit(s)
      BY <2>1 DEF Transmit
    <2>2. CASE TransmitEnds(s)
      BY <2>2 DEF TransmitEnds, End
    <2>3. CASE Frame(s)
      BY <2>3 DEF Frame
    <2> QED
      BY <2>1, <2>2, <2>3
  <1>2. /\ bt'.session = bt.session
        /\ bt' \in [session : Session \cup {NULL}, callback : BOOLEAN,
                    disconnected : BOOLEAN, sent : BOOLEAN]
    <2>1. bt' = [bt EXCEPT !.sent = FALSE] \/ bt' = bt
      BY DEF Transmit, TransmitEnds, Frame, SendStarts
    <2> QED
      BY <2>1, TypeParts
  <1>3. /\ gui' \in [Session -> [flags : SUBSET {"Transmit", "Exit"}, sending : BOOLEAN]]
        /\ \A x \in Session : gui'[x].sending => gui[x].sending \/ "send" \in ses[x].callbacks
    <2>1. CASE Transmit(s)
      <3>1. PICK f \in SUBSET {"Transmit", "Exit"} :
              gui' = [gui EXCEPT ![s] = [flags |-> f, sending |-> "send" \in ses[s].callbacks]]
        BY <2>1, TypeParts DEF Transmit
      <3> QED
        BY <3>1, TypeParts
    <2>2. CASE TransmitEnds(s)
      BY <2>2, TypeParts DEF TransmitEnds
    <2>3. CASE Frame(s)
      BY <2>3, TypeParts DEF Frame
    <2> QED
      BY <2>1, <2>2, <2>3
  <1>4. events' \in 0..MaxEvents
    BY SizesType, TypeParts DEF Transmit, TransmitEnds, Frame, Input, Event
  <1>5. /\ life' \in [Thread -> {"none", "ready", "running", "ended"}]
        /\ \A x \in Session : life'[x] = life[x]
    BY <1>1, StreamerLife, TypeParts DEF RpcInv
  <1>6. ended' \in Seq(Thread) /\ (released => ended' # <<>>)
    <2>1. released => ended # <<>>
      BY DEF RpcInv, Queues
    <2>2. ended \in Seq(Thread) /\ Streamer[s] \in Thread
      BY StreamersApart, TypeParts
    <2>3. Append(ended, Streamer[s]) \in Seq(Thread) /\ Append(ended, Streamer[s]) # <<>>
      BY <2>2, AppendFacts
    <2> QED
      BY <1>1, <2>1, <2>2, <2>3
  <1>7. TypeOK'
    BY <1>1, <1>2, <1>3, <1>4, <1>5, <1>6, TypesKeep, TypeParts
  <1>8. Queues'
    BY <1>1, <1>5, <1>6, QueuedAreSessions DEF RpcInv, Queues, TypeOK
  <1>9. \A x \in Session : Untouched(x)
    BY <1>1 DEF Untouched
  <1> QED
    BY <1>1, <1>2, <1>3, <1>5, <1>7, <1>8, <1>9, CalmKeeps

-----------------------------------------------------------------------------
\* The types after a step that has to do with how sessions are freed.
LEMMA FreeingTypes ==
    ASSUME RpcInv, UNCHANGED <<busy, tp, uart, bt, btsrv, halted, events>>,
           ended' \in Seq(Thread), released' \in BOOLEAN,
           pending' \in Seq(Session), others' \in Nat, Len(pending') + others' <= TimerQueueSize,
           daemon' \in [pc : {"idle", "app", "gui", "last"}, session : Session \cup {NULL}],
           life' \in [Thread -> {"none", "ready", "running", "ended"}],
           ses' \in [Session -> SessionSet],
           gui' \in [Session -> [flags : SUBSET {"Transmit", "Exit"}, sending : BOOLEAN]],
           app' \in [pc : {"idle", "start", "rpc", "kept", "exit"}, session : Session \cup {NULL}],
           usb' \in [request : BOOLEAN, semaphore : 0..1]
    PROVE  TypeOK'
  BY DEF RpcInv, TypeOK

LEMMA FreeingParts ==
    ASSUME RpcInv
    PROVE  /\ pending \in Seq(Session) /\ others \in Nat
           /\ Len(pending) \in Nat /\ Len(pending) + others <= TimerQueueSize
           /\ daemon \in [pc : {"idle", "app", "gui", "last"}, session : Session \cup {NULL}]
           /\ released => ended # <<>>
  BY LenProperties DEF RpcInv, TypeOK, Queues

\* The end of a session's thread, and the scrubber.
LEMMA LifeKeeps ==
    ASSUME RpcInv, (\E s \in Session : Return(s)) \/ ScrubStop \/ ScrubReport
    PROVE  RpcInv'
  <1> USE DEF Running, freeing, transports, LifeStep
  <1>1. ASSUME NEW s \in Session, Return(s) PROVE RpcInv'
    <2>1. /\ life[s] = "running" /\ life' = [life EXCEPT ![s] = "ended"]
          /\ ended' = Append(ended, s) /\ released' = released
          /\ ses[s].pc = "end"
          /\ UNCHANGED <<ses, busy, gui, app, pending, others, daemon, tp, usb, uart, bt, btsrv,
                         halted, events>>
      BY <1>1 DEF Return, At, End
    <2>2. ses[s].closed
      BY <2>1 DEF RpcInv, Closings
    <2>3. ended' \in Seq(Thread) /\ ended' # <<>>
      <3>1. ended \in Seq(Thread) /\ s \in Thread
        BY TypeParts, SessionsAreThreads
      <3> QED
        BY <2>1, <3>1, AppendFacts
    <2>4. /\ life' \in [Thread -> {"none", "ready", "running", "ended"}]
          /\ life'[s] = "ended" /\ \A x \in Session \ {s} : life'[x] = life[x]
      BY <2>1, TypeParts, SessionsAreThreads
    <2>5. TypeOK'
      BY <2>1, <2>3, <2>4, TypesKeep, TypeParts
    <2>6. Queues'
      BY <2>1, <2>3, <2>4, QueuedAreSessions DEF RpcInv, Queues, TypeOK
    <2>7. Closings' /\ BusyHeld'
      BY <2>1, <2>2, <2>4 DEF RpcInv, Closings, BusyHeld, TypeOK
    <2>8. Owned'
      BY <2>1, <2>2, <2>4 DEF RpcInv, Owned
    <2>9. Sends' /\ Bluetooth'
      BY <2>1, <2>4 DEF RpcInv, Sends, InCallback, Bluetooth, Pointed, TypeOK
    <2> QED
      BY <2>5, <2>6, <2>7, <2>8, <2>9 DEF RpcInv
  \* What the scrubber does with a GuiRpcWorker is its joiner's matter.
  <1>2. ASSUME \A x \in Session : life'[x] = life[x],
               life' \in [Thread -> {"none", "ready", "running", "ended"}],
               ended' \in Seq(Thread), released' \in BOOLEAN, released' => ended' # <<>>,
               UNCHANGED <<ses, busy, gui, app, pending, others, daemon, tp, usb, uart, bt, btsrv,
                           halted, events>>
        PROVE  RpcInv'
    <2>1. TypeOK'
      BY <1>2, TypesKeep, TypeParts
    <2>2. Queues'
      BY <1>2, QueuesKeep
    <2>3. \A x \in Session : Untouched(x)
      BY <1>2 DEF Untouched
    <2> QED
      BY <1>2, <2>1, <2>2, <2>3, CalmKeeps
  <1>3. ASSUME ended # <<>>
        PROVE  Head(ended) \in Thread /\ Tail(ended) \in Seq(Thread)
    BY <1>3, TypeParts, TailFacts
  <1>4. CASE ScrubStop
    <2>1. /\ ended # <<>> /\ released' = TRUE
          /\ UNCHANGED <<ended, ses, busy, gui, app, pending, others, daemon, tp, usb, uart, bt,
                         btsrv, halted, events>>
          /\ \/ Head(ended) \in Joined /\ life' = [life EXCEPT ![Head(ended)] = "ready"]
             \/ life' = life
      BY <1>4 DEF ScrubStop, Stop
    <2>2. /\ \A x \in Session : life'[x] = life[x]
          /\ life' \in [Thread -> {"none", "ready", "running", "ended"}]
      BY <1>3, <2>1, TypeParts DEF Session
    <2> QED
      BY <1>2, <2>1, <2>2, TypeParts
  <1>5. CASE ScrubReport
    <2>1. /\ released /\ released' = FALSE /\ ended' = Tail(ended) /\ ended # <<>>
          /\ UNCHANGED <<ses, busy, gui, app, others, daemon, tp, usb, uart, bt, btsrv, halted,
                         events>>
      BY <1>5, FreeingParts DEF ScrubReport, Report
    <2>2. ended' \in Seq(Thread)
      BY <1>3, <2>1
    <2>3. CASE Head(ended) \notin Session
      <3>1. UNCHANGED <<life, pending>>
        BY <1>3, <1>5, <2>1, <2>3 DEF ScrubReport, Report, Session
      <3> QED
        BY <1>2, <2>1, <2>2, <3>1, TypeParts
    <2>4. CASE Head(ended) \in Session
      <3>1. PICK s \in Session : s = Head(ended)
        BY <2>4
      <3>2. /\ life[s] = "ended" /\ life' = [life EXCEPT ![s] = "ready"]
            /\ ~QueueFull /\ pending' = Append(pending, s)
        BY <1>5, <3>1 DEF ScrubReport, Report, Session
      <3>3. /\ life' \in [Thread -> {"none", "ready", "running", "ended"}]
            /\ life'[s] = "ready" /\ \A x \in Session \ {s} : life'[x] = life[x]
        BY <3>2, TypeParts, SessionsAreThreads
      <3>4. s \notin ToSet(pending)
        BY <3>2 DEF RpcInv, Queues
      <3>5. /\ pending' \in Seq(Session) /\ IsInjective(pending')
            /\ ToSet(pending') = ToSet(pending) \cup {s}
        BY <3>2, <3>4, FreeingParts, AppendFacts DEF RpcInv, Queues
      <3>6. Len(pending') + others <= TimerQueueSize
        <4>1. Len(pending') = Len(pending) + 1
          BY <3>2, FreeingParts, AppendProperties
        <4>2. ~(Len(pending) + others >= TimerQueueSize)
          BY <3>2 DEF QueueFull
        <4> QED
          BY <4>1, <4>2, FreeingParts, SizesType
      <3>7. TypeOK'
        BY <2>1, <2>2, <3>3, <3>5, <3>6, FreeingTypes, TypeParts, FreeingParts
      <3>8. Queues'
        BY <2>1, <3>2, <3>3, <3>5, QueuedAreSessions DEF RpcInv, Queues, TypeOK
      <3>9. Closings' /\ BusyHeld'
        BY <2>1, <3>2, <3>3 DEF RpcInv, Closings, BusyHeld, TypeOK
      <3>10. Owned'
        BY <2>1, <3>2, <3>3 DEF RpcInv, Owned
      <3>11. Sends' /\ Bluetooth'
        BY <2>1, <3>2, <3>3 DEF RpcInv, Sends, InCallback, Bluetooth, Pointed, TypeOK
      <3> QED
        BY <3>7, <3>8, <3>9, <3>10, <3>11 DEF RpcInv
    <2> QED
      BY <2>3, <2>4
  <1> QED
    BY <1>1, <1>4, <1>5

\* What an application's callback is does not matter to anyone but the daemon.
LEMMA CallbackFacts ==
    ASSUME TypeOK, NEW s \in Session \cup {NULL}, NEW c,
           Set(s, [ses[s] EXCEPT !.callbacks = c]),
           s \in Session => /\ c \subseteq ses[s].callbacks \cup {"app"}
    PROVE  /\ ses' \in [Session -> SessionSet]
           /\ \A x \in Session : Untouched(x) /\ (ses'[x].closed => ses[x].closed)
  <1>1. CASE s = NULL
    <2>1. ses' = ses
      BY <1>1, SizesType DEF Set, TypeOK
    <2> QED
      BY <2>1 DEF Untouched, TypeOK
  <1>2. CASE s # NULL
    <2> DEFINE r == [ses[s] EXCEPT !.callbacks = c]
    <2>1. s \in Session /\ ses[s] \in SessionSet /\ ses' = [ses EXCEPT ![s] = r]
      BY <1>2 DEF Set, TypeOK
    <2>2. /\ r \in SessionSet /\ r.flags = ses[s].flags
          /\ r.owner = ses[s].owner /\ r.pc = ses[s].pc /\ r.does = ses[s].does
          /\ r.closed = ses[s].closed /\ ("send" \in r.callbacks => "send" \in ses[s].callbacks)
      BY <2>1 DEF SessionSet
    <2> HIDE DEF r
    <2> QED
      BY <2>1, <2>2 DEF TypeOK, Untouched
  <1> QED
    BY <1>1, <1>2

\* What the daemon tells a GuiRpcWorker.
LEMMA FlagFacts ==
    ASSUME RpcInv, NEW s \in Session, NEW f \in SUBSET {"Transmit", "Exit"},
           gui' = [gui EXCEPT ![s] = [gui[s] EXCEPT !.flags = f]]
    PROVE  /\ gui' \in [Session -> [flags : SUBSET {"Transmit", "Exit"}, sending : BOOLEAN]]
           /\ \A x \in Session : gui'[x].sending = gui[x].sending
  <1> DEFINE r == [gui[s] EXCEPT !.flags = f]
  <1>1. gui[s] \in [flags : SUBSET {"Transmit", "Exit"}, sending : BOOLEAN]
    BY TypeParts
  <1>2. /\ r \in [flags : SUBSET {"Transmit", "Exit"}, sending : BOOLEAN]
        /\ r.sending = gui[s].sending
    BY <1>1
  <1> HIDE DEF r
  <1>3. gui' = [gui EXCEPT ![s] = r]
    BY DEF r
  <1> QED
    BY <1>2, <1>3, TypeParts

\* The timer daemon, in rpc_session_thread_pending_callback and between.
LEMMA DaemonKeeps ==
    ASSUME RpcInv, Daemon \/ OtherTimer
    PROVE  RpcInv'
  <1> USE DEF Running, transports, thread_vars
  \* Before the session itself is freed, each step is of this kind.
  <1>1. ASSUME UNCHANGED <<ended, released, busy, tp, usb, uart, bt, btsrv, halted, events>>,
               pending' \in Seq(Session), others' \in Nat,
               Len(pending') + others' <= TimerQueueSize,
               daemon' \in [pc : {"idle", "app", "gui", "last"}, session : Session \cup {NULL}],
               life' \in [Thread -> {"none", "ready", "running", "ended"}],
               \A x \in Session : life'[x] = life[x],
               ses' \in [Session -> SessionSet],
               \A x \in Session : Untouched(x) /\ (ses'[x].closed => ses[x].closed),
               gui' \in [Session -> [flags : SUBSET {"Transmit", "Exit"}, sending : BOOLEAN]],
               \A x \in Session : gui'[x].sending = gui[x].sending,
               app' \in [pc : {"idle", "start", "rpc", "kept", "exit"},
                         session : Session \cup {NULL}],
               Queues'
        PROVE  RpcInv'
    <2>1. TypeOK'
      BY <1>1, FreeingTypes, TypeParts
    <2> QED
      BY <1>1, <2>1, CalmKeeps
  <1>2. \A x \in Session : UNCHANGED ses => Untouched(x) /\ (ses'[x].closed => ses[x].closed)
    BY DEF Untouched
  <1>3. CASE DaemonTimer
    <2>1. /\ others' \in Nat /\ Len(pending) + others' <= TimerQueueSize
          /\ UNCHANGED <<life, ended, released, ses, busy, gui, app, pending, daemon, tp, usb, uart,
                         bt, btsrv, halted, events>>
      BY <1>3, FreeingParts, SizesType DEF DaemonTimer
    <2>2. Queues'
      BY <2>1, QueuesKeep
    <2> QED
      BY <1>1, <1>2, <2>1, <2>2, TypeParts, FreeingParts
  <1>4. CASE OtherTimer
    <2>1. /\ others' \in Nat /\ Len(pending) + others' <= TimerQueueSize
          /\ UNCHANGED <<life, ended, released, ses, busy, gui, app, pending, daemon, tp, usb, uart,
                         bt, btsrv, halted, events>>
      BY <1>4, FreeingParts, SizesType DEF OtherTimer, QueueFull
    <2>2. Queues'
      BY <2>1, QueuesKeep
    <2> QED
      BY <1>1, <1>2, <2>1, <2>2, TypeParts, FreeingParts
  <1>5. CASE DaemonTakes
    <2>1. /\ pending # <<>> /\ pending' = Tail(pending)
          /\ UNCHANGED <<life, ended, released, busy, gui, others, tp, usb, uart, bt, btsrv, halted,
                         events>>
      BY <1>5 DEF DaemonTakes
    <2>2. PICK s \in Session : s = Head(pending)
      BY <2>1, FreeingParts, TailFacts
    <2>3. /\ pending' \in Seq(Session) /\ IsInjective(pending')
          /\ ToSet(pending) = ToSet(pending') \cup {s} /\ s \notin ToSet(pending')
      BY <2>1, <2>2, FreeingParts, TailFacts DEF RpcInv, Queues
    <2>4. Len(pending') + others <= TimerQueueSize
      <3>1. Len(pending') = Len(pending) - 1
        BY <2>1, FreeingParts, HeadTailProperties
      <3> QED
        BY <3>1, FreeingParts, SizesType
    <2>5. daemon' = [pc |-> "app", session |-> s]
      BY <1>5, <2>2 DEF DaemonTakes
    <2>6. /\ ses' \in [Session -> SessionSet]
          /\ \A x \in Session : Untouched(x) /\ (ses'[x].closed => ses[x].closed)
      <3>1. CASE UNCHANGED ses
        BY <1>2, <3>1, TypeParts
      <3>2. CASE Set(s, [ses[s] EXCEPT !.callbacks = @ \ {"app"}])
        BY <3>2, CallbackFacts DEF RpcInv
      <3> QED
        BY <1>5, <2>2, <3>1, <3>2 DEF DaemonTakes
    <2>7. app' \in [pc : {"idle", "start", "rpc", "kept", "exit"}, session : Session \cup {NULL}]
      <3>1. \/ app' = app \/ app' = [app EXCEPT !.session = NULL]
            \/ app' = [app EXCEPT !.pc = IF @ = "rpc" THEN "kept" ELSE @]
        BY <1>5 DEF DaemonTakes
      <3> QED
        BY <3>1, TypeParts
    <2>8. Queues'
      BY <2>1, <2>3, <2>5, SizesType DEF RpcInv, Queues
    <2>9. daemon' \in [pc : {"idle", "app", "gui", "last"}, session : Session \cup {NULL}]
      BY <2>5
    <2> QED
      BY <1>1, <2>1, <2>3, <2>4, <2>6, <2>7, <2>8, <2>9, TypeParts, FreeingParts
  <1>6. CASE DaemonLeavesApp
    <2>1. /\ daemon.pc = "app" /\ daemon' = [daemon EXCEPT !.pc = "gui"]
          /\ UNCHANGED <<life, ended, released, ses, busy, app, pending, others, tp, usb, uart, bt,
                         btsrv, halted, events>>
      BY <1>6 DEF DaemonLeavesApp, DaemonGoes
    <2>2. daemon' \in [pc : {"idle", "app", "gui", "last"}, session : Session \cup {NULL}]
      BY <2>1, FreeingParts
    <2>3. /\ gui' \in [Session -> [flags : SUBSET {"Transmit", "Exit"}, sending : BOOLEAN]]
          /\ \A x \in Session : gui'[x].sending = gui[x].sending
      <3>1. gui' = gui \/ gui' = [gui EXCEPT ![daemon.session].flags = @ \cup {"Exit"}]
        BY <1>6 DEF DaemonLeavesApp
      <3>2. daemon.session \in Session
        BY <2>1, FreeingParts DEF RpcInv, Queues
      <3> DEFINE f == gui[daemon.session].flags \cup {"Exit"}
      <3>3. f \in SUBSET {"Transmit", "Exit"}
        BY <3>2, TypeParts
      <3>4. \/ gui' = gui
            \/ gui' = [gui EXCEPT ![daemon.session] = [gui[daemon.session] EXCEPT !.flags = f]]
        BY <3>1
      <3> HIDE DEF f
      <3>5. CASE gui' = gui
        BY <3>5, TypeParts
      <3>6. CASE gui' # gui
        BY <3>2, <3>3, <3>4, <3>6, FlagFacts
      <3> QED
        BY <3>5, <3>6
    <2>4. Queues'
      BY <2>1, FreeingParts DEF RpcInv, Queues
    <2> QED
      BY <1>1, <1>2, <2>1, <2>2, <2>3, <2>4, TypeParts, FreeingParts
  <1>7. CASE DaemonJoins
    <2>1. /\ daemon.pc = "gui" /\ daemon' = [daemon EXCEPT !.pc = "last"]
          /\ gui' = [gui EXCEPT ![daemon.session].flags = {}]
          /\ UNCHANGED <<ended, released, ses, busy, app, pending, others, tp, usb, uart, bt, btsrv,
                         halted, events>>
      BY <1>7 DEF DaemonJoins, DaemonGoes, Free
    <2>2. daemon' \in [pc : {"idle", "app", "gui", "last"}, session : Session \cup {NULL}]
      BY <2>1, FreeingParts
    <2>3. daemon.session \in Session
      BY <2>1, FreeingParts DEF RpcInv, Queues
    <2>4. /\ gui' \in [Session -> [flags : SUBSET {"Transmit", "Exit"}, sending : BOOLEAN]]
          /\ \A x \in Session : gui'[x].sending = gui[x].sending
      <3>1. gui' = [gui EXCEPT ![daemon.session] = [gui[daemon.session] EXCEPT !.flags = {}]]
        BY <2>1
      <3>2. {} \in SUBSET {"Transmit", "Exit"}
        OBVIOUS
      <3> QED
        BY <2>3, <3>1, <3>2, FlagFacts
    <2>5. /\ life' \in [Thread -> {"none", "ready", "running", "ended"}]
          /\ \A x \in Session : life'[x] = life[x]
      <3>1. LifeStep(Streamer[daemon.session], "ready", "none") \/ life' = life
        BY <1>7 DEF DaemonJoins, Free
      <3> QED
        BY <2>3, <3>1, StreamerLife, TypeParts DEF RpcInv
    <2>6. Queues'
      BY <2>1, <2>3, <2>5, FreeingParts, QueuedAreSessions DEF RpcInv, Queues
    <2> QED
      BY <1>1, <1>2, <2>1, <2>2, <2>4, <2>5, <2>6, TypeParts, FreeingParts
  <1>8. CASE Terminate
    <2>1. PICK s \in Session : s = daemon.session
      BY <1>8, FreeingParts DEF Terminate, RpcInv, Queues
    <2>2. /\ life[s] = "ready" /\ life' = [life EXCEPT ![s] = "none"] /\ ~InCallback(s)
          /\ daemon' = [pc |-> "idle", session |-> NULL]
          /\ ses' = [ses EXCEPT ![s] = NewSession(NULL, {})]
          /\ UNCHANGED <<ended, released, busy, gui, app, pending, others, tp, uart, bt, btsrv,
                         halted, events>>
      BY <1>8, <2>1 DEF Terminate, MutexFree, Free, LifeStep, Set
    <2>3. usb' \in [request : BOOLEAN, semaphore : 0..1]
      <3>1. usb' = [usb EXCEPT !.semaphore = 1] \/ usb' = usb
        BY <1>8 DEF Terminate
      <3> QED
        BY <3>1, TypeParts
    <2>4. /\ life' \in [Thread -> {"none", "ready", "running", "ended"}]
          /\ life'[s] = "none" /\ \A x \in Session \ {s} : life'[x] = life[x]
      BY <2>2, TypeParts, SessionsAreThreads
    <2>5. ses'[s] = NewSession(NULL, {}) /\ \A x \in Session \ {s} : ses'[x] = ses[x]
      BY <2>2, TypeParts
    <2>6. TypeOK'
      <3>1. NewSession(NULL, {}) \in SessionSet
        BY NewSessionType
      <3>2. ses' \in [Session -> SessionSet]
        BY <2>2, <3>1, TypeParts
      <3>3. daemon' \in [pc : {"idle", "app", "gui", "last"}, session : Session \cup {NULL}]
        BY <2>2
      <3> QED
        BY <2>2, <2>3, <2>4, <3>2, <3>3, FreeingTypes, TypeParts, FreeingParts
    <2>7. Queues'
      <3>1. s \notin ToSet(pending)
        BY <2>1, SizesType DEF RpcInv, Queues
      <3> QED
        BY <2>2, <2>4, <3>1, FreeingParts, QueuedAreSessions DEF RpcInv, Queues
    <2>8. Closings' /\ BusyHeld'
      BY <2>2, <2>4, <2>5 DEF RpcInv, Closings, BusyHeld, TypeOK, NewSession
    <2>9. Owned'
      BY <2>2, <2>4, <2>5 DEF RpcInv, Owned
    <2>10. Sends'
      BY <2>2, <2>5 DEF RpcInv, Sends, InCallback, NewSession
    <2>11. Bluetooth'
      BY <2>2, <2>4, <2>5 DEF RpcInv, Bluetooth, Pointed, TypeOK
    <2> QED
      BY <2>6, <2>7, <2>8, <2>9, <2>10, <2>11 DEF RpcInv
  <1> QED
    BY <1>3, <1>4, <1>5, <1>6, <1>7, <1>8 DEF Daemon

\* The application that was started over RPC.
LEMMA AppKeeps ==
    ASSUME RpcInv, AppSets \/ AppExits \/ AppClears
    PROVE  RpcInv'
  <1> USE DEF Running, freeing, transports, thread_vars
  <1>1. CASE Halt
    BY <1>1, HaltKeeps, TypeParts DEF AppSets, AppExits, AppClears
  <1>2. CASE ~Halt
    <2>1. /\ UNCHANGED <<life, ended, released, busy, gui, pending, others, daemon, tp, usb, uart,
                         bt, btsrv, halted, events>>
          /\ \/ app' = [app EXCEPT !.pc = "rpc"]
             \/ app' = [app EXCEPT !.pc = IF app.session = NULL THEN "idle" ELSE "exit"]
             \/ app' = [pc |-> "idle", session |-> NULL]
          /\ \/ UNCHANGED ses
             \/ \E c : /\ Set(app.session, [ses[app.session] EXCEPT !.callbacks = c])
                       /\ c \subseteq ses[app.session].callbacks \cup {"app"}
      BY <1>2 DEF AppSets, AppExits, AppClears
    <2>2. app' \in [pc : {"idle", "start", "rpc", "kept", "exit"}, session : Session \cup {NULL}]
      BY <2>1, TypeParts
    <2>3. /\ ses' \in [Session -> SessionSet]
          /\ \A x \in Session : Untouched(x) /\ (ses'[x].closed => ses[x].closed)
      <3>1. CASE UNCHANGED ses
        BY <3>1, TypeParts DEF Untouched
      <3>2. ASSUME NEW c, Set(app.session, [ses[app.session] EXCEPT !.callbacks = c]),
                   c \subseteq ses[app.session].callbacks \cup {"app"}
            PROVE  <2>3!1 /\ <2>3!2
        <4>1. app.session \in Session \cup {NULL}
          BY TypeParts
        <4> QED
          BY <3>2, <4>1, CallbackFacts DEF RpcInv
      <3> QED
        BY <2>1, <3>1, <3>2
    <2>4. TypeOK'
      BY <2>1, <2>2, <2>3, TypesKeep, TypeParts
    <2>5. Queues'
      BY <2>1, QueuesKeep
    <2> QED
      BY <2>1, <2>3, <2>4, <2>5, CalmKeeps
  <1> QED
    BY <1>1, <1>2

\* The shell and the worker with a session of theirs.
LEMMA WiredKeeps ==
    ASSUME RpcInv,
           \/ UsbByte \/ UsbBroken \/ UsbWait \/ UartFrame \/ UartError
           \/ \E t \in Wired : Close(t)
    PROVE  RpcInv'
  <1> DEFINE TpSet == [pc : {"idle", "opening", "open", "feed", "close", "closing", "wait"},
                       session : Session \cup {NULL}]
  <1>1. /\ UNCHANGED <<life, ended, released, busy, gui, app, pending, others, daemon, bt, btsrv,
                       halted>>
        /\ events' \in 0..MaxEvents
    <2>1. UNCHANGED <<life, ended, released, busy, gui, app, pending, others, daemon, bt, btsrv,
                      halted>>
      BY DEF UsbByte, UsbBroken, UsbWait, UartFrame, UartError, Close, freeing, thread_vars
    <2>2. events' \in 0..MaxEvents
      BY SizesType, TypeParts DEF UsbByte, UsbBroken, UsbWait, UartFrame, UartError, Close,
                                  Running, Input, Event
    <2> QED
      BY <2>1, <2>2
  <1>2. /\ tp \in [Transport -> TpSet] /\ Wired \subseteq Transport
        /\ "usb" \in Wired /\ "uart" \in Wired /\ "ble" \in Transport \ Wired
        /\ TypeOK
    BY DEF RpcInv, TypeOK, Wired, Transport
  <1>3. ASSUME NEW t \in Wired, NEW q \in TpSet, tp' = [tp EXCEPT ![t] = q],
               ses' \in [Session -> SessionSet],
               usb' \in [request : BOOLEAN, semaphore : 0..1],
               uart' \in [tx_semaphore : {0, 1, NULL}, error : BOOLEAN],
               \A x \in Session : Untouched(x),
               \A x \in Session : ses'[x].closed => ses[x].closed \/ (ses[x].owner = t /\ q.pc \notin Opened),
               q.pc \in Opened =>
                   /\ tp[t].pc \in Opened /\ q.session = tp[t].session
                   /\ (t = "uart" => uart'.tx_semaphore # NULL),
               tp[t].pc \in {"open", "close"} =>
                   \/ q.session = tp[t].session /\ q.pc \in {"open", "close"}
                   \/ Silent(tp[t].session),
               t = "usb" => uart' = uart
        PROVE  RpcInv'
    <2>1. tp'[t] = q /\ \A u \in Transport \ {t} : tp'[u] = tp[u]
      BY <1>2, <1>3
    <2>2. TypeOK'
      BY <1>1, <1>2, <1>3 DEF TypeOK
    <2>3. ASSUME NEW u \in Wired, tp'[u].pc \in Opened
          PROVE  /\ tp[u].pc \in Opened /\ tp'[u].session = tp[u].session
                 /\ ~ses'[tp[u].session].closed
      BY <1>2, <1>3, <2>1, <2>3 DEF RpcInv, Owned
    <2>4. ASSUME NEW u \in Wired, tp[u].pc \in {"open", "close"}
          PROVE  \/ tp'[u].session = tp[u].session /\ tp'[u].pc \in {"open", "close"}
                 \/ Silent(tp[u].session)
      BY <1>2, <1>3, <2>1, <2>4
    <2>5. tp'["uart"].pc \in Opened /\ uart.tx_semaphore # NULL => uart'.tx_semaphore # NULL
      BY <1>2, <1>3, <2>1 DEF Wired
    <2>6. Closings' /\ BusyHeld' /\ Owned' /\ Sends'
      BY <1>1, <1>3, <2>2, <2>3, <2>4, <2>5, TransportKeeps
    <2>7. tp'["ble"] = tp["ble"]
      BY <1>2, <2>1
    <2>8. Bluetooth'
      BY <1>1, <1>3, <2>2, <2>7, PointersKeep DEF Pointed, RpcInv, Bluetooth
    <2>9. Queues'
      BY <1>1, QueuesKeep
    <2> QED
      BY <2>2, <2>6, <2>8, <2>9 DEF RpcInv
  <1>4. ASSUME NEW t \in Wired, NEW p \in {"open", "close", "closing", "wait"}
        PROVE  /\ [tp[t] EXCEPT !.pc = p] \in TpSet
               /\ [tp[t] EXCEPT !.pc = p].pc = p
               /\ [tp[t] EXCEPT !.pc = p].session = tp[t].session
               /\ [pc |-> "idle", session |-> NULL] \in TpSet
    BY <1>2
  <1>5. \A x \in Session : ses' = ses => Untouched(x)
    BY DEF Untouched
  <1>6. \A t \in Wired : tp[t].pc \in Opened =>
            tp[t].session \in Session /\ ses[tp[t].session].owner = t
    BY DEF RpcInv, Owned
  <1>7. /\ usb \in [request : BOOLEAN, semaphore : 0..1]
        /\ uart \in [tx_semaphore : {0, 1, NULL}, error : BOOLEAN]
        /\ ses \in [Session -> SessionSet]
        /\ tp["uart"].pc \in Opened => uart.tx_semaphore # NULL
    BY DEF RpcInv, TypeOK, Owned
  <1> HIDE DEF TpSet
  \* One step per way a transport may go on: with bytes, to its close, through it.
  <1>8. ASSUME NEW t \in Wired, tp[t].pc = "open", Feed(tp[t].session), UNCHANGED <<tp, usb, uart>>
        PROVE  RpcInv'
    <2>1. tp' = [tp EXCEPT ![t] = tp[t]] /\ tp[t] \in TpSet
      BY <1>2, <1>8
    <2>2. /\ ses' \in [Session -> SessionSet]
          /\ \A x \in Session : Untouched(x) /\ (ses'[x].closed => ses[x].closed)
      BY <1>2, <1>6, <1>8, FeedFacts DEF Opened
    <2>3. /\ usb' = usb /\ uart' = uart /\ (t = "uart" => uart'.tx_semaphore # NULL)
          /\ tp[t].pc \in Opened /\ tp[t].pc \in {"open", "close"}
      BY <1>7, <1>8 DEF Opened
    <2> QED
      BY <1>3, <1>7, <2>1, <2>2, <2>3
  <1>9. ASSUME NEW t \in Wired, Goto(t, "open", "close"), UNCHANGED <<ses, usb, uart>>
        PROVE  RpcInv'
    <2>1. tp[t].pc = "open" /\ tp' = [tp EXCEPT ![t] = [tp[t] EXCEPT !.pc = "close"]]
      BY <1>2, <1>9 DEF Goto
    <2> DEFINE q == [tp[t] EXCEPT !.pc = "close"]
    <2>2. q \in TpSet /\ q.pc = "close" /\ q.session = tp[t].session
      BY <1>4
    <2> HIDE DEF q
    <2>3. tp' = [tp EXCEPT ![t] = q]
      BY <2>1 DEF q
    <2>4. /\ usb' = usb /\ uart' = uart /\ (t = "uart" => uart'.tx_semaphore # NULL)
          /\ tp[t].pc \in Opened /\ q.pc \in {"open", "close"}
      BY <1>7, <1>9, <2>1, <2>2 DEF Opened
    <2>5. \A x \in Session : Untouched(x) /\ (ses'[x].closed => ses[x].closed)
      BY <1>5, <1>9
    <2> QED
      BY <1>3, <1>7, <1>9, <2>2, <2>3, <2>4, <2>5
  <1>10. CASE UsbWait
    <2> DEFINE q == [pc |-> "idle", session |-> NULL]
    <2>1. /\ tp["usb"].pc = "wait" /\ tp' = [tp EXCEPT !["usb"] = q]
          /\ usb' = [request |-> FALSE, semaphore |-> 0] /\ UNCHANGED <<ses, uart>>
      BY <1>10 DEF UsbWait, Leave
    <2>2. q \in TpSet /\ q.pc = "idle"
      BY <1>2, <1>4
    <2>3. usb' \in [request : BOOLEAN, semaphore : 0..1]
      BY <1>7, <2>1
    <2> HIDE DEF q
    <2> QED
      BY <1>2, <1>3, <1>5, <1>7, <2>1, <2>2, <2>3 DEF Opened
  <1>11. CASE UartFrame /\ uart' = [uart EXCEPT !.tx_semaphore = 1] /\ UNCHANGED <<ses, tp>>
    <2>1. /\ uart' \in [tx_semaphore : {0, 1, NULL}, error : BOOLEAN] /\ uart'.tx_semaphore # NULL
          /\ UNCHANGED usb
      BY <1>7, <1>11, SizesType DEF UartFrame
    <2>2. tp' = [tp EXCEPT !["uart"] = tp["uart"]] /\ tp["uart"] \in TpSet
      BY <1>2, <1>11
    <2>3. \A x \in Session : Untouched(x) /\ (ses'[x].closed => ses[x].closed)
      BY <1>5, <1>11
    <2>4. tp["uart"].pc = "open" /\ "uart" # "usb"
      BY <1>11 DEF UartFrame
    <2> QED
      BY <1>2, <1>3, <1>7, <1>11, <2>1, <2>2, <2>3, <2>4 DEF Opened
  <1>12. ASSUME NEW t \in Wired, Close(t) PROVE RpcInv'
    <2>1. CASE Goto(t, "close", "closing") /\ CloseSend(tp[t].session) /\ UNCHANGED uart
      <3> DEFINE q == [tp[t] EXCEPT !.pc = "closing"]
      <3>1. tp[t].pc = "close" /\ tp' = [tp EXCEPT ![t] = q]
        BY <1>2, <2>1 DEF Goto
      <3>2. q \in TpSet /\ q.pc = "closing" /\ q.session = tp[t].session
        BY <1>4
      <3>3. /\ ses' \in [Session -> SessionSet]
            /\ \A x \in Session : Untouched(x) /\ (ses'[x].closed => ses[x].closed)
            /\ Silent(tp[t].session)
        BY <1>1, <1>2, <1>6, <2>1, <3>1, CloseSendFacts DEF Opened
      <3>4. usb' = usb /\ uart' = uart
        BY <1>12, <2>1 DEF Close
      <3> HIDE DEF q
      <3>5. tp[t].pc \in Opened /\ (t = "uart" => uart'.tx_semaphore # NULL)
        BY <1>7, <3>1, <3>4 DEF Opened
      <3> QED
        BY <1>3, <1>7, <3>1, <3>2, <3>3, <3>4, <3>5
    <2>2. CASE /\ tp[t].pc = "closing" /\ CloseRest(tp[t].session)
               /\ IF t = "usb" THEN Goto(t, "closing", "wait") /\ UNCHANGED uart
                  ELSE Leave(t) /\ uart' = [tx_semaphore |-> NULL, error |-> FALSE]
      <3>1. PICK q \in TpSet : tp' = [tp EXCEPT ![t] = q] /\ q.pc \in {"wait", "idle"}
        <4>1. CASE t = "usb"
          BY <1>2, <1>4, <2>2, <4>1 DEF Goto
        <4>2. CASE t # "usb"
          BY <1>2, <1>4, <2>2, <4>2 DEF Leave
        <4> QED
          BY <4>1, <4>2
      <3>2. /\ ses' \in [Session -> SessionSet]
            /\ \A x \in Session : /\ Untouched(x)
                                  /\ ses'[x].closed => ses[x].closed \/ ses[x].owner = t
        BY <1>2, <1>6, <2>2, CloseRestFacts DEF Opened
      <3>3. /\ usb' = usb /\ uart' \in [tx_semaphore : {0, 1, NULL}, error : BOOLEAN]
            /\ t = "usb" => uart' = uart
        <4>1. [tx_semaphore |-> NULL, error |-> FALSE] \in [tx_semaphore : {0, 1, NULL}, error : BOOLEAN]
          OBVIOUS
        <4> QED
          BY <1>7, <1>12, <2>2, <4>1 DEF Close
      <3> QED
        BY <1>3, <1>7, <2>2, <3>1, <3>2, <3>3 DEF Opened
    <2> QED
      BY <1>12, <2>1, <2>2 DEF Close
  <1> QED
    BY <1>2, <1>8, <1>9, <1>10, <1>11, <1>12 DEF UsbByte, UsbBroken, UartFrame, UartError

\* rpc_session_open, by each of the transports.
LEMMA OpenKeeps ==
    ASSUME RpcInv, UsbOpen \/ UartOpen \/ GapConnected
    PROVE  RpcInv'
  <1> USE DEF RpcInv
  <1>1. PICK t \in Transport, p \in {"open", "opening"},
             c \in SUBSET {"send", "close", "empty", "terminated", "app"} :
          /\ Open(t, p, c) /\ (t # "ble" => p = "open")
          /\ usb' = [request |-> FALSE, semaphore |-> 0] \/ usb' = usb
          /\ IF t = "uart" THEN uart' = [tx_semaphore |-> 1, error |-> FALSE] ELSE uart' = uart
    BY DEF UsbOpen, UartOpen, GapConnected, Transport
  <1>2. PICK s \in Session \ (Pointed \cup {app.session}) :
          /\ life[s] = "none" /\ life' = [life EXCEPT ![s] = "running"]
          /\ ses' = [ses EXCEPT ![s] = NewSession(t, c)]
          /\ tp' = [tp EXCEPT ![t] = [pc |-> p, session |-> s]]
          /\ bt' = IF t = "ble" THEN [bt EXCEPT !.session = s, !.disconnected = FALSE] ELSE bt
    BY <1>1 DEF Open, Freed, LifeStep, Set
  <1>3. /\ tp[t].pc = "idle" /\ events' \in 0..MaxEvents
        /\ UNCHANGED <<ended, released, busy, gui, app, pending, others, daemon, btsrv, halted>>
    BY <1>1, SizesType DEF Open, Input, Event, freeing, TypeOK
  <1>4. /\ ses'[s].pc = "read" /\ ses'[s].does = "none" /\ ses'[s].flags = {}
        /\ ses'[s].owner = t /\ ~ses'[s].closed
        /\ \A x \in Session \ {s} : ses'[x] = ses[x]
        /\ life'[s] = "running" /\ \A x \in Session \ {s} : life'[x] = life[x]
    BY <1>2, SessionsAreThreads DEF TypeOK, NewSession
  <1>5. /\ tp'[t].pc = p /\ tp'[t].session = s
        /\ \A u \in Transport \ {t} : tp'[u] = tp[u]
    BY <1>2 DEF TypeOK
  <1>6. TypeOK'
    <2>1. NewSession(t, c) \in SessionSet
      BY NewSessionType
    <2>2. /\ life' \in [Thread -> {"none", "ready", "running", "ended"}]
          /\ ses' \in [Session -> SessionSet]
          /\ tp' \in [Transport -> [pc : {"idle", "opening", "open", "feed", "close", "closing",
                                          "wait"},
                                    session : Session \cup {NULL}]]
      BY <1>2, <2>1 DEF TypeOK
    <2>3. usb' \in [request : BOOLEAN, semaphore : 0..1]
      <3>1. [request |-> FALSE, semaphore |-> 0] \in [request : BOOLEAN, semaphore : 0..1]
        OBVIOUS
      <3> QED
        BY <1>1, <3>1 DEF TypeOK
    <2>4. uart' \in [tx_semaphore : {0, 1, NULL}, error : BOOLEAN]
      <3>1. [tx_semaphore |-> 1, error |-> FALSE] \in [tx_semaphore : {0, 1, NULL}, error : BOOLEAN]
        OBVIOUS
      <3> QED
        BY <1>1, <3>1 DEF TypeOK
    <2>5. bt' \in [session : Session \cup {NULL}, callback : BOOLEAN, disconnected : BOOLEAN,
                   sent : BOOLEAN]
      BY <1>2 DEF TypeOK
    <2> QED
      BY <1>3, <2>2, <2>3, <2>4, <2>5 DEF TypeOK
  <1>7. Queues'
    BY <1>2, <1>3, <1>4, FreeingParts, QueuedAreSessions DEF Queues
  <1>8. Closings'
    BY <1>4 DEF Closings
  <1>9. BusyHeld'
    BY <1>2, <1>3, <1>4 DEF BusyHeld, TypeOK
  <1>10. Owned'
    <2>1. ASSUME NEW u \in Wired, tp'[u].pc \in Opened
          PROVE  /\ tp'[u].session \in Session
                 /\ life'[tp'[u].session] = "running"
                 /\ ses'[tp'[u].session].owner = u
                 /\ ~ses'[tp'[u].session].closed
      <3>1. CASE u = t
        BY <1>4, <1>5, <3>1
      <3>2. CASE u # t
        <4>1. tp'[u] = tp[u]
          BY <1>5, <3>2 DEF Wired, Transport
        <4> QED
          BY <1>2, <1>4, <2>1, <4>1 DEF Owned
      <3> QED
        BY <3>1, <3>2
    <2>2. tp'["uart"].pc \in Opened => uart'.tx_semaphore # NULL
      <3>1. CASE t = "uart"
        BY <1>1, <3>1, SizesType
      <3>2. CASE t # "uart"
        BY <1>1, <1>5, <3>2 DEF Owned, Transport
      <3> QED
        BY <3>1, <3>2
    <2> QED
      BY <2>1, <2>2 DEF Owned
  <1>11. Sends'
    <2> SUFFICES ASSUME NEW x \in Session, NEW u \in Wired, ses'[x].owner = u,
                        InCallback(x)' \/ "send" \in ses'[x].callbacks
                 PROVE  tp'[u].session = x /\ tp'[u].pc \in {"open", "close"}
      BY DEF Sends
    <2>1. CASE x = s
      BY <1>1, <1>4, <1>5, <2>1 DEF Wired
    <2>2. CASE x # s
      <3>1. InCallback(x) \/ "send" \in ses[x].callbacks
        BY <1>3, <1>4, <2>2 DEF InCallback
      <3>2. tp[u].session = x /\ tp[u].pc \in {"open", "close"}
        BY <1>4, <2>2, <3>1 DEF Sends
      <3>3. tp'[u] = tp[u]
        BY <1>3, <1>5, <3>2 DEF Wired, Transport
      <3> QED
        BY <3>2, <3>3
    <2> QED
      BY <2>1, <2>2
  <1>12. Bluetooth'
    <2>1. CASE t = "ble"
      <3>1. bt'.session = s /\ bt' = [bt EXCEPT !.session = s, !.disconnected = FALSE]
        BY <1>2, <2>1 DEF TypeOK
      <3> QED
        BY <1>2, <1>3, <1>4, <1>5, <2>1, <3>1 DEF Bluetooth, Pointed, TypeOK
    <2>2. CASE t # "ble"
      <3>1. bt' = bt /\ tp'["ble"] = tp["ble"] /\ Pointed' = Pointed
        BY <1>2, <1>3, <1>5, <2>2 DEF Pointed, Transport
      <3> QED
        BY <1>2, <1>3, <1>4, <3>1 DEF Bluetooth, TypeOK
    <2> QED
      BY <2>1, <2>2
  <1> QED
    BY <1>6, <1>7, <1>8, <1>9, <1>10, <1>11, <1>12

\* The GAP thread and the thread of bt, which may meet at one session.
LEMMA BluetoothKeeps ==
    ASSUME RpcInv,
           \/ GapContext \/ GapData \/ GapFeed \/ GapSent \/ GapDisconnected \/ GapClose
           \/ BtUser \/ BtClose \/ \E s \in Session : BtAsked(s)
    PROVE  RpcInv'
  <1> DEFINE TpSet == [pc : {"idle", "opening", "open", "feed", "close", "closing", "wait"},
                       session : Session \cup {NULL}]
             BtSet == [session : Session \cup {NULL}, callback : BOOLEAN,
                       disconnected : BOOLEAN, sent : BOOLEAN]
             SrvSet == [pc : {"idle", "close", "closing", "answer"},
                        session : Session \cup {NULL}, for : Session \cup {NULL}]
  <1>1. /\ UNCHANGED <<life, ended, released, busy, gui, app, pending, others, daemon, usb, uart>>
        /\ events' \in 0..MaxEvents /\ halted' \in BOOLEAN
    <2>1. UNCHANGED <<life, ended, released, busy, gui, app, pending, others, daemon, usb, uart>>
      BY DEF GapContext, GapData, GapFeed, GapSent, GapDisconnected, GapClose, BtUser, BtClose,
             BtAsked, BtTakes, Halt, freeing, thread_vars, transports
    <2>2. events' \in 0..MaxEvents
      BY SizesType, TypeParts
         DEF GapContext, GapData, GapFeed, GapSent, GapDisconnected, GapClose, BtUser, BtClose,
             BtAsked, At, Running, Input, Event
    <2>3. halted' \in BOOLEAN
      BY DEF GapContext, GapData, GapFeed, GapSent, GapDisconnected, GapClose, BtUser, BtClose,
             BtAsked, BtTakes, Halt, RpcInv, TypeOK
    <2> QED
      BY <2>1, <2>2, <2>3
  <1>2. /\ tp \in [Transport -> TpSet] /\ bt \in BtSet /\ btsrv \in SrvSet
        /\ ses \in [Session -> SessionSet]
        /\ tp["ble"] \in TpSet /\ "ble" \in Transport /\ Wired \subseteq Transport \ {"ble"}
        /\ TypeOK
    BY DEF RpcInv, TypeOK, Transport, Wired
  <1>3. ASSUME NEW q \in TpSet, tp' = [tp EXCEPT !["ble"] = q], bt' \in BtSet, btsrv' \in SrvSet,
               ses' \in [Session -> SessionSet],
               \A x \in Session : Untouched(x),
               \A x \in Session : ses'[x].closed => ses[x].closed \/ ses[x].owner = "ble",
               Pointed' \subseteq Pointed \cup {NULL},
               q.pc \in {"close", "closing"} => q.session # NULL,
               btsrv'.pc \in {"close", "closing"} => btsrv'.session # NULL,
               \/ btsrv'.for \in {btsrv.for, NULL}
               \/ life[btsrv'.for] = "running" /\ ses[btsrv'.for].pc = "bt"
        PROVE  RpcInv'
    <2>1. tp'["ble"] = q /\ \A t \in Wired : tp'[t] = tp[t]
      BY <1>2, <1>3
    <2>2. TypeOK'
      BY <1>1, <1>2, <1>3 DEF TypeOK
    <2>3. \A t \in Wired : tp'[t].pc \in Opened =>
              /\ tp[t].pc \in Opened /\ tp'[t].session = tp[t].session
              /\ ~ses'[tp[t].session].closed
      BY <1>3, <2>1 DEF RpcInv, Owned, Wired
    <2>4. Closings' /\ BusyHeld' /\ Owned' /\ Sends'
      BY <1>1, <1>3, <2>1, <2>2, <2>3, TransportKeeps DEF Wired
    <2>5. Bluetooth'
      BY <1>1, <1>3, <2>1, <2>2, PointersKeep
    <2>6. Queues'
      BY <1>1, QueuesKeep
    <2> QED
      BY <2>2, <2>4, <2>5, <2>6 DEF RpcInv
  <1>4. \A x \in Session : ses' = ses => Untouched(x) /\ (ses'[x].closed => ses[x].closed)
    BY DEF Untouched
  <1>5. /\ \A x \in Pointed \cap Session : life[x] = "none" \/ ses[x].owner = "ble"
        /\ tp["ble"].pc \in {"close", "closing"} => tp["ble"].session \in Session
        /\ btsrv.pc \in {"close", "closing"} => btsrv.session \in Session
        /\ tp["ble"].pc \in {"close", "closing"} => tp["ble"].session # NULL
        /\ btsrv.pc \in {"close", "closing"} => btsrv.session # NULL
        /\ {tp["ble"].session, btsrv.session, bt.session} = Pointed
    BY <1>2 DEF RpcInv, Bluetooth, Pointed
  <1>6. Pointed' = {tp'["ble"].session, btsrv'.session, bt'.session}
    BY DEF Pointed
  <1>7. ASSUME UNCHANGED <<tp, ses, bt, btsrv>> PROVE RpcInv'
    <2>1. tp' = [tp EXCEPT !["ble"] = tp["ble"]] /\ Pointed' = Pointed
      BY <1>2, <1>7 DEF Pointed
    <2> QED
      BY <1>2, <1>3, <1>4, <1>5, <1>7, <2>1
  <1>8. ASSUME NEW p \in {"open", "feed", "closing"}
        PROVE  /\ [tp["ble"] EXCEPT !.pc = p] \in TpSet
               /\ [tp["ble"] EXCEPT !.pc = p].pc = p
               /\ [tp["ble"] EXCEPT !.pc = p].session = tp["ble"].session
    BY <1>2
  <1>9. [pc |-> "idle", session |-> NULL] \in TpSet
    OBVIOUS
  <1> HIDE DEF TpSet
  <1>10. CASE GapData
    <2> DEFINE q == [tp["ble"] EXCEPT !.pc = "feed"]
    <2>1. tp' = [tp EXCEPT !["ble"] = q] /\ UNCHANGED <<ses, bt, btsrv>>
      BY <1>2, <1>10 DEF GapData, Goto
    <2>2. q \in TpSet /\ q.pc = "feed" /\ q.session = tp["ble"].session
      BY <1>8
    <2> HIDE DEF q
    <2>3. Pointed' = Pointed
      BY <1>2, <1>5, <1>6, <2>1, <2>2
    <2> QED
      BY <1>2, <1>3, <1>4, <1>5, <2>1, <2>2, <2>3
  <1>11. CASE GapContext
    <2> DEFINE q == [tp["ble"] EXCEPT !.pc = "open"]
    <2>1. CASE Halt
      BY <1>7, <2>1 DEF Halt, transports
    <2>2. CASE ~Halt
      <3>1. /\ tp' = [tp EXCEPT !["ble"] = q] /\ UNCHANGED <<ses, btsrv>>
            /\ bt' = [bt EXCEPT !.callback = TRUE]
        BY <1>2, <1>11, <2>2 DEF GapContext, Goto
      <3>2. q \in TpSet /\ q.pc = "open" /\ q.session = tp["ble"].session
        BY <1>8
      <3> HIDE DEF q
      <3>3. bt' \in BtSet /\ bt'.session = bt.session
        BY <1>2, <3>1
      <3>4. Pointed' = Pointed
        BY <1>2, <1>5, <1>6, <3>1, <3>2, <3>3
      <3> QED
        BY <1>2, <1>3, <1>4, <1>5, <3>1, <3>2, <3>3, <3>4
    <2> QED
      BY <2>1, <2>2
  <1>12. CASE GapFeed
    <2> DEFINE q == [tp["ble"] EXCEPT !.pc = "open"]
    <2>1. CASE bt.session = NULL \/ Freed(bt.session)
      BY <1>7, <1>12, <2>1 DEF GapFeed, Halt, transports
    <2>2. CASE ~(bt.session = NULL \/ Freed(bt.session))
      <3>1. /\ Feed(bt.session) /\ bt.session \in Session /\ tp["ble"].pc = "feed"
            /\ tp' = [tp EXCEPT !["ble"] = q] /\ UNCHANGED <<bt, btsrv>>
        BY <1>2, <1>12, <2>2 DEF GapFeed, Goto
      <3>2. q \in TpSet /\ q.pc = "open" /\ q.session = tp["ble"].session
        BY <1>8, <3>1
      <3> HIDE DEF q
      <3>3. /\ ses' \in [Session -> SessionSet]
            /\ \A x \in Session : Untouched(x) /\ (ses'[x].closed => ses[x].closed)
        BY <1>2, <3>1, FeedFacts
      <3>4. Pointed' = Pointed
        BY <1>2, <1>5, <1>6, <3>1, <3>2
      <3> QED
        BY <1>2, <1>3, <1>5, <3>1, <3>2, <3>3, <3>4
    <2> QED
      BY <2>1, <2>2
  <1>13. CASE GapSent
    <2>1. tp' = [tp EXCEPT !["ble"] = tp["ble"]] /\ UNCHANGED <<ses, tp, btsrv>>
      BY <1>2, <1>13 DEF GapSent
    <2>2. bt' \in BtSet /\ bt'.session = bt.session
      BY <1>2, <1>13 DEF GapSent
    <2>3. Pointed' = Pointed
      BY <1>5, <1>6, <2>1, <2>2
    <2> QED
      BY <1>2, <1>3, <1>4, <1>5, <2>1, <2>2, <2>3
  <1>14. CASE GapDisconnected
    <2>1. UNCHANGED <<ses, btsrv>>
      BY <1>14 DEF GapDisconnected
    <2>2. bt' \in BtSet /\ bt'.session = bt.session
      BY <1>2, <1>14 DEF GapDisconnected
    <2>3. PICK q \in TpSet : /\ tp' = [tp EXCEPT !["ble"] = q]
                             /\ q.session \in {bt.session, NULL}
                             /\ q.pc \in {"close", "closing"} => q.session # NULL
      <3>1. CASE bt.session = NULL
        BY <1>9, <1>14, <3>1 DEF GapDisconnected, Leave
      <3>2. CASE bt.session # NULL
        <4>1. [pc |-> "close", session |-> bt.session] \in TpSet
          BY <1>2 DEF TpSet
        <4> QED
          BY <1>14, <3>2, <4>1 DEF GapDisconnected
      <3> QED
        BY <3>1, <3>2
    <2>4. Pointed' \subseteq Pointed \cup {NULL}
      BY <1>2, <1>5, <1>6, <2>1, <2>2, <2>3
    <2> QED
      BY <1>2, <1>3, <1>4, <1>5, <2>1, <2>2, <2>3, <2>4
  <1>15. CASE GapClose
    <2> DEFINE s == tp["ble"].session
               q == [tp["ble"] EXCEPT !.pc = "closing"]
               l == [pc |-> "idle", session |-> NULL]
    <2>1. s \in Session /\ s \in Pointed
      BY <1>5, <1>15 DEF GapClose
    <2>2. CASE Freed(s)
      BY <1>7, <1>15, <2>2 DEF GapClose, Halt, transports
    <2>3. CASE ~Freed(s) /\ Goto("ble", "close", "closing") /\ CloseSend(s) /\ UNCHANGED bt
      <3>1. tp["ble"].pc = "close" /\ tp' = [tp EXCEPT !["ble"] = q] /\ UNCHANGED <<bt, btsrv>>
        BY <1>2, <1>15, <2>3 DEF GapClose, Goto
      <3>2. q \in TpSet /\ q.pc = "closing" /\ q.session = tp["ble"].session
        BY <1>5, <1>8, <3>1
      <3> HIDE DEF q
      <3>3. /\ ses' \in [Session -> SessionSet]
            /\ \A x \in Session : Untouched(x) /\ (ses'[x].closed => ses[x].closed)
        BY <1>1, <1>2, <2>1, <2>3, CloseSendFacts
      <3>4. Pointed' = Pointed
        BY <1>2, <1>5, <1>6, <3>1, <3>2
      <3> QED
        BY <1>2, <1>3, <1>5, <3>1, <3>2, <3>3, <3>4
    <2>4. CASE /\ ~Freed(s) /\ CloseRest(s) /\ Leave("ble")
               /\ bt' = [bt EXCEPT !.session = NULL, !.callback = FALSE]
      <3>1. l \in TpSet /\ l.pc = "idle" /\ l.session = NULL /\ tp' = [tp EXCEPT !["ble"] = l]
        BY <1>9, <2>4 DEF Leave
      <3>2. UNCHANGED btsrv /\ bt' \in BtSet /\ bt'.session = NULL
        BY <1>2, <1>15, <2>4 DEF GapClose
      <3> HIDE DEF l
      <3>3. /\ ses' \in [Session -> SessionSet]
            /\ \A x \in Session : /\ Untouched(x)
                                  /\ ses'[x].closed => ses[x].closed \/ ses[x].owner = "ble"
        BY <1>2, <1>5, <2>1, <2>4, CloseRestFacts DEF Freed
      <3>4. Pointed' \subseteq Pointed \cup {NULL}
        BY <1>2, <1>5, <1>6, <3>1, <3>2
      <3> QED
        BY <1>2, <1>3, <1>5, <3>1, <3>2, <3>3, <3>4
    <2> QED
      BY <1>15, <2>2, <2>3, <2>4 DEF GapClose
  <1>16. ASSUME NEW s \in Session \cup {NULL}, BtTakes(s),
                s # NULL => life[s] = "running" /\ ses[s].pc = "bt"
         PROVE  RpcInv'
    <2>1. tp' = [tp EXCEPT !["ble"] = tp["ble"]] /\ UNCHANGED <<ses, tp>>
      BY <1>2, <1>16 DEF BtTakes
    <2>2. bt' \in BtSet /\ bt'.session = bt.session
      BY <1>2, <1>16 DEF BtTakes
    <2>3. /\ btsrv' \in SrvSet /\ btsrv'.for = s /\ btsrv'.session = bt.session
          /\ btsrv'.pc \in {"close", "closing"} => btsrv'.session # NULL
      BY <1>2, <1>16 DEF BtTakes
    <2>4. Pointed' \subseteq Pointed \cup {NULL}
      BY <1>5, <1>6, <2>1, <2>2, <2>3
    <2> QED
      BY <1>2, <1>3, <1>4, <1>5, <1>16, <2>1, <2>2, <2>3, <2>4
  <1>17. CASE BtClose
    <2> DEFINE s == btsrv.session
    <2>1. s \in Session /\ s \in Pointed
      BY <1>5, <1>17 DEF BtClose
    <2>2. CASE Freed(s)
      BY <1>7, <1>17, <2>2 DEF BtClose, Halt, transports
    <2>3. CASE /\ ~Freed(s) /\ btsrv.pc = "close" /\ CloseSend(s)
               /\ btsrv' = [btsrv EXCEPT !.pc = "closing"] /\ UNCHANGED bt
      <3>1. tp' = [tp EXCEPT !["ble"] = tp["ble"]] /\ UNCHANGED <<tp, bt>>
        BY <1>2, <1>17, <2>3 DEF BtClose
      <3>2. /\ btsrv' \in SrvSet /\ btsrv'.session = btsrv.session /\ btsrv'.for = btsrv.for
            /\ btsrv'.session # NULL
        BY <1>2, <1>5, <2>3
      <3>3. /\ ses' \in [Session -> SessionSet]
            /\ \A x \in Session : Untouched(x) /\ (ses'[x].closed => ses[x].closed)
        BY <1>1, <1>2, <2>1, <2>3, CloseSendFacts
      <3>4. Pointed' = Pointed
        BY <1>5, <1>6, <3>1, <3>2
      <3> QED
        BY <1>2, <1>3, <1>5, <3>1, <3>2, <3>3, <3>4
    <2>4. CASE /\ ~Freed(s) /\ CloseRest(s)
               /\ btsrv' = [btsrv EXCEPT !.pc = "answer", !.session = NULL]
               /\ bt' = [bt EXCEPT !.session = NULL, !.callback = FALSE]
      <3>1. tp' = [tp EXCEPT !["ble"] = tp["ble"]] /\ UNCHANGED tp
        BY <1>2, <1>17, <2>2, <2>4 DEF BtClose
      <3>2. /\ btsrv' \in SrvSet /\ btsrv'.session = NULL /\ btsrv'.for = btsrv.for
            /\ btsrv'.pc = "answer" /\ bt' \in BtSet /\ bt'.session = NULL
        BY <1>2, <2>4
      <3>3. /\ ses' \in [Session -> SessionSet]
            /\ \A x \in Session : /\ Untouched(x)
                                  /\ ses'[x].closed => ses[x].closed \/ ses[x].owner = "ble"
        BY <1>2, <1>5, <2>1, <2>4, CloseRestFacts DEF Freed
      <3>4. Pointed' \subseteq Pointed \cup {NULL}
        BY <1>5, <1>6, <3>1, <3>2
      <3> QED
        BY <1>2, <1>3, <1>5, <3>1, <3>2, <3>3, <3>4
    <2> QED
      BY <1>17, <2>2, <2>3, <2>4 DEF BtClose
  <1> QED
    BY <1>10, <1>11, <1>12, <1>13, <1>14, <1>15, <1>16, <1>17 DEF BtUser, BtAsked, At

\* The thread of bt answers whoever asked it, a session's thread for one.
LEMMA BtAnswersKeeps ==
    ASSUME RpcInv, BtAnswers
    PROVE  RpcInv'
  <1> USE DEF RpcInv
  <1> DEFINE b == btsrv.for
             l == [pc |-> "idle", session |-> NULL]
  <1>1. /\ UNCHANGED <<life, ended, released, busy, gui, app, pending, others, daemon, usb, uart, bt,
                       halted, events>>
        /\ ses' = IF b = NULL THEN ses ELSE [ses EXCEPT ![b].pc = "read"]
        /\ btsrv' = [pc |-> "idle", session |-> NULL, for |-> NULL]
        /\ tp' = [tp EXCEPT !["ble"] = l] \/ tp' = tp
    BY DEF BtAnswers, Leave, Running, freeing, thread_vars
  <1>2. b \in Session \cup {NULL} /\ (b # NULL => life[b] = "running" /\ ses[b].pc = "bt")
    BY DEF TypeOK, Bluetooth
  <1>3. /\ ses' \in [Session -> SessionSet]
        /\ \A x \in Session :
            /\ ses'[x].owner = ses[x].owner /\ ses'[x].does = ses[x].does
            /\ ses'[x].callbacks = ses[x].callbacks /\ ses'[x].flags = ses[x].flags
            /\ ses'[x].closed <=> ses[x].closed
            /\ IF x = b THEN ses'[x].pc = "read" ELSE ses'[x].pc = ses[x].pc
    <2>1. CASE b = NULL
      BY <1>1, <2>1, SizesType DEF TypeOK
    <2>2. CASE b # NULL
      <3> DEFINE r == [ses[b] EXCEPT !.pc = "read"]
      <3>1. b \in Session /\ ses[b] \in SessionSet /\ ses' = [ses EXCEPT ![b] = r]
        BY <1>1, <1>2, <2>2 DEF TypeOK
      <3>2. /\ r \in SessionSet /\ r.pc = "read"
            /\ r.owner = ses[b].owner /\ r.does = ses[b].does /\ r.callbacks = ses[b].callbacks
            /\ r.flags = ses[b].flags /\ r.closed = ses[b].closed
        BY <3>1 DEF SessionSet
      <3> HIDE DEF r
      <3> QED
        BY <3>1, <3>2 DEF TypeOK
    <2> QED
      BY <2>1, <2>2
  <1>4. /\ tp' \in [Transport -> [pc : {"idle", "opening", "open", "feed", "close", "closing", "wait"},
                                  session : Session \cup {NULL}]]
        /\ \A t \in Wired : tp'[t] = tp[t]
        /\ tp'["ble"] \in {tp["ble"], l}
    <2>1. l \in [pc : {"idle", "opening", "open", "feed", "close", "closing", "wait"},
                 session : Session \cup {NULL}]
      OBVIOUS
    <2>2. /\ tp \in [Transport -> [pc : {"idle", "opening", "open", "feed", "close", "closing", "wait"},
                                  session : Session \cup {NULL}]]
          /\ "ble" \in Transport /\ Wired \subseteq Transport \ {"ble"}
      BY DEF TypeOK, Wired, Transport
    <2>3. tp' = [tp EXCEPT !["ble"] = l] \/ tp' = tp
      BY <1>1
    <2> HIDE DEF l
    <2> QED
      BY <2>1, <2>2, <2>3
  <1>5. TypeOK'
    <2>1. btsrv' \in [pc : {"idle", "close", "closing", "answer"}, session : Session \cup {NULL},
                      for : Session \cup {NULL}]
      BY <1>1
    <2> QED
      BY <1>1, <1>3, <1>4, <2>1 DEF TypeOK
  <1>6. Queues'
    BY <1>1, QueuesKeep
  <1>7. Closings'
    BY <1>1, <1>3 DEF Closings
  <1>8. BusyHeld'
    BY <1>1, <1>2, <1>3 DEF BusyHeld, TypeOK
  <1>9. Owned'
    BY <1>1, <1>3, <1>4 DEF Owned, Wired
  <1>10. Sends'
    BY <1>1, <1>3, <1>4 DEF Sends, InCallback
  <1>11. Bluetooth'
    <2>1. Pointed' \subseteq Pointed \cup {NULL}
      BY <1>1, <1>4 DEF Pointed
    <2>2. tp'["ble"].pc \in {"close", "closing"} => tp'["ble"].session # NULL
      BY <1>4 DEF Bluetooth
    <2>3. btsrv'.pc = "idle" /\ btsrv'.for = NULL
      BY <1>1
    <2> QED
      BY <1>1, <1>3, <2>1, <2>2, <2>3, SizesType DEF Bluetooth
  <1> QED
    BY <1>5, <1>6, <1>7, <1>8, <1>9, <1>10, <1>11

-----------------------------------------------------------------------------
\* RpcInv is inductive: whichever thread takes a step, and whatever
\* the hosts, modules, phones and users do.
THEOREM RpcInvariance == Spec => []RpcInv
  <1>1. RpcInv /\ [Next]_vars => RpcInv'
    <2> SUFFICES ASSUME RpcInv, [Next]_vars PROVE RpcInv'
      OBVIOUS
    <2>1. CASE UNCHANGED vars
      BY <2>1 DEF vars, freeing, transports, thread_vars, RpcInv, TypeOK, Queues, Closings,
                  BusyHeld, Owned, Sends, InCallback, Bluetooth, Pointed
    <2>2. CASE System
      <3>1. ASSUME NEW s \in Session, SessionThread(s) PROVE RpcInv'
        BY <3>1, WorkerKeeps, AnswerKeeps, SentKeeps, LifeKeeps, BluetoothKeeps DEF SessionThread
      <3> QED
        BY <2>2, <3>1, StreamKeeps, LifeKeeps, DaemonKeeps, WiredKeeps, BluetoothKeeps,
           BtAnswersKeeps DEF System, Wired
    <2>3. CASE Environment
      BY <2>3, OpenKeeps, WiredKeeps, BluetoothKeeps, AppKeeps, AnswerKeeps, StreamKeeps, DaemonKeeps
         DEF Environment
    <2> QED
      BY <2>1, <2>2, <2>3 DEF Next
  <1> QED
    BY RpcInitially, <1>1, PTL DEF Spec

\* rpc_session_close waits for callbacks_mutex, so a callback in progress keeps
\* the shell's CliRpc and the worker's semaphore alive.
THEOREM CallbackContextAlive == Spec => []ContextAlive
  <1>1. RpcInv => ContextAlive
    BY DEF RpcInv, ContextAlive, Sends, Owned, Wired, Opened
  <1> QED
    BY RpcInvariance, <1>1, PTL

\* The shell and the expansion worker feed and close only sessions that exist:
\* none is freed before it is closed, and they alone close theirs.
THEOREM WiredOwnersSafe == Spec => []OwnersSafe
  <1>1. RpcInv => OwnersSafe
    BY DEF RpcInv, OwnersSafe, Owned, Wired, Opened, Freed
  <1> QED
    BY RpcInvariance, <1>1, PTL

\* No session's thread ends but after rpc_session_close, and none ends with
\* busy_mutex.
THEOREM EndsOnlyWhenClosed == Spec => []FreedOnlyClosed
  <1>1. RpcInv => FreedOnlyClosed
    BY DEF RpcInv, FreedOnlyClosed, Closings, BusyHeld
  <1> QED
    BY RpcInvariance, <1>1, PTL

\* rpc_session_free: the furi_thread_free in the timer daemon finds a thread that
\* is Stopped.  The session that the daemon is at is in its queue no more, and none
\* is there twice.
DaemonFreesStopped ==
    /\ \A i \in DOMAIN pending : life[pending[i]] = "ready" /\ pending[i] # daemon.session
    /\ IsInjective(pending)
    /\ daemon.pc # "idle" => life[daemon.session] = "ready"

\* However many sessions end at a time, however late the timer daemon comes to
\* them and however long it waits for an application or a GuiRpcWorker then,
\* DaemonFreesStopped holds.
THEOREM FreeFindsStoppedThread == Spec => []DaemonFreesStopped
  <1>1. RpcInv => DaemonFreesStopped
    <2>1. ASSUME RpcInv, NEW i \in DOMAIN pending
          PROVE  life[pending[i]] = "ready" /\ pending[i] # daemon.session
      <3>1. pending[i] \in Session /\ pending[i] \in ToSet(pending)
        BY <2>1, LenProperties, ElementOfSeq DEF RpcInv, TypeOK, ToSet
      <3> QED
        BY <2>1, <3>1, SizesType DEF RpcInv, Queues
    <2> QED
      BY <2>1 DEF DaemonFreesStopped, RpcInv, Queues
  <1> QED
    BY RpcInvariance, <1>1, PTL

=============================================================================
