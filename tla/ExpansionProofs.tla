--------------------------- MODULE ExpansionProofs ---------------------------
(***************************************************************************)
(* That the checks of the serial control hold for every order of calls,    *)
(* edges, mounts and ends of workers rests on two protocols: what the      *)
(* control thread has asked for when it is at each of its steps, and what  *)
(* a worker has asked for when it is at each of its own.                   *)
(***************************************************************************)
EXTENDS Expansion, SequenceFacts

\* The part of TypeOK that the proofs need.
Types ==
    /\ life \in [Thread -> {"none", "ready", "running", "ended"}]
    /\ queue \in Seq(MessageSet) /\ job \in MessageSet /\ msg \in MessageSet
    /\ state \in {"Disabled", "Enabled", "Running"}
    /\ serial_id \in Serial /\ worker \in Thread \cup {NULL}
    /\ squeue \in Seq(SMessageSet)
    /\ owner \in [Serial -> Caller \cup {NULL}] /\ listening \in Serial \cup {NULL}
    /\ wk \in [Thread -> WorkerSet]

\* What a message of the serial control's queue stands for: its sender waits
\* for it, and is at the step that has put it there.
Asked(m) ==
    /\ m.from # NULL => m.from \in waits
    /\ m.type \in {"Listen", "Ignore"} <=> m.from = Control
    /\ m.type \in {"Acquire", "Release"} => m.serial \in Serial
    /\ m.type \in {"Acquire", "Release"} => m.from # NULL
    /\ m.from \in Thread =>
        /\ \/ m.type = "Acquire" /\ wk[m.from].pc = "acquired"
           \/ m.type = "Release" /\ wk[m.from].pc = "released"
        /\ m.serial = wk[m.from].serial

Requests ==
    /\ \A i \in DOMAIN squeue : Asked(squeue[i])
    /\ \A i, j \in DOMAIN squeue : squeue[i].from = squeue[j].from /\ squeue[i].from # NULL => i = j

\* A worker owns its port only between its acquisition and its release.
HoldsPort(w) ==
    \/ wk[w].pc \in {"acquired", "receive", "exit"}
    \/ wk[w].pc = "released" /\ \E i \in DOMAIN squeue : squeue[i].from = w

Keeps(w) ==
    /\ \A s \in Serial : owner[s] = w => s = wk[w].serial /\ HoldsPort(w)
    /\ wk[w].rx_on => wk[w].pc \in {"receive", "exit"}
    /\ wk[w].session => wk[w].proto = "RpcActive" /\ wk[w].pc \in {"receive", "exit"}
    /\ life[w] # "running" => wk[w].pc \in {"acquire", "return"}
    /\ life[w] # "none" => w = worker /\ wk[w].serial \in Serial

Workers == \A w \in Thread : Keeps(w)

\* What the control thread has asked of the serial control, and what is left
\* for it to do, at each of its steps.
ControlAsks(type) == \E i \in DOMAIN squeue : squeue[i] = SMessage(type, serial_id, Control)

Quiet == \A i \in DOMAIN squeue : squeue[i].from # Control

Exact == IF state = "Enabled" THEN serial_id ELSE NULL

Listening ==
    /\ pc \in {"get", "load", "switch"} => Quiet /\ listening = Exact
    /\ pc = "done" =>
        \/ Quiet /\ listening = Exact
        \/ ControlAsks("Listen") /\ listening = NULL /\ state = "Enabled"
    /\ pc = "off" => Quiet /\ listening = serial_id /\ state = "Enabled"
    /\ pc \in {"stop", "stopped", "free", "join", "start"} => Quiet /\ listening = NULL
    /\ pc \in {"next", "alloc"} =>
        \/ Quiet /\ listening = NULL
        \/ ControlAsks("Ignore") /\ listening = serial_id
    /\ pc \in {"stop", "stopped", "start"} => state = "Running"
    /\ pc = "alloc" => state = "Enabled"
    /\ pc = "next" => worker = NULL
    /\ worker # NULL => state = "Running" \/ pc \in {"free", "join"}

\* Which messages the control thread handles at each of its steps.
Stages ==
    /\ pc \in {"get", "load", "switch", "off", "stop", "stopped", "free", "join", "alloc",
               "start", "next", "done"}
    /\ pc = "get" => ~job.lock
    /\ pc = "load" =>
        job.type = "ReloadSettings" \/ (job.type = "Enable" /\ job.lock /\ state = "Disabled")
    /\ job.type = "ReloadSettings" => pc = "load"
    /\ job.type = "ModuleConnected" => pc \in {"switch", "off", "alloc", "start", "done"}
    /\ job.type = "Enable" => pc \in {"get", "load", "switch", "next", "done"}
    /\ pc \in {"alloc", "start"} => job.type = "ModuleConnected"
    /\ pc = "next" /\ job.type = "Enable" => job.serial \in Serial
    /\ job.type = "SetListenSerial" => job.serial \in Serial
    /\ pc = "done" /\ job.type = "Disable" => state = "Disabled"

\* The application waits for the one message with a lock.
Locked ==
    /\ \A i \in DOMAIN queue :
        /\ queue[i].type \in SyncType <=> queue[i].lock
        /\ queue[i].lock => call = "wait" /\ queue[i] = msg /\ ~job.lock
        /\ queue[i].type = "SetListenSerial" => queue[i].serial \in Serial
    /\ \A i, j \in DOMAIN queue : queue[i].lock /\ queue[j].lock => i = j
    /\ job.lock => call = "wait" /\ job.type = msg.type
    /\ call = "put" =>
        /\ msg.lock /\ msg.type \in SyncType
        /\ msg.type = "SetListenSerial" => msg.serial \in Serial

\* Nothing that is queued brings a disabled service back but ReloadSettings.
Disabled ==
    /\ quiet => call \notin {"put", "wait"}
    /\ quiet /\ ~reloaded =>
        /\ state = "Disabled"
        /\ \/ pc = "get"
           \/ pc = "load" /\ job.type = "ReloadSettings"
           \/ pc \in {"switch", "done"} /\ job.type \in {"ModuleConnected", "ModuleDisconnected"}

Unharmed == halted # "listen"

ExpansionInv ==
    /\ Types /\ Requests /\ Workers /\ Listening /\ Stages /\ Locked /\ Disabled
    /\ Armed /\ Unharmed

-----------------------------------------------------------------------------

LEMMA Constants ==
    /\ Thread \subseteq Caller /\ Control \in Caller /\ App \in Caller
    /\ Control \notin Thread /\ App \notin Thread /\ Control # App
    /\ NULL \notin Caller /\ NULL \notin Thread /\ NULL # Control /\ NULL # App
    /\ NULL \notin Serial /\ Joined = Thread
  BY SerialType, CallerType DEF Caller

LEMMA MessageFacts ==
    ASSUME NEW type \in MessageType, NEW s \in Serial \cup {NULL}
    PROVE  /\ Message(type, s, TRUE) \in MessageSet /\ Message(type, s, FALSE) \in MessageSet
           /\ Message(type, s, TRUE).type = type /\ Message(type, s, FALSE).type = type
           /\ Message(type, s, TRUE).serial = s /\ Message(type, s, FALSE).serial = s
           /\ Message(type, s, TRUE).lock /\ ~Message(type, s, FALSE).lock
  BY DEF Message, MessageSet

\* A message nobody waits for, as the notification paths build it.
LEMMA UnlockedFacts ==
    ASSUME NEW type \in MessageType
    PROVE  LET m == Message(type, NULL, FALSE) IN m \in MessageSet /\ m.type = type /\ ~m.lock
  <1> DEFINE m == Message(type, NULL, FALSE)
  <1>1. m \in MessageSet
    BY DEF Message, MessageSet
  <1>2. m.type = type
    BY DEF Message
  <1>3. m.lock = FALSE
    BY DEF Message
  <1> QED
    BY ONLY <1>1, <1>2, <1>3

LEMMA NoJobFacts == NoJob \in MessageSet /\ NoJob.type = "Enable" /\ ~NoJob.lock
  <1>1. "Enable" \in MessageType
    BY DEF MessageType, SyncType
  <1> QED
    BY ONLY <1>1, UnlockedFacts DEF NoJob

LEMMA SMessageFacts ==
    ASSUME NEW type \in {"Acquire", "Release", "Logging", "Listen", "Ignore", "Irq"},
           NEW s \in Serial \cup {NULL}, NEW p \in Caller \cup {NULL}
    PROVE  LET m == SMessage(type, s, p) IN
           m \in SMessageSet /\ m.type = type /\ m.serial = s /\ m.from = p
  BY DEF SMessage, SMessageSet

LEMMA ExpansionInitially == Init => ExpansionInv
  <1> SUFFICES ASSUME Init PROVE ExpansionInv
    OBVIOUS
  <1>1. /\ life = [th \in Thread |-> "none"]
        /\ queue = <<>> /\ state = "Disabled" /\ worker = NULL /\ pc = "get" /\ job = NoJob
        /\ squeue = <<>> /\ owner = [s \in Serial |-> NULL] /\ listening = NULL
        /\ wk = [w \in Thread |-> NewWorker(NULL)]
        /\ call = "idle" /\ msg = NoJob /\ quiet = FALSE /\ halted = "no"
    BY DEF Init, LifeInit
  <1>2. serial_id \in Serial
    BY SerialType DEF Init
  <1>3. NoJob \in MessageSet /\ NoJob.type = "Enable" /\ NoJob.lock = FALSE
    BY DEF NoJob, Message, MessageSet, MessageType, SyncType
  <1>4. LET k == NewWorker(NULL) IN
          k \in WorkerSet /\ k.pc = "acquire" /\ ~k.rx_on /\ ~k.session
    BY DEF NewWorker, WorkerSet
  <1>5. /\ queue \in Seq(MessageSet) /\ squeue \in Seq(SMessageSet)
        /\ DOMAIN queue = {} /\ DOMAIN squeue = {}
    BY <1>1
  <1>6. Types
    BY <1>1, <1>2, <1>3, <1>4, <1>5 DEF Types
  <1>7. Requests
    BY <1>5 DEF Requests
  <1>8. Workers
    BY <1>1, <1>4, Constants DEF Workers, Keeps
  <1>9. Listening
    BY <1>1, <1>5 DEF Listening, Quiet, Exact
  <1>10. Stages
    BY <1>1, <1>3 DEF Stages
  <1>11. Locked
    BY <1>1, <1>3, <1>5 DEF Locked
  <1>12. Disabled /\ Armed /\ Unharmed
    BY <1>1 DEF Disabled, Armed, Unharmed
  <1> QED
    BY <1>6, <1>7, <1>8, <1>9, <1>10, <1>11, <1>12 DEF ExpansionInv

\* What each part of the invariant depends on.
LEMMA RequestsFrame ==
    ASSUME Requests, UNCHANGED <<squeue, waits>>,
           \A i \in DOMAIN squeue : LET w == squeue[i].from IN
                w \in Thread => wk'[w].pc = wk[w].pc /\ wk'[w].serial = wk[w].serial
    PROVE  Requests'
  <1>1. ASSUME NEW i \in DOMAIN squeue PROVE Asked(squeue[i])'
    <2>1. Asked(squeue[i])
      BY DEF Requests
    <2>2. CASE squeue[i].from \in Thread
      BY <2>1, <2>2 DEF Asked
    <2>3. CASE squeue[i].from \notin Thread
      BY <2>1, <2>3 DEF Asked
    <2> QED
      BY <2>2, <2>3
  <1> QED
    BY <1>1 DEF Requests

LEMMA WorkersFrame ==
    ASSUME Workers, UNCHANGED <<owner, life, worker, wk, squeue>>
    PROVE  Workers'
  BY DEF Workers, Keeps, HoldsPort

LEMMA ListeningFrame ==
    ASSUME Listening, UNCHANGED <<pc, serial_id, listening, state, worker>>,
           \A m : m.from = Control =>
                ((\E i \in DOMAIN squeue' : squeue'[i] = m) <=> \E i \in DOMAIN squeue : squeue[i] = m)
    PROVE  Listening'
  <1>1. Quiet' <=> Quiet
    BY DEF Quiet
  <1>2. ASSUME NEW type PROVE ControlAsks(type)' <=> ControlAsks(type)
    <2>1. SMessage(type, serial_id, Control).from = Control
      BY DEF SMessage
    <2> QED
      BY <2>1 DEF ControlAsks
  <1>3. Exact' = Exact
    BY DEF Exact
  <1> QED
    BY <1>1, <1>2, <1>3 DEF Listening

LEMMA StagesFrame ==
    ASSUME Stages, UNCHANGED <<pc, job, state>>
    PROVE  Stages'
  BY DEF Stages

LEMMA LockedFrame ==
    ASSUME Locked, UNCHANGED <<queue, call, msg, job>>
    PROVE  Locked'
  BY DEF Locked

LEMMA DisabledFrame ==
    ASSUME Disabled, UNCHANGED <<quiet, reloaded, call, state, pc, job>>
    PROVE  Disabled'
  BY DEF Disabled

LEMMA ArmedFrame ==
    ASSUME Armed, UNCHANGED <<listening, owner, irq>>
    PROVE  Armed'
  BY DEF Armed

\* A caller sets up the port that it holds.
LEMMA PinFrame ==
    ASSUME Armed, NEW s, owner[s] # NULL, TakePin(s)
    PROVE  Armed' /\ UNCHANGED <<squeue, waits, owner, listening>>
  BY DEF Armed, TakePin

\* What a failed check leaves.
LEMMA HaltKeeps ==
    ASSUME ExpansionInv, NEW why, Halt(why), why # "listen"
    PROVE  ExpansionInv'
  <1> USE DEF ExpansionInv, control, serial, app, thread_vars
  <1>1. /\ UNCHANGED <<life, queue, state, serial_id, worker, pc, job, squeue, waits, owner,
                       listening, irq, wk, call, msg, quiet, reloaded>>
        /\ halted' # "listen"
    BY DEF Halt
  <1>2. Types' /\ Unharmed'
    BY <1>1 DEF Types, Unharmed
  <1>3. Requests' /\ Workers' /\ Stages' /\ Locked' /\ Disabled' /\ Armed'
    BY <1>1, RequestsFrame, WorkersFrame, StagesFrame, LockedFrame, DisabledFrame, ArmedFrame
  <1>4. Listening'
    BY <1>1, ListeningFrame
  <1> QED
    BY <1>2, <1>3, <1>4

-----------------------------------------------------------------------------
\* A caller of the serial control that rests has no message there.
LEMMA Rests ==
    ASSUME Requests, NEW p, p # NULL, Resting(p)
    PROVE  \A i \in DOMAIN squeue : squeue[i].from # p
  BY DEF Requests, Asked, Resting

LEMMA ControlRests ==
    ASSUME Requests, Resting(Control)
    PROVE  Quiet /\ \A type : ~ControlAsks(type)
  <1>1. Quiet
    BY Rests, Constants DEF Quiet
  <1>2. ASSUME NEW type PROVE SMessage(type, serial_id, Control).from = Control
    BY DEF SMessage
  <1> QED
    BY <1>1, <1>2 DEF Quiet, ControlAsks

\* The control thread takes a message.
LEMMA GetKeeps == ExpansionInv /\ ControlGet => ExpansionInv'
  <1> SUFFICES ASSUME ExpansionInv, ControlGet PROVE ExpansionInv'
    OBVIOUS
  <1> USE DEF ExpansionInv, control, serial, app, thread_vars
  <1>1. /\ UNCHANGED <<life, state, serial_id, worker, squeue, waits, owner, listening, irq, wk,
                       call, msg, quiet, reloaded, halted>>
        /\ pc = "get" /\ queue # <<>> /\ job' = Head(queue) /\ queue' = Tail(queue)
        /\ pc' = IF job'.type = "ReloadSettings" \/ (job'.type = "Enable" /\ state = "Disabled")
                 THEN "load" ELSE "switch"
    BY DEF ControlGet, At, Goto
  <1>2. /\ queue' \in Seq(MessageSet) /\ 1 \in DOMAIN queue /\ job' = queue[1]
        /\ job' \in MessageSet
        /\ \A i \in DOMAIN queue' :
              i \in Nat /\ i + 1 \in DOMAIN queue /\ i + 1 # 1 /\ queue'[i] = queue[i + 1]
    BY <1>1, TailElements DEF Types
  <1>3. /\ job'.type \in SyncType <=> job'.lock
        /\ job'.lock => call = "wait" /\ job' = msg
        /\ job'.type = "SetListenSerial" => job'.serial \in Serial
        /\ job'.type \in MessageType
    BY <1>2 DEF Locked, MessageSet
  <1>4. Types'
    BY <1>1, <1>2 DEF Types
  <1>5. Requests' /\ Workers' /\ Armed' /\ Unharmed'
    BY <1>1, RequestsFrame, WorkersFrame, ArmedFrame DEF Unharmed
  <1>6. Listening'
    BY <1>1 DEF Listening, Quiet, Exact
  <1>7. Stages'
    BY <1>1, <1>3 DEF Stages, SyncType
  <1>8. Locked'
    <2>1. ASSUME NEW i \in DOMAIN queue', NEW j \in DOMAIN queue', queue'[i].lock, queue'[j].lock
          PROVE  i = j
      <3>1. i + 1 = j + 1 /\ i \in Nat /\ j \in Nat
        BY <1>2, <2>1 DEF Locked
      <3> QED
        BY <3>1
    <2>2. ASSUME NEW i \in DOMAIN queue', queue'[i].lock PROVE ~job'.lock
      BY <1>2, <2>2 DEF Locked
    <2> QED
      BY <1>1, <1>2, <1>3, <2>1, <2>2 DEF Locked
  <1>9. Disabled'
    BY <1>1, <1>3 DEF Disabled, MessageType, SyncType
  <1> QED
    BY <1>4, <1>5, <1>6, <1>7, <1>8, <1>9

\* It loads the settings.
LEMMA LoadKeeps == ExpansionInv /\ ControlLoad => ExpansionInv'
  <1> SUFFICES ASSUME ExpansionInv, ControlLoad PROVE ExpansionInv'
    OBVIOUS
  <1> USE DEF ExpansionInv, control, serial, app, thread_vars
  <1>1. /\ UNCHANGED <<life, queue, state, serial_id, worker, squeue, waits, owner, listening,
                       irq, wk, call, msg, quiet, halted>>
        /\ pc = "load"
        /\ reloaded' = (quiet /\ (reloaded \/ job.type = "ReloadSettings"))
    BY DEF ControlLoad, At
  <1>2. PICK index \in Serial \cup {NULL} :
        IF job.type = "Enable"
        THEN job' = [job EXCEPT !.serial = index] /\ pc' = (IF index = NULL THEN "done" ELSE "next")
        ELSE /\ job' = Message(IF index = NULL THEN "Disable" ELSE "SetListenSerial", index, FALSE)
             /\ pc' = "switch"
    BY DEF ControlLoad, Goto
  <1>3. job \in MessageSet
    BY DEF Types
  <1>4. CASE job.type = "Enable"
    <2>1. job' \in MessageSet /\ job'.type = "Enable" /\ job'.serial = index
          /\ (job'.lock <=> job.lock)
      BY <1>2, <1>3, <1>4 DEF MessageSet
    <2>2. Types'
      BY <1>1, <2>1 DEF Types
    <2>3. Requests' /\ Workers' /\ Armed' /\ Unharmed'
      BY <1>1, RequestsFrame, WorkersFrame, ArmedFrame DEF Unharmed
    <2>4. job.lock /\ state = "Disabled" /\ pc' \in {"done", "next"}
          /\ (pc' = "next" => index \in Serial)
      BY <1>1, <1>2, <1>4 DEF Stages
    <2>5. Listening'
      BY <1>1, <2>4 DEF Listening, Quiet, Exact
    <2>6. Stages' /\ Locked'
      BY <1>1, <2>1, <2>4, <1>4 DEF Stages, Locked
    <2>7. Disabled'
      BY <1>1, <1>4, <2>4 DEF Disabled, Locked
    <2> QED
      BY <2>2, <2>3, <2>5, <2>6, <2>7
  <1>5. CASE job.type # "Enable"
    <2>1. /\ job' \in MessageSet /\ ~job'.lock /\ pc' = "switch"
          /\ \/ job'.type = "Disable"
             \/ job'.type = "SetListenSerial" /\ job'.serial \in Serial
      <3>1. pc' = "switch" /\ \E type \in {"Disable", "SetListenSerial"} :
              /\ job' = Message(type, index, FALSE)
              /\ type = "SetListenSerial" => index \in Serial
        BY <1>2, <1>5
      <3>2. PICK type \in {"Disable", "SetListenSerial"} :
              /\ job' = Message(type, index, FALSE)
              /\ type = "SetListenSerial" => index \in Serial
        BY <3>1
      <3>3. type \in MessageType
        BY DEF MessageType, SyncType
      <3>4. job' \in MessageSet /\ job'.type = type /\ job'.serial = index /\ ~job'.lock
        BY <3>2, <3>3, MessageFacts
      <3> QED
        BY <3>1, <3>2, <3>4
    <2>2. Types'
      BY <1>1, <2>1 DEF Types
    <2>3. Requests' /\ Workers' /\ Armed' /\ Unharmed'
      BY <1>1, RequestsFrame, WorkersFrame, ArmedFrame DEF Unharmed
    <2>4. Listening'
      BY <1>1, <2>1 DEF Listening, Quiet, Exact
    <2>5. Stages' /\ Locked'
      BY <1>1, <2>1 DEF Stages, Locked
    <2>6. job.type = "ReloadSettings"
      BY <1>1, <1>5 DEF Stages
    <2>7. Disabled'
      BY <1>1, <2>6 DEF Disabled
    <2> QED
      BY <2>2, <2>3, <2>4, <2>5, <2>7
  <1> QED
    BY <1>4, <1>5

\* It finds out what to take down, if anything.
LEMMA SwitchKeeps == ExpansionInv /\ ControlSwitch => ExpansionInv'
  <1> SUFFICES ASSUME ExpansionInv, ControlSwitch PROVE ExpansionInv'
    OBVIOUS
  <1> USE DEF ExpansionInv, control, serial, app, thread_vars
  <1>1. /\ UNCHANGED <<life, queue, job, serial_id, worker, squeue, waits, owner, listening, irq,
                       wk, call, msg, quiet, reloaded, halted>>
        /\ pc = "switch"
        /\ pc' = IF Ignored(job) THEN "done" ELSE TakeDown(job)
        /\ state' = IF job.type = "ModuleDisconnected" /\ ~Ignored(job) THEN "Enabled" ELSE state
    BY DEF ControlSwitch, At, Goto
  <1>2. /\ job.type \in MessageType /\ job.type # "ReloadSettings"
        /\ state \in {"Disabled", "Enabled", "Running"}
    BY <1>1 DEF Types, Stages, MessageSet
  <1>3. \/ pc' = "done" /\ state' = state /\ (job.type = "Disable" => state = "Disabled")
        \/ job.type = "ModuleDisconnected" /\ state = "Running" /\ state' = "Enabled" /\ pc' = "free"
        \/ job.type = "ModuleConnected" /\ state = "Enabled" /\ state' = state /\ pc' = "off"
        \/ /\ job.type \in {"Disable", "SetListenSerial"} /\ state' = state
           /\ \/ state = "Disabled" /\ pc' = "next" /\ job.type = "SetListenSerial"
              \/ state = "Enabled" /\ pc' = "off"
              \/ state = "Running" /\ pc' = "stop"
    <2>1. CASE job.type = "Enable"
      BY <1>1, <2>1 DEF Ignored
    <2>2. CASE job.type = "ModuleConnected"
      BY <1>1, <2>2 DEF Ignored, TakeDown
    <2>3. CASE job.type = "ModuleDisconnected"
      BY <1>1, <2>3 DEF Ignored, TakeDown
    <2>4. ASSUME job.type \in {"Disable", "SetListenSerial"}
          PROVE  TakeDown(job) = IF state = "Disabled" THEN "next"
                                 ELSE IF state = "Enabled" THEN "off" ELSE "stop"
      <3>1. TakeDown(job) = [Disabled |-> "next", Enabled |-> "off", Running |-> "stop"][state]
        BY <2>4 DEF TakeDown
      <3> QED
        BY <1>2, <3>1
    <2>5. CASE job.type = "Disable"
      <3>1. Ignored(job) <=> state = "Disabled"
        BY <2>5 DEF Ignored
      <3> QED
        BY <1>1, <1>2, <2>4, <2>5, <3>1
    <2>6. CASE job.type = "SetListenSerial"
      <3>1. Ignored(job) <=> state # "Disabled" /\ serial_id = job.serial
        BY <2>6 DEF Ignored
      <3> QED
        BY <1>1, <1>2, <2>4, <2>6, <3>1
    <2> QED
      BY <1>2, <2>1, <2>2, <2>3, <2>5, <2>6 DEF MessageType, SyncType
  <1>4. Types'
    BY <1>1, <1>3 DEF Types
  <1>5. Requests' /\ Workers' /\ Armed' /\ Unharmed' /\ Locked'
    BY <1>1, RequestsFrame, WorkersFrame, ArmedFrame, LockedFrame DEF Unharmed
  <1>6. Listening'
    BY <1>1, <1>3 DEF Listening, Quiet, Exact
  <1>7. Stages'
    BY <1>1, <1>3 DEF Stages
  <1>8. Disabled'
    BY <1>1, <1>3 DEF Disabled
  <1> QED
    BY <1>4, <1>5, <1>6, <1>7, <1>8

\* It has handled one, and lets the caller go.
LEMMA DoneKeeps == ExpansionInv /\ (ControlDisabled \/ ControlDone) => ExpansionInv'
  <1> SUFFICES ASSUME ExpansionInv, ControlDisabled \/ ControlDone PROVE ExpansionInv'
    OBVIOUS
  <1> USE DEF ExpansionInv, control, serial, app, thread_vars
  <1>1. CASE ControlDisabled
    <2>1. /\ UNCHANGED <<life, queue, serial_id, worker, job, squeue, waits, owner, listening,
                         irq, wk, call, msg, quiet, reloaded, halted>>
          /\ pc = "next" /\ job.type = "Disable" /\ Resting(Control)
          /\ state' = "Disabled" /\ pc' = "done"
      BY <1>1 DEF ControlDisabled, At, Goto
    <2>2. Types'
      BY <2>1 DEF Types
    <2>3. Requests' /\ Workers' /\ Armed' /\ Unharmed' /\ Locked'
      BY <2>1, RequestsFrame, WorkersFrame, ArmedFrame, LockedFrame DEF Unharmed
    <2>4. Quiet /\ listening = NULL /\ worker = NULL
      BY <2>1, ControlRests DEF Listening
    <2>5. Listening'
      BY <2>1, <2>4 DEF Listening, Quiet, Exact
    <2>6. Stages' /\ Disabled'
      BY <2>1 DEF Stages, Disabled
    <2> QED
      BY <2>2, <2>3, <2>5, <2>6
  <1>2. CASE ControlDone
    <2>1. /\ UNCHANGED <<life, queue, state, serial_id, worker, squeue, waits, owner, listening,
                         irq, wk, halted>>
          /\ pc = "done" /\ Resting(Control) /\ pc' = "get" /\ job' = NoJob
          /\ IF job.lock
             THEN /\ call' = "idle" /\ msg' = NoJob /\ quiet' = (msg.type = "Disable")
                  /\ reloaded' = FALSE
             ELSE UNCHANGED <<call, msg, quiet, reloaded>>
      BY <1>2 DEF ControlDone, At, Goto
    <2>2. NoJob \in MessageSet /\ NoJob.type = "Enable" /\ ~NoJob.lock
      BY ONLY NoJobFacts
    <2>3. Types'
      BY <2>1, <2>2 DEF Types
    <2>4. Requests' /\ Workers' /\ Armed' /\ Unharmed'
      BY <2>1, RequestsFrame, WorkersFrame, ArmedFrame DEF Unharmed
    <2>5. Quiet /\ listening = Exact
      BY <2>1, ControlRests DEF Listening
    <2>6. Listening'
      BY <2>1, <2>5 DEF Listening, Quiet, Exact
    <2>7. Stages'
      BY <2>1, <2>2 DEF Stages
    <2>8. Locked'
      BY <2>1, <2>2 DEF Locked
    <2>9. Disabled'
      <3>1. CASE job.lock
        BY <2>1, <3>1 DEF Disabled, Locked, Stages
      <3>2. CASE ~job.lock
        BY <2>1, <3>2 DEF Disabled
      <3> QED
        BY <3>1, <3>2
    <2> QED
      BY <2>3, <2>4, <2>6, <2>7, <2>8, <2>9
  <1> QED
    BY <1>1, <1>2

-----------------------------------------------------------------------------
\* A call of the serial control, by a thread that has none under way.
LEMMA AskKeeps ==
    ASSUME Types, Requests, NEW p \in Caller, NEW s \in Serial \cup {NULL},
           NEW type \in {"Acquire", "Release", "Logging", "Listen", "Ignore"}, Ask(type, s, p),
           \A i \in DOMAIN squeue : squeue[i].from # p,
           type \in {"Listen", "Ignore"} <=> p = Control,
           type \in {"Acquire", "Release"} => s \in Serial,
           p \in Thread =>
            /\ \/ type = "Acquire" /\ wk'[p].pc = "acquired"
               \/ type = "Release" /\ wk'[p].pc = "released"
            /\ s = wk'[p].serial,
           \A w \in Thread \ {p} : wk'[w].pc = wk[w].pc /\ wk'[w].serial = wk[w].serial
    PROVE  /\ squeue' \in Seq(SMessageSet) /\ Requests'
           /\ UNCHANGED <<owner, listening, irq>>
           /\ \A m : m.from # p =>
                ((\E i \in DOMAIN squeue' : squeue'[i] = m) <=> \E i \in DOMAIN squeue : squeue[i] = m)
           /\ \E i \in DOMAIN squeue' : squeue'[i] = SMessage(type, s, p)
           /\ \A i \in DOMAIN squeue : i \in DOMAIN squeue' /\ squeue'[i] = squeue[i]
  <1> DEFINE n == Len(squeue) + 1
             new == SMessage(type, s, p)
  <1>1. /\ squeue' = Append(squeue, new) /\ waits' = waits \cup {p}
        /\ UNCHANGED <<owner, listening, irq>>
    BY DEF Ask
  <1>2. new \in SMessageSet /\ new.type = type /\ new.serial = s /\ new.from = p
    BY SMessageFacts
  <1> HIDE DEF new
  <1>3. /\ squeue' \in Seq(SMessageSet) /\ DOMAIN squeue' = DOMAIN squeue \cup {n}
        /\ n \notin DOMAIN squeue
        /\ \A i \in DOMAIN squeue : squeue'[i] = squeue[i]
        /\ squeue'[n] = new
    BY <1>1, <1>2, AppendElements DEF Types
  <1> HIDE DEF n
  <1>4. ASSUME NEW i \in DOMAIN squeue' PROVE (Asked(squeue[i]))'
    <2>1. CASE i = n
      <3>1. squeue'[i] = new
        BY <1>3, <2>1
      <3>2. p # NULL /\ p \in waits'
        BY <1>1, Constants
      <3> QED
        BY <1>2, <3>1, <3>2 DEF Asked
    <2>2. CASE i \in DOMAIN squeue
      <3>1. Asked(squeue[i]) /\ squeue'[i] = squeue[i] /\ squeue[i].from # p
        BY <1>3, <2>2 DEF Requests
      <3> QED
        BY <1>1, <3>1 DEF Asked
    <2> QED
      BY <1>3, <2>1, <2>2
  <1>5. ASSUME NEW i \in DOMAIN squeue', NEW j \in DOMAIN squeue',
               squeue'[i].from = squeue'[j].from, squeue'[i].from # NULL
        PROVE  i = j
    BY <1>2, <1>3, <1>5 DEF Requests
  <1>6. Requests'
    BY <1>4, <1>5 DEF Requests
  <1>7. ASSUME NEW m, m.from # p
        PROVE  (\E i \in DOMAIN squeue' : squeue'[i] = m) <=> \E i \in DOMAIN squeue : squeue[i] = m
    BY <1>2, <1>3, <1>7
  <1>8. \E i \in DOMAIN squeue' : squeue'[i] = SMessage(type, s, p)
    BY <1>3 DEF new
  <1> QED
    BY <1>1, <1>3, <1>6, <1>7, <1>8

\* The workers do not notice.
LEMMA WorkersAsk ==
    ASSUME Workers, UNCHANGED <<owner, life, worker, wk>>,
           \A i \in DOMAIN squeue : i \in DOMAIN squeue' /\ squeue'[i] = squeue[i]
    PROVE  Workers'
  <1> SUFFICES ASSUME NEW w \in Thread PROVE Keeps(w)'
    BY DEF Workers
  <1>1. Keeps(w)
    BY DEF Workers
  <1>2. HoldsPort(w) => HoldsPort(w)'
    BY DEF HoldsPort
  <1> QED
    BY <1>1, <1>2 DEF Keeps

\* Detection is switched off, and on.
LEMMA ListenKeeps == ExpansionInv /\ (ControlOff \/ ControlListen) => ExpansionInv'
  <1> SUFFICES ASSUME ExpansionInv, ControlOff \/ ControlListen PROVE ExpansionInv'
    OBVIOUS
  <1> USE DEF ExpansionInv, control, serial, app, thread_vars
  <1>1. CASE ControlOff
    <2>1. /\ UNCHANGED <<life, queue, state, serial_id, worker, job, wk, call, msg, quiet,
                         reloaded, halted>>
          /\ pc = "off" /\ Ask("Ignore", serial_id, Control)
          /\ pc' = IF job.type = "ModuleConnected" THEN "alloc" ELSE "next"
      BY <1>1 DEF ControlOff, At, Goto
    <2>2. Quiet /\ listening = serial_id /\ state = "Enabled" /\ worker = NULL
      BY <2>1 DEF Listening
    <2>3. /\ squeue' \in Seq(SMessageSet) /\ Requests'
          /\ UNCHANGED <<owner, listening, irq>>
          /\ \E i \in DOMAIN squeue' : squeue'[i] = SMessage("Ignore", serial_id, Control)
          /\ \A i \in DOMAIN squeue : i \in DOMAIN squeue' /\ squeue'[i] = squeue[i]
      BY <2>1, <2>2, AskKeeps, Constants DEF Types, Quiet
    <2>4. Types'
      BY <2>1, <2>3 DEF Types
    <2>5. Workers' /\ Armed' /\ Unharmed' /\ Locked'
      BY <2>1, <2>3, WorkersAsk, ArmedFrame, LockedFrame DEF Unharmed
    <2>6. ControlAsks("Ignore")'
      BY <2>1, <2>3 DEF ControlAsks
    <2>7. Listening'
      BY <2>1, <2>2, <2>3, <2>6 DEF Listening
    <2>8. Stages'
      BY <2>1 DEF Stages
    <2>9. Disabled'
      BY <2>1 DEF Disabled
    <2> QED
      BY <2>3, <2>4, <2>5, <2>7, <2>8, <2>9
  <1>2. CASE ControlListen
    <2>1. /\ UNCHANGED <<life, queue, worker, job, wk, call, msg, quiet, reloaded, halted>>
          /\ pc = "next" /\ job.type # "Disable" /\ Resting(Control)
          /\ state' = "Enabled" /\ pc' = "done" /\ Ask("Listen", serial_id', Control)
          /\ serial_id' = IF job.type = "ModuleDisconnected" THEN serial_id ELSE job.serial
      BY <1>2 DEF ControlListen, At, Goto
    <2>2. job.type \in MessageType
      BY DEF Types, MessageSet
    <2>3. serial_id' \in Serial
      BY <2>1, <2>2 DEF Stages, Types, MessageType, SyncType
    <2>4. Quiet /\ listening = NULL /\ worker = NULL
      BY <2>1, ControlRests DEF Listening
    <2>5. /\ squeue' \in Seq(SMessageSet) /\ Requests'
          /\ UNCHANGED <<owner, listening, irq>>
          /\ \E i \in DOMAIN squeue' : squeue'[i] = SMessage("Listen", serial_id', Control)
          /\ \A i \in DOMAIN squeue : i \in DOMAIN squeue' /\ squeue'[i] = squeue[i]
      BY <2>1, <2>3, <2>4, AskKeeps, Constants DEF Quiet
    <2>6. Types'
      BY <2>1, <2>3, <2>5 DEF Types
    <2>7. Workers' /\ Armed' /\ Unharmed' /\ Locked'
      BY <2>1, <2>5, WorkersAsk, ArmedFrame, LockedFrame DEF Unharmed
    <2>8. ControlAsks("Listen")'
      BY <2>5 DEF ControlAsks
    <2>9. Listening'
      BY <2>1, <2>4, <2>5, <2>8 DEF Listening
    <2>10. Stages' /\ Disabled'
      BY <2>1 DEF Stages, Disabled
    <2> QED
      BY <2>5, <2>6, <2>7, <2>9, <2>10
  <1> QED
    BY <1>1, <1>2

\* The application asks for a port, gives it back, or changes the log's.
LEMMA AppAsks ==
    ASSUME ExpansionInv,
           NEW s \in Serial \cup {NULL}, AppAcquire(s) \/ AppRelease(s) \/ AppLogging(s),
           AppLogging(s) \/ s \in Serial
    PROVE  ExpansionInv'
  <1> USE DEF ExpansionInv, control, serial, app, others, thread_vars
  <1>1. /\ UNCHANGED <<life, queue, state, serial_id, worker, pc, job, wk, quiet, reloaded, halted>>
        /\ call = "idle" /\ Resting(App)
        /\ UNCHANGED <<call, msg>> \/ (call' = "acquire" /\ msg' = [msg EXCEPT !.serial = s])
    BY DEF AppAcquire, AppRelease, AppLogging, AppIdle
  <1>2. PICK type \in {"Acquire", "Release", "Logging"} :
            Ask(type, s, App) /\ (type = "Logging" \/ s \in Serial)
    BY DEF AppAcquire, AppRelease, AppLogging
  <1>3. /\ squeue' \in Seq(SMessageSet) /\ Requests'
        /\ UNCHANGED <<owner, listening, irq>>
        /\ \A m : m.from # App =>
              ((\E i \in DOMAIN squeue' : squeue'[i] = m) <=> \E i \in DOMAIN squeue : squeue[i] = m)
        /\ \A i \in DOMAIN squeue : i \in DOMAIN squeue' /\ squeue'[i] = squeue[i]
    <2>1. \A i \in DOMAIN squeue : squeue[i].from # App
      BY <1>1, Rests, Constants
    <2> QED
      BY <1>1, <1>2, <2>1, AskKeeps, Constants
  <1>4. msg' \in MessageSet
    BY <1>1 DEF Types, MessageSet
  <1>5. Types'
    BY <1>1, <1>3, <1>4 DEF Types
  <1>6. Workers' /\ Armed' /\ Unharmed' /\ Stages'
    BY <1>1, <1>3, WorkersAsk, ArmedFrame, StagesFrame DEF Unharmed
  <1>7. Listening'
    BY <1>1, <1>3, ListeningFrame, Constants
  <1>8. Locked' /\ Disabled'
    BY <1>1 DEF Locked, Disabled
  <1> QED
    BY <1>3, <1>5, <1>6, <1>7, <1>8

-----------------------------------------------------------------------------
\* A message that nobody waits for.
LEMMA PutUnlocked ==
    ASSUME Types, Locked, NEW type \in MessageType \ SyncType,
           queue' = Append(queue, Message(type, NULL, FALSE)), UNCHANGED <<call, msg, job>>
    PROVE  queue' \in Seq(MessageSet) /\ Locked'
  <1> DEFINE n == Len(queue) + 1
             new == Message(type, NULL, FALSE)
  <1>1. new \in MessageSet /\ new.type = type /\ ~new.lock
    <2>1. type \in MessageType
      OBVIOUS
    <2> QED
      BY ONLY <2>1, UnlockedFacts
  <1> HIDE DEF new
  <1>2. queue' = Append(queue, new)
    BY DEF new
  <1>3. /\ queue' \in Seq(MessageSet) /\ DOMAIN queue' = DOMAIN queue \cup {n}
        /\ \A i \in DOMAIN queue : queue'[i] = queue[i]
        /\ queue'[n] = new
    <2>1. queue \in Seq(MessageSet) /\ new \in MessageSet
      BY <1>1 DEF Types
    <2> QED
      BY ONLY <1>2, <2>1, AppendElements
  <1> HIDE DEF n
  <1>4. ASSUME NEW i \in DOMAIN queue', queue'[i].lock PROVE i \in DOMAIN queue /\ queue'[i] = queue[i]
    BY <1>1, <1>3, <1>4
  <1>5. ASSUME NEW i \in DOMAIN queue'
        PROVE  /\ queue'[i].type \in SyncType <=> queue'[i].lock
               /\ queue'[i].type = "SetListenSerial" => queue'[i].serial \in Serial
    <2>1. CASE i = n
      <3>1. queue'[i].type \notin SyncType /\ ~queue'[i].lock
        BY <1>1, <1>3, <2>1
      <3> QED
        BY <3>1 DEF SyncType
    <2>2. CASE i \in DOMAIN queue
      <3>1. queue'[i] = queue[i]
        BY <1>3, <2>2
      <3> QED
        BY <2>2, <3>1 DEF Locked
    <2> QED
      BY <1>3, <2>1, <2>2
  <1>6. Locked'
    BY <1>4, <1>5 DEF Locked
  <1> QED
    BY <1>3, <1>6

\* An edge on the Rx pin.
LEMMA EdgeKeeps ==
    ASSUME ExpansionInv, NEW s \in Serial, Edge(s)
    PROVE  ExpansionInv'
  <1> USE DEF ExpansionInv, control, serial, app, thread_vars
  <1> DEFINE n == Len(squeue) + 1
             new == SMessage("Irq", NULL, NULL)
  <1>1. /\ UNCHANGED <<life, queue, state, serial_id, worker, pc, job, waits, owner, listening,
                       irq, wk, call, msg, quiet, reloaded, halted>>
        /\ squeue' = squeue \/ squeue' = Append(squeue, new)
    BY DEF Edge
  <1>2. new \in SMessageSet /\ new.type = "Irq" /\ new.from = NULL
    BY SMessageFacts
  <1> HIDE DEF new
  <1>3. CASE squeue' = squeue
    BY <1>1, <1>3, RequestsFrame, WorkersFrame, ListeningFrame, StagesFrame, LockedFrame,
       DisabledFrame, ArmedFrame DEF Types, Unharmed
  <1>4. CASE squeue' = Append(squeue, new)
    <2>1. /\ squeue' \in Seq(SMessageSet) /\ DOMAIN squeue' = DOMAIN squeue \cup {n}
          /\ \A i \in DOMAIN squeue : i \in DOMAIN squeue' /\ squeue'[i] = squeue[i]
          /\ squeue'[n] = new
      BY <1>2, <1>4, AppendElements DEF Types
    <2> HIDE DEF n
    <2>2. Types'
      BY <1>1, <2>1 DEF Types
    <2>3. Requests'
      <3>1. ASSUME NEW i \in DOMAIN squeue' PROVE (Asked(squeue[i]))'
        <4>1. CASE i = n
          <5>1. squeue'[i] = new
            BY <2>1, <4>1
          <5> QED
            BY <1>2, <5>1, Constants DEF Asked
        <4>2. CASE i \in DOMAIN squeue
          <5>1. Asked(squeue[i]) /\ squeue'[i] = squeue[i]
            BY <2>1, <4>2 DEF Requests
          <5> QED
            BY <1>1, <5>1 DEF Asked
        <4> QED
          BY <2>1, <4>1, <4>2
      <3>2. ASSUME NEW i \in DOMAIN squeue', NEW j \in DOMAIN squeue',
                   squeue'[i].from = squeue'[j].from, squeue'[i].from # NULL
            PROVE  i = j
        BY <1>2, <2>1, <3>2 DEF Requests
      <3> QED
        BY <3>1, <3>2 DEF Requests
    <2>4. Workers' /\ Stages' /\ Locked' /\ Disabled' /\ Armed' /\ Unharmed'
      BY <1>1, <2>1, WorkersAsk, StagesFrame, LockedFrame, DisabledFrame, ArmedFrame DEF Unharmed
    <2>5. Listening'
      <3>1. ASSUME NEW m, m.from = Control
            PROVE  (\E i \in DOMAIN squeue' : squeue'[i] = m) <=> \E i \in DOMAIN squeue : squeue[i] = m
        BY <1>2, <2>1, <3>1, Constants
      <3> QED
        BY <1>1, <3>1, ListeningFrame
    <2> QED
      BY <2>2, <2>3, <2>4, <2>5
  <1> QED
    BY <1>1, <1>3, <1>4

\* What the serial control thread finds, and what is left.
LEMMA ServeFacts ==
    ASSUME Types, Requests, squeue # <<>>, squeue' = Tail(squeue),
           waits' = waits \ {Head(squeue).from}, UNCHANGED wk
    PROVE  /\ squeue' \in Seq(SMessageSet) /\ Requests'
           /\ 1 \in DOMAIN squeue /\ Head(squeue) = squeue[1] /\ squeue[1] \in SMessageSet
           /\ Asked(squeue[1])
           /\ \A i \in DOMAIN squeue \ {1} : i - 1 \in DOMAIN squeue' /\ squeue'[i - 1] = squeue[i]
           /\ \A i \in DOMAIN squeue' : i + 1 \in DOMAIN squeue /\ squeue'[i] = squeue[i + 1]
           /\ squeue[1].from # NULL => \A i \in DOMAIN squeue' : squeue'[i].from # squeue[1].from
  <1>1. /\ squeue' \in Seq(SMessageSet)
        /\ 1 \in DOMAIN squeue /\ Head(squeue) = squeue[1] /\ squeue[1] \in SMessageSet
        /\ \A i \in DOMAIN squeue' :
              i \in Nat /\ i + 1 \in DOMAIN squeue /\ i + 1 # 1 /\ squeue'[i] = squeue[i + 1]
        /\ \A i \in DOMAIN squeue \ {1} : i - 1 \in DOMAIN squeue' /\ squeue'[i - 1] = squeue[i]
    BY TailElements DEF Types
  <1>2. Asked(squeue[1])
    BY <1>1 DEF Requests
  <1>3. squeue[1].from # NULL => \A i \in DOMAIN squeue' : squeue'[i].from # squeue[1].from
    BY <1>1 DEF Requests
  <1>4. ASSUME NEW i \in DOMAIN squeue' PROVE (Asked(squeue[i]))'
    <2>1. Asked(squeue[i + 1]) /\ squeue'[i] = squeue[i + 1]
      BY <1>1 DEF Requests
    <2>2. squeue'[i].from # NULL => squeue'[i].from \in waits'
      BY <1>1, <1>3, <2>1 DEF Asked
    <2> QED
      BY <2>1, <2>2 DEF Asked
  <1>5. ASSUME NEW i \in DOMAIN squeue', NEW j \in DOMAIN squeue',
               squeue'[i].from = squeue'[j].from, squeue'[i].from # NULL
        PROVE  i = j
    <2>1. i + 1 = j + 1 /\ i \in Nat /\ j \in Nat
      BY <1>1, <1>5 DEF Requests
    <2> QED
      BY <2>1
  <1> QED
    BY <1>1, <1>2, <1>3, <1>4, <1>5 DEF Requests

\* The checks of handler_expansion_set_callback hold.
LEMMA ListenIsChecked ==
    ASSUME ExpansionInv, squeue # <<>>, Head(squeue).type \in {"Listen", "Ignore"}
    PROVE  /\ Head(squeue).serial = serial_id
           /\ \/ Head(squeue).type = "Listen" /\ listening = NULL /\ pc = "done" /\ state = "Enabled"
              \/ Head(squeue).type = "Ignore" /\ listening = serial_id /\ pc \in {"next", "alloc"}
  <1> USE DEF ExpansionInv
  <1>1. 1 \in DOMAIN squeue /\ Head(squeue) = squeue[1]
    BY TailElements DEF Types
  <1>2. squeue[1].from = Control
    BY <1>1 DEF Requests, Asked
  <1>3. ~Quiet
    BY <1>1, <1>2 DEF Quiet
  <1>4. ASSUME NEW type \in {"Listen", "Ignore"}, ControlAsks(type)
        PROVE  squeue[1].type = type /\ squeue[1].serial = serial_id
    <2>1. PICK i \in DOMAIN squeue : squeue[i] = SMessage(type, serial_id, Control)
      BY <1>4 DEF ControlAsks
    <2>2. squeue[i].from = Control /\ squeue[i].type = type /\ squeue[i].serial = serial_id
      BY <2>1 DEF SMessage
    <2>3. i = 1
      BY <1>1, <1>2, <2>2, Constants DEF Requests
    <2> QED
      BY <2>2, <2>3
  <1>5. pc \in {"done", "next", "alloc"}
    BY <1>3 DEF Listening, Stages
  <1>6. CASE pc = "done"
    BY <1>1, <1>3, <1>4, <1>6 DEF Listening
  <1>7. CASE pc \in {"next", "alloc"}
    BY <1>1, <1>3, <1>4, <1>7 DEF Listening
  <1> QED
    BY <1>5, <1>6, <1>7

\* The serial control thread handles a message.
LEMMA ServeKeeps == ExpansionInv /\ SerialThread => ExpansionInv'
  <1> SUFFICES ASSUME ExpansionInv, SerialThread PROVE ExpansionInv'
    OBVIOUS
  <1> USE DEF ExpansionInv
  <1>1. PICK m : m = Head(squeue)
    OBVIOUS
  <1>2. squeue # <<>> /\ ~(m.type \in {"Listen", "Ignore"} /\ ~ListenChecked(m.type, m.serial))
    <2>1. squeue # <<>>
      BY DEF SerialThread
    <2>2. m.type \in {"Listen", "Ignore"} => ListenChecked(m.type, m.serial)
      BY <1>1, <2>1, ListenIsChecked DEF ListenChecked
    <2> QED
      BY <2>1, <2>2
  <1>13. CASE Halt("gpio")
    BY <1>13, HaltKeeps
  <1>14. SUFFICES ASSUME ~Halt("gpio") PROVE ExpansionInv'
    BY <1>13
  <1>3. /\ squeue' = Tail(squeue) /\ waits' = waits \ {m.from}
        /\ m.type = "Acquire" => HandleAcquire(m.serial, m.from)
        /\ m.type = "Release" => HandleRelease(m.serial, m.from)
        /\ m.type = "Logging" => HandleLogging(m.serial)
        /\ m.type \in {"Listen", "Ignore"} => HandleListen(m.type, m.serial)
        /\ m.type = "Irq" => UNCHANGED <<owner, listening, irq>>
        /\ IF m.type = "Irq" THEN Detect ELSE queue' = queue
        /\ UNCHANGED <<life, state, serial_id, worker, pc, job, wk, call, msg, quiet, reloaded,
                       halted>>
    BY <1>1, <1>2, <1>14 DEF SerialThread, thread_vars, app
  <1>4. /\ squeue' \in Seq(SMessageSet) /\ Requests'
        /\ 1 \in DOMAIN squeue /\ m = squeue[1] /\ m \in SMessageSet /\ Asked(m)
        /\ \A i \in DOMAIN squeue \ {1} : i - 1 \in DOMAIN squeue' /\ squeue'[i - 1] = squeue[i]
        /\ \A i \in DOMAIN squeue' : i + 1 \in DOMAIN squeue /\ squeue'[i] = squeue[i + 1]
        /\ m.from # NULL => \A i \in DOMAIN squeue' : squeue'[i].from # m.from
    BY <1>1, <1>2, <1>3, ServeFacts
  <1>5. /\ m.type \in {"Acquire", "Release", "Logging", "Listen", "Ignore", "Irq"}
        /\ m.serial \in Serial \cup {NULL} /\ m.from \in Caller \cup {NULL}
    BY <1>4 DEF SMessageSet
  <1>6. /\ owner \in [Serial -> Caller \cup {NULL}] /\ listening \in Serial \cup {NULL}
        /\ serial_id \in Serial
    BY DEF Types
  <1>7. /\ owner' \in [Serial -> Caller \cup {NULL}] /\ listening' \in Serial \cup {NULL}
        /\ \A s \in Serial :
            \/ owner'[s] = owner[s] /\ (m.type = "Release" => s # m.serial)
            \/ m.type = "Release" /\ s = m.serial /\ owner'[s] = NULL
            \/ m.type = "Acquire" /\ s = m.serial /\ owner'[s] = m.from
        /\ Armed'
    <2>1. CASE m.type = "Acquire"
      <3>1. m.serial \in Serial /\ m.from # NULL
        BY <1>4, <2>1 DEF Asked
      <3>2. CASE owner[m.serial] # NULL
        BY <1>3, <1>6, <2>1, <3>2 DEF HandleAcquire, LogSetHandle, Disarm, Armed
      <3>3. CASE owner[m.serial] = NULL
        <4>1. /\ owner' = [owner EXCEPT ![m.serial] = m.from] /\ listening' = listening
              /\ (irq \subseteq irq' \/ irq' = irq \ {m.serial})
          BY <1>3, <2>1, <3>3 DEF HandleAcquire, LogSetHandle, Disarm
        <4>3. /\ owner' \in [Serial -> Caller \cup {NULL}] /\ owner'[m.serial] = m.from
              /\ \A s \in Serial \ {m.serial} : owner'[s] = owner[s]
          BY <1>5, <1>6, <3>1, <4>1
        <4>4. Armed'
          BY <1>6, <3>1, <4>1, <4>3 DEF Armed
        <4> QED
          BY <1>6, <2>1, <4>1, <4>3, <4>4
      <3> QED
        BY <3>2, <3>3
    <2>2. CASE m.type = "Release"
      <3>1. m.serial \in Serial
        BY <1>4, <2>2 DEF Asked
      <3>2. /\ owner' = [owner EXCEPT ![m.serial] = NULL] /\ listening' = listening
            /\ irq' = IF log_id = m.serial /\ listening # NULL
                      THEN (irq \ {m.serial}) \cup {listening}
                      ELSE IF log_id # m.serial /\ listening = m.serial
                           THEN irq \cup {m.serial} ELSE irq \ {m.serial}
        BY <1>3, <2>2 DEF HandleRelease, LogSetHandle, Arm
      <3>3. /\ owner' \in [Serial -> Caller \cup {NULL}] /\ owner'[m.serial] = NULL
            /\ \A s \in Serial \ {m.serial} : owner'[s] = owner[s]
        BY <1>6, <3>1, <3>2
      <3>4. Armed'
        BY <1>6, <3>1, <3>2, <3>3 DEF Armed
      <3> QED
        BY <1>6, <2>2, <3>2, <3>3, <3>4
    <2>3. CASE m.type = "Logging"
      BY <1>3, <1>6, <2>3 DEF HandleLogging, LogSetHandle, Armed
    <2>4. CASE m.type \in {"Listen", "Ignore"}
      <3>1. m.serial \in Serial
        BY <1>1, <1>2, <1>6, <2>4, ListenIsChecked
      <3> QED
        BY <1>3, <1>6, <2>4, <3>1 DEF HandleListen, Arm, Disarm, Armed
    <2>5. CASE m.type = "Irq"
      BY <1>3, <1>6, <2>5 DEF Armed
    <2> QED
      BY <1>5, <2>1, <2>2, <2>3, <2>4, <2>5
  <1>8. queue' \in Seq(MessageSet) /\ Locked'
    <2>1. CASE queue' = queue
      BY <1>3, <2>1, LockedFrame DEF Types
    <2>2. CASE queue' = Append(queue, Message("ModuleConnected", NULL, FALSE))
      BY <1>3, <2>2, PutUnlocked DEF MessageType, SyncType
    <2> QED
      BY <1>3, <2>1, <2>2 DEF Detect
  <1>9. Types'
    BY <1>3, <1>4, <1>7, <1>8 DEF Types
  <1>10. Workers'
    <2> SUFFICES ASSUME NEW w \in Thread PROVE Keeps(w)'
      BY DEF Workers
    <2>1. Keeps(w) /\ w # NULL
      BY Constants DEF Workers
    <2>2. ASSUME NEW s \in Serial, owner'[s] = w PROVE s = wk[w].serial /\ HoldsPort(w)'
      <3>1. CASE owner[s] = w /\ (m.type = "Release" => s # m.serial)
        <4>1. s = wk[w].serial /\ HoldsPort(w)
          BY <2>1, <3>1 DEF Keeps
        <4>2. CASE m.from = w
          BY <1>3, <1>4, <3>1, <4>1, <4>2 DEF Asked, HoldsPort
        <4>3. CASE m.from # w
          <5>1. ASSUME NEW i \in DOMAIN squeue, squeue[i].from = w
                PROVE  \E j \in DOMAIN squeue' : squeue'[j].from = w
            BY <1>4, <4>3, <5>1
          <5> QED
            BY <1>3, <4>1, <5>1 DEF HoldsPort
        <4> QED
          BY <4>1, <4>2, <4>3
      <3>2. CASE m.type = "Acquire" /\ s = m.serial /\ m.from = w
        BY <1>3, <1>4, <3>2 DEF Asked, HoldsPort
      <3> QED
        BY <1>7, <2>1, <2>2, <3>1, <3>2
    <2> QED
      BY <1>3, <2>1, <2>2 DEF Keeps
  <1>11. Listening'
    <2>1. CASE m.type \in {"Listen", "Ignore"}
      <3>1. m.from = Control
        BY <1>4, <2>1 DEF Asked
      <3>2. Quiet'
        BY <1>4, <3>1, Constants DEF Quiet
      <3>3. /\ m.serial = serial_id /\ listening' = IF m.type = "Listen" THEN serial_id ELSE NULL
            /\ \/ m.type = "Listen" /\ listening = NULL /\ pc = "done" /\ state = "Enabled"
               \/ m.type = "Ignore" /\ listening = serial_id /\ pc \in {"next", "alloc"}
        BY <1>1, <1>2, <1>3, <2>1, ListenIsChecked DEF HandleListen
      <3> QED
        BY <1>3, <3>2, <3>3 DEF Listening, Exact
    <2>2. CASE m.type \notin {"Listen", "Ignore"}
      <3>1. m.from # Control /\ listening' = listening
        BY <1>3, <1>4, <1>5, <2>2
           DEF Asked, HandleAcquire, HandleRelease, HandleLogging
      <3>2. ASSUME NEW k, k.from = Control
            PROVE  (\E i \in DOMAIN squeue' : squeue'[i] = k) <=> \E i \in DOMAIN squeue : squeue[i] = k
        BY <1>4, <3>1, <3>2
      <3> QED
        BY <1>3, <3>1, <3>2, ListeningFrame
    <2> QED
      BY <2>1, <2>2
  <1>12. Stages' /\ Disabled' /\ Unharmed'
    BY <1>3, StagesFrame, DisabledFrame DEF Unharmed
  <1> QED
    BY <1>4, <1>7, <1>8, <1>9, <1>10, <1>11, <1>12

-----------------------------------------------------------------------------
\* A change of a worker that the invariant does not see.
Alike(k, r) ==
    /\ r \in WorkerSet /\ r.pc = k.pc /\ r.serial = k.serial /\ r.proto = k.proto
    /\ r.rx_on <=> k.rx_on
    /\ r.session <=> k.session

LEMMA AlikeFacts ==
    ASSUME NEW k \in WorkerSet
    PROVE  /\ Alike(k, k)
           /\ \A f \in {"Stop", "Error"} : Alike(k, [k EXCEPT !.flags = @ \cup {f}])
           /\ Alike(k, [k EXCEPT !.rx_buf = FALSE])
           /\ Alike(k, [k EXCEPT !.rx = 1])
  <1>1. Alike(k, k)
    BY DEF Alike
  <1>2. ASSUME NEW f \in {"Stop", "Error"} PROVE Alike(k, [k EXCEPT !.flags = @ \cup {f}])
    BY DEF Alike, WorkerSet
  <1>3. Alike(k, [k EXCEPT !.rx_buf = FALSE])
    BY DEF Alike, WorkerSet
  <1>4. Alike(k, [k EXCEPT !.rx = 1])
    BY DEF Alike, WorkerSet
  <1> QED
    BY <1>1, <1>2, <1>3, <1>4

LEMMA AlikeKeeps ==
    ASSUME Types, Requests, Workers, UNCHANGED <<owner, life, worker, squeue, waits>>,
           \A w \in Thread : Alike(wk[w], wk'[w])
    PROVE  Requests' /\ Workers'
  <1>1. Requests'
    BY RequestsFrame DEF Alike
  <1>2. ASSUME NEW w \in Thread PROVE Keeps(w)'
    <2>1. Keeps(w)
      BY DEF Workers
    <2>2. HoldsPort(w) => HoldsPort(w)'
      BY DEF HoldsPort, Alike
    <2> QED
      BY <2>1, <2>2 DEF Keeps, Alike
  <1> QED
    BY <1>1, <1>2 DEF Workers

\* The control thread ends a worker,
LEMMA StopKeeps == ExpansionInv /\ (ControlStop \/ ControlFree) => ExpansionInv'
  <1> SUFFICES ASSUME ExpansionInv, ControlStop \/ ControlFree PROVE ExpansionInv'
    OBVIOUS
  <1> USE DEF ExpansionInv, control, serial, app, thread_vars
  <1>1. /\ UNCHANGED <<life, queue, state, serial_id, worker, job, squeue, waits, owner,
                       listening, irq, call, msg, quiet, reloaded, halted>>
        /\ \/ pc = "stop" /\ pc' = "stopped"
           \/ pc \in {"free", "stopped"} /\ pc' = "join"
        /\ \/ wk' = [wk EXCEPT ![worker].flags = @ \cup {"Stop"}]
           \/ wk' = [wk EXCEPT ![worker].rx_buf = FALSE]
    BY DEF ControlStop, ControlFree, At, Goto
  <1>2. wk' \in [Thread -> WorkerSet] /\ \A w \in Thread : Alike(wk[w], wk'[w])
    <2>1. wk \in [Thread -> WorkerSet]
      BY DEF Types
    <2>2. ASSUME NEW w \in Thread
          PROVE  wk'[w] \in {wk[w], [wk[w] EXCEPT !.flags = @ \cup {"Stop"}],
                             [wk[w] EXCEPT !.rx_buf = FALSE]}
      BY <1>1, <2>1
    <2>3. ASSUME NEW w \in Thread PROVE Alike(wk[w], wk'[w])
      BY <2>1, <2>2, AlikeFacts
    <2>4. DOMAIN wk' = Thread /\ wk' = [w \in Thread |-> wk'[w]]
      BY <1>1, <2>1
    <2> QED
      BY <2>3, <2>4 DEF Alike
  <1>3. Types'
    BY <1>1, <1>2 DEF Types
  <1>4. Requests' /\ Workers' /\ Armed' /\ Unharmed' /\ Locked'
    BY <1>1, <1>2, AlikeKeeps, ArmedFrame, LockedFrame DEF Unharmed
  <1>5. Listening' /\ Stages' /\ Disabled'
    BY <1>1 DEF Listening, Quiet, Stages, Disabled
  <1> QED
    BY <1>3, <1>4, <1>5

LEMMA JoinKeeps == ExpansionInv /\ ControlJoin => ExpansionInv'
  <1> SUFFICES ASSUME ExpansionInv, ControlJoin PROVE ExpansionInv'
    OBVIOUS
  <1> USE DEF ExpansionInv, control, serial, app, thread_vars
  <1>1. /\ UNCHANGED <<queue, state, serial_id, job, squeue, waits, owner, wk,
                       listening, irq, call, msg, quiet, reloaded, halted>>
        /\ pc = "join" /\ pc' = "next" /\ worker' = NULL
        /\ life[worker] = "ready" /\ life' = [life EXCEPT ![worker] = "none"]
    BY DEF ControlJoin, At, Goto, Free, LifeStep
  <1>2. \A w \in Thread : life'[w] = "none" /\ life[w] # "running"
    BY <1>1 DEF Types, Workers, Keeps
  <1>3. Types'
    BY <1>1 DEF Types
  <1>4. Workers'
    <2> SUFFICES ASSUME NEW w \in Thread PROVE Keeps(w)'
      BY DEF Workers
    <2>1. Keeps(w) /\ (HoldsPort(w) => HoldsPort(w)')
      BY <1>1 DEF Workers, HoldsPort
    <2> QED
      BY <1>1, <1>2, <2>1 DEF Keeps
  <1>5. Requests' /\ Armed' /\ Unharmed' /\ Locked'
    BY <1>1, RequestsFrame, ArmedFrame, LockedFrame DEF Unharmed
  <1>6. Listening' /\ Stages' /\ Disabled'
    BY <1>1 DEF Listening, Quiet, Stages, Disabled
  <1> QED
    BY <1>3, <1>4, <1>5, <1>6

\* and makes a new one.
LEMMA AllocKeeps == ExpansionInv /\ ControlAlloc => ExpansionInv'
  <1> SUFFICES ASSUME ExpansionInv, ControlAlloc PROVE ExpansionInv'
    OBVIOUS
  <1> USE DEF ExpansionInv, control, serial, app, thread_vars
  <1>1. /\ UNCHANGED <<queue, serial_id, job, squeue, waits, owner, listening, irq, call, msg,
                       quiet, reloaded, halted>>
        /\ pc = "alloc" /\ pc' = "start" /\ state' = "Running" /\ Resting(Control)
    BY DEF ControlAlloc, At, Goto
  <1>2. PICK w \in Thread : /\ life[w] = "none" /\ life' = [life EXCEPT ![w] = "ready"]
                            /\ worker' = w /\ wk' = [wk EXCEPT ![w] = NewWorker(serial_id)]
    BY DEF ControlAlloc, Alloc, LifeStep
  <1>3. Quiet /\ listening = NULL /\ state = "Enabled" /\ worker = NULL
    BY <1>1, ControlRests DEF Listening
  <1>4. LET k == NewWorker(serial_id) IN
          k \in WorkerSet /\ k.pc = "acquire" /\ k.serial = serial_id /\ ~k.rx_on /\ ~k.session
    BY DEF NewWorker, WorkerSet, Types
  <1>5. /\ wk' \in [Thread -> WorkerSet] /\ wk'[w].pc = "acquire" /\ wk'[w].serial = serial_id
        /\ ~wk'[w].rx_on /\ ~wk'[w].session
        /\ \A u \in Thread \ {w} : wk'[u] = wk[u] /\ life'[u] = life[u]
        /\ life'[w] = "ready"
    BY <1>2, <1>4 DEF Types
  <1>6. Types'
    BY <1>1, <1>2, <1>5 DEF Types
  <1>7. wk[w].pc \in {"acquire", "return"}
    BY <1>2 DEF Workers, Keeps
  <1>8. Requests'
    <2>1. \A i \in DOMAIN squeue : squeue[i].from # w
      BY <1>7 DEF Requests, Asked
    <2> QED
      BY <1>1, <1>5, <2>1, RequestsFrame
  <1>9. Workers'
    <2> SUFFICES ASSUME NEW u \in Thread PROVE Keeps(u)'
      BY DEF Workers
    <2>1. Keeps(u)
      BY DEF Workers
    <2>2. CASE u = w
      <3>1. ~HoldsPort(w)
        BY <1>7 DEF HoldsPort
      <3>2. \A s \in Serial : owner[s] # w
        BY <2>1, <2>2, <3>1 DEF Keeps
      <3> QED
        BY <1>1, <1>2, <1>5, <2>2, <3>2 DEF Keeps, Types
    <2>3. CASE u # w
      <3>1. life'[u] = "none" /\ wk'[u] = wk[u] /\ life[u] = "none"
        BY <1>3, <1>5, <2>1, <2>3, Constants DEF Keeps
      <3>2. HoldsPort(u) => HoldsPort(u)'
        BY <1>1, <3>1 DEF HoldsPort
      <3> QED
        BY <1>1, <2>1, <3>1, <3>2 DEF Keeps
    <2> QED
      BY <2>2, <2>3
  <1>10. Armed' /\ Unharmed' /\ Locked'
    BY <1>1, ArmedFrame, LockedFrame DEF Unharmed
  <1>11. Listening' /\ Stages' /\ Disabled'
    BY <1>1, <1>2, <1>3 DEF Listening, Quiet, Stages, Disabled
  <1> QED
    BY <1>6, <1>8, <1>9, <1>10, <1>11

LEMMA LaunchKeeps == ExpansionInv /\ ControlStart => ExpansionInv'
  <1> SUFFICES ASSUME ExpansionInv, ControlStart PROVE ExpansionInv'
    OBVIOUS
  <1> USE DEF ExpansionInv, control, serial, app, thread_vars
  <1>1. /\ UNCHANGED <<queue, state, serial_id, worker, job, squeue, waits, owner, wk,
                       listening, irq, call, msg, quiet, reloaded, halted>>
        /\ pc = "start" /\ pc' = "done"
        /\ life[worker] = "ready" /\ life' = [life EXCEPT ![worker] = "running"]
    BY DEF ControlStart, At, Goto, Start, LifeStep
  <1>2. Types'
    BY <1>1 DEF Types
  <1>3. \A w \in Thread : life'[w] = life[w] \/ (w = worker /\ life'[w] = "running" /\ life[w] # "none")
    BY <1>1 DEF Types
  <1>4. Workers'
    <2> SUFFICES ASSUME NEW w \in Thread PROVE Keeps(w)'
      BY DEF Workers
    <2>1. Keeps(w) /\ (HoldsPort(w) => HoldsPort(w)')
      BY <1>1 DEF Workers, HoldsPort
    <2> QED
      BY <1>1, <1>3, <2>1 DEF Keeps
  <1>5. Requests' /\ Armed' /\ Unharmed' /\ Locked'
    BY <1>1, RequestsFrame, ArmedFrame, LockedFrame DEF Unharmed
  <1>6. Listening' /\ Stages' /\ Disabled'
    BY <1>1 DEF Listening, Quiet, Exact, Stages, Disabled
  <1> QED
    BY <1>2, <1>4, <1>5, <1>6

-----------------------------------------------------------------------------
\* A step of a worker that has no call of the serial control under way.
LEMMA OwnStep ==
    ASSUME Types, Requests, Workers, UNCHANGED <<owner, life, worker, squeue, waits>>,
           NEW w \in Thread, life[w] = "running", NEW r \in WorkerSet, wk' = [wk EXCEPT ![w] = r],
           \A i \in DOMAIN squeue : squeue[i].from # w,
           r.serial = wk[w].serial,
           r.rx_on => r.pc \in {"receive", "exit"},
           r.session => r.proto = "RpcActive" /\ r.pc \in {"receive", "exit"},
           wk[w].pc \in {"acquired", "receive", "exit"} => r.pc \in {"receive", "exit"}
    PROVE  wk' \in [Thread -> WorkerSet] /\ Requests' /\ Workers'
  <1>1. /\ wk' \in [Thread -> WorkerSet] /\ wk'[w] = r
        /\ \A u \in Thread \ {w} : wk'[u] = wk[u]
    BY DEF Types
  <1>2. Requests'
    BY <1>1, RequestsFrame
  <1>3. ASSUME NEW u \in Thread PROVE Keeps(u)'
    <2>1. Keeps(u)
      BY DEF Workers
    <2>2. HoldsPort(u) => HoldsPort(u)'
      BY <1>1 DEF HoldsPort
    <2>3. CASE u = w
      BY <1>1, <2>1, <2>2, <2>3 DEF Keeps
    <2>4. CASE u # w
      BY <1>1, <2>1, <2>2, <2>4 DEF Keeps
    <2> QED
      BY <2>3, <2>4
  <1> QED
    BY <1>1, <1>2, <1>3 DEF Workers

\* While it receives it has none.
LEMMA ReceiverRests ==
    ASSUME Requests, NEW w \in Thread, wk[w].pc \notin {"acquired", "released"}
    PROVE  \A i \in DOMAIN squeue : squeue[i].from # w
  BY DEF Requests, Asked

\* What the steps of a worker leave alone.
LEMMA ElsewhereKeeps ==
    ASSUME ExpansionInv, UNCHANGED <<elsewhere, listening>>, Armed',
           \A m : m.from = Control =>
                ((\E i \in DOMAIN squeue' : squeue'[i] = m) <=> \E i \in DOMAIN squeue : squeue[i] = m)
    PROVE  Listening' /\ Stages' /\ Locked' /\ Disabled' /\ Unharmed'
  <1>1. UNCHANGED <<queue, state, serial_id, worker, pc, job, call, msg, quiet, reloaded, halted>>
    BY DEF elsewhere, control, app
  <1>2. Listening'
    BY <1>1, ListeningFrame DEF ExpansionInv
  <1> QED
    BY <1>1, <1>2, StagesFrame, LockedFrame, DisabledFrame DEF Unharmed, ExpansionInv

LEMMA ExitRecord ==
    ASSUME NEW k \in WorkerSet, NEW v \in BOOLEAN
    PROVE  LET r == [k EXCEPT !.pc = "released", !.rx_on = FALSE, !.rx = 0, !.flags = {},
                              !.session = v] IN
           /\ r \in WorkerSet /\ r.serial = k.serial /\ r.pc = "released"
           /\ r.rx_on = FALSE /\ r.session = v
  <1> DEFINE r == [k EXCEPT !.pc = "released", !.rx_on = FALSE, !.rx = 0, !.flags = {},
                            !.session = v]
  <1>1. r.serial = k.serial /\ r.pc = "released" /\ r.rx_on = FALSE /\ r.session = v
    BY DEF WorkerSet
  <1>2. [k EXCEPT !.flags = {}] \in WorkerSet
    BY DEF WorkerSet
  <1>3. ASSUME NEW j \in WorkerSet PROVE [j EXCEPT !.rx = 0] \in WorkerSet
    BY DEF WorkerSet
  <1>4. ASSUME NEW j \in WorkerSet PROVE [j EXCEPT !.pc = "released", !.rx_on = FALSE] \in WorkerSet
    BY DEF WorkerSet
  <1>5. ASSUME NEW j \in WorkerSet PROVE [j EXCEPT !.session = v] \in WorkerSet
    BY DEF WorkerSet
  <1>6. r = [[[[k EXCEPT !.flags = {}] EXCEPT !.rx = 0] EXCEPT !.pc = "released", !.rx_on = FALSE]
             EXCEPT !.session = v]
    BY DEF WorkerSet
  <1> QED
    BY <1>1, <1>2, <1>3, <1>4, <1>5, <1>6

\* A worker asks for its port, and gives it back.
LEMMA WorkerAsks ==
    ASSUME ExpansionInv, NEW w \in Thread, WorkerAcquire(w) \/ WorkerExit(w)
    PROVE  ExpansionInv'
  <1> USE DEF ExpansionInv
  <1>1. PICK r \in WorkerSet, type \in {"Acquire", "Release"} :
            /\ UNCHANGED <<life, elsewhere>>
            /\ life[w] = "running" /\ wk[w].pc \in {"acquire", "exit"}
            /\ Ask(type, wk[w].serial, w) /\ wk' = [wk EXCEPT ![w] = r]
            /\ r.serial = wk[w].serial /\ ~r.rx_on /\ ~r.session
            /\ \/ type = "Acquire" /\ r.pc = "acquired" /\ wk[w].pc = "acquire"
               \/ type = "Release" /\ r.pc = "released" /\ wk[w].pc = "exit"
    <2>1. wk[w] \in WorkerSet /\ Keeps(w)
      BY DEF Types, Workers
    <2>2. CASE WorkerAcquire(w)
      <3> DEFINE r == [wk[w] EXCEPT !.pc = "acquired"]
      <3>1. /\ UNCHANGED <<life, elsewhere>>
            /\ life[w] = "running" /\ wk[w].pc = "acquire"
            /\ Ask("Acquire", wk[w].serial, w) /\ wk' = [wk EXCEPT ![w] = r]
        BY <2>2 DEF WorkerAcquire, WorkerAt, Set, thread_vars
      <3>2. ~wk[w].rx_on /\ ~wk[w].session
        BY <2>1, <3>1 DEF Keeps
      <3>3. /\ r \in WorkerSet /\ r.serial = wk[w].serial /\ r.pc = "acquired"
            /\ ~r.rx_on /\ ~r.session
        BY <2>1, <3>2 DEF WorkerSet
      <3> HIDE DEF r
      <3> QED
        BY <3>1, <3>3
    <2>3. CASE WorkerExit(w)
      <3>1. PICK v \in BOOLEAN : v <=> (wk[w].session /\ wk[w].proto # "RpcActive")
        OBVIOUS
      <3>2. (wk[w].session /\ wk[w].proto # "RpcActive") = v
        BY <2>1, <3>1 DEF WorkerSet
      <3> DEFINE r == [wk[w] EXCEPT !.pc = "released", !.rx_on = FALSE, !.rx = 0, !.flags = {},
                                    !.session = v]
      <3>3. /\ UNCHANGED <<life, elsewhere>>
            /\ life[w] = "running" /\ wk[w].pc = "exit"
            /\ Ask("Release", wk[w].serial, w) /\ wk' = [wk EXCEPT ![w] = r]
        BY <2>3, <3>2 DEF WorkerExit, WorkerAt, Set, thread_vars
      <3>4. ~v
        BY <2>1, <3>1 DEF Keeps
      <3>5. /\ r \in WorkerSet /\ r.serial = wk[w].serial /\ r.pc = "released"
            /\ r.rx_on = FALSE /\ r.session = v
        BY <2>1, ExitRecord
      <3> HIDE DEF r
      <3> QED
        BY <3>3, <3>4, <3>5
    <2> QED
      BY <2>2, <2>3
  <1>2. /\ wk' \in [Thread -> WorkerSet] /\ wk'[w] = r
        /\ \A u \in Thread \ {w} : wk'[u] = wk[u]
    BY <1>1 DEF Types
  <1>3. UNCHANGED <<queue, state, serial_id, worker, job, call, msg>>
    BY <1>1 DEF elsewhere, control, app
  <1>4. /\ squeue' \in Seq(SMessageSet) /\ Requests'
        /\ UNCHANGED <<owner, listening, irq>>
        /\ \A m : m.from # w =>
              ((\E i \in DOMAIN squeue' : squeue'[i] = m) <=> \E i \in DOMAIN squeue : squeue[i] = m)
        /\ \E i \in DOMAIN squeue' : squeue'[i] = SMessage(type, wk[w].serial, w)
        /\ \A i \in DOMAIN squeue : i \in DOMAIN squeue' /\ squeue'[i] = squeue[i]
    <2>1. \A i \in DOMAIN squeue : squeue[i].from # w
      BY <1>1, ReceiverRests
    <2>2. wk[w].serial \in Serial
      BY <1>1 DEF Workers, Keeps
    <2> QED
      BY <1>1, <1>2, <2>1, <2>2, AskKeeps, Constants
  <1>5. Types'
    BY <1>1, <1>2, <1>3, <1>4 DEF Types
  <1>6. Workers'
    <2> SUFFICES ASSUME NEW u \in Thread PROVE Keeps(u)'
      BY DEF Workers
    <2>1. Keeps(u)
      BY DEF Workers
    <2>2. CASE u = w
      <3>1. HoldsPort(w)'
        <4>1. CASE type = "Acquire"
          BY <1>1, <1>2, <4>1 DEF HoldsPort
        <4>2. CASE type = "Release"
          <5>1. SMessage(type, wk[w].serial, w).from = w
            BY DEF SMessage
          <5> QED
            BY <1>1, <1>2, <1>4, <4>2, <5>1 DEF HoldsPort
        <4> QED
          BY <4>1, <4>2
      <3> QED
        BY <1>1, <1>2, <1>3, <1>4, <2>1, <2>2, <3>1 DEF Keeps
    <2>3. CASE u # w
      <3>1. HoldsPort(u) => HoldsPort(u)'
        BY <1>2, <1>4, <2>3 DEF HoldsPort
      <3> QED
        BY <1>1, <1>2, <1>3, <1>4, <2>1, <2>3, <3>1 DEF Keeps
    <2> QED
      BY <2>2, <2>3
  <1>7. Listening' /\ Stages' /\ Locked' /\ Disabled' /\ Armed' /\ Unharmed'
    BY <1>1, <1>4, ElsewhereKeeps, ArmedFrame, Constants
  <1> QED
    BY <1>4, <1>5, <1>6, <1>7

\* A step of the receive loop: the worker goes on, or leaves the loop; a
\* session is open only in the state RpcActive.
Moves(k, r) ==
    /\ r \in WorkerSet /\ r.serial = k.serial /\ r.pc \in {k.pc, "exit"}
    /\ r.rx_on <=> k.rx_on
    /\ r.session => r.proto = "RpcActive"

LEMMA LeaveRecord ==
    ASSUME NEW k \in WorkerSet
    PROVE  LET r == [k EXCEPT !.pc = "exit", !.at = "start", !.frame = NULL] IN
           /\ r \in WorkerSet /\ r.serial = k.serial /\ r.pc = "exit" /\ r.proto = k.proto
           /\ r.rx_on = k.rx_on /\ r.session = k.session
  <1> DEFINE r == [k EXCEPT !.pc = "exit", !.at = "start", !.frame = NULL]
  <1>1. /\ r.serial = k.serial /\ r.pc = "exit" /\ r.proto = k.proto
        /\ r.rx_on = k.rx_on /\ r.session = k.session
    BY DEF WorkerSet
  <1>2. [k EXCEPT !.pc = "exit"] \in WorkerSet
    BY DEF WorkerSet
  <1>3. ASSUME NEW j \in WorkerSet PROVE [j EXCEPT !.at = "start"] \in WorkerSet
    BY DEF WorkerSet
  <1>4. ASSUME NEW j \in WorkerSet PROVE [j EXCEPT !.frame = NULL] \in WorkerSet
    BY DEF WorkerSet
  <1>5. r = [[[k EXCEPT !.pc = "exit"] EXCEPT !.at = "start"] EXCEPT !.frame = NULL]
    BY DEF WorkerSet
  <1> QED
    BY <1>1, <1>2, <1>3, <1>4, <1>5

LEMMA ReadMoves ==
    ASSUME NEW k \in WorkerSet, k.session => k.proto = "RpcActive"
    PROVE  LET j == [k EXCEPT !.rx = 0] IN
           /\ \A f \in LongFrame : Moves(k, [j EXCEPT !.frame = f, !.at = "rest"])
           /\ Moves(k, [j EXCEPT !.at = "some"])
           /\ Moves(k, [j EXCEPT !.pc = "exit", !.at = "start", !.frame = NULL])
           /\ \A f : \A h \in Handled([j EXCEPT !.frame = f]) :
                Moves(k, [j EXCEPT !.at = "start", !.frame = NULL, !.proto = h[1], !.session = h[2]])
  <1> DEFINE j == [k EXCEPT !.rx = 0]
  <1>1. /\ j \in WorkerSet /\ j.serial = k.serial /\ j.pc = k.pc /\ j.proto = k.proto
        /\ j.rx_on = k.rx_on /\ j.session = k.session
    BY DEF WorkerSet
  <1>2. ASSUME NEW f PROVE LET i == [j EXCEPT !.frame = f] IN
                           i.proto = k.proto /\ i.session = k.session /\ i.frame = f
    BY DEF WorkerSet
  <1> HIDE DEF j
  <1>3. ASSUME NEW f \in LongFrame PROVE Moves(k, [j EXCEPT !.frame = f, !.at = "rest"])
    BY <1>1 DEF Moves, WorkerSet
  <1>4. Moves(k, [j EXCEPT !.at = "some"])
    BY <1>1 DEF Moves, WorkerSet
  <1>5. Moves(k, [j EXCEPT !.pc = "exit", !.at = "start", !.frame = NULL])
    BY <1>1, LeaveRecord DEF Moves
  <1>6. ASSUME NEW p \in {"HandShake", "Connected", "RpcActive"}, NEW v \in BOOLEAN,
               v => p = "RpcActive"
        PROVE  Moves(k, [j EXCEPT !.at = "start", !.frame = NULL, !.proto = p, !.session = v])
    BY <1>1, <1>6 DEF Moves, WorkerSet
  <1>7. ASSUME NEW f, NEW h \in Handled([j EXCEPT !.frame = f])
        PROVE  /\ h[1] \in {"HandShake", "Connected", "RpcActive"} /\ h[2] \in BOOLEAN
               /\ h[2] => h[1] = "RpcActive"
    <2> DEFINE i == [j EXCEPT !.frame = f]
    <2>1. h \in Handled(i) /\ i.proto = k.proto /\ i.session = k.session
      BY <1>2, <1>7
    <2>2. /\ k.proto \in {"HandShake", "Connected", "RpcActive"} /\ k.session \in BOOLEAN
      BY DEF WorkerSet
    <2> HIDE DEF i
    <2>3. h \in {<<"Connected", FALSE>>, <<"RpcActive", TRUE>>, <<k.proto, k.session>>}
      BY <2>1 DEF Handled
    <2>4. CASE h = <<k.proto, k.session>>
      BY <2>2, <2>4
    <2>5. CASE h = <<"Connected", FALSE>>
      <3>1. h[1] = "Connected" /\ h[2] = FALSE
        BY <2>5
      <3> QED
        BY <3>1
    <2>6. CASE h = <<"RpcActive", TRUE>>
      <3>1. h[1] = "RpcActive" /\ h[2] = TRUE
        BY <2>6
      <3> QED
        BY <3>1
    <2> QED
      BY <2>3, <2>4, <2>5, <2>6
  <1> QED
    BY <1>3, <1>4, <1>5, <1>6, <1>7 DEF j

LEMMA BreakMoves ==
    ASSUME NEW k \in WorkerSet, k.session => k.proto = "RpcActive",
           NEW v \in BOOLEAN, NEW why \in {"User", "Error", "Timeout"}
    PROVE  LET j == [k EXCEPT !.flags = {}, !.stopped = v, !.reason = why] IN
           /\ j.at = k.at
           /\ Moves(k, [j EXCEPT !.at = "rest"])
           /\ Moves(k, [j EXCEPT !.pc = "exit", !.at = "start", !.frame = NULL])
  <1> DEFINE j == [k EXCEPT !.flags = {}, !.stopped = v, !.reason = why]
  <1>1. [k EXCEPT !.flags = {}] \in WorkerSet
    BY DEF WorkerSet
  <1>2. ASSUME NEW i \in WorkerSet PROVE [i EXCEPT !.stopped = v, !.reason = why] \in WorkerSet
    BY DEF WorkerSet
  <1>3. j = [[k EXCEPT !.flags = {}] EXCEPT !.stopped = v, !.reason = why]
    BY DEF WorkerSet
  <1>4. /\ j.serial = k.serial /\ j.pc = k.pc /\ j.proto = k.proto
        /\ j.rx_on = k.rx_on /\ j.session = k.session /\ j.at = k.at
    BY DEF WorkerSet
  <1>5. j \in WorkerSet
    BY <1>1, <1>2, <1>3
  <1> HIDE DEF j
  <1>6. Moves(k, [j EXCEPT !.at = "rest"])
    BY <1>4, <1>5 DEF Moves, WorkerSet
  <1>7. Moves(k, [j EXCEPT !.pc = "exit", !.at = "start", !.frame = NULL])
    BY <1>4, <1>5, LeaveRecord DEF Moves
  <1> QED
    BY <1>4, <1>6, <1>7 DEF j

\* A worker gets its port, receives, and learns that the port is released.
LEMMA WorkerOwnKeeps ==
    ASSUME ExpansionInv, NEW w \in Thread,
           WorkerAcquired(w) \/ WorkerRead(w) \/ WorkerBreak(w) \/ WorkerReleased(w)
    PROVE  ExpansionInv'
  <1> USE DEF ExpansionInv
  <1>1. wk[w] \in WorkerSet /\ Keeps(w) /\ w # NULL
    BY Constants DEF Types, Workers
  <1>2. ASSUME NEW r \in WorkerSet, wk' = [wk EXCEPT ![w] = r], life[w] = "running",
               UNCHANGED <<life, squeue, waits, owner, listening, elsewhere>>, Armed',
               \A i \in DOMAIN squeue : squeue[i].from # w,
               r.serial = wk[w].serial,
               r.rx_on => r.pc \in {"receive", "exit"},
               r.session => r.proto = "RpcActive" /\ r.pc \in {"receive", "exit"},
               wk[w].pc \in {"acquired", "receive", "exit"} => r.pc \in {"receive", "exit"}
        PROVE  ExpansionInv'
    <2>1. UNCHANGED <<squeue, waits, owner, listening, worker, queue, job, msg, state, serial_id>>
      BY <1>2 DEF elsewhere, control, app
    <2>2. wk' \in [Thread -> WorkerSet] /\ Requests' /\ Workers'
      BY <1>2, <2>1, OwnStep
    <2>3. Types'
      BY <1>2, <2>1, <2>2 DEF Types
    <2>4. Listening' /\ Stages' /\ Locked' /\ Disabled' /\ Unharmed'
      BY <1>2, <2>1, ElsewhereKeeps
    <2> QED
      BY <1>2, <2>2, <2>3, <2>4
  <1>3. ASSUME NEW r, Moves(wk[w], r), wk' = [wk EXCEPT ![w] = r], WorkerAt(w, "receive"),
               UNCHANGED <<thread_vars, serial, elsewhere>>
        PROVE  ExpansionInv'
    <2>1. life[w] = "running" /\ wk[w].pc = "receive" /\ UNCHANGED life
      BY <1>3 DEF WorkerAt, thread_vars
    <2>2. /\ \A i \in DOMAIN squeue : squeue[i].from # w
          /\ UNCHANGED <<squeue, waits, owner, listening>> /\ Armed'
      BY <1>3, <2>1, ReceiverRests, ArmedFrame DEF serial
    <2>3. /\ r \in WorkerSet /\ r.serial = wk[w].serial /\ r.pc \in {"receive", "exit"}
          /\ r.session => r.proto = "RpcActive"
      BY <1>3, <2>1 DEF Moves
    <2> QED
      BY <1>2, <1>3, <2>1, <2>2, <2>3
  <1>4. CASE WorkerAcquired(w)
    <2>1. WorkerAt(w, "acquired") /\ Resting(w)
      BY <1>4 DEF WorkerAcquired
    <2>2. CASE Halt("handle") \/ Halt("rx_buf")
      BY <2>2, HaltKeeps
    <2>3. CASE ~Halt("handle") /\ ~Halt("rx_buf")
      <3> DEFINE r == [wk[w] EXCEPT !.pc = "receive", !.rx_on = TRUE]
      <3>0. owner[wk[w].serial] # NULL /\ TakePin(wk[w].serial)
        BY <1>1, <1>4, <2>3 DEF WorkerAcquired
      <3>1. /\ wk' = [wk EXCEPT ![w] = r] /\ UNCHANGED <<life, elsewhere>>
            /\ UNCHANGED <<squeue, waits, owner, listening>> /\ Armed'
        BY <1>4, <2>3, <3>0, PinFrame DEF WorkerAcquired, Set, thread_vars
      <3>2. /\ r \in WorkerSet /\ r.serial = wk[w].serial /\ r.pc = "receive"
            /\ r.session = wk[w].session
        BY <1>1 DEF WorkerSet
      <3>3. life[w] = "running" /\ wk[w].pc = "acquired" /\ ~wk[w].session
        BY <1>1, <2>1 DEF WorkerAt, Keeps
      <3>4. \A i \in DOMAIN squeue : squeue[i].from # w
        BY <1>1, <2>1, Rests
      <3> HIDE DEF r
      <3> QED
        BY <1>2, <3>1, <3>2, <3>3, <3>4
    <2> QED
      BY <2>2, <2>3
  <1>5. CASE WorkerRead(w)
    <2>1. WorkerAt(w, "receive") /\ (wk[w].session => wk[w].proto = "RpcActive")
      BY <1>1, <1>5 DEF WorkerRead, Keeps
    <2>2. CASE ~wk[w].rx_buf
      BY <1>5, <2>2, HaltKeeps DEF WorkerRead
    <2>3. CASE wk[w].rx_buf
      <3> DEFINE j == [wk[w] EXCEPT !.rx = 0]
      <3>1. /\ \/ \E f \in LongFrame : wk' = [wk EXCEPT ![w] = [j EXCEPT !.frame = f, !.at = "rest"]]
               \/ wk' = [wk EXCEPT ![w] = [j EXCEPT !.at = "some"]]
               \/ \E f : \E h \in Handled([j EXCEPT !.frame = f]) :
                    wk' = [wk EXCEPT ![w] = [j EXCEPT !.at = "start", !.frame = NULL,
                                                      !.proto = h[1], !.session = h[2]]]
               \/ wk' = [wk EXCEPT ![w] = [j EXCEPT !.pc = "exit", !.at = "start", !.frame = NULL]]
            /\ UNCHANGED <<thread_vars, serial, elsewhere>>
        BY <1>5, <2>3 DEF WorkerRead, Set
      <3>2. /\ \A f \in LongFrame : Moves(wk[w], [j EXCEPT !.frame = f, !.at = "rest"])
            /\ Moves(wk[w], [j EXCEPT !.at = "some"])
            /\ Moves(wk[w], [j EXCEPT !.pc = "exit", !.at = "start", !.frame = NULL])
            /\ \A f : \A h \in Handled([j EXCEPT !.frame = f]) :
                 Moves(wk[w], [j EXCEPT !.at = "start", !.frame = NULL, !.proto = h[1], !.session = h[2]])
        BY <1>1, <2>1, ReadMoves
      <3> HIDE DEF j
      <3> QED
        BY <1>3, <2>1, <3>1, <3>2
    <2> QED
      BY <2>2, <2>3
  <1>6. CASE WorkerBreak(w)
    <2>1. WorkerAt(w, "receive") /\ (wk[w].session => wk[w].proto = "RpcActive")
      BY <1>1, <1>6 DEF WorkerBreak, Keeps
    <2>2. PICK v \in BOOLEAN : v = (wk[w].stopped \/ "Stop" \in wk[w].flags)
      OBVIOUS
    <2>3. PICK why \in {"User", "Error", "Timeout"} :
              why = IF "Stop" \in wk[w].flags THEN "User"
                    ELSE IF "Error" \in wk[w].flags THEN "Error" ELSE "Timeout"
      OBVIOUS
    <2> DEFINE j == [wk[w] EXCEPT !.flags = {}, !.stopped = v, !.reason = why]
    <2>0. CASE Halt("rx_buf")
      BY <2>0, HaltKeeps
    <2>4. ASSUME ~Halt("rx_buf") PROVE
          /\ wk' = [wk EXCEPT ![w] = IF j.at = "some" THEN [j EXCEPT !.at = "rest"]
                                 ELSE [j EXCEPT !.pc = "exit", !.at = "start", !.frame = NULL]]
          /\ UNCHANGED <<thread_vars, serial, elsewhere>>
      BY <1>6, <2>2, <2>3, <2>4 DEF WorkerBreak, Set
    <2>5. /\ Moves(wk[w], [j EXCEPT !.at = "rest"])
          /\ Moves(wk[w], [j EXCEPT !.pc = "exit", !.at = "start", !.frame = NULL])
      BY <1>1, <2>1, BreakMoves
    <2> HIDE DEF j
    <2> QED
      BY <1>3, <2>0, <2>1, <2>4, <2>5
  <1>7. CASE WorkerReleased(w)
    <2>1. PICK p \in {"tell", "return"} : wk' = [wk EXCEPT ![w] = [wk[w] EXCEPT !.pc = p]]
      BY <1>7 DEF WorkerReleased, Set
    <2> DEFINE r == [wk[w] EXCEPT !.pc = p]
    <2>2. /\ wk' = [wk EXCEPT ![w] = r] /\ UNCHANGED <<life, elsewhere>>
          /\ UNCHANGED <<squeue, waits, owner, listening>> /\ Armed'
          /\ WorkerAt(w, "released") /\ Resting(w)
      BY <1>7, <2>1, ArmedFrame DEF WorkerReleased, thread_vars, serial
    <2>3. life[w] = "running" /\ wk[w].pc = "released" /\ ~wk[w].session /\ ~wk[w].rx_on
      BY <1>1, <2>2 DEF WorkerAt, Keeps
    <2>4. /\ r \in WorkerSet /\ r.serial = wk[w].serial /\ r.pc = p
          /\ r.session = wk[w].session /\ r.rx_on = wk[w].rx_on
      BY <1>1 DEF WorkerSet
    <2>5. \A i \in DOMAIN squeue : squeue[i].from # w
      BY <1>1, <2>2, Rests
    <2> HIDE DEF r
    <2> QED
      BY <1>2, <2>2, <2>3, <2>4, <2>5
  <1> QED
    BY <1>4, <1>5, <1>6, <1>7

\* A worker tells the service that it ends, and ends.
LEMMA TellKeeps ==
    ASSUME ExpansionInv, NEW w \in Thread, WorkerTell(w)
    PROVE  ExpansionInv'
  <1> USE DEF ExpansionInv
  <1>1. /\ UNCHANGED <<life, state, serial_id, worker, pc, job, squeue, waits, owner, listening,
                       irq, call, msg, quiet, reloaded, halted>>
        /\ queue' = Append(queue, Message("ModuleDisconnected", NULL, FALSE))
        /\ life[w] = "running" /\ wk[w].pc = "tell"
        /\ wk' = [wk EXCEPT ![w] = [wk[w] EXCEPT !.pc = "return"]]
    BY DEF WorkerTell, WorkerAt, Put, Set, thread_vars, serial, app
  <1>2. wk[w] \in WorkerSet /\ ~wk[w].session /\ ~wk[w].rx_on
    BY <1>1 DEF Types, Workers, Keeps
  <1> DEFINE r == [wk[w] EXCEPT !.pc = "return"]
  <1>3. /\ r \in WorkerSet /\ r.serial = wk[w].serial /\ r.pc = "return"
        /\ r.session = wk[w].session /\ r.rx_on = wk[w].rx_on
    BY <1>2 DEF WorkerSet
  <1>4. wk' = [wk EXCEPT ![w] = r]
    BY <1>1
  <1>5. \A i \in DOMAIN squeue : squeue[i].from # w
    BY <1>1, ReceiverRests
  <1> HIDE DEF r
  <1>6. wk' \in [Thread -> WorkerSet] /\ Requests' /\ Workers'
    BY <1>1, <1>2, <1>3, <1>4, <1>5, OwnStep
  <1>7. queue' \in Seq(MessageSet) /\ Locked'
    BY <1>1, PutUnlocked DEF MessageType, SyncType
  <1>8. Types'
    BY <1>1, <1>6, <1>7 DEF Types
  <1>9. Listening' /\ Stages' /\ Disabled' /\ Armed' /\ Unharmed'
    BY <1>1, ListeningFrame, StagesFrame, DisabledFrame, ArmedFrame DEF Unharmed
  <1> QED
    BY <1>6, <1>7, <1>8, <1>9

\* The end of a worker's life, and the scrubber after it.
LEMMA EndKeeps ==
    ASSUME ExpansionInv, Scrubber \/ \E w \in Thread : WorkerReturn(w)
    PROVE  ExpansionInv'
  <1> USE DEF ExpansionInv
  <1>1. UNCHANGED <<queue, state, serial_id, worker, pc, job, squeue, waits, owner, listening,
                    irq, wk, call, msg, quiet, reloaded, halted, elsewhere>>
    BY DEF Scrubber, WorkerReturn, serial, elsewhere, control, app
  <1>2. life \in [Thread -> {"none", "ready", "running", "ended"}]
    BY DEF Types
  <1>3. /\ life' \in [Thread -> {"none", "ready", "running", "ended"}]
        /\ \A u \in Thread :
              \/ life'[u] = life[u]
              \/ life[u] # "none" /\ (life[u] # "running" \/ wk[u].pc = "return")
    <2>1. CASE \E w \in Thread : WorkerReturn(w)
      <3>1. PICK w \in Thread : WorkerReturn(w)
        BY <2>1
      <3>2. wk[w].pc = "return" /\ life[w] = "running" /\ life' = [life EXCEPT ![w] = "ended"]
        BY <3>1 DEF WorkerReturn, WorkerAt, End, LifeStep
      <3> QED
        BY <1>2, <3>2
    <2>2. CASE Scrubber
      <3>1. \/ UNCHANGED life
            \/ life[Head(ended)] = "ended" /\ life' = [life EXCEPT ![Head(ended)] = "ready"]
        BY <2>2 DEF Scrubber, Stop, Report, LifeStep
      <3> QED
        BY <1>2, <3>1
    <2> QED
      BY <2>1, <2>2
  <1>4. Types'
    BY <1>1, <1>3 DEF Types
  <1>5. Workers'
    <2> SUFFICES ASSUME NEW u \in Thread PROVE Keeps(u)'
      BY DEF Workers
    <2>1. Keeps(u) /\ (HoldsPort(u) => HoldsPort(u)')
      BY <1>1 DEF Workers, HoldsPort
    <2> QED
      BY <1>1, <1>3, <2>1 DEF Keeps
  <1>6. Requests'
    BY <1>1, RequestsFrame
  <1>7. Listening' /\ Stages' /\ Locked' /\ Disabled' /\ Armed' /\ Unharmed'
    BY <1>1, ElsewhereKeeps, ArmedFrame
  <1> QED
    BY <1>4, <1>5, <1>6, <1>7

\* The module on the wire.
LEMMA WireKeeps ==
    ASSUME ExpansionInv, NEW w \in Thread, Piece(w) \/ Noise(w)
    PROVE  ExpansionInv'
  <1> USE DEF ExpansionInv
  <1>1. CASE Halt("rx_buf")
    BY <1>1, HaltKeeps
  <1>2. CASE ~Halt("rx_buf")
    <2>1. /\ UNCHANGED <<life, queue, state, serial_id, worker, pc, job, squeue, waits, owner,
                         listening, irq, call, msg, quiet, reloaded, halted>>
          /\ \/ wk' = [wk EXCEPT ![w] = [wk[w] EXCEPT !.rx = 1]]
             \/ wk' = [wk EXCEPT ![w] = [wk[w] EXCEPT !.flags = @ \cup {"Error"}]]
      BY <1>2 DEF Piece, Noise, Set, thread_vars, control, serial, app
    <2>2. wk \in [Thread -> WorkerSet] /\ wk[w] \in WorkerSet
      BY DEF Types
    <2>3. PICK r : wk' = [wk EXCEPT ![w] = r] /\ Alike(wk[w], r)
      BY <2>1, <2>2, AlikeFacts
    <2>4. \A u \in Thread : Alike(wk[u], wk'[u])
      BY <2>2, <2>3, AlikeFacts
    <2>5. wk' \in [Thread -> WorkerSet]
      BY <2>2, <2>3 DEF Alike
    <2>6. Types'
      BY <2>1, <2>5 DEF Types
    <2>7. Requests' /\ Workers'
      BY <2>1, <2>4, AlikeKeeps
    <2>8. Listening' /\ Stages' /\ Locked' /\ Disabled' /\ Armed' /\ Unharmed'
      BY <2>1, ListeningFrame, StagesFrame, LockedFrame, DisabledFrame, ArmedFrame DEF Unharmed
    <2> QED
      BY <2>6, <2>7, <2>8
  <1> QED
    BY <1>1, <1>2

-----------------------------------------------------------------------------
\* The application calls the expansion API.
LEMMA CallKeeps ==
    ASSUME ExpansionInv, NEW type \in SyncType, NEW s \in Serial \cup {NULL}, AppCall(type, s),
           type = "SetListenSerial" => s \in Serial
    PROVE  ExpansionInv'
  <1> USE DEF ExpansionInv
  <1>1. /\ UNCHANGED <<life, queue, state, serial_id, worker, pc, job, squeue, waits, owner,
                       listening, irq, wk, halted>>
        /\ call = "idle" /\ call' = "put" /\ msg' = Message(type, s, TRUE) /\ quiet' = FALSE
    BY DEF AppCall, AppIdle, others, thread_vars, control, serial
  <1>2. msg' \in MessageSet /\ msg'.type = type /\ msg'.serial = s /\ msg'.lock
    BY <1>1, MessageFacts DEF MessageType
  <1>3. Types'
    BY <1>1, <1>2 DEF Types
  <1>4. Requests' /\ Workers' /\ Stages' /\ Armed' /\ Unharmed'
    BY <1>1, RequestsFrame, WorkersFrame, StagesFrame, ArmedFrame DEF Unharmed
  <1>5. Listening'
    BY <1>1, ListeningFrame
  <1>6. Locked' /\ Disabled'
    BY <1>1, <1>2 DEF Locked, Disabled
  <1> QED
    BY <1>3, <1>4, <1>5, <1>6

LEMMA CallPutKeeps == ExpansionInv /\ AppPut => ExpansionInv'
  <1> SUFFICES ASSUME ExpansionInv, AppPut PROVE ExpansionInv'
    OBVIOUS
  <1> USE DEF ExpansionInv
  <1>1. /\ UNCHANGED <<life, state, serial_id, worker, pc, job, squeue, waits, owner,
                       listening, irq, wk, halted, msg, quiet, reloaded>>
        /\ call = "put" /\ call' = "wait" /\ queue' = Append(queue, msg)
    BY DEF AppPut, Put, others, thread_vars, serial
  <1> DEFINE n == Len(queue) + 1
  <1>2. queue \in Seq(MessageSet) /\ msg \in MessageSet
    BY DEF Types
  <1>3. /\ queue' \in Seq(MessageSet) /\ DOMAIN queue' = DOMAIN queue \cup {n}
        /\ \A i \in DOMAIN queue : queue'[i] = queue[i]
        /\ queue'[n] = msg
    BY ONLY <1>1, <1>2, AppendElements
  <1> HIDE DEF n
  <1>4. /\ msg.lock /\ msg.type \in SyncType /\ ~quiet /\ ~job.lock
        /\ msg.type = "SetListenSerial" => msg.serial \in Serial
        /\ \A i \in DOMAIN queue : ~queue[i].lock
    BY <1>1 DEF Locked, Disabled
  <1>5. Types'
    BY <1>1, <1>3 DEF Types
  <1>6. Requests' /\ Workers' /\ Stages' /\ Armed' /\ Unharmed'
    BY <1>1, RequestsFrame, WorkersFrame, StagesFrame, ArmedFrame DEF Unharmed
  <1>7. Listening'
    BY <1>1, ListeningFrame
  <1>8. Locked'
    <2>1. ASSUME NEW i \in DOMAIN queue'
          PROVE  /\ queue'[i].type \in SyncType <=> queue'[i].lock
                 /\ queue'[i].lock => i = n /\ queue'[i] = msg
                 /\ queue'[i].type = "SetListenSerial" => queue'[i].serial \in Serial
      <3>1. CASE i = n
        BY <1>3, <1>4, <3>1
      <3>2. CASE i \in DOMAIN queue
        BY <1>3, <1>4, <3>2 DEF Locked
      <3> QED
        BY <1>3, <3>1, <3>2
    <2> QED
      BY <1>1, <1>4, <2>1 DEF Locked
  <1>9. Disabled'
    BY <1>1, <1>4 DEF Disabled
  <1> QED
    BY <1>5, <1>6, <1>7, <1>8, <1>9

LEMMA AcquiredKeeps == ExpansionInv /\ AppAcquired => ExpansionInv'
  <1> SUFFICES ASSUME ExpansionInv, AppAcquired PROVE ExpansionInv'
    OBVIOUS
  <1> USE DEF ExpansionInv
  <1>1. CASE Halt("handle")
    BY <1>1, HaltKeeps
  <1>2. CASE ~Halt("handle")
    <2>1. /\ UNCHANGED <<life, queue, state, serial_id, worker, pc, job, wk, halted, quiet,
                         reloaded>>
          /\ call = "acquire" /\ call' = "idle" /\ msg' = NoJob
          /\ owner[msg.serial] = App /\ TakePin(msg.serial)
      BY <1>2 DEF AppAcquired, Holds, others, thread_vars, control
    <2>7. UNCHANGED <<squeue, waits, owner, listening>> /\ Armed'
      BY <2>1, PinFrame, Constants
    <2>2. msg' \in MessageSet
      BY <2>1, MessageFacts DEF NoJob, MessageType, SyncType
    <2>3. Types'
      BY <2>1, <2>2, <2>7 DEF Types
    <2>4. Requests' /\ Workers' /\ Stages' /\ Unharmed'
      BY <2>1, <2>7, RequestsFrame, WorkersFrame, StagesFrame DEF Unharmed
    <2>5. Listening'
      BY <2>1, <2>7, ListeningFrame
    <2>6. Locked' /\ Disabled'
      BY <2>1 DEF Locked, Disabled
    <2> QED
      BY <2>3, <2>4, <2>5, <2>6, <2>7
  <1> QED
    BY <1>1, <1>2

\* A card is mounted.
LEMMA MountKeeps == ExpansionInv /\ (Mount \/ MountPut) => ExpansionInv'
  <1> SUFFICES ASSUME ExpansionInv, Mount \/ MountPut PROVE ExpansionInv'
    OBVIOUS
  <1> USE DEF ExpansionInv
  <1>1. /\ UNCHANGED <<life, state, serial_id, worker, pc, job, squeue, waits, owner, listening,
                       irq, wk, halted, call, msg, quiet, reloaded>>
        /\ \/ UNCHANGED queue
           \/ queue' = Append(queue, Message("ReloadSettings", NULL, FALSE))
    BY DEF Mount, MountPut, Put, thread_vars, control, serial, app
  <1>2. queue' \in Seq(MessageSet) /\ Locked'
    <2>1. CASE UNCHANGED queue
      BY <1>1, <2>1, LockedFrame DEF Types
    <2>2. CASE queue' = Append(queue, Message("ReloadSettings", NULL, FALSE))
      BY <1>1, <2>2, PutUnlocked DEF MessageType, SyncType
    <2> QED
      BY <1>1, <2>1, <2>2
  <1>3. Types'
    BY <1>1, <1>2 DEF Types
  <1>4. Requests' /\ Workers' /\ Stages' /\ Disabled' /\ Armed' /\ Unharmed'
    BY <1>1, RequestsFrame, WorkersFrame, StagesFrame, DisabledFrame, ArmedFrame DEF Unharmed
  <1>5. Listening'
    BY <1>1, ListeningFrame
  <1> QED
    BY <1>2, <1>3, <1>4, <1>5

-----------------------------------------------------------------------------
LEMMA StepKeeps == ExpansionInv /\ [Next]_vars => ExpansionInv'
  <1> SUFFICES ASSUME ExpansionInv, [Next]_vars PROVE ExpansionInv'
    OBVIOUS
  <1>1. CASE ControlThread
    BY <1>1, GetKeeps, LoadKeeps, SwitchKeeps, ListenKeeps, StopKeeps, JoinKeeps, DoneKeeps,
       AllocKeeps, LaunchKeeps DEF ControlThread
  <1>2. CASE SerialThread
    BY <1>2, ServeKeeps
  <1>3. CASE Scrubber
    BY <1>3, EndKeeps
  <1>4. CASE \E w \in Thread : WorkerThread(w)
    <2>1. PICK w \in Thread : WorkerThread(w)
      BY <1>4
    <2>2. CASE WorkerAcquire(w) \/ WorkerExit(w)
      BY <2>2, WorkerAsks
    <2>3. CASE WorkerAcquired(w) \/ WorkerRead(w) \/ WorkerBreak(w) \/ WorkerReleased(w)
      BY <2>3, WorkerOwnKeeps
    <2>4. CASE WorkerTell(w)
      BY <2>4, TellKeeps
    <2>5. CASE WorkerReturn(w)
      BY <2>5, EndKeeps
    <2> QED
      BY <2>1, <2>2, <2>3, <2>4, <2>5 DEF WorkerThread
  <1>5. CASE AppPut \/ AppAcquired \/ MountPut \/ Mount
    BY <1>5, CallPutKeeps, AcquiredKeeps, MountKeeps
  <1>6. CASE \E s \in Serial : Edge(s) \/ AppAcquire(s) \/ AppRelease(s) \/ AppCall("SetListenSerial", s)
    <2>1. PICK s \in Serial : Edge(s) \/ AppAcquire(s) \/ AppRelease(s) \/ AppCall("SetListenSerial", s)
      BY <1>6
    <2>2. CASE Edge(s)
      BY <2>2, EdgeKeeps
    <2>3. CASE AppAcquire(s) \/ AppRelease(s)
      BY <2>3, AppAsks
    <2>4. CASE AppCall("SetListenSerial", s)
      BY <2>4, CallKeeps DEF SyncType
    <2> QED
      BY <2>1, <2>2, <2>3, <2>4
  <1>7. CASE \E s \in LogPorts : AppLogging(s)
    BY <1>7, AppAsks, BoundsType
  <1>8. CASE AppCall("Enable", NULL) \/ AppCall("Disable", NULL)
    BY <1>8, CallKeeps DEF SyncType
  <1>9. CASE \E w \in Thread : Piece(w) \/ Noise(w)
    BY <1>9, WireKeeps
  <1>10. CASE UNCHANGED vars
    <2>1. /\ UNCHANGED <<life, queue, state, serial_id, worker, pc, job, squeue, waits, owner,
                         listening, irq, wk, call, msg, quiet, reloaded, halted>>
      BY <1>10 DEF vars, thread_vars, control, serial, app
    <2>2. Types' /\ Unharmed'
      BY <2>1 DEF Types, Unharmed, ExpansionInv
    <2>3. Requests' /\ Workers' /\ Stages' /\ Locked' /\ Disabled' /\ Armed'
      BY <2>1, RequestsFrame, WorkersFrame, StagesFrame, LockedFrame, DisabledFrame, ArmedFrame
         DEF ExpansionInv
    <2>4. Listening'
      BY <2>1, ListeningFrame DEF ExpansionInv
    <2> QED
      BY <2>2, <2>3, <2>4 DEF ExpansionInv
  <1> QED
    BY <1>1, <1>2, <1>3, <1>4, <1>5, <1>6, <1>7, <1>8, <1>9, <1>10 DEF Next, System, Environment

\* The two protocols hold in every reachable state: what lies in the serial
\* control's queue is what the control thread, the workers and the application
\* have asked for at the steps they are at (expansion.c:195-225,
\* expansion_worker.c:332-381, furi_hal_serial_control.c:216-261).
THEOREM ExpansionInvariance == Spec => []ExpansionInv
  <1>1. Init => ExpansionInv
    BY ExpansionInitially
  <1>2. ExpansionInv /\ [Next]_vars => ExpansionInv'
    BY StepKeeps
  <1> QED
    BY <1>1, <1>2, PTL DEF Spec

\* The furi_checks of furi_hal_serial_control_handler_expansion_set_callback
\* never fail, and between two messages of the service the serial control
\* listens exactly when the service is Enabled, on the service's port, for
\* any number of ports and workers, and any length of the queues.
THEOREM ListenersAgree == Spec => []ListenExact
  <1>1. ExpansionInv => ListenExact
    BY DEF ExpansionInv, Unharmed, Listening, Exact, ListenExact
  <1> QED
    BY <1>1, ExpansionInvariance, PTL

\* What the invariant says of a disabled service,
LEMMA DisabledIsQuiet == ExpansionInv => DisableHolds
  <1> SUFFICES ASSUME ExpansionInv, quiet, ~reloaded PROVE DisableHolds
    BY DEF DisableHolds
  <1> USE DEF ExpansionInv
  <1>1. state = "Disabled" /\ pc \in {"get", "load", "switch", "done"}
    BY DEF Disabled
  <1>2. listening = NULL /\ worker = NULL
    BY <1>1 DEF Listening, Exact
  <1>3. ASSUME NEW w \in Thread PROVE life[w] = "none" /\ \A s \in Serial : owner[s] # w
    <2>1. Keeps(w) /\ w # NULL
      BY Constants DEF Workers
    <2>2. life[w] = "none"
      BY <1>2, <2>1 DEF Keeps
    <2>3. ~HoldsPort(w)
      BY <2>1, <2>2 DEF Keeps, HoldsPort
    <2> QED
      BY <2>1, <2>2, <2>3 DEF Keeps
  <1> QED
    BY <1>1, <1>2, <1>3 DEF DisableHolds

\* and of one that has a worker.
LEMMA WorkerUnheard == ExpansionInv /\ worker # NULL => listening = NULL
  BY DEF ExpansionInv, Listening, Stages, Exact

-----------------------------------------------------------------------------
\* The application gets and holds a port only under its expansion_disable, and
\* the gpio has the callback for no pin but that of the port listened to.
Tenancy ==
    /\ \A s \in Serial : owner[s] = App => quiet
    /\ \A i \in DOMAIN squeue :
          squeue[i].from = App /\ squeue[i].type \in {"Acquire", "Release"} => quiet
    /\ \A s \in hooked : s \in Serial /\ s = listening
    /\ halted = "gpio" => quiet /\ reloaded

\* Steps that ask nothing on the application's behalf.
LEMMA TenancyFrame ==
    ASSUME Tenancy, UNCHANGED <<owner, listening, hooked, quiet>>, halted' # "gpio",
           \A i \in DOMAIN squeue' :
                squeue'[i].from = App => \E j \in DOMAIN squeue : squeue[j] = squeue'[i]
    PROVE  Tenancy'
  BY DEF Tenancy

LEMMA TenancyAsk ==
    ASSUME Types, Tenancy, halted' # "gpio", quiet' = quiet, NEW p \in Caller, NEW s \in Serial \cup {NULL},
           NEW type \in {"Acquire", "Release", "Logging", "Listen", "Ignore"}, Ask(type, s, p),
           p = App /\ type \in {"Acquire", "Release"} => quiet
    PROVE  Tenancy'
  <1> DEFINE n == Len(squeue) + 1
             new == SMessage(type, s, p)
  <1>1. squeue' = Append(squeue, new) /\ UNCHANGED <<owner, listening, hooked>>
    BY DEF Ask
  <1>2. new \in SMessageSet /\ new.type = type /\ new.from = p
    BY SMessageFacts
  <1> HIDE DEF new
  <1>3. /\ DOMAIN squeue' = DOMAIN squeue \cup {n} /\ squeue'[n] = new
        /\ \A i \in DOMAIN squeue : squeue'[i] = squeue[i]
    BY <1>1, <1>2, AppendElements DEF Types
  <1> QED
    BY <1>1, <1>2, <1>3 DEF Tenancy

LEMMA TenancyServe == ExpansionInv /\ Tenancy /\ SerialThread => Tenancy'
  <1> SUFFICES ASSUME ExpansionInv, Tenancy, SerialThread PROVE Tenancy'
    OBVIOUS
  <1> DEFINE m == Head(squeue)
  <1>1. /\ squeue # <<>> /\ halted = "no" /\ 1 \in DOMAIN squeue /\ m = squeue[1] /\ Asked(m)
        /\ m \in SMessageSet
    BY TailElements DEF SerialThread, ExpansionInv, Types, Requests
  <1>2. m.type \in {"Listen", "Ignore"} =>
            m.serial \in Serial /\ ListenChecked(m.type, m.serial)
    BY <1>1, ListenIsChecked DEF ListenChecked, ExpansionInv, Types
  <1>3. CASE Halt("gpio")
    <2>1. /\ UNCHANGED <<owner, squeue, listening, hooked, quiet, reloaded>> /\ halted' = "gpio"
      BY <1>3 DEF Halt, serial, app
    <2>2. \/ m.type = "Release" /\ ~ReleaseChecked(m.serial)
          \/ m.type = "Listen" /\ ~ArmChecked(m.serial)
      BY <1>1, <1>2, <1>3 DEF SerialThread, Halt
    <2>3. m.type # "Listen"
      BY <1>2, <2>2, SerialType DEF Tenancy, ArmChecked, ListenChecked
    <2>4. m.type = "Release" /\ listening = m.serial /\ m.serial \in Serial
      BY <1>1, <2>2, <2>3 DEF ReleaseChecked, Asked
    <2>5. m.from \in Caller /\ m.from # Control
      BY <1>1, <2>4 DEF Asked, SMessageSet
    <2>6. m.from \notin Thread
      <3>1. ASSUME m.from \in Thread PROVE worker # NULL
        <4>1. Keeps(m.from) /\ wk[m.from].pc = "released"
          BY <1>1, <2>4, <3>1 DEF Asked, ExpansionInv, Workers
        <4>2. life[m.from] \in {"none", "ready", "running", "ended"}
          BY <3>1 DEF ExpansionInv, Types
        <4> QED
          BY <3>1, <4>1, <4>2, Constants DEF Keeps
      <3> QED
        BY <2>4, <3>1, WorkerUnheard, SerialType
    <2>7. quiet
      BY <1>1, <2>4, <2>5, <2>6 DEF Tenancy, Caller
    <2>8. reloaded
      BY <2>4, <2>7, DisabledIsQuiet, SerialType DEF DisableHolds
    <2> QED
      BY <2>1, <2>7, <2>8 DEF Tenancy
  <1>4. CASE ~Halt("gpio")
    <2>1. /\ squeue' = Tail(squeue) /\ UNCHANGED <<quiet, reloaded, halted>>
          /\ m.type = "Acquire" => HandleAcquire(m.serial, m.from)
          /\ m.type = "Release" => HandleRelease(m.serial, m.from)
          /\ m.type = "Logging" => HandleLogging(m.serial)
          /\ m.type \in {"Listen", "Ignore"} => HandleListen(m.type, m.serial)
          /\ m.type = "Irq" => UNCHANGED <<owner, listening, hooked, irq>>
      BY <1>1, <1>2, <1>4 DEF SerialThread, app
    <2>2. \A i \in DOMAIN squeue' : i + 1 \in DOMAIN squeue /\ squeue'[i] = squeue[i + 1]
      BY <1>1, <2>1, TailElements DEF ExpansionInv, Types
    <2>3. ASSUME NEW s \in Serial, owner'[s] = App PROVE quiet
      <3>1. owner \in [Serial -> Caller \cup {NULL}] /\ App # NULL
        BY Constants DEF ExpansionInv, Types
      <3>2. owner[s] = App \/ (m.type = "Acquire" /\ m.from = App)
        BY <1>1, <2>1, <2>3, <3>1
           DEF HandleAcquire, HandleRelease, HandleLogging, HandleListen, SMessageSet
      <3> QED
        BY <1>1, <3>2 DEF Tenancy
    <2>4. ASSUME NEW s \in hooked' PROVE s \in Serial /\ s = listening'
      <3>0. listening \in Serial \cup {NULL}
        BY DEF ExpansionInv, Types
      <3>1. CASE m.type = "Acquire"
        BY <2>1, <2>4, <3>0, <3>1 DEF HandleAcquire, LogSetHandle, Disarm, Tenancy
      <3>2. CASE m.type = "Release"
        BY <1>1, <2>1, <2>4, <3>0, <3>2 DEF HandleRelease, LogSetHandle, Arm, Asked, Tenancy
      <3>3. CASE m.type = "Logging"
        BY <2>1, <2>4, <3>0, <3>3 DEF HandleLogging, LogSetHandle, Tenancy
      <3>4. CASE m.type \in {"Listen", "Ignore"}
        <4>1. CASE m.type = "Listen"
          <5>1. hooked = {}
            BY <1>2, <4>1, SerialType DEF ListenChecked, Tenancy
          <5> QED
            BY <1>2, <2>1, <2>4, <4>1, <5>1 DEF HandleListen, Arm
        <4>2. CASE m.type = "Ignore"
          <5>1. hooked' = {}
            BY <1>2, <2>1, <4>2 DEF HandleListen, Disarm, ListenChecked, Tenancy
          <5> QED
            BY <2>4, <5>1
        <4> QED
          BY <3>4, <4>1, <4>2
      <3>5. CASE m.type = "Irq"
        BY <2>1, <2>4, <3>5 DEF Tenancy
      <3> QED
        BY <1>1, <3>1, <3>2, <3>3, <3>4, <3>5 DEF SMessageSet
    <2> QED
      BY <1>1, <2>1, <2>2, <2>3, <2>4 DEF Tenancy
  <1> QED
    BY <1>3, <1>4

\* The application's next call, and the answer to it.
LEMMA TenancyCall ==
    ASSUME ExpansionInv, Tenancy,
           ControlDone \/ \E type \in SyncType, s \in Serial \cup {NULL} : AppCall(type, s)
    PROVE  Tenancy'
  <1> USE DEF control, serial, others
  <1>1. UNCHANGED <<owner, squeue, listening, hooked>> /\ halted' = "no"
    BY DEF ControlDone, AppCall, At, AppIdle
  <1>2. CASE ControlDone /\ ~job.lock
    BY <1>1, <1>2, TenancyFrame DEF ControlDone, app
  <1>3. CASE ControlDone /\ job.lock
    <2>1. ~quiet
      BY <1>3 DEF ExpansionInv, Locked, Disabled
    <2> QED
      BY <1>1, <2>1 DEF Tenancy
  <1>4. CASE \E type \in SyncType, s \in Serial \cup {NULL} : AppCall(type, s)
    <2>1. Resting(App) /\ \A t \in Serial : owner[t] # App
      BY <1>4 DEF AppCall, AppIdle, Holds
    <2>2. \A i \in DOMAIN squeue : squeue[i].from # App
      BY <2>1, Rests, Constants DEF ExpansionInv
    <2> QED
      BY <1>1, <2>1, <2>2 DEF Tenancy
  <1> QED
    BY <1>2, <1>3, <1>4

\* The other steps of the control thread, the scrubber and the storage,
LEMMA TenancyControl ==
    ASSUME ExpansionInv, Tenancy,
           (ControlThread /\ ~ControlDone) \/ Scrubber \/ Mount \/ MountPut
    PROVE  Tenancy'
  <1> USE DEF control, serial, app, At
  <1>1. CASE ControlOff \/ ControlListen
    <2>1. serial_id' \in Serial
      BY <1>1, ListenKeeps DEF ExpansionInv, Types
    <2>2. /\ halted' = "no" /\ quiet' = quiet
          /\ \E type \in {"Listen", "Ignore"} : Ask(type, serial_id', Control)
      BY <1>1 DEF ControlOff, ControlListen
    <2> QED
      BY <2>1, <2>2, TenancyAsk, Constants DEF ExpansionInv
  <1>2. CASE ~(ControlOff \/ ControlListen)
    <2>1. CASE \/ ControlGet \/ ControlLoad \/ ControlSwitch \/ ControlStop \/ ControlFree
               \/ ControlJoin \/ ControlDisabled \/ ControlAlloc \/ ControlStart
      <3>1. UNCHANGED <<owner, squeue, listening, hooked, quiet>> /\ halted' = "no"
        BY <2>1 DEF ControlGet, ControlLoad, ControlSwitch, ControlStop, ControlFree, ControlJoin,
                    ControlDisabled, ControlAlloc, ControlStart
      <3> QED
        BY <3>1, TenancyFrame
    <2>2. CASE Scrubber \/ Mount \/ MountPut
      <3>1. UNCHANGED <<owner, squeue, listening, hooked, quiet>> /\ halted' = "no"
        BY <2>2 DEF Scrubber, Mount, MountPut, elsewhere
      <3> QED
        BY <3>1, TenancyFrame
    <2> QED
      BY <1>2, <2>1, <2>2 DEF ControlThread
  <1> QED
    BY <1>1, <1>2

\* of the workers and the module on the wire,
LEMMA TenancyWorker ==
    ASSUME ExpansionInv, Tenancy, NEW w \in Thread, WorkerThread(w) \/ Piece(w) \/ Noise(w)
    PROVE  Tenancy'
  <1> USE DEF control, serial, app, elsewhere, WorkerAt
  <1>1. CASE WorkerAcquire(w) \/ WorkerExit(w)
    <2>1. life[w] # "none"
      BY <1>1 DEF WorkerAcquire, WorkerExit
    <2>2. wk[w].serial \in Serial
      BY <2>1 DEF ExpansionInv, Workers, Keeps
    <2>3. /\ halted' = "no" /\ quiet' = quiet
          /\ \E type \in {"Acquire", "Release"} : Ask(type, wk[w].serial, w)
      BY <1>1 DEF WorkerAcquire, WorkerExit
    <2> QED
      BY <2>2, <2>3, TenancyAsk, Constants DEF ExpansionInv
  <1>2. CASE \/ WorkerAcquired(w) \/ WorkerRead(w) \/ WorkerBreak(w) \/ WorkerReleased(w)
             \/ WorkerTell(w) \/ WorkerReturn(w) \/ Piece(w) \/ Noise(w)
    <2>1. UNCHANGED <<owner, squeue, listening, hooked, quiet>> /\ halted' \in {"no", "handle", "rx_buf"}
      BY <1>2 DEF WorkerAcquired, WorkerRead, WorkerBreak, WorkerReleased, WorkerTell,
                  WorkerReturn, Piece, Noise, Halt, TakePin
    <2> QED
      BY <2>1, TenancyFrame
  <1> QED
    BY <1>1, <1>2 DEF WorkerThread

\* of the application and of the pins.
LEMMA TenancyApp ==
    ASSUME ExpansionInv, Tenancy, NEW s \in Serial \cup {NULL},
           \/ AppPut \/ AppAcquired \/ AppLogging(s)
           \/ s \in Serial /\ (AppAcquire(s) \/ AppRelease(s) \/ Edge(s))
    PROVE  Tenancy'
  <1> USE DEF control, serial, app, others
  <1>1. CASE AppLogging(s) \/ (s \in Serial /\ (AppAcquire(s) \/ AppRelease(s)))
    <2>1. /\ halted' = "no" /\ quiet' = quiet
          /\ \/ Ask("Acquire", s, App) /\ quiet
             \/ Ask("Release", s, App) /\ s \in Serial /\ owner[s] = App
             \/ Ask("Logging", s, App)
      BY <1>1 DEF AppAcquire, AppRelease, AppLogging, AppIdle, Holds
    <2>2. \E type \in {"Acquire", "Release", "Logging"} :
              Ask(type, s, App) /\ (type # "Logging" => quiet)
      BY <2>1 DEF Tenancy
    <2> QED
      BY <2>1, <2>2, TenancyAsk, Constants DEF ExpansionInv
  <1>2. CASE AppPut \/ AppAcquired
    <2>1. UNCHANGED <<owner, squeue, listening, hooked, quiet>> /\ halted' \in {"no", "handle"}
      BY <1>2 DEF AppPut, AppAcquired, Halt, TakePin
    <2> QED
      BY <2>1, TenancyFrame
  <1>3. CASE Edge(s)
    <2> DEFINE new == SMessage("Irq", NULL, NULL)
    <2>1. /\ UNCHANGED <<owner, listening, hooked, quiet>> /\ halted' = "no"
          /\ UNCHANGED squeue \/ squeue' = Append(squeue, new)
      BY <1>3 DEF Edge
    <2>2. new \in SMessageSet /\ new.from = NULL
      BY ONLY SMessageFacts
    <2>4. squeue \in Seq(SMessageSet)
      BY DEF ExpansionInv, Types
    <2> HIDE DEF new
    <2>3. \A i \in DOMAIN squeue' :
              squeue'[i].from = App => \E j \in DOMAIN squeue : squeue[j] = squeue'[i]
      <3>1. CASE UNCHANGED squeue
        BY <3>1
      <3>2. CASE squeue' = Append(squeue, new)
        BY <2>2, <2>4, <3>2, AppendElements, Constants
      <3> QED
        BY <2>1, <3>1, <3>2
    <2> QED
      BY <2>1, <2>3, TenancyFrame
  <1> QED
    BY <1>1, <1>2, <1>3

LEMMA TenancyKeeps == ExpansionInv /\ Tenancy /\ [Next]_vars => Tenancy'
  <1> SUFFICES ASSUME ExpansionInv, Tenancy, [Next]_vars PROVE Tenancy'
    OBVIOUS
  <1>1. CASE System
    BY <1>1, TenancyCall, TenancyControl, TenancyServe, TenancyWorker, TenancyApp DEF System
  <1>2. CASE Environment
    BY <1>2, TenancyCall, TenancyControl, TenancyWorker, TenancyApp, BoundsType
       DEF Environment, SyncType
  <1>3. CASE UNCHANGED vars
    BY <1>3 DEF vars, serial, app, Tenancy
  <1> QED
    BY <1>1, <1>2, <1>3 DEF Next

\* While the service listens on a port that nobody holds, its interrupt is on:
\* no change of the log port and no release of a port leaves it deaf.  The
\* gpio's furi_check (furi_hal_gpio.c:203) refuses a release only if a card was
\* mounted, and the detection enabled again by it, while the application held
\* the port under its expansion_disable.
THEOREM DetectionStaysArmed == Spec => []DetectionArmed
  <1>1. Init => Tenancy
    BY Constants DEF Init, Tenancy
  <1>2. ExpansionInv /\ Tenancy /\ [Next]_vars => Tenancy'
    BY TenancyKeeps
  <1>3. ExpansionInv /\ Tenancy => DetectionArmed
    BY DEF ExpansionInv, Tenancy, DetectionArmed
  <1> QED
    BY <1>1, <1>2, <1>3, ExpansionInvariance, PTL DEF Spec

\* After expansion_disable has returned no worker lives, none holds a port and
\* nothing listens, whatever messages of modules are still queued, until the
\* application's next call or a mounted card.
THEOREM DisabledStaysQuiet == Spec => []DisableHolds
  BY DisabledIsQuiet, ExpansionInvariance, PTL

\* A worker that has ended has closed its session, stopped its reception and
\* released its port, whichever way its loop ended.
THEOREM EndedWorkerIsClean == Spec => []WorkerCleansUp
  <1>1. ExpansionInv => WorkerCleansUp
    <2> SUFFICES ASSUME ExpansionInv, NEW w \in Thread, wk[w].pc = "return"
                 PROVE  ~wk[w].session /\ ~wk[w].rx_on /\ \A s \in Serial : owner[s] # w
      BY DEF WorkerCleansUp
    <2>1. Keeps(w)
      BY DEF ExpansionInv, Workers
    <2> QED
      BY <2>1 DEF Keeps, HoldsPort
  <1> QED
    BY <1>1, ExpansionInvariance, PTL

=============================================================================
