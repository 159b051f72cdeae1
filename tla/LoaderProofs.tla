---------------------------- MODULE LoaderProofs ----------------------------
(***************************************************************************)
(* The word loader->app.thread is the lock and the application at once.    *)
(* That this is sound, for any clients, any size of the loader's queues    *)
(* and any names, rests on what every message in the queue stands for, and *)
(* on the desktop's answer to BeforeLoad.                                  *)
(***************************************************************************)
EXTENDS Loader, SequenceFacts

\* The part of TypeOK that the proofs need.
Types ==
    /\ life \in [Thread -> {"none", "ready", "running", "ended"}]
    /\ ended \in Seq(Thread) /\ released \in BOOLEAN
    /\ queue \in Seq(Job)
    /\ thread \in {NULL, MAGIC, App}
    /\ call \in [Caller -> {"idle", "put", "reply", "true", "false"}]
    /\ msg \in [Caller -> Job] /\ holds \subseteq Client

AppClosed == Message("AppClosed", NULL, NULL)

\* app.thread is the application from its allocation to its release.  AppClosed
\* is in the queue when the scrubber is done with it, and is not when it has been
\* allocated and not been started.
Application ==
    /\ thread = App <=> life[App] # "none"
    /\ \A i \in DOMAIN queue : queue[i].type = "AppClosed" => life[App] = "ready"
    /\ pc = "start" /\ job.name = "app" =>
        /\ life[App] = "ready"
        /\ \A i \in DOMAIN queue : queue[i].type # "AppClosed"
    /\ \A i \in DOMAIN ended : ended[i] = App => life[App] = "ended"
    /\ \A i, j \in DOMAIN ended : ended[i] = App /\ ended[j] = App => i = j
    /\ released => ended # <<>>

\* What callers may ask for.
Legal(c, m) ==
    /\ m.from = c
    /\ m.type \in MessageType \ {"AppClosed"}
    /\ m.type \in {"Lock", "Unlock"} => c \in Client
    /\ m.type = "WindowClosed" => c \in Window
    /\ m.type = "ShowMenu" => m.name = NULL
    /\ c = Desktop => m.type \in {"IsLocked", "StartDetached", "ShowMenu"}

\* The message a caller waits for is in the queue, or is being handled, once.
Awaits(m) == call[m.from] = "reply" /\ msg[m.from] = m

Messages ==
    /\ \A c \in Caller :
        IF call[c] = "idle" THEN msg[c] = NoJob
        ELSE Legal(c, msg[c]) /\ (msg[c].type \notin Sync => call[c] = "put")
    /\ \A i \in DOMAIN queue :
        \/ queue[i] = AppClosed
        \/ /\ queue[i].from \in Caller /\ Legal(queue[i].from, queue[i])
           /\ queue[i].type \in Sync => Awaits(queue[i])
    /\ \A i, j \in DOMAIN queue :
        \/ queue[i].type \in Sync /\ queue[j].type \in Sync /\ queue[i].from = queue[j].from
        \/ queue[i].type = "AppClosed" /\ queue[j].type = "AppClosed"
        => i = j
    /\ job.type = "StartByName" =>
        /\ job.from \in Caller /\ Awaits(job)
        /\ \A i \in DOMAIN queue : queue[i].type \in Sync => queue[i].from # job.from
    /\ job.type = "WindowClosed" => job.from \in Window
    /\ job.type = "ShowMenu" => job.name = NULL

\* The lock is in one hand: a client's, or that of its loader_unlock on the way.
Lock ==
    /\ thread = MAGIC <=> LockOwners # {}
    /\ \A c, d \in LockOwners : c = d
    /\ halted # "unlock"
    /\ \A c \in Client : msg[c].type \in {"Lock", "Unlock"} => c \notin holds
    /\ \A i, j \in DOMAIN queue : queue[i].type = "Unlock" /\ queue[j].type = "Unlock" => i = j
    /\ \A i \in DOMAIN queue : queue[i].type = "Unlock" =>
        /\ queue[i].from \notin holds
        /\ msg[queue[i].from].type # "Unlock"
        /\ ~(msg[queue[i].from].type = "Lock" /\ call[queue[i].from] = "true")

\* Between BeforeLoad and the answer of the desktop the loader waits.  While it
\* loads, and while there is an application, no event lies about that would tell
\* the desktop otherwise, and loader_is_locked has not returned false to it.
Loading == pc \in {"load", "done", "failed", "dialog", "next"} \/ (pc = "start" /\ job.type # "ShowMenu")

DesktopTold ==
    /\ desk \in {"alloc", "subscribed", "ask", "run"}
    /\ desk = "alloc" => events = <<>>
    /\ desk \in {"alloc", "subscribed"} => call[Desktop] = "idle"
    /\ desk = "ask" => call[Desktop] # "idle" /\ msg[Desktop].type = "IsLocked"
    /\ desk = "run" /\ call[Desktop] # "idle" => msg[Desktop].type \notin Sync
    /\ semaphore = 1 => pc = "animation" /\ events = <<>> /\ app_running /\ desk = "run"
    /\ pc = "animation" => semaphore = 1 \/ events \in {<<"Before">>, <<"After", "Before">>}
    /\ pc # "animation" => events \in {<<>>, <<"After">>}
    /\ Loading => events = <<>>
    /\ thread = App => events \in {<<>>, <<"Before">>}
    /\ thread = App \/ pc = "load" =>
        /\ desk = "run" => app_running
        /\ desk = "ask" => call[Desktop] # "false"

LoaderInv == Types /\ Application /\ Messages /\ Lock /\ DesktopTold

-----------------------------------------------------------------------------

\* What each part of the invariant depends on.
LEMMA ApplicationFrame ==
    ASSUME Application, UNCHANGED <<thread, life, ended, released, queue>>,
           pc' = "start" /\ job'.name = "app" => pc = "start" /\ job.name = "app"
    PROVE  Application'
  BY DEF Application

LEMMA MessagesFrame ==
    ASSUME Messages, UNCHANGED <<queue, call, msg>>,
           job' = job \/ job'.type \notin {"StartByName", "WindowClosed", "ShowMenu"}
    PROVE  Messages'
  BY DEF Messages, Awaits

LEMMA LockFrame ==
    ASSUME Lock, UNCHANGED <<thread, queue, call, msg, holds>>, halted' # "unlock"
    PROVE  Lock'
  BY DEF Lock, LockOwners

LEMMA DesktopFrame ==
    ASSUME DesktopTold, UNCHANGED <<desk, events, semaphore, app_running>>,
           call'[Desktop] = call[Desktop], msg'[Desktop] = msg[Desktop],
           thread' = App => thread = App,
           pc' = "animation" <=> pc = "animation", pc' = "load" => pc = "load",
           Loading' => Loading
    PROVE  DesktopTold'
  BY DEF DesktopTold

LEMMA Constants ==
    /\ App \in Thread /\ App \in Caller /\ Desktop \in Caller /\ Window \subseteq Caller
    /\ Client \subseteq Caller /\ Window \subseteq Thread /\ App \notin Window
    /\ Menu \in Window /\ Applications \in Window
    /\ MAGIC # App /\ MAGIC # NULL /\ NULL # App /\ NULL # Desktop /\ NULL \notin Name
    /\ NULL \notin Caller /\ Desktop \notin Client /\ Desktop \notin Window /\ Desktop # App
    /\ App \notin Client /\ Client \cap Window = {}
    /\ App \notin Joined /\ Joined \subseteq Thread
  BY ThreadsType, CallersType DEF Window, Caller

\* The desktop's events, which are at most two.
LEMMA EventQueue ==
    /\ Append(<<>>, "Before") = <<"Before">> /\ Append(<<>>, "After") = <<"After">>
    /\ Append(<<"After">>, "Before") = <<"After", "Before">>
    /\ <<"After">> # <<>> /\ <<"After">> # <<"Before">> /\ <<"Before">> # <<>>
    /\ <<"After", "Before">> # <<>> /\ <<"After", "Before">> # <<"Before">>
    /\ Head(<<"Before">>) = "Before" /\ Tail(<<"Before">>) = <<>>
    /\ Head(<<"After">>) = "After" /\ Tail(<<"After">>) = <<>>
    /\ Head(<<"After", "Before">>) = "After" /\ Tail(<<"After", "Before">>) = <<"Before">>
  <1>1. Append(<<>>, "Before") = <<"Before">> /\ Append(<<>>, "After") = <<"After">>
    OBVIOUS
  <1>2. Append(<<"After">>, "Before") = <<"After", "Before">>
    BY ONLY AppendToOne
  <1>3. /\ <<"After">> # <<>> /\ <<"After">> # <<"Before">> /\ <<"Before">> # <<>>
        /\ <<"After", "Before">> # <<>> /\ <<"After", "Before">> # <<"Before">>
    OBVIOUS
  <1>4. /\ Head(<<"Before">>) = "Before" /\ Tail(<<"Before">>) = <<>>
        /\ Head(<<"After">>) = "After" /\ Tail(<<"After">>) = <<>>
    OBVIOUS
  <1>5. Head(<<"After", "Before">>) = "After" /\ Tail(<<"After", "Before">>) = <<"Before">>
    OBVIOUS
  <1> QED
    BY <1>1, <1>2, <1>3, <1>4, <1>5

LEMMA LoaderInitially == Init => LoaderInv
  <1> SUFFICES ASSUME Init PROVE LoaderInv
    OBVIOUS
  <1>1. /\ life = [th \in Thread |-> "none"] /\ ended = <<>> /\ released = FALSE
        /\ queue = <<>> /\ thread = NULL /\ pc = "boot" /\ job = NoJob /\ holds = {}
        /\ call = [c \in Caller |-> "idle"] /\ msg = [c \in Caller |-> NoJob]
        /\ desk = "alloc" /\ events = <<>> /\ semaphore = 0 /\ halted = "no"
    BY DEF Init, LifeInit
  <1>2. NoJob \in Job /\ NoJob.type = "IsLocked" /\ NoJob.name = NULL
    BY DEF NoJob, Message, Job, MessageType, Sync
  <1>3. queue \in Seq(Job) /\ ended \in Seq(Thread) /\ DOMAIN queue = {} /\ DOMAIN ended = {}
    BY <1>1
  <1>4. Types
    BY <1>1, <1>2, <1>3 DEF Types
  <1>5. Application
    BY <1>1, <1>3, Constants DEF Application
  <1>6. Messages
    BY <1>1, <1>2, <1>3 DEF Messages
  <1>7. Lock
    BY <1>1, <1>2, <1>3, Constants DEF Lock, LockOwners
  <1>8. DesktopTold
    BY <1>1, Constants DEF DesktopTold, Loading
  <1> QED
    BY <1>4, <1>5, <1>6, <1>7, <1>8 DEF LoaderInv

-----------------------------------------------------------------------------
\* The start of an application, step by step in the loader's thread.
LEMMA StartKeeps ==
    ASSUME LoaderInv,
           \/ Boot \/ BeforeLoad \/ AnimationUnloaded \/ AnimationTimeout \/ LoadFails \/ LoadApp
           \/ LoadApplications \/ StartThread
    PROVE  LoaderInv'
  <1> USE DEF LoaderInv, GoTo, service, calls, desktop, windows, thread_vars
  <1>1. CASE Boot
    <2>1. /\ UNCHANGED <<thread_vars, queue, thread, call, msg, holds, desk, events, semaphore,
                         app_running, halted>>
          /\ pc = "boot" /\ pc' \in {"get", "before"}
          /\ job' = job \/ job' = Message("Autorun", "app", NULL)
      BY <1>1 DEF Boot
    <2>2. job' = job \/ job'.type = "Autorun"
      BY <2>1 DEF Message
    <2>3. Types'
      BY <2>1, <2>2 DEF Types
    <2>4. Application' /\ Messages' /\ Lock'
      BY <2>1, <2>2, ApplicationFrame, MessagesFrame, LockFrame DEF Lock
    <2>5. DesktopTold'
      BY <2>1, DesktopFrame DEF Loading
    <2> QED
      BY <2>3, <2>4, <2>5
  <1>2. CASE BeforeLoad
    <2>1. /\ UNCHANGED <<thread_vars, queue, thread, job, call, msg, holds, desk, semaphore,
                         app_running, halted>>
          /\ pc = "before"
          /\ IF desk = "alloc" THEN pc' = "load" /\ events' = events
             ELSE pc' = "animation" /\ events' = Append(events, "Before")
      BY <1>2 DEF BeforeLoad
    <2>2. Types'
      BY <2>1 DEF Types
    <2>3. Application' /\ Messages' /\ Lock'
      BY <2>1, ApplicationFrame, MessagesFrame, LockFrame DEF Lock
    <2>4. DesktopTold'
      <3>1. CASE desk = "alloc"
        BY <2>1, <3>1 DEF DesktopTold, Loading
      <3>2. CASE desk # "alloc"
        BY <2>1, <3>2, EventQueue DEF DesktopTold, Loading
      <3> QED
        BY <3>1, <3>2
    <2> QED
      BY <2>2, <2>3, <2>4
  <1>3. CASE AnimationUnloaded
    <2>1. /\ UNCHANGED <<thread_vars, queue, thread, job, call, msg, holds, desk, events,
                         app_running, halted>>
          /\ pc = "animation" /\ pc' = "load" /\ semaphore = 1 /\ semaphore' = 0
      BY <1>3 DEF AnimationUnloaded
    <2>2. Types'
      BY <2>1 DEF Types
    <2>3. Application' /\ Messages' /\ Lock'
      BY <2>1, ApplicationFrame, MessagesFrame, LockFrame DEF Lock
    <2>4. DesktopTold'
      BY <2>1 DEF DesktopTold, Loading
    <2> QED
      BY <2>2, <2>3, <2>4
  <1>4. CASE AnimationTimeout
    <2>1. /\ UNCHANGED <<thread_vars, queue, thread, pc, job, call, msg, holds, desk, events,
                         semaphore, app_running>>
          /\ halted' = "animation"
      BY <1>4 DEF AnimationTimeout
    <2>2. Types'
      BY <2>1 DEF Types
    <2>3. Application' /\ Messages' /\ Lock' /\ DesktopTold'
      BY <2>1, ApplicationFrame, MessagesFrame, LockFrame, DesktopFrame DEF Loading
    <2> QED
      BY <2>2, <2>3
  <1>5. CASE LoadFails
    <2>1. /\ UNCHANGED <<thread_vars, queue, thread, job, call, msg, holds, desk, events,
                         semaphore, app_running, halted>>
          /\ pc = "load" /\ pc' = "failed"
      BY <1>5 DEF LoadFails
    <2>2. Types'
      BY <2>1 DEF Types
    <2>3. Application' /\ Messages' /\ Lock' /\ DesktopTold'
      BY <2>1, ApplicationFrame, MessagesFrame, LockFrame, DesktopFrame DEF Loading, Lock
    <2> QED
      BY <2>2, <2>3
  <1>6. CASE LoadApp
    <2>1. /\ UNCHANGED <<ended, released, queue, job, call, msg, holds, desk, events,
                         semaphore, app_running, halted>>
          /\ pc = "load" /\ pc' = "start" /\ thread = NULL /\ thread' = App
          /\ job.name = "app" /\ life[App] = "none" /\ life' = [life EXCEPT ![App] = "ready"]
      BY <1>6 DEF LoadApp, Alloc, LifeStep
    <2>2. Types'
      BY <2>1 DEF Types
    <2>3. life'[App] = "ready"
      BY <2>1, Constants DEF Types
    <2>4. Application'
      BY <2>1, <2>3 DEF Application
    <2>5. Messages'
      BY <2>1, MessagesFrame
    <2>6. Lock'
      BY <2>1, Constants DEF Lock, LockOwners
    <2>7. DesktopTold'
      BY <2>1 DEF DesktopTold, Loading
    <2> QED
      BY <2>2, <2>4, <2>5, <2>6, <2>7
  <1>7. CASE LoadApplications
    <2>1. /\ UNCHANGED <<ended, released, queue, thread, job, call, msg, holds, desk, events,
                         semaphore, app_running, halted>>
          /\ pc = "load" /\ pc' \in {"done", "start"} /\ job.name = "Apps"
          /\ life' = life \/ life' = [life EXCEPT ![Applications] = "ready"]
      BY <1>7 DEF LoadApplications, ShowWindow, Alloc, LifeStep
    <2>2. Types' /\ life'[App] = life[App]
      BY <2>1, Constants DEF Types
    <2>3. Application'
      BY <2>1, <2>2 DEF Application
    <2>4. Messages' /\ Lock' /\ DesktopTold'
      BY <2>1, MessagesFrame, LockFrame, DesktopFrame DEF Loading, Lock
    <2> QED
      BY <2>2, <2>3, <2>4
  <1>8. CASE StartThread
    <2>1. /\ UNCHANGED <<ended, released, queue, thread, call, msg, holds, desk, events,
                         semaphore, app_running, halted>>
          /\ pc = "start"
      BY <1>8 DEF StartThread, Handled, Start
    <2>2. CASE job.name = "app" /\ pc' = "done" /\ job' = job /\ Start(App)
      <3>1. life[App] = "ready" /\ life' = [life EXCEPT ![App] = "running"]
        BY <2>2 DEF Start, LifeStep
      <3>2. Types' /\ life'[App] = "running"
        BY <2>1, <2>2, <3>1, Constants DEF Types
      <3>3. Application'
        BY <2>1, <2>2, <3>1, <3>2 DEF Application
      <3>4. job.type # "ShowMenu"
        BY <2>2, Constants DEF Messages, Name
      <3>5. Messages' /\ Lock' /\ DesktopTold'
        BY <2>1, <2>2, <3>4, MessagesFrame, LockFrame, DesktopFrame DEF Loading, Lock
      <3> QED
        BY <3>2, <3>3, <3>5
    <2>3. CASE job.name = "Apps" /\ pc' = "done" /\ job' = job /\ Start(Applications)
      <3>1. life' = [life EXCEPT ![Applications] = "running"]
        BY <2>3 DEF Start, LifeStep
      <3>2. Types' /\ life'[App] = life[App]
        BY <2>1, <2>3, <3>1, Constants DEF Types
      <3>3. Application'
        BY <2>1, <2>3, <3>2 DEF Application
      <3>4. job.type # "ShowMenu"
        BY <2>3, Constants DEF Messages, Name
      <3>5. Messages' /\ Lock' /\ DesktopTold'
        BY <2>1, <2>3, <3>4, MessagesFrame, LockFrame, DesktopFrame DEF Loading, Lock
      <3> QED
        BY <3>2, <3>3, <3>5
    <2>4. CASE job.type = "ShowMenu" /\ pc' = "get" /\ job' = NoJob /\ Start(Menu)
      <3>1. life' = [life EXCEPT ![Menu] = "running"]
        BY <2>4 DEF Start, LifeStep
      <3>2. job'.type = "IsLocked"
        BY <2>4 DEF NoJob, Message
      <3>3. Types' /\ life'[App] = life[App]
        BY <2>1, <3>1, <3>2, Constants DEF Types
      <3>4. Application'
        BY <2>1, <2>4, <3>3 DEF Application
      <3>5. Messages' /\ Lock' /\ DesktopTold'
        BY <2>1, <2>4, <3>2, MessagesFrame, LockFrame, DesktopFrame DEF Loading, Lock
      <3> QED
        BY <3>3, <3>4, <3>5
    <2> QED
      BY <1>8, <2>2, <2>3, <2>4 DEF StartThread, Handled
  <1> QED
    BY <1>1, <1>2, <1>3, <1>4, <1>5, <1>6, <1>7, <1>8

-----------------------------------------------------------------------------
\* The end of a start: the caller of loader_start gets its answer,
LEMMA ReplyKeeps ==
    ASSUME LoaderInv, job.type = "StartByName", NEW v \in {"true", "false"},
           call' = [call EXCEPT ![job.from] = v], job' = NoJob,
           UNCHANGED <<queue, thread, msg, holds, halted>>
    PROVE  Types /\ call' \in [Caller -> {"idle", "put", "reply", "true", "false"}]
           /\ Messages' /\ Lock' /\ call'[Desktop] = call[Desktop]
  <1> USE DEF LoaderInv
  <1>1. job.from \in Caller /\ call[job.from] = "reply" /\ msg[job.from] = job
        /\ job'.type = "IsLocked"
    BY DEF Messages, Awaits, NoJob, Message
  <1>2. /\ call \in [Caller -> {"idle", "put", "reply", "true", "false"}]
        /\ msg[job.from].type = "StartByName" /\ Legal(job.from, msg[job.from])
    BY <1>1 DEF Types, Messages
  <1>3. job.from # Desktop
    BY <1>2, Constants DEF Legal
  <1>4. /\ call' \in [Caller -> {"idle", "put", "reply", "true", "false"}]
        /\ call'[job.from] = v /\ \A c \in Caller \ {job.from} : call'[c] = call[c]
    BY <1>1, <1>2
  <1>5. Messages'
    <2>1. ASSUME NEW c \in Caller
          PROVE  (IF call[c] = "idle" THEN msg[c] = NoJob
                  ELSE Legal(c, msg[c]) /\ (msg[c].type \notin Sync => call[c] = "put"))'
      <3>1. CASE c = job.from
        BY <3>1, <1>1, <1>2, <1>4 DEF Legal, Sync
      <3>2. CASE c # job.from
        BY <3>2, <1>4 DEF Messages, Legal
      <3> QED
        BY <3>1, <3>2
    <2>2. ASSUME NEW i \in DOMAIN queue, queue[i].type \in Sync, queue[i].from \in Caller,
                 Awaits(queue[i])
          PROVE  Awaits(queue[i])'
      <3>1. queue[i].from # job.from
        BY <2>2 DEF Messages
      <3> QED
        BY <2>2, <3>1, <1>4 DEF Awaits
    <2> QED
      BY <1>1, <2>1, <2>2 DEF Messages, Legal
  <1>6. Lock'
    <2>1. LockOwners' = LockOwners
      BY <1>2, <1>4, Constants DEF LockOwners
    <2>2. \A c \in Caller : call'[c] = "true" => call[c] = "true" \/ msg[c].type = "StartByName"
      BY <1>2, <1>4
    <2>3. \A i \in DOMAIN queue : queue[i].type = "Unlock" => queue[i].from \in Caller
      BY DEF Messages, AppClosed, Message
    <2> QED
      BY <2>1, <2>2, <2>3 DEF Lock
  <1> QED
    BY <1>3, <1>4, <1>5, <1>6, Constants

\* and the desktop hears that there is nothing left to start.
LEMMA EmitKeeps ==
    ASSUME LoaderInv, pc \in {"failed", "dialog", "next"}, pc' = "get", EmitQueueEmpty,
           UNCHANGED <<thread, desk, semaphore, app_running>>,
           call'[Desktop] = call[Desktop], msg'[Desktop] = msg[Desktop]
    PROVE  DesktopTold'
  <1>1. CASE thread # NULL \/ desk = "alloc"
    BY <1>1, DesktopFrame DEF LoaderInv, EmitQueueEmpty, Loading
  <1>2. CASE thread = NULL /\ desk # "alloc"
    BY <1>2, EventQueue, Constants DEF LoaderInv, EmitQueueEmpty, Loading, DesktopTold
  <1> QED
    BY <1>1, <1>2

LEMMA FinishKeeps ==
    ASSUME LoaderInv,
           StartDone \/ StartFailed \/ ShowError \/ Dismiss \/ NextDeferred \/ FreeWindow
    PROVE  LoaderInv'
  <1> USE DEF LoaderInv, GoTo, service, calls, desktop, windows, thread_vars
  <1>1. NoJob \in Job /\ NoJob.type = "IsLocked" /\ NoJob.name = NULL
    BY DEF NoJob, Message, Job, MessageType, Sync
  <1>2. CASE StartDone
    <2>1. /\ UNCHANGED <<thread_vars, queue, thread, desktop, msg, holds, halted>>
          /\ pc = "done" /\ pc' = "get" /\ job' = NoJob
          /\ \/ job.type = "StartByName" /\ call' = [call EXCEPT ![job.from] = "true"]
             \/ call' = call
      BY <1>2 DEF StartDone, Handled, Reply
    <2>2. Types' /\ Messages' /\ Lock' /\ call'[Desktop] = call[Desktop]
      BY <2>1, <1>1, ReplyKeeps, MessagesFrame, LockFrame DEF Types, Lock
    <2>3. Application' /\ DesktopTold'
      BY <2>1, <2>2, ApplicationFrame, DesktopFrame DEF Loading
    <2> QED
      BY <2>2, <2>3
  <1>3. CASE StartFailed
    <2>1. /\ UNCHANGED <<thread_vars, queue, thread, desk, semaphore, app_running, msg, holds,
                         halted>>
          /\ pc = "failed" /\ pc' = "get" /\ job' = NoJob
          /\ \/ job.type = "StartByName" /\ call' = [call EXCEPT ![job.from] = "false"]
             \/ call' = call
          /\ EmitQueueEmpty \/ events' = events
      BY <1>3 DEF StartFailed, Handled, Reply
    <2>2. Types' /\ Messages' /\ Lock' /\ call'[Desktop] = call[Desktop]
      BY <2>1, <1>1, ReplyKeeps, MessagesFrame, LockFrame DEF Types, Lock
    <2>3. Application'
      BY <2>1, ApplicationFrame
    <2>4. DesktopTold'
      BY <2>1, <2>2, EmitKeeps, DesktopFrame DEF Loading
    <2> QED
      BY <2>2, <2>3, <2>4
  <1>4. CASE ShowError
    <2>1. /\ UNCHANGED <<thread_vars, queue, thread, job, call, msg, holds, desktop, halted>>
          /\ pc = "failed" /\ pc' \in {"dialog", "next"}
      BY <1>4 DEF ShowError
    <2>2. Types' /\ Application' /\ Messages' /\ Lock' /\ DesktopTold'
      BY <2>1, ApplicationFrame, MessagesFrame, LockFrame, DesktopFrame DEF Types, Loading, Lock
    <2> QED
      BY <2>2
  <1>5. CASE Dismiss
    <2>1. /\ UNCHANGED <<thread_vars, queue, thread, call, msg, holds, desk, semaphore,
                         app_running, halted>>
          /\ pc = "dialog"
          /\ \/ pc' = "next" /\ job' = job /\ events' = events
             \/ pc' = "get" /\ job' = NoJob /\ EmitQueueEmpty
      BY <1>5 DEF Dismiss, Handled
    <2>2. Types' /\ Application' /\ Messages' /\ Lock'
      BY <2>1, <1>1, ApplicationFrame, MessagesFrame, LockFrame DEF Types, Lock
    <2>3. DesktopTold'
      BY <2>1, EmitKeeps, DesktopFrame DEF Loading
    <2> QED
      BY <2>2, <2>3
  <1>6. CASE NextDeferred
    <2>1. /\ UNCHANGED <<thread_vars, queue, thread, call, msg, holds, desk, semaphore,
                         app_running, halted>>
          /\ pc = "next"
          /\ \/ /\ pc' = "before" /\ events' = events /\ launch_queue # <<>>
                /\ job' = Message("Deferred", Head(launch_queue), NULL)
             \/ pc' = "get" /\ job' = NoJob /\ EmitQueueEmpty
      BY <1>6 DEF NextDeferred, Handled
    <2>2. job'.type \in {"Deferred", "IsLocked"}
      BY <2>1, <1>1 DEF Message
    <2>3. Types' /\ Application' /\ Messages' /\ Lock'
      BY <2>1, <2>2, ApplicationFrame, MessagesFrame, LockFrame DEF Types, Lock
    <2>4. DesktopTold'
      BY <2>1, EmitKeeps, DesktopFrame DEF Loading
    <2> QED
      BY <2>3, <2>4
  <1>7. CASE FreeWindow
    <2>1. /\ UNCHANGED <<ended, released, queue, thread, call, msg, holds, desktop, halted>>
          /\ pc = "join" /\ pc' = "get" /\ job' = NoJob
          /\ job.type = "WindowClosed" /\ life' = [life EXCEPT ![job.from] = "none"]
      BY <1>7 DEF FreeWindow, Handled, Free, LifeStep
    <2>2. job.from \in Window
      BY <2>1 DEF Messages
    <2>3. Types' /\ life'[App] = life[App]
      BY <2>1, <2>2, <1>1, Constants DEF Types
    <2>4. Application'
      BY <2>1, <2>3 DEF Application
    <2>5. Messages' /\ Lock' /\ DesktopTold'
      BY <2>1, <1>1, MessagesFrame, LockFrame, DesktopFrame DEF Loading, Lock
    <2> QED
      BY <2>3, <2>4, <2>5
  <1> QED
    BY <1>2, <1>3, <1>4, <1>5, <1>6, <1>7

-----------------------------------------------------------------------------
\* The loader takes a message: what it stands for, and what is left.
LEMMA TakeFacts ==
    ASSUME LoaderInv, NEW type, Take(type)
    PROVE  /\ pc = "get" /\ queue' \in Seq(Job)
           /\ 1 \in DOMAIN queue /\ Head(queue) = queue[1] /\ queue[1].type = type
           /\ From = queue[1].from
           /\ \A i \in DOMAIN queue' :
                i \in Nat /\ i + 1 \in DOMAIN queue /\ i + 1 # 1 /\ queue'[i] = queue[i + 1]
           /\ \A i \in DOMAIN queue \ {1} : i - 1 \in DOMAIN queue' /\ queue'[i - 1] = queue[i]
           /\ type # "AppClosed" => From \in Caller /\ Legal(From, queue[1])
           /\ type \in Sync =>
                /\ call[From] = "reply" /\ msg[From] = queue[1]
                /\ \A i \in DOMAIN queue' : queue'[i].type \in Sync => queue'[i].from # From
                /\ job.type = "StartByName" => job.from # From
           /\ type \in {"AppClosed", "Unlock"} => \A i \in DOMAIN queue' : queue'[i].type # type
  <1> USE DEF LoaderInv
  <1>1. pc = "get" /\ queue # <<>> /\ Head(queue).type = type /\ queue' = Tail(queue)
        /\ queue \in Seq(Job)
    BY DEF Take, Types
  <1>2. /\ queue' \in Seq(Job)
        /\ 1 \in DOMAIN queue /\ Head(queue) = queue[1]
        /\ \A i \in DOMAIN queue' :
             i \in Nat /\ i + 1 \in DOMAIN queue /\ i + 1 # 1 /\ queue'[i] = queue[i + 1]
        /\ \A i \in DOMAIN queue \ {1} : i - 1 \in DOMAIN queue' /\ queue'[i - 1] = queue[i]
    BY <1>1, TailElements
  <1>3. queue[1].type = type /\ From = queue[1].from
    BY <1>1, <1>2 DEF From
  <1>4. type # "AppClosed" => From \in Caller /\ Legal(From, queue[1])
    BY <1>2, <1>3 DEF Messages, AppClosed, Message
  <1>5. ASSUME type \in Sync
        PROVE  /\ call[From] = "reply" /\ msg[From] = queue[1]
               /\ \A i \in DOMAIN queue' : queue'[i].type \in Sync => queue'[i].from # From
               /\ job.type = "StartByName" => job.from # From
    <2>1. queue[1] # AppClosed
      BY <1>3, <1>5 DEF AppClosed, Message, Sync
    <2>2. call[From] = "reply" /\ msg[From] = queue[1]
      BY <2>1, <1>2, <1>3, <1>5 DEF Messages, Awaits
    <2>3. \A i \in DOMAIN queue' : queue'[i].type \in Sync => queue'[i].from # From
      BY <1>2, <1>3, <1>5 DEF Messages
    <2>4. job.type = "StartByName" => job.from # From
      BY <1>2, <1>3, <1>5 DEF Messages
    <2> QED
      BY <2>2, <2>3, <2>4
  <1>6. ASSUME type = "AppClosed" PROVE \A i \in DOMAIN queue' : queue'[i].type # "AppClosed"
    BY <1>2, <1>3, <1>6 DEF Messages
  <1>7. ASSUME type = "Unlock" PROVE \A i \in DOMAIN queue' : queue'[i].type # "Unlock"
    BY <1>2, <1>3, <1>7 DEF Lock
  <1> QED
    BY <1>1, <1>2, <1>3, <1>4, <1>5, <1>6, <1>7

LEMMA TakeApplication ==
    ASSUME LoaderInv, NEW type, Take(type), UNCHANGED <<thread, life, ended, released>>,
           pc' = "start" => job'.name # "app"
    PROVE  Application'
  BY TakeFacts DEF LoaderInv, Application

\* No answer yet.
LEMMA TakeMessages ==
    ASSUME LoaderInv, NEW type, Take(type), UNCHANGED <<call, msg>>,
           job' = job \/ job' = Head(queue)
    PROVE  Messages'
  <1>1. ASSUME NEW i \in DOMAIN queue'
        PROVE  \/ queue'[i] = AppClosed
               \/ /\ queue'[i].from \in Caller /\ Legal(queue'[i].from, queue'[i])
                  /\ queue'[i].type \in Sync => Awaits(queue'[i])
    BY TakeFacts DEF LoaderInv, Messages
  <1>2. ASSUME NEW i \in DOMAIN queue', NEW j \in DOMAIN queue',
               \/ queue'[i].type \in Sync /\ queue'[j].type \in Sync /\ queue'[i].from = queue'[j].from
               \/ queue'[i].type = "AppClosed" /\ queue'[j].type = "AppClosed"
        PROVE  i = j
    <2>1. i + 1 \in DOMAIN queue /\ j + 1 \in DOMAIN queue /\ i \in Nat /\ j \in Nat
          /\ queue'[i] = queue[i + 1] /\ queue'[j] = queue[j + 1]
      BY TakeFacts
    <2>2. i + 1 = j + 1
      BY <1>2, <2>1 DEF LoaderInv, Messages
    <2> QED
      BY <2>1, <2>2
  <1>3. CASE job' = job
    <2>1. job.type = "StartByName" =>
            \A i \in DOMAIN queue' : queue'[i].type \in Sync => queue'[i].from # job.from
      BY TakeFacts DEF LoaderInv, Messages
    <2> QED
      BY <1>1, <1>2, <1>3, <2>1 DEF LoaderInv, Messages, Awaits, AppClosed, Legal
  <1>4. CASE job' = Head(queue)
    <2>1. job' = queue[1] /\ job'.type = type /\ job'.from = From
      BY <1>4, TakeFacts
    <2>2. job'.type = "StartByName" =>
            /\ job'.from \in Caller /\ Awaits(job')
            /\ \A i \in DOMAIN queue' : queue'[i].type \in Sync => queue'[i].from # job'.from
      BY <2>1, TakeFacts DEF Awaits, Sync
    <2>3. /\ job'.type = "WindowClosed" => job'.from \in Window
          /\ job'.type = "ShowMenu" => job'.name = NULL
      BY <2>1, TakeFacts DEF Legal
    <2> QED
      BY <1>1, <1>2, <2>2, <2>3 DEF LoaderInv, Messages, Awaits, AppClosed, Legal
  <1> QED
    BY <1>3, <1>4

\* The caller gets its answer at once.
LEMMA TakeReplies ==
    ASSUME LoaderInv, NEW type \in Sync, Take(type), NEW v \in {"true", "false"},
           call' = [call EXCEPT ![From] = v], UNCHANGED <<msg, job>>
    PROVE  /\ call' \in [Caller -> {"idle", "put", "reply", "true", "false"}]
           /\ call'[From] = v /\ \A c \in Caller \ {From} : call'[c] = call[c]
           /\ Messages'
  <1> USE DEF LoaderInv
  <1>1. /\ type \in Sync => From \in Caller /\ Legal(From, queue[1])
        /\ call[From] = "reply" /\ msg[From] = queue[1] /\ queue[1].type = type
        /\ \A i \in DOMAIN queue' : queue'[i].type \in Sync => queue'[i].from # From
        /\ job.type = "StartByName" => job.from # From
    BY TakeFacts DEF Sync
  <1>2. /\ call' \in [Caller -> {"idle", "put", "reply", "true", "false"}]
        /\ call'[From] = v /\ \A c \in Caller \ {From} : call'[c] = call[c]
    BY <1>1 DEF Types
  <1>3. ASSUME NEW c \in Caller
        PROVE  (IF call[c] = "idle" THEN msg[c] = NoJob
                ELSE Legal(c, msg[c]) /\ (msg[c].type \notin Sync => call[c] = "put"))'
    <2>1. CASE c = From
      BY <2>1, <1>1, <1>2 DEF Legal
    <2>2. CASE c # From
      BY <2>2, <1>2 DEF Messages, Legal
    <2> QED
      BY <2>1, <2>2
  <1>4. ASSUME NEW i \in DOMAIN queue'
        PROVE  \/ queue'[i] = AppClosed
               \/ /\ queue'[i].from \in Caller /\ Legal(queue'[i].from, queue'[i])
                  /\ queue'[i].type \in Sync =>
                        call'[queue'[i].from] = "reply" /\ msg[queue'[i].from] = queue'[i]
    <2>1. i + 1 \in DOMAIN queue /\ queue'[i] = queue[i + 1]
      BY TakeFacts
    <2>2. CASE queue'[i] # AppClosed
      BY <2>1, <2>2, <1>1, <1>2 DEF Messages, Awaits
    <2> QED
      BY <2>2
  <1>5. ASSUME NEW i \in DOMAIN queue', NEW j \in DOMAIN queue',
               \/ queue'[i].type \in Sync /\ queue'[j].type \in Sync /\ queue'[i].from = queue'[j].from
               \/ queue'[i].type = "AppClosed" /\ queue'[j].type = "AppClosed"
        PROVE  i = j
    <2>1. i + 1 \in DOMAIN queue /\ j + 1 \in DOMAIN queue /\ i \in Nat /\ j \in Nat
          /\ queue'[i] = queue[i + 1] /\ queue'[j] = queue[j + 1]
      BY TakeFacts
    <2>2. i + 1 = j + 1
      BY <1>5, <2>1 DEF Messages
    <2> QED
      BY <2>1, <2>2
  <1>6. job.type = "StartByName" =>
            /\ job.from \in Caller /\ call'[job.from] = "reply" /\ msg[job.from] = job
            /\ \A i \in DOMAIN queue' : queue'[i].type \in Sync => queue'[i].from # job.from
    <2>1. job.type = "StartByName" => job.from \in Caller /\ Awaits(job)
      BY DEF Messages
    <2>2. job.type = "StartByName" =>
            \A i \in DOMAIN queue' : queue'[i].type \in Sync => queue'[i].from # job.from
      BY TakeFacts DEF Messages
    <2> QED
      BY <2>1, <2>2, <1>1, <1>2 DEF Awaits
  <1>7. Messages'
    BY <1>3, <1>4, <1>5, <1>6 DEF Messages, Awaits, AppClosed, Legal
  <1> QED
    BY <1>2, <1>7

\* The lock does not change hands with the other messages.
LEMMA TakeLock ==
    ASSUME LoaderInv, NEW type, Take(type), type # "Unlock",
           UNCHANGED <<msg, holds, thread>>, halted' # "unlock",
           \A c \in Client : msg[c].type = "Lock" => (call'[c] = "true" <=> call[c] = "true")
    PROVE  Lock'
  <1>1. /\ \A i \in DOMAIN queue' :
             i \in Nat /\ i + 1 \in DOMAIN queue /\ i + 1 # 1 /\ queue'[i] = queue[i + 1]
        /\ \A i \in DOMAIN queue \ {1} : i - 1 \in DOMAIN queue' /\ queue'[i - 1] = queue[i]
        /\ queue[1].type = type
    BY TakeFacts
  <1>2. \A c : (\E i \in DOMAIN queue' : queue'[i].type = "Unlock" /\ queue'[i].from = c)
                 <=> \E i \in DOMAIN queue : queue[i].type = "Unlock" /\ queue[i].from = c
    BY <1>1
  <1>3. LockOwners' = LockOwners
    BY <1>2 DEF LockOwners
  <1>4. ASSUME NEW i \in DOMAIN queue', queue'[i].type = "Unlock"
        PROVE  /\ queue'[i].from \in Client /\ queue'[i].from \notin holds
               /\ msg[queue'[i].from].type # "Unlock"
               /\ ~(msg[queue'[i].from].type = "Lock" /\ call[queue'[i].from] = "true")
    BY <1>1, <1>4 DEF LoaderInv, Messages, Lock, AppClosed, Message, Legal
  <1>5. ASSUME NEW i \in DOMAIN queue', NEW j \in DOMAIN queue',
               queue'[i].type = "Unlock", queue'[j].type = "Unlock"
        PROVE  i = j
    <2>1. i + 1 = j + 1 /\ i \in Nat /\ j \in Nat
      BY <1>1, <1>5 DEF LoaderInv, Lock
    <2> QED
      BY <2>1
  <1> QED
    BY <1>3, <1>4, <1>5 DEF LoaderInv, Lock

\* The messages that only move the loader's thread.
LEMMA HandleKeeps ==
    ASSUME LoaderInv, DoStart \/ DoMenuShow \/ DoWindowClosed \/ DoAppClosed
    PROVE  LoaderInv'
  <1> USE DEF LoaderInv, service, calls, desktop, windows, thread_vars
  <1>1. CASE DoStart
    <2>1. PICK type \in {"StartByName", "StartDetached"} : Take(type)
      BY <1>1 DEF DoStart
    <2>2. /\ UNCHANGED <<thread_vars, thread, call, msg, holds, desktop, halted>>
          /\ job' = Head(queue) /\ pc' = "before" /\ pc = "get" /\ queue' \in Seq(Job)
      BY <1>1, <2>1, TakeFacts DEF DoStart
    <2>3. Types'
      BY <2>2 DEF Types
    <2>4. Application' /\ Messages'
      BY <2>1, <2>2, TakeApplication, TakeMessages
    <2>5. Lock' /\ DesktopTold'
      BY <2>1, <2>2, TakeLock, DesktopFrame DEF Loading, Lock
    <2> QED
      BY <2>3, <2>4, <2>5
  <1>2. CASE DoMenuShow
    <2>1. Take("ShowMenu")
      BY <1>2 DEF DoMenuShow
    <2>2. /\ UNCHANGED <<ended, released, thread, call, msg, holds, desktop, halted>>
          /\ \/ UNCHANGED <<life, pc, job>>
             \/ /\ life' = [life EXCEPT ![Menu] = "ready"] /\ pc' = "start"
                /\ job' = Head(queue)
      BY <1>2 DEF DoMenuShow, ShowWindow, Alloc, LifeStep
    <2>3. /\ pc = "get" /\ queue' \in Seq(Job)
          /\ Head(queue).type = "ShowMenu" /\ Head(queue).name = NULL
      BY <2>1, TakeFacts DEF Legal
    <2>4. Types' /\ life'[App] = life[App]
      BY <2>2, <2>3, Constants DEF Types
    <2>5. Application'
      <3>1. /\ \A i \in DOMAIN queue' : i + 1 \in DOMAIN queue /\ queue'[i] = queue[i + 1]
            /\ pc' = "start" => job'.name # "app"
        BY <2>1, <2>2, <2>3, TakeFacts, Constants DEF Name
      <3> QED
        BY <2>2, <2>4, <3>1 DEF Application
    <2>6. Messages' /\ Lock'
      BY <2>1, <2>2, TakeMessages, TakeLock DEF Lock
    <2>7. DesktopTold'
      BY <2>2, <2>3, DesktopFrame DEF Loading
    <2> QED
      BY <2>4, <2>5, <2>6, <2>7
  <1>3. CASE DoWindowClosed
    <2>1. /\ Take("WindowClosed")
          /\ UNCHANGED <<thread_vars, thread, call, msg, holds, desktop, halted>>
          /\ UNCHANGED <<pc, job>> \/ (pc' = "join" /\ job' = Head(queue))
      BY <1>3 DEF DoWindowClosed
    <2>2. pc = "get" /\ queue' \in Seq(Job)
      BY <2>1, TakeFacts
    <2>3. Types'
      BY <2>1, <2>2 DEF Types
    <2>4. Application' /\ Messages'
      BY <2>1, <2>2, TakeApplication, TakeMessages
    <2>5. Lock' /\ DesktopTold'
      BY <2>1, <2>2, TakeLock, DesktopFrame DEF Loading, Lock
    <2> QED
      BY <2>3, <2>4, <2>5
  <1>4. CASE DoAppClosed
    <2>1. /\ Take("AppClosed")
          /\ UNCHANGED <<ended, released, job, call, msg, holds, desktop, halted>>
          /\ pc' = "next" /\ thread' = NULL /\ life' = [life EXCEPT ![App] = "none"]
      BY <1>4 DEF DoAppClosed, Free, LifeStep
    <2>2. /\ pc = "get" /\ queue' \in Seq(Job) /\ 1 \in DOMAIN queue
          /\ queue[1].type = "AppClosed"
          /\ \A i \in DOMAIN queue' : queue'[i].type # "AppClosed"
      BY <2>1, TakeFacts
    <2>3. Types' /\ life'[App] = "none" /\ life[App] = "ready" /\ thread = App
      BY <2>1, <2>2, Constants DEF Types, Application
    <2>4. Application'
      BY <2>1, <2>2, <2>3, Constants DEF Application
    <2>5. Messages'
      BY <2>1, TakeMessages
    <2>6. Lock'
      <3>1. LockOwners = {} /\ LockOwners' = {}
        <4>1. LockOwners = {}
          BY <2>3, Constants DEF Lock
        <4>2. ASSUME NEW c \in LockOwners' PROVE c \in LockOwners
          BY <2>1, TakeFacts DEF LockOwners
        <4> QED
          BY <4>1, <4>2
      <3>2. \A i \in DOMAIN queue' : queue'[i].type # "Unlock"
        <4>1. ASSUME NEW i \in DOMAIN queue', queue'[i].type = "Unlock" PROVE FALSE
          <5>1. i + 1 \in DOMAIN queue /\ queue[i + 1].type = "Unlock"
            BY <2>1, <4>1, TakeFacts
          <5>2. queue[i + 1].from \in Client
            BY <5>1 DEF Messages, AppClosed, Message, Legal
          <5> QED
            BY <3>1, <5>1, <5>2 DEF LockOwners
        <4> QED
          BY <4>1
      <3> QED
        BY <2>1, <3>1, <3>2, Constants DEF Lock
    <2>7. DesktopTold'
      <3>1. events = <<>>
        BY <2>2, <2>3, EventQueue DEF DesktopTold
      <3> QED
        BY <2>1, <2>2, <3>1, Constants DEF DesktopTold, Loading
    <2> QED
      BY <2>3, <2>4, <2>5, <2>6, <2>7
  <1> QED
    BY <1>1, <1>2, <1>3, <1>4

\* The messages about the lock,
LEMMA LockKeeps ==
    ASSUME LoaderInv, DoLock \/ DoUnlock
    PROVE  LoaderInv'
  <1> USE DEF LoaderInv, service, calls, desktop, windows, thread_vars
  <1>1. CASE DoLock
    <2>1. /\ Take("Lock")
          /\ UNCHANGED <<thread_vars, pc, job, msg, holds, desktop, halted>>
          /\ \/ thread = NULL /\ thread' = MAGIC /\ call' = [call EXCEPT ![From] = "true"]
             \/ thread # NULL /\ thread' = thread /\ call' = [call EXCEPT ![From] = "false"]
      BY <1>1 DEF DoLock, Reply
    <2>2. /\ pc = "get" /\ queue' \in Seq(Job) /\ From \in Client /\ From # Desktop
          /\ call[From] = "reply" /\ msg[From].type = "Lock"
          /\ \A i \in DOMAIN queue' :
                i \in Nat /\ i + 1 \in DOMAIN queue /\ queue'[i] = queue[i + 1]
      BY <2>1, TakeFacts, Constants DEF Legal, Sync
    <2>3. /\ call' \in [Caller -> {"idle", "put", "reply", "true", "false"}]
          /\ \A c \in Caller \ {From} : call'[c] = call[c]
          /\ Messages'
          /\ call'[From] = IF thread = NULL THEN "true" ELSE "false"
      BY <2>1, TakeReplies DEF Sync
    <2>4. Types'
      BY <2>1, <2>2, <2>3 DEF Types
    <2>5. Application'
      BY <2>1, <2>2, Constants DEF Application
    <2>6. DesktopTold'
      BY <2>1, <2>2, <2>3, DesktopFrame, Constants DEF Loading
    <2>7. CASE thread # NULL
      <3>1. Lock'
        BY <2>1, <2>2, <2>3, <2>7, TakeLock, Constants DEF Lock
      <3> QED
        BY <2>3, <2>4, <2>5, <2>6, <3>1
    <2>8. CASE thread = NULL
      <3>1. LockOwners = {}
        BY <2>8, Constants DEF Lock
      <3>2. \A i \in DOMAIN queue' : queue'[i].type # "Unlock"
        <4>1. ASSUME NEW i \in DOMAIN queue', queue'[i].type = "Unlock" PROVE FALSE
          <5>1. i + 1 \in DOMAIN queue /\ queue[i + 1].type = "Unlock"
            BY <2>2, <4>1
          <5>2. queue[i + 1].from \in Client
            BY <5>1 DEF Messages, AppClosed, Message, Legal
          <5> QED
            BY <3>1, <5>1, <5>2 DEF LockOwners
        <4> QED
          BY <4>1
      <3>3. LockOwners' = {From}
        <4>1. From \in LockOwners'
          BY <2>1, <2>2, <2>3, <2>8 DEF LockOwners
        <4>2. ASSUME NEW c \in LockOwners', c # From PROVE c \in LockOwners
          BY <2>1, <2>3, <3>2, <4>2, Constants DEF LockOwners
        <4> QED
          BY <3>1, <4>1, <4>2
      <3>4. Lock'
        BY <2>1, <2>8, <3>2, <3>3, Constants DEF Lock
      <3> QED
        BY <2>3, <2>4, <2>5, <2>6, <3>4
    <2> QED
      BY <2>7, <2>8
  <1>2. CASE DoUnlock
    <2>1. /\ Take("Unlock")
          /\ UNCHANGED <<thread_vars, pc, job, call, msg, holds, desktop>>
          /\ IF thread = MAGIC THEN thread' = NULL /\ halted' = halted
             ELSE halted' = "unlock" /\ thread' = thread
      BY <1>2 DEF DoUnlock
    <2>2. /\ pc = "get" /\ queue' \in Seq(Job) /\ From \in Client /\ 1 \in DOMAIN queue
          /\ queue[1].type = "Unlock" /\ From = queue[1].from
          /\ \A i \in DOMAIN queue' : i + 1 \in DOMAIN queue /\ queue'[i] = queue[i + 1]
          /\ \A i \in DOMAIN queue' : queue'[i].type # "Unlock"
      BY <2>1, TakeFacts DEF Legal
    <2>3. From \in LockOwners
      BY <2>2 DEF LockOwners
    <2>4. thread = MAGIC
      BY <2>3 DEF Lock
    <2>5. thread' = NULL /\ halted' = halted
      BY <2>1, <2>4
    <2>6. Types'
      BY <2>1, <2>2, <2>5 DEF Types
    <2>7. Application'
      BY <2>1, <2>2, <2>4, <2>5, Constants DEF Application
    <2>8. Messages'
      BY <2>1, TakeMessages
    <2>9. LockOwners' = {}
      <3>1. ASSUME NEW c \in LockOwners' PROVE FALSE
        <4>1. c \in LockOwners
          BY <2>1, <2>2 DEF LockOwners
        <4>2. c = From
          BY <2>3, <4>1 DEF Lock
        <4> QED
          BY <2>1, <2>2, <4>2 DEF LockOwners, Lock
      <3> QED
        BY <3>1
    <2>10. Lock'
      BY <2>1, <2>2, <2>5, <2>9, Constants DEF Lock
    <2>11. DesktopTold'
      BY <2>1, <2>2, <2>5, DesktopFrame, Constants DEF Loading
    <2> QED
      BY <2>6, <2>7, <2>8, <2>10, <2>11
  <1> QED
    BY <1>1, <1>2

\* and the rest.
LEMMA AnswerKeeps ==
    ASSUME LoaderInv, DoIsLocked \/ DoEnqueue \/ DoClear
    PROVE  LoaderInv'
  <1> USE DEF LoaderInv, service, calls, desktop, windows, thread_vars
  <1>1. CASE DoIsLocked
    <2>1. /\ Take("IsLocked")
          /\ UNCHANGED <<thread_vars, thread, pc, job, msg, holds, desktop, halted>>
          /\ \/ thread # NULL /\ call' = [call EXCEPT ![From] = "true"]
             \/ thread = NULL /\ call' = [call EXCEPT ![From] = "false"]
      BY <1>1 DEF DoIsLocked, Reply
    <2>2. /\ pc = "get" /\ queue' \in Seq(Job) /\ From \in Caller
          /\ call[From] = "reply" /\ msg[From].type = "IsLocked"
      BY <2>1, TakeFacts DEF Legal, Sync
    <2>3. /\ call' \in [Caller -> {"idle", "put", "reply", "true", "false"}]
          /\ \A c \in Caller \ {From} : call'[c] = call[c]
          /\ Messages'
          /\ call'[From] = IF thread # NULL THEN "true" ELSE "false"
      BY <2>1, TakeReplies DEF Sync
    <2>4. Types'
      BY <2>1, <2>2, <2>3 DEF Types
    <2>5. Application'
      BY <2>1, <2>2, TakeApplication
    <2>6. Lock'
      BY <2>1, <2>2, <2>3, TakeLock, Constants DEF Lock
    <2>7. DesktopTold'
      <3>1. CASE From # Desktop
        BY <2>1, <2>2, <2>3, <3>1, DesktopFrame, Constants DEF Loading
      <3>2. CASE From = Desktop
        BY <2>1, <2>2, <2>3, <3>2, Constants DEF DesktopTold, Loading, Sync
      <3> QED
        BY <3>1, <3>2
    <2> QED
      BY <2>3, <2>4, <2>5, <2>6, <2>7
  <1>2. CASE DoEnqueue \/ DoClear
    <2>1. PICK type \in {"Enqueue", "Clear"} :
            /\ Take(type)
            /\ UNCHANGED <<thread_vars, thread, pc, job, msg, holds, desktop>>
            /\ \/ call' = [call EXCEPT ![From] = "true"] /\ halted' = halted
               \/ call' = call /\ halted' = "enqueue"
      BY <1>2 DEF DoEnqueue, DoClear, Reply
    <2>2. /\ pc = "get" /\ queue' \in Seq(Job) /\ From \in Caller /\ From # Desktop
          /\ type \in Sync /\ msg[From].type = type
      BY <2>1, TakeFacts DEF Legal, Sync
    <2>3. /\ call' \in [Caller -> {"idle", "put", "reply", "true", "false"}]
          /\ \A c \in Caller \ {From} : call'[c] = call[c]
          /\ Messages'
      <3>1. CASE call' = call
        BY <2>1, <3>1, TakeMessages DEF Types
      <3>2. CASE call' = [call EXCEPT ![From] = "true"]
        BY <2>1, <2>2, <3>2, TakeReplies
      <3> QED
        BY <2>1, <3>1, <3>2
    <2>4. Types'
      BY <2>1, <2>2, <2>3 DEF Types
    <2>5. Application'
      BY <2>1, <2>2, TakeApplication
    <2>6. Lock'
      BY <2>1, <2>2, <2>3, TakeLock, Constants DEF Lock
    <2>7. DesktopTold'
      BY <2>1, <2>2, <2>3, DesktopFrame, Constants DEF Loading
    <2> QED
      BY <2>3, <2>4, <2>5, <2>6, <2>7
  <1> QED
    BY <1>1, <1>2

-----------------------------------------------------------------------------
\* A caller fills in its message,
LEMMA CallKeeps ==
    ASSUME LoaderInv, NEW c \in Caller, NEW m \in Job, Legal(c, m), Call(c, m),
           UNCHANGED <<queue, job>>
    PROVE  /\ call' \in [Caller -> {"idle", "put", "reply", "true", "false"}]
           /\ msg' \in [Caller -> Job]
           /\ call[c] = "idle" /\ call'[c] = "put" /\ msg[c].type = "IsLocked" /\ msg'[c] = m
           /\ \A d \in Caller \ {c} : call'[d] = call[d] /\ msg'[d] = msg[d]
           /\ Messages'
  <1> USE DEF LoaderInv
  <1>1. /\ call' \in [Caller -> {"idle", "put", "reply", "true", "false"}]
        /\ msg' \in [Caller -> Job]
        /\ call[c] = "idle" /\ call'[c] = "put" /\ msg'[c] = m
        /\ \A d \in Caller \ {c} : call'[d] = call[d] /\ msg'[d] = msg[d]
    BY DEF Call, Types
  <1>2. msg[c].type = "IsLocked"
    BY <1>1 DEF Messages, NoJob, Message
  <1>3. ASSUME NEW d \in Caller
        PROVE  (IF call[d] = "idle" THEN msg[d] = NoJob
                ELSE Legal(d, msg[d]) /\ (msg[d].type \notin Sync => call[d] = "put"))'
    BY <1>1 DEF Messages, Legal
  <1>4. \A k : k.from \in Caller /\ Awaits(k) =>
          k.from # c /\ call'[k.from] = "reply" /\ msg'[k.from] = k
    BY <1>1 DEF Awaits
  <1>5. Messages'
    BY <1>3, <1>4 DEF Messages, Awaits, Legal
  <1> QED
    BY <1>1, <1>2, <1>5

LEMMA CallLock ==
    ASSUME LoaderInv, NEW c \in Caller, NEW m \in Job, Legal(c, m), Call(c, m),
           UNCHANGED <<queue, job, thread, halted>>,
           IF m.type = "Unlock" THEN c \in holds /\ holds' = holds \ {c}
           ELSE holds' = holds /\ (m.type = "Lock" => c \notin holds)
    PROVE  Lock'
  <1> USE DEF LoaderInv
  <1>1. /\ call[c] = "idle" /\ call'[c] = "put" /\ msg[c].type = "IsLocked" /\ msg'[c] = m
        /\ \A d \in Caller \ {c} : call'[d] = call[d] /\ msg'[d] = msg[d]
    BY CallKeeps
  <1>2. LockOwners' = LockOwners
    <2>1. ASSUME NEW d \in Client PROVE d \in LockOwners' <=> d \in LockOwners
      <3>1. CASE d = c
        BY <1>1, <3>1 DEF LockOwners
      <3>2. CASE d # c
        BY <1>1, <3>2, Constants DEF LockOwners
      <3> QED
        BY <3>1, <3>2
    <2> QED
      BY <2>1 DEF LockOwners
  <1>3. \A d \in Client : msg'[d].type \in {"Lock", "Unlock"} => d \notin holds'
    BY <1>1, Constants DEF Lock, Types
  <1>4. ASSUME NEW i \in DOMAIN queue, queue[i].type = "Unlock"
        PROVE  /\ queue[i].from \notin holds'
               /\ msg'[queue[i].from].type # "Unlock"
               /\ ~(msg'[queue[i].from].type = "Lock" /\ call'[queue[i].from] = "true")
    <2>1. /\ queue[i].from \in Caller /\ queue[i].from \notin holds
          /\ msg[queue[i].from].type # "Unlock"
          /\ ~(msg[queue[i].from].type = "Lock" /\ call[queue[i].from] = "true")
      BY <1>4 DEF Messages, AppClosed, Message, Lock
    <2>2. CASE queue[i].from = c
      BY <1>1, <2>1, <2>2
    <2>3. CASE queue[i].from # c
      BY <1>1, <2>1, <2>3
    <2> QED
      BY <2>2, <2>3
  <1> QED
    BY <1>2, <1>3, <1>4 DEF Lock

\* gets its answer,
LEMMA ReturnedKeeps ==
    ASSUME LoaderInv, NEW c \in Caller, Returned(c), UNCHANGED <<queue, job, thread, halted>>,
           holds' = IF c \in Client /\ msg[c].type = "Lock" /\ call[c] = "true"
                    THEN holds \cup {c} ELSE holds
    PROVE  /\ call' \in [Caller -> {"idle", "put", "reply", "true", "false"}]
           /\ msg' \in [Caller -> Job] /\ holds' \subseteq Client
           /\ call[c] \in {"true", "false"} /\ call'[c] = "idle"
           /\ \A d \in Caller \ {c} : call'[d] = call[d] /\ msg'[d] = msg[d]
           /\ Messages' /\ Lock'
  <1> USE DEF LoaderInv
  <1>1. NoJob \in Job /\ NoJob.type = "IsLocked"
    BY DEF NoJob, Message, Job, MessageType, Sync
  <1>2. /\ call' \in [Caller -> {"idle", "put", "reply", "true", "false"}]
        /\ msg' \in [Caller -> Job] /\ holds' \subseteq Client
        /\ call[c] \in {"true", "false"} /\ call'[c] = "idle" /\ msg'[c] = NoJob
        /\ \A d \in Caller \ {c} : call'[d] = call[d] /\ msg'[d] = msg[d]
    BY <1>1 DEF Returned, Types
  <1>3. ASSUME NEW d \in Caller
        PROVE  (IF call[d] = "idle" THEN msg[d] = NoJob
                ELSE Legal(d, msg[d]) /\ (msg[d].type \notin Sync => call[d] = "put"))'
    BY <1>2 DEF Messages, Legal
  <1>4. \A k : k.from \in Caller /\ Awaits(k) =>
          k.from # c /\ call'[k.from] = "reply" /\ msg'[k.from] = k
    BY <1>2 DEF Awaits
  <1>5. Messages'
    BY <1>3, <1>4 DEF Messages, Awaits, Legal
  <1>6. msg[c].type # "Unlock"
    BY <1>2 DEF Messages, Sync
  <1>7. LockOwners' = LockOwners
    <2>1. ASSUME NEW d \in Client PROVE d \in LockOwners' <=> d \in LockOwners
      <3>1. CASE d = c
        BY <1>1, <1>2, <1>6, <3>1 DEF LockOwners
      <3>2. CASE d # c
        BY <1>2, <3>2, Constants DEF LockOwners
      <3> QED
        BY <3>1, <3>2
    <2> QED
      BY <2>1 DEF LockOwners
  <1>8. \A d \in Client : msg'[d].type \in {"Lock", "Unlock"} => d \notin holds'
    BY <1>1, <1>2, Constants DEF Lock
  <1>9. ASSUME NEW i \in DOMAIN queue, queue[i].type = "Unlock"
        PROVE  /\ queue[i].from \notin holds'
               /\ msg'[queue[i].from].type # "Unlock"
               /\ ~(msg'[queue[i].from].type = "Lock" /\ call'[queue[i].from] = "true")
    <2>1. /\ queue[i].from \in Caller /\ queue[i].from \notin holds
          /\ msg[queue[i].from].type # "Unlock"
          /\ ~(msg[queue[i].from].type = "Lock" /\ call[queue[i].from] = "true")
      BY <1>9 DEF Messages, AppClosed, Message, Lock
    <2>2. CASE queue[i].from = c
      BY <1>1, <1>2, <2>1, <2>2
    <2>3. CASE queue[i].from # c
      BY <1>2, <2>1, <2>3
    <2> QED
      BY <2>2, <2>3
  <1>10. Lock'
    BY <1>7, <1>8, <1>9 DEF Lock
  <1> QED
    BY <1>2, <1>5, <1>10

\* and before that, the loader gets the message.
LEMMA PutKeeps ==
    ASSUME LoaderInv, NEW c \in Caller, Put(c)
    PROVE  LoaderInv'
  <1> USE DEF LoaderInv, service, calls, desktop, windows, thread_vars
  <1> DEFINE n == Len(queue) + 1
  <1>1. /\ UNCHANGED <<thread_vars, thread, pc, job, holds, desktop, halted>>
        /\ call[c] = "put" /\ queue' = Append(queue, msg[c])
        /\ IF msg[c].type \in Sync
           THEN call' = [call EXCEPT ![c] = "reply"] /\ msg' = msg
           ELSE call' = [call EXCEPT ![c] = "idle"] /\ msg' = [msg EXCEPT ![c] = NoJob]
    BY DEF Put, Running
  <1>2. NoJob \in Job /\ NoJob.type = "IsLocked"
    BY DEF NoJob, Message, Job, MessageType, Sync
  <1>3. msg[c] \in Job /\ Legal(c, msg[c]) /\ msg[c].from = c /\ msg[c].type # "AppClosed"
    BY <1>1 DEF Types, Messages, Legal
  <1>4. /\ queue' \in Seq(Job) /\ DOMAIN queue' = DOMAIN queue \cup {n} /\ n \notin DOMAIN queue
        /\ \A i \in DOMAIN queue : queue'[i] = queue[i]
        /\ queue'[n] = msg[c]
    BY <1>1, <1>3, AppendElements DEF Types
  <1> HIDE DEF n
  <1>5. /\ call' \in [Caller -> {"idle", "put", "reply", "true", "false"}]
        /\ msg' \in [Caller -> Job]
        /\ \A d \in Caller \ {c} : call'[d] = call[d] /\ msg'[d] = msg[d]
        /\ IF msg[c].type \in Sync THEN call'[c] = "reply" /\ msg'[c] = msg[c]
           ELSE call'[c] = "idle" /\ msg'[c] = NoJob
    BY <1>1, <1>2 DEF Types
  <1>6. Types'
    BY <1>1, <1>4, <1>5 DEF Types
  <1>7. Application'
    BY <1>1, <1>3, <1>4 DEF Application
  <1>8. \A k : k.from \in Caller /\ Awaits(k) =>
          k.from # c /\ call'[k.from] = "reply" /\ msg'[k.from] = k
    BY <1>1, <1>5 DEF Awaits
  <1>9. Messages'
    <2>1. ASSUME NEW d \in Caller
          PROVE  (IF call[d] = "idle" THEN msg[d] = NoJob
                  ELSE Legal(d, msg[d]) /\ (msg[d].type \notin Sync => call[d] = "put"))'
      <3>1. CASE d = c
        BY <1>3, <1>5, <3>1 DEF Legal
      <3>2. CASE d # c
        BY <1>5, <3>2 DEF Messages, Legal
      <3> QED
        BY <3>1, <3>2
    <2>2. ASSUME NEW i \in DOMAIN queue
          PROVE  \/ queue[i] = AppClosed
                 \/ /\ queue[i].from \in Caller /\ Legal(queue[i].from, queue[i])
                    /\ queue[i].type \in Sync =>
                          /\ queue[i].from # c /\ call'[queue[i].from] = "reply"
                          /\ msg'[queue[i].from] = queue[i]
      BY <1>8 DEF Messages
    <2>3. \A i \in DOMAIN queue : queue[i].type \in Sync => queue[i].from # c
      BY <2>2 DEF AppClosed, Message, Sync
    <2>4. ASSUME NEW i \in DOMAIN queue', NEW j \in DOMAIN queue',
                 \/ /\ queue'[i].type \in Sync /\ queue'[j].type \in Sync
                    /\ queue'[i].from = queue'[j].from
                 \/ queue'[i].type = "AppClosed" /\ queue'[j].type = "AppClosed"
          PROVE  i = j
      <3>1. CASE i \in DOMAIN queue /\ j \in DOMAIN queue
        BY <1>4, <2>4, <3>1 DEF Messages
      <3>2. CASE i = n \/ j = n
        BY <1>3, <1>4, <2>3, <2>4, <3>2
      <3> QED
        BY <1>4, <3>1, <3>2
    <2>5. ASSUME NEW i \in DOMAIN queue'
          PROVE  \/ queue'[i] = AppClosed
                 \/ /\ queue'[i].from \in Caller /\ Legal(queue'[i].from, queue'[i])
                    /\ queue'[i].type \in Sync =>
                          call'[queue'[i].from] = "reply" /\ msg'[queue'[i].from] = queue'[i]
      <3>1. CASE i = n
        BY <1>3, <1>4, <1>5, <3>1
      <3>2. CASE i # n
        BY <1>4, <2>2, <3>2
      <3> QED
        BY <3>1, <3>2
    <2>6. job.type = "StartByName" =>
            /\ job.from \in Caller /\ call'[job.from] = "reply" /\ msg'[job.from] = job
            /\ \A i \in DOMAIN queue' : queue'[i].type \in Sync => queue'[i].from # job.from
      <3>1. job.type = "StartByName" =>
              /\ job.from \in Caller /\ Awaits(job)
              /\ \A i \in DOMAIN queue : queue[i].type \in Sync => queue[i].from # job.from
        BY DEF Messages
      <3> QED
        BY <1>3, <1>4, <1>8, <3>1
    <2> QED
      BY <1>1, <2>1, <2>4, <2>5, <2>6 DEF Messages, Awaits, AppClosed, Legal
  <1>10. Lock'
    <2>1. \A i \in DOMAIN queue : queue[i].type = "Unlock" =>
            /\ queue[i].from \in Client /\ queue[i].from \notin holds
            /\ msg[queue[i].from].type # "Unlock"
            /\ ~(msg[queue[i].from].type = "Lock" /\ call[queue[i].from] = "true")
      BY DEF Messages, AppClosed, Message, Legal, Lock
    <2>2. msg[c].type = "Unlock" => c \in Client /\ c \in LockOwners /\ c \notin holds
      BY <1>3 DEF Legal, LockOwners, Lock
    <2>3. LockOwners' = LockOwners
      <3>1. ASSUME NEW d \in Client PROVE d \in LockOwners' <=> d \in LockOwners
        <4>1. CASE d = c
          BY <1>1, <1>2, <1>3, <1>4, <1>5, <4>1 DEF LockOwners, Sync
        <4>2. CASE d # c
          BY <1>1, <1>3, <1>4, <1>5, <4>2, Constants DEF LockOwners
        <4> QED
          BY <4>1, <4>2
      <3> QED
        BY <3>1 DEF LockOwners
    <2>4. msg[c].type = "Unlock" => \A i \in DOMAIN queue : queue[i].type # "Unlock"
      <3>1. ASSUME NEW i \in DOMAIN queue, queue[i].type = "Unlock", msg[c].type = "Unlock"
            PROVE  FALSE
        <4>1. queue[i].from \in LockOwners
          BY <2>1, <3>1 DEF LockOwners
        <4>2. queue[i].from = c
          BY <2>2, <3>1, <4>1 DEF Lock
        <4> QED
          BY <2>1, <3>1, <4>2
      <3> QED
        BY <3>1
    <2>5. \A d \in Client : msg'[d].type \in {"Lock", "Unlock"} => d \notin holds
      BY <1>2, <1>5, Constants DEF Lock
    <2>6. ASSUME NEW i \in DOMAIN queue', queue'[i].type = "Unlock"
          PROVE  /\ queue'[i].from \notin holds
                 /\ msg'[queue'[i].from].type # "Unlock"
                 /\ ~(msg'[queue'[i].from].type = "Lock" /\ call'[queue'[i].from] = "true")
      <3>1. CASE i = n
        BY <1>2, <1>3, <1>4, <1>5, <2>2, <2>6, <3>1 DEF Sync
      <3>2. CASE i # n
        <4>1. i \in DOMAIN queue /\ queue'[i] = queue[i] /\ queue[i].type = "Unlock"
          BY <1>4, <2>6, <3>2
        <4>2. CASE queue[i].from = c
          BY <1>1, <1>2, <1>5, <2>1, <4>1, <4>2
        <4>3. CASE queue[i].from # c
          BY <1>5, <2>1, <4>1, <4>3, Constants
        <4> QED
          BY <4>2, <4>3
      <3> QED
        BY <3>1, <3>2
    <2>7. ASSUME NEW i \in DOMAIN queue', NEW j \in DOMAIN queue',
                 queue'[i].type = "Unlock", queue'[j].type = "Unlock"
          PROVE  i = j
      BY <1>4, <2>4, <2>7 DEF Lock
    <2> QED
      BY <1>1, <2>3, <2>5, <2>6, <2>7 DEF Lock
  <1>11. DesktopTold'
    <2>1. CASE c # Desktop
      BY <1>1, <1>5, <2>1, DesktopFrame, Constants DEF Loading
    <2>2. CASE c = Desktop
      BY <1>1, <1>5, <2>2 DEF DesktopTold, Loading, Sync
    <2> QED
      BY <2>1, <2>2
  <1> QED
    BY <1>6, <1>7, <1>9, <1>10, <1>11

-----------------------------------------------------------------------------
\* Clients, the application and the windows.
LEMMA OthersCall ==
    ASSUME LoaderInv, NEW c \in Caller, c # Desktop, NEW m \in Job, Legal(c, m), Call(c, m),
           UNCHANGED <<thread_vars, queue, thread, pc, job, desktop, halted>>,
           IF m.type = "Unlock" THEN c \in holds /\ holds' = holds \ {c}
           ELSE holds' = holds /\ (m.type = "Lock" => c \notin holds)
    PROVE  LoaderInv'
  <1> USE DEF LoaderInv, desktop, thread_vars
  <1>1. /\ call' \in [Caller -> {"idle", "put", "reply", "true", "false"}]
        /\ msg' \in [Caller -> Job] /\ Messages'
        /\ call'[Desktop] = call[Desktop] /\ msg'[Desktop] = msg[Desktop]
    BY CallKeeps, Constants
  <1>2. Types'
    BY <1>1 DEF Types
  <1>3. Lock'
    BY CallLock
  <1>4. Application' /\ DesktopTold'
    BY <1>1, ApplicationFrame, DesktopFrame DEF Loading
  <1> QED
    BY <1>1, <1>2, <1>3, <1>4

LEMMA OthersReturned ==
    ASSUME LoaderInv, NEW c \in Caller, c # Desktop, Returned(c),
           UNCHANGED <<thread_vars, queue, thread, pc, job, desktop, halted>>,
           holds' = IF c \in Client /\ msg[c].type = "Lock" /\ call[c] = "true"
                    THEN holds \cup {c} ELSE holds
    PROVE  LoaderInv'
  <1> USE DEF LoaderInv, desktop, thread_vars
  <1>1. /\ call' \in [Caller -> {"idle", "put", "reply", "true", "false"}]
        /\ msg' \in [Caller -> Job] /\ holds' \subseteq Client /\ Messages' /\ Lock'
        /\ call'[Desktop] = call[Desktop] /\ msg'[Desktop] = msg[Desktop]
    BY ReturnedKeeps, Constants
  <1>2. Types'
    BY <1>1 DEF Types
  <1>3. Application' /\ DesktopTold'
    BY <1>1, ApplicationFrame, DesktopFrame DEF Loading
  <1> QED
    BY <1>1, <1>2, <1>3

\* A step that changes nothing the invariant speaks of.
LEMMA ElsewhereKeeps ==
    ASSUME LoaderInv,
           UNCHANGED <<thread_vars, queue, thread, pc, job, calls, desktop, halted>>
    PROVE  LoaderInv'
  <1> USE DEF LoaderInv, desktop, thread_vars, calls
  <1>1. Types'
    BY DEF Types
  <1>2. Application' /\ Messages' /\ Lock' /\ DesktopTold'
    BY ApplicationFrame, MessagesFrame, LockFrame, DesktopFrame DEF Loading, Lock
  <1> QED
    BY <1>1, <1>2

\* The messages of the callers are well formed.
LEMMA MessageFacts ==
    ASSUME NEW c \in Caller
    PROVE  /\ \A n \in Names[c] : \A type \in {"StartByName", "Enqueue", "StartDetached"} :
                /\ Message(type, n, c) \in Job /\ Message(type, n, c).type = type
                /\ Message(type, n, c).from = c
           /\ \A type \in MessageType :
                /\ Message(type, NULL, c) \in Job /\ Message(type, NULL, c).type = type
                /\ Message(type, NULL, c).from = c /\ Message(type, NULL, c).name = NULL
  BY NamesType DEF Message, Job, MessageType, Sync

LEMMA CallersKeep ==
    ASSUME LoaderInv,
           \/ \E c \in Client : ClientCalls(c) \/ ClientUnlocks(c) \/ ClientReturned(c)
           \/ AppCalls \/ AppReturned
           \/ MenuStarts \/ MenuStarted
           \/ ApplicationsSubscribe \/ ApplicationsStart \/ ApplicationsStarted
           \/ ApplicationsWait \/ ApplicationsUnsubscribe
           \/ \E w \in Window : WindowCloses(w)
    PROVE  LoaderInv'
  <1> USE DEF service
  <1>1. ASSUME NEW c \in Client, ClientCalls(c) PROVE LoaderInv'
    <2>1. c \in Caller /\ c # Desktop
      BY Constants
    <2>2. PICK m : /\ Call(c, m)
                   /\ \/ \E n \in Names[c] : m = Message("StartByName", n, c)
                      \/ c \notin holds /\ m = Message("Lock", NULL, c)
                      \/ m = Message("IsLocked", NULL, c)
      BY <1>1 DEF ClientCalls
    <2>3. /\ m \in Job /\ m.from = c
          /\ m.type \in {"StartByName", "Lock", "IsLocked"} /\ (m.type = "Lock" => c \notin holds)
      BY <2>1, <2>2, MessageFacts DEF MessageType, Sync
    <2>4. Legal(c, m)
      BY <2>1, <2>3 DEF Legal, MessageType, Sync
    <2>5. UNCHANGED <<thread_vars, queue, thread, pc, job, holds, desktop, halted>>
      BY <1>1 DEF ClientCalls
    <2> QED
      BY <2>1, <2>2, <2>3, <2>4, <2>5, OthersCall
  <1>2. ASSUME NEW c \in Client, ClientUnlocks(c) PROVE LoaderInv'
    <2> DEFINE m == Message("Unlock", NULL, c)
    <2>1. c \in Caller /\ c # Desktop
      BY Constants
    <2>2. m \in Job /\ m.from = c /\ m.type = "Unlock"
      BY <2>1, MessageFacts DEF MessageType
    <2>3. /\ UNCHANGED <<thread_vars, queue, thread, pc, job, desktop, halted>>
          /\ Call(c, m) /\ c \in holds /\ holds' = holds \ {c}
      BY <1>2 DEF ClientUnlocks
    <2> HIDE DEF m
    <2>4. Legal(c, m)
      BY <2>1, <2>2 DEF Legal, MessageType
    <2> QED
      BY <2>1, <2>2, <2>3, <2>4, OthersCall
  <1>3. ASSUME NEW c \in Client, ClientReturned(c) PROVE LoaderInv'
    BY <1>3, OthersReturned, Constants DEF ClientReturned
  <1>4. CASE AppCalls
    <2>1. PICK m : /\ Call(App, m)
                   /\ \/ \E n \in Names[App] : m = Message("Enqueue", n, App)
                      \/ m = Message("Clear", NULL, App)
      BY <1>4 DEF AppCalls
    <2>2. m \in Job /\ m.from = App /\ m.type \in {"Enqueue", "Clear"}
      BY <2>1, MessageFacts, Constants DEF MessageType, Sync
    <2>3. Legal(App, m)
      BY <2>2, Constants DEF Legal, MessageType, Sync
    <2>4. UNCHANGED <<thread_vars, queue, thread, pc, job, holds, desktop, halted>>
      BY <1>4 DEF AppCalls
    <2> QED
      BY <2>1, <2>2, <2>3, <2>4, OthersCall, Constants
  <1>5. CASE AppReturned
    BY <1>5, OthersReturned, Constants DEF AppReturned
  <1>6. ASSUME NEW w \in Window, NEW m, Call(w, m),
               \/ \E n \in Names[w] : m = Message("StartByName", n, w)
               \/ m = Message("WindowClosed", NULL, w),
               UNCHANGED <<thread_vars, queue, thread, pc, job, holds, desktop, halted>>
        PROVE  LoaderInv'
    <2>1. w \in Caller /\ w # Desktop /\ w \notin Client
      BY Constants
    <2>2. m \in Job /\ m.from = w /\ m.type \in {"StartByName", "WindowClosed"}
      BY <1>6, <2>1, MessageFacts DEF MessageType, Sync
    <2>3. Legal(w, m)
      BY <2>1, <2>2 DEF Legal, MessageType, Sync
    <2> QED
      BY <1>6, <2>1, <2>2, <2>3, OthersCall
  <1>7. CASE MenuStarts
    BY <1>6, <1>7, Constants DEF MenuStarts
  <1>8. CASE MenuStarted
    BY <1>8, OthersReturned, Constants DEF MenuStarted
  <1>9. CASE ApplicationsSubscribe \/ ApplicationsWait \/ ApplicationsUnsubscribe
    BY <1>9, ElsewhereKeeps
       DEF ApplicationsSubscribe, ApplicationsWait, ApplicationsUnsubscribe
  <1>10. CASE ApplicationsStart
    BY <1>6, <1>10, Constants DEF ApplicationsStart
  <1>11. CASE ApplicationsStarted
    BY <1>11, OthersReturned, Constants DEF ApplicationsStarted
  <1>12. ASSUME NEW w \in Window, WindowCloses(w) PROVE LoaderInv'
    BY <1>6, <1>12 DEF WindowCloses
  <1> QED
    BY <1>1, <1>2, <1>3, <1>4, <1>5, <1>7, <1>8, <1>9, <1>10, <1>11, <1>12

\* The desktop's thread.
LEMMA DesktopKeeps ==
    ASSUME LoaderInv,
           DesktopSubscribe \/ DesktopAsks \/ DesktopReturned \/ DesktopEvent \/ DesktopCalls
    PROVE  LoaderInv'
  <1> USE DEF LoaderInv, service, calls, desktop, thread_vars
  <1>1. CASE DesktopSubscribe
    <2>1. /\ UNCHANGED <<thread_vars, queue, thread, pc, job, calls, events, semaphore,
                         app_running, halted>>
          /\ desk = "alloc" /\ desk' = "subscribed"
      BY <1>1 DEF DesktopSubscribe
    <2>2. Types' /\ Application' /\ Messages' /\ Lock'
      BY <2>1, ApplicationFrame, MessagesFrame, LockFrame DEF Types, Lock
    <2>3. DesktopTold'
      BY <2>1 DEF DesktopTold, Loading
    <2> QED
      BY <2>2, <2>3
  <1>2. ASSUME NEW m, Call(Desktop, m), m \in Job, Legal(Desktop, m), m.type # "Unlock",
               m.type # "Lock",
               UNCHANGED <<thread_vars, queue, thread, pc, job, holds, halted>>
        PROVE  /\ Types' /\ Application' /\ Messages' /\ Lock'
               /\ call[Desktop] = "idle" /\ call'[Desktop] = "put" /\ msg'[Desktop] = m
    <2>1. /\ call' \in [Caller -> {"idle", "put", "reply", "true", "false"}]
          /\ msg' \in [Caller -> Job] /\ Messages'
          /\ call[Desktop] = "idle" /\ call'[Desktop] = "put" /\ msg'[Desktop] = m
      BY <1>2, CallKeeps, Constants
    <2>2. Types'
      BY <1>2, <2>1 DEF Types
    <2>3. Lock'
      BY <1>2, CallLock, Constants
    <2>4. Application'
      BY <1>2, ApplicationFrame
    <2> QED
      BY <2>1, <2>2, <2>3, <2>4
  <1>3. CASE DesktopAsks
    <2> DEFINE m == Message("IsLocked", NULL, Desktop)
    <2>1. m \in Job /\ m.from = Desktop /\ m.type = "IsLocked"
      BY MessageFacts, Constants DEF MessageType, Sync
    <2>2. /\ UNCHANGED <<thread_vars, queue, thread, pc, job, holds, events, semaphore,
                         app_running, halted>>
          /\ desk = "subscribed" /\ desk' = "ask" /\ Call(Desktop, m)
      BY <1>3 DEF DesktopAsks
    <2> HIDE DEF m
    <2>3. Legal(Desktop, m)
      BY <2>1 DEF Legal, MessageType, Sync
    <2>4. /\ Types' /\ Application' /\ Messages' /\ Lock'
          /\ call[Desktop] = "idle" /\ call'[Desktop] = "put" /\ msg'[Desktop] = m
      BY <1>2, <2>1, <2>2, <2>3
    <2>5. DesktopTold'
      BY <2>1, <2>2, <2>4 DEF DesktopTold, Loading
    <2> QED
      BY <2>4, <2>5
  <1>4. CASE DesktopReturned
    <2>1. /\ UNCHANGED <<thread_vars, queue, thread, pc, job, holds, events, semaphore, halted>>
          /\ Returned(Desktop) /\ desk' = "run"
          /\ app_running' = (call[Desktop] = "true")
      BY <1>4 DEF DesktopReturned
    <2>2. /\ call' \in [Caller -> {"idle", "put", "reply", "true", "false"}]
          /\ msg' \in [Caller -> Job] /\ Messages' /\ Lock'
          /\ call[Desktop] \in {"true", "false"} /\ call'[Desktop] = "idle"
      BY <2>1, ReturnedKeeps, Constants
    <2>3. Types' /\ Application'
      BY <2>1, <2>2, ApplicationFrame DEF Types
    <2>4. desk = "ask"
      <3>1. desk = "run" => msg[Desktop].type \notin Sync /\ call[Desktop] # "put"
        BY <2>2 DEF DesktopTold
      <3> QED
        BY <2>2, <3>1, Constants DEF DesktopTold, Messages
    <2>5. thread = App \/ pc = "load" => app_running'
      BY <2>1, <2>2, <2>4 DEF DesktopTold
    <2>6. DesktopTold'
      BY <2>1, <2>2, <2>4, <2>5 DEF DesktopTold, Loading
    <2> QED
      BY <2>2, <2>3, <2>6
  <1>5. CASE DesktopEvent
    <2>1. /\ UNCHANGED <<thread_vars, queue, thread, pc, job, calls, desk, halted>>
          /\ desk = "run" /\ events # <<>> /\ events' = Tail(events)
          /\ app_running' = (Head(events) = "Before")
          /\ semaphore' = IF Head(events) = "Before" THEN 1 ELSE semaphore
      BY <1>5 DEF DesktopEvent
    <2>2. Types' /\ Application' /\ Messages' /\ Lock'
      BY <2>1, ApplicationFrame, MessagesFrame, LockFrame DEF Types, Lock
    <2>3. CASE events = <<"After">>
      <3>1. events' = <<>> /\ semaphore' = semaphore /\ thread # App /\ ~Loading
            /\ pc # "animation" /\ semaphore # 1
        BY <2>1, <2>3, EventQueue DEF DesktopTold
      <3> QED
        BY <2>1, <2>2, <3>1 DEF DesktopTold, Loading
    <2>4. CASE events = <<"Before">>
      <3>1. events' = <<>> /\ semaphore' = 1 /\ pc = "animation" /\ app_running'
        BY <2>1, <2>4, EventQueue DEF DesktopTold
      <3> QED
        BY <2>1, <2>2, <3>1 DEF DesktopTold, Loading
    <2>5. CASE events = <<"After", "Before">>
      <3>1. events' = <<"Before">> /\ semaphore' = semaphore /\ pc = "animation"
            /\ thread # App /\ semaphore # 1
        BY <2>1, <2>5, EventQueue DEF DesktopTold
      <3> QED
        BY <2>1, <2>2, <3>1, EventQueue DEF DesktopTold, Loading
    <2> QED
      BY <2>1, <2>3, <2>4, <2>5 DEF DesktopTold
  <1>6. CASE DesktopCalls
    <2>1. PICK m : /\ Call(Desktop, m)
                   /\ \/ \E n \in Names[Desktop] : m = Message("StartDetached", n, Desktop)
                      \/ m = Message("ShowMenu", NULL, Desktop)
      BY <1>6 DEF DesktopCalls
    <2>2. /\ m \in Job /\ m.from = Desktop /\ m.type \in {"StartDetached", "ShowMenu"}
          /\ m.type = "ShowMenu" => m.name = NULL
      BY <2>1, MessageFacts, Constants DEF MessageType
    <2>3. Legal(Desktop, m)
      BY <2>2 DEF Legal, MessageType
    <2>4. UNCHANGED <<thread_vars, queue, thread, pc, job, holds, desktop, halted>>
          /\ desk = "run"
      BY <1>6 DEF DesktopCalls
    <2>5. /\ Types' /\ Application' /\ Messages' /\ Lock'
          /\ call[Desktop] = "idle" /\ call'[Desktop] = "put" /\ msg'[Desktop] = m
      BY <1>2, <2>1, <2>2, <2>3, <2>4
    <2>6. DesktopTold'
      BY <2>2, <2>4, <2>5 DEF DesktopTold, Loading, Sync
    <2> QED
      BY <2>5, <2>6
  <1> QED
    BY <1>1, <1>3, <1>4, <1>5, <1>6

-----------------------------------------------------------------------------
\* The end of a thread and the scrubber.
LEMMA ThreadsKeep ==
    ASSUME LoaderInv,
           AppReturns \/ (\E w \in Window : WindowReturns(w)) \/ ScrubStop \/ ScrubReport
    PROVE  LoaderInv'
  <1> USE DEF LoaderInv, service, calls, desktop
  <1> DEFINE n == Len(ended) + 1
  <1>1. ASSUME NEW th \in Thread, End(th),
               UNCHANGED <<queue, service, calls, desktop, halted>>
        PROVE  LoaderInv'
    <2>1. /\ life[th] = "running" /\ life' = [life EXCEPT ![th] = "ended"]
          /\ ended' = Append(ended, th) /\ released' = released
      BY <1>1 DEF End, LifeStep
    <2>2. /\ ended' \in Seq(Thread) /\ DOMAIN ended' = DOMAIN ended \cup {n}
          /\ n \notin DOMAIN ended
          /\ \A i \in DOMAIN ended : ended'[i] = ended[i]
          /\ ended'[n] = th /\ ended' # <<>>
      BY <2>1, AppendElements, AppendFacts DEF Types
    <2> HIDE DEF n
    <2>3. Types' /\ life'[th] = "ended" /\ (th # App => life'[App] = life[App])
      BY <1>1, <2>1, <2>2, Constants DEF Types
    <2>4. \A i \in DOMAIN ended : ended[i] = App => th # App
      BY <2>1 DEF Application
    <2>5. Application'
      BY <1>1, <2>1, <2>2, <2>3, <2>4 DEF Application
    <2>6. Messages' /\ Lock' /\ DesktopTold'
      BY <1>1, MessagesFrame, LockFrame, DesktopFrame DEF Loading, Lock
    <2> QED
      BY <2>3, <2>5, <2>6
  <1>2. CASE AppReturns
    BY <1>1, <1>2, Constants DEF AppReturns
  <1>3. ASSUME NEW w \in Window, WindowReturns(w) PROVE LoaderInv'
    BY <1>1, <1>3, Constants DEF WindowReturns
  <1>4. CASE ScrubStop
    <2>1. /\ UNCHANGED <<ended, queue, thread, pc, job, call, msg, holds, desktop, halted>>
          /\ ended # <<>> /\ released' = TRUE
          /\ life' = life \/ (Head(ended) \in Joined /\ life' = [life EXCEPT ![Head(ended)] = "ready"])
      BY <1>4 DEF ScrubStop, Stop, LifeStep
    <2>2. Types' /\ life'[App] = life[App]
      BY <2>1, Constants DEF Types
    <2>3. Application'
      BY <2>1, <2>2 DEF Application
    <2>4. Messages' /\ Lock' /\ DesktopTold'
      BY <2>1, MessagesFrame, LockFrame, DesktopFrame DEF Loading, Lock
    <2> QED
      BY <2>2, <2>3, <2>4
  <1>5. CASE ScrubReport
    <2>1. /\ UNCHANGED <<thread, pc, job, call, msg, holds, desktop, halted>>
          /\ released /\ released' = FALSE /\ ended' = Tail(ended)
          /\ IF Head(ended) \in Joined THEN life' = life
             ELSE life' = [life EXCEPT ![Head(ended)] = "ready"]
          /\ IF Head(ended) = App THEN queue' = Append(queue, AppClosed) ELSE queue' = queue
      BY <1>5 DEF ScrubReport, Report, LifeStep, AppClosed
    <2>2. /\ ended' \in Seq(Thread) /\ 1 \in DOMAIN ended /\ Head(ended) = ended[1]
          /\ Head(ended) \in Thread
          /\ \A i \in DOMAIN ended' :
                i \in Nat /\ i + 1 \in DOMAIN ended /\ i + 1 # 1 /\ ended'[i] = ended[i + 1]
      BY <2>1, TailElements DEF Types, Application
    <2>3. ASSUME NEW i \in DOMAIN ended', NEW j \in DOMAIN ended', ended'[i] = App,
                 ended'[j] = App
          PROVE  i = j
      <3>1. i + 1 = j + 1 /\ i \in Nat /\ j \in Nat
        BY <2>2, <2>3 DEF Application
      <3> QED
        BY <3>1
    <2>4. CASE Head(ended) # App
      <3>1. Types' /\ life'[App] = life[App] /\ queue' = queue
        BY <2>1, <2>2, <2>4, Constants DEF Types
      <3>2. Application'
        BY <2>1, <2>2, <2>3, <3>1 DEF Application
      <3>3. Messages' /\ Lock' /\ DesktopTold'
        BY <2>1, <3>1, MessagesFrame, LockFrame, DesktopFrame DEF Loading, Lock
      <3> QED
        BY <3>1, <3>2, <3>3
    <2>5. CASE Head(ended) = App
      <3> DEFINE k == Len(queue) + 1
      <3>1. AppClosed \in Job /\ AppClosed.type = "AppClosed"
        BY DEF AppClosed, Message, Job, MessageType
      <3>2. /\ queue' \in Seq(Job) /\ DOMAIN queue' = DOMAIN queue \cup {k}
            /\ k \notin DOMAIN queue
            /\ \A i \in DOMAIN queue : queue'[i] = queue[i]
            /\ queue'[k] = AppClosed
        <4>1. queue' = Append(queue, AppClosed) /\ queue \in Seq(Job) /\ AppClosed \in Job
          BY <2>1, <2>5, <3>1 DEF Types
        <4> QED
          BY ONLY <4>1, AppendElements
      <3> HIDE DEF k
      <3>3. /\ life[App] = "ended" /\ \A i \in DOMAIN queue : queue[i].type # "AppClosed"
            /\ \A i \in DOMAIN ended' : ended'[i] # App
        BY <2>2, <2>5 DEF Application
      <3>4. Types' /\ life'[App] = "ready"
        BY <2>1, <2>2, <2>5, <3>2, Constants DEF Types
      <3>5. Application'
        BY <2>1, <3>2, <3>3, <3>4 DEF Application
      <3>6. Messages'
        <4>1. ASSUME NEW i \in DOMAIN queue'
              PROVE  \/ queue'[i] = AppClosed
                     \/ /\ queue'[i].from \in Caller /\ Legal(queue'[i].from, queue'[i])
                        /\ queue'[i].type \in Sync => Awaits(queue'[i])
          BY <3>2 DEF Messages
        <4>2. \A i \in DOMAIN queue' : queue'[i].type \in Sync => i \in DOMAIN queue
          BY <3>1, <3>2 DEF Sync
        <4>3. ASSUME NEW i \in DOMAIN queue', NEW j \in DOMAIN queue',
                     \/ /\ queue'[i].type \in Sync /\ queue'[j].type \in Sync
                        /\ queue'[i].from = queue'[j].from
                     \/ queue'[i].type = "AppClosed" /\ queue'[j].type = "AppClosed"
              PROVE  i = j
          BY <3>2, <3>3, <4>2, <4>3 DEF Messages
        <4>4. job.type = "StartByName" =>
                \A i \in DOMAIN queue' : queue'[i].type \in Sync => queue'[i].from # job.from
          BY <3>2, <4>2 DEF Messages
        <4> QED
          BY <2>1, <4>1, <4>3, <4>4 DEF Messages, Awaits, AppClosed, Legal
      <3>7. Lock'
        <4>1. \A i \in DOMAIN queue' : queue'[i].type = "Unlock" =>
                i \in DOMAIN queue /\ queue'[i] = queue[i]
          BY <3>1, <3>2
        <4>2. LockOwners' = LockOwners
          BY <2>1, <3>2, <4>1 DEF LockOwners
        <4> QED
          BY <2>1, <4>1, <4>2 DEF Lock
      <3>8. DesktopTold'
        BY <2>1, DesktopFrame DEF Loading
      <3> QED
        BY <3>4, <3>5, <3>6, <3>7, <3>8
    <2> QED
      BY <2>4, <2>5
  <1> QED
    BY <1>2, <1>3, <1>4, <1>5

-----------------------------------------------------------------------------

\* The invariant holds in every behaviour, whatever the sizes of the loader's
\* queues and however many clients there are.
THEOREM LoaderInvariance == Spec => []LoaderInv
  <1>1. LoaderInv /\ Next => LoaderInv'
    <2> SUFFICES ASSUME LoaderInv, Next PROVE LoaderInv'
      OBVIOUS
    <2>1. CASE Service \/ AnimationTimeout
      BY <2>1, StartKeeps, FinishKeeps, HandleKeeps, LockKeeps, AnswerKeeps DEF Service
    <2>2. CASE DesktopRuns \/ DesktopCalls
      BY <2>2, DesktopKeeps DEF DesktopRuns
    <2>3. CASE \/ ApplicationsRuns \/ MenuStarted \/ AppReturned
               \/ \E c \in Client : ClientReturned(c)
               \/ \E c \in Client : ClientCalls(c) \/ ClientUnlocks(c)
               \/ AppCalls \/ MenuStarts \/ ApplicationsSubscribe
               \/ \E w \in Window : WindowCloses(w)
      BY <2>3, CallersKeep DEF ApplicationsRuns
    <2>4. CASE \/ AppReturns \/ ScrubStop \/ ScrubReport
               \/ \E w \in Window : WindowReturns(w)
      BY <2>4, ThreadsKeep
    <2>5. CASE \E c \in Caller : Put(c)
      BY <2>5, PutKeeps
    <2> QED
      BY <2>1, <2>2, <2>3, <2>4, <2>5 DEF Next, System, Choice
  <1>2. LoaderInv /\ UNCHANGED vars => LoaderInv'
    BY ElsewhereKeeps DEF vars, service
  <1> QED
    BY <1>1, <1>2, LoaderInitially, PTL DEF Spec

\* loader_do_app_closed finds the application whose thread has been stopped.
THEOREM AppClosedIsGenuine == Spec => []AppClosedGenuine
  <1>1. LoaderInv => AppClosedGenuine
    <2> SUFFICES ASSUME LoaderInv, NEW i \in DOMAIN queue, queue[i].type = "AppClosed"
                 PROVE  thread = App /\ life[App] = "ready" /\ App \notin ToSet(ended)
      BY DEF AppClosedGenuine
    <2>1. life[App] = "ready" /\ thread = App
      BY DEF LoaderInv, Application
    <2>2. App \notin ToSet(ended)
      BY <2>1 DEF LoaderInv, Application, ToSet
    <2> QED
      BY <2>1, <2>2
  <1> QED
    BY <1>1, LoaderInvariance, PTL

\* The word app.thread is the magic value exactly while one client has the lock,
\* and the furi_check of loader_do_unlock holds.
THEOREM LockIsExact == Spec => []LockExact
  <1>1. LoaderInv => LockExact
    BY DEF LoaderInv, Application, Lock, LockExact
  <1> QED
    BY <1>1, LoaderInvariance, PTL

\* The desktop that runs beside an application knows of it.
THEOREM DesktopIsTold == Spec => []DesktopKnows
  <1>1. LoaderInv => DesktopKnows
    BY DEF LoaderInv, DesktopTold, DesktopKnows
  <1> QED
    BY <1>1, LoaderInvariance, PTL

=============================================================================
