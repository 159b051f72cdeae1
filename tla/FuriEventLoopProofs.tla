------------------------- MODULE FuriEventLoopProofs -------------------------
(***************************************************************************)
(* Proofs that the safety properties of FuriEventLoop hold for any sets of *)
(* objects, items and threads, any capacity and any event words.  Inv, the *)
(* inductive invariant, joins the properties with PcItem and PcFlags: what *)
(* the locals of the loop's thread hold at each point of its code.  It is  *)
(* kept by every step in three parts: the types (NextType), the structure  *)
(* of items, links and waiting list (NextStruct) and the notification      *)
(* flags (NextFlags).                                                      *)
(***************************************************************************)
EXTENDS FuriEventLoop, SequenceFacts, TLAPS

-----------------------------------------------------------------------------
\* The inductive invariant.

Busy == {"process", "event_cb", "finish"}

\* The locals of furi_event_loop_process_waiting_list, and what an instance that
\* is not allocated leaves behind.
PcItem ==
    /\ pc \in Busy => item \in Item /\ object[item] \in Object
    /\ pc \notin Busy \cup {"fault"} => item = NULL
    /\ pc = "process" => tree[object[item]] = item
    /\ pc = "event_cb" => current_item = item
    /\ pc \notin {"event_cb", "fault"} => current_item = NULL
    /\ pc = "finish" => (status = "FreeLater" <=> ~owned[item])
    /\ pc \in {"none", "alloc"} => waiting_list = <<>> /\ \A o \in Object : tree[o] = NULL

\* Which flags the local variable of furi_event_loop_run can hold where, and
\* that the deferred call being run is still queued.
PcFlags ==
    /\ pc \in {"app", "none", "alloc", "wait", "flags_cb", "tick_cb"} => flags = {}
    /\ pc \in {"pending", "pending_cb"} => "Timer" \notin flags
    /\ pc = "thread_flag" => flags \cap {"Timer", "Pending"} = {}
    /\ pc = "pending_cb" => pending_queue > 0
    /\ pc \in {"none", "alloc"} => timer_queue = 0 /\ pending_queue = 0

Struct == LinksLive /\ WaitingLive /\ ItemsFreedOnce /\ PcItem /\ LevelNotMissed

Inv == TypeOK /\ Struct /\ EventNotLost /\ RequestsNotLost /\ PcFlags

-----------------------------------------------------------------------------
\* Initial states and types.

\* The invariant holds when furi_event_loop_alloc has returned.
LEMMA InitInv == Init => Inv
  <1> SUFFICES ASSUME Init PROVE Inv
    OBVIOUS
  <1> USE BoundsType, NullFresh
  <1>1. TypeOK
    <2>1. /\ waiting_list \in Seq(Item)
          /\ event \in [Item -> EventWord]
          /\ level \in [Object -> 0..Capacity]
      BY DEF Init, EventWord, NoEvent
    <2> QED
      BY <2>1 DEF Init, TypeOK, AppPc
  <1>2. ToSet(waiting_list) = {} /\ IsInjective(waiting_list)
    BY DEF Init, ToSet, IsInjective
  <1>3. LinksLive /\ LevelNotMissed
    BY DEF Init, LinksLive, LevelNotMissed, Link
  <1>4. WaitingLive /\ ItemsFreedOnce
    BY <1>2 DEF Init, WaitingLive, ItemsFreedOnce, allocated
  <1>5. PcItem /\ PcFlags
    BY DEF Init, PcItem, PcFlags, Busy
  <1>6. EventNotLost /\ RequestsNotLost
    BY DEF Init, EventNotLost, RequestsNotLost
  <1> QED
    BY <1>1, <1>3, <1>4, <1>5, <1>6 DEF Inv, Struct

\* What a cleared block holds is an event word.
LEMMA NoEventType == NoEvent \in EventWord
  BY DEF NoEvent, EventWord

\* The waiting list after furi_event_loop_item_notify.
LEMMA EnqueuedFacts ==
    ASSUME TypeOK, WaitingLive, NEW i \in Item
    PROVE  /\ Enqueued(i) \in Seq(Item)
           /\ ToSet(Enqueued(i)) = ToSet(waiting_list) \cup {i}
           /\ IsInjective(Enqueued(i))
           /\ Enqueued(i) # <<>>
  <1>1. waiting_list \in Seq(Item) /\ IsInjective(waiting_list)
    BY DEF TypeOK, WaitingLive
  <1>2. CASE IsWaiting(i)
    <2>1. waiting_list # <<>>
      BY <1>2 DEF IsWaiting, ToSet
    <2> QED
      BY <1>1, <1>2, <2>1 DEF Enqueued, IsWaiting
  <1>3. CASE ~IsWaiting(i)
    BY <1>1, <1>3, AppendFacts DEF Enqueued, IsWaiting
  <1> QED
    BY <1>2, <1>3

\* The waiting list after furi_event_loop_unsubscribe.
LEMMA UnlinkedFacts ==
    ASSUME TypeOK, WaitingLive, NEW i \in Item
    PROVE  /\ Unlinked(i) \in Seq(Item)
           /\ ToSet(Unlinked(i)) = ToSet(waiting_list) \ {i}
           /\ IsInjective(Unlinked(i))
           /\ waiting_list = <<>> => Unlinked(i) = <<>>
  <1>1. waiting_list \in Seq(Item) /\ IsInjective(waiting_list)
    BY DEF TypeOK, WaitingLive
  <1>2. CASE IsWaiting(i)
    <2> DEFINE j == CHOOSE k \in DOMAIN waiting_list : waiting_list[k] = i
    <2>1. j \in DOMAIN waiting_list /\ waiting_list[j] = i
      BY <1>2 DEF IsWaiting, ToSet
    <2>2. waiting_list # <<>>
      BY <1>2 DEF IsWaiting, ToSet
    <2> HIDE DEF j
    <2>3. /\ RemoveAt(waiting_list, j) \in Seq(Item)
          /\ ToSet(RemoveAt(waiting_list, j)) = ToSet(waiting_list) \ {i}
          /\ IsInjective(RemoveAt(waiting_list, j))
      BY <1>1, <2>1, RemoveAtFacts
    <2> QED
      BY <1>2, <2>2, <2>3 DEF Unlinked, j
  <1>3. CASE ~IsWaiting(i)
    BY <1>1, <1>3 DEF Unlinked, IsWaiting
  <1> QED
    BY <1>2, <1>3

\* The item a link or the tree refers to.
LEMMA LinkFacts ==
    ASSUME TypeOK, LinksLive, NEW o \in Object
    PROVE  /\ tree[o] # NULL => /\ tree[o] \in Item
                                /\ object[tree[o]] = o
                                /\ owned[tree[o]]
                                /\ event[tree[o]] \in EventWord
                                /\ event[tree[o]].dir \in {"in", "out"}
                                /\ Link(o, event[tree[o]].dir) = tree[o]
           /\ \A d \in {"in", "out"} : Link(o, d) # NULL => /\ Link(o, d) = tree[o]
                                                            /\ event[tree[o]].dir = d
  BY DEF TypeOK, LinksLive, EventWord

\* furi_event_loop_link_notify keeps the types of what it changes.
LEMMA NotifyType ==
    ASSUME TypeOK, LinksLive, WaitingLive, NEW o \in Object, NEW d \in {"in", "out"},
           LinkNotify(o, d)
    PROVE  waiting_list' \in Seq(Item) /\ notified' \in SUBSET Flag
  <1>1. CASE Link(o, d) = NULL
    BY <1>1 DEF LinkNotify, TypeOK
  <1>2. CASE Link(o, d) # NULL
    <2>1. Link(o, d) \in Item
      BY <1>2, LinkFacts
    <2> QED
      BY <1>2, <2>1, EnqueuedFacts DEF LinkNotify, ItemNotify, TypeOK, Flag
  <1> QED
    BY <1>1, <1>2

\* Freeing an item, at once, later or not at all, keeps the types of its fields.
LEMMA FreeType ==
    ASSUME TypeOK, NEW i \in Item, ItemFree(i) \/ ItemFreeLater(i) \/ UNCHANGED items
    PROVE  /\ object' \in [Item -> Object \cup {NULL}]
           /\ event' \in [Item -> EventWord]
           /\ owned' \in [Item -> BOOLEAN]
  <1>1. CASE ItemFree(i)
    <2>1. object' = [object EXCEPT ![i] = NULL] /\ object' \in [Item -> Object \cup {NULL}]
      BY <1>1 DEF ItemFree, TypeOK
    <2>2. event' \in [Item -> EventWord]
      BY <1>1, NoEventType DEF ItemFree, TypeOK
    <2>3. owned' \in [Item -> BOOLEAN]
      BY <1>1 DEF ItemFree, TypeOK
    <2> QED
      BY <2>1, <2>2, <2>3
  <1>2. CASE ItemFreeLater(i)
    BY <1>2 DEF ItemFreeLater, TypeOK
  <1>3. CASE UNCHANGED items
    BY <1>3 DEF items, TypeOK
  <1> QED
    BY <1>1, <1>2, <1>3

\* Every step keeps the types.
LEMMA NextType == Inv /\ [Next]_vars => TypeOK'
  <1> SUFFICES ASSUME Inv, [Next]_vars PROVE TypeOK'
    OBVIOUS
  <1> USE BoundsType, NullFresh DEF Inv, Struct, work, items, links, queues, env
  <1>1. ASSUME NEW t \in Thread, NEW o \in Object, ThreadPut(t, o) \/ ThreadGet(t, o)
        PROVE  TypeOK'
    <2>1. PICK d \in {"in", "out"}, by \in {1, -1} : Changed(t, o, d, by)
      BY <1>1 DEF ThreadPut, ThreadGet
    <2>2. level' \in [Object -> 0..Capacity]
      BY <2>1 DEF Changed, TypeOK
    <2> QED
      BY <2>1, <2>2 DEF Changed, TypeOK
  <1>2. ASSUME NEW t \in Thread, ThreadNotify(t)
        PROVE  TypeOK'
    <2>1. notifying[t] \in Object /\ direction[t] \in {"in", "out"}
      BY <1>2 DEF ThreadNotify, TypeOK
    <2>2. waiting_list' \in Seq(Item) /\ notified' \in SUBSET Flag
      BY <1>2, <2>1, NotifyType DEF ThreadNotify
    <2> QED
      BY <1>2, <2>2 DEF ThreadNotify, TypeOK
  <1>3. CASE Stop \/ ThreadFlagSet
    BY <1>3 DEF Stop, ThreadFlagSet, TypeOK, Flag
  <1>4. ASSUME NEW o \in Object, NEW e \in Events[o], NEW i \in Item \ allocated,
               Subscribe(o, e, i)
        PROVE  TypeOK'
    <2>1. e \in EventWord
      BY EventsType
    <2>2. waiting_list' \in Seq(Item) /\ notified' \in SUBSET Flag
      BY <1>4, EnqueuedFacts DEF Subscribe, ItemNotify, TypeOK, Flag
    <2> QED
      BY <1>4, <2>1, <2>2 DEF Subscribe, SetLink, TypeOK
  <1>5. ASSUME NEW o \in Object, NEW e \in Events[o], SubscribeSecond(o, e)
        PROVE  TypeOK'
    BY <1>5 DEF SubscribeSecond, TypeOK
  <1>6. ASSUME NEW o \in Object, Unsubscribe(o)
        PROVE  TypeOK'
    <2>1. tree[o] \in Item
      BY <1>6 DEF Unsubscribe, TypeOK
    <2>2. waiting_list' \in Seq(Item)
      BY <1>6, <2>1, UnlinkedFacts DEF Unsubscribe, Disconnect
    <2>3. /\ object' \in [Item -> Object \cup {NULL}]
          /\ event' \in [Item -> EventWord]
          /\ owned' \in [Item -> BOOLEAN]
      BY <1>6, <2>1, FreeType DEF Unsubscribe, Release
    <2> QED
      BY <1>6, <2>1, <2>2, <2>3 DEF Unsubscribe, Disconnect, SetLink, TypeOK
  <1>7. ASSUME NEW o \in Object, AppPut(o) \/ AppGet(o)
        PROVE  TypeOK'
    <2>1. waiting_list' \in Seq(Item) /\ notified' \in SUBSET Flag
      BY <1>7, NotifyType DEF AppPut, AppGet, AppChanged
    <2>2. PICK d \in {"in", "out"}, by \in {1, -1} : AppChanged(o, d, by)
      BY <1>7 DEF AppPut, AppGet
    <2>3. level' \in [Object -> 0..Capacity]
      BY <2>2 DEF AppChanged, TypeOK
    <2> QED
      BY <2>1, <2>2, <2>3 DEF AppChanged, TypeOK
  <1>8. CASE PendCallback \/ TimerRequest \/ SubscribeThreadFlags \/ UnsubscribeThreadFlags
    <2>1. CASE PendCallback
      BY <2>1 DEF PendCallback, TypeOK, Flag
    <2>2. CASE TimerRequest
      BY <2>2 DEF TimerRequest, TypeOK, Flag
    <2>3. CASE SubscribeThreadFlags
      BY <2>3 DEF SubscribeThreadFlags, TypeOK
    <2>4. CASE UnsubscribeThreadFlags
      BY <2>4 DEF UnsubscribeThreadFlags, TypeOK
    <2> QED
      BY <1>8, <2>1, <2>2, <2>3, <2>4
  <1>9. CASE Alloc \/ AllocValue \/ Free \/ Run
    <2>1. CASE Alloc \/ AllocValue
      BY <2>1 DEF Alloc, AllocValue, Goto, TypeOK, AppPc, Flag
    <2>2. CASE Free
      BY <2>2 DEF Free, Goto, TypeOK
    <2>3. CASE Run
      BY <2>3 DEF Run, Goto, TypeOK, LoopPc
    <2> QED
      BY <1>9, <2>1, <2>2, <2>3
  <1>10. CASE Wait
    <2>1. Branch(notified) \in LoopPc \cup {"fault"}
      BY DEF Branch, LoopPc, EventPc
    <2> QED
      BY <1>10, <2>1 DEF Wait, TypeOK, AppPc
  <1>11. CASE Timeout \/ CallbackReturn
    BY <1>11 DEF Timeout, CallbackReturn, Goto, TypeOK, AppPc, LoopPc
  <1>12. CASE GetWaitingItem
    <2>1. waiting_list # <<>> => Head(waiting_list) \in Item /\ Tail(waiting_list) \in Seq(Item)
      BY TailFacts DEF TypeOK
    <2> QED
      BY <1>12, <2>1 DEF GetWaitingItem, TypeOK, LoopPc, EventPc
  <1>13. CASE ProcessEvent
    BY <1>13 DEF ProcessEvent, TypeOK, AppPc, LoopPc, EventPc
  <1>14. CASE ProcessOnce
    <2>1. item \in Item /\ object[item] \in Object /\ tree[object[item]] = item
      BY <1>14 DEF ProcessOnce, Goto, PcItem, Busy
    <2>2. waiting_list' \in Seq(Item)
      BY <1>14, <2>1, UnlinkedFacts DEF ProcessOnce, Disconnect
    <2>3. /\ object' \in [Item -> Object \cup {NULL}]
          /\ event' \in [Item -> EventWord]
          /\ owned' \in [Item -> BOOLEAN]
      BY <1>14, <2>1, FreeType DEF ProcessOnce, Release
    <2> QED
      BY <1>14, <2>1, <2>2, <2>3 DEF ProcessOnce, Disconnect, SetLink, Goto, TypeOK
  <1>15. CASE EventCallbackReturn
    BY <1>15 DEF EventCallbackReturn, StatusAfterCallback, Goto, TypeOK, LoopPc, EventPc
  <1>16. CASE Finish
    <2>1. item \in Item
      BY <1>16 DEF Finish, Goto, PcItem, Busy
    <2>2. waiting_list' \in Seq(Item) /\ notified' \in SUBSET Flag
      BY <1>16, <2>1, EnqueuedFacts DEF Finish, ItemNotify, TypeOK, Flag
    <2>3. /\ object' \in [Item -> Object \cup {NULL}]
          /\ event' \in [Item -> EventWord]
          /\ owned' \in [Item -> BOOLEAN]
      BY <1>16, <2>1, FreeType DEF Finish
    <2> QED
      BY <1>16, <2>2, <2>3 DEF Finish, Goto, TypeOK, LoopPc, EventPc
  <1>17. CASE SyncFlags \/ RestoreFlags \/ ProcessTimerQueue
    <2>1. CASE SyncFlags
      BY <2>1 DEF SyncFlags, Resynced, Goto, TypeOK, Flag, LoopPc
    <2>2. CASE RestoreFlags
      BY <2>2 DEF RestoreFlags, Restored, Goto, TypeOK, LoopPc
    <2>3. CASE ProcessTimerQueue
      BY <2>3 DEF ProcessTimerQueue, Restored, Goto, TypeOK, LoopPc
    <2> QED
      BY <1>17, <2>1, <2>2, <2>3
  <1>18. CASE ProcessPending \/ ProcessThreadFlag
    BY <1>18 DEF ProcessPending, ProcessThreadFlag, TypeOK, AppPc, LoopPc
  <1>19. CASE PendingCallbackReturn
    BY <1>19 DEF PendingCallbackReturn, Popped, Goto, PcFlags, TypeOK, LoopPc
  <1>20. CASE UNCHANGED vars
    BY <1>20 DEF vars, TypeOK
  <1> QED
    BY <1>1, <1>2, <1>3, <1>4, <1>5, <1>6, <1>7, <1>8, <1>9, <1>10, <1>11, <1>12, <1>13,
       <1>14, <1>15, <1>16, <1>17, <1>18, <1>19, <1>20
       DEF Next, OtherThread, Application, Loop

-----------------------------------------------------------------------------
\* The items, the links, the waiting list and the levels.

\* Steps of the loop's thread that only move pc outside the processing of an item.
LEMMA FrameMove ==
    ASSUME TypeOK, Struct,
           UNCHANGED <<work, waiting_list, items, links, level, notifying, direction>>,
           pc \notin Busy \cup {"fault"}, pc' \notin Busy,
           pc' \in {"none", "alloc"} => waiting_list = <<>> /\ \A o \in Object : tree[o] = NULL
    PROVE  Struct'
  <1> USE DEF Struct, work, items, links
  <1>1. LinksLive'
    BY DEF LinksLive, Link, allocated
  <1>2. WaitingLive'
    BY DEF WaitingLive, allocated
  <1>3. item = NULL /\ current_item = NULL
    BY DEF PcItem, Busy
  <1>4. ItemsFreedOnce'
    BY <1>3, NullFresh DEF ItemsFreedOnce, allocated, Busy, TypeOK
  <1>5. PcItem'
    BY <1>3 DEF PcItem, Busy
  <1>6. ASSUME NEW o \in Object, tree[o] # NULL, Served(tree[o]) PROVE Served(tree[o])'
    BY <1>6, <1>3 DEF Served, IsWaiting, Busy
  <1>7. LevelNotMissed'
    BY <1>6 DEF LevelNotMissed, ItemLevel, Level, Busy
  <1> QED
    BY <1>1, <1>2, <1>4, <1>5, <1>7

\* Steps that change neither pc nor anything Struct speaks of.
LEMMA FrameSame ==
    ASSUME Struct,
           UNCHANGED <<pc, work, waiting_list, items, links, level, notifying, direction>>
    PROVE  Struct'
  <1> USE DEF Struct, work, items, links
  <1>1. LinksLive' /\ WaitingLive'
    BY DEF LinksLive, WaitingLive, Link, allocated
  <1>2. ItemsFreedOnce' /\ PcItem'
    BY DEF ItemsFreedOnce, PcItem, allocated
  <1>3. LevelNotMissed'
    BY DEF LevelNotMissed, Served, IsWaiting, ItemLevel, Level
  <1> QED
    BY <1>1, <1>2, <1>3

\* The part of Struct that notifying a link can disturb, and that it only adds
\* to the waiting list, and adds the item of the link.
LEMMA NotifyStruct ==
    ASSUME TypeOK, Struct, NEW o \in Object, NEW d \in {"in", "out"},
           LinkNotify(o, d), UNCHANGED <<pc, work, items, links>>
    PROVE  /\ LinksLive' /\ WaitingLive' /\ ItemsFreedOnce' /\ PcItem'
           /\ \A i \in Item : IsWaiting(i) => IsWaiting(i)'
           /\ tree[o] # NULL /\ event[tree[o]].dir = d => IsWaiting(tree[o])'
           /\ waiting_list' # <<>> => waiting_list' = waiting_list \/ "Event" \in notified'
           /\ notified \subseteq notified'
           /\ notified' \subseteq notified \cup {"Event"}
  <1> USE DEF Struct, work, items, links
  <1>1. LinksLive'
    BY DEF LinksLive, Link, allocated
  <1>2. CASE Link(o, d) = NULL
    <2>1. waiting_list' = waiting_list /\ notified' = notified
      BY <1>2 DEF LinkNotify
    <2>2. WaitingLive' /\ ItemsFreedOnce' /\ PcItem'
      BY <2>1 DEF WaitingLive, ItemsFreedOnce, PcItem, allocated
    <2>3. tree[o] # NULL => event[tree[o]].dir # d
      BY <1>2, LinkFacts
    <2> QED
      BY <1>1, <2>1, <2>2, <2>3 DEF IsWaiting
  <1>3. CASE Link(o, d) # NULL
    <2>1. /\ Link(o, d) = tree[o] /\ tree[o] \in Item /\ tree[o] \in allocated
          /\ object[tree[o]] = o
      BY <1>3, LinkFacts DEF LinksLive
    <2>2. waiting_list' = Enqueued(tree[o]) /\ notified' = notified \cup {"Event"}
      BY <1>3, <2>1 DEF LinkNotify, ItemNotify
    <2>3. /\ ToSet(waiting_list') = ToSet(waiting_list) \cup {tree[o]}
          /\ IsInjective(waiting_list')
      BY <2>1, <2>2, EnqueuedFacts
    <2>4. WaitingLive'
      BY <2>1, <2>3 DEF WaitingLive, allocated
    <2>5. ItemsFreedOnce'
      BY DEF ItemsFreedOnce, allocated
    <2>6. pc \notin {"none", "alloc"}
      BY <1>3, <2>1, NullFresh DEF PcItem
    <2>7. PcItem'
      BY <2>6 DEF PcItem
    <2>8. \A i \in Item : (IsWaiting(i) => IsWaiting(i)') /\ (i = tree[o] => IsWaiting(i)')
      BY <2>3 DEF IsWaiting
    <2> QED
      BY <1>1, <2>1, <2>2, <2>4, <2>5, <2>7, <2>8
  <1> QED
    BY <1>2, <1>3

\* A level that another thread changes is paid for by that thread's notification.
LEMMA ChangedStruct ==
    ASSUME TypeOK, Struct, NEW t \in Thread, NEW o \in Object,
           ThreadPut(t, o) \/ ThreadGet(t, o)
    PROVE  Struct'
  <1> USE DEF Struct, work, items, links
  <1>1. PICK d \in {"in", "out"}, by \in {1, -1} :
            Changed(t, o, d, by) /\ (d = "in" <=> by = 1)
    BY DEF ThreadPut, ThreadGet
  <1>2. LinksLive' /\ WaitingLive' /\ ItemsFreedOnce' /\ PcItem'
    BY <1>1 DEF Changed, LinksLive, WaitingLive, ItemsFreedOnce, PcItem, Link, allocated
  <1>3. LevelNotMissed'
    <2> SUFFICES ASSUME NEW q \in Object, tree[q] # NULL, ~event[tree[q]].edge,
                        ItemLevel(tree[q])' > 0, pc # "fault"
                 PROVE  Served(tree[q])'
      BY <1>1 DEF LevelNotMissed, Changed
    <2> DEFINE i == tree[q]
    <2>1. i \in Item /\ object[i] = q /\ event[i].dir \in {"in", "out"}
      BY LinkFacts
    <2>2. CASE q = o /\ event[i].dir = d
      <3>1. notifying'[t] = o /\ direction'[t] = d
        BY <1>1 DEF Changed, TypeOK
      <3> QED
        BY <1>1, <2>1, <2>2, <3>1 DEF Served, Changed
    <2>3. CASE ~(q = o /\ event[i].dir = d)
      <3>1. ItemLevel(i) > 0
        <4>1. ItemLevel(i)' = IF event[i].dir = "in" THEN level'[q] ELSE Capacity - level'[q]
          BY <1>1, <2>1 DEF ItemLevel, Level, Changed
        <4>2. ItemLevel(i) = IF event[i].dir = "in" THEN level[q] ELSE Capacity - level[q]
          BY <2>1 DEF ItemLevel, Level
        <4>3. level[q] \in 0..Capacity /\ level'[q] = IF q = o THEN level[q] + by ELSE level[q]
          BY <1>1 DEF Changed, TypeOK
        <4> QED
          BY <1>1, <2>1, <2>3, <4>1, <4>2, <4>3, BoundsType
      <3>2. Served(i)
        BY <3>1 DEF LevelNotMissed
      <3>3. \A u \in Thread : notifying[u] = q => notifying'[u] = q /\ direction'[u] = direction[u]
        BY <1>1, NullFresh DEF Changed, TypeOK
      <3> QED
        BY <1>1, <2>1, <3>2, <3>3 DEF Served, Changed, IsWaiting
    <2> QED
      BY <2>2, <2>3
  <1> QED
    BY <1>2, <1>3

\* The notification that was owed puts the item in the waiting list.
LEMMA ThreadNotifyStruct ==
    ASSUME TypeOK, Struct, NEW t \in Thread, ThreadNotify(t)
    PROVE  Struct'
  <1> USE DEF Struct, work, items, links
  <1>1. PICK o \in Object, d \in {"in", "out"} :
            notifying[t] = o /\ direction[t] = d /\ LinkNotify(o, d)
    BY DEF ThreadNotify, TypeOK
  <1>2. UNCHANGED <<pc, work, items, links, level>>
    BY DEF ThreadNotify
  <1>3. /\ LinksLive' /\ WaitingLive' /\ ItemsFreedOnce' /\ PcItem'
        /\ \A i \in Item : IsWaiting(i) => IsWaiting(i)'
        /\ tree[o] # NULL /\ event[tree[o]].dir = d => IsWaiting(tree[o])'
    BY <1>1, <1>2, NotifyStruct
  <1>4. LevelNotMissed'
    <2> SUFFICES ASSUME NEW q \in Object, tree[q] # NULL, Served(tree[q])
                 PROVE  Served(tree[q])'
      BY <1>2 DEF LevelNotMissed, ItemLevel, Level
    <2>1. tree[q] \in Item /\ object[tree[q]] = q
      BY LinkFacts
    <2>2. CASE q = o /\ event[tree[q]].dir = d
      BY <1>2, <1>3, <2>2 DEF Served
    <2>3. CASE ~(q = o /\ event[tree[q]].dir = d)
      <3>1. \A u \in Thread : notifying[u] = q /\ direction[u] = event[tree[q]].dir =>
                notifying'[u] = q /\ direction'[u] = direction[u]
        BY <1>1, <2>3 DEF ThreadNotify, TypeOK
      <3> QED
        BY <1>2, <1>3, <2>1, <3>1 DEF Served
    <2> QED
      BY <2>2, <2>3
  <1> QED
    BY <1>3, <1>4

\* A put or get of the loop's own thread.
LEMMA AppChangedStruct ==
    ASSUME TypeOK, Struct, NEW o \in Object, AppPut(o) \/ AppGet(o)
    PROVE  Struct'
  <1> USE DEF Struct, work, items, links
  <1>1. PICK d \in {"in", "out"}, by \in {1, -1} :
            AppChanged(o, d, by) /\ (d = "in" <=> by = 1)
    BY DEF AppPut, AppGet
  <1>2. /\ LinksLive' /\ WaitingLive' /\ ItemsFreedOnce' /\ PcItem'
        /\ \A i \in Item : IsWaiting(i) => IsWaiting(i)'
        /\ tree[o] # NULL /\ event[tree[o]].dir = d => IsWaiting(tree[o])'
    BY <1>1, NotifyStruct DEF AppChanged
  <1>3. LevelNotMissed'
    <2> SUFFICES ASSUME NEW q \in Object, tree[q] # NULL, ~event[tree[q]].edge,
                        ItemLevel(tree[q])' > 0, pc # "fault"
                 PROVE  Served(tree[q])'
      BY <1>1 DEF LevelNotMissed, AppChanged
    <2> DEFINE i == tree[q]
    <2>1. i \in Item /\ object[i] = q /\ event[i].dir \in {"in", "out"}
      BY LinkFacts
    <2>2. CASE q = o /\ event[i].dir = d
      BY <1>2, <2>2 DEF Served
    <2>3. CASE ~(q = o /\ event[i].dir = d)
      <3>1. ItemLevel(i) > 0
        <4>1. ItemLevel(i)' = IF event[i].dir = "in" THEN level'[q] ELSE Capacity - level'[q]
          BY <1>1, <2>1 DEF ItemLevel, Level, AppChanged
        <4>2. ItemLevel(i) = IF event[i].dir = "in" THEN level[q] ELSE Capacity - level[q]
          BY <2>1 DEF ItemLevel, Level
        <4>3. level[q] \in 0..Capacity /\ level'[q] = IF q = o THEN level[q] + by ELSE level[q]
          BY <1>1 DEF AppChanged, TypeOK
        <4> QED
          BY <1>1, <2>1, <2>3, <4>1, <4>2, <4>3, BoundsType
      <3>2. Served(i)
        BY <3>1 DEF LevelNotMissed
      <3> QED
        BY <1>1, <1>2, <2>1, <3>2 DEF Served, AppChanged
    <2> QED
      BY <2>2, <2>3
  <1> QED
    BY <1>2, <1>3

\* A subscription into memory that is free disturbs no other subscription, and
\* enqueues its item when the object is ready.
LEMMA SubscribeStruct ==
    ASSUME TypeOK, Struct, NEW o \in Object, NEW e \in Events[o],
           NEW i \in Item \ allocated, Subscribe(o, e, i)
    PROVE  Struct'
  <1> USE DEF Struct, work, items, links
  <1>1. e \in EventWord /\ e.dir \in {"in", "out"}
    BY EventsType DEF EventWord
  <1>2. i \in Item /\ object[i] = NULL /\ i # NULL /\ i \notin ToSet(waiting_list)
    BY NullFresh DEF allocated, WaitingLive
  <1>3. /\ object'[i] = o /\ event'[i] = e /\ owned'[i] = TRUE
        /\ \A j \in Item \ {i} : /\ object'[j] = object[j]
                                 /\ event'[j] = event[j]
                                 /\ owned'[j] = owned[j]
    BY <1>2 DEF Subscribe, TypeOK
  <1>4. tree[o] = NULL /\ tree'[o] = i /\ \A q \in Object \ {o} : tree'[q] = tree[q]
    BY DEF Subscribe, TypeOK
  <1>5. \A q \in Object : tree[q] # NULL => tree[q] \in Item \ {i} /\ tree[q] \in allocated
    BY <1>2, NullFresh, LinkFacts DEF LinksLive
  <1>6. allocated' = allocated \cup {i}
    BY <1>2, <1>3, NullFresh DEF allocated
  <1>7. item_in[o] = NULL /\ item_out[o] = NULL
    BY <1>4, LinkFacts, NullFresh DEF Link
  <1>8. /\ item_in'[o] = IF e.dir = "in" THEN i ELSE NULL
        /\ item_out'[o] = IF e.dir = "out" THEN i ELSE NULL
        /\ \A q \in Object \ {o} : item_in'[q] = item_in[q] /\ item_out'[q] = item_out[q]
    BY <1>1, <1>7 DEF Subscribe, SetLink, TypeOK
  <1>9. LinksLive'
    <2> SUFFICES ASSUME NEW q \in Object
                 PROVE  /\ item_in'[q] # NULL =>
                               item_in'[q] = tree'[q] /\ event'[tree'[q]].dir = "in"
                        /\ item_out'[q] # NULL =>
                               item_out'[q] = tree'[q] /\ event'[tree'[q]].dir = "out"
                        /\ tree'[q] # NULL =>
                             /\ tree'[q] \in allocated'
                             /\ owned'[tree'[q]]
                             /\ object'[tree'[q]] = q
                             /\ IF event'[tree'[q]].dir = "in" THEN item_in'[q] = tree'[q]
                                                               ELSE item_out'[q] = tree'[q]
      BY DEF LinksLive, Link
    <2>1. CASE q = o
      BY <1>1, <1>3, <1>4, <1>6, <1>8, <2>1
    <2>2. CASE q # o
      <3>1. tree'[q] = tree[q] /\ item_in'[q] = item_in[q] /\ item_out'[q] = item_out[q]
        BY <1>4, <1>8, <2>2
      <3>2. CASE tree[q] = NULL
        BY <3>1, <3>2, LinkFacts DEF Link
      <3>3. CASE tree[q] # NULL
        <4>1. /\ tree[q] \in allocated' /\ event'[tree[q]] = event[tree[q]]
              /\ owned'[tree[q]] = owned[tree[q]] /\ object'[tree[q]] = object[tree[q]]
          BY <1>3, <1>5, <1>6, <3>3
        <4> QED
          BY <3>1, <3>3, <4>1, LinkFacts DEF Link
      <3> QED
        BY <3>2, <3>3
    <2> QED
      BY <2>1, <2>2
  <1>10. /\ ToSet(waiting_list) \subseteq ToSet(waiting_list')
         /\ ToSet(waiting_list') \subseteq ToSet(waiting_list) \cup {i}
         /\ IsInjective(waiting_list')
         /\ ~e.edge /\ Level(o, e.dir) > 0 => i \in ToSet(waiting_list')
    BY <1>2, EnqueuedFacts DEF Subscribe, ItemNotify, WaitingLive
  <1>11. WaitingLive'
    <2>1. ASSUME NEW j \in ToSet(waiting_list') PROVE j \in allocated' /\ tree'[object'[j]] = j
      <3>1. CASE j = i
        BY <1>3, <1>4, <1>6, <3>1
      <3>2. CASE j # i
        <4>1. j \in ToSet(waiting_list) /\ j \in allocated /\ tree[object[j]] = j
          BY <1>10, <3>2 DEF WaitingLive
        <4>2. j \in Item /\ object[j] \in Object /\ object[j] # o
          BY <1>2, <1>4, <4>1, NullFresh DEF allocated, TypeOK
        <4> QED
          BY <1>3, <1>4, <1>6, <3>2, <4>1, <4>2
      <3> QED
        BY <3>1, <3>2
    <2> QED
      BY <1>10, <2>1 DEF WaitingLive
  <1>12. pc \in AppPc /\ UNCHANGED <<pc, item, status, current_item, level, notifying, direction>>
    BY DEF Subscribe, InApp, env
  <1>13. ItemsFreedOnce'
    <2>1. pc \in Busy => item \in allocated'
      BY <1>6 DEF ItemsFreedOnce, Busy
    <2>2. ASSUME NEW j \in allocated'
          PROVE  \/ tree'[object'[j]] = j
                 \/ j = item /\ ~owned'[j] /\ (pc = "finish" => status = "FreeLater")
      <3>1. CASE j = i
        BY <1>3, <1>4, <3>1
      <3>2. CASE j # i
        <4>1. j \in allocated /\ j \in Item /\ object[j] \in Object
          BY <1>6, <3>2 DEF allocated, TypeOK
        <4>2. /\ object'[j] = object[j] /\ owned'[j] = owned[j]
              /\ \/ tree[object[j]] = j
                 \/ j = item /\ ~owned[j] /\ (pc = "finish" => status = "FreeLater")
          BY <1>3, <3>2, <4>1 DEF ItemsFreedOnce
        <4>3. tree[object[j]] = j => object[j] # o
          BY <1>4, <4>1, NullFresh
        <4> QED
          BY <1>4, <4>1, <4>2, <4>3
      <3> QED
        BY <3>1, <3>2
    <2> QED
      BY <1>12, <2>1, <2>2 DEF ItemsFreedOnce, Busy
  <1>14. PcItem'
    <2>1. pc \in Busy => pc = "event_cb"
      BY <1>12 DEF AppPc, Busy
    <2>2. pc \in Busy => item \in Item /\ object'[item] \in Object
      BY <1>3 DEF PcItem
    <2>3. pc \notin {"none", "alloc"} /\ pc # "finish" /\ pc # "process"
      BY <1>12 DEF AppPc
    <2> QED
      BY <1>12, <2>2, <2>3 DEF PcItem
  <1>15. LevelNotMissed'
    <2> SUFFICES ASSUME NEW q \in Object, tree'[q] # NULL, ~event'[tree'[q]].edge,
                        ItemLevel(tree[q])' > 0, pc # "fault"
                 PROVE  Served(tree[q])'
      BY <1>12 DEF LevelNotMissed
    <2>1. CASE q = o
      <3>1. ItemLevel(tree[q])' = Level(o, e.dir)
        BY <1>3, <1>4, <1>12, <2>1 DEF ItemLevel, Level
      <3> QED
        BY <1>3, <1>4, <1>10, <2>1, <3>1 DEF Served, IsWaiting
    <2>2. CASE q # o
      <3>1. /\ tree'[q] = tree[q] /\ tree[q] \in Item \ {i}
            /\ object'[tree[q]] = object[tree[q]] /\ event'[tree[q]] = event[tree[q]]
        BY <1>3, <1>4, <1>5, <2>2
      <3>2. ItemLevel(tree[q])' = ItemLevel(tree[q])
        BY <1>12, <3>1 DEF ItemLevel, Level
      <3>3. Served(tree[q])
        BY <3>1, <3>2 DEF LevelNotMissed
      <3> QED
        BY <1>10, <1>12, <3>1, <3>3 DEF Served, IsWaiting
    <2> QED
      BY <2>1, <2>2
  <1> QED
    BY <1>9, <1>11, <1>13, <1>14, <1>15

\* Taking an item out of the tree, the link and the waiting list, and freeing it
\* now or later, leaves the other subscriptions alone.
LEMMA DisconnectStruct ==
    ASSUME TypeOK, LinksLive, WaitingLive, NEW o \in Object, NEW i \in Item, tree[o] = i,
           Disconnect(o), ItemFree(i) \/ ItemFreeLater(i)
    PROVE  /\ LinksLive' /\ WaitingLive'
           /\ tree'[o] = NULL /\ \A q \in Object \ {o} : tree'[q] = tree[q]
           /\ \A j \in Item \ {i} : /\ object'[j] = object[j]
                                    /\ event'[j] = event[j]
                                    /\ owned'[j] = owned[j]
           /\ owned'[i] = FALSE
           /\ \A q \in Object : tree'[q] # NULL => tree'[q] \in Item \ {i}
           /\ \A j \in Item : object[j] # o /\ IsWaiting(j) => IsWaiting(j)'
           /\ waiting_list = <<>> => waiting_list' = <<>>
  <1>1. /\ i # NULL /\ object[i] = o /\ event[i].dir \in {"in", "out"}
        /\ i \in allocated /\ Link(o, event[i].dir) = i
    BY NullFresh, LinkFacts DEF LinksLive
  <1>2. /\ \A j \in Item \ {i} : /\ object'[j] = object[j]
                                 /\ event'[j] = event[j]
                                 /\ owned'[j] = owned[j]
        /\ owned'[i] = FALSE
    <2>1. CASE ItemFree(i)
      BY <2>1 DEF ItemFree, TypeOK
    <2>2. CASE ItemFreeLater(i)
      BY <2>2 DEF ItemFreeLater, TypeOK
    <2> QED
      BY <2>1, <2>2
  <1>3. tree'[o] = NULL /\ \A q \in Object \ {o} : tree'[q] = tree[q]
    BY DEF Disconnect, TypeOK
  <1>4. /\ ToSet(waiting_list') = ToSet(waiting_list) \ {i}
        /\ IsInjective(waiting_list')
        /\ waiting_list = <<>> => waiting_list' = <<>>
    BY UnlinkedFacts DEF Disconnect
  <1>5. /\ item_in'[o] = NULL /\ item_out'[o] = NULL
        /\ \A q \in Object \ {o} : item_in'[q] = item_in[q] /\ item_out'[q] = item_out[q]
    <2>1. SetLink(o, event[i].dir, NULL)
      BY DEF Disconnect
    <2>2. IF event[i].dir = "in" THEN item_out[o] = NULL ELSE item_in[o] = NULL
      BY <1>1, LinkFacts DEF Link
    <2> QED
      BY <1>1, <2>1, <2>2 DEF SetLink, TypeOK
  <1>6. \A q \in Object \ {o} : tree[q] # NULL => tree[q] \in Item \ {i}
    BY <1>1, LinkFacts
  <1>7. LinksLive'
    <2> SUFFICES ASSUME NEW q \in Object
                 PROVE  /\ item_in'[q] # NULL =>
                               item_in'[q] = tree'[q] /\ event'[tree'[q]].dir = "in"
                        /\ item_out'[q] # NULL =>
                               item_out'[q] = tree'[q] /\ event'[tree'[q]].dir = "out"
                        /\ tree'[q] # NULL =>
                             /\ tree'[q] \in allocated'
                             /\ owned'[tree'[q]]
                             /\ object'[tree'[q]] = q
                             /\ IF event'[tree'[q]].dir = "in" THEN item_in'[q] = tree'[q]
                                                               ELSE item_out'[q] = tree'[q]
      BY DEF LinksLive, Link
    <2>1. CASE q = o
      BY <1>3, <1>5, <2>1
    <2>2. CASE q # o
      <3>1. tree'[q] = tree[q] /\ item_in'[q] = item_in[q] /\ item_out'[q] = item_out[q]
        BY <1>3, <1>5, <2>2
      <3>2. CASE tree[q] = NULL
        BY <3>1, <3>2, LinkFacts DEF Link
      <3>3. CASE tree[q] # NULL
        <4>1. /\ event'[tree[q]] = event[tree[q]] /\ owned'[tree[q]] = owned[tree[q]]
              /\ object'[tree[q]] = object[tree[q]] /\ tree[q] \in Item
          BY <1>2, <1>6, <2>2, <3>3
        <4>2. tree[q] \in allocated'
          BY <3>3, <4>1, LinkFacts, NullFresh DEF allocated
        <4> QED
          BY <3>1, <3>3, <4>1, <4>2, LinkFacts DEF Link
      <3> QED
        BY <3>2, <3>3
    <2> QED
      BY <2>1, <2>2
  <1>8. WaitingLive'
    <2>1. ASSUME NEW j \in ToSet(waiting_list') PROVE j \in allocated' /\ tree'[object'[j]] = j
      <3>1. j \in Item \ {i} /\ object[j] \in Object /\ tree[object[j]] = j
        BY <1>4 DEF WaitingLive, allocated, TypeOK
      <3>2. object'[j] = object[j] /\ object[j] # o
        BY <1>2, <3>1
      <3> QED
        BY <1>3, <3>1, <3>2, NullFresh DEF allocated
    <2> QED
      BY <1>4, <2>1 DEF WaitingLive
  <1>9. \A j \in Item : object[j] # o /\ IsWaiting(j) => IsWaiting(j)'
    BY <1>1, <1>4 DEF IsWaiting
  <1> QED
    BY <1>2, <1>3, <1>4, <1>6, <1>7, <1>8, <1>9

\* furi_event_loop_unsubscribe, also of the item whose callback is running.
LEMMA UnsubscribeStruct ==
    ASSUME TypeOK, Struct, NEW o \in Object, Unsubscribe(o)
    PROVE  Struct'
  <1> USE DEF Struct, work, items, links
  <1>1. PICK i \in Item : tree[o] = i
    BY DEF Unsubscribe, TypeOK
  <1>2. i # NULL /\ object[i] = o
    BY <1>1, NullFresh, LinkFacts
  <1>3. Disconnect(o) /\ IF current_item = i THEN ItemFreeLater(i) ELSE ItemFree(i)
    BY <1>1 DEF Unsubscribe, Release
  <1>4. /\ LinksLive' /\ WaitingLive'
        /\ tree'[o] = NULL /\ \A q \in Object \ {o} : tree'[q] = tree[q]
        /\ \A j \in Item \ {i} : /\ object'[j] = object[j]
                                 /\ event'[j] = event[j]
                                 /\ owned'[j] = owned[j]
        /\ owned'[i] = FALSE
        /\ \A q \in Object : tree'[q] # NULL => tree'[q] \in Item \ {i}
        /\ \A j \in Item : object[j] # o /\ IsWaiting(j) => IsWaiting(j)'
    BY <1>1, <1>3, DisconnectStruct
  <1>5. /\ pc \in AppPc
        /\ UNCHANGED <<pc, item, status, current_item, level, notifying, direction>>
    BY DEF Unsubscribe, InApp, env
  <1>6. object'[i] = IF current_item = i THEN o ELSE NULL
    BY <1>2, <1>3 DEF ItemFree, ItemFreeLater, TypeOK
  <1>7. current_item = i => pc = "event_cb" /\ item = i
    BY <1>2, <1>5 DEF PcItem, AppPc
  <1>8. pc \in Busy => item \in Item /\ object'[item] \in Object
    <2> SUFFICES ASSUME pc \in Busy PROVE item \in Item /\ object'[item] \in Object
      OBVIOUS
    <2>1. item \in Item /\ object[item] \in Object /\ current_item = item
      BY <1>5 DEF PcItem, Busy, AppPc
    <2> QED
      BY <1>4, <1>6, <2>1
  <1>9. ItemsFreedOnce'
    <2>1. pc \in Busy => item \in allocated'
      BY <1>8, NullFresh DEF allocated
    <2>2. ASSUME NEW j \in allocated'
          PROVE  \/ tree'[object'[j]] = j
                 \/ j = item /\ ~owned'[j] /\ (pc = "finish" => status = "FreeLater")
      <3>1. CASE j = i
        BY <1>4, <1>5, <1>6, <1>7, <3>1 DEF allocated, AppPc
      <3>2. CASE j # i
        <4>1. /\ j \in allocated /\ j \in Item /\ object[j] \in Object
              /\ object'[j] = object[j] /\ owned'[j] = owned[j]
          BY <1>4, <3>2 DEF allocated, TypeOK
        <4>2. \/ tree[object[j]] = j
              \/ j = item /\ ~owned[j] /\ (pc = "finish" => status = "FreeLater")
          BY <4>1 DEF ItemsFreedOnce
        <4>3. tree[object[j]] = j => object[j] # o
          BY <1>1, <3>2
        <4> QED
          BY <1>4, <4>1, <4>2, <4>3
      <3> QED
        BY <3>1, <3>2
    <2> QED
      BY <1>5, <2>1, <2>2 DEF ItemsFreedOnce, Busy
  <1>10. PcItem'
    <2>1. pc \notin {"none", "alloc"} /\ pc # "finish" /\ pc # "process"
      BY <1>5 DEF AppPc
    <2> QED
      BY <1>5, <1>8, <2>1 DEF PcItem
  <1>11. LevelNotMissed'
    <2> SUFFICES ASSUME NEW q \in Object, tree'[q] # NULL, ~event'[tree'[q]].edge,
                        ItemLevel(tree[q])' > 0, pc # "fault"
                 PROVE  Served(tree[q])'
      BY <1>5 DEF LevelNotMissed
    <2>1. q # o /\ tree'[q] = tree[q] /\ tree[q] \in Item \ {i} /\ object[tree[q]] = q
      BY <1>4, LinkFacts
    <2>2. object'[tree[q]] = object[tree[q]] /\ event'[tree[q]] = event[tree[q]]
      BY <1>4, <2>1
    <2>3. ItemLevel(tree[q])' = ItemLevel(tree[q])
      BY <1>5, <2>1, <2>2 DEF ItemLevel, Level
    <2>4. Served(tree[q])
      BY <2>1, <2>2, <2>3 DEF LevelNotMissed
    <2>5. IsWaiting(tree[q]) => tree[q] \in ToSet(waiting_list')
      BY <1>4, <2>1 DEF IsWaiting
    <2> QED
      BY <1>5, <2>1, <2>2, <2>4, <2>5 DEF Served, IsWaiting
  <1> QED
    BY <1>4, <1>9, <1>10, <1>11

\* The two steps that bring the device down.
LEMMA FaultStruct ==
    ASSUME TypeOK, Struct,
           \/ \E o \in Object : \E e \in Events[o] : SubscribeSecond(o, e)
           \/ ProcessOnce
    PROVE  Struct'
  <1> USE DEF Struct, work, items, links
  <1>1. ASSUME NEW o \in Object, NEW e \in Events[o], SubscribeSecond(o, e) PROVE Struct'
    <2>1. LinksLive' /\ WaitingLive'
      BY <1>1 DEF SubscribeSecond, LinksLive, WaitingLive, Link, allocated
    <2>2. pc \in AppPc /\ pc' = "fault"
      BY <1>1 DEF SubscribeSecond, InApp
    <2>3. ItemsFreedOnce'
      BY <1>1, <2>2 DEF SubscribeSecond, ItemsFreedOnce, allocated, AppPc
    <2> QED
      BY <2>1, <2>2, <2>3 DEF PcItem, LevelNotMissed, Busy
  <1>2. ASSUME ProcessOnce PROVE Struct'
    <2>1. PICK i \in Item, o \in Object : item = i /\ object[i] = o /\ tree[o] = i
      BY <1>2 DEF ProcessOnce, Goto, PcItem, Busy
    <2>2. Disconnect(o) /\ ItemFree(i)
      BY <1>2, <2>1, NullFresh DEF ProcessOnce, Release, Goto, PcItem
    <2>3. /\ LinksLive' /\ WaitingLive'
          /\ tree'[o] = NULL /\ \A q \in Object \ {o} : tree'[q] = tree[q]
          /\ \A j \in Item \ {i} : /\ object'[j] = object[j]
                                   /\ event'[j] = event[j]
                                   /\ owned'[j] = owned[j]
      BY <2>1, <2>2, DisconnectStruct
    <2>4. pc' = "fault" /\ object'[i] = NULL
      BY <1>2, <2>2 DEF ProcessOnce, Goto, ItemFree, TypeOK
    <2>5. ASSUME NEW j \in allocated' PROVE tree'[object'[j]] = j
      <3>1. /\ j \in Item \ {i} /\ j \in allocated /\ object[j] \in Object
            /\ object'[j] = object[j]
        BY <2>3, <2>4 DEF allocated, TypeOK
      <3>2. tree[object[j]] = j
        BY <2>1, <3>1 DEF ItemsFreedOnce
      <3> QED
        BY <2>1, <2>3, <3>1, <3>2
    <2>6. ItemsFreedOnce'
      BY <2>4, <2>5 DEF ItemsFreedOnce
    <2> QED
      BY <2>3, <2>4, <2>6 DEF PcItem, LevelNotMissed, Busy
  <1> QED
    BY <1>1, <1>2

\* The first item of the waiting list becomes the one being processed.
LEMMA GetWaitingItemStruct ==
    ASSUME TypeOK, Struct, GetWaitingItem
    PROVE  Struct'
  <1> USE DEF Struct, work, items, links
  <1>1. CASE waiting_list = <<>>
    <2>1. UNCHANGED <<work, waiting_list, items, links, level, notifying, direction>>
      BY <1>1 DEF GetWaitingItem, env
    <2>2. pc = "event" /\ pc' = "restore"
      BY <1>1 DEF GetWaitingItem
    <2> QED
      BY <2>1, <2>2, FrameMove DEF Busy
  <1>2. CASE waiting_list # <<>>
    <2>1. PICK i \in Item :
             /\ item' = i /\ waiting_list' = Tail(waiting_list)
             /\ ToSet(waiting_list) = ToSet(waiting_list') \cup {i}
             /\ i \notin ToSet(waiting_list')
             /\ IsInjective(waiting_list')
      <3>1. /\ Head(waiting_list) \in Item
            /\ ToSet(waiting_list) = ToSet(Tail(waiting_list)) \cup {Head(waiting_list)}
            /\ Head(waiting_list) \notin ToSet(Tail(waiting_list))
            /\ IsInjective(Tail(waiting_list))
        BY <1>2, TailFacts DEF TypeOK, WaitingLive
      <3> QED
        BY <1>2, <3>1 DEF GetWaitingItem
    <2>2. /\ pc = "event" /\ pc' = "process"
          /\ UNCHANGED <<status, current_item, items, links, level, notifying, direction>>
      BY <1>2 DEF GetWaitingItem, env
    <2>3. i \in allocated /\ object[i] \in Object /\ tree[object[i]] = i
      BY <2>1 DEF WaitingLive, allocated, TypeOK
    <2>4. item = NULL /\ current_item = NULL
      BY <2>2 DEF PcItem, Busy
    <2>5. LinksLive'
      BY <2>2 DEF LinksLive, Link, allocated
    <2>6. WaitingLive'
      BY <2>1, <2>2 DEF WaitingLive, allocated
    <2>7. ItemsFreedOnce'
      <3>1. \A j \in allocated : tree[object[j]] = j
        BY <2>4, NullFresh DEF ItemsFreedOnce, allocated
      <3> QED
        BY <2>1, <2>2, <2>3, <3>1 DEF ItemsFreedOnce, allocated
    <2>8. PcItem'
      BY <2>1, <2>2, <2>3, <2>4 DEF PcItem, Busy
    <2>9. ASSUME NEW o \in Object, tree[o] # NULL, Served(tree[o]) PROVE Served(tree[o])'
      <3>1. IsWaiting(tree[o]) => tree[o] \in ToSet(waiting_list') \/ tree[o] = i
        BY <2>1 DEF IsWaiting
      <3> QED
        BY <2>1, <2>2, <2>9, <3>1 DEF Served, IsWaiting
    <2>10. LevelNotMissed'
      BY <2>2, <2>9 DEF LevelNotMissed, ItemLevel, Level
    <2> QED
      BY <2>5, <2>6, <2>7, <2>8, <2>10
  <1> QED
    BY <1>1, <1>2

\* The look at the level before the callback.
LEMMA ProcessEventStruct ==
    ASSUME TypeOK, Struct, ProcessEvent
    PROVE  Struct'
  <1> USE DEF Struct, work, items, links
  <1>1. /\ pc = "process"
        /\ UNCHANGED <<item, waiting_list, items, links, level, notifying, direction>>
    BY DEF ProcessEvent, env
  <1>2. /\ item \in Item /\ object[item] \in Object /\ tree[object[item]] = item
        /\ item # NULL /\ owned[item]
    BY <1>1, LinkFacts, NullFresh DEF PcItem, Busy
  <1>3. \/ pc' = "event_cb" /\ current_item' = item
        \/ /\ pc' = "finish" /\ status' = "Complete" /\ current_item' = NULL
           /\ ~event[item].edge /\ ~(ItemLevel(item) > 0)
    BY <1>1 DEF ProcessEvent, PcItem
  <1>4. LinksLive' /\ WaitingLive'
    BY <1>1 DEF LinksLive, WaitingLive, Link, allocated
  <1>5. ItemsFreedOnce'
    <2>1. item \in allocated
      BY <1>1 DEF ItemsFreedOnce
    <2>2. \A j \in allocated : tree[object[j]] = j
      BY <1>2 DEF ItemsFreedOnce
    <2> QED
      BY <1>1, <2>1, <2>2 DEF ItemsFreedOnce, allocated
  <1>6. PcItem'
    BY <1>1, <1>2, <1>3 DEF PcItem, Busy
  <1>7. ASSUME NEW o \in Object, tree[o] # NULL, ~event[tree[o]].edge,
               ItemLevel(tree[o]) > 0, Served(tree[o])
        PROVE  Served(tree[o])'
    BY <1>1, <1>3, <1>7 DEF Served, IsWaiting
  <1>8. LevelNotMissed'
    BY <1>1, <1>7 DEF LevelNotMissed, ItemLevel, Level
  <1> QED
    BY <1>4, <1>5, <1>6, <1>8

\* The second look, after the callback.
LEMMA EventCallbackReturnStruct ==
    ASSUME TypeOK, Struct, EventCallbackReturn
    PROVE  Struct'
  <1> USE DEF Struct, work, items, links
  <1>1. /\ pc = "event_cb" /\ pc' = "finish" /\ current_item' = NULL
        /\ UNCHANGED <<item, waiting_list, items, links, level, notifying, direction>>
        /\ status' = StatusAfterCallback
    BY DEF EventCallbackReturn, Goto, env
  <1>2. item \in Item /\ object[item] \in Object /\ item # NULL
    BY <1>1, NullFresh DEF PcItem, Busy
  <1>3. /\ status' = "FreeLater" <=> ~owned[item]
        /\ owned[item] /\ ~event[item].edge /\ ItemLevel(item) > 0 => status' = "Incomplete"
    BY <1>1 DEF StatusAfterCallback
  <1>4. LinksLive' /\ WaitingLive'
    BY <1>1 DEF LinksLive, WaitingLive, Link, allocated
  <1>5. ItemsFreedOnce'
    <2>1. item \in allocated
      BY <1>1 DEF ItemsFreedOnce
    <2>2. \A j \in allocated : tree[object[j]] = j \/ (j = item /\ ~owned[j])
      BY DEF ItemsFreedOnce
    <2> QED
      BY <1>1, <1>3, <2>1, <2>2 DEF ItemsFreedOnce, allocated
  <1>6. PcItem'
    BY <1>1, <1>2, <1>3 DEF PcItem, Busy
  <1>7. ASSUME NEW o \in Object, tree[o] # NULL, ~event[tree[o]].edge,
               ItemLevel(tree[o]) > 0, Served(tree[o])
        PROVE  Served(tree[o])'
    <2>1. owned[tree[o]]
      BY <1>7, LinkFacts
    <2> QED
      BY <1>1, <1>3, <1>7, <2>1 DEF Served, IsWaiting
  <1>8. LevelNotMissed'
    BY <1>1, <1>7 DEF LevelNotMissed, ItemLevel, Level
  <1> QED
    BY <1>4, <1>5, <1>6, <1>8

\* The end of the processing of an item: back into the list, freed, or neither.
LEMMA FinishStruct ==
    ASSUME TypeOK, Struct, Finish
    PROVE  Struct'
  <1> USE DEF Struct, work, items, links
  <1>1. /\ pc = "finish" /\ pc' = "sync" /\ item' = NULL
        /\ UNCHANGED <<current_item, links, level, notifying, direction>>
    BY DEF Finish, Goto, env
  <1>2. PICK i \in Item : item = i /\ i \in allocated /\ object[i] \in Object /\ i # NULL
    BY <1>1, NullFresh DEF PcItem, Busy, ItemsFreedOnce
  <1>3. /\ status = "FreeLater" <=> ~owned[i]
        /\ current_item = NULL
        /\ owned[i] => tree[object[i]] = i
    BY <1>1, <1>2 DEF PcItem, ItemsFreedOnce
  <1>4. PcItem'
    BY <1>1, <1>3 DEF PcItem, Busy
  <1>5. CASE status = "FreeLater"
    <2>1. waiting_list' = waiting_list /\ ItemFree(i)
      BY <1>2, <1>5 DEF Finish
    <2>2. /\ object'[i] = NULL
          /\ \A j \in Item \ {i} : /\ object'[j] = object[j]
                                   /\ event'[j] = event[j]
                                   /\ owned'[j] = owned[j]
      BY <2>1 DEF ItemFree, TypeOK
    <2>3. \A o \in Object : tree[o] # NULL => tree[o] \in Item \ {i}
      BY <1>3, <1>5, LinkFacts
    <2>4. \A j \in ToSet(waiting_list) : j \in Item \ {i}
      BY <1>2, <2>3 DEF WaitingLive, allocated, TypeOK
    <2>5. LinksLive'
      <3> SUFFICES ASSUME NEW q \in Object
                   PROVE  /\ \A d \in {"in", "out"} :
                               Link(q, d) # NULL => Link(q, d) = tree[q] /\ event'[tree[q]].dir = d
                          /\ tree[q] # NULL =>
                               /\ tree[q] \in allocated'
                               /\ owned'[tree[q]]
                               /\ object'[tree[q]] = q
                               /\ Link(q, event'[tree[q]].dir) = tree[q]
        BY <1>1 DEF LinksLive, Link
      <3>1. CASE tree[q] = NULL
        BY <3>1, LinkFacts
      <3>2. CASE tree[q] # NULL
        <4>1. /\ event'[tree[q]] = event[tree[q]] /\ owned'[tree[q]] = owned[tree[q]]
              /\ object'[tree[q]] = object[tree[q]] /\ tree[q] \in Item
          BY <2>2, <2>3, <3>2
        <4>2. tree[q] \in allocated'
          BY <3>2, <4>1, LinkFacts, NullFresh DEF allocated
        <4> QED
          BY <3>2, <4>1, <4>2, LinkFacts
      <3> QED
        BY <3>1, <3>2
    <2>6. WaitingLive'
      <3>1. ASSUME NEW j \in ToSet(waiting_list) PROVE j \in allocated' /\ tree[object'[j]] = j
        BY <2>2, <2>4 DEF WaitingLive, allocated
      <3> QED
        BY <1>1, <2>1, <3>1 DEF WaitingLive
    <2>7. ItemsFreedOnce'
      <3>1. ASSUME NEW j \in allocated' PROVE tree'[object'[j]] = j
        <4>1. j \in allocated /\ j # i /\ object'[j] = object[j]
          BY <2>2 DEF allocated
        <4> QED
          BY <1>1, <1>2, <4>1 DEF ItemsFreedOnce
      <3> QED
        BY <1>1, <3>1 DEF ItemsFreedOnce
    <2>8. LevelNotMissed'
      <3> SUFFICES ASSUME NEW q \in Object, tree[q] # NULL, ~event'[tree[q]].edge,
                          ItemLevel(tree[q])' > 0
                   PROVE  Served(tree[q])'
        BY <1>1 DEF LevelNotMissed
      <3>1. /\ tree[q] # i
            /\ object'[tree[q]] = object[tree[q]] /\ event'[tree[q]] = event[tree[q]]
        BY <2>2, <2>3
      <3>2. ItemLevel(tree[q])' = ItemLevel(tree[q])
        BY <1>1, <3>1 DEF ItemLevel, Level
      <3>3. Served(tree[q])
        BY <1>1, <3>1, <3>2 DEF LevelNotMissed
      <3> QED
        BY <1>1, <1>2, <2>1, <3>1, <3>3 DEF Served, IsWaiting
    <2> QED
      BY <1>4, <2>5, <2>6, <2>7, <2>8
  <1>6. CASE status # "FreeLater"
    <2>1. UNCHANGED items /\ owned[i] /\ tree[object[i]] = i
      BY <1>3, <1>6 DEF Finish
    <2>2. /\ ToSet(waiting_list) \subseteq ToSet(waiting_list')
          /\ ToSet(waiting_list') \subseteq ToSet(waiting_list) \cup {i}
          /\ IsInjective(waiting_list')
          /\ status = "Incomplete" => i \in ToSet(waiting_list')
      BY <1>2, EnqueuedFacts DEF Finish, ItemNotify, WaitingLive
    <2>3. LinksLive'
      BY <1>1, <2>1 DEF LinksLive, Link, allocated
    <2>4. WaitingLive'
      <3>1. ASSUME NEW j \in ToSet(waiting_list') PROVE j \in allocated /\ tree[object[j]] = j
        BY <1>2, <2>1, <2>2 DEF WaitingLive
      <3> QED
        BY <1>1, <2>1, <2>2, <3>1 DEF WaitingLive, allocated
    <2>5. ItemsFreedOnce'
      <3>1. \A j \in allocated : tree[object[j]] = j
        BY <1>2, <2>1 DEF ItemsFreedOnce
      <3> QED
        BY <1>1, <2>1, <3>1 DEF ItemsFreedOnce, allocated
    <2>6. ASSUME NEW o \in Object, tree[o] # NULL, Served(tree[o]) PROVE Served(tree[o])'
      BY <1>1, <1>2, <2>1, <2>2, <2>6 DEF Served, IsWaiting
    <2>7. LevelNotMissed'
      BY <1>1, <2>1, <2>6 DEF LevelNotMissed, ItemLevel, Level
    <2> QED
      BY <1>4, <2>3, <2>4, <2>5, <2>7
  <1> QED
    BY <1>5, <1>6

\* Every step keeps the structure.
LEMMA NextStruct == Inv /\ [Next]_vars => Struct'
  <1> SUFFICES ASSUME Inv, [Next]_vars PROVE Struct'
    OBVIOUS
  <1> USE DEF Inv
  <1>1. ASSUME NEW t \in Thread, NEW o \in Object, ThreadPut(t, o) \/ ThreadGet(t, o)
        PROVE  Struct'
    BY <1>1, ChangedStruct
  <1>2. ASSUME NEW t \in Thread, ThreadNotify(t) PROVE Struct'
    BY <1>2, ThreadNotifyStruct
  <1>3. ASSUME NEW o \in Object, NEW e \in Events[o], NEW i \in Item \ allocated,
               Subscribe(o, e, i)
        PROVE  Struct'
    BY <1>3, SubscribeStruct
  <1>4. ASSUME NEW o \in Object, NEW e \in Events[o], SubscribeSecond(o, e) PROVE Struct'
    BY <1>4, FaultStruct
  <1>5. ASSUME NEW o \in Object, Unsubscribe(o) PROVE Struct'
    BY <1>5, UnsubscribeStruct
  <1>6. ASSUME NEW o \in Object, AppPut(o) \/ AppGet(o) PROVE Struct'
    BY <1>6, AppChangedStruct
  <1>7. CASE \/ Stop \/ ThreadFlagSet \/ PendCallback \/ TimerRequest
             \/ SubscribeThreadFlags \/ UnsubscribeThreadFlags \/ UNCHANGED vars
    <2>1. UNCHANGED <<pc, work, waiting_list, items, links, level, notifying, direction>>
      BY <1>7 DEF Stop, ThreadFlagSet, PendCallback, TimerRequest, SubscribeThreadFlags,
                  UnsubscribeThreadFlags, vars, env
    <2> QED
      BY <2>1, FrameSame
  <1>8. CASE \/ Alloc \/ AllocValue \/ Free \/ Run \/ Wait \/ Timeout \/ SyncFlags \/ RestoreFlags
             \/ ProcessTimerQueue \/ ProcessPending \/ PendingCallbackReturn
             \/ ProcessThreadFlag \/ CallbackReturn
    <2>1. UNCHANGED <<work, waiting_list, items, links, level, notifying, direction>>
      BY <1>8 DEF Alloc, AllocValue, Free, Run, Wait, Timeout, SyncFlags, RestoreFlags,
                  ProcessTimerQueue, ProcessPending, PendingCallbackReturn,
                  ProcessThreadFlag, CallbackReturn, env
    <2>2. Branch(notified) \notin Busy \cup {"none", "alloc"}
      BY DEF Branch, Busy
    <2>3. /\ pc \notin Busy \cup {"fault"} /\ pc' \notin Busy
          /\ pc' \in {"none", "alloc"} => Alloc \/ Free
      <3>1. CASE Wait
        BY <3>1, <2>2 DEF Wait, Busy
      <3>2. CASE Alloc \/ Free
        BY <3>2 DEF Alloc, Free, Goto, Busy
      <3>3. CASE \/ AllocValue \/ Run \/ Timeout \/ SyncFlags \/ RestoreFlags
                 \/ ProcessTimerQueue
        BY <3>3 DEF AllocValue, Run, Timeout, SyncFlags, RestoreFlags, ProcessTimerQueue,
                    Goto, Busy
      <3>4. CASE \/ ProcessPending \/ PendingCallbackReturn \/ ProcessThreadFlag
                 \/ CallbackReturn
        BY <3>4 DEF ProcessPending, PendingCallbackReturn, ProcessThreadFlag,
                    CallbackReturn, Goto, Busy
      <3> QED
        BY <1>8, <3>1, <3>2, <3>3, <3>4
    <2>4. Alloc \/ Free => waiting_list = <<>> /\ \A o \in Object : tree[o] = NULL
      BY DEF Alloc, Free, Goto, PcItem, Inv, Struct
    <2> QED
      BY <2>1, <2>3, <2>4, FrameMove
  <1>9. CASE GetWaitingItem
    BY <1>9, GetWaitingItemStruct
  <1>10. CASE ProcessEvent
    BY <1>10, ProcessEventStruct
  <1>11. CASE ProcessOnce
    BY <1>11, FaultStruct
  <1>12. CASE EventCallbackReturn
    BY <1>12, EventCallbackReturnStruct
  <1>13. CASE Finish
    BY <1>13, FinishStruct
  <1> QED
    BY <1>1, <1>2, <1>3, <1>4, <1>5, <1>6, <1>7, <1>8, <1>9, <1>10, <1>11, <1>12, <1>13
       DEF Next, OtherThread, Application, Loop

-----------------------------------------------------------------------------
\* The notification flags.

FlagInv == EventNotLost /\ RequestsNotLost /\ PcFlags

\* Steps that take no flag away, change no queue, and add to the waiting list
\* only together with the Event flag.
LEMMA FlagsFrame ==
    ASSUME FlagInv,
           UNCHANGED <<pc, flags, pending_queue, timer_queue, halted>>,
           notified \subseteq notified',
           waiting_list' # <<>> => waiting_list # <<>> \/ "Event" \in notified'
    PROVE  FlagInv'
  <1> USE DEF FlagInv
  <1>1. EventNotLost'
    BY DEF EventNotLost
  <1>2. RequestsNotLost'
    BY DEF RequestsNotLost
  <1>3. PcFlags'
    BY DEF PcFlags
  <1> QED
    BY <1>1, <1>2, <1>3

\* The loop waits again after a branch that served one flag and restored or had
\* no others.
LEMMA FlagsBack ==
    ASSUME FlagInv, pc \notin EventPc \cup {"fault", "none", "alloc"}, pc' = "wait", flags' = {},
           UNCHANGED <<waiting_list, halted>>,
           notified \subseteq notified',
           ~halted /\ timer_queue' > 0 => "Timer" \in notified',
           ~halted /\ pending_queue' > 0 => "Pending" \in notified'
    PROVE  FlagInv'
  <1> USE DEF FlagInv
  <1>1. EventNotLost'
    BY DEF EventNotLost
  <1>2. RequestsNotLost' /\ PcFlags'
    BY DEF RequestsNotLost, PcFlags
  <1> QED
    BY <1>1, <1>2

\* Every step keeps what the flags promise.
LEMMA NextFlags == Inv /\ [Next]_vars => FlagInv'
  <1> SUFFICES ASSUME Inv, [Next]_vars PROVE FlagInv'
    OBVIOUS
  <1> USE DEF Inv, Struct, work, queues, env
  <1>0. FlagInv
    BY DEF FlagInv
  <1>1. ASSUME NEW t \in Thread, NEW o \in Object, ThreadPut(t, o) \/ ThreadGet(t, o)
        PROVE  FlagInv'
    BY <1>0, <1>1, FlagsFrame DEF ThreadPut, ThreadGet, Changed
  <1>2. ASSUME NEW t \in Thread, ThreadNotify(t) PROVE FlagInv'
    <2>1. PICK o \in Object, d \in {"in", "out"} : LinkNotify(o, d)
      BY <1>2 DEF ThreadNotify, TypeOK
    <2>2. UNCHANGED <<pc, work, items, links>>
      BY <1>2 DEF ThreadNotify
    <2>3. /\ notified \subseteq notified'
          /\ waiting_list' # <<>> => waiting_list' = waiting_list \/ "Event" \in notified'
      BY <2>1, <2>2, NotifyStruct
    <2> QED
      BY <1>0, <1>2, <2>3, FlagsFrame DEF ThreadNotify
  <1>3. ASSUME NEW o \in Object, AppPut(o) \/ AppGet(o) PROVE FlagInv'
    <2>1. PICK d \in {"in", "out"}, by \in {1, -1} : AppChanged(o, d, by)
      BY <1>3 DEF AppPut, AppGet
    <2>2. UNCHANGED <<pc, work, items, links>> /\ LinkNotify(o, d)
      BY <2>1 DEF AppChanged
    <2>3. /\ notified \subseteq notified'
          /\ waiting_list' # <<>> => waiting_list' = waiting_list \/ "Event" \in notified'
      BY <2>2, NotifyStruct
    <2> QED
      BY <1>0, <2>1, <2>3, FlagsFrame DEF AppChanged
  <1>4. CASE Stop \/ ThreadFlagSet \/ SubscribeThreadFlags \/ UnsubscribeThreadFlags
    BY <1>0, <1>4, FlagsFrame DEF Stop, ThreadFlagSet, SubscribeThreadFlags,
                                  UnsubscribeThreadFlags
  <1>5. ASSUME NEW o \in Object, NEW e \in Events[o], NEW i \in Item \ allocated,
               Subscribe(o, e, i)
        PROVE  FlagInv'
    BY <1>0, <1>5, FlagsFrame DEF Subscribe, ItemNotify
  <1>6. ASSUME NEW o \in Object, NEW e \in Events[o], SubscribeSecond(o, e)
        PROVE  FlagInv'
    BY <1>6 DEF SubscribeSecond, FlagInv, EventNotLost, RequestsNotLost, PcFlags
  <1>7. ASSUME NEW o \in Object, Unsubscribe(o) PROVE FlagInv'
    <2>1. tree[o] \in Item
      BY <1>7 DEF Unsubscribe, TypeOK
    <2>2. waiting_list = <<>> => waiting_list' = <<>>
      BY <1>7, <2>1, UnlinkedFacts DEF Unsubscribe, Disconnect
    <2> QED
      BY <1>0, <1>7, <2>2, FlagsFrame DEF Unsubscribe
  <1>8. CASE PendCallback \/ TimerRequest
    <2>1. pc \in AppPc
      BY <1>8 DEF PendCallback, TimerRequest, InApp
    <2>2. EventNotLost'
      BY <1>8 DEF PendCallback, TimerRequest, EventNotLost
    <2>3. RequestsNotLost'
      BY <1>8 DEF PendCallback, TimerRequest, RequestsNotLost
    <2>4. PcFlags'
      <3>1. pending_queue > 0 => pending_queue' > 0
        BY <1>8 DEF PendCallback, TimerRequest, TypeOK
      <3>2. pc' = pc /\ flags' = flags /\ pc \notin {"none", "alloc"}
        BY <1>8, <2>1 DEF PendCallback, TimerRequest, AppPc
      <3> QED
        BY <3>1, <3>2 DEF PcFlags
    <2> QED
      BY <2>2, <2>3, <2>4 DEF FlagInv
  <1>9. CASE Alloc \/ AllocValue
    <2>1. waiting_list = <<>> /\ timer_queue = 0 /\ pending_queue = 0 /\ flags = {}
      BY <1>9 DEF Alloc, AllocValue, Goto, PcItem, PcFlags
    <2> QED
      BY <1>9, <2>1 DEF Alloc, AllocValue, Goto, FlagInv, EventNotLost, RequestsNotLost, PcFlags
  <1>10. CASE Free
    BY <1>10 DEF Free, Goto, FlagInv, EventNotLost, RequestsNotLost, PcFlags
  <1>11. CASE Run \/ Timeout
    BY <1>11 DEF Run, Timeout, Goto, FlagInv, EventNotLost, RequestsNotLost, PcFlags,
                 EventPc
  <1>12. CASE Wait
    <2>1. CASE Stops(notified)
      BY <1>12, <2>1 DEF Wait, FlagInv, EventNotLost, RequestsNotLost, PcFlags
    <2>2. CASE ~Stops(notified)
      <3>1. pc = "wait" /\ flags = {} /\ flags' = notified \ {"Cleared"} /\ pc' = Branch(notified)
            /\ UNCHANGED <<waiting_list, timer_queue, pending_queue, halted>>
        BY <1>12, <2>2 DEF Wait, PcFlags
      <3>2. /\ "Event" \in notified => pc' = "event"
            /\ pc' \in {"event", "timer", "pending", "thread_flag", "fault"}
            /\ pc' = "pending" => "Timer" \notin notified
            /\ pc' = "thread_flag" => notified \cap {"Timer", "Pending"} = {}
        BY <3>1 DEF Branch
      <3>3. EventNotLost'
        BY <3>1, <3>2 DEF EventNotLost, EventPc
      <3>4. RequestsNotLost'
        BY <3>1, <3>2 DEF RequestsNotLost
      <3>5. PcFlags'
        BY <3>1, <3>2 DEF PcFlags
      <3> QED
        BY <3>3, <3>4, <3>5 DEF FlagInv
    <2> QED
      BY <2>1, <2>2
  <1>13. CASE GetWaitingItem \/ ProcessEvent \/ EventCallbackReturn
    <2>1. /\ UNCHANGED <<notified, flags, timer_queue, pending_queue, halted>>
          /\ pc \in EventPc
          /\ pc' \in EventPc \/ (pc' = "restore" /\ waiting_list' = <<>>)
      BY <1>13 DEF GetWaitingItem, ProcessEvent, EventCallbackReturn, Goto, EventPc
    <2>2. EventNotLost'
      BY <2>1 DEF EventNotLost
    <2>3. RequestsNotLost' /\ PcFlags'
      BY <2>1 DEF RequestsNotLost, PcFlags, EventPc
    <2> QED
      BY <2>2, <2>3 DEF FlagInv
  <1>14. CASE ProcessOnce
    BY <1>14 DEF ProcessOnce, Goto, FlagInv, EventNotLost, RequestsNotLost, PcFlags
  <1>15. CASE Finish
    <2>1. /\ UNCHANGED <<flags, timer_queue, pending_queue, halted>>
          /\ notified \subseteq notified' /\ pc = "finish" /\ pc' = "sync"
      BY <1>15 DEF Finish, Goto, ItemNotify
    <2> QED
      BY <2>1 DEF FlagInv, EventNotLost, RequestsNotLost, PcFlags, EventPc
  <1>16. CASE SyncFlags
    <2>1. /\ UNCHANGED <<flags, timer_queue, pending_queue, halted, waiting_list>>
          /\ notified \subseteq notified' /\ pc = "sync" /\ pc' = "restore"
          /\ waiting_list # <<>> => "Event" \in notified'
      BY <1>16 DEF SyncFlags, Resynced, Goto
    <2> QED
      BY <2>1 DEF FlagInv, EventNotLost, RequestsNotLost, PcFlags
  <1>17. CASE RestoreFlags
    <2>1. notified' = notified \cup (flags \ {"Event"})
      BY <1>17 DEF RestoreFlags, Restored
    <2>2. /\ UNCHANGED <<timer_queue, pending_queue, halted, waiting_list>>
          /\ pc = "restore" /\ pc' = "wait" /\ flags' = {}
      BY <1>17 DEF RestoreFlags, Goto
    <2>3. /\ ~halted /\ timer_queue' > 0 => "Timer" \in notified'
          /\ ~halted /\ pending_queue' > 0 => "Pending" \in notified'
      BY <2>1, <2>2 DEF RequestsNotLost
    <2> QED
      BY <1>0, <2>1, <2>2, <2>3, FlagsBack DEF EventPc
  <1>18. CASE ProcessTimerQueue
    <2>1. notified' = notified \cup (flags \ {"Timer"})
      BY <1>18 DEF ProcessTimerQueue, Restored
    <2>2. /\ UNCHANGED <<pending_queue, halted, waiting_list>>
          /\ pc = "timer" /\ pc' = "wait" /\ flags' = {} /\ timer_queue' = 0
      BY <1>18 DEF ProcessTimerQueue, Goto
    <2>3. /\ ~halted /\ timer_queue' > 0 => "Timer" \in notified'
          /\ ~halted /\ pending_queue' > 0 => "Pending" \in notified'
      BY <2>1, <2>2 DEF RequestsNotLost
    <2> QED
      BY <1>0, <2>1, <2>2, <2>3, FlagsBack DEF EventPc
  <1>19. CASE ProcessPending
    <2>1. /\ UNCHANGED <<notified, timer_queue, pending_queue, halted, waiting_list>>
          /\ pc = "pending"
      BY <1>19 DEF ProcessPending
    <2>2. CASE pending_queue > 0
      <3>1. pc' = "pending_cb" /\ flags' = flags
        BY <1>19, <2>2 DEF ProcessPending
      <3> QED
        BY <2>1, <2>2, <3>1 DEF FlagInv, EventNotLost, RequestsNotLost, PcFlags, EventPc
    <2>3. CASE ~(pending_queue > 0)
      <3>1. pc' = "wait" /\ flags' = {}
        BY <1>19, <2>3 DEF ProcessPending
      <3>2. ~halted /\ timer_queue' > 0 => "Timer" \in notified'
        BY <2>1 DEF RequestsNotLost, PcFlags
      <3>3. ~(pending_queue' > 0)
        BY <2>1, <2>3
      <3> QED
        BY <1>0, <2>1, <3>1, <3>2, <3>3, FlagsBack DEF EventPc
    <2> QED
      BY <2>2, <2>3
  <1>20. CASE PendingCallbackReturn
    <2>1. /\ UNCHANGED <<notified, flags, timer_queue, halted, waiting_list>>
          /\ pc = "pending_cb" /\ pc' = "pending"
      BY <1>20 DEF PendingCallbackReturn, Goto
    <2> QED
      BY <2>1 DEF FlagInv, EventNotLost, RequestsNotLost, PcFlags, EventPc
  <1>21. CASE ProcessThreadFlag
    <2>1. /\ UNCHANGED <<notified, timer_queue, pending_queue, halted, waiting_list>>
          /\ pc = "thread_flag" /\ pc' \in {"flags_cb", "wait"} /\ flags' = {}
      BY <1>21 DEF ProcessThreadFlag
    <2>2. /\ ~halted /\ timer_queue > 0 => "Timer" \in notified
          /\ ~halted /\ pending_queue > 0 => "Pending" \in notified
      BY <2>1 DEF RequestsNotLost, PcFlags
    <2> QED
      BY <2>1, <2>2 DEF FlagInv, EventNotLost, RequestsNotLost, PcFlags, EventPc
  <1>22. CASE CallbackReturn
    <2>1. /\ UNCHANGED <<notified, flags, timer_queue, pending_queue, halted, waiting_list>>
          /\ pc \in {"flags_cb", "tick_cb"} /\ pc' = "wait"
      BY <1>22 DEF CallbackReturn
    <2> QED
      BY <2>1 DEF FlagInv, EventNotLost, RequestsNotLost, PcFlags, EventPc
  <1>23. CASE UNCHANGED vars
    BY <1>0, <1>23, FlagsFrame DEF vars
  <1> QED
    BY <1>1, <1>2, <1>3, <1>4, <1>5, <1>6, <1>7, <1>8, <1>9, <1>10, <1>11, <1>12, <1>13,
       <1>14, <1>15, <1>16, <1>17, <1>18, <1>19, <1>20, <1>21, <1>22, <1>23
       DEF Next, OtherThread, Application, Loop

-----------------------------------------------------------------------------
\* The theorems.

\* Inv holds in every reachable state.
LEMMA Invariance == Spec => []Inv
  <1>1. Inv /\ [Next]_vars => Inv'
    BY NextType, NextStruct, NextFlags DEF Inv, FlagInv
  <1> QED
    BY InitInv, <1>1, PTL DEF Spec

\* Every variable of the loop keeps its type, for any number of objects, items,
\* threads and queued requests.
THEOREM EventLoopTypeOK == Spec => []TypeOK
  <1>1. Inv => TypeOK
    BY DEF Inv
  <1> QED
    BY Invariance, <1>1, PTL

\* Links, tree, waiting list and items agree: nothing that another thread or the
\* loop dereferences has been freed, and nothing unsubscribed is leaked.
THEOREM EventLoopItemsLive == Spec => []ItemsLive
  <1>1. Inv => ItemsLive
    BY DEF Inv, Struct, ItemsLive
  <1> QED
    BY Invariance, <1>1, PTL

\* A level-triggered subscription whose object is ready is always due for a look,
\* however puts, gets, notifications and callbacks interleave.
THEOREM EventLoopLevelNotMissed == Spec => []LevelNotMissed
  <1>1. Inv => LevelNotMissed
    BY DEF Inv, Struct
  <1> QED
    BY Invariance, <1>1, PTL

\* Until the loop is stopped, no wakeup for a waiting item, a timer request or a
\* deferred call is lost.
THEOREM EventLoopWakeups == Spec => []WakeupsKept
  <1>1. Inv => WakeupsKept
    BY DEF Inv, WakeupsKept
  <1> QED
    BY Invariance, <1>1, PTL

=============================================================================
