----------------------------- MODULE FuriPubSub -----------------------------
(***************************************************************************)
(* furi/core/pubsub.c: a list of subscriptions under a mutex.  The mutex   *)
(* is of type FuriMutexTypeNormal, not recursive, and the publisher keeps  *)
(* it while it runs the callbacks of the subscribers.                      *)
(*                                                                         *)
(* A callback is application code.  If Reenters, it may call the same      *)
(* FuriPubSub again; that call never gets the mutex its own thread holds.  *)
(***************************************************************************)
EXTENDS Integers, SequencesExt

CONSTANTS
    Thread,         \* threads that call the API
    Subscription,   \* memory for FuriPubSubSubscription
    Reenters,       \* bound: whether callbacks call the same FuriPubSub
    NULL

ASSUME NullFresh == NULL \notin Thread \cup Subscription
ASSUME ReentersType == Reenters \in BOOLEAN

VARIABLES
    items,          \* FuriPubSub.items; index 1 is where iteration begins
    mutex,          \* the thread that holds FuriPubSub.mutex
    pc,             \* where each thread is
    subscription,   \* the subscription it subscribes or unsubscribes
    it,             \* the iterator of furi_pubsub_publish, NULL at the end
    released,       \* history: subscriptions whose unsubscription has returned
    present,        \* history: the subscriptions when a publisher got the mutex
    called          \* history: whose callbacks it has called since, in order

vars == <<items, mutex, pc, subscription, it, released, present, called>>

Call == {"subscribe", "unsubscribe", "publish"}

\* A call waits for the mutex under its own name; "subscribed", "unsubscribed"
\* and "iterate" hold it, "callback" runs a subscriber's callback.  "again" is a
\* call made from a callback.
Locked == {"subscribed", "unsubscribed", "iterate", "callback", "again"}

\* The mutex is held by exactly the thread that is in a locked section.
TypeOK ==
    /\ items \in Seq(Subscription)
    /\ mutex \in Thread \cup {NULL}
    /\ pc \in [Thread -> {"idle"} \cup Call \cup Locked]
    /\ \A t \in Thread : mutex = t <=> pc[t] \in Locked
    /\ subscription \in [Thread -> Subscription \cup {NULL}]
    /\ it \in [Thread -> Subscription \cup {NULL}]
    /\ released \subseteq Subscription
    /\ present \in [Thread -> SUBSET Subscription]
    /\ called \in [Thread -> Seq(Subscription)]

\* furi_pubsub_alloc
Init ==
    /\ items = <<>>
    /\ mutex = NULL
    /\ pc = [t \in Thread |-> "idle"]
    /\ subscription = [t \in Thread |-> NULL]
    /\ it = [t \in Thread |-> NULL]
    /\ released = Subscription
    /\ present = [t \in Thread |-> {}]
    /\ called = [t \in Thread |-> <<>>]

Goto(t, p, q) == pc[t] = p /\ pc' = [pc EXCEPT ![t] = q]

\* Some thread is between the entry of subscribe or unsubscribe and its return.
InUse(s) == \E t \in Thread : subscription[t] = s

\* Where an iterator over the list meets s.
Position(s) == CHOOSE j \in DOMAIN items : items[j] = s

-----------------------------------------------------------------------------
\* Calls.

\* The subscription the list node will be made for is named in advance.
CallSubscribe(t, s) ==
    /\ Goto(t, "idle", "subscribe")
    /\ s \in released /\ ~InUse(s)
    /\ subscription' = [subscription EXCEPT ![t] = s]
    /\ UNCHANGED <<items, mutex, it, released, present, called>>

CallUnsubscribe(t, s) ==
    /\ Goto(t, "idle", "unsubscribe")
    /\ s \notin released /\ ~InUse(s)
    /\ subscription' = [subscription EXCEPT ![t] = s]
    /\ UNCHANGED <<items, mutex, it, released, present, called>>

CallPublish(t) ==
    /\ Goto(t, "idle", "publish")
    /\ UNCHANGED <<items, mutex, subscription, it, released, present, called>>

\* furi_mutex_acquire with FuriWaitForever returns when nobody holds the mutex.
Free == mutex = NULL

\* furi_pubsub_subscribe: FuriPubSubSubscriptionList_push_raw, at the end where
\* iteration begins.
Subscribe(t) ==
    /\ Goto(t, "subscribe", "subscribed")
    /\ Free
    /\ mutex' = t
    /\ items' = <<subscription[t]>> \o items
    /\ UNCHANGED <<subscription, it, released, present, called>>

\* The mutex is released and furi_pubsub_subscribe returns.
SubscribeReturn(t) ==
    /\ Goto(t, "subscribed", "idle")
    /\ mutex' = NULL
    /\ released' = released \ {subscription[t]}
    /\ subscription' = [subscription EXCEPT ![t] = NULL]
    /\ UNCHANGED <<items, it, present, called>>

\* Mutation of Unsubscribe: whatever item comes first is removed.
UnsubscribeFirst(t) ==
    /\ Goto(t, "unsubscribe", "unsubscribed")
    /\ Free
    /\ mutex' = t
    /\ items' = Tail(items)
    /\ UNCHANGED <<subscription, it, released, present, called>>

\* furi_pubsub_unsubscribe: the item is looked for by its address and removed;
\* the furi_check on the result fails for one that is not in the list.
Unsubscribe(t) ==
    /\ Goto(t, "unsubscribe", "unsubscribed")
    /\ Free
    /\ mutex' = t
    /\ subscription[t] \in ToSet(items)
    /\ items' = RemoveAt(items, Position(subscription[t]))
    /\ UNCHANGED <<subscription, it, released, present, called>>

\* The mutex is released and furi_pubsub_unsubscribe returns: the caller may
\* free the callback's context.
UnsubscribeReturn(t) ==
    /\ Goto(t, "unsubscribed", "idle")
    /\ mutex' = NULL
    /\ released' = released \cup {subscription[t]}
    /\ subscription' = [subscription EXCEPT ![t] = NULL]
    /\ UNCHANGED <<items, it, present, called>>

-----------------------------------------------------------------------------
\* furi_pubsub_publish

First == IF items = <<>> THEN NULL ELSE Head(items)

\* The subscription that follows s in the list.
Following(s) ==
    IF Position(s) = Len(items) THEN NULL ELSE items[Position(s) + 1]

Publish(t) ==
    /\ Goto(t, "publish", "iterate")
    /\ Free
    /\ mutex' = t
    /\ it' = [it EXCEPT ![t] = First]
    /\ present' = [present EXCEPT ![t] = ToSet(items)]
    /\ called' = [called EXCEPT ![t] = <<>>]
    /\ UNCHANGED <<items, subscription, released>>

PublishCallback(t) ==
    /\ Goto(t, "iterate", "callback")
    /\ it[t] # NULL
    /\ called' = [called EXCEPT ![t] = Append(@, it[t])]
    /\ UNCHANGED <<items, mutex, subscription, it, released, present>>

\* The callback calls the same FuriPubSub.
Reenter(t) ==
    /\ Reenters
    /\ Goto(t, "callback", "again")
    /\ UNCHANGED <<items, mutex, subscription, it, released, present, called>>

\* Mutation of Advanced: the list is advanced twice per callback.
AdvancedTwice(t) ==
    IF Following(it[t]) = NULL THEN NULL ELSE Following(Following(it[t]))

\* FuriPubSubSubscriptionList_next
Advanced(t) == Following(it[t])

\* The callback returns.
CallbackReturn(t) ==
    /\ Goto(t, "callback", "iterate")
    /\ it' = [it EXCEPT ![t] = Advanced(t)]
    /\ UNCHANGED <<items, mutex, subscription, released, present, called>>

\* Mutation of PublishReturn: nobody has subscribed, so it returns at once.
PublishReturnEarly(t) ==
    /\ Goto(t, "iterate", "idle")
    /\ it[t] = NULL
    /\ mutex' = IF called[t] = <<>> THEN mutex ELSE NULL
    /\ present' = [present EXCEPT ![t] = {}]
    /\ called' = [called EXCEPT ![t] = <<>>]
    /\ UNCHANGED <<items, subscription, it, released>>

\* The end of the list: the mutex is released and furi_pubsub_publish returns.
PublishReturn(t) ==
    /\ Goto(t, "iterate", "idle")
    /\ it[t] = NULL
    /\ mutex' = NULL
    /\ present' = [present EXCEPT ![t] = {}]
    /\ called' = [called EXCEPT ![t] = <<>>]
    /\ UNCHANGED <<items, subscription, it, released>>

-----------------------------------------------------------------------------

Request(t) ==
    \/ \E s \in Subscription : CallSubscribe(t, s) \/ CallUnsubscribe(t, s)
    \/ CallPublish(t)
    \/ Reenter(t)

Step(t) ==
    \/ SubscribeReturn(t) \/ UnsubscribeReturn(t)
    \/ PublishCallback(t) \/ CallbackReturn(t) \/ PublishReturn(t)

Locks(t) == Subscribe(t) \/ Unsubscribe(t) \/ Publish(t)

Next == \E t \in Thread : Request(t) \/ Locks(t) \/ Step(t)

Spec == Init /\ [][Next]_vars

\* Threads that can run do, callbacks return, and a thread that waits for a mutex
\* that stays free takes it.  Nothing more: FreeRTOS wakes a thread that waits but
\* does not hand it the mutex, which the thread that gave it may take again first.
Fairness == \A t \in Thread : WF_vars(Step(t)) /\ WF_vars(Locks(t))

FairSpec == Spec /\ Fairness

-----------------------------------------------------------------------------

\* pubsub.h, furi_pubsub_unsubscribe: "No use of `pubsub_subscription` allowed
\* after call of this method".  No callback runs, and no publisher's iterator
\* points to a subscription, after its furi_pubsub_unsubscribe has returned,
\* although publish and unsubscribe are called by different threads.
NoCallbackAfterUnsubscribe ==
    \A t \in Thread : it[t] # NULL => it[t] \in ToSet(items) /\ it[t] \notin released

\* When furi_pubsub_publish reaches the end of the list it has called exactly
\* the subscribers that were there when it got the mutex, each once: subscribing
\* and unsubscribing elsewhere neither hides a message nor repeats it.
ReachesEverySubscriber ==
    \A t \in Thread : pc[t] = "iterate" /\ it[t] = NULL =>
        /\ IsInjective(called[t])
        /\ ToSet(called[t]) = present[t]

\* Some callback has called the FuriPubSub that calls it, and waits for its own
\* thread.
Stuck == \E t \in Thread : pc[t] = "again"

\* Another thread takes the mutex again and again, for ever.
Outrun(t) == \E u \in Thread \ {t} : []<>(mutex = u) /\ []<>(mutex # u)

\* Every call of the API returns, whatever is subscribed and unsubscribed around
\* it, unless a callback calls the FuriPubSub that calls it or the call is outrun
\* by a thread that takes the mutex without end: no path of the three functions
\* and no publication, however its list changed before, keeps the mutex.
CallsReturn ==
    \A t \in Thread :
        Outrun(t) \/ (pc[t] \in Call ~> (pc[t] = "idle" \/ Stuck))

\* What the mutex does not give: a call that returns however others publish.
CallsReturnInTurn ==
    \A t \in Thread : pc[t] \in Call ~> (pc[t] = "idle" \/ Stuck)

=============================================================================
