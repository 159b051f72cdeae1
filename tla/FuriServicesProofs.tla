------------------------- MODULE FuriServicesProofs -------------------------
(***************************************************************************)
(* Proofs about the two ways in which services and applications find each  *)
(* other, which share no state: the record registry and pubsub.            *)
(*                                                                         *)
(* Records: for any number of names, owners and open..close brackets, the  *)
(* holder count is exact and an opened record outlives its holders.        *)
(*                                                                         *)
(* Pubsub: for any threads and any subscriptions, the mutex that the       *)
(* publisher keeps while it runs the callbacks makes its iterator a        *)
(* position in a list that does not move.                                  *)
(***************************************************************************)
EXTENDS FuriRecord, FuriPubSub, SequenceFacts, FiniteSetTheorems

\* Strengthening: the READY flag and the pointer of an entry are set together,
\* which carries the wait in furi_record_open over to its unlocked read; an
\* absent entry has neither.
ReadyMeansData ==
    \A n \in Name :
        /\ ready[n] <=> data[n] # NullData
        /\ ready[n] => n \in records

\* The inductive invariant.
RecordInv ==
    /\ RecordTypeOK
    /\ HoldersExact
    /\ HeldDataLive
    /\ UnlockedAccessSafe
    /\ ReadyMeansData

\* The brackets counted for a name form a finite set.
LEMMA HoldersFinite ==
    ASSUME NEW n \in Name
    PROVE  IsFiniteSet(Holders(n)) /\ Cardinality(Holders(n)) \in Nat
  <1>1. Holders(n) \subseteq Holder
    BY DEF Holders
  <1>2. IsFiniteSet(Holders(n))
    BY <1>1, HolderFinite, FS_Subset
  <1> QED
    BY <1>2, FS_CardinalityType

\* The empty registry satisfies the invariant.
LEMMA RecordInitInv == RecordInit => RecordInv
  <1> SUFFICES ASSUME RecordInit PROVE RecordInv
    OBVIOUS
  <1>1. RecordTypeOK
    BY DEF RecordInit, RecordTypeOK
  <1>2. \A n \in Name : Holders(n) = {}
    BY DEF RecordInit, Holders
  <1>3. HoldersExact
    BY <1>2, FS_EmptySet DEF RecordInit, HoldersExact
  <1>4. HeldDataLive /\ UnlockedAccessSafe /\ ReadyMeansData
    BY DEF RecordInit, HeldDataLive, UnlockedAccessSafe, ReadyMeansData
  <1> QED
    BY <1>1, <1>3, <1>4 DEF RecordInv

\* furi_record_create fills an entry and touches no holder.
LEMMA CreateInv ==
    ASSUME RecordInv, NEW n \in Name, NEW d \in Data, Create(n, d)
    PROVE  RecordInv'
  <1> USE NullDataFresh DEF RecordInv
  <1>1. RecordTypeOK'
    BY DEF Create, RecordTypeOK, holding
  <1>2. \A m \in Name : Holders(m)' = Holders(m)
    BY DEF Create, Holders, holding
  <1>3. HoldersExact'
    BY <1>2 DEF Create, HoldersExact
  <1>4. HeldDataLive' /\ UnlockedAccessSafe'
    BY DEF Create, holding, HeldDataLive, UnlockedAccessSafe, RecordTypeOK
  <1>5. ReadyMeansData'
    BY DEF Create, ReadyMeansData, RecordTypeOK
  <1> QED
    BY <1>1, <1>3, <1>4, <1>5

\* furi_record_destroy erases only an entry nobody holds.
LEMMA DestroyInv ==
    ASSUME RecordInv, NEW n \in Name, Destroy(n)
    PROVE  RecordInv'
  <1> USE NullDataFresh DEF RecordInv
  <1>1. RecordTypeOK'
    BY DEF Destroy, Erase, RecordTypeOK, holding
  <1>2. Holders(n) = {}
    BY HoldersFinite, FS_EmptySet DEF Destroy, HoldersExact
  <1>3. \A m \in Name : Holders(m)' = Holders(m)
    BY DEF Destroy, Holders, holding
  <1>4. HoldersExact'
    BY <1>2, <1>3, FS_EmptySet DEF Destroy, Erase, HoldersExact, RecordTypeOK
  <1>5. \A h \in Holder : holder_pc[h] # "idle" => name[h] # n
    BY <1>2 DEF Holders
  <1>6. HeldDataLive' /\ UnlockedAccessSafe'
    BY <1>5 DEF Destroy, Erase, holding, HeldDataLive, UnlockedAccessSafe, RecordTypeOK
  <1>7. ReadyMeansData'
    BY DEF Destroy, Erase, ReadyMeansData, RecordTypeOK
  <1> QED
    BY <1>1, <1>4, <1>6, <1>7

\* The locked section of furi_record_open adds one holder and counts it.
LEMMA OpenInv ==
    ASSUME RecordInv, NEW h \in Holder, NEW n \in Name, Open(h, n)
    PROVE  RecordInv'
  <1> USE NullDataFresh DEF RecordInv
  <1>1. RecordTypeOK'
    BY DEF Open, RecordTypeOK
  <1>2. /\ h \notin Holders(n)
        /\ Holders(n)' = Holders(n) \cup {h}
        /\ \A m \in Name \ {n} : Holders(m)' = Holders(m)
    BY DEF Open, Holders, RecordTypeOK
  <1>3. Cardinality(Holders(n)') = Cardinality(Holders(n)) + 1
    BY <1>2, HoldersFinite, FS_AddElement
  <1>4. HoldersExact'
    BY <1>2, <1>3 DEF Open, HoldersExact, RecordTypeOK
  <1>5. HeldDataLive' /\ UnlockedAccessSafe'
    BY DEF Open, HeldDataLive, UnlockedAccessSafe, RecordTypeOK
  <1>6. ReadyMeansData'
    BY DEF Open, ReadyMeansData
  <1> QED
    BY <1>1, <1>4, <1>5, <1>6

\* The unlocked half of furi_record_open moves a bracket that stays counted.
LEMMA OpenTailInv ==
    ASSUME RecordInv, NEW h \in Holder, OpenWaited(h) \/ OpenReturn(h)
    PROVE  RecordInv'
  <1> USE NullDataFresh DEF RecordInv, dict
  <1>1. RecordTypeOK'
    BY DEF OpenWaited, OpenReturn, RecordTypeOK
  <1>2. \A m \in Name : Holders(m)' = Holders(m)
    BY DEF OpenWaited, OpenReturn, Holders, RecordTypeOK
  <1>3. HoldersExact' /\ ReadyMeansData'
    BY <1>2 DEF OpenWaited, OpenReturn, HoldersExact, ReadyMeansData
  <1>4. HeldDataLive' /\ UnlockedAccessSafe'
    BY DEF OpenWaited, OpenReturn, HeldDataLive, UnlockedAccessSafe, ReadyMeansData, RecordTypeOK
  <1> QED
    BY <1>1, <1>3, <1>4

\* furi_record_close removes one holder and uncounts it; the count cannot wrap.
LEMMA CloseInv ==
    ASSUME RecordInv, NEW h \in Holder, Close(h)
    PROVE  RecordInv'
  <1> USE NullDataFresh DEF RecordInv
  <1> DEFINE n == name[h]
  <1>1. n \in Name /\ h \in Holders(n)
    BY DEF Close, Holders, RecordTypeOK
  <1>2. /\ Holders(n)' = Holders(n) \ {h}
        /\ \A m \in Name \ {n} : Holders(m)' = Holders(m)
    BY <1>1 DEF Close, Holders, RecordTypeOK
  <1>3. /\ Cardinality(Holders(n) \ {h}) = Cardinality(Holders(n)) - 1
        /\ Cardinality(Holders(n) \ {h}) \in Nat
    BY <1>1, HoldersFinite, FS_RemoveElement, FS_CardinalityType
  <1>4. RecordTypeOK'
    BY <1>1, <1>3 DEF Close, RecordTypeOK, HoldersExact
  <1>5. HoldersExact'
    BY <1>1, <1>2, <1>3 DEF Close, HoldersExact, RecordTypeOK
  <1>6. HeldDataLive' /\ UnlockedAccessSafe'
    BY DEF Close, HeldDataLive, UnlockedAccessSafe, RecordTypeOK
  <1>7. ReadyMeansData'
    BY DEF Close, ReadyMeansData
  <1> QED
    BY <1>4, <1>5, <1>6, <1>7

\* Every step keeps the invariant.
LEMMA RecordNextInv == RecordInv /\ [RecordNext]_record_vars => RecordInv'
  <1> SUFFICES ASSUME RecordInv, [RecordNext]_record_vars PROVE RecordInv'
    OBVIOUS
  <1>1. CASE \E n \in Name, d \in Data : Create(n, d)
    BY <1>1, CreateInv
  <1>2. CASE \E n \in Name : Destroy(n)
    BY <1>2, DestroyInv
  <1>3. CASE \E h \in Holder, n \in Name : Open(h, n)
    BY <1>3, OpenInv
  <1>4. CASE \E h \in Holder : OpenWaited(h) \/ OpenReturn(h)
    BY <1>4, OpenTailInv
  <1>5. CASE \E h \in Holder : Close(h)
    BY <1>5, CloseInv
  <1>6. CASE UNCHANGED record_vars
    BY <1>6 DEF record_vars, dict, holding, RecordInv, RecordTypeOK, HoldersExact, Holders,
                HeldDataLive, UnlockedAccessSafe, ReadyMeansData
  <1> QED
    BY <1>1, <1>2, <1>3, <1>4, <1>5, <1>6 DEF RecordNext

\* holders_count is exact in every reachable state: furi_record_close never
\* wraps it and furi_record_destroy sees every open bracket.
THEOREM RecordHoldersExact == RecordSpec => []HoldersExact
  <1>1. RecordInv => HoldersExact
    BY DEF RecordInv
  <1> QED
    BY RecordInitInv, RecordNextInv, <1>1, PTL DEF RecordSpec

\* The pointer of an open record stays the registered one until it is closed,
\* and the unlocked half of furi_record_open never touches an erased entry.
THEOREM RecordHeldSafe == RecordSpec => []HeldSafe
  <1>1. RecordInv => HeldSafe
    BY DEF RecordInv, HeldSafe
  <1> QED
    BY RecordInitInv, RecordNextInv, <1>1, PTL DEF RecordSpec

-----------------------------------------------------------------------------
(***************************************************************************)
(* Pubsub.                                                                 *)
(***************************************************************************)

Asks == {"subscribe", "subscribed", "unsubscribe", "unsubscribed"}
Publishing == {"iterate", "callback", "again"}

\* A subscription is in the hands of one thread at a time, and is subscribed by
\* nobody while it is subscribed, and unsubscribed only then.
Hands ==
    \A t \in Thread :
        /\ subscription[t] # NULL <=> pc[t] \in Asks
        /\ pc[t] \in {"subscribe", "subscribed"} => subscription[t] \in released
        /\ pc[t] \in {"unsubscribe", "unsubscribed"} => subscription[t] \notin released
        /\ \A u \in Thread : subscription[t] # NULL /\ subscription[t] = subscription[u] => t = u

\* The list, which holds no item twice, holds what has been subscribed, from the
\* push until the removal: a little longer than the caller knows at its start,
\* a little shorter at its end.
Listed ==
    /\ IsInjective(items)
    /\ \A s \in Subscription : s \in ToSet(items) <=>
        \/ s \notin released /\ \A t \in Thread : pc[t] = "unsubscribed" => subscription[t] # s
        \/ \E t \in Thread : pc[t] = "subscribed" /\ subscription[t] = s

\* A publisher has called the items up to some position, the one its iterator is
\* at or is about to leave, and the list is the one it found.
Iterates ==
    \A t \in Thread :
        /\ it[t] # NULL => pc[t] \in Publishing
        /\ pc[t] \in Publishing =>
            /\ present[t] = ToSet(items)
            /\ Len(called[t]) <= Len(items)
            /\ \A k \in 1..Len(called[t]) : called[t][k] = items[k]
        /\ pc[t] = "iterate" =>
            it[t] = IF Len(called[t]) = Len(items) THEN NULL ELSE items[Len(called[t]) + 1]
        /\ pc[t] \in {"callback", "again"} =>
            Len(called[t]) > 0 /\ it[t] = items[Len(called[t])]

PubSubInv == TypeOK /\ Hands /\ Listed /\ Iterates

-----------------------------------------------------------------------------

\* An iterator meets an item of the list at its only position.
LEMMA PositionFacts ==
    ASSUME items \in Seq(Subscription), IsInjective(items), NEW n \in 1..Len(items)
    PROVE  Position(items[n]) = n
  <1>1. n \in DOMAIN items
    BY LenProperties
  <1> QED
    BY <1>1 DEF Position, IsInjective

LEMMA PubSubInitially == Init => PubSubInv
  <1> SUFFICES ASSUME Init PROVE PubSubInv
    OBVIOUS
  <1> USE DEF Init
  <1>1. ToSet(items) = {} /\ IsInjective(items) /\ items \in Seq(Subscription)
    BY DEF ToSet, IsInjective
  <1>2. TypeOK
    BY <1>1, NullFresh DEF TypeOK, Locked
  <1>3. Hands /\ Iterates
    BY DEF Hands, Iterates, Asks, Publishing
  <1>4. Listed
    BY <1>1 DEF Listed
  <1> QED
    BY <1>2, <1>3, <1>4 DEF PubSubInv

\* Entering a call, waiting and re-entering leave the list and its iterators as
\* they are.
LEMMA RequestKeeps ==
    ASSUME PubSubInv, NEW t \in Thread, Request(t)
    PROVE  PubSubInv'
  <1> USE DEF PubSubInv, Goto
  <1>1. ASSUME NEW s \in Subscription, CallSubscribe(t, s) \/ CallUnsubscribe(t, s)
        PROVE  PubSubInv'
    <2>1. UNCHANGED <<items, mutex, it, released, present, called>>
      BY <1>1 DEF CallSubscribe, CallUnsubscribe
    <2>2. /\ pc[t] = "idle"
          /\ pc' = [pc EXCEPT ![t] = IF s \in released THEN "subscribe" ELSE "unsubscribe"]
          /\ subscription' = [subscription EXCEPT ![t] = s]
          /\ \A u \in Thread : subscription[u] # s
      BY <1>1 DEF CallSubscribe, CallUnsubscribe, InUse
    <2>3. TypeOK'
      BY <2>1, <2>2 DEF TypeOK, Call, Locked
    <2>4. Hands'
      BY <2>1, <2>2, NullFresh DEF Hands, Asks, TypeOK
    <2>5. Listed'
      BY <2>1, <2>2 DEF Listed, TypeOK
    <2>6. Iterates'
      BY <2>1, <2>2 DEF Iterates, Publishing, TypeOK
    <2> QED
      BY <2>3, <2>4, <2>5, <2>6
  <1>2. CASE CallPublish(t)
    <2>1. TypeOK'
      BY <1>2 DEF CallPublish, TypeOK, Call, Locked
    <2>2. Hands' /\ Listed' /\ Iterates'
      BY <1>2 DEF CallPublish, Hands, Listed, Iterates, Asks, Publishing, TypeOK
    <2> QED
      BY <2>1, <2>2
  <1>3. CASE Reenter(t)
    <2>1. TypeOK'
      BY <1>3 DEF Reenter, TypeOK, Call, Locked
    <2>2. Hands' /\ Listed'
      BY <1>3 DEF Reenter, Hands, Listed, Asks, TypeOK
    <2>3. Iterates'
      BY <1>3 DEF Reenter, Iterates, Publishing, TypeOK
    <2> QED
      BY <2>1, <2>2, <2>3
  <1> QED
    BY <1>1, <1>2, <1>3 DEF Request

\* The mutex is had when nobody publishes: the list may change, or the iterator
\* of the new publisher is put before its first item.
LEMMA LocksKeeps ==
    ASSUME PubSubInv, NEW t \in Thread, Locks(t)
    PROVE  PubSubInv'
  <1> USE DEF PubSubInv, Goto
  <1>1. /\ mutex = NULL /\ mutex' = t
        /\ \A u \in Thread : pc[u] \notin Locked
        /\ UNCHANGED <<subscription, released>>
        /\ \A u \in Thread : it[u] = NULL
    <2>1. mutex = NULL /\ mutex' = t /\ UNCHANGED <<subscription, released>>
      BY DEF Locks, Subscribe, Unsubscribe, Publish, Free
    <2>2. \A u \in Thread : pc[u] \notin Locked
      BY <2>1, NullFresh DEF TypeOK
    <2>3. \A u \in Thread : it[u] = NULL
      BY <2>2 DEF Iterates, Publishing, Locked
    <2> QED
      BY <2>1, <2>2, <2>3
  <1>2. CASE Subscribe(t)
    <2>1. /\ subscription[t] \in Subscription
          /\ subscription[t] \in released
          /\ pc[t] = "subscribe"
          /\ pc' = [pc EXCEPT ![t] = "subscribed"]
          /\ items' = <<subscription[t]>> \o items
          /\ UNCHANGED <<it, present, called>>
      BY <1>2 DEF Subscribe, Hands, Asks, TypeOK
    <2>2. subscription[t] \notin ToSet(items)
      BY <1>1, <2>1 DEF Listed, Locked
    <2>3. /\ items' \in Seq(Subscription) /\ IsInjective(items')
          /\ ToSet(items') = ToSet(items) \cup {subscription[t]}
      BY <2>1, <2>2, ConsFacts DEF TypeOK, Listed
    <2>4. TypeOK'
      BY <1>1, <2>1, <2>3 DEF TypeOK, Locked
    <2>5. Hands'
      BY <1>1, <2>1 DEF Hands, Asks, TypeOK
    <2>6. Listed'
      BY <1>1, <2>1, <2>3 DEF Listed, TypeOK, Locked
    <2>7. Iterates'
      BY <1>1, <2>1 DEF Iterates, Publishing, TypeOK, Locked
    <2> QED
      BY <2>4, <2>5, <2>6, <2>7
  <1>3. CASE Unsubscribe(t)
    <2>1. /\ subscription[t] \in Subscription
          /\ subscription[t] \notin released
          /\ pc[t] = "unsubscribe"
          /\ pc' = [pc EXCEPT ![t] = "unsubscribed"]
          /\ UNCHANGED <<it, present, called>>
      BY <1>3 DEF Unsubscribe, Hands, Asks, TypeOK
    <2>2. PICK j \in DOMAIN items : items[j] = subscription[t]
      BY <1>3 DEF Unsubscribe, ToSet
    <2>3. items' = RemoveAt(items, j)
      BY <1>3, <2>2, PositionFacts, LenProperties DEF Unsubscribe, TypeOK, Listed
    <2>4. /\ items' \in Seq(Subscription) /\ IsInjective(items')
          /\ ToSet(items') = ToSet(items) \ {subscription[t]}
      BY <2>2, <2>3, RemoveAtFacts DEF TypeOK, Listed
    <2>5. TypeOK'
      BY <1>1, <2>1, <2>4 DEF TypeOK, Locked
    <2>6. Hands'
      BY <1>1, <2>1 DEF Hands, Asks, TypeOK
    <2>7. Listed'
      BY <1>1, <2>1, <2>4 DEF Listed, TypeOK, Locked
    <2>8. Iterates'
      BY <1>1, <2>1 DEF Iterates, Publishing, TypeOK, Locked
    <2> QED
      BY <2>5, <2>6, <2>7, <2>8
  <1>4. CASE Publish(t)
    <2>1. /\ pc[t] = "publish"
          /\ pc' = [pc EXCEPT ![t] = "iterate"]
          /\ it' = [it EXCEPT ![t] = First]
          /\ present' = [present EXCEPT ![t] = ToSet(items)]
          /\ called' = [called EXCEPT ![t] = <<>>]
          /\ UNCHANGED items
      BY <1>4 DEF Publish
    <2>2. /\ Len(items) \in Nat
          /\ First = IF Len(items) = 0 THEN NULL ELSE items[1]
          /\ First \in Subscription \cup {NULL}
          /\ ToSet(items) \subseteq Subscription
      BY LenProperties, EmptySeq DEF First, TypeOK, ToSet
    <2>3. TypeOK'
      BY <1>1, <2>1, <2>2 DEF TypeOK, Locked
    <2>4. Hands' /\ Listed'
      BY <1>1, <2>1 DEF Hands, Listed, Asks, TypeOK
    <2>5. Iterates'
      BY <1>1, <2>1, <2>2 DEF Iterates, Publishing, TypeOK, Locked
    <2> QED
      BY <2>3, <2>4, <2>5
  <1> QED
    BY <1>2, <1>3, <1>4 DEF Locks

\* Under the mutex: the list stays as it is while its publisher walks it, and the
\* others wait.
LEMMA StepKeeps ==
    ASSUME PubSubInv, NEW t \in Thread, Step(t)
    PROVE  PubSubInv'
  <1> USE DEF PubSubInv, Goto
  <1>1. /\ mutex = t /\ pc[t] \in Locked
        /\ \A u \in Thread \ {t} : pc[u] \notin Locked /\ it[u] = NULL
        /\ UNCHANGED items
    <2>1. pc[t] \in Locked /\ UNCHANGED items
      BY DEF Step, SubscribeReturn, UnsubscribeReturn, PublishCallback, CallbackReturn,
             PublishReturn, Locked
    <2>2. mutex = t /\ \A u \in Thread \ {t} : pc[u] \notin Locked
      BY <2>1 DEF TypeOK
    <2>3. \A u \in Thread \ {t} : it[u] = NULL
      BY <2>2 DEF Iterates, Publishing, Locked
    <2> QED
      BY <2>1, <2>2, <2>3
  <1>2. /\ items \in Seq(Subscription) /\ Len(items) \in Nat
        /\ \A k \in 1..Len(items) : items[k] \in Subscription
        /\ called[t] \in Seq(Subscription) /\ Len(called[t]) \in Nat
    BY LenProperties, ElementOfSeq DEF TypeOK
  <1>3. CASE SubscribeReturn(t) \/ UnsubscribeReturn(t)
    <2>1. /\ mutex' = NULL /\ UNCHANGED <<it, present, called>>
          /\ pc[t] \in {"subscribed", "unsubscribed"}
          /\ pc' = [pc EXCEPT ![t] = "idle"]
          /\ subscription' = [subscription EXCEPT ![t] = NULL]
          /\ released' = IF pc[t] = "subscribed" THEN released \ {subscription[t]}
                         ELSE released \cup {subscription[t]}
          /\ subscription[t] \in Subscription
      BY <1>3 DEF SubscribeReturn, UnsubscribeReturn, Hands, Asks, TypeOK
    <2>2. TypeOK'
      BY <1>1, <2>1, NullFresh DEF TypeOK, Locked
    <2>3. Hands'
      BY <2>1 DEF Hands, Asks, TypeOK
    <2>4. Listed'
      BY <1>1, <2>1 DEF Listed, Hands, Asks, TypeOK, Locked
    <2>5. Iterates'
      BY <1>1, <2>1 DEF Iterates, Publishing, TypeOK, Locked
    <2> QED
      BY <2>2, <2>3, <2>4, <2>5
  <1>4. CASE PublishCallback(t)
    <2>1. /\ pc[t] = "iterate" /\ it[t] # NULL
          /\ pc' = [pc EXCEPT ![t] = "callback"]
          /\ called' = [called EXCEPT ![t] = Append(called[t], it[t])]
          /\ UNCHANGED <<mutex, subscription, it, released, present>>
      BY <1>4 DEF PublishCallback
    <2> DEFINE n == Len(called[t])
    <2>2. n < Len(items) /\ it[t] = items[n + 1]
      BY <1>2, <2>1 DEF Iterates, Publishing
    <2>3. /\ called'[t] \in Seq(Subscription) /\ Len(called'[t]) = n + 1
          /\ \A k \in 1..n : called'[t][k] = called[t][k]
          /\ called'[t][n + 1] = items[n + 1]
          /\ \A u \in Thread \ {t} : called'[u] = called[u]
      BY <1>2, <2>1, <2>2, AppendProperties DEF TypeOK
    <2>4. TypeOK'
      BY <1>1, <2>1, <2>3 DEF TypeOK, Locked
    <2>5. Hands' /\ Listed'
      BY <1>1, <2>1 DEF Hands, Listed, Asks, TypeOK
    <2>6. \A k \in 1..n + 1 : called'[t][k] = items[k]
      <3>1. \A k \in 1..n + 1 : k \in 1..n \/ k = n + 1
        BY <1>2
      <3> QED
        BY <2>1, <2>3, <3>1 DEF Iterates, Publishing
    <2>7. Iterates'
      <3> HIDE DEF n
      <3> SUFFICES ASSUME NEW u \in Thread
                   PROVE  /\ it'[u] # NULL => pc'[u] \in Publishing
                          /\ pc'[u] \in Publishing =>
                              /\ present'[u] = ToSet(items')
                              /\ Len(called'[u]) <= Len(items')
                              /\ \A k \in 1..Len(called'[u]) : called'[u][k] = items'[k]
                          /\ pc'[u] = "iterate" =>
                              it'[u] = IF Len(called'[u]) = Len(items') THEN NULL
                                       ELSE items'[Len(called'[u]) + 1]
                          /\ pc'[u] \in {"callback", "again"} =>
                              Len(called'[u]) > 0 /\ it'[u] = items'[Len(called'[u])]
        BY DEF Iterates
      <3>1. CASE u = t
        <4>1. n \in Nat
          BY <1>2 DEF n
        <4> QED
          BY <1>1, <1>2, <2>1, <2>2, <2>3, <2>6, <3>1, <4>1 DEF Iterates, Publishing, TypeOK
      <3>2. CASE u # t
        BY <1>1, <2>1, <3>2 DEF Publishing, TypeOK, Locked
      <3> QED
        BY <3>1, <3>2
    <2> QED
      BY <2>4, <2>5, <2>7
  <1>5. CASE CallbackReturn(t)
    <2>1. /\ pc[t] = "callback"
          /\ pc' = [pc EXCEPT ![t] = "iterate"]
          /\ it' = [it EXCEPT ![t] = Following(it[t])]
          /\ UNCHANGED <<mutex, subscription, released, present, called>>
      BY <1>5 DEF CallbackReturn, Advanced
    <2> DEFINE n == Len(called[t])
    <2>2. n \in 1..Len(items) /\ it[t] = items[n]
      BY <1>2, <2>1 DEF Iterates, Publishing
    <2>3. Following(it[t]) = IF n = Len(items) THEN NULL ELSE items[n + 1]
      BY <1>2, <2>2, PositionFacts DEF Following, Listed
    <2>4. Following(it[t]) \in Subscription \cup {NULL}
      BY <1>2, <2>2, <2>3
    <2>5. TypeOK'
      BY <1>1, <2>1, <2>4 DEF TypeOK, Locked
    <2>6. Hands' /\ Listed'
      BY <1>1, <2>1 DEF Hands, Listed, Asks, TypeOK
    <2>7. Iterates'
      BY <1>1, <2>1, <2>3 DEF Iterates, Publishing, TypeOK, Locked
    <2> QED
      BY <2>5, <2>6, <2>7
  <1>6. CASE PublishReturn(t)
    <2>1. /\ pc[t] = "iterate" /\ it[t] = NULL
          /\ pc' = [pc EXCEPT ![t] = "idle"]
          /\ mutex' = NULL
          /\ present' = [present EXCEPT ![t] = {}]
          /\ called' = [called EXCEPT ![t] = <<>>]
          /\ UNCHANGED <<subscription, it, released>>
      BY <1>6 DEF PublishReturn
    <2>2. TypeOK'
      BY <1>1, <2>1, NullFresh DEF TypeOK, Locked
    <2>3. Hands' /\ Listed'
      BY <1>1, <2>1 DEF Hands, Listed, Asks, TypeOK
    <2>4. Iterates'
      BY <1>1, <2>1 DEF Iterates, Publishing, TypeOK, Locked
    <2> QED
      BY <2>2, <2>3, <2>4
  <1> QED
    BY <1>3, <1>4, <1>5, <1>6 DEF Step

\* The mutex keeps every thread's view of the list true: PubSubInv is inductive.
THEOREM PubSubInvariance == Spec => []PubSubInv
  <1>1. PubSubInv /\ [Next]_vars => PubSubInv'
    <2> SUFFICES ASSUME PubSubInv, [Next]_vars PROVE PubSubInv'
      OBVIOUS
    <2>1. CASE UNCHANGED vars
      BY <2>1 DEF vars, PubSubInv, TypeOK, Hands, Listed, Iterates
    <2> QED
      BY <2>1, RequestKeeps, LocksKeeps, StepKeeps DEF Next
  <1> QED
    BY PubSubInitially, <1>1, PTL DEF Spec

\* pubsub.h: no callback of a subscription runs, and no iterator is on it, once
\* furi_pubsub_unsubscribe has returned to whoever frees its context.
THEOREM UnsubscribedIsSafe == Spec => []NoCallbackAfterUnsubscribe
  <1>1. PubSubInv => NoCallbackAfterUnsubscribe
    <2> SUFFICES ASSUME PubSubInv, NEW t \in Thread, it[t] # NULL
                 PROVE  it[t] \in ToSet(items) /\ it[t] \notin released
      BY DEF NoCallbackAfterUnsubscribe
    <2> USE DEF PubSubInv
    <2>1. pc[t] \in Publishing /\ pc[t] \in Locked /\ mutex = t
      BY DEF Iterates, Publishing, Locked, TypeOK
    <2>2. \E k \in 1..Len(items) : it[t] = items[k]
      <3>1. Len(items) \in Nat /\ Len(called[t]) \in Nat
        BY LenProperties DEF TypeOK
      <3> QED
        BY <2>1, <3>1 DEF Iterates, Publishing
    <2>3. it[t] \in ToSet(items) /\ it[t] \in Subscription
      BY <2>2, LenProperties, ElementOfSeq DEF ToSet, TypeOK
    <2>4. \A u \in Thread : pc[u] # "subscribed"
      BY <2>1 DEF TypeOK, Locked, Publishing
    <2> QED
      BY <2>3, <2>4 DEF Listed
  <1> QED
    BY PubSubInvariance, <1>1, PTL

\* A publisher that reaches the end of the list has called every subscription it
\* found, once, whatever the others were asking for meanwhile.
THEOREM PublishReachesAll == Spec => []ReachesEverySubscriber
  <1>1. PubSubInv => ReachesEverySubscriber
    <2> SUFFICES ASSUME PubSubInv, NEW t \in Thread, pc[t] = "iterate", it[t] = NULL
                 PROVE  IsInjective(called[t]) /\ ToSet(called[t]) = present[t]
      BY DEF ReachesEverySubscriber
    <2> USE DEF PubSubInv
    <2>1. /\ Len(items) \in Nat /\ Len(called[t]) \in Nat
          /\ DOMAIN items = 1..Len(items) /\ DOMAIN called[t] = 1..Len(called[t])
          /\ \A k \in 1..Len(items) : items[k] # NULL
      BY LenProperties, ElementOfSeq, NullFresh DEF TypeOK
    <2>2. Len(called[t]) = Len(items)
      BY <2>1 DEF Iterates, Publishing
    <2>3. /\ \A k \in 1..Len(items) : called[t][k] = items[k]
          /\ present[t] = ToSet(items)
      BY <2>2 DEF Iterates, Publishing
    <2> QED
      BY <2>1, <2>2, <2>3 DEF Listed, IsInjective, ToSet
  <1> QED
    BY PubSubInvariance, <1>1, PTL

\* The furi_check of furi_pubsub_unsubscribe: for a caller that unsubscribes what
\* it has subscribed, and once, the search always finds the item.
SearchSucceeds == \A t \in Thread : pc[t] = "unsubscribe" => subscription[t] \in ToSet(items)

\* SearchSucceeds holds however many threads subscribe, unsubscribe and publish
\* while this one waits for the mutex: the furi_check never fails.
THEOREM UnsubscribeCheckHolds == Spec => []SearchSucceeds
  <1>1. PubSubInv => SearchSucceeds
    BY DEF PubSubInv, SearchSucceeds, Listed, Hands, Asks, TypeOK
  <1> QED
    BY PubSubInvariance, <1>1, PTL

=============================================================================
