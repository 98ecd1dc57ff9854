-------------------------- MODULE SimBookingProofs --------------------------
(***************************************************************************)
(* For every set of threads, every TTL and every bound: SimBooking is type *)
(* correct, answers are stored in the order the broker produced them, no   *)
(* fresh snapshot is fetched again, and the gateway implements AccountView.*)
(***************************************************************************)
EXTENDS SimBooking, TLAPS

\* Inside the lock there is one thread: the owner.
OnlyOwnerInside == \A t \in Threads : pc[t] \in {"locked", "replied"} => lock = t

\* No read has shown, and no cache entry holds, a version beyond the account's;
\* a cached entry is at least as new as what has been shown, and there is one
\* only when the cache is on.
CacheBetween ==
    \A k \in Kinds :
        /\ shown[k] <= book
        /\ cache[k].seen <= book
        /\ cache[k].full => Ttl > 0 /\ shown[k] <= cache[k].seen

\* The answer in flight is at least as new as anything shown or cached.
ReplyIsNewest ==
    \A t \in Threads : pc[t] = "replied" =>
        /\ got[t] <= book
        /\ shown[kind[t]] <= got[t]
        /\ cache[kind[t]].seen <= got[t]

\* While an answer is on its way to the cache nothing fresh of its kind is there.
ReplyFillsAGap == \A t \in Threads : pc[t] = "replied" => ~Fresh(kind[t])

IInv == TypeOK /\ OnlyOwnerInside /\ CacheBetween /\ ReplyIsNewest

\* The type invariant is inductive by itself.
THEOREM TypeCorrect == Spec => []TypeOK
<1>1. Init => TypeOK
  BY DEF Init, TypeOK, Empty, Entry, Stages
<1>2. TypeOK /\ [Next]_vars => TypeOK'
  <2> SUFFICES ASSUME TypeOK, [Next]_vars PROVE TypeOK'
    OBVIOUS
  <2> USE DEF TypeOK, Entry, Stages
  <2>1. CASE UNCHANGED vars
    BY <2>1 DEF vars
  <2>2. CASE MarketMoves \/ Tick
    BY <2>2 DEF MarketMoves, Tick, AccountChanges, callVars
  <2>3. ASSUME NEW t \in Threads, Step(t) PROVE TypeOK'
    <3>1. ASSUME NEW k \in Kinds, ReadHit(t, k) \/ ReadMiss(t, k) PROVE TypeOK'
      BY <3>1 DEF ReadHit, ReadMiss, Answer, callVars
    <3>2. CASE TakeLock(t)
      BY <3>2 DEF TakeLock
    <3>3. CASE Recheck(t)
      BY <3>3 DEF Recheck, Answer
    <3>4. CASE BrokerReplies(t) \/ ReadFails(t)
      BY <3>4 DEF BrokerReplies, ReadFails
    <3>5. CASE Store(t)
      BY <3>5 DEF Store, Answer
    <3>6. CASE PostOrder(t) \/ CancelOrder(t) \/ PostSpread(t)
      BY <3>6 DEF PostOrder, CancelOrder, PostSpread, AccountChanges, callVars
    <3>7. CASE Invalidate(t)
      BY <3>7 DEF Invalidate, Empty
    <3>8. QED
      BY <2>3, <3>1, <3>2, <3>3, <3>4, <3>5, <3>6, <3>7 DEF Step
  <2>4. QED
    BY <2>1, <2>2, <2>3 DEF Next
<1>3. QED
  BY <1>1, <1>2, PTL DEF Spec

LEMMA InvInitially == Init => IInv
<1> SUFFICES ASSUME Init PROVE IInv
  OBVIOUS
<1>1. TypeOK
  BY DEF Init, TypeOK, Empty, Entry, Stages
<1>2. OnlyOwnerInside /\ CacheBetween /\ ReplyIsNewest
  BY DEF Init, OnlyOwnerInside, CacheBetween, ReplyIsNewest, Empty
<1>3. QED
  BY <1>1, <1>2 DEF IInv

LEMMA InvPreserved == IInv /\ TypeOK' /\ [Next]_vars => IInv'
<1> SUFFICES ASSUME IInv, TypeOK', [Next]_vars
             PROVE (OnlyOwnerInside /\ CacheBetween /\ ReplyIsNewest)'
  BY DEF IInv
<1> USE DEF IInv, TypeOK, Entry, Stages, OnlyOwnerInside, CacheBetween, ReplyIsNewest
<1>1. CASE UNCHANGED vars
  BY <1>1 DEF vars
<1>2. CASE MarketMoves \/ Tick
  BY <1>2 DEF MarketMoves, Tick, AccountChanges, callVars
<1>3. ASSUME NEW t \in Threads, Step(t)
      PROVE (OnlyOwnerInside /\ CacheBetween /\ ReplyIsNewest)'
  <2>1. ASSUME NEW k \in Kinds, ReadHit(t, k)
        PROVE (OnlyOwnerInside /\ CacheBetween /\ ReplyIsNewest)'
    BY <2>1 DEF ReadHit, Fresh, Answer, callVars
  <2>2. ASSUME NEW k \in Kinds, ReadMiss(t, k)
        PROVE (OnlyOwnerInside /\ CacheBetween /\ ReplyIsNewest)'
    BY <2>2 DEF ReadMiss
  <2>3. CASE TakeLock(t)
    BY <2>3, NobodyAssumption DEF TakeLock
  <2>4. CASE Recheck(t)
    BY <2>4, NobodyAssumption DEF Recheck, Fresh, Answer
  <2>5. CASE BrokerReplies(t)
    BY <2>5 DEF BrokerReplies
  <2>6. CASE ReadFails(t)
    BY <2>6, NobodyAssumption DEF ReadFails
  <2>7. CASE Store(t)
    <3>1. OnlyOwnerInside'
      BY <2>7, NobodyAssumption DEF Store, Answer
    <3>2. CacheBetween'
      BY <2>7 DEF Store, Answer
    <3>3. ReplyIsNewest'
      BY <2>7, NobodyAssumption DEF Store, Answer
    <3>4. QED
      BY <3>1, <3>2, <3>3
  <2>8. CASE PostOrder(t) \/ CancelOrder(t) \/ PostSpread(t)
    BY <2>8 DEF PostOrder, CancelOrder, PostSpread, AccountChanges, callVars
  <2>9. CASE Invalidate(t)
    BY <2>9 DEF Invalidate, Empty
  <2>10. QED
    BY <1>3, <2>1, <2>2, <2>3, <2>4, <2>5, <2>6, <2>7, <2>8, <2>9 DEF Step
<1>4. QED
  BY <1>1, <1>2, <1>3 DEF Next

LEMMA InvHolds == Spec => []IInv
<1>1. IInv /\ [Next]_vars /\ TypeOK' => IInv'
  BY InvPreserved
<1>2. QED
  BY InvInitially, <1>1, TypeCorrect, PTL DEF Spec

\* Answers enter the cache in the order the broker produced them, because they
\* are fetched and stored under one lock.
THEOREM StoresAreInOrder == Spec => []StoresInOrder
<1>1. IInv => StoresInOrder
  BY DEF IInv, OnlyOwnerInside, ReplyIsNewest, StoresInOrder
<1>2. QED
  BY <1>1, InvHolds, PTL

\* Every step of the gateway is a step of AccountView or leaves it alone.
LEMMA StepsRefine == IInv /\ [Next]_vars => [View!Next]_View!viewVars
<1> SUFFICES ASSUME IInv, [Next]_vars, ~UNCHANGED View!viewVars PROVE View!Next
  OBVIOUS
<1> USE DEF IInv, TypeOK, View!viewVars
<1>1. ASSUME NEW k \in Kinds, NEW v \in Nat, Answer(k, v),
             shown[k] <= v, v <= book, UNCHANGED book
      PROVE View!Next
  <2>1. v \in shown[k]..book
    BY <1>1
  <2>2. View!Show(k)
    BY <1>1, <2>1 DEF Answer, View!Show
  <2>3. QED
    BY <2>2 DEF View!Next
<1>2. CASE book' = book + 1 /\ UNCHANGED shown
  BY <1>2 DEF View!Next, View!AccountMoves
<1>3. CASE MarketMoves \/ Tick
  BY <1>2, <1>3 DEF MarketMoves, Tick, AccountChanges
<1>4. ASSUME NEW t \in Threads, Step(t) PROVE View!Next
  <2>1. ASSUME NEW k \in Kinds, ReadHit(t, k) PROVE View!Next
    BY <1>1, <2>1 DEF ReadHit, Fresh, CacheBetween, Entry
  <2>2. CASE Recheck(t)
    BY <1>1, <2>2 DEF Recheck, Fresh, CacheBetween, Entry
  <2>3. CASE Store(t)
    BY <1>1, <2>3 DEF Store, ReplyIsNewest
  <2>4. CASE PostOrder(t) \/ CancelOrder(t) \/ PostSpread(t)
    BY <1>2, <2>4 DEF PostOrder, CancelOrder, PostSpread, AccountChanges
  <2>5. CASE (\E k \in Kinds : ReadMiss(t, k)) \/ TakeLock(t) \/ BrokerReplies(t)
               \/ ReadFails(t) \/ Invalidate(t)
    BY <2>5 DEF ReadMiss, TakeLock, BrokerReplies, ReadFails, Invalidate
  <2>6. QED
    BY <1>4, <2>1, <2>2, <2>3, <2>4, <2>5 DEF Step
<1>5. QED
  BY <1>3, <1>4 DEF Next, vars

\* The gateway implements AccountView: readers of a kind are never taken back
\* in time and never shown a version the account has not had.
THEOREM GatewayImplementsView == Spec => ReadsNeverGoBack
<1>1. Init => View!Init
  BY DEF Init, View!Init
<1>2. QED
  BY <1>1, StepsRefine, InvHolds, PTL DEF Spec, View!Spec, ReadsNeverGoBack

\* Only a GET that was answered before an order leaves a read older than that
\* order in the cache (StaleOnlyFromFlight).
THEOREM StaleComesFromFlight == Spec => StaleOnlyFromFlight
<1> DEFINE Fills ==
        \A k \in Kinds :
            (cache'[k].full /\ cache'[k].seen < placed') =>
                \/ cache[k].full /\ cache[k].seen < placed
                \/ \E t \in Threads : pc[t] = "replied" /\ kind[t] = k /\ got[t] < placed
<1>1. TypeOK /\ [Next]_vars => [Fills]_vars
  <2> SUFFICES ASSUME TypeOK, [Next]_vars PROVE Fills
    OBVIOUS
  <2>1. CASE UNCHANGED <<cache, placed>>
    BY <2>1
  <2>2. ASSUME NEW t \in Threads, Store(t) PROVE Fills
    <3>1. /\ placed' = placed
          /\ pc[t] = "replied"
          /\ kind[t] \in Kinds
          /\ cache \in [Kinds -> Entry]
      BY <2>2 DEF TypeOK, Store
    <3>2. ASSUME NEW k \in Kinds, k # kind[t] PROVE cache'[k] = cache[k]
      BY <2>2, <3>1, <3>2 DEF Store
    <3>3. cache'[kind[t]] = cache[kind[t]] \/ cache'[kind[t]].seen = got[t]
      BY <2>2, <3>1 DEF Store
    <3> QED BY <3>1, <3>2, <3>3
  <2>3. ASSUME NEW t \in Threads, Invalidate(t) PROVE Fills
    BY <2>3 DEF Invalidate, Empty
  <2>4. CASE MarketMoves \/ Tick \/ UNCHANGED vars
    BY <2>1, <2>4 DEF MarketMoves, Tick, vars
  <2>5. ASSUME NEW t \in Threads, Step(t) PROVE Fills
    <3>1. Store(t) \/ Invalidate(t) \/ UNCHANGED <<cache, placed>>
      BY <2>5 DEF Step, ReadHit, ReadMiss, TakeLock, Recheck, BrokerReplies, ReadFails,
                  PostOrder, PostSpread, CancelOrder
    <3> QED BY <2>1, <2>2, <2>3, <3>1
  <2> QED BY <2>4, <2>5 DEF Next
<1> QED BY <1>1, TypeCorrect, PTL DEF Spec, StaleOnlyFromFlight

LEMMA GapHolds == Spec => []ReplyFillsAGap
<1>1. Init => ReplyFillsAGap
  BY DEF Init, ReplyFillsAGap
<1>2. IInv /\ ReplyFillsAGap /\ TypeOK' /\ [Next]_vars => ReplyFillsAGap'
  <2> SUFFICES ASSUME IInv, ReplyFillsAGap, TypeOK', [Next]_vars,
                      NEW t \in Threads, pc'[t] = "replied"
               PROVE ~Fresh(kind[t])'
    BY DEF ReplyFillsAGap
  <2> USE DEF IInv, TypeOK, Stages
  <2>1. ASSUME pc[t] = "replied", kind'[t] = kind[t],
               \/ cache' = cache /\ now' \in {now, now + 1}
               \/ \A k \in Kinds : ~cache'[k].full
        PROVE ~Fresh(kind[t])'
    <3>1. ~Fresh(kind[t]) /\ kind[t] \in Kinds
      BY <2>1 DEF ReplyFillsAGap
    <3>2. CASE cache' = cache /\ now' \in {now, now + 1}
      <4>1. cache[kind[t]].at \in Nat
        BY <3>1 DEF Entry
      <4>2. QED
        BY <2>1, <3>1, <3>2, <4>1, TtlAssumption DEF Fresh
    <3>3. CASE \A k \in Kinds : ~cache'[k].full
      BY <2>1, <3>1, <3>3 DEF Fresh
    <3>4. QED
      BY <2>1, <3>2, <3>3
  <2>2. CASE UNCHANGED vars \/ MarketMoves \/ Tick
    <3>1. pc' = pc /\ kind' = kind /\ cache' = cache /\ now' \in {now, now + 1}
      BY <2>2 DEF vars, MarketMoves, Tick, callVars
    <3>2. QED
      BY <2>1, <3>1
  <2>3. ASSUME NEW u \in Threads, Step(u) PROVE ~Fresh(kind[t])'
    <3>1. CASE BrokerReplies(u)
      <4>1. u = t
        BY <3>1, NobodyAssumption DEF BrokerReplies, OnlyOwnerInside
      <4>2. ~Fresh(kind[t]) /\ cache' = cache /\ now' = now /\ kind' = kind
        BY <3>1, <4>1 DEF BrokerReplies
      <4>3. QED
        BY <4>2 DEF Fresh
    <3>2. CASE Store(u)
      BY <3>2, NobodyAssumption DEF Store, OnlyOwnerInside
    <3>3. CASE Invalidate(u)
      <4>1. pc[t] = "replied" /\ kind' = kind
        BY <3>3 DEF Invalidate
      <4>2. \A k \in Kinds : ~cache'[k].full
        BY <3>3 DEF Invalidate, Empty
      <4>3. QED
        BY <2>1, <4>1, <4>2
    <3>4. ASSUME NEW k \in Kinds, ReadHit(u, k) \/ ReadMiss(u, k)
          PROVE ~Fresh(kind[t])'
      <4>1. /\ pc[t] = "replied" /\ kind'[t] = kind[t]
            /\ cache' = cache /\ now' = now
        BY <3>4 DEF ReadHit, ReadMiss, callVars
      <4>2. QED
        BY <2>1, <4>1
    <3>5. CASE \/ TakeLock(u) \/ Recheck(u) \/ ReadFails(u)
               \/ PostOrder(u) \/ PostSpread(u) \/ CancelOrder(u)
      <4>1. /\ pc[t] = "replied" /\ kind' = kind
            /\ cache' = cache /\ now' = now
        BY <3>5 DEF TakeLock, Recheck, ReadFails, PostOrder, PostSpread, CancelOrder, callVars
      <4>2. QED
        BY <2>1, <4>1
    <3>6. QED
      BY <2>3, <3>1, <3>2, <3>3, <3>4, <3>5 DEF Step
  <2>4. QED
    BY <2>2, <2>3 DEF Next
<1>3. QED
  BY <1>1, <1>2, InvHolds, TypeCorrect, PTL DEF Spec

\* A fresh snapshot is dropped or served, but no second fetch replaces it: the
\* second look is taken under the lock that the store still holds.
THEOREM FetchesAreSingle == Spec => OneFetchPerWindow
<1> DEFINE Keeps == \A k \in Kinds : Fresh(k) /\ cache'[k] # cache[k] => ~cache'[k].full
<1>1. TypeOK /\ ReplyFillsAGap /\ [Next]_vars => [Keeps]_vars
  <2> SUFFICES ASSUME TypeOK, ReplyFillsAGap, [Next]_vars,
                      NEW k \in Kinds, Fresh(k), cache'[k] # cache[k]
               PROVE ~cache'[k].full
    OBVIOUS
  <2>1. PICK t \in Threads : Store(t) \/ Invalidate(t)
    BY DEF Next, vars, MarketMoves, Tick, Step, ReadHit, ReadMiss, TakeLock, Recheck,
           BrokerReplies, ReadFails, PostOrder, PostSpread, CancelOrder
  <2>2. CASE Store(t)
    <3>1. kind[t] # k
      BY <2>2 DEF Store, ReplyFillsAGap
    <3>2. cache'[k] = cache[k]
      BY <2>2, <3>1 DEF Store, TypeOK
    <3>3. QED
      BY <3>2
  <2>3. CASE Invalidate(t)
    BY <2>3 DEF Invalidate, Empty
  <2>4. QED
    BY <2>1, <2>2, <2>3
<1>2. QED
  BY <1>1, TypeCorrect, GapHolds, PTL DEF Spec, OneFetchPerWindow
=============================================================================
