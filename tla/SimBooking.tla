----------------------------- MODULE SimBooking -----------------------------
(***************************************************************************)
(* The SIM broker gateway (tradestation_sim_booking_engine.py): reads go   *)
(* through a short-TTL cache whose misses are single-flighted by a lock,   *)
(* while other threads place, cancel and spread orders and the market      *)
(* fills them.  The account's content is abstracted to a version number    *)
(* that every change at the broker increments; what matters here is which  *)
(* version a reader is handed.                                             *)
(***************************************************************************)
EXTENDS Naturals

CONSTANTS
    Threads,   \* threads of the process that use the gateway
    Nobody,    \* the owner of a free lock
    Kinds,     \* kinds of account reads: balances, positions, orders
    Ttl,       \* GREYLINE_BROKER_READ_CACHE_TTL, in ticks; 0 disables the cache
    MaxTime,   \* bound on the clock
    MaxBook    \* bound on the number of changes at the broker

ASSUME NobodyAssumption == Nobody \notin Threads
ASSUME TtlAssumption == Ttl \in Nat
ASSUME BoundsAssumption == MaxTime \in Nat /\ MaxBook \in Nat

VARIABLES
    book,      \* version of the SIM account at the broker
    now,       \* time.monotonic()
    cache,     \* _READ_CACHE
    lock,      \* owner of _READ_LOCK
    pc,        \* where each thread is in _read, place_order or place_multileg
    kind,      \* the kind each thread is reading
    got,       \* version carried by the answer a thread holds
    shown,     \* newest version handed to a reader of each kind
    placed     \* newest version left by a place_order that has returned

vars == <<book, now, cache, lock, pc, kind, got, shown, placed>>
callVars == <<pc, kind, got>>

Entry == [full : BOOLEAN, at : Nat, seen : Nat]
Empty == [full |-> FALSE, at |-> 0, seen |-> 0]
Stages == {"idle", "waiting", "locked", "replied", "accepted"}

TypeOK ==
    /\ book \in Nat
    /\ now \in Nat
    /\ cache \in [Kinds -> Entry]
    /\ lock \in Threads \cup {Nobody}
    /\ pc \in [Threads -> Stages]
    /\ kind \in [Threads -> Kinds]
    /\ got \in [Threads -> Nat]
    /\ shown \in [Kinds -> Nat]
    /\ placed \in Nat

Init ==
    /\ book = 0
    /\ now = 0
    /\ cache = [k \in Kinds |-> Empty]
    /\ lock = Nobody
    /\ pc = [t \in Threads |-> "idle"]
    /\ kind \in [Threads -> Kinds]
    /\ got = [t \in Threads |-> 0]
    /\ shown = [k \in Kinds |-> 0]
    /\ placed = 0

-----------------------------------------------------------------------------
(* _read *)

\* A cached answer younger than the TTL.
Fresh(k) == Ttl > 0 /\ cache[k].full /\ now - cache[k].at < Ttl

\* A read returns version v of kind k to its caller.
Answer(k, v) == shown' = [shown EXCEPT ![k] = v]

\* The first look at the cache, taken without the lock.
ReadHit(t, k) ==
    /\ pc[t] = "idle"
    /\ Fresh(k)
    /\ Answer(k, cache[k].seen)
    /\ UNCHANGED <<book, now, cache, lock, callVars, placed>>

ReadMiss(t, k) ==
    /\ pc[t] = "idle"
    /\ ~Fresh(k)
    /\ pc' = [pc EXCEPT ![t] = "waiting"]
    /\ kind' = [kind EXCEPT ![t] = k]
    /\ UNCHANGED <<book, now, cache, lock, got, shown, placed>>

TakeLock(t) ==
    /\ pc[t] = "waiting"
    /\ lock = Nobody
    /\ lock' = t
    /\ pc' = [pc EXCEPT ![t] = "locked"]
    /\ UNCHANGED <<book, now, cache, kind, got, shown, placed>>

\* The second look, under the lock: another thread may have just fetched.
Recheck(t) ==
    /\ pc[t] = "locked"
    /\ Fresh(kind[t])
    /\ Answer(kind[t], cache[kind[t]].seen)
    /\ lock' = Nobody
    /\ pc' = [pc EXCEPT ![t] = "idle"]
    /\ UNCHANGED <<book, now, cache, kind, got, placed>>

\* Fault: the second look at the cache is left out.
BrokerRepliesUnchecked(t) ==
    /\ pc[t] = "locked"
    /\ got' = [got EXCEPT ![t] = book]
    /\ pc' = [pc EXCEPT ![t] = "replied"]
    /\ UNCHANGED <<book, now, cache, lock, kind, shown, placed>>

\* Fault: the lock covers the request and not the store.
BrokerRepliesUnlocked(t) ==
    /\ pc[t] = "locked"
    /\ ~Fresh(kind[t])
    /\ got' = [got EXCEPT ![t] = book]
    /\ lock' = Nobody
    /\ pc' = [pc EXCEPT ![t] = "replied"]
    /\ UNCHANGED <<book, now, cache, kind, shown, placed>>

\* The broker answers the GET with the account as it is now.
BrokerReplies(t) ==
    /\ pc[t] = "locked"
    /\ ~Fresh(kind[t])
    /\ got' = [got EXCEPT ![t] = book]
    /\ pc' = [pc EXCEPT ![t] = "replied"]
    /\ UNCHANGED <<book, now, cache, lock, kind, shown, placed>>

\* Fault: an exception leaves the lock taken (acquire/release, no `with`).
ReadFailsLocked(t) ==
    /\ pc[t] = "locked"
    /\ ~Fresh(kind[t])
    /\ pc' = [pc EXCEPT ![t] = "idle"]
    /\ UNCHANGED <<book, now, cache, lock, kind, got, shown, placed>>

\* A status other than 200 (after the one retry on 401), or an exception: the
\* caller gets ok = False, nothing is cached and the lock is released.
ReadFails(t) ==
    /\ pc[t] = "locked"
    /\ ~Fresh(kind[t])
    /\ lock' = Nobody
    /\ pc' = [pc EXCEPT ![t] = "idle"]
    /\ UNCHANGED <<book, now, cache, kind, got, shown, placed>>

\* The answer is cached under the time it is stored, not the time it was true.
Store(t) ==
    /\ pc[t] = "replied"
    /\ cache' = IF Ttl > 0
                THEN [cache EXCEPT ![kind[t]] =
                          [full |-> TRUE, at |-> now, seen |-> got[t]]]
                ELSE cache
    /\ Answer(kind[t], got[t])
    /\ lock' = Nobody
    /\ pc' = [pc EXCEPT ![t] = "idle"]
    /\ UNCHANGED <<book, now, kind, got, placed>>

-----------------------------------------------------------------------------
(* Orders *)

\* The account moves to a new version at the broker.
AccountChanges == book < MaxBook /\ book' = book + 1

\* place_order, the POST: the broker accepts.  (A refusal by a gate, the cap
\* or the broker changes nothing.)
PostOrder(t) ==
    /\ pc[t] = "idle"
    /\ AccountChanges
    /\ got' = [got EXCEPT ![t] = book + 1]
    /\ pc' = [pc EXCEPT ![t] = "accepted"]
    /\ UNCHANGED <<now, cache, lock, kind, shown, placed>>

\* Fault: the reads survive the order.
InvalidateNothing(t) ==
    /\ pc[t] = "accepted"
    /\ placed' = IF got[t] > placed THEN got[t] ELSE placed
    /\ pc' = [pc EXCEPT ![t] = "idle"]
    /\ UNCHANGED <<book, now, cache, lock, kind, got, shown>>

\* place_order, after the POST: _invalidate_reads, which takes no lock.
Invalidate(t) ==
    /\ pc[t] = "accepted"
    /\ cache' = [k \in Kinds |-> Empty]
    /\ placed' = IF got[t] > placed THEN got[t] ELSE placed
    /\ pc' = [pc EXCEPT ![t] = "idle"]
    /\ UNCHANGED <<book, now, lock, kind, got, shown>>

\* place_multileg returns without touching the cache.
PostSpread(t) ==
    /\ pc[t] = "idle"
    /\ AccountChanges
    /\ UNCHANGED <<now, cache, lock, callVars, shown, placed>>

\* cancel_order returns without touching the cache.
CancelOrder(t) ==
    /\ pc[t] = "idle"
    /\ AccountChanges
    /\ UNCHANGED <<now, cache, lock, callVars, shown, placed>>

\* A working order fills, or the broker changes the account by itself.
MarketMoves ==
    /\ AccountChanges
    /\ UNCHANGED <<now, cache, lock, callVars, shown, placed>>

Tick ==
    /\ now < MaxTime
    /\ now' = now + 1
    /\ UNCHANGED <<book, cache, lock, callVars, shown, placed>>

-----------------------------------------------------------------------------

Step(t) ==
    \/ \E k \in Kinds : ReadHit(t, k) \/ ReadMiss(t, k)
    \/ TakeLock(t) \/ Recheck(t)
    \/ BrokerReplies(t) \/ ReadFails(t) \/ Store(t)
    \/ PostOrder(t) \/ Invalidate(t) \/ PostSpread(t) \/ CancelOrder(t)

Next == (\E t \in Threads : Step(t)) \/ MarketMoves \/ Tick

Spec == Init /\ [][Next]_vars

\* A thread inside the lock keeps running, and requests.request carries a
\* timeout: it is answered or it fails.
Release(t) == Recheck(t) \/ BrokerReplies(t) \/ ReadFails(t) \/ Store(t)
FairSpec == Spec /\ \A t \in Threads : WF_vars(Release(t)) /\ WF_vars(Invalidate(t))

-----------------------------------------------------------------------------
(* Properties *)

View == INSTANCE AccountView

\* The gateway implements AccountView: whatever the interleaving of hits,
\* misses, stores and invalidations, readers of a kind are never taken back in
\* time and never shown a version the account has not had.
ReadsNeverGoBack == View!Spec

\* Single flight: a snapshot that is still fresh is dropped by an invalidation
\* or served, but no second fetch replaces it (N concurrent callers do one
\* handshake).
OneFetchPerWindow ==
    [][\A k \in Kinds : Fresh(k) /\ cache'[k] # cache[k] => ~cache'[k].full]_vars

\* Only one GET is between the broker's answer and its store, and only by the
\* lock's owner: answers are stored in the order they were produced.
StoresInOrder ==
    \A t \in Threads : pc[t] = "replied" =>
        /\ lock = t
        /\ cache[kind[t]].seen <= got[t]

\* The only way for such a reader to exist is a GET the broker answered before
\* the order and that is stored after its invalidation: no hit, no recheck and no
\* later fetch leaves a read older than the order in the cache.
StaleOnlyFromFlight ==
    [][\A k \in Kinds :
          (cache'[k].full /\ cache'[k].seen < placed') =>
              \/ cache[k].full /\ cache[k].seen < placed
              \/ \E t \in Threads : pc[t] = "replied" /\ kind[t] = k /\ got[t] < placed]_vars

\* Whoever holds the read lock gives it back, also when the broker fails.
LockIsReleased == \A t \in Threads : lock = t ~> lock # t
=============================================================================
