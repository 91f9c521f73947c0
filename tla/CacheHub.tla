------------------------------ MODULE CacheHub ------------------------------
(* The cache subsystem: the registry of caches, its one read-write lock, and  *)
(* the notifications that every change of a cache sends through it to the     *)
(* broker of the event stream (internal/subsystem/cache/cache_subsystem.go,   *)
(* internal/util/evict_cache.go, internal/app/sse_server.go).                 *)
(*                                                                            *)
(* A call is the sequence of the steps it still has to take, so that a        *)
(* notification made with the lock held reads as what it is.  The contents of *)
(* the caches are reduced to a version that every change advances.  The       *)
(* broker has a client throughout: without one its listener returns before    *)
(* it takes a snapshot.                                                       *)
EXTENDS Integers, Sequences, FiniteSets

CONSTANTS
    Actors,      \* goroutines: requests, chain builders, sweepers, the API
    Caches,      \* caches that may be registered
    MaxCalls     \* bound on the calls made

None == "none"
ASSUME HubAssumption == MaxCalls \in Nat /\ None \notin Actors

VARIABLES
    caches,      \* registered caches
    started,     \* the subsystem is initialized
    heard,       \* the broker's change listener is registered
    version,     \* changes of the registry or of a cache
    shown,       \* the last version a broadcast snapshot was taken of
    readers,     \* read locks held, per actor
    writer,      \* the actor that locks or has locked, or None
    exclusive,   \* the writer has the lock
    call,        \* the steps an actor has to take
    arg,         \* the cache its call is about
    calls        \* calls made

hubVars == <<caches, started, heard, version, shown, readers, writer, exclusive, call, arg, calls>>

----------------------------------------------------------------------------
(* The calls.                                                                 *)

\* Snapshots: every cache is copied under the read lock
SnapshotSteps == <<"rlock", "snapshot", "runlock">>

\* NotifyChanged: the listeners are copied under the lock and called without
\* it; the broker's takes a snapshot and broadcasts it
NotifySteps == <<"rlock", "listeners", "runlock">> \o SnapshotSteps

\* CacheValue, GetValue, Evict, sweep: under the cache's own lock, then notify
ChangeSteps == <<"change">> \o NotifySteps

\* Mutant: the notification is made with the lock held.
RegisterLocked == <<"lock", "add">> \o NotifySteps \o <<"unlock">>

RegisterSteps == <<"lock", "add", "unlock">> \o NotifySteps

\* an unknown id returns early
UnregisterSteps == <<"lock", "remove", "unlock">> \o NotifySteps

\* the lock is held across the cache's DeleteEntry, which notifies
DeleteSteps == <<"rlock", "delete">> \o NotifySteps \o <<"runlock">>

RemoveListenerSteps == <<"lock", "unlisten", "unlock">>
InitializeSteps == <<"lock", "start", "unlock">>
ShutdownSteps == <<"lock", "clear", "unlock">>

Call(a, steps, x) ==
    /\ call[a] = <<>> /\ calls < MaxCalls
    /\ call' = [call EXCEPT ![a] = steps] /\ arg' = [arg EXCEPT ![a] = x]
    /\ calls' = calls + 1
    /\ UNCHANGED <<caches, started, heard, version, shown, readers, writer, exclusive>>

Calls(a) ==
    \/ \E x \in Caches : \/ Call(a, ChangeSteps, x)
                         \/ x \notin caches /\ Call(a, RegisterSteps, x)
                         \/ Call(a, UnregisterSteps, x)
                         \/ Call(a, DeleteSteps, x)
    \/ \E x \in Caches : \/ Call(a, SnapshotSteps, x)
                         \/ heard /\ Call(a, RemoveListenerSteps, x)
                         \/ ~started /\ Call(a, InitializeSteps, x)
                         \/ started /\ Call(a, ShutdownSteps, x)

----------------------------------------------------------------------------
(* The steps.                                                                 *)

At(a, label) == call[a] # <<>> /\ Head(call[a]) = label
Proceed(a) == call' = [call EXCEPT ![a] = Tail(@)] /\ UNCHANGED <<arg, calls>>

\* a notification nobody listens to, or that is not made
SkipNotify(a, n) == call' = [call EXCEPT ![a] = SubSeq(@, n + 1, Len(@))] /\ UNCHANGED <<arg, calls>>

LockUnchanged == UNCHANGED <<readers, writer, exclusive>>
DataUnchanged == UNCHANGED <<caches, started, heard, version, shown>>

\* sync.RWMutex: a writer that waits keeps new readers out
RLock(a) ==
    /\ At(a, "rlock") /\ writer = None
    /\ readers' = [readers EXCEPT ![a] = @ + 1]
    /\ Proceed(a) /\ DataUnchanged /\ UNCHANGED <<writer, exclusive>>

RUnlock(a) ==
    /\ At(a, "runlock")
    /\ readers' = [readers EXCEPT ![a] = @ - 1]
    /\ Proceed(a) /\ DataUnchanged /\ UNCHANGED <<writer, exclusive>>

Lock(a) ==
    \/ /\ At(a, "lock") /\ writer = None /\ writer' = a
       /\ DataUnchanged /\ UNCHANGED <<readers, exclusive, call, arg, calls>>
    \/ /\ At(a, "lock") /\ writer = a /\ \A b \in Actors : readers[b] = 0
       /\ exclusive' = TRUE
       /\ Proceed(a) /\ DataUnchanged /\ UNCHANGED <<readers, writer>>

Unlock(a) ==
    /\ At(a, "unlock")
    /\ writer' = None /\ exclusive' = FALSE
    /\ Proceed(a) /\ DataUnchanged /\ UNCHANGED readers

\* a cache changes; one that was never registered notifies nobody
Change(a) ==
    /\ At(a, "change") /\ version' = version + 1
    /\ Proceed(a) /\ LockUnchanged /\ UNCHANGED <<caches, started, heard, shown>>

RegisterCache(a) ==
    /\ At(a, "add") /\ caches' = caches \union {arg[a]} /\ version' = version + 1
    /\ Proceed(a) /\ LockUnchanged /\ UNCHANGED <<started, heard, shown>>

Unregister(a) ==
    /\ At(a, "remove")
    /\ IF arg[a] \in caches
       THEN caches' = caches \ {arg[a]} /\ version' = version + 1 /\ Proceed(a)
       ELSE /\ call' = [call EXCEPT ![a] = <<"unlock">>]
            /\ UNCHANGED <<caches, version, arg, calls>>
    /\ LockUnchanged /\ UNCHANGED <<started, heard, shown>>

\* no such cache or no such entry: nothing changes and nothing is notified
DeleteEntryFromCache(a) ==
    /\ At(a, "delete")
    /\ \/ arg[a] \in caches /\ version' = version + 1 /\ Proceed(a)
       \/ SkipNotify(a, 1 + Len(NotifySteps)) /\ UNCHANGED version
    /\ LockUnchanged /\ UNCHANGED <<caches, started, heard, shown>>

\* without the broker's listener the snapshot is not taken
CopyListeners(a) ==
    /\ At(a, "listeners")
    /\ IF heard THEN Proceed(a)
       ELSE /\ call' = [call EXCEPT ![a] = <<"runlock">> \o SubSeq(@, 6, Len(@))]
            /\ UNCHANGED <<arg, calls>>
    /\ LockUnchanged /\ DataUnchanged

Snapshots(a) ==
    /\ At(a, "snapshot") /\ shown' = version
    /\ Proceed(a) /\ LockUnchanged /\ UNCHANGED <<caches, started, heard, version>>

Unlisten(a) ==
    /\ At(a, "unlisten") /\ heard' = FALSE
    /\ Proceed(a) /\ LockUnchanged /\ UNCHANGED <<caches, started, version, shown>>

Initialize(a) ==
    /\ At(a, "start") /\ started' = TRUE
    /\ Proceed(a) /\ LockUnchanged /\ UNCHANGED <<caches, heard, version, shown>>

Shutdown(a) ==
    /\ At(a, "clear") /\ started' = FALSE /\ caches' = {} /\ heard' = FALSE
    /\ Proceed(a) /\ LockUnchanged /\ UNCHANGED <<version, shown>>

----------------------------------------------------------------------------
HubInit ==
    /\ caches = {} /\ started = FALSE /\ heard = TRUE
    /\ version = 0 /\ shown = 0
    /\ readers = [a \in Actors |-> 0] /\ writer = None /\ exclusive = FALSE
    /\ call = [a \in Actors |-> <<>>] /\ arg \in [Actors -> Caches]
    /\ calls = 0

Step(a) ==
    \/ RLock(a) \/ RUnlock(a) \/ Lock(a) \/ Unlock(a)
    \/ Change(a) \/ RegisterCache(a) \/ Unregister(a) \/ DeleteEntryFromCache(a)
    \/ CopyListeners(a) \/ Snapshots(a) \/ Unlisten(a) \/ Initialize(a) \/ Shutdown(a)

HubNext == \E a \in Actors : Calls(a) \/ Step(a)

HubSpec == HubInit /\ [][HubNext]_hubVars

\* goroutines run on; sync.RWMutex starves neither readers nor writers
HubFairSpec == HubSpec /\ \A a \in Actors : SF_hubVars(Step(a))

----------------------------------------------------------------------------
(* Properties.                                                                *)

\* Every variable has its type, and the lock excludes: nobody reads while a
\* writer has it.
HubTypeOK ==
    /\ caches \subseteq Caches /\ started \in BOOLEAN /\ heard \in BOOLEAN
    /\ shown \in 0 .. version /\ calls \in 0 .. MaxCalls
    /\ writer \in Actors \union {None}
    /\ exclusive => writer # None /\ \A a \in Actors : readers[a] = 0
    /\ \A a \in Actors : readers[a] \in 0 .. 2 /\ (call[a] = <<>> => readers[a] = 0)

\* When all calls have returned and the broker listens, a snapshot was taken
\* after the last change: however the notifications overlap, none is missing
\* at the end (RegisterCache, unregister, notifyCacheChanged).
LastChangeShown ==
    heard /\ (\A a \in Actors : call[a] = <<>>) => shown = version

\* an actor waits for the read lock behind a writer that waits for its own
NestedWait == \E a \in Actors : At(a, "rlock") /\ readers[a] > 0 /\ writer # None

\* Every call on the subsystem returns, whatever the others do, unless a
\* deletion meets a writer: no other call asks for the lock while it holds it.
CallsReturn == []~NestedWait => \A a \in Actors : call[a] # <<>> ~> call[a] = <<>>

\* The subsystem serves those who call it and those who watch: calls return, and
\* the last change is shown.
HubServes == [](HubTypeOK /\ LastChangeShown) /\ CallsReturn
=============================================================================
