----------------------------- MODULE AsyncReader ------------------------------
(***************************************************************************)
(* reader.Collection.aread_cells: calls that share the open parts of one   *)
(* Collection, on one event loop.  A step is what runs between two awaits. *)
(*                                                                         *)
(* A call opens every part it touches, one task a part, then fetches the   *)
(* span of every row group it needs, one task a row group -- each wave     *)
(* behind the call's own semaphore -- and then parses, on the loop.  Tasks *)
(* of several calls for one part meet at the part's lock.                  *)
(*                                                                         *)
(* An opening makes a StoreFile; the n-th one made for a part is number n, *)
(* and 0 stands for none.                                                  *)
(***************************************************************************)
EXTENDS Naturals, FiniteSets

CONSTANTS
    Calls,        \* calls of aread_cells
    Parts,
    Groups,       \* numbers of row groups
    Sized,        \* the parts whose length the manifest records
    InTail,       \* the <<part, group>> that lie in their part's tail window
    Requests,     \* what may be asked for: the <<part, group>> a selection touches, `concurrency`
    Manners,      \* whether the other users of the Collection keep out of a call's way
    MaxReleases,  \* a bound on the calls of release()
    None

Items == Parts \X Groups

ASSUME ReaderAssumption ==
    /\ Sized \subseteq Parts
    /\ InTail \subseteq Items
    /\ Requests \subseteq [items : SUBSET Items, concurrency : Nat \ {0}]
    /\ IsFiniteSet(Parts) /\ IsFiniteSet(Groups)
    /\ Manners \subseteq BOOLEAN
    /\ MaxReleases \in Nat
    /\ None \notin Calls

VARIABLES
    orderly,    \* release() and first synchronous reads wait for the calls under way
    phase,      \* where each call is
    request,    \* what it is to read
    limit,      \* its semaphore's size
    opener,     \* its task for each part
    lock,       \* the lock that task waits for or holds, named after the call that made it
    fetcher,    \* its task for each row group
    target,     \* the file that task is going to prime
    opening,    \* _opening: the lock of each part
    parquet,    \* _parquet_files: the file each part is read through
    partFile,   \* _part_files: the file a prefetch primes
    made,       \* how many files were made for each part
    primed,     \* the row groups handed to the files the parts are read through
    releases,   \* how often release() was called
    stalled     \* history: the calls whose parse went to the store

callVars  == <<orderly, phase, request, limit>>
openVars  == <<opener, lock>>
fetchVars == <<fetcher, target>>
files     == <<parquet, partFile, made>>
vars == <<callVars, openVars, fetchVars, files, opening, primed, releases, stalled>>

PartsOf(items) == {item[1] : item \in items}

NoTasks   == [c \in Calls |-> [p \in Parts |-> "none"]]
NoLocks   == [c \in Calls |-> [p \in Parts |-> None]]
NoFetches == [c \in Calls |-> [i \in Items |-> "none"]]
NoTargets == [c \in Calls |-> [i \in Items |-> 0]]

Init ==
    /\ orderly \in Manners
    /\ phase = [c \in Calls |-> "idle"]
    /\ request = [c \in Calls |-> {}]
    /\ limit = [c \in Calls |-> 1]
    /\ opener = NoTasks
    /\ lock = NoLocks
    /\ fetcher = NoFetches
    /\ target = NoTargets
    /\ opening = [p \in Parts |-> None]
    /\ parquet = [p \in Parts |-> 0]
    /\ partFile = [p \in Parts |-> 0]
    /\ made = [p \in Parts |-> 0]
    /\ primed = {}
    /\ releases = 0
    /\ stalled = {}

-----------------------------------------------------------------------------
(* A call.                                                                 *)

\* Everything is looked up in the catalog, and the first wave of tasks is gathered.
Call(c) ==
    /\ phase[c] = "idle"
    /\ \E asked \in Requests :
          /\ request' = [request EXCEPT ![c] = asked.items]
          /\ limit' = [limit EXCEPT ![c] = asked.concurrency]
          /\ opener' = [opener EXCEPT ![c] =
                           [p \in Parts |-> IF p \in PartsOf(asked.items) THEN "gate" ELSE "none"]]
    /\ phase' = [phase EXCEPT ![c] = "opening"]
    /\ UNCHANGED <<orderly, lock, fetchVars, files, opening, primed, releases, stalled>>

\* A faulty semaphore, whose places are not given back.
OpenersForever(c) == {p \in Parts : opener[c][p] \in {"lock", "fetch", "done"}}

\* The semaphore: waiting for a part's lock takes a place as well.
OpenersInside(c) == {p \in Parts : opener[c][p] \in {"lock", "fetch"}}
FetchersInside(c) == {i \in Items : fetcher[c][i] = "fetch"}

Inside(c) == Cardinality(OpenersInside(c)) + Cardinality(FetchersInside(c))

\* A faulty test that lets one task too many in.
AdmittedLate(c) == Inside(c) <= limit[c]

Admitted(c) == Inside(c) < limit[c]

\* gather() raises the first failure at once; the other tasks of the call go on.
FailCall(c) ==
    phase' = [phase EXCEPT ![c] = IF @ \in {"opening", "prefetching"} THEN "failed" ELSE @]

-----------------------------------------------------------------------------
(* The tasks of the first wave: _aopen_part.                               *)

\* The part is open already.
FindOpen(c, p) ==
    /\ opener[c][p] = "gate"
    /\ Admitted(c)
    /\ parquet[p] # 0
    /\ opener' = [opener EXCEPT ![c][p] = "done"]
    /\ UNCHANGED <<callVars, lock, fetchVars, files, opening, primed, releases, stalled>>

\* A faulty lookup: a lock of its own for every call.
LockForEach(c, p) == c

\* self._opening.setdefault(key, asyncio.Lock()).
LockFor(c, p) == IF opening[p] = None THEN c ELSE opening[p]

Contended(l, p) == \E d \in Calls : lock[d][p] = l
Held(l, p) == \E d \in Calls : lock[d][p] = l /\ opener[d][p] = "fetch"

\* A free lock is taken without a pause, and the footer is asked for.
LockAtOnce(c, p) ==
    /\ opener[c][p] = "gate"
    /\ Admitted(c)
    /\ parquet[p] = 0
    /\ ~Contended(LockFor(c, p), p)
    /\ opening' = [opening EXCEPT ![p] = LockFor(c, p)]
    /\ lock' = [lock EXCEPT ![c][p] = LockFor(c, p)]
    /\ opener' = [opener EXCEPT ![c][p] = "fetch"]
    /\ UNCHANGED <<callVars, fetchVars, files, primed, releases, stalled>>

QueueForLock(c, p) ==
    /\ opener[c][p] = "gate"
    /\ Admitted(c)
    /\ parquet[p] = 0
    /\ Contended(LockFor(c, p), p)
    /\ opening' = [opening EXCEPT ![p] = LockFor(c, p)]
    /\ lock' = [lock EXCEPT ![c][p] = LockFor(c, p)]
    /\ opener' = [opener EXCEPT ![c][p] = "lock"]
    /\ UNCHANGED <<callVars, fetchVars, files, primed, releases, stalled>>

\* A faulty hand-over, after which the part is not looked for again.
GetLockBlindly(c, p) ==
    /\ opener[c][p] = "lock"
    /\ ~Held(lock[c][p], p)
    /\ opener' = [opener EXCEPT ![c][p] = "fetch"]
    /\ UNCHANGED <<callVars, lock, fetchVars, files, opening, primed, releases, stalled>>

\* The lock is handed over, and the part is looked for again.
GetLock(c, p) ==
    /\ opener[c][p] = "lock"
    /\ ~Held(lock[c][p], p)
    /\ IF parquet[p] # 0
       THEN /\ opener' = [opener EXCEPT ![c][p] = "done"]
            /\ lock' = [lock EXCEPT ![c][p] = None]
       ELSE /\ opener' = [opener EXCEPT ![c][p] = "fetch"]
            /\ UNCHANGED lock
    /\ UNCHANGED <<callVars, fetchVars, files, opening, primed, releases, stalled>>

\* A part opens: a part without a recorded length is a buffer, with nothing to prime.
Opened(ps) ==
    /\ made' = [p \in Parts |-> IF p \in ps THEN made[p] + 1 ELSE made[p]]
    /\ parquet' = [p \in Parts |-> IF p \in ps THEN made[p] + 1 ELSE parquet[p]]
    /\ partFile' = [p \in Parts |-> IF p \in ps \cap Sized THEN made[p] + 1 ELSE partFile[p]]
    /\ primed' = {item \in primed : item[1] \notin ps}

FooterArrives(c, p) ==
    /\ opener[c][p] = "fetch"
    /\ Opened({p})
    /\ opener' = [opener EXCEPT ![c][p] = "done"]
    /\ lock' = [lock EXCEPT ![c][p] = None]
    /\ UNCHANGED <<callVars, fetchVars, opening, releases, stalled>>

\* The manifest names no such part, or the store raises.  The lock is released.
FooterFails(c, p) ==
    /\ opener[c][p] = "fetch"
    /\ opener' = [opener EXCEPT ![c][p] = "done"]
    /\ lock' = [lock EXCEPT ![c][p] = None]
    /\ FailCall(c)
    /\ UNCHANGED <<orderly, request, limit, fetchVars, files, opening, primed, releases, stalled>>

Open(c, p) ==
    \/ FindOpen(c, p) \/ LockAtOnce(c, p) \/ QueueForLock(c, p) \/ GetLock(c, p)
    \/ FooterArrives(c, p) \/ FooterFails(c, p)

-----------------------------------------------------------------------------
(* The tasks of the second wave: _aprefetch.                               *)

\* The first gather returns, and the second is made.
StartPrefetch(c) ==
    /\ phase[c] = "opening"
    /\ \A p \in Parts : opener[c][p] \in {"none", "done"}
    /\ phase' = [phase EXCEPT ![c] = "prefetching"]
    /\ fetcher' = [fetcher EXCEPT ![c] =
                      [i \in Items |-> IF i \in request[c] THEN "gate" ELSE "none"]]
    /\ UNCHANGED <<orderly, request, limit, openVars, target, files, opening, primed, releases, stalled>>

\* StoreFile.holds.
Holds(item) == item \in InTail \cup primed

\* The part was opened whole or not at all, or its file has the span.
NothingToFetch(c, item) ==
    /\ fetcher[c][item] = "gate"
    /\ Admitted(c)
    /\ partFile[item[1]] = 0 \/ Holds(item)
    /\ fetcher' = [fetcher EXCEPT ![c][item] = "done"]
    /\ UNCHANGED <<callVars, openVars, target, files, opening, primed, releases, stalled>>

AskForSpan(c, item) ==
    /\ fetcher[c][item] = "gate"
    /\ Admitted(c)
    /\ partFile[item[1]] # 0
    /\ ~Holds(item)
    /\ target' = [target EXCEPT ![c][item] = partFile[item[1]]]
    /\ fetcher' = [fetcher EXCEPT ![c][item] = "fetch"]
    /\ UNCHANGED <<callVars, openVars, files, opening, primed, releases, stalled>>

\* The span is handed to the file it was asked for.  When the part is read through another by
\* now, nobody will look for it there.
SpanArrives(c, item) ==
    /\ fetcher[c][item] = "fetch"
    /\ primed' = IF target[c][item] = parquet[item[1]] THEN primed \cup {item} ELSE primed
    /\ fetcher' = [fetcher EXCEPT ![c][item] = "done"]
    /\ target' = [target EXCEPT ![c][item] = 0]
    /\ UNCHANGED <<callVars, openVars, files, opening, releases, stalled>>

SpanFails(c, item) ==
    /\ fetcher[c][item] = "fetch"
    /\ fetcher' = [fetcher EXCEPT ![c][item] = "done"]
    /\ target' = [target EXCEPT ![c][item] = 0]
    /\ FailCall(c)
    /\ UNCHANGED <<orderly, request, limit, openVars, files, opening, primed, releases, stalled>>

Prefetch(c, item) ==
    NothingToFetch(c, item) \/ AskForSpan(c, item) \/ SpanArrives(c, item) \/ SpanFails(c, item)

-----------------------------------------------------------------------------
(* The parse, and the end of a call.                                       *)

Prefetched(c) == phase[c] = "prefetching" /\ \A i \in Items : fetcher[c][i] \in {"none", "done"}

Closed(c) == {p \in PartsOf(request[c]) : parquet[p] = 0}

InMemory(item) ==
    /\ parquet[item[1]] # 0
    /\ partFile[item[1]] = 0 \/ Holds(item)

GoesToStore(c) == \E item \in request[c] : ~InMemory(item)

Stalls(c) == stalled' = IF GoesToStore(c) THEN stalled \cup {c} ELSE stalled

\* [self._table_for(members[0]) for ...]: what is not open is opened here, on the loop's own
\* thread, and what was not prefetched is fetched here.
Parse(c) ==
    /\ Prefetched(c)
    /\ Opened(Closed(c))
    /\ Stalls(c)
    /\ phase' = [phase EXCEPT ![c] = "decoding"]
    /\ UNCHANGED <<orderly, request, limit, openVars, fetchVars, opening, releases>>

\* It fails having opened some of the parts.
ParseFails(c) ==
    /\ Prefetched(c)
    /\ \E ps \in SUBSET Closed(c) : Opened(ps)
    /\ Stalls(c)
    /\ phase' = [phase EXCEPT ![c] = "failed"]
    /\ UNCHANGED <<orderly, request, limit, openVars, fetchVars, opening, releases>>

\* A call that has ended has no tasks and no semaphore.
Leave(c, outcome) ==
    /\ phase' = [phase EXCEPT ![c] = outcome]
    /\ request' = [request EXCEPT ![c] = {}]
    /\ limit' = [limit EXCEPT ![c] = 1]
    /\ opener' = [opener EXCEPT ![c] = NoTasks[c]]
    /\ lock' = [lock EXCEPT ![c] = NoLocks[c]]
    /\ fetcher' = [fetcher EXCEPT ![c] = NoFetches[c]]
    /\ target' = [target EXCEPT ![c] = NoTargets[c]]

\* The decoding threads are done, or one of them has met a blob it cannot decode.
Return(c) ==
    /\ phase[c] = "decoding"
    /\ Leave(c, "returned") \/ Leave(c, "failed")
    /\ UNCHANGED <<orderly, files, opening, primed, releases, stalled>>

\* The caller cancels the call: its tasks end where they wait, giving up lock and place.
Cancel(c) ==
    /\ phase[c] \in {"opening", "prefetching", "decoding"}
    /\ Leave(c, "cancelled")
    /\ UNCHANGED <<orderly, files, opening, primed, releases, stalled>>

-----------------------------------------------------------------------------
(* The other users of the Collection, between two steps of the loop.       *)

AtRest(c) ==
    /\ phase[c] \notin {"opening", "prefetching"}
    /\ \A p \in Parts : opener[c][p] \in {"none", "done"}
    /\ \A i \in Items : fetcher[c][i] \in {"none", "done"}

\* The first synchronous read of a part -- read_cell, read_cells, object_mesh -- opens it
\* without asking for its lock.
ReadSync(p) ==
    /\ parquet[p] = 0
    /\ orderly => \A c \in Calls : opener[c][p] # "fetch"
    /\ Opened({p})
    /\ UNCHANGED <<callVars, openVars, fetchVars, opening, releases, stalled>>

\* A faulty release that forgets the files prefetches prime.
ReleaseHandles ==
    /\ releases < MaxReleases
    /\ orderly => \A c \in Calls : AtRest(c)
    /\ parquet' = [p \in Parts |-> 0]
    /\ opening' = [p \in Parts |-> None]
    /\ primed' = {}
    /\ releases' = releases + 1
    /\ UNCHANGED <<callVars, openVars, fetchVars, partFile, made, stalled>>

Release ==
    /\ releases < MaxReleases
    /\ orderly => \A c \in Calls : AtRest(c)
    /\ parquet' = [p \in Parts |-> 0]
    /\ partFile' = [p \in Parts |-> 0]
    /\ opening' = [p \in Parts |-> None]
    /\ primed' = {}
    /\ releases' = releases + 1
    /\ UNCHANGED <<callVars, openVars, fetchVars, made, stalled>>

Step(c) ==
    \/ StartPrefetch(c) \/ Parse(c) \/ ParseFails(c) \/ Return(c)
    \/ \E p \in Parts : Open(c, p)
    \/ \E item \in Items : Prefetch(c, item)

Next ==
    \/ \E c \in Calls : Call(c) \/ Step(c) \/ Cancel(c)
    \/ \E p \in Parts : ReadSync(p)
    \/ Release

Spec == Init /\ [][Next]_vars

\* The loop runs what is ready, and a store answers or fails.
FairSpec == Spec /\ \A c \in Calls : WF_vars(Step(c))

-----------------------------------------------------------------------------
OpenerStates  == {"none", "gate", "lock", "fetch", "done"}
FetcherStates == {"none", "gate", "fetch", "done"}
Phases == {"idle", "opening", "prefetching", "decoding", "returned", "failed", "cancelled"}

Typed ==
    /\ orderly \in BOOLEAN
    /\ phase \in [Calls -> Phases]
    /\ request \in [Calls -> SUBSET Items]
    /\ limit \in [Calls -> Nat \ {0}]
    /\ opener \in [Calls -> [Parts -> OpenerStates]]
    /\ lock \in [Calls -> [Parts -> Calls \cup {None}]]
    /\ fetcher \in [Calls -> [Items -> FetcherStates]]
    /\ target \in [Calls -> [Items -> Nat]]
    /\ opening \in [Parts -> Calls \cup {None}]
    /\ made \in [Parts -> Nat]
    /\ parquet \in [Parts -> Nat]
    /\ partFile \in [Parts -> Nat]
    /\ primed \subseteq Items
    /\ releases \in 0 .. MaxReleases
    /\ stalled \subseteq Calls

\* Every variable has its type, and a call has no more tasks inside its semaphore than its
\* `concurrency` (guarded, in aread_cells).
TypeOK ==
    /\ Typed
    /\ \A c \in Calls : Inside(c) <= limit[c]

\* "One lock per part, so concurrent readers open it once between them": of all the calls, one
\* fetches a part's footer, and none that of a part that is open -- through failures and
\* cancellations of the one that holds the lock (_aopen_part).
OpenedOnce ==
    orderly => \A p \in Parts, c, d \in Calls :
        opener[c][p] = "fetch" => /\ parquet[p] = 0
                                  /\ opener[d][p] = "fetch" => d = c

\* A file to prime is the file that is read through, and there is one for every open part
\* that has a length: _aprefetch finds the footer it needs, and a prefetch is not lost
\* (_parquet_files and _part_files, in all of their writers).
HandlesAgree ==
    \A p \in Parts : partFile[p] = IF p \in Sized THEN parquet[p] ELSE 0

\* "Every byte it needs was prefetched above, so it touches memory and no store at all": no
\* parse opens a part or reads a span from the store, on the loop's thread (aread_cells).
ParsesFromMemory == stalled = {}

\* It is so as long as nobody drops the parts of a call under way, and nobody opens one
\* synchronously while a call is opening it.
OrderlyParsesFromMemory == orderly => ParsesFromMemory

Ended(c) ==
    /\ phase[c] \in {"returned", "failed", "cancelled"}
    /\ \A p \in Parts : opener[c][p] \in {"none", "done"}
    /\ \A i \in Items : fetcher[c][i] \in {"none", "done"}

\* Every call ends, with all of its tasks, whatever fails and whoever else reads or releases:
\* no task waits for ever for a place behind the semaphore or for a part's lock.
EveryCallEnds == \A c \in Calls : phase[c] = "opening" ~> Ended(c)
===============================================================================
