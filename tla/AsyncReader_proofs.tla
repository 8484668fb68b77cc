-------------------------- MODULE AsyncReader_proofs --------------------------
(***************************************************************************)
(* Theorems about AsyncReader, for any calls, parts and requests.          *)
(*                                                                         *)
(* First the types; then HandlesAgree, which is inductive with them; then  *)
(* the semaphore, by counting; then what orderly users may rely on.        *)
(***************************************************************************)
EXTENDS AsyncReader, FiniteSetTheorems, TLAPS

(***************************************************************************)
(* Types.                                                                  *)
(***************************************************************************)

\* What an opening makes of the files has its type (Opened).
LEMMA OpenedTyped ==
    ASSUME Typed, NEW ps \in SUBSET Parts, Opened(ps)
    PROVE  /\ made' \in [Parts -> Nat]
           /\ parquet' \in [Parts -> Nat]
           /\ partFile' \in [Parts -> Nat]
           /\ primed' \subseteq Items
BY DEF Typed, Opened

\* What is left of a call has its type (Leave).
LEMMA LeaveTyped ==
    ASSUME Typed, NEW c \in Calls, NEW outcome \in Phases, Leave(c, outcome)
    PROVE  /\ phase' \in [Calls -> Phases]
           /\ request' \in [Calls -> SUBSET Items]
           /\ limit' \in [Calls -> Nat \ {0}]
           /\ opener' \in [Calls -> [Parts -> OpenerStates]]
           /\ lock' \in [Calls -> [Parts -> Calls \cup {None}]]
           /\ fetcher' \in [Calls -> [Items -> FetcherStates]]
           /\ target' \in [Calls -> [Items -> Nat]]
<1>1. NoTasks[c] \in [Parts -> OpenerStates]
  BY DEF NoTasks, OpenerStates
<1>2. NoLocks[c] \in [Parts -> Calls \cup {None}]
  BY DEF NoLocks
<1>3. NoFetches[c] \in [Items -> FetcherStates]
  BY DEF NoFetches, FetcherStates
<1>4. NoTargets[c] \in [Items -> Nat]
  BY DEF NoTargets
<1>5. QED BY <1>1, <1>2, <1>3, <1>4 DEF Typed, Leave

\* Every step of a task of the first wave keeps the types (Open).
LEMMA OpenTyped ==
    ASSUME Typed, NEW c \in Calls, NEW p \in Parts, Open(c, p)
    PROVE  Typed'
<1>1. CASE FindOpen(c, p)
  BY <1>1 DEF FindOpen, Typed, OpenerStates, callVars, fetchVars, files
<1>2. ASSUME opening' = [opening EXCEPT ![p] = LockFor(c, p)],
             lock' = [lock EXCEPT ![c][p] = LockFor(c, p)]
      PROVE  /\ opening' \in [Parts -> Calls \cup {None}]
             /\ lock' \in [Calls -> [Parts -> Calls \cup {None}]]
  BY <1>2 DEF LockFor, Typed
<1>3. CASE LockAtOnce(c, p)
  BY <1>2, <1>3 DEF LockAtOnce, Typed, OpenerStates, callVars, fetchVars, files
<1>4. CASE QueueForLock(c, p)
  BY <1>2, <1>4 DEF QueueForLock, Typed, OpenerStates, callVars, fetchVars, files
<1>5. CASE GetLock(c, p)
  <2>1. CASE parquet[p] # 0
    <3>1. opener' = [opener EXCEPT ![c][p] = "done"] /\ lock' = [lock EXCEPT ![c][p] = None]
      BY <1>5, <2>1 DEF GetLock
    <3>2. QED BY <1>5, <3>1 DEF GetLock, Typed, OpenerStates, callVars, fetchVars, files
  <2>2. CASE parquet[p] = 0
    <3>1. opener' = [opener EXCEPT ![c][p] = "fetch"] /\ lock' = lock
      BY <1>5, <2>2 DEF GetLock
    <3>2. QED BY <1>5, <3>1 DEF GetLock, Typed, OpenerStates, callVars, fetchVars, files
  <2>3. QED BY <2>1, <2>2
<1>6. CASE FooterArrives(c, p)
  <2>1. Opened({p})
    BY <1>6 DEF FooterArrives
  <2>2. QED BY <1>6, <2>1, OpenedTyped DEF FooterArrives, Typed, OpenerStates, callVars, fetchVars
<1>7. CASE FooterFails(c, p)
  BY <1>7 DEF FooterFails, FailCall, Typed, Phases, OpenerStates, fetchVars, files
<1>8. QED BY <1>1, <1>3, <1>4, <1>5, <1>6, <1>7 DEF Open

\* Every step of a task of the second wave keeps the types (Prefetch).
LEMMA PrefetchTyped ==
    ASSUME Typed, NEW c \in Calls, NEW item \in Items, Prefetch(c, item)
    PROVE  Typed'
<1>1. CASE NothingToFetch(c, item)
  BY <1>1 DEF NothingToFetch, Typed, FetcherStates, callVars, openVars, files
<1>2. CASE AskForSpan(c, item)
  <2>1. item[1] \in Parts
    BY DEF Items
  <2>2. QED BY <1>2, <2>1 DEF AskForSpan, Typed, FetcherStates, callVars, openVars, files
<1>3. CASE SpanArrives(c, item)
  BY <1>3 DEF SpanArrives, Typed, FetcherStates, callVars, openVars, files
<1>4. CASE SpanFails(c, item)
  BY <1>4 DEF SpanFails, FailCall, Typed, Phases, FetcherStates, openVars, files
<1>5. QED BY <1>1, <1>2, <1>3, <1>4 DEF Prefetch

\* Every step keeps the types.
LEMMA StepTyped ==
    ASSUME Typed, [Next]_vars
    PROVE  Typed'
<1>1. ASSUME NEW c \in Calls, Call(c)
      PROVE  Typed'
  <2>1. PICK asked \in Requests :
           /\ request' = [request EXCEPT ![c] = asked.items]
           /\ limit' = [limit EXCEPT ![c] = asked.concurrency]
           /\ opener' = [opener EXCEPT ![c] =
                            [p \in Parts |-> IF p \in PartsOf(asked.items) THEN "gate" ELSE "none"]]
    BY <1>1 DEF Call
  <2>2. asked.items \subseteq Items /\ asked.concurrency \in Nat \ {0}
    BY ReaderAssumption
  <2>3. [p \in Parts |-> IF p \in PartsOf(asked.items) THEN "gate" ELSE "none"] \in [Parts -> OpenerStates]
    BY DEF OpenerStates
  <2>4. QED BY <1>1, <2>1, <2>2, <2>3 DEF Call, Typed, Phases, fetchVars, files
<1>2. ASSUME NEW c \in Calls, StartPrefetch(c)
      PROVE  Typed'
  BY <1>2 DEF StartPrefetch, Typed, Phases, FetcherStates, openVars, files
<1>3. ASSUME NEW c \in Calls, Parse(c)
      PROVE  Typed'
  <2>1. Closed(c) \subseteq Parts /\ Opened(Closed(c))
    BY <1>3 DEF Parse, Closed, PartsOf, Typed, Items
  <2>2. QED BY <1>3, <2>1, OpenedTyped DEF Parse, Stalls, Typed, Phases, openVars, fetchVars
<1>4. ASSUME NEW c \in Calls, ParseFails(c)
      PROVE  Typed'
  <2>1. PICK ps \in SUBSET Closed(c) : Opened(ps)
    BY <1>4 DEF ParseFails
  <2>2. ps \subseteq Parts
    BY DEF Closed, PartsOf, Typed, Items
  <2>3. QED BY <1>4, <2>1, <2>2, OpenedTyped DEF ParseFails, Stalls, Typed, Phases, openVars, fetchVars
<1>5. ASSUME NEW c \in Calls, Return(c)
      PROVE  Typed'
  BY <1>5, LeaveTyped DEF Return, Typed, Phases, files
<1>6. ASSUME NEW c \in Calls, Cancel(c)
      PROVE  Typed'
  BY <1>6, LeaveTyped DEF Cancel, Typed, Phases, files
<1>7. ASSUME NEW p \in Parts, ReadSync(p)
      PROVE  Typed'
  BY <1>7, OpenedTyped DEF ReadSync, Typed, callVars, openVars, fetchVars
<1>8. CASE Release
  BY <1>8, ReaderAssumption DEF Release, Typed, callVars, openVars, fetchVars
<1>9. CASE UNCHANGED vars
  BY <1>9 DEF Typed, vars, callVars, openVars, fetchVars, files
<1>10. QED
  BY <1>1, <1>2, <1>3, <1>4, <1>5, <1>6, <1>7, <1>8, <1>9, OpenTyped, PrefetchTyped DEF Next, Step

\* Init has the types.
LEMMA InitTyped == Init => Typed
BY ReaderAssumption DEF Init, Typed, Phases, OpenerStates, FetcherStates,
    NoTasks, NoLocks, NoFetches, NoTargets

\* The types hold of every variable, whatever the calls ask for and whoever fails, cancels or
\* releases (aread_cells).
THEOREM AlwaysTyped == Spec => []Typed
BY InitTyped, StepTyped, PTL DEF Spec

(***************************************************************************)
(* The files.                                                              *)
(***************************************************************************)

\* A step opens parts (all of them by Opened), releases them, or leaves the files alone.
LEMMA WhatMovesFiles ==
    ASSUME Typed, [Next]_vars
    PROVE  \/ \E ps \in SUBSET Parts : Opened(ps)
           \/ Release
           \/ UNCHANGED files
<1>1. ASSUME NEW c \in Calls, Parse(c) \/ ParseFails(c)
      PROVE  \E ps \in SUBSET Parts : Opened(ps)
  <2>1. Closed(c) \subseteq Parts
    BY DEF Closed, PartsOf, Typed, Items
  <2>2. \E ps \in SUBSET Closed(c) : Opened(ps)
    BY <1>1 DEF Parse, ParseFails
  <2>3. QED BY <2>1, <2>2
<1>2. ASSUME NEW c \in Calls, NEW p \in Parts, Open(c, p)
      PROVE  Opened({p}) \/ UNCHANGED files
  BY <1>2 DEF Open, FindOpen, LockAtOnce, QueueForLock, GetLock, FooterArrives, FooterFails
<1>3. ASSUME NEW c \in Calls, NEW item \in Items, Prefetch(c, item)
      PROVE  UNCHANGED files
  BY <1>3 DEF Prefetch, NothingToFetch, AskForSpan, SpanArrives, SpanFails
<1>4. ASSUME NEW c \in Calls, Call(c) \/ StartPrefetch(c) \/ Return(c) \/ Cancel(c)
      PROVE  UNCHANGED files
  BY <1>4 DEF Call, StartPrefetch, Return, Cancel
<1>5. ASSUME NEW p \in Parts, ReadSync(p)
      PROVE  Opened({p})
  BY <1>5 DEF ReadSync
<1>6. CASE UNCHANGED vars
  BY <1>6 DEF vars
<1>7. QED
  BY <1>1, <1>2, <1>3, <1>4, <1>5, <1>6 DEF Next, Step

\* The file a prefetch primes is the file the part is read through, for every history of
\* calls, failures, releases and synchronous reads (_parquet_files and _part_files).
THEOREM HandlesAlwaysAgree == Spec => []HandlesAgree
<1>1. Init => HandlesAgree
  BY DEF Init, HandlesAgree
<1>2. ASSUME Typed, HandlesAgree, [Next]_vars
      PROVE  HandlesAgree'
  <2>1. ASSUME NEW ps \in SUBSET Parts, Opened(ps)
        PROVE  HandlesAgree'
    BY <1>2, <2>1 DEF Opened, HandlesAgree
  <2>2. CASE Release
    BY <2>2 DEF Release, HandlesAgree
  <2>3. CASE UNCHANGED files
    BY <1>2, <2>3 DEF files, HandlesAgree
  <2>4. QED BY <1>2, <2>1, <2>2, <2>3, WhatMovesFiles
<1>3. QED BY <1>1, <1>2, AlwaysTyped, PTL DEF Spec

(***************************************************************************)
(* The semaphore.                                                          *)
(***************************************************************************)

Fits(c) == Inside(c) <= limit[c]

\* A call that has not begun fetches nothing.
IdleFetchesNothing == \A c \in Calls : phase[c] = "idle" => \A i \in Items : fetcher[c][i] = "none"

\* The tasks inside a semaphore can be counted.
LEMMA InsideIsFinite ==
    ASSUME NEW c \in Calls
    PROVE  IsFiniteSet(OpenersInside(c)) /\ IsFiniteSet(FetchersInside(c))
<1>1. IsFiniteSet(Parts) /\ IsFiniteSet(Items)
  BY ReaderAssumption, FS_Product DEF Items
<1>2. OpenersInside(c) \subseteq Parts /\ FetchersInside(c) \subseteq Items
  BY DEF OpenersInside, FetchersInside
<1>3. QED BY <1>1, <1>2, FS_Subset

\* One element more is at most one more in number.
LEMMA AtMostOneMore ==
    ASSUME NEW S, NEW T, NEW x, IsFiniteSet(S), T \subseteq S \cup {x}
    PROVE  Cardinality(T) \in Nat /\ Cardinality(T) <= Cardinality(S) + 1
<1>1. /\ IsFiniteSet(S \cup {x})
      /\ Cardinality(S \cup {x}) = IF x \in S THEN Cardinality(S) ELSE Cardinality(S) + 1
  BY FS_AddElement
<1>2. Cardinality(S) \in Nat
  BY FS_CardinalityType
<1>3. IsFiniteSet(T) /\ Cardinality(T) <= Cardinality(S \cup {x})
  BY <1>1, FS_Subset
<1>4. Cardinality(T) \in Nat
  BY <1>3, FS_CardinalityType
<1>5. QED BY <1>1, <1>2, <1>3, <1>4

\* The semaphore still fits when nobody comes in.
LEMMA NobodyIn ==
    ASSUME Typed, NEW c \in Calls, Fits(c), limit'[c] = limit[c],
           OpenersInside(c)' \subseteq OpenersInside(c),
           FetchersInside(c)' \subseteq FetchersInside(c)
    PROVE  Fits(c)'
<1> DEFINE o == OpenersInside(c)
           f == FetchersInside(c)
<1>1. IsFiniteSet(o) /\ IsFiniteSet(f)
  BY InsideIsFinite
<1>2. /\ IsFiniteSet(o') /\ Cardinality(o') <= Cardinality(o)
      /\ IsFiniteSet(f') /\ Cardinality(f') <= Cardinality(f)
  BY <1>1, FS_Subset
<1>3. Cardinality(o) \in Nat /\ Cardinality(f) \in Nat /\ Cardinality(o') \in Nat /\ Cardinality(f') \in Nat
  BY <1>1, <1>2, FS_CardinalityType
<1>4. Cardinality(o) + Cardinality(f) <= limit[c] /\ limit[c] \in Nat
  BY DEF Fits, Inside, Typed
<1>5. Cardinality(o') + Cardinality(f') <= limit[c]
  <2> HIDE DEF o, f
  <2>1. QED BY <1>2, <1>3, <1>4
<1>6. QED BY <1>5 DEF Fits, Inside

\* Nor does it overflow when one task is let in.
LEMMA OneIn ==
    ASSUME Typed, NEW c \in Calls, Admitted(c), limit'[c] = limit[c],
           NEW x,
           \/ /\ OpenersInside(c)' \subseteq OpenersInside(c) \cup {x}
              /\ FetchersInside(c)' = FetchersInside(c)
           \/ /\ OpenersInside(c)' = OpenersInside(c)
              /\ FetchersInside(c)' \subseteq FetchersInside(c) \cup {x}
    PROVE  Fits(c)'
<1> DEFINE o == OpenersInside(c)
           f == FetchersInside(c)
<1>1. IsFiniteSet(o) /\ IsFiniteSet(f)
  BY InsideIsFinite
<1>2. Cardinality(o) \in Nat /\ Cardinality(f) \in Nat
  BY <1>1, FS_CardinalityType
<1>3. \/ /\ Cardinality(o') \in Nat /\ Cardinality(o') <= Cardinality(o) + 1
         /\ Cardinality(f') = Cardinality(f)
      \/ /\ Cardinality(o') = Cardinality(o)
         /\ Cardinality(f') \in Nat /\ Cardinality(f') <= Cardinality(f) + 1
  BY <1>1, AtMostOneMore
<1>4. Cardinality(o) + Cardinality(f) < limit[c] /\ limit[c] \in Nat
  BY DEF Admitted, Inside, Typed
<1>5. Cardinality(o') + Cardinality(f') <= limit[c]
  <2> HIDE DEF o, f
  <2>1. QED BY <1>2, <1>3, <1>4
<1>6. QED BY <1>5 DEF Fits, Inside

\* An empty semaphore fits.
LEMMA NobodyThere ==
    ASSUME Typed', NEW c \in Calls, OpenersInside(c)' = {}, FetchersInside(c)' = {}
    PROVE  Fits(c)'
<1>1. Inside(c)' = 0 + 0
  BY FS_EmptySet DEF Inside
<1>2. QED BY <1>1 DEF Fits, Typed

\* What a step of a task of the first wave does to the semaphores (Open).
LEMMA OpenFits ==
    ASSUME Typed, NEW c \in Calls, NEW p \in Parts, Open(c, p), NEW d \in Calls, Fits(d)
    PROVE  Fits(d)'
<1>1. limit' = limit /\ fetcher' = fetcher
  BY DEF Open, FindOpen, LockAtOnce, QueueForLock, GetLock, FooterArrives, FooterFails, callVars, fetchVars
<1>2. FetchersInside(d)' = FetchersInside(d)
  BY <1>1 DEF FetchersInside
<1>3. CASE LockAtOnce(c, p) \/ QueueForLock(c, p)
  <2>1. Admitted(c) /\ (opener' = [opener EXCEPT ![c][p] = "fetch"] \/ opener' = [opener EXCEPT ![c][p] = "lock"])
    BY <1>3 DEF LockAtOnce, QueueForLock
  <2>2. CASE d = c
    <3>1. OpenersInside(c)' \subseteq OpenersInside(c) \cup {p}
      BY <2>1 DEF OpenersInside, Typed
    <3>2. QED BY <1>1, <1>2, <2>1, <2>2, <3>1, OneIn
  <2>3. CASE d # c
    <3>1. OpenersInside(d)' = OpenersInside(d)
      BY <2>1, <2>3 DEF OpenersInside, Typed
    <3>2. QED BY <1>1, <1>2, <3>1, NobodyIn
  <2>4. QED BY <2>2, <2>3
<1>4. CASE FindOpen(c, p) \/ GetLock(c, p) \/ FooterArrives(c, p) \/ FooterFails(c, p)
  <2>1. \/ opener' = [opener EXCEPT ![c][p] = "done"]
        \/ opener[c][p] = "lock" /\ opener' = [opener EXCEPT ![c][p] = "fetch"]
    BY <1>4 DEF FindOpen, GetLock, FooterArrives, FooterFails
  <2>2. CASE opener' = [opener EXCEPT ![c][p] = "done"]
    <3>1. OpenersInside(d)' \subseteq OpenersInside(d)
      BY <2>2 DEF OpenersInside, Typed
    <3>2. QED BY <1>1, <1>2, <3>1, NobodyIn
  <2>3. CASE opener[c][p] = "lock" /\ opener' = [opener EXCEPT ![c][p] = "fetch"]
    <3>1. OpenersInside(d)' \subseteq OpenersInside(d)
      BY <2>3 DEF OpenersInside, Typed
    <3>2. QED BY <1>1, <1>2, <3>1, NobodyIn
  <2>4. QED BY <2>1, <2>2, <2>3
<1>5. QED BY <1>3, <1>4 DEF Open

\* What a step of a task of the second wave does to the semaphores (Prefetch).
LEMMA PrefetchFits ==
    ASSUME Typed, NEW c \in Calls, NEW item \in Items, Prefetch(c, item), NEW d \in Calls, Fits(d)
    PROVE  Fits(d)'
<1>1. limit' = limit /\ opener' = opener
  BY DEF Prefetch, NothingToFetch, AskForSpan, SpanArrives, SpanFails, callVars, openVars
<1>2. OpenersInside(d)' = OpenersInside(d)
  BY <1>1 DEF OpenersInside
<1>3. CASE AskForSpan(c, item)
  <2>1. Admitted(c) /\ fetcher' = [fetcher EXCEPT ![c][item] = "fetch"]
    BY <1>3 DEF AskForSpan
  <2>2. CASE d = c
    <3>1. FetchersInside(c)' \subseteq FetchersInside(c) \cup {item}
      BY <2>1 DEF FetchersInside, Typed
    <3>2. QED BY <1>1, <1>2, <2>1, <2>2, <3>1, OneIn
  <2>3. CASE d # c
    <3>1. FetchersInside(d)' = FetchersInside(d)
      BY <2>1, <2>3 DEF FetchersInside, Typed
    <3>2. QED BY <1>1, <1>2, <3>1, NobodyIn
  <2>4. QED BY <2>2, <2>3
<1>4. CASE NothingToFetch(c, item) \/ SpanArrives(c, item) \/ SpanFails(c, item)
  <2>1. fetcher' = [fetcher EXCEPT ![c][item] = "done"]
    BY <1>4 DEF NothingToFetch, SpanArrives, SpanFails
  <2>2. FetchersInside(d)' \subseteq FetchersInside(d)
    BY <2>1 DEF FetchersInside, Typed
  <2>3. QED BY <1>1, <1>2, <2>2, NobodyIn
<1>5. QED BY <1>3, <1>4 DEF Prefetch

\* A call that ends leaves an empty semaphore (Leave), and the others alone.
LEMMA LeaveFits ==
    ASSUME Typed, Typed', NEW c \in Calls, NEW outcome, Leave(c, outcome), NEW d \in Calls, Fits(d)
    PROVE  Fits(d)'
<1>1. CASE d = c
  <2>1. opener'[c] = NoTasks[c] /\ fetcher'[c] = NoFetches[c]
    BY DEF Leave, Typed
  <2>2. OpenersInside(c)' = {} /\ FetchersInside(c)' = {}
    BY <2>1 DEF OpenersInside, FetchersInside, NoTasks, NoFetches
  <2>3. QED BY <1>1, <2>2, NobodyThere
<1>2. CASE d # c
  <2>1. opener'[d] = opener[d] /\ fetcher'[d] = fetcher[d] /\ limit'[d] = limit[d]
    BY <1>2 DEF Leave, Typed
  <2>2. OpenersInside(d)' = OpenersInside(d) /\ FetchersInside(d)' = FetchersInside(d)
    BY <2>1 DEF OpenersInside, FetchersInside
  <2>3. QED BY <2>1, <2>2, NobodyIn
<1>3. QED BY <1>1, <1>2

\* Nothing is fetched for a call that has not begun, through every step.
LEMMA IdleStep ==
    ASSUME Typed, IdleFetchesNothing, [Next]_vars
    PROVE  IdleFetchesNothing'
<1> SUFFICES ASSUME NEW d \in Calls, phase'[d] = "idle", NEW i \in Items
             PROVE  fetcher'[d][i] = "none"
  BY DEF IdleFetchesNothing
<1>1. ASSUME NEW c \in Calls, Call(c)
      PROVE  fetcher'[d][i] = "none"
  BY <1>1 DEF Call, IdleFetchesNothing, Typed, fetchVars
<1>2. ASSUME NEW c \in Calls, StartPrefetch(c)
      PROVE  fetcher'[d][i] = "none"
  BY <1>2 DEF StartPrefetch, IdleFetchesNothing, Typed
<1>3. ASSUME NEW c \in Calls, Parse(c) \/ ParseFails(c)
      PROVE  fetcher'[d][i] = "none"
  BY <1>3 DEF Parse, ParseFails, IdleFetchesNothing, Typed, fetchVars
<1>4. ASSUME NEW c \in Calls, Return(c) \/ Cancel(c)
      PROVE  fetcher'[d][i] = "none"
  <2>1. \E outcome \in {"returned", "failed", "cancelled"} : Leave(c, outcome)
    BY <1>4 DEF Return, Cancel
  <2>2. phase[d] = "idle" /\ fetcher'[d] = fetcher[d]
    BY <2>1 DEF Leave, Typed
  <2>3. QED BY <2>2 DEF IdleFetchesNothing
<1>5. ASSUME NEW c \in Calls, NEW p \in Parts, Open(c, p)
      PROVE  fetcher'[d][i] = "none"
  <2>1. fetcher' = fetcher /\ phase[d] = "idle"
    BY <1>5 DEF Open, FindOpen, LockAtOnce, QueueForLock, GetLock, FooterArrives, FooterFails, FailCall,
                Typed, callVars, fetchVars
  <2>2. QED BY <2>1 DEF IdleFetchesNothing
<1>6. ASSUME NEW c \in Calls, NEW item \in Items, Prefetch(c, item)
      PROVE  fetcher'[d][i] = "none"
  <2>1. phase[d] = "idle" /\ fetcher[c][item] # "none"
    BY <1>6 DEF Prefetch, NothingToFetch, AskForSpan, SpanArrives, SpanFails, FailCall, Typed, callVars
  <2>2. d # c /\ fetcher[d][i] = "none"
    BY <2>1 DEF IdleFetchesNothing
  <2>3. fetcher'[d] = fetcher[d]
    BY <1>6, <2>2 DEF Prefetch, NothingToFetch, AskForSpan, SpanArrives, SpanFails, Typed
  <2>4. QED BY <2>2, <2>3
<1>7. ASSUME (\E p \in Parts : ReadSync(p)) \/ Release \/ UNCHANGED vars
      PROVE  fetcher'[d][i] = "none"
  <2>1. phase' = phase /\ fetcher' = fetcher
    BY <1>7 DEF ReadSync, Release, vars, callVars, fetchVars
  <2>2. QED BY <2>1 DEF IdleFetchesNothing
<1>8. QED BY <1>1, <1>2, <1>3, <1>4, <1>5, <1>6, <1>7 DEF Next, Step

\* Every step keeps every semaphore within its size.
LEMMA StepFits ==
    ASSUME Typed, Typed', IdleFetchesNothing, [Next]_vars, NEW d \in Calls, Fits(d)
    PROVE  Fits(d)'
<1>1. ASSUME NEW c \in Calls, Call(c)
      PROVE  Fits(d)'
  <2>1. CASE d = c
    <3>1. PICK asked \in Requests :
             opener' = [opener EXCEPT ![c] =
                 [p \in Parts |-> IF p \in PartsOf(asked.items) THEN "gate" ELSE "none"]]
      BY <1>1 DEF Call
    <3>2. OpenersInside(c)' = {}
      BY <3>1 DEF OpenersInside, Typed
    <3>3. FetchersInside(c)' = {}
      BY <1>1 DEF Call, FetchersInside, IdleFetchesNothing, fetchVars
    <3>4. QED BY <2>1, <3>2, <3>3, NobodyThere
  <2>2. CASE d # c
    <3>1. opener'[d] = opener[d] /\ fetcher' = fetcher /\ limit'[d] = limit[d]
      BY <1>1, <2>2 DEF Call, Typed, fetchVars
    <3>2. OpenersInside(d)' = OpenersInside(d) /\ FetchersInside(d)' = FetchersInside(d)
      BY <3>1 DEF OpenersInside, FetchersInside
    <3>3. QED BY <3>1, <3>2, NobodyIn
  <2>3. QED BY <2>1, <2>2
<1>2. ASSUME NEW c \in Calls, StartPrefetch(c)
      PROVE  Fits(d)'
  <2>1. limit' = limit /\ opener' = opener
    BY <1>2 DEF StartPrefetch, openVars
  <2>2. FetchersInside(d)' \subseteq FetchersInside(d)
    BY <1>2 DEF StartPrefetch, FetchersInside, Typed
  <2>3. OpenersInside(d)' = OpenersInside(d)
    BY <2>1 DEF OpenersInside
  <2>4. QED BY <2>1, <2>2, <2>3, NobodyIn
<1>3. ASSUME NEW c \in Calls, Return(c) \/ Cancel(c)
      PROVE  Fits(d)'
  BY <1>3, LeaveFits DEF Return, Cancel
<1>4. ASSUME limit' = limit, opener' = opener, fetcher' = fetcher
      PROVE  Fits(d)'
  BY <1>4, NobodyIn DEF OpenersInside, FetchersInside
<1>5. ASSUME NEW c \in Calls, Parse(c) \/ ParseFails(c)
      PROVE  Fits(d)'
  BY <1>4, <1>5 DEF Parse, ParseFails, openVars, fetchVars
<1>6. ASSUME (\E p \in Parts : ReadSync(p)) \/ Release \/ UNCHANGED vars
      PROVE  Fits(d)'
  BY <1>4, <1>6 DEF ReadSync, Release, vars, callVars, openVars, fetchVars
<1>7. QED
  BY <1>1, <1>2, <1>3, <1>5, <1>6, OpenFits, PrefetchFits DEF Next, Step

\* Every variable has its type, and no call has more tasks inside its semaphore than it asked
\* for, through failures, cancellations and releases (guarded, in aread_cells).
THEOREM ReaderTyped == Spec => []TypeOK
<1> DEFINE AllFit == \A c \in Calls : Fits(c)
<1>1. Init => IdleFetchesNothing
  BY DEF Init, IdleFetchesNothing, NoFetches
<1>2. ASSUME Init
      PROVE  AllFit
  <2>1. ASSUME NEW c \in Calls
        PROVE  Inside(c) = 0 + 0 /\ limit[c] = 1
    <3>1. OpenersInside(c) = {} /\ FetchersInside(c) = {}
      BY <1>2 DEF Init, OpenersInside, FetchersInside, NoTasks, NoFetches
    <3>2. QED BY <1>2, <3>1, FS_EmptySet DEF Init, Inside
  <2>2. QED BY <2>1 DEF Fits
<1>3. Typed /\ Typed' /\ IdleFetchesNothing /\ AllFit /\ [Next]_vars => AllFit'
  BY StepFits
<1>4. Typed /\ AllFit => TypeOK
  BY DEF TypeOK, Fits
<1>5. QED BY <1>1, <1>2, <1>3, <1>4, IdleStep, AlwaysTyped, PTL DEF Spec

(***************************************************************************)
(* Orderly use: nobody releases or opens under a call that is under way.   *)
(***************************************************************************)

\* A task that waits for a lock or fetches has the lock that _opening has for its part.
LocksInUse ==
    \A c \in Calls, p \in Parts :
        opener[c][p] \in {"lock", "fetch"} => opening[p] # None /\ lock[c][p] = opening[p]

\* At most one task fetches a part's footer, of a part that is closed.
OneFetch ==
    \A p \in Parts, c, d \in Calls :
        opener[c][p] = "fetch" => /\ parquet[p] = 0
                                  /\ opener[d][p] = "fetch" => d = c

\* A call that has not failed has a task for each of its parts, and those done have opened it.
OpenersDeliver ==
    \A c \in Calls, p \in Parts :
        /\ phase[c] \in {"opening", "prefetching"} /\ p \in PartsOf(request[c]) =>
               opener[c][p] # "none" /\ (opener[c][p] = "done" => parquet[p] # 0)
        /\ phase[c] = "prefetching" => opener[c][p] \in {"none", "done"}

\* Once a call prefetches it has a task for each of its row groups; the file to prime is the
\* one that is read through, and holds the spans of those done.
FetchersDeliver ==
    \A c \in Calls : phase[c] = "prefetching" => \A item \in request[c] :
        /\ fetcher[c][item] # "none"
        /\ fetcher[c][item] = "fetch" => target[c][item] = parquet[item[1]]
        /\ fetcher[c][item] = "done" => partFile[item[1]] = 0 \/ Holds(item)

Orderly == LocksInUse /\ OneFetch /\ OpenersDeliver /\ FetchersDeliver /\ stalled = {}

\* All parts of a call that prefetches are open.
LEMMA PartsAreOpen ==
    ASSUME Typed, OpenersDeliver, NEW c \in Calls, phase[c] = "prefetching", NEW item \in request[c]
    PROVE  item[1] \in Parts /\ parquet[item[1]] # 0
<1>1. item \in Items /\ item[1] \in PartsOf(request[c])
  BY DEF Typed, PartsOf
<1>2. item[1] \in Parts
  BY <1>1 DEF Items
<1>3. opener[c][item[1]] = "done"
  BY <1>1, <1>2 DEF OpenersDeliver
<1>4. QED BY <1>1, <1>2, <1>3 DEF OpenersDeliver

\* A parse opens nothing and fetches nothing.
LEMMA ParseMovesNothing ==
    ASSUME Typed, Orderly, NEW c \in Calls, Parse(c) \/ ParseFails(c)
    PROVE  parquet' = parquet /\ partFile' = partFile /\ primed' = primed /\ stalled' = {}
<1>1. phase[c] = "prefetching" /\ \A i \in Items : fetcher[c][i] \in {"none", "done"}
  BY DEF Parse, ParseFails, Prefetched
<1>2. Closed(c) = {}
  BY <1>1, PartsAreOpen DEF Closed, PartsOf, Orderly
<1>3. Opened({})
  BY <1>2 DEF Parse, ParseFails
<1>4. parquet' = parquet /\ partFile' = partFile /\ primed' = primed
  BY <1>3 DEF Opened, Typed
<1>5. ASSUME NEW item \in request[c]
      PROVE  InMemory(item)
  <2>1. item \in Items
    BY DEF Typed
  <2>2. parquet[item[1]] # 0
    BY <1>1, PartsAreOpen DEF Orderly
  <2>3. fetcher[c][item] = "done"
    BY <1>1, <2>1 DEF Orderly, FetchersDeliver
  <2>4. partFile[item[1]] = 0 \/ Holds(item)
    BY <1>1, <2>3 DEF Orderly, FetchersDeliver
  <2>5. QED BY <2>2, <2>4 DEF InMemory
<1>6. ~GoesToStore(c)
  BY <1>5 DEF GoesToStore
<1>7. stalled' = {}
  BY <1>6 DEF Parse, ParseFails, Stalls, Orderly
<1>8. QED BY <1>4, <1>7

\* What an opening of closed parts leaves as it was (Opened).
LEMMA OpenPartsStay ==
    ASSUME Typed, NEW q \in Parts, parquet[q] = 0, Opened({q}), NEW p \in Parts, parquet[p] # 0
    PROVE  /\ parquet'[p] = parquet[p]
           /\ partFile'[p] = partFile[p]
           /\ \A item \in primed : item[1] = p => item \in primed'
BY DEF Opened, Typed

\* A step of the loop under orderly use leaves the open parts as they are.
LEMMA OpenPartsStayOpen ==
    ASSUME Typed, orderly, Orderly, [Next]_vars, ~Release, NEW p \in Parts, parquet[p] # 0
    PROVE  /\ parquet'[p] = parquet[p]
           /\ partFile'[p] = partFile[p]
           /\ \A item \in primed : item[1] = p => item \in primed'
<1> DEFINE Stays == /\ parquet'[p] = parquet[p]
                    /\ partFile'[p] = partFile[p]
                    /\ \A item \in primed : item[1] = p => item \in primed'
<1>1. ASSUME NEW c \in Calls, Parse(c) \/ ParseFails(c)
      PROVE  Stays
  BY <1>1, ParseMovesNothing
<1>2. ASSUME NEW c \in Calls, NEW q \in Parts, FooterArrives(c, q)
      PROVE  Stays
  <2>1. parquet[q] = 0 /\ Opened({q})
    BY <1>2 DEF FooterArrives, Orderly, OneFetch
  <2>2. QED BY <2>1, OpenPartsStay
<1>3. ASSUME NEW q \in Parts, ReadSync(q)
      PROVE  Stays
  BY <1>3, OpenPartsStay DEF ReadSync
<1>4. ASSUME UNCHANGED files, primed \subseteq primed'
      PROVE  Stays
  BY <1>4 DEF files
<1>5. ASSUME NEW c \in Calls, NEW q \in Parts,
             FindOpen(c, q) \/ LockAtOnce(c, q) \/ QueueForLock(c, q) \/ GetLock(c, q) \/ FooterFails(c, q)
      PROVE  Stays
  BY <1>4, <1>5 DEF FindOpen, LockAtOnce, QueueForLock, GetLock, FooterFails
<1>6. ASSUME NEW c \in Calls, NEW item \in Items, Prefetch(c, item)
      PROVE  Stays
  <2>1. UNCHANGED files /\ primed \subseteq primed'
    BY <1>6 DEF Prefetch, NothingToFetch, AskForSpan, SpanArrives, SpanFails
  <2>2. QED BY <1>4, <2>1
<1>7. ASSUME NEW c \in Calls, Call(c) \/ StartPrefetch(c) \/ Return(c) \/ Cancel(c)
      PROVE  Stays
  BY <1>4, <1>7 DEF Call, StartPrefetch, Return, Cancel
<1>8. CASE UNCHANGED vars
  BY <1>4, <1>8 DEF vars
<1>9. QED
  BY <1>1, <1>2, <1>3, <1>5, <1>6, <1>7, <1>8 DEF Next, Step, Open

\* The lock of a task that uses it stays the lock of its part.
LEMMA LocksStep ==
    ASSUME Typed, orderly, Orderly, [Next]_vars
    PROVE  LocksInUse'
<1> SUFFICES ASSUME NEW d \in Calls, NEW p \in Parts, opener'[d][p] \in {"lock", "fetch"}
             PROVE  opening'[p] # None /\ lock'[d][p] = opening'[p]
  BY DEF LocksInUse
<1> DEFINE Good == opening'[p] # None /\ lock'[d][p] = opening'[p]
<1>1. opener[d][p] \in {"lock", "fetch"} => opening[p] # None /\ lock[d][p] = opening[p]
  BY DEF Orderly, LocksInUse
<1>2. ASSUME NEW c \in Calls, Call(c)
      PROVE  Good
  BY <1>1, <1>2 DEF Call, Typed
<1>3. ASSUME NEW c \in Calls, NEW q \in Parts, LockAtOnce(c, q) \/ QueueForLock(c, q)
      PROVE  Good
  <2>1. /\ opening' = [opening EXCEPT ![q] = LockFor(c, q)]
        /\ lock' = [lock EXCEPT ![c][q] = LockFor(c, q)]
        /\ \A e \in Calls, r \in Parts : <<e, r>> # <<c, q>> => opener'[e][r] = opener[e][r]
    BY <1>3 DEF LockAtOnce, QueueForLock, Typed
  <2>2. LockFor(c, q) # None /\ (opening[q] # None => LockFor(c, q) = opening[q])
    BY ReaderAssumption DEF LockFor
  <2>3. CASE p # q
    BY <1>1, <2>1, <2>3 DEF Typed
  <2>4. CASE p = q /\ d = c
    BY <2>1, <2>2, <2>4 DEF Typed
  <2>5. CASE p = q /\ d # c
    BY <1>1, <2>1, <2>2, <2>5 DEF Typed
  <2>6. QED BY <2>3, <2>4, <2>5
<1>4. ASSUME NEW c \in Calls, NEW q \in Parts, FooterArrives(c, q) \/ FooterFails(c, q)
      PROVE  Good
  <2>1. /\ opening' = opening
        /\ opener' = [opener EXCEPT ![c][q] = "done"]
        /\ lock' = [lock EXCEPT ![c][q] = None]
    BY <1>4 DEF FooterArrives, FooterFails
  <2>2. <<d, p>> # <<c, q>>
    BY <2>1 DEF Typed
  <2>3. QED BY <1>1, <2>1, <2>2 DEF Typed
<1>5. ASSUME NEW c \in Calls, NEW q \in Parts, FindOpen(c, q)
      PROVE  Good
  BY <1>1, <1>5 DEF FindOpen, Typed
<1>6. ASSUME NEW c \in Calls, NEW q \in Parts, GetLock(c, q)
      PROVE  Good
  <2>1. CASE parquet[q] # 0
    <3>1. /\ opening' = opening
          /\ opener' = [opener EXCEPT ![c][q] = "done"]
          /\ lock' = [lock EXCEPT ![c][q] = None]
      BY <1>6, <2>1 DEF GetLock
    <3>2. <<d, p>> # <<c, q>>
      BY <3>1 DEF Typed
    <3>3. QED BY <1>1, <3>1, <3>2 DEF Typed
  <2>2. CASE parquet[q] = 0
    <3>1. /\ opening' = opening
          /\ opener' = [opener EXCEPT ![c][q] = "fetch"]
          /\ lock' = lock
          /\ opener[c][q] = "lock"
      BY <1>6, <2>2 DEF GetLock
    <3>2. opener[d][p] \in {"lock", "fetch"}
      BY <3>1 DEF Typed
    <3>3. QED BY <1>1, <3>1, <3>2
  <2>3. QED BY <2>1, <2>2
<1>7. ASSUME NEW c \in Calls, Return(c) \/ Cancel(c)
      PROVE  Good
  <2>1. opening' = opening /\ \E outcome \in {"returned", "failed", "cancelled"} : Leave(c, outcome)
    BY <1>7 DEF Return, Cancel
  <2>2. CASE d = c
    BY <2>1, <2>2 DEF Leave, Typed, NoTasks
  <2>3. CASE d # c
    BY <1>1, <2>1, <2>3 DEF Leave, Typed
  <2>4. QED BY <2>2, <2>3
<1>8. CASE Release
  BY <1>8 DEF Release, AtRest, openVars
<1>9. ASSUME UNCHANGED openVars, opening' = opening
      PROVE  Good
  BY <1>1, <1>9 DEF openVars
<1>10. ASSUME NEW c \in Calls, StartPrefetch(c) \/ Parse(c) \/ ParseFails(c)
       PROVE  Good
  BY <1>9, <1>10 DEF StartPrefetch, Parse, ParseFails
<1>11. ASSUME NEW c \in Calls, NEW item \in Items, Prefetch(c, item)
       PROVE  Good
  <2>1. UNCHANGED openVars /\ opening' = opening
    BY <1>11 DEF Prefetch, NothingToFetch, AskForSpan, SpanArrives, SpanFails
  <2>2. QED BY <1>9, <2>1
<1>12. ASSUME (\E q \in Parts : ReadSync(q)) \/ UNCHANGED vars
       PROVE  Good
  BY <1>9, <1>12 DEF ReadSync, vars
<1>13. QED
  BY <1>2, <1>3, <1>4, <1>5, <1>6, <1>7, <1>8, <1>10, <1>11, <1>12 DEF Next, Step, Open

\* Nobody comes to fetch a footer that is being fetched, or that of an open part.
LEMMA OneFetchStep ==
    ASSUME Typed, orderly, Orderly, [Next]_vars
    PROVE  OneFetch'
<1> SUFFICES ASSUME NEW p \in Parts, NEW d \in Calls, NEW e \in Calls, opener'[d][p] = "fetch"
             PROVE  parquet'[p] = 0 /\ (opener'[e][p] = "fetch" => e = d)
  BY DEF OneFetch
<1> DEFINE Good == parquet'[p] = 0 /\ (opener'[e][p] = "fetch" => e = d)
<1>1. ASSUME NEW c \in Calls, c \in {d, e}, opener[c][p] = "fetch"
      PROVE  /\ parquet[p] = 0
             /\ opener[d][p] = "fetch" /\ opener[e][p] = "fetch" => e = d
  BY <1>1 DEF Orderly, OneFetch
<1>2. ASSUME parquet' = parquet,
             \A c \in Calls : opener'[c][p] = "fetch" => opener[c][p] = "fetch"
      PROVE  Good
  BY <1>1, <1>2
<1>3. ASSUME NEW c \in Calls, Call(c)
      PROVE  Good
  <2>1. parquet' = parquet /\ \A b \in Calls : opener'[b][p] = "fetch" => opener[b][p] = "fetch"
    BY <1>3 DEF Call, Typed, files
  <2>2. QED BY <1>2, <2>1
<1>4. ASSUME NEW c \in Calls, NEW q \in Parts,
             LockAtOnce(c, q) \/ (GetLock(c, q) /\ parquet[q] = 0)
      PROVE  Good
  <2>1. parquet' = parquet /\ opener' = [opener EXCEPT ![c][q] = "fetch"] /\ parquet[q] = 0
    BY <1>4 DEF LockAtOnce, GetLock, files
  <2>2. ASSUME NEW b \in Calls
        PROVE  opener[b][q] # "fetch"
    <3>1. SUFFICES ASSUME opener[b][q] = "fetch"
                   PROVE  FALSE
      OBVIOUS
    <3>2. opening[q] # None /\ lock[b][q] = opening[q]
      BY <3>1 DEF Orderly, LocksInUse
    <3>3. CASE LockAtOnce(c, q)
      BY <3>2, <3>3 DEF LockAtOnce, LockFor, Contended
    <3>4. CASE GetLock(c, q)
      <4>1. lock[c][q] = opening[q] /\ ~Held(lock[c][q], q)
        BY <3>4 DEF GetLock, Orderly, LocksInUse
      <4>2. QED BY <3>1, <3>2, <4>1 DEF Held
    <3>5. QED BY <1>4, <3>3, <3>4
  <2>3. CASE p = q
    <3>1. d = c
      BY <2>1, <2>2, <2>3 DEF Typed
    <3>2. opener'[e][p] = "fetch" => e = c
      BY <2>1, <2>2, <2>3 DEF Typed
    <3>3. QED BY <2>1, <2>3, <3>1, <3>2
  <2>4. CASE p # q
    <3>1. \A b \in Calls : opener'[b][p] = opener[b][p]
      BY <2>1, <2>4 DEF Typed
    <3>2. QED BY <1>2, <2>1, <3>1
  <2>5. QED BY <2>3, <2>4
<1>5. ASSUME NEW c \in Calls, NEW q \in Parts,
             FindOpen(c, q) \/ QueueForLock(c, q) \/ FooterFails(c, q) \/ (GetLock(c, q) /\ parquet[q] # 0)
      PROVE  Good
  <2>1. PICK after \in {"done", "lock"} :
           parquet' = parquet /\ opener' = [opener EXCEPT ![c][q] = after]
    BY <1>5 DEF FindOpen, QueueForLock, FooterFails, GetLock, files
  <2>2. \A b \in Calls : opener'[b][p] = "fetch" => opener[b][p] = "fetch"
    BY <2>1 DEF Typed
  <2>3. QED BY <1>2, <2>1, <2>2
<1>6. ASSUME NEW c \in Calls, NEW q \in Parts, FooterArrives(c, q)
      PROVE  Good
  <2>1. /\ opener[c][q] = "fetch"
        /\ opener' = [opener EXCEPT ![c][q] = "done"]
        /\ \A r \in Parts : r # q => parquet'[r] = parquet[r]
    BY <1>6 DEF FooterArrives, Opened, Typed
  <2>2. opener[d][p] = "fetch" /\ (opener'[e][p] = "fetch" => opener[e][p] = "fetch")
    BY <2>1 DEF Typed
  <2>3. p # q
    <3>1. SUFFICES ASSUME p = q
                   PROVE  FALSE
      OBVIOUS
    <3>2. d = c
      BY <2>1, <2>2, <3>1 DEF Orderly, OneFetch
    <3>3. QED BY <2>1, <3>1, <3>2 DEF Typed
  <2>4. QED BY <1>1, <2>1, <2>2, <2>3
<1>7. ASSUME NEW c \in Calls, Return(c) \/ Cancel(c)
      PROVE  Good
  <2>1. parquet' = parquet /\ \E outcome \in {"returned", "failed", "cancelled"} : Leave(c, outcome)
    BY <1>7 DEF Return, Cancel, files
  <2>2. opener' = [opener EXCEPT ![c] = NoTasks[c]] /\ NoTasks[c][p] = "none"
    BY <2>1 DEF Leave, NoTasks
  <2>3. \A b \in Calls : opener'[b][p] = "fetch" => opener[b][p] = "fetch"
    BY <2>2 DEF Typed
  <2>4. QED BY <1>2, <2>1, <2>3
<1>8. CASE Release
  BY <1>8 DEF Release, AtRest, openVars
<1>9. ASSUME NEW c \in Calls, Parse(c) \/ ParseFails(c)
      PROVE  Good
  <2>1. parquet' = parquet /\ opener' = opener
    BY <1>9, ParseMovesNothing DEF Parse, ParseFails, openVars
  <2>2. QED BY <1>2, <2>1
<1>10. ASSUME NEW q \in Parts, ReadSync(q)
       PROVE  Good
  <2>1. /\ opener' = opener
        /\ \A c \in Calls : opener[c][q] # "fetch"
        /\ \A r \in Parts : r # q => parquet'[r] = parquet[r]
    BY <1>10 DEF ReadSync, Opened, Typed, openVars
  <2>2. QED BY <1>1, <2>1
<1>11. ASSUME parquet' = parquet, opener' = opener
       PROVE  Good
  BY <1>2, <1>11
<1>12. ASSUME NEW c \in Calls, StartPrefetch(c)
       PROVE  Good
  BY <1>11, <1>12 DEF StartPrefetch, openVars, files
<1>13. ASSUME NEW c \in Calls, NEW item \in Items, Prefetch(c, item)
       PROVE  Good
  <2>1. parquet' = parquet /\ opener' = opener
    BY <1>13 DEF Prefetch, NothingToFetch, AskForSpan, SpanArrives, SpanFails, openVars, files
  <2>2. QED BY <1>11, <2>1
<1>14. CASE UNCHANGED vars
  BY <1>11, <1>14 DEF vars, openVars, files
<1>15. QED
  BY <1>3, <1>4, <1>5, <1>6, <1>7, <1>8, <1>9, <1>10, <1>12, <1>13, <1>14 DEF Next, Step, Open

\* The first wave of a call that has not failed opens what the call needs, and nobody closes it.
LEMMA OpenersStep ==
    ASSUME Typed, orderly, Orderly, [Next]_vars
    PROVE  OpenersDeliver'
<1> SUFFICES ASSUME NEW d \in Calls, NEW p \in Parts, phase'[d] \in {"opening", "prefetching"}
             PROVE  /\ p \in PartsOf(request'[d]) =>
                           opener'[d][p] # "none" /\ (opener'[d][p] = "done" => parquet'[p] # 0)
                    /\ phase'[d] = "prefetching" => opener'[d][p] \in {"none", "done"}
  BY DEF OpenersDeliver, PartsOf
<1> DEFINE Good == /\ p \in PartsOf(request'[d]) =>
                          opener'[d][p] # "none" /\ (opener'[d][p] = "done" => parquet'[p] # 0)
                   /\ phase'[d] = "prefetching" => opener'[d][p] \in {"none", "done"}
<1>1. phase[d] \in {"opening", "prefetching"} =>
          /\ p \in PartsOf(request[d]) =>
                 opener[d][p] # "none" /\ (opener[d][p] = "done" => parquet[p] # 0)
          /\ phase[d] = "prefetching" => opener[d][p] \in {"none", "done"}
  BY DEF Orderly, OpenersDeliver
<1>2. ASSUME NEW c \in Calls, Call(c)
      PROVE  Good
  <2>1. PICK asked \in Requests :
           /\ request' = [request EXCEPT ![c] = asked.items]
           /\ opener' = [opener EXCEPT ![c] =
                            [r \in Parts |-> IF r \in PartsOf(asked.items) THEN "gate" ELSE "none"]]
    BY <1>2 DEF Call
  <2>2. phase' = [phase EXCEPT ![c] = "opening"] /\ parquet' = parquet
    BY <1>2 DEF Call, files
  <2>3. CASE d = c
    <3>1. request'[d] = asked.items /\ phase'[d] = "opening"
      BY <2>1, <2>2, <2>3 DEF Typed
    <3>2. opener'[d][p] = IF p \in PartsOf(asked.items) THEN "gate" ELSE "none"
      BY <2>1, <2>3 DEF Typed
    <3>3. QED BY <3>1, <3>2
  <2>4. CASE d # c
    <3>1. phase'[d] = phase[d] /\ request'[d] = request[d] /\ opener'[d] = opener[d]
      BY <2>1, <2>2, <2>4 DEF Typed
    <3>2. QED BY <1>1, <2>2, <3>1
  <2>5. QED BY <2>3, <2>4
<1>3. ASSUME NEW c \in Calls, StartPrefetch(c)
      PROVE  Good
  <2>1. /\ phase[c] = "opening" /\ \A r \in Parts : opener[c][r] \in {"none", "done"}
        /\ phase' = [phase EXCEPT ![c] = "prefetching"]
        /\ request' = request /\ opener' = opener /\ parquet' = parquet
    BY <1>3 DEF StartPrefetch, openVars, files
  <2>2. CASE d = c
    BY <1>1, <2>1, <2>2
  <2>3. CASE d # c
    <3>1. phase'[d] = phase[d]
      BY <2>1, <2>3 DEF Typed
    <3>2. QED BY <1>1, <2>1, <3>1
  <2>4. QED BY <2>2, <2>3
<1>4. ASSUME NEW c \in Calls, Parse(c) \/ ParseFails(c)
      PROVE  Good
  <2>1. /\ phase' = [phase EXCEPT ![c] = "decoding"] \/ phase' = [phase EXCEPT ![c] = "failed"]
        /\ request' = request /\ opener' = opener
    BY <1>4 DEF Parse, ParseFails, openVars
  <2>2. d # c
    BY <2>1 DEF Typed
  <2>3. phase'[d] = phase[d] /\ parquet' = parquet
    BY <1>4, <2>1, <2>2, ParseMovesNothing DEF Typed
  <2>4. QED BY <1>1, <2>1, <2>3
<1>5. ASSUME NEW c \in Calls, Return(c) \/ Cancel(c)
      PROVE  Good
  <2>1. PICK outcome \in {"returned", "failed", "cancelled"} : Leave(c, outcome) /\ parquet' = parquet
    BY <1>5 DEF Return, Cancel, files
  <2>2. d # c
    BY <2>1 DEF Leave, Typed
  <2>3. phase'[d] = phase[d] /\ request'[d] = request[d] /\ opener'[d] = opener[d]
    BY <2>1, <2>2 DEF Leave, Typed
  <2>4. QED BY <1>1, <2>1, <2>3
<1>6. ASSUME NEW c \in Calls, NEW q \in Parts,
             FindOpen(c, q) \/ LockAtOnce(c, q) \/ QueueForLock(c, q) \/ GetLock(c, q)
      PROVE  Good
  <2>1. /\ phase' = phase /\ request' = request /\ parquet' = parquet
        /\ opener[c][q] \in {"gate", "lock"}
    BY <1>6 DEF FindOpen, LockAtOnce, QueueForLock, GetLock, callVars, files
  <2>2. PICK after \in {"done", "lock", "fetch"} :
           opener' = [opener EXCEPT ![c][q] = after] /\ (after = "done" => parquet[q] # 0)
    BY <1>6 DEF FindOpen, LockAtOnce, QueueForLock, GetLock
  <2>3. CASE d = c /\ p = q
    <3>1. opener'[d][p] = after
      BY <2>2, <2>3 DEF Typed
    <3>2. QED BY <1>1, <2>1, <2>2, <2>3, <3>1
  <2>4. CASE ~(d = c /\ p = q)
    <3>1. opener'[d][p] = opener[d][p]
      BY <2>2, <2>4 DEF Typed
    <3>2. QED BY <1>1, <2>1, <3>1
  <2>5. QED BY <2>3, <2>4
<1>7. ASSUME NEW c \in Calls, NEW q \in Parts, FooterArrives(c, q)
      PROVE  Good
  <2>1. /\ phase' = phase /\ request' = request
        /\ opener' = [opener EXCEPT ![c][q] = "done"]
        /\ parquet' = [r \in Parts |-> IF r \in {q} THEN made[r] + 1 ELSE parquet[r]]
    BY <1>7 DEF FooterArrives, Opened, callVars
  <2>2. parquet'[q] # 0
    BY <2>1 DEF Typed
  <2>3. opener'[d][p] = IF d = c /\ p = q THEN "done" ELSE opener[d][p]
    BY <2>1 DEF Typed
  <2>4. parquet[p] # 0 => parquet'[p] # 0
    BY <2>1, <2>2
  <2>5. QED BY <1>1, <2>1, <2>2, <2>3, <2>4
<1>8. ASSUME NEW c \in Calls, NEW q \in Parts, FooterFails(c, q)
       PROVE  Good
  <2>1. /\ phase' = [phase EXCEPT ![c] = IF @ \in {"opening", "prefetching"} THEN "failed" ELSE @]
        /\ request' = request /\ parquet' = parquet
        /\ opener' = [opener EXCEPT ![c][q] = "done"]
    BY <1>8 DEF FooterFails, FailCall, files
  <2>2. d # c
    BY <2>1 DEF Typed
  <2>3. phase'[d] = phase[d] /\ opener'[d] = opener[d]
    BY <2>1, <2>2 DEF Typed
  <2>4. QED BY <1>1, <2>1, <2>3
<1>9. ASSUME NEW c \in Calls, NEW item \in Items, Prefetch(c, item)
       PROVE  Good
  <2>1. /\ \/ phase' = phase
           \/ phase' = [phase EXCEPT ![c] = IF @ \in {"opening", "prefetching"} THEN "failed" ELSE @]
        /\ request' = request /\ parquet' = parquet /\ opener' = opener
    BY <1>9 DEF Prefetch, NothingToFetch, AskForSpan, SpanArrives, SpanFails, FailCall, callVars, openVars, files
  <2>2. phase'[d] = phase[d]
    BY <2>1 DEF Typed
  <2>3. QED BY <1>1, <2>1, <2>2
<1>10. CASE Release
  <2>1. phase' = phase /\ AtRest(d)
    BY <1>10 DEF Release, callVars
  <2>2. QED BY <2>1 DEF AtRest
<1>11. ASSUME NEW q \in Parts, ReadSync(q)
       PROVE  Good
  <2>1. phase' = phase /\ request' = request /\ opener' = opener
    BY <1>11 DEF ReadSync, callVars, openVars
  <2>2. parquet[p] # 0 => parquet'[p] = parquet[p]
    BY <1>11, OpenPartsStay DEF ReadSync
  <2>3. QED BY <1>1, <2>1, <2>2
<1>12. CASE UNCHANGED vars
  BY <1>1, <1>12 DEF vars, callVars, openVars, files
<1>13. QED
  BY <1>2, <1>3, <1>4, <1>5, <1>6, <1>7, <1>8, <1>9, <1>10, <1>11, <1>12 DEF Next, Step, Open

\* A task of the second wave ends with its span in the file that is read through, and it stays.
LEMMA PrefetchDelivers ==
    ASSUME Typed, orderly, Orderly, HandlesAgree,
           NEW c \in Calls, NEW i \in Items, Prefetch(c, i),
           NEW d \in Calls, phase'[d] = "prefetching", NEW item \in request[d]
    PROVE  /\ fetcher'[d][item] # "none"
           /\ fetcher'[d][item] = "fetch" => target'[d][item] = parquet'[item[1]]
           /\ fetcher'[d][item] = "done" => partFile'[item[1]] = 0 \/ Holds(item)'
<1> DEFINE Good == /\ fetcher'[d][item] # "none"
                   /\ fetcher'[d][item] = "fetch" => target'[d][item] = parquet'[item[1]]
                   /\ fetcher'[d][item] = "done" => partFile'[item[1]] = 0 \/ Holds(item)'
<1>1. /\ parquet' = parquet /\ partFile' = partFile /\ primed \subseteq primed'
      /\ phase[d] = "prefetching"
  BY DEF Prefetch, NothingToFetch, AskForSpan, SpanArrives, SpanFails, FailCall, Typed, callVars, files
<1>2. item \in Items /\ item[1] \in Parts
  BY DEF Typed, Items
<1>3. /\ fetcher[d][item] # "none"
      /\ fetcher[d][item] = "fetch" => target[d][item] = parquet[item[1]]
      /\ fetcher[d][item] = "done" => partFile[item[1]] = 0 \/ Holds(item)
  BY <1>1 DEF Orderly, FetchersDeliver
<1>4. Holds(item) => Holds(item)'
  BY <1>1 DEF Holds
<1>5. ASSUME fetcher'[d][item] = fetcher[d][item], target'[d][item] = target[d][item]
      PROVE  Good
  BY <1>1, <1>3, <1>4, <1>5
<1>6. CASE ~(d = c /\ item = i)
  <2>1. \E after \in FetcherStates : fetcher' = [fetcher EXCEPT ![c][i] = after]
    BY DEF Prefetch, NothingToFetch, AskForSpan, SpanArrives, SpanFails, FetcherStates
  <2>2. target' = target \/ \E n : target' = [target EXCEPT ![c][i] = n]
    BY DEF Prefetch, NothingToFetch, AskForSpan, SpanArrives, SpanFails
  <2>3. fetcher'[d][item] = fetcher[d][item]
    BY <1>2, <1>6, <2>1 DEF Typed
  <2>4. target'[d][item] = target[d][item]
    BY <1>2, <1>6, <2>2 DEF Typed
  <2>5. QED BY <1>5, <2>3, <2>4
<1>7. CASE d = c /\ item = i
  <2>1. CASE NothingToFetch(c, i)
    <3>1. fetcher'[d][item] = "done" /\ (partFile[item[1]] = 0 \/ Holds(item))
      BY <1>2, <1>7, <2>1 DEF NothingToFetch, Typed
    <3>2. QED BY <1>1, <1>4, <3>1
  <2>2. CASE AskForSpan(c, i)
    <3>1. /\ fetcher'[d][item] = "fetch"
          /\ target'[d][item] = partFile[item[1]] /\ partFile[item[1]] # 0
      BY <1>2, <1>7, <2>2 DEF AskForSpan, Typed
    <3>2. partFile[item[1]] = parquet[item[1]]
      BY <1>2, <3>1 DEF HandlesAgree
    <3>3. QED BY <1>1, <3>1, <3>2
  <2>3. CASE SpanArrives(c, i)
    <3>1. fetcher'[d][item] = "done" /\ target[d][item] = parquet[item[1]]
      BY <1>2, <1>3, <1>7, <2>3 DEF SpanArrives, Typed
    <3>2. item \in primed'
      BY <1>7, <2>3, <3>1 DEF SpanArrives
    <3>3. QED BY <3>1, <3>2 DEF Holds
  <2>4. CASE SpanFails(c, i)
    BY <1>1, <1>7, <2>4 DEF SpanFails, FailCall, Typed
  <2>5. QED BY <2>1, <2>2, <2>3, <2>4 DEF Prefetch
<1>8. QED BY <1>6, <1>7

\* The second wave of a call that has not failed hands every span to the file it is read from.
LEMMA FetchersStep ==
    ASSUME Typed, orderly, Orderly, HandlesAgree, [Next]_vars
    PROVE  FetchersDeliver'
<1> SUFFICES ASSUME NEW d \in Calls, phase'[d] = "prefetching", NEW item \in request'[d]
             PROVE  /\ fetcher'[d][item] # "none"
                    /\ fetcher'[d][item] = "fetch" => target'[d][item] = parquet'[item[1]]
                    /\ fetcher'[d][item] = "done" => partFile'[item[1]] = 0 \/ Holds(item)'
  BY DEF FetchersDeliver
<1> DEFINE Good == /\ fetcher'[d][item] # "none"
                   /\ fetcher'[d][item] = "fetch" => target'[d][item] = parquet'[item[1]]
                   /\ fetcher'[d][item] = "done" => partFile'[item[1]] = 0 \/ Holds(item)'
<1>1. ASSUME ~Release, phase[d] = "prefetching", request'[d] = request[d],
             fetcher'[d] = fetcher[d], target'[d] = target[d]
      PROVE  Good
  <2>1. /\ fetcher[d][item] # "none"
        /\ fetcher[d][item] = "fetch" => target[d][item] = parquet[item[1]]
        /\ fetcher[d][item] = "done" => partFile[item[1]] = 0 \/ Holds(item)
    BY <1>1 DEF Orderly, FetchersDeliver
  <2>2. item[1] \in Parts /\ parquet[item[1]] # 0
    BY <1>1, PartsAreOpen DEF Orderly
  <2>3. /\ parquet'[item[1]] = parquet[item[1]]
        /\ partFile'[item[1]] = partFile[item[1]]
        /\ item \in primed => item \in primed'
    BY <1>1, <2>2, OpenPartsStayOpen
  <2>4. Holds(item) => Holds(item)'
    BY <2>3 DEF Holds
  <2>5. QED BY <1>1, <2>1, <2>3, <2>4
<1>2. CASE Release
  <2>1. phase' = phase /\ AtRest(d)
    BY <1>2 DEF Release, callVars
  <2>2. QED BY <2>1 DEF AtRest
<1>3. ASSUME NEW c \in Calls, Call(c)
      PROVE  ~Release => Good
  <2>1. d # c
    BY <1>3 DEF Call, Typed
  <2>2. phase[d] = "prefetching" /\ request'[d] = request[d] /\ fetcher'[d] = fetcher[d] /\ target'[d] = target[d]
    BY <1>3, <2>1 DEF Call, Typed, fetchVars
  <2>3. QED BY <1>1, <2>2
<1>4. ASSUME NEW c \in Calls, StartPrefetch(c)
      PROVE  ~Release => Good
  <2>1. /\ phase' = [phase EXCEPT ![c] = "prefetching"] /\ request' = request /\ target' = target
        /\ fetcher' = [fetcher EXCEPT ![c] = [i \in Items |-> IF i \in request[c] THEN "gate" ELSE "none"]]
    BY <1>4 DEF StartPrefetch
  <2>2. CASE d = c
    <3>1. item \in request[c] /\ item \in Items
      BY <2>1, <2>2 DEF Typed
    <3>2. fetcher'[d][item] = "gate"
      BY <2>1, <2>2, <3>1 DEF Typed
    <3>3. QED BY <3>2
  <2>3. CASE d # c
    <3>1. phase[d] = "prefetching" /\ request'[d] = request[d] /\ fetcher'[d] = fetcher[d] /\ target'[d] = target[d]
      BY <2>1, <2>3 DEF Typed
    <3>2. QED BY <1>1, <3>1
  <2>4. QED BY <2>2, <2>3
<1>5. ASSUME NEW c \in Calls, Parse(c) \/ ParseFails(c)
      PROVE  ~Release => Good
  <2>1. phase[d] = "prefetching" /\ request'[d] = request[d] /\ fetcher'[d] = fetcher[d] /\ target'[d] = target[d]
    BY <1>5 DEF Parse, ParseFails, Typed, fetchVars
  <2>2. QED BY <1>1, <2>1
<1>6. ASSUME NEW c \in Calls, Return(c) \/ Cancel(c)
      PROVE  ~Release => Good
  <2>1. PICK outcome \in {"returned", "failed", "cancelled"} : Leave(c, outcome)
    BY <1>6 DEF Return, Cancel
  <2>2. d # c
    BY <2>1 DEF Leave, Typed
  <2>3. phase[d] = "prefetching" /\ request'[d] = request[d] /\ fetcher'[d] = fetcher[d] /\ target'[d] = target[d]
    BY <2>1, <2>2 DEF Leave, Typed
  <2>4. QED BY <1>1, <2>3
<1>7. ASSUME NEW c \in Calls, NEW q \in Parts, Open(c, q)
      PROVE  ~Release => Good
  <2>1. phase[d] = "prefetching" /\ request' = request /\ fetcher' = fetcher /\ target' = target
    BY <1>7 DEF Open, FindOpen, LockAtOnce, QueueForLock, GetLock, FooterArrives, FooterFails, FailCall,
                Typed, callVars, fetchVars
  <2>2. QED BY <1>1, <2>1
<1>8. ASSUME NEW c \in Calls, NEW i \in Items, Prefetch(c, i)
      PROVE  Good
  <2>1. request' = request
    BY <1>8 DEF Prefetch, NothingToFetch, AskForSpan, SpanArrives, SpanFails, callVars
  <2>2. QED BY <1>8, <2>1, PrefetchDelivers
<1>9. ASSUME (\E q \in Parts : ReadSync(q)) \/ UNCHANGED vars
      PROVE  ~Release => Good
  <2>1. phase' = phase /\ request' = request /\ fetcher' = fetcher /\ target' = target
    BY <1>9 DEF ReadSync, vars, callVars, fetchVars
  <2>2. QED BY <1>1, <2>1
<1>10. QED
  BY <1>2, <1>3, <1>4, <1>5, <1>6, <1>7, <1>8, <1>9 DEF Next, Step

\* Only a parse can stall a call, and under orderly use none does.
LEMMA StalledStep ==
    ASSUME Typed, orderly, Orderly, [Next]_vars
    PROVE  stalled' = {}
<1>1. ASSUME NEW c \in Calls, Parse(c) \/ ParseFails(c)
      PROVE  stalled' = {}
  BY <1>1, ParseMovesNothing
<1>2. ASSUME NEW c \in Calls, NEW q \in Parts, Open(c, q)
      PROVE  stalled' = stalled
  BY <1>2 DEF Open, FindOpen, LockAtOnce, QueueForLock, GetLock, FooterArrives, FooterFails
<1>3. ASSUME NEW c \in Calls, NEW i \in Items, Prefetch(c, i)
      PROVE  stalled' = stalled
  BY <1>3 DEF Prefetch, NothingToFetch, AskForSpan, SpanArrives, SpanFails
<1>4. ASSUME NEW c \in Calls, Call(c) \/ StartPrefetch(c) \/ Return(c) \/ Cancel(c)
      PROVE  stalled' = stalled
  BY <1>4 DEF Call, StartPrefetch, Return, Cancel
<1>5. ASSUME (\E q \in Parts : ReadSync(q)) \/ Release \/ UNCHANGED vars
      PROVE  stalled' = stalled
  BY <1>5 DEF ReadSync, Release, vars
<1>6. QED
  BY <1>1, <1>2, <1>3, <1>4, <1>5 DEF Next, Step, Orderly

\* Whoever uses a Collection in an orderly way: locks, openings and prefetches deliver.
THEOREM OrderlyUse == Spec => [](orderly => Orderly)
<1>1. Init => Orderly
  BY DEF Init, Orderly, LocksInUse, OneFetch, OpenersDeliver, FetchersDeliver, NoTasks
<1>2. ASSUME Typed, HandlesAgree, orderly => Orderly, [Next]_vars
      PROVE  orderly' => Orderly'
  <2>1. orderly' = orderly
    <3>1. ASSUME NEW c \in Calls, Call(c) \/ StartPrefetch(c) \/ Parse(c) \/ ParseFails(c)
          PROVE  orderly' = orderly
      BY <3>1 DEF Call, StartPrefetch, Parse, ParseFails
    <3>2. ASSUME NEW c \in Calls, Return(c) \/ Cancel(c)
          PROVE  orderly' = orderly
      BY <3>2 DEF Return, Cancel
    <3>3. ASSUME NEW c \in Calls, NEW q \in Parts, Open(c, q)
          PROVE  orderly' = orderly
      BY <3>3 DEF Open, FindOpen, LockAtOnce, QueueForLock, GetLock, FooterArrives, FooterFails, callVars
    <3>4. ASSUME NEW c \in Calls, NEW i \in Items, Prefetch(c, i)
          PROVE  orderly' = orderly
      BY <3>4 DEF Prefetch, NothingToFetch, AskForSpan, SpanArrives, SpanFails, callVars
    <3>5. ASSUME (\E q \in Parts : ReadSync(q)) \/ Release \/ UNCHANGED vars
          PROVE  orderly' = orderly
      BY <3>5 DEF ReadSync, Release, vars, callVars
    <3>6. QED BY <1>2, <3>1, <3>2, <3>3, <3>4, <3>5 DEF Next, Step
  <2>2. ASSUME orderly
        PROVE  Orderly'
    <3>1. LocksInUse' /\ OneFetch' /\ OpenersDeliver'
      BY <1>2, <2>2, LocksStep, OneFetchStep, OpenersStep
    <3>2. FetchersDeliver' /\ stalled' = {}
      BY <1>2, <2>2, FetchersStep, StalledStep
    <3>3. QED BY <3>1, <3>2 DEF Orderly
  <2>3. QED BY <2>1, <2>2
<1>3. QED BY <1>1, <1>2, AlwaysTyped, HandlesAlwaysAgree, PTL DEF Spec

\* Of all the calls at most one fetches a part's footer, and never that of an open part, for any
\* number of calls, through failures and cancellations (_aopen_part).
THEOREM PartsAreOpenedOnce == Spec => []OpenedOnce
<1>1. (orderly => Orderly) => OpenedOnce
  BY DEF Orderly, OneFetch, OpenedOnce
<1>2. QED BY <1>1, OrderlyUse, PTL

\* No parse goes to the store as long as the Collection is used in an orderly way (aread_cells).
THEOREM OrderlyCallsParseFromMemory == Spec => []OrderlyParsesFromMemory
<1>1. (orderly => Orderly) => OrderlyParsesFromMemory
  BY DEF Orderly, OrderlyParsesFromMemory, ParsesFromMemory
<1>2. QED BY <1>1, OrderlyUse, PTL
===============================================================================
