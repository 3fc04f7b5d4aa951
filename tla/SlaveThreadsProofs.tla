------------------------ MODULE SlaveThreadsProofs ------------------------
(***************************************************************************)
(* Proofs about a givemail slave, for any number of domains, recipients    *)
(* and threads.                                                            *)
(***************************************************************************)
EXTENDS SlaveThreads, TLAPS, FiniteSetTheorems, SequenceTheorems

\* The map has no domain twice, and none that a thread has; two threads never
\* have the same domain.
Distinct == \A i, j \in 1..Len(map) : map[i] = map[j] => i = j
Exclusive ==
  /\ \A t \in Threads : cur[t] # NoDomain => cur[t] \notin Names(map)
  /\ \A t, u \in Threads : cur[t] # NoDomain /\ cur[t] = cur[u] => t = u

\* A thread has a domain only while it is dealing with it.
InDomain == \A t \in Threads :
  cur[t] # NoDomain => pc[t] \in {"check", "limits", "send", "batch"}

\* The low water-mark is never set, as no domain has the empty name.
NoWaterMark == lowest = NoDomain

\* What runSlave() relies on to know that its threads have ended.
Bookkeeping ==
  /\ threaded  => pc[Main] \in {"create", "bottom", "join", "exit"}
  /\ ~threaded => created = 0 /\ pc[Main] \notin {"absent", "create", "bottom", "join"}
  /\ \A w \in Workers :
       /\ w > created => pc[w] = "absent"
       /\ pc[w] \notin {"create", "bottom", "join", "exit"}
  /\ pc[Main] = "exit" => \A w \in Workers : pc[w] \in {"absent", "done"}

\* A thread only stops when told to or when the map is empty.
Drained == mustQuit \/ map = <<>>
StopsDrained ==
  /\ \A t \in Threads : pc[t] = "done" => Drained
  /\ \A t \in Threads : pc[t] = "check" /\ cur[t] = NoDomain => Drained
  /\ pc[Main] = "exit" => Drained \/ (threaded /\ created = 0)

\* A domain with waiting recipients is still in the map or with a thread.
Accounted ==
  \A d \in Domains : waiting[d] > 0 =>
    \/ mustQuit \/ d \in unread \/ d \in Names(map)
    \/ \E t \in Threads : cur[t] = d

\* The inductive invariant.
IInv == /\ TypeOK /\ Distinct /\ Exclusive /\ InDomain /\ NoWaterMark
        /\ InFlightStillWaiting /\ Bookkeeping /\ StopsDrained /\ Accounted
----------------------------------------------------------------------------
\* What erasing the first entry leaves of a map without repetitions: the
\* other domains, still without repetitions.
LEMMA TailOfMap ==
  ASSUME NEW m \in Seq(Domains), m # <<>>,
         \A i, j \in 1..Len(m) : m[i] = m[j] => i = j
  PROVE  /\ Head(m) \in Domains
         /\ Head(m) \in Names(m)
         /\ Tail(m) \in Seq(Domains)
         /\ Names(Tail(m)) = Names(m) \ {Head(m)}
         /\ \A i, j \in 1..Len(Tail(m)) : Tail(m)[i] = Tail(m)[j] => i = j
<1>1. /\ Head(m) \in Domains /\ Tail(m) \in Seq(Domains)
      /\ Len(Tail(m)) = Len(m) - 1
      /\ \A i \in 1..Len(Tail(m)) : Tail(m)[i] = m[i + 1]
  BY HeadTailProperties
<1>2. Len(m) \in Nat \ {0}
  BY EmptySeq
<1>3. Head(m) = m[1]
  OBVIOUS
<1>4. Head(m) \in Names(m)
  BY <1>2, <1>3 DEF Names
<1>5. \A i, j \in 1..Len(Tail(m)) : Tail(m)[i] = Tail(m)[j] => i = j
  BY <1>1, <1>2
<1>6. ASSUME NEW d \in Names(Tail(m)) PROVE d \in Names(m) \ {Head(m)}
  <2>1. PICK i \in 1..Len(Tail(m)) : d = Tail(m)[i]
    BY <1>6 DEF Names
  <2> QED
    BY <2>1, <1>1, <1>2, <1>3 DEF Names
<1>7. ASSUME NEW d \in Names(m), d # Head(m) PROVE d \in Names(Tail(m))
  <2>1. PICK i \in 1..Len(m) : d = m[i]
    BY <1>7 DEF Names
  <2>2. i - 1 \in 1..Len(Tail(m)) /\ Tail(m)[i - 1] = d
    BY <2>1, <1>7, <1>1, <1>2, <1>3
  <2> QED
    BY <2>2 DEF Names
<1> QED
  BY <1>1, <1>4, <1>5, <1>6, <1>7

\* The threads of a slave, and the number of them it asks for.
LEMMA ThreadFacts ==
  /\ Threads \subseteq Nat
  /\ Main \in Threads
  /\ Main \notin Workers
  /\ \A t \in Threads : t # Main => t \in Workers
  /\ Workers \subseteq Threads
BY SlaveAssumption DEF Threads, Main, Workers

\* A listing is a sequence of domains without repetitions.
LEMMA ListingFacts ==
  ASSUME total \in [Domains -> 0..MaxRecipients], map \in Listings
  PROVE  /\ map \in Seq(Domains)
         /\ Distinct
         /\ Names(map) = Listed
<1>1. IsFiniteSet(Listed)
  BY SlaveAssumption, FS_Subset DEF Listed
<1>2. Cardinality(Listed) \in Nat
  BY <1>1, FS_CardinalityType
<1>3. map \in Seq(Listed)
  BY <1>2 DEF Listings
<1>4. Listed \subseteq Domains
  BY DEF Listed
<1>5. map \in Seq(Domains)
  BY <1>3, <1>4, SeqMonotonic
<1>6. Len(map) \in Nat
  BY <1>5, LenProperties
<1>7. Distinct
  BY <1>6 DEF Listings, IsListing, Distinct
<1> QED
  BY <1>5, <1>7 DEF Listings, IsListing
----------------------------------------------------------------------------
\* The initial states satisfy the inductive invariant.
LEMMA InitIInv == Init => IInv
<1> SUFFICES ASSUME Init PROVE IInv
  OBVIOUS
<1> USE ThreadFacts, SlaveAssumption DEF Init
<1>1. /\ map \in Seq(Domains) /\ Distinct
      /\ Names(map) = Listed \/ unread = Domains
  <2>1. CASE map \in Listings
    BY <2>1, ListingFacts
  <2>2. CASE map = <<>> /\ unread = Domains
    BY <2>2 DEF Distinct
  <2> QED
    BY <2>1, <2>2
<1>2. rows \in Nat
  BY <1>1, LenProperties
<1>3. TypeOK
  <2>1. pc \in [Threads -> PcValues]
    BY DEF PcValues
  <2>2. total \in [Domains -> Nat] /\ waiting \in [Domains -> Nat]
    OBVIOUS
  <2>3. returnCode \in {"success", "failure", "restart"} /\ unread \subseteq Domains
    OBVIOUS
  <2>4. \A t \in Threads : pc[t] \notin {"limits", "send", "batch"}
    OBVIOUS
  <2>5. /\ cur \in [Threads -> Domains \cup {NoDomain}]
        /\ batch \in [Threads -> Nat]
        /\ apiFailures \in [Threads -> Nat]
    OBVIOUS
  <2>6. lowest \in Domains \cup {NoDomain} /\ created \in 0..MaxSlaves
    OBVIOUS
  <2>7. threaded \in BOOLEAN /\ mustQuit \in BOOLEAN
    BY Zenon
  <2> QED
    BY <1>1, <1>2, <2>1, <2>2, <2>3, <2>4, <2>5, <2>6, <2>7, Zenon DEF TypeOK
<1>4. Exclusive /\ InDomain /\ NoWaterMark
  BY DEF Exclusive, InDomain, NoWaterMark
<1>5. InFlightStillWaiting
  BY DEF InFlightStillWaiting
<1>6. Bookkeeping /\ StopsDrained
  BY DEF Bookkeeping, StopsDrained, Workers, Main
<1>7. Accounted
  BY <1>1 DEF Accounted, Listed
<1> QED
  BY <1>1, <1>3, <1>4, <1>5, <1>6, <1>7 DEF IInv
----------------------------------------------------------------------------
(* The steps of the main thread *)

\* A new thread starts without a domain.
LEMMA CreateThreadStep ==
  ASSUME IInv, CreateThread
  PROVE  IInv'
<1> USE ThreadFacts, SlaveAssumption DEF IInv
<1>1. created \in Nat /\ created + 1 \in Workers /\ pc[created + 1] = "absent"
  <2>1. created + 1 <= MaxSlaves
    BY DEF CreateThread, Wanted, TypeOK
  <2> QED
    BY <2>1 DEF Workers, Bookkeeping, TypeOK
<1>2. cur[created + 1] = NoDomain
  BY <1>1 DEF InDomain
<1>3. TypeOK'
  <2>1. pc' \in [Threads -> PcValues]
    BY <1>1 DEF CreateThread, TypeOK, PcValues
  <2>2. created' \in 0..MaxSlaves
    BY <1>1 DEF CreateThread, Workers
  <2>3. \A t \in Threads : pc'[t] \in {"limits", "send", "batch"} => cur[t] \in Domains
    BY <1>1 DEF CreateThread, TypeOK
  <2> QED
    BY <2>1, <2>2, <2>3 DEF CreateThread, TypeOK, setup, globals
<1>4. Distinct' /\ Exclusive' /\ NoWaterMark' /\ Accounted'
  BY DEF CreateThread, setup, globals, Distinct, Exclusive, NoWaterMark, Accounted, Names
<1>5. InDomain' /\ InFlightStillWaiting'
  BY <1>1, <1>2 DEF CreateThread, TypeOK, InDomain, InFlightStillWaiting
<1>6. Bookkeeping'
  BY <1>1 DEF CreateThread, setup, Bookkeeping, TypeOK, Workers, Main
<1>7. StopsDrained'
  BY <1>1 DEF CreateThread, setup, globals, StopsDrained, Drained, Bookkeeping, TypeOK
<1> QED
  BY <1>3, <1>4, <1>5, <1>6, <1>7

\* The main thread goes on without looking at the domains.
LEMMA StopCreatingStep ==
  ASSUME IInv, StopCreating
  PROVE  IInv'
<1> USE ThreadFacts DEF IInv, StopCreating, AfterCreation, setup, globals
<1>1. TypeOK'
  BY DEF TypeOK, PcValues
<1>2. Distinct' /\ Exclusive' /\ NoWaterMark' /\ Accounted'
  BY DEF Distinct, Exclusive, NoWaterMark, Accounted, Names
<1>3. InDomain' /\ InFlightStillWaiting'
  BY DEF InDomain, InFlightStillWaiting, TypeOK
<1>4. Bookkeeping'
  BY DEF Bookkeeping, TypeOK
<1>5. StopsDrained'
  BY DEF StopsDrained, Drained, TypeOK
<1> QED
  BY <1>1, <1>2, <1>3, <1>4, <1>5

\* No domain is the empty one, so the main thread finds no bottom domain.
LEMMA GetBottomDomainStep ==
  ASSUME IInv, GetBottomDomain
  PROVE  IInv'
<1> USE ThreadFacts DEF IInv, setup, globals
<1>1. \A i \in 1..Len(map) : ~IsBottom(i)
  <2>1. ASSUME NEW i \in 1..Len(map), i < Len(map) PROVE map[i + 1] \in Domains
    BY <2>1, ElementOfSeq, LenProperties DEF TypeOK
  <2> QED
    BY <2>1, SlaveAssumption DEF IsBottom, NoWaterMark
<1>2. /\ pc[Main] = "bottom"
      /\ pc' = [pc EXCEPT ![Main] = "join"]
      /\ UNCHANGED <<setup, map, lowest, waiting, cur, batch, apiFailures, failed,
                     created, globals, unread>>
  BY <1>1 DEF GetBottomDomain
<1>3. TypeOK'
  BY <1>2 DEF TypeOK, PcValues
<1>4. Distinct' /\ Exclusive' /\ NoWaterMark' /\ Accounted'
  BY <1>2 DEF Distinct, Exclusive, NoWaterMark, Accounted, Names
<1>5. InDomain' /\ InFlightStillWaiting'
  BY <1>2 DEF InDomain, InFlightStillWaiting, TypeOK
<1>6. Bookkeeping' /\ StopsDrained'
  BY <1>2 DEF Bookkeeping, StopsDrained, Drained, TypeOK
<1> QED
  BY <1>3, <1>4, <1>5, <1>6

\* Of the threads that were joined the first one, if any, found the map empty
\* or was told to quit.
LEMMA ExitStep ==
  ASSUME IInv, Exit
  PROVE  IInv'
<1> USE ThreadFacts DEF IInv, Exit, setup, globals
<1>1. TypeOK'
  <2>1. pc' \in [Threads -> PcValues]
    BY DEF TypeOK, PcValues
  <2>2. returnCode' \in {"success", "failure", "restart"}
    BY DEF TypeOK
  <2> QED
    BY <2>1, <2>2 DEF TypeOK
<1>2. Distinct' /\ Exclusive' /\ NoWaterMark' /\ Accounted'
  <2>1. UNCHANGED <<map, lowest, waiting, cur, mustQuit, unread>>
    OBVIOUS
  <2> HIDE DEF Exit
  <2> QED
    BY <2>1 DEF Distinct, Exclusive, NoWaterMark, Accounted, Names
<1>3. InDomain' /\ InFlightStillWaiting'
  BY DEF InDomain, InFlightStillWaiting, TypeOK
<1>4. \A w \in Workers : pc[w] \in {"absent", "done"}
  BY DEF Joined, Bookkeeping, Workers, TypeOK
<1>5. Bookkeeping'
  BY <1>4 DEF Bookkeeping, TypeOK
<1>6. Drained \/ (threaded /\ created = 0)
  <2>1. CASE threaded /\ created # 0
    <3>1. 1 \in Workers /\ 1 \in 1..created
      BY <2>1, SlaveAssumption DEF TypeOK, Workers
    <3> QED
      BY <3>1 DEF Joined, StopsDrained
  <2>2. CASE ~threaded
    BY <2>2 DEF StopsDrained
  <2> QED
    BY <2>1, <2>2
<1>7. StopsDrained'
  BY <1>6 DEF StopsDrained, Drained, TypeOK
<1> QED
  BY <1>1, <1>2, <1>3, <1>5, <1>7
----------------------------------------------------------------------------
(* The steps of a thread that serves domains *)

\* The domain popped moves from the map to the thread.
LEMMA GetTopDomainStep ==
  ASSUME IInv, NEW t \in Threads, GetTopDomain(t)
  PROVE  IInv'
<1> USE ThreadFacts DEF IInv, setup, globals
<1>1. pc[t] = "top" /\ cur[t] = NoDomain
  BY DEF GetTopDomain, InDomain
<1>2. /\ pc' = [pc EXCEPT ![t] = "check"]
      /\ UNCHANGED <<setup, lowest, waiting, batch, apiFailures, failed, created,
                     globals, unread>>
  BY DEF GetTopDomain
<1>3. Bookkeeping'
  BY <1>1, <1>2 DEF Bookkeeping, TypeOK
<1>4. CASE map = <<>>
  <2>1. UNCHANGED <<cur, map>>
    BY <1>4 DEF GetTopDomain
  <2>2. TypeOK'
    BY <1>2, <2>1 DEF TypeOK, PcValues
  <2>3. Distinct' /\ Exclusive' /\ NoWaterMark' /\ Accounted'
    BY <1>2, <2>1 DEF Distinct, Exclusive, NoWaterMark, Accounted, Names
  <2>4. InDomain' /\ InFlightStillWaiting'
    BY <1>1, <1>2, <2>1 DEF InDomain, InFlightStillWaiting, TypeOK
  <2>5. StopsDrained'
    BY <1>1, <1>2, <1>4, <2>1 DEF StopsDrained, Drained, TypeOK
  <2> QED
    BY <1>3, <2>2, <2>3, <2>4, <2>5
<1>5. CASE map # <<>>
  <2>1. /\ Head(map) \in Domains
        /\ Head(map) \in Names(map)
        /\ Tail(map) \in Seq(Domains)
        /\ Names(Tail(map)) = Names(map) \ {Head(map)}
        /\ \A i, j \in 1..Len(Tail(map)) : Tail(map)[i] = Tail(map)[j] => i = j
    <3> HIDE ThreadFacts
    <3> QED
      BY <1>5, TailOfMap DEF TypeOK, Distinct
  <2>2. /\ Head(map) # lowest
        /\ Head(map) # NoDomain
    BY <2>1, SlaveAssumption DEF NoWaterMark
  <2>3. cur' = [cur EXCEPT ![t] = Head(map)] /\ map' = Tail(map)
    BY <1>5, <2>2 DEF GetTopDomain, Popped
  <2>4. cur' \in [Threads -> Domains \cup {NoDomain}] /\ pc' \in [Threads -> PcValues]
    BY <1>2, <2>1, <2>3 DEF TypeOK, PcValues
  <2>5. TypeOK'
    BY <1>2, <2>1, <2>3, <2>4 DEF TypeOK
  <2>6. Distinct'
    BY <2>1, <2>3 DEF Distinct
  <2>7. Names(map)' = Names(map) \ {Head(map)}
    BY <2>1, <2>3 DEF Names
  <2>8. Exclusive'
    <3>1. \A u \in Threads : cur'[u] = IF u = t THEN Head(map) ELSE cur[u]
      BY <2>3 DEF TypeOK
    <3>2. ASSUME NEW u \in Threads PROVE cur[u] # Head(map)
      <4>1. cur[u] # NoDomain => cur[u] \notin Names(map)
        BY DEF Exclusive
      <4> QED
        BY <2>1, <2>2, <4>1
    <3>3. \A u \in Threads : cur'[u] # NoDomain => cur'[u] \notin Names(map) \ {Head(map)}
      BY <3>1 DEF Exclusive
    <3>4. \A u, v \in Threads : cur'[u] # NoDomain /\ cur'[u] = cur'[v] => u = v
      BY <3>1, <3>2 DEF Exclusive
    <3> QED
      BY <2>7, <3>3, <3>4 DEF Exclusive
  <2>9. InDomain' /\ NoWaterMark' /\ InFlightStillWaiting'
    BY <1>1, <1>2, <2>3 DEF InDomain, NoWaterMark, InFlightStillWaiting, TypeOK
  <2>10. \A u \in Threads : pc[u] # "done"  \/ Drained
    BY DEF StopsDrained
  <2>11. StopsDrained'
    <3>1. ASSUME Drained PROVE mustQuit
      BY <1>5, <3>1 DEF Drained
    <3>2. ASSUME mustQuit PROVE StopsDrained'
      BY <1>2, <3>2 DEF StopsDrained, Drained
    <3>3. ASSUME ~Drained PROVE StopsDrained'
      BY <1>1, <1>2, <2>2, <2>3, <3>3 DEF StopsDrained, TypeOK
    <3> QED
      BY <3>1, <3>2, <3>3
  <2>12. Accounted'
    <3> SUFFICES ASSUME NEW d \in Domains, waiting[d] > 0, ~mustQuit, d \notin unread,
                        d \notin Names(map) \ {Head(map)}
                 PROVE  \E u \in Threads : cur'[u] = d
      BY <1>2, <2>7 DEF Accounted
    <3>1. CASE d = Head(map)
      BY <3>1, <2>3 DEF TypeOK
    <3>2. CASE d # Head(map)
      <4>1. PICK u \in Threads : cur[u] = d
        BY <3>2 DEF Accounted
      <4>2. u # t
        BY <1>1, <4>1, SlaveAssumption
      <4> QED
        BY <2>3, <4>1, <4>2 DEF TypeOK
    <3> QED
      BY <3>1, <3>2
  <2> QED
    BY <1>3, <2>5, <2>6, <2>8, <2>9, <2>11, <2>12
<1> QED
  BY <1>4, <1>5

\* A thread that ends has no domain, or drops it because it must quit.
LEMMA CheckDomainStep ==
  ASSUME IInv, NEW t \in Threads, CheckDomain(t)
  PROVE  IInv'
<1> USE ThreadFacts DEF IInv, setup, globals, CheckDomain
<1>1. TypeOK'
  BY DEF TypeOK, PcValues
<1>2. Distinct' /\ NoWaterMark'
  BY DEF Distinct, NoWaterMark
<1>3. Exclusive'
  <2>1. \A u \in Threads : cur'[u] # NoDomain => cur'[u] = cur[u]
    BY DEF TypeOK
  <2>2. Names(map)' = Names(map)
    BY DEF Names
  <2> QED
    BY <2>1, <2>2 DEF Exclusive
<1>4. InDomain' /\ InFlightStillWaiting'
  BY DEF InDomain, InFlightStillWaiting, TypeOK
<1>5. Bookkeeping'
  BY DEF Bookkeeping, TypeOK
<1>6. StopsDrained'
  BY DEF StopsDrained, Drained, TypeOK
<1>7. Accounted'
  <2>1. UNCHANGED <<map, waiting, mustQuit, unread>>
    OBVIOUS
  <2>2. mustQuit \/ cur' = cur \/ (cur[t] = NoDomain /\ cur' = [cur EXCEPT ![t] = NoDomain])
    OBVIOUS
  <2> HIDE DEF CheckDomain
  <2>3. mustQuit \/ cur' = cur
    BY <2>2 DEF TypeOK
  <2> QED
    BY <2>1, <2>3 DEF Accounted, Names
<1> QED
  BY <1>1, <1>2, <1>3, <1>4, <1>5, <1>6, <1>7

\* Without MX records all rows of the domain fail and the domain is let go of.
LEMMA FindLimitsStep ==
  ASSUME IInv, NEW t \in Threads, FindLimits(t)
  PROVE  IInv'
<1> USE ThreadFacts DEF IInv, setup, globals
<1>1. pc[t] = "limits" /\ cur[t] \in Domains /\ cur[t] # NoDomain
  BY SlaveAssumption DEF FindLimits, TypeOK
<1>2. UNCHANGED <<setup, map, lowest, batch, created, globals, unread>>
  BY DEF FindLimits
<1>3. CASE pc' = [pc EXCEPT ![t] = "send"] /\ UNCHANGED <<cur, waiting, apiFailures, failed>>
  <2>1. TypeOK'
    BY <1>1, <1>2, <1>3 DEF TypeOK, PcValues
  <2>2. Distinct' /\ Exclusive' /\ NoWaterMark' /\ Accounted'
    BY <1>2, <1>3 DEF Distinct, Exclusive, NoWaterMark, Accounted, Names
  <2>3. InDomain' /\ InFlightStillWaiting'
    BY <1>2, <1>3 DEF InDomain, InFlightStillWaiting, TypeOK
  <2>4. Bookkeeping' /\ StopsDrained'
    BY <1>1, <1>2, <1>3 DEF Bookkeeping, StopsDrained, Drained, TypeOK
  <2> QED
    BY <2>1, <2>2, <2>3, <2>4
<1>4. CASE waiting' = [waiting EXCEPT ![cur[t]] = 0] /\ LeaveDomain(t)
  <2>1. pc' = [pc EXCEPT ![t] = NextStop(t)] /\ cur' = [cur EXCEPT ![t] = NoDomain]
    BY <1>4 DEF LeaveDomain
  <2>2. NextStop(t) = "top" /\ (threaded => t # Main)
    BY <1>1 DEF NextStop, Bookkeeping
  <2>3. TypeOK'
    <3>1. /\ waiting' \in [Domains -> Nat] /\ apiFailures' \in [Threads -> Nat]
          /\ failed' \in [Threads -> BOOLEAN]
      BY <1>4 DEF TypeOK, LeaveDomain
    <3>2. pc' \in [Threads -> PcValues] /\ cur' \in [Threads -> Domains \cup {NoDomain}]
      BY <2>1, <2>2 DEF TypeOK, PcValues
    <3>3. \A u \in Threads : pc'[u] \in {"limits", "send", "batch"} => cur'[u] \in Domains
      BY <2>1, <2>2 DEF TypeOK
    <3> QED
      BY <1>2, <3>1, <3>2, <3>3 DEF TypeOK
  <2>4. Distinct' /\ NoWaterMark'
    BY <1>2 DEF Distinct, NoWaterMark
  <2>5. Exclusive'
    <3>1. \A u \in Threads : cur'[u] # NoDomain => cur'[u] = cur[u]
      BY <2>1 DEF TypeOK
    <3>2. Names(map)' = Names(map)
      BY <1>2 DEF Names
    <3> QED
      BY <3>1, <3>2 DEF Exclusive
  <2>6. InDomain'
    BY <2>1 DEF InDomain, TypeOK
  <2>7. InFlightStillWaiting'
    <3> SUFFICES ASSUME NEW u \in Threads, pc'[u] = "batch"
                 PROVE  batch'[u] <= waiting'[cur'[u]]
      BY DEF InFlightStillWaiting
    <3>1. u # t /\ pc[u] = "batch" /\ cur'[u] = cur[u]
      BY <2>1, <2>2 DEF TypeOK
    <3>2. cur[u] \in Domains /\ cur[u] # cur[t]
      BY <1>1, <3>1, SlaveAssumption DEF TypeOK, Exclusive
    <3> QED
      BY <1>2, <1>4, <3>1, <3>2 DEF InFlightStillWaiting, TypeOK
  <2>8. Bookkeeping' /\ StopsDrained'
    BY <1>1, <1>2, <2>1, <2>2 DEF Bookkeeping, StopsDrained, Drained, TypeOK
  <2>9. Accounted'
    <3> SUFFICES ASSUME NEW d \in Domains, waiting'[d] > 0, ~mustQuit, d \notin unread,
                        d \notin Names(map)
                 PROVE  \E u \in Threads : cur'[u] = d
      BY <1>2 DEF Accounted, Names
    <3>1. d # cur[t] /\ waiting[d] > 0
      BY <1>1, <1>4 DEF TypeOK
    <3>2. PICK u \in Threads : cur[u] = d
      BY <3>1 DEF Accounted
    <3> QED
      BY <3>1, <3>2, <2>1 DEF TypeOK
  <2> QED
    BY <2>3, <2>4, <2>5, <2>6, <2>7, <2>8, <2>9
<1> QED
  BY <1>3, <1>4 DEF FindLimits

\* The batch is no larger than what is waiting.
LEMMA FetchBatchStep ==
  ASSUME IInv, NEW t \in Threads, FetchBatch(t)
  PROVE  IInv'
<1> USE ThreadFacts, SlaveAssumption DEF IInv, setup, globals, FetchBatch
<1>1. TypeOK'
  BY DEF TypeOK, PcValues
<1>2. Distinct' /\ Exclusive' /\ NoWaterMark' /\ Accounted'
  BY DEF Distinct, Exclusive, NoWaterMark, Accounted, Names
<1>3. InDomain'
  BY DEF InDomain, TypeOK
<1>4. InFlightStillWaiting'
  <2>1. cur[t] \in Domains /\ waiting[cur[t]] \in Nat
    BY DEF TypeOK
  <2>2. batch'[t] <= waiting[cur[t]]
    BY <2>1 DEF TypeOK
  <2>3. \A u \in Threads : u # t => pc'[u] = pc[u] /\ batch'[u] = batch[u]
    BY DEF TypeOK
  <2> QED
    BY <2>2, <2>3 DEF InFlightStillWaiting
<1>5. Bookkeeping' /\ StopsDrained'
  BY DEF Bookkeeping, StopsDrained, Drained, TypeOK
<1> QED
  BY <1>1, <1>2, <1>3, <1>4, <1>5

\* A domain is let go of when nothing waits there, when its rows cannot be
\* read, or when the slave must quit.
LEMMA LeaveLoopStep ==
  ASSUME IInv, NEW t \in Threads, LeaveLoop(t)
  PROVE  IInv'
<1> USE ThreadFacts DEF IInv, setup, globals
<1>1. pc[t] = "send" /\ cur[t] \in Domains /\ cur[t] # NoDomain
  BY SlaveAssumption DEF LeaveLoop, TypeOK
<1>2. /\ pc' = [pc EXCEPT ![t] = NextStop(t)]
      /\ cur' = [cur EXCEPT ![t] = NoDomain]
      /\ apiFailures' = [apiFailures EXCEPT ![t] = 0]
      /\ failed' = [failed EXCEPT ![t] = FALSE]
      /\ UNCHANGED <<setup, map, lowest, waiting, batch, created, globals>>
  BY DEF LeaveLoop, LeaveDomain
<1>3. NextStop(t) = "top" /\ (threaded => t # Main)
  BY <1>1 DEF NextStop, Bookkeeping
<1>4. /\ unread \subseteq unread' /\ unread' \subseteq Domains
      /\ mustQuit \/ waiting[cur[t]] = 0 \/ cur[t] \in unread'
  BY <1>1 DEF LeaveLoop, TypeOK
<1>5. TypeOK'
  BY <1>2, <1>3, <1>4 DEF TypeOK, PcValues
<1>6. Distinct' /\ NoWaterMark'
  BY <1>2 DEF Distinct, NoWaterMark
<1>7. Exclusive'
  <2>1. \A u \in Threads : cur'[u] # NoDomain => cur'[u] = cur[u]
    BY <1>2 DEF TypeOK
  <2>2. Names(map)' = Names(map)
    BY <1>2 DEF Names
  <2> QED
    BY <2>1, <2>2 DEF Exclusive
<1>8. InDomain' /\ InFlightStillWaiting'
  BY <1>2, <1>3 DEF InDomain, InFlightStillWaiting, TypeOK
<1>9. Bookkeeping' /\ StopsDrained'
  BY <1>1, <1>2, <1>3 DEF Bookkeeping, StopsDrained, Drained, TypeOK
<1>10. Accounted'
  <2> SUFFICES ASSUME NEW d \in Domains, waiting[d] > 0, ~mustQuit, d \notin unread',
                      d \notin Names(map)
               PROVE  \E u \in Threads : cur'[u] = d
    BY <1>2 DEF Accounted, Names
  <2>1. d # cur[t] /\ d \notin unread
    BY <1>4
  <2>2. PICK u \in Threads : cur[u] = d
    BY <2>1 DEF Accounted
  <2> QED
    BY <1>2, <2>1, <2>2 DEF TypeOK
<1> QED
  BY <1>5, <1>6, <1>7, <1>8, <1>9, <1>10

\* Recording the statuses of a batch leaves the rows of the other threads'
\* batches alone, whichever part of the batch is resolved.
LEMMA BatchRecorded ==
  ASSUME IInv, NEW t \in Threads, pc[t] = "batch", NEW n \in 0..batch[t],
         waiting' = [waiting EXCEPT ![cur[t]] = @ - n],
         batch' = [batch EXCEPT ![t] = 0],
         pc' = [pc EXCEPT ![t] = "send"],
         apiFailures' \in [Threads -> Nat], failed' \in [Threads -> BOOLEAN],
         mustQuit' \in BOOLEAN, mustQuit => mustQuit',
         returnCode' \in {"success", "failure", "restart"},
         UNCHANGED <<setup, map, lowest, cur, created, unread>>
  PROVE  IInv'
<1> USE ThreadFacts DEF IInv, setup
<1>1. cur[t] \in Domains /\ cur[t] # NoDomain
  BY SlaveAssumption DEF TypeOK
<1>2. batch[t] \in Nat /\ batch[t] <= waiting[cur[t]] /\ waiting[cur[t]] \in Nat
  BY <1>1 DEF InFlightStillWaiting, TypeOK
<1>3. n \in Nat /\ waiting[cur[t]] - n \in Nat
  BY <1>2
<1>4. \A d \in Domains : waiting'[d] <= waiting[d]
  <2>1. waiting'[cur[t]] = waiting[cur[t]] - n
    BY <1>1 DEF TypeOK
  <2>2. \A d \in Domains : d # cur[t] => waiting'[d] = waiting[d]
    BY DEF TypeOK
  <2>3. \A d \in Domains : waiting[d] \in Nat
    BY DEF TypeOK
  <2> QED
    BY <1>2, <1>3, <2>1, <2>2, <2>3
<1>5. TypeOK'
  <2>1. waiting' \in [Domains -> Nat]
    BY <1>1, <1>3 DEF TypeOK
  <2>2. pc' \in [Threads -> PcValues] /\ batch' \in [Threads -> Nat]
    BY DEF TypeOK, PcValues
  <2>3. \A u \in Threads : pc'[u] \in {"limits", "send", "batch"} => cur'[u] \in Domains
    BY <1>1 DEF TypeOK
  <2> QED
    BY <2>1, <2>2, <2>3 DEF TypeOK
<1>6. Distinct' /\ Exclusive' /\ NoWaterMark'
  BY DEF Distinct, Exclusive, NoWaterMark, Names
<1>7. InDomain'
  BY DEF InDomain, TypeOK
<1>8. InFlightStillWaiting'
  <2> SUFFICES ASSUME NEW u \in Threads, pc'[u] = "batch"
               PROVE  batch'[u] <= waiting'[cur'[u]]
    BY DEF InFlightStillWaiting
  <2>1. u # t /\ pc[u] = "batch"
    BY DEF TypeOK
  <2>2. cur[u] \in Domains /\ cur[u] # cur[t]
    BY <1>1, <2>1, SlaveAssumption DEF TypeOK, Exclusive
  <2>3. batch'[u] = batch[u] /\ waiting'[cur'[u]] = waiting[cur[u]]
    BY <2>1, <2>2 DEF TypeOK
  <2> QED
    BY <2>1, <2>3 DEF InFlightStillWaiting
<1>9. Bookkeeping' /\ StopsDrained'
  BY DEF Bookkeeping, StopsDrained, Drained, TypeOK
<1>10. Accounted'
  <2> SUFFICES ASSUME NEW d \in Domains, waiting'[d] > 0, ~mustQuit', d \notin unread,
                      d \notin Names(map)
               PROVE  \E u \in Threads : cur[u] = d
    BY DEF Accounted, Names
  <2>1. waiting[d] > 0
    BY <1>4, <1>5 DEF TypeOK
  <2> QED
    BY <2>1 DEF Accounted
<1> QED
  BY <1>5, <1>6, <1>7, <1>8, <1>9, <1>10

\* generateMessages() succeeded: some of the batch's rows are resolved.
LEMMA BatchSentStep ==
  ASSUME IInv, NEW t \in Threads, BatchSent(t)
  PROVE  IInv'
<1> USE DEF BatchSent, globals
<1>1. PICK n \in 0..batch[t] : waiting' = [waiting EXCEPT ![cur[t]] = @ - n]
  OBVIOUS
<1>2. apiFailures' \in [Threads -> Nat] /\ failed' \in [Threads -> BOOLEAN]
  BY DEF IInv, TypeOK
<1>3. returnCode' \in {"success", "failure", "restart"}
  BY DEF IInv, TypeOK
<1>4. mustQuit' \in BOOLEAN /\ (mustQuit => mustQuit')
  BY Zenon DEF IInv, TypeOK
<1> QED
  BY <1>1, <1>2, <1>3, <1>4, BatchRecorded

\* generateMessages() failed: all of them are, and the slave may have to quit.
LEMMA BatchFailedStep ==
  ASSUME IInv, NEW t \in Threads, BatchFailed(t)
  PROVE  IInv'
<1> USE DEF BatchFailed, AllFailed, globals
<1>1. batch[t] \in 0..batch[t]
  BY DEF IInv, TypeOK
<1>2. apiFailures' \in [Threads -> Nat] /\ failed' \in [Threads -> BOOLEAN]
  <2>1. \/ apiFailures' = [apiFailures EXCEPT ![t] = 0]
        \/ apiFailures' = [apiFailures EXCEPT ![t] = @ + 1]
    BY Zenon
  <2>2. failed' = [failed EXCEPT ![t] = TRUE]
    BY Zenon
  <2> HIDE DEF BatchFailed
  <2>3. failed' \in [Threads -> BOOLEAN]
    BY <2>2, Zenon DEF IInv, TypeOK
  <2>4. apiFailures \in [Threads -> Nat]
    BY DEF IInv, TypeOK
  <2>5. apiFailures' \in [Threads -> Nat]
    BY <2>1, <2>4
  <2> QED
    BY <2>3, <2>5
<1>3. returnCode' \in {"success", "failure", "restart"}
  BY Zenon DEF IInv, TypeOK
<1>4. mustQuit' \in BOOLEAN /\ (mustQuit => mustQuit')
  BY Zenon DEF IInv, TypeOK
<1> QED
  BY <1>1, <1>2, <1>3, <1>4, BatchRecorded

\* A signal only makes the threads stop sooner.
LEMMA SignalStep ==
  ASSUME IInv, Signal
  PROVE  IInv'
<1> USE DEF IInv, Signal, setup
<1>1. TypeOK'
  BY DEF TypeOK
<1>2. Distinct' /\ Exclusive' /\ InDomain' /\ NoWaterMark' /\ InFlightStillWaiting'
  BY DEF Distinct, Exclusive, InDomain, NoWaterMark, InFlightStillWaiting, Names
<1>3. Bookkeeping' /\ StopsDrained' /\ Accounted'
  BY DEF Bookkeeping, StopsDrained, Drained, Accounted
<1> QED
  BY <1>1, <1>2, <1>3

\* Nothing changes.
LEMMA StutterStep ==
  ASSUME IInv, UNCHANGED vars
  PROVE  IInv'
BY DEF IInv, vars, setup, globals, TypeOK, Distinct, Exclusive, InDomain,
       NoWaterMark, InFlightStillWaiting, Bookkeeping, StopsDrained, Drained,
       Accounted, Names
----------------------------------------------------------------------------
(* The theorems *)

\* Every step of the slave preserves the inductive invariant.
LEMMA NextIInv == IInv /\ [Next]_vars => IInv'
<1> SUFFICES ASSUME IInv, [Next]_vars PROVE IInv'
  OBVIOUS
<1>1. CASE MainStep
  BY <1>1, CreateThreadStep, StopCreatingStep, GetBottomDomainStep, ExitStep
     DEF MainStep
<1>2. ASSUME NEW t \in Threads, DomainStep(t) PROVE IInv'
  BY <1>2, GetTopDomainStep, CheckDomainStep, FindLimitsStep, FetchBatchStep,
     LeaveLoopStep, BatchSentStep, BatchFailedStep DEF DomainStep
<1>3. CASE Signal
  BY <1>3, SignalStep
<1>4. CASE Terminated \/ UNCHANGED vars
  BY <1>4, StutterStep DEF Terminated
<1> QED
  BY <1>1, <1>2, <1>3, <1>4 DEF Next

\* The inductive invariant holds in all reachable states of a slave.
THEOREM Invariance == Spec => []IInv
BY InitIInv, NextIInv, PTL DEF Spec

\* Every variable keeps its type.
THEOREM TypeCorrect == Spec => []TypeOK
<1>1. IInv => TypeOK
  BY DEF IInv
<1> QED
  BY <1>1, Invariance, PTL

\* The rows of a batch are all still waiting when their statuses are recorded,
\* whatever the number of threads, of domains and of recipients: no two threads
\* are sending to the same domain.
THEOREM BatchesStayWaiting == Spec => []InFlightStillWaiting
<1>1. IInv => InFlightStillWaiting
  BY DEF IInv
<1> QED
  BY <1>1, Invariance, PTL

\* A slave that has ended forgot no domain, except as NothingForgotten says.
THEOREM NoneForgotten == Spec => []NothingForgotten
<1>1. IInv => NothingForgotten
  <2> SUFFICES ASSUME IInv, pc[Main] = "exit", NEW d \in Domains, waiting[d] > 0
               PROVE  mustQuit \/ d \in unread \/ (threaded /\ created = 0)
    BY DEF NothingForgotten
  <2>1. CASE d \in Names(map)
    <3>1. map # <<>>
      BY <2>1 DEF Names
    <3> QED
      BY <3>1 DEF IInv, StopsDrained, Drained
  <2>2. ASSUME NEW t \in Threads, cur[t] = d PROVE FALSE
    <3>1. pc[t] \in {"check", "limits", "send", "batch"}
      BY <2>2, SlaveAssumption DEF IInv, InDomain
    <3>2. t \in Workers
      BY <3>1, ThreadFacts
    <3> QED
      BY <3>1, <3>2 DEF IInv, Bookkeeping
  <2> QED
    BY <2>1, <2>2 DEF IInv, Accounted
<1> QED
  BY <1>1, Invariance, PTL
----------------------------------------------------------------------------
(* Refinement: a slave keeps the promise of DomainOwnership. *)

\* A thread without a domain that gets one which nobody has takes it.
LEMMA TakenFromQueue ==
  ASSUME IInv, NEW t \in Threads, NEW d \in Names(map),
         d \in Domains, cur[t] = NoDomain,
         Names(map)' = Names(map) \ {d}, cur' = [cur EXCEPT ![t] = d]
  PROVE  Ownership!Take(t, d)
<1>1. \A u \in Threads : cur[u] # d
  BY SlaveAssumption DEF IInv, Exclusive
<1>2. SendersOf[d] = {}
  BY <1>1 DEF SendersOf
<1>3. ASSUME NEW e \in Domains PROVE t \notin SendersOf[e]
  BY SlaveAssumption DEF SendersOf
<1>4. \A u \in Threads : cur'[u] = IF u = t THEN d ELSE cur[u]
  BY DEF IInv, TypeOK
<1>5. ASSUME NEW e \in Domains
      PROVE  {u \in Threads : cur'[u] = e}
               = IF e = d THEN {t} ELSE {u \in Threads : cur[u] = e}
  <2>1. CASE e = d
    BY <1>1, <1>4, <2>1
  <2>2. CASE e # d
    BY <1>4, <2>2, SlaveAssumption
  <2> QED
    BY <2>1, <2>2
<1>6. SendersOf' = [SendersOf EXCEPT ![d] = {t}]
  BY <1>5 DEF SendersOf
<1> QED
  BY <1>2, <1>3, <1>6 DEF Ownership!Take

\* A thread that loses its domain was its only sender and releases it.
LEMMA LetGoOf ==
  ASSUME IInv, NEW t \in Threads, NEW d \in Domains, cur[t] = d,
         map' = map, cur' = [cur EXCEPT ![t] = NoDomain]
  PROVE  Ownership!Release(t, d)
<1>1. d # NoDomain
  BY SlaveAssumption
<1>2. \A u \in Threads : cur[u] = d <=> u = t
  BY <1>1 DEF IInv, Exclusive
<1>3. SendersOf[d] = {t}
  BY <1>2 DEF SendersOf
<1>4. \A u \in Threads : cur'[u] = IF u = t THEN NoDomain ELSE cur[u]
  BY DEF IInv, TypeOK
<1>5. ASSUME NEW e \in Domains
      PROVE  {u \in Threads : cur'[u] = e}
               = IF e = d THEN {} ELSE {u \in Threads : cur[u] = e}
  <2>1. CASE e = d
    BY <1>1, <1>2, <1>4, <2>1
  <2>2. CASE e # d
    BY <1>4, <2>2, SlaveAssumption
  <2> QED
    BY <2>1, <2>2
<1>6. SendersOf' = [SendersOf EXCEPT ![d] = {}]
  BY <1>5 DEF SendersOf
<1>7. Names(map)' = Names(map)
  BY DEF Names
<1> QED
  BY <1>3, <1>6, <1>7 DEF Ownership!Release

\* The queue and the senders are what the map and the threads' domains say.
LEMMA SameOwners ==
  map' = map /\ cur' = cur => UNCHANGED <<Names(map), SendersOf>>
BY DEF SendersOf, Names

\* At first listed domains are queued and no thread has any.
LEMMA InitOwners == Init => Ownership!DomainOwnershipInit
<1> SUFFICES ASSUME Init PROVE Ownership!DomainOwnershipInit
  OBVIOUS
<1>1. Names(map) \subseteq Domains
  <2>1. map \in Seq(Domains)
    BY InitIInv DEF IInv, TypeOK
  <2> QED
    BY <2>1, ElementOfSeq, LenProperties DEF Names
<1>2. \A d \in Domains, t \in Threads : cur[t] # d
  BY SlaveAssumption DEF Init
<1>3. SendersOf = [d \in Domains |-> {}]
  BY <1>2 DEF SendersOf
<1> QED
  BY <1>1, <1>3 DEF Ownership!DomainOwnershipInit

\* Every step of the slave takes a domain, lets go of one, or does neither.
LEMMA StepOwners ==
  ASSUME IInv, IInv', [Next]_vars
  PROVE  [Ownership!DomainOwnershipNext]_<<Names(map), SendersOf>>
<1> DEFINE Goal == [Ownership!DomainOwnershipNext]_<<Names(map), SendersOf>>
<1>1. CASE MainStep
  <2>1. map' = map
    BY <1>1 DEF MainStep, CreateThread, StopCreating, GetBottomDomain, Exit
  <2>2. CASE GetBottomDomain
    <3>1. \A i \in 1..Len(map) : ~IsBottom(i)
      <4>1. ASSUME NEW i \in 1..Len(map), i < Len(map) PROVE map[i + 1] \in Domains
        BY <4>1, ElementOfSeq, LenProperties DEF IInv, TypeOK
      <4> QED
        BY <4>1, SlaveAssumption DEF IsBottom, IInv, NoWaterMark
    <3>2. cur' = cur
      BY <2>2, <3>1 DEF GetBottomDomain
    <3> QED
      BY <2>1, <3>2, SameOwners
  <2>3. CASE CreateThread \/ StopCreating \/ Exit
    <3>1. cur' = cur
      BY <2>3 DEF CreateThread, StopCreating, Exit
    <3> QED
      BY <2>1, <3>1, SameOwners
  <2> QED
    BY <1>1, <2>2, <2>3 DEF MainStep
<1>2. ASSUME NEW t \in Threads, GetTopDomain(t) PROVE Goal
  <2>1. pc[t] = "top" /\ cur[t] = NoDomain
    BY <1>2, ThreadFacts DEF GetTopDomain, IInv, InDomain
  <2>2. CASE map = <<>>
    BY <1>2, <2>2, SameOwners DEF GetTopDomain
  <2>3. CASE map # <<>>
    <3>1. /\ Head(map) \in Domains
          /\ Head(map) \in Names(map)
          /\ Names(Tail(map)) = Names(map) \ {Head(map)}
      BY <2>3, TailOfMap DEF IInv, TypeOK, Distinct
    <3>2. Head(map) # lowest
      BY <3>1, SlaveAssumption DEF IInv, NoWaterMark
    <3>3. cur' = [cur EXCEPT ![t] = Head(map)] /\ map' = Tail(map)
      BY <1>2, <2>3, <3>2 DEF GetTopDomain, Popped
    <3>4. Names(map)' = Names(map) \ {Head(map)}
      BY <3>1, <3>3 DEF Names
    <3>5. Ownership!Take(t, Head(map))
      BY <2>1, <3>1, <3>3, <3>4, TakenFromQueue
    <3> QED
      BY <3>1, <3>5 DEF Ownership!DomainOwnershipNext
  <2> QED
    BY <2>2, <2>3
<1>3. ASSUME NEW t \in Threads, cur' = [cur EXCEPT ![t] = NoDomain], map' = map
      PROVE  Goal
  <2>1. cur[t] \in Domains \cup {NoDomain}
    BY DEF IInv, TypeOK
  <2>2. CASE cur[t] \in Domains
    <3>1. Ownership!Release(t, cur[t])
      BY <1>3, <2>2, LetGoOf
    <3> QED
      BY <2>2, <3>1 DEF Ownership!DomainOwnershipNext
  <2>3. CASE cur[t] = NoDomain
    <3>1. cur' = cur
      BY <1>3, <2>3 DEF IInv, TypeOK
    <3> QED
      BY <1>3, <3>1, SameOwners
  <2> QED
    BY <2>1, <2>2, <2>3
<1>4. ASSUME NEW t \in Threads, CheckDomain(t) \/ FindLimits(t) \/ LeaveLoop(t)
      PROVE  Goal
  <2>1. map' = map
    BY <1>4 DEF CheckDomain, FindLimits, LeaveLoop
  <2>2. cur' = cur \/ cur' = [cur EXCEPT ![t] = NoDomain]
    BY <1>4 DEF CheckDomain, FindLimits, LeaveLoop, LeaveDomain
  <2> QED
    BY <2>1, <2>2, <1>3, SameOwners
<1>5. ASSUME NEW t \in Threads, FetchBatch(t) \/ BatchSent(t) \/ BatchFailed(t)
      PROVE  Goal
  BY <1>5, SameOwners DEF FetchBatch, BatchSent, BatchFailed
<1>6. CASE Signal \/ Terminated \/ UNCHANGED vars
  BY <1>6, SameOwners DEF Signal, Terminated, vars
<1> QED
  BY <1>1, <1>2, <1>4, <1>5, <1>6 DEF Next, DomainStep

\* The slave implements DomainOwnership: a domain has one sender at a time, and
\* none any more once it was let go of.
THEOREM Refinement == Spec => OneSenderPerDomain
<1>1. Init => Ownership!DomainOwnershipInit
  BY InitOwners
<1>2. IInv /\ IInv' /\ [Next]_vars => [Ownership!DomainOwnershipNext]_<<Names(map), SendersOf>>
  BY StepOwners
<1> QED
  BY <1>1, <1>2, Invariance, PTL DEF Spec, OneSenderPerDomain, Ownership!DomainOwnershipSpec
----------------------------------------------------------------------------
\* Refinement of BatchRounds.

\* A thread that is sending a batch has a row to send to, and what it knows of a
\* batch that failed it knows only as long as it is sending to the domain.
Batches == \A t \in Threads :
  /\ pc[t] = "batch" => batch[t] > 0
  /\ failed[t] => pc[t] \in {"send", "batch"}

LEMMA BatchesStep ==
  ASSUME IInv, Batches, [Next]_vars
  PROVE  Batches'
<1> USE DEF Batches
<1>1. /\ pc \in [Threads -> PcValues] /\ batch \in [Threads -> Nat]
      /\ failed \in [Threads -> BOOLEAN]
      /\ \A t \in Threads : pc[t] \in {"send", "batch"} => cur[t] \in Domains
  BY DEF IInv, TypeOK
<1>2. CASE MainStep
  <2>1. UNCHANGED <<batch, failed>>
    BY <1>2 DEF MainStep, CreateThread, StopCreating, GetBottomDomain, Exit
  <2>2. \A t \in Threads :
          pc'[t] # pc[t] => pc[t] \notin {"send", "batch"} /\ pc'[t] # "batch"
    <3>1. CASE CreateThread
      <4>1. created + 1 \in Threads /\ pc[created + 1] = "absent"
        <5>1. created \in Nat /\ created + 1 \in Workers
          BY <3>1, ThreadFacts, SlaveAssumption
             DEF CreateThread, IInv, TypeOK, Wanted, Workers
        <5> QED
          BY <5>1, ThreadFacts DEF IInv, Bookkeeping
      <4>2. pc' = [pc EXCEPT ![created + 1] = "top"]
        BY <3>1 DEF CreateThread
      <4>3. PICK w \in Threads : pc[w] = "absent" /\ pc' = [pc EXCEPT ![w] = "top"]
        BY <4>1, <4>2
      <4>4. \A t \in Threads : pc'[t] = IF t = w THEN "top" ELSE pc[t]
        BY <1>1, <4>3
      <4> QED
        BY <4>3, <4>4
    <3>2. CASE StopCreating \/ GetBottomDomain \/ Exit
      <4>1. \E x \in {"bottom", "join", "limits", "exit"} : pc' = [pc EXCEPT ![Main] = x]
        BY <3>2 DEF StopCreating, GetBottomDomain, Exit, AfterCreation
      <4>2. pc[Main] \notin {"send", "batch"}
        BY <3>2, ThreadFacts DEF StopCreating, GetBottomDomain, Exit
      <4>3. PICK x : x # "batch" /\ pc' = [pc EXCEPT ![Main] = x]
        BY <4>1
      <4>4. \A t \in Threads : pc'[t] = IF t = Main THEN x ELSE pc[t]
        BY <1>1, <4>3
      <4> QED
        BY <4>2, <4>3, <4>4
    <3> QED
      BY <1>2, <3>1, <3>2 DEF MainStep
  <2> QED
    BY <2>1, <2>2
<1>3. ASSUME NEW t \in Threads, GetTopDomain(t) \/ CheckDomain(t) PROVE Batches'
  <2>1. /\ UNCHANGED <<batch, failed>>
        /\ pc[t] \in {"top", "check"}
        /\ \E x \in {"check", "done", "limits"} : pc' = [pc EXCEPT ![t] = x]
    BY <1>3 DEF GetTopDomain, CheckDomain
  <2> QED
    BY <1>1, <2>1
<1>4. ASSUME NEW t \in Threads, FindLimits(t) \/ LeaveLoop(t) PROVE Batches'
  <2>1. batch' = batch /\ pc[t] \in {"limits", "send"}
    BY <1>4 DEF FindLimits, LeaveLoop
  <2>2. \/ pc' = [pc EXCEPT ![t] = "send"] /\ failed' = failed
        \/ /\ pc' = [pc EXCEPT ![t] = NextStop(t)]
           /\ failed' = [failed EXCEPT ![t] = FALSE]
    BY <1>4 DEF FindLimits, LeaveLoop, LeaveDomain
  <2> QED
    BY <1>1, <2>1, <2>2 DEF NextStop
<1>5. ASSUME NEW t \in Threads, FetchBatch(t) PROVE Batches'
  <2>1. batch'[t] > 0
    <3>1. cur[t] \in Domains /\ waiting[cur[t]] > 0
      BY <1>1, <1>5 DEF FetchBatch
    <3> QED
      BY <1>1, <1>5, <3>1, SlaveAssumption DEF FetchBatch
  <2>2. /\ \A u \in Threads : u # t => batch'[u] = batch[u]
        /\ pc[t] = "send" /\ pc' = [pc EXCEPT ![t] = "batch"] /\ failed' = failed
    BY <1>1, <1>5 DEF FetchBatch
  <2> QED
    BY <1>1, <2>1, <2>2
<1>6. ASSUME NEW t \in Threads, BatchSent(t) \/ BatchFailed(t) PROVE Batches'
  <2>1. /\ batch' = [batch EXCEPT ![t] = 0]
        /\ pc' = [pc EXCEPT ![t] = "send"]
        /\ \E x \in BOOLEAN : failed' = [failed EXCEPT ![t] = x]
    BY <1>6 DEF BatchSent, BatchFailed
  <2> QED
    BY <1>1, <2>1
<1>7. CASE Signal \/ Terminated \/ UNCHANGED vars
  BY <1>7 DEF Signal, Terminated, vars
<1> QED
  BY <1>2, <1>3, <1>4, <1>5, <1>6, <1>7 DEF Next, DomainStep

LEMMA BatchesInvariance == Spec => []Batches
<1>1. Init => Batches
  BY DEF Init, Batches, Threads, Main, Workers
<1> QED
  BY <1>1, BatchesStep, Invariance, PTL DEF Spec

\* What the batch of a domain and its failure are, with the one thread that has it.
LEMMA BatchOfSender ==
  ASSUME NEW p, NEW c, NEW b, NEW d, NEW t \in Threads, c[t] = d,
         \A u \in Threads : c[u] = d => u = t
  PROVE  LET S == {u \in Threads : p[u] = "batch" /\ c[u] = d}
         IN  (IF S = {} THEN 0 ELSE b[CHOOSE u \in S : TRUE])
               = IF p[t] = "batch" THEN b[t] ELSE 0
<1> DEFINE S == {u \in Threads : p[u] = "batch" /\ c[u] = d}
<1>1. S = IF p[t] = "batch" THEN {t} ELSE {}
  OBVIOUS
<1>2. p[t] = "batch" => (CHOOSE u \in S : TRUE) = t
  BY <1>1
<1> QED
  BY <1>1, <1>2

\* A domain nobody has had or got is as it was.
LEMMA OthersRounds ==
  ASSUME NEW d \in Domains, waiting'[d] = waiting[d],
         \A t \in Threads : cur[t] = d \/ cur'[t] = d =>
           /\ cur'[t] = cur[t] /\ pc'[t] = pc[t]
           /\ batch'[t] = batch[t] /\ failed'[t] = failed[t]
  PROVE  UNCHANGED Rounds(d)!BatchRoundsVars
<1>1. Sending(d)' = Sending(d)
  BY DEF Sending
<1>2. BatchOf(d)' = BatchOf(d)
  <2>1. CASE Sending(d) = {}
    BY <1>1, <2>1 DEF BatchOf
  <2>2. CASE Sending(d) # {}
    <3>1. PICK t : t = CHOOSE u \in Sending(d) : TRUE
      OBVIOUS
    <3>2. t \in Threads /\ cur[t] = d
      BY <2>2, <3>1 DEF Sending
    <3>3. BatchOf(d) = batch[t] /\ BatchOf(d)' = batch'[t]
      BY <1>1, <2>2, <3>1 DEF BatchOf
    <3> QED
      BY <3>2, <3>3
  <2> QED
    BY <2>1, <2>2
<1>3. FailedAt(d)' = FailedAt(d)
  BY DEF FailedAt
<1> QED
  BY <1>2, <1>3 DEF Rounds!BatchRoundsVars

\* Each step is a step of the domain its thread has, if it has one.
LEMMA StepRounds ==
  ASSUME IInv, IInv', Batches, Batches', [Next]_vars, NEW d \in Domains
  PROVE  UNCHANGED Rounds(d)!BatchRoundsVars \/ Rounds(d)!BatchRoundsNext
<1> DEFINE Goal == UNCHANGED Rounds(d)!BatchRoundsVars \/ Rounds(d)!BatchRoundsNext
<1>1. /\ pc \in [Threads -> PcValues] /\ batch \in [Threads -> Nat]
      /\ failed \in [Threads -> BOOLEAN] /\ cur \in [Threads -> Domains \cup {NoDomain}]
      /\ waiting \in [Domains -> Nat] /\ d # NoDomain
  BY SlaveAssumption DEF IInv, TypeOK
<1>2. ASSUME UNCHANGED <<waiting, batch, failed, cur>>,
             \A t \in Threads : cur[t] = d => (pc'[t] = "batch" <=> pc[t] = "batch")
      PROVE  UNCHANGED Rounds(d)!BatchRoundsVars
  <2>1. Sending(d)' = Sending(d)
    BY <1>2 DEF Sending
  <2> QED
    BY <1>2, <2>1 DEF Rounds!BatchRoundsVars, BatchOf, FailedAt
<1>3. ASSUME NEW t \in Threads, cur[t] = d, cur'[t] = d
      PROVE  /\ BatchOf(d) = IF pc[t] = "batch" THEN batch[t] ELSE 0
             /\ BatchOf(d)' = IF pc'[t] = "batch" THEN batch'[t] ELSE 0
             /\ (FailedAt(d) <=> failed[t]) /\ (FailedAt(d)' <=> failed'[t])
  <2>1. \A u \in Threads : (cur[u] = d => u = t) /\ (cur'[u] = d => u = t)
    BY <1>1, <1>3 DEF IInv, Exclusive
  <2>2. BatchOf(d) = IF pc[t] = "batch" THEN batch[t] ELSE 0
    BY <1>3, <2>1, BatchOfSender DEF BatchOf, Sending
  <2>3. BatchOf(d)' = IF pc'[t] = "batch" THEN batch'[t] ELSE 0
    BY <1>3, <2>1, BatchOfSender DEF BatchOf, Sending
  <2>4. (FailedAt(d) <=> failed[t]) /\ (FailedAt(d)' <=> failed'[t])
    BY <1>3, <2>1, Zenon DEF FailedAt
  <2> QED
    BY <2>2, <2>3, <2>4
<1>4. ASSUME \A t \in Threads : cur[t] # d
      PROVE  BatchOf(d) = 0 /\ FailedAt(d) = FALSE
  BY <1>4 DEF BatchOf, Sending, FailedAt
<1>5. ASSUME \A t \in Threads : cur'[t] # d
      PROVE  BatchOf(d)' = 0 /\ FailedAt(d)' = FALSE
  BY <1>5 DEF BatchOf, Sending, FailedAt
<1>6. CASE MainStep
  <2>1. UNCHANGED <<waiting, batch, failed>>
    BY <1>6 DEF MainStep, CreateThread, StopCreating, GetBottomDomain, Exit
  <2>2. cur' = cur
    <3>1. \A i \in 1..Len(map) : ~IsBottom(i)
      <4>1. ASSUME NEW i \in 1..Len(map), i < Len(map) PROVE map[i + 1] \in Domains
        BY <4>1, ElementOfSeq, LenProperties DEF IInv, TypeOK
      <4> QED
        BY <4>1, SlaveAssumption DEF IsBottom, IInv, NoWaterMark
    <3> QED
      BY <1>6, <3>1 DEF MainStep, CreateThread, StopCreating, GetBottomDomain, Exit
  <2>3. ASSUME NEW t \in Threads, cur[t] = d PROVE pc'[t] = "batch" <=> pc[t] = "batch"
    <3>1. pc[t] \notin {"absent", "create", "bottom", "join", "done", "exit"}
      BY <1>1, <2>3 DEF IInv, InDomain
    <3>2. CASE CreateThread
      <4>1. pc' = [pc EXCEPT ![created + 1] = "top"] /\ created + 1 \in Threads
        <5>1. created + 1 \in Workers
          BY <3>2, ThreadFacts, SlaveAssumption
             DEF CreateThread, IInv, TypeOK, Wanted, Workers
        <5> QED
          BY <3>2, <5>1, ThreadFacts DEF CreateThread
      <4>2. pc[created + 1] = "absent"
        <5>1. created \in Nat /\ created + 1 \in Workers
          BY <3>2, ThreadFacts, SlaveAssumption
             DEF CreateThread, IInv, TypeOK, Wanted, Workers
        <5> QED
          BY <5>1, ThreadFacts DEF IInv, Bookkeeping
      <4> QED
        BY <1>1, <3>1, <4>1, <4>2
    <3>3. CASE StopCreating \/ GetBottomDomain \/ Exit
      <4>1. \E x : pc' = [pc EXCEPT ![Main] = x]
        BY <3>3 DEF StopCreating, GetBottomDomain, Exit
      <4>2. pc[Main] \in {"create", "bottom", "join", "done"}
        BY <3>3 DEF StopCreating, GetBottomDomain, Exit
      <4>3. t # Main
        BY <3>1, <4>2
      <4> QED
        BY <1>1, <4>1, <4>3
    <3> QED
      BY <1>6, <3>2, <3>3 DEF MainStep
  <2> QED
    BY <1>2, <2>1, <2>2, <2>3
<1>7. ASSUME NEW t \in Threads, DomainStep(t) PROVE Goal
  <2>1. \A u \in Threads \ {t} : /\ pc'[u] = pc[u] /\ cur'[u] = cur[u]
                                 /\ batch'[u] = batch[u] /\ failed'[u] = failed[u]
    <3>1. /\ pc' = pc \/ \E x : pc' = [pc EXCEPT ![t] = x]
          /\ cur' = cur \/ \E x : cur' = [cur EXCEPT ![t] = x]
          /\ batch' = batch \/ \E x : batch' = [batch EXCEPT ![t] = x]
          /\ failed' = failed \/ \E x : failed' = [failed EXCEPT ![t] = x]
      BY <1>7 DEF DomainStep, GetTopDomain, CheckDomain, FindLimits, FetchBatch, LeaveLoop,
                  BatchSent, BatchFailed, LeaveDomain
    <3> QED
      BY <1>1, <3>1
  <2>2. waiting' = waiting \/ \E x : waiting' = [waiting EXCEPT ![cur[t]] = x]
    BY <1>7 DEF DomainStep, GetTopDomain, CheckDomain, FindLimits, FetchBatch, LeaveLoop,
                BatchSent, BatchFailed
  <2>3. CASE cur[t] # d /\ cur'[t] # d
    <3>1. waiting'[d] = waiting[d]
      BY <1>1, <2>2, <2>3
    <3> QED
      BY <2>1, <2>3, <3>1, OthersRounds
  <2>4. CASE cur[t] # d /\ cur'[t] = d
    <3>1. GetTopDomain(t)
      BY <1>1, <1>7, <2>4
         DEF DomainStep, CheckDomain, FindLimits, FetchBatch, LeaveLoop, BatchSent,
             BatchFailed, LeaveDomain
    <3>2. \A u \in Threads : cur[u] # d
      BY <1>1, <2>1, <2>4 DEF IInv, Exclusive
    <3>3. \A u \in Threads : cur'[u] = d => u = t
      BY <2>1, <3>2
    <3>4. pc'[t] = "check" /\ ~failed'[t] /\ waiting' = waiting
      BY <1>1, <3>1 DEF GetTopDomain, Batches
    <3>5. BatchOf(d)' = 0
      BY <2>4, <3>3, <3>4, BatchOfSender DEF BatchOf, Sending
    <3>6. FailedAt(d)' = FALSE
      BY <3>3, <3>4 DEF FailedAt
    <3> QED
      BY <1>4, <3>2, <3>4, <3>5, <3>6 DEF Rounds!BatchRoundsVars
  <2>5. CASE cur[t] = d /\ cur'[t] # d
    <3>1. /\ cur'[t] = NoDomain /\ pc[t] # "batch"
          /\ waiting' = waiting \/ waiting' = [waiting EXCEPT ![d] = 0]
      BY <1>1, <1>7, <2>5
         DEF DomainStep, GetTopDomain, CheckDomain, FindLimits, FetchBatch, LeaveLoop,
             BatchSent, BatchFailed, LeaveDomain, IInv, InDomain
    <3>2. \A u \in Threads : cur[u] = d => u = t
      BY <1>1, <2>5 DEF IInv, Exclusive
    <3>3. \A u \in Threads : cur'[u] # d
      BY <2>1, <2>5, <3>2
    <3>4. BatchOf(d) = 0
      BY <2>5, <3>1, <3>2, BatchOfSender DEF BatchOf, Sending
    <3>5. waiting'[d] \in {waiting[d], 0}
      BY <1>1, <3>1
    <3> QED
      BY <1>5, <3>3, <3>4, <3>5 DEF Rounds!BatchRoundsNext, Rounds!Leave
  <2>6. CASE cur[t] = d /\ cur'[t] = d
    <3>1. CASE UNCHANGED <<waiting, batch, failed, cur>> /\ pc[t] # "batch" /\ pc'[t] # "batch"
      BY <1>2, <2>1, <3>1
    <3>2. CASE FetchBatch(t)
      <4>1. /\ BatchOf(d) = 0 /\ waiting[d] > 0 /\ waiting' = waiting
            /\ BatchOf(d)' = IF waiting[d] < BatchSize THEN waiting[d] ELSE BatchSize
        BY <1>1, <1>3, <2>6, <3>2 DEF FetchBatch
      <4>2. FailedAt(d)' = FailedAt(d)
        BY <1>3, <2>6, <3>2 DEF FetchBatch, FailedAt
      <4> QED
        BY <4>1, <4>2 DEF Rounds!BatchRoundsNext, Rounds!Fetch
    <3>3. CASE BatchSent(t)
      <4>1. BatchOf(d) = batch[t] /\ batch[t] > 0 /\ BatchOf(d)' = 0
        BY <1>1, <1>3, <2>6, <3>3 DEF BatchSent, Batches
      <4>2. FailedAt(d)' = FALSE
        <5>1. ~failed'[t]
          BY <1>1, <3>3 DEF BatchSent
        <5> QED
          BY <1>3, <2>6, <5>1 DEF FailedAt
      <4>3. PICK n \in 0..batch[t] : /\ n = 0 => failed[t]
                                     /\ waiting' = [waiting EXCEPT ![cur[t]] = @ - n]
        BY <3>3 DEF BatchSent
      <4>4. waiting'[d] = waiting[d] - n /\ (n = 0 => FailedAt(d))
        BY <1>1, <1>3, <2>6, <4>3
      <4> QED
        BY <4>1, <4>2, <4>3, <4>4 DEF Rounds!BatchRoundsNext, Rounds!Sent, Rounds!Over
    <3>4. CASE BatchFailed(t)
      <4>1. BatchOf(d) = batch[t] /\ batch[t] > 0 /\ BatchOf(d)' = 0
        BY <1>1, <1>3, <2>6, <3>4 DEF BatchFailed, Batches
      <4>2. FailedAt(d)' = TRUE
        <5>1. failed'[t]
          BY <1>1, <3>4 DEF BatchFailed
        <5> QED
          BY <1>3, <2>6, <5>1 DEF FailedAt
      <4>3. waiting'[d] = waiting[d] - BatchOf(d)
        BY <1>1, <2>6, <3>4, <4>1 DEF BatchFailed, AllFailed
      <4> QED
        BY <4>1, <4>2, <4>3 DEF Rounds!BatchRoundsNext, Rounds!Failed, Rounds!Over
    <3> QED
      BY <1>1, <1>7, <2>6, <3>1, <3>2, <3>3, <3>4
         DEF DomainStep, GetTopDomain, CheckDomain, FindLimits, LeaveLoop, LeaveDomain,
             IInv, InDomain
  <2> QED
    BY <2>3, <2>4, <2>5, <2>6
<1>8. CASE Signal \/ Terminated \/ UNCHANGED vars
  BY <1>2, <1>8 DEF Signal, Terminated, vars
<1> HIDE DEF Goal
<1>9. Goal
  <2>1. MainStep => Goal
    BY <1>2, <1>6 DEF Goal
  <2> QED
    BY <1>7, <1>8, <2>1 DEF Next, Goal
<1> QED
  BY <1>9 DEF Goal

LEMMA InitRounds ==
  ASSUME Init, NEW d \in Domains
  PROVE  Rounds(d)!BatchRoundsInit
<1>1. \A t \in Threads : cur[t] # d
  BY SlaveAssumption DEF Init
<1>2. BatchOf(d) = 0 /\ FailedAt(d) = FALSE
  BY <1>1 DEF BatchOf, Sending, FailedAt
<1>3. waiting[d] \in Nat
  BY SlaveAssumption DEF Init
<1> QED
  BY <1>2, <1>3 DEF Rounds!BatchRoundsInit

\* Each domain has its batches as BatchRounds says, whichever threads there are.
THEOREM DomainRounds == Spec => RoundByRound
<1>1. Init => \A d \in Domains : Rounds(d)!BatchRoundsInit
  BY InitRounds
<1>2. IInv /\ IInv' /\ Batches /\ Batches' /\ [Next]_vars =>
        \A d \in Domains : \/ UNCHANGED Rounds(d)!BatchRoundsVars
                           \/ Rounds(d)!BatchRoundsNext
  BY StepRounds
<1>3. QED
  BY <1>1, <1>2, Invariance, BatchesInvariance, PTL DEF Spec, RoundByRound
=============================================================================
