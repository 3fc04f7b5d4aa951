------------------------- MODULE ServerCycleProofs -------------------------
(***************************************************************************)
(* Which server is tried, which is discarded, and that it stays so, for    *)
(* any MX records, addresses and answers of the resolver.                  *)
(***************************************************************************)
EXTENDS ServerCycle, TLAPS, FiniteSetTheorems, WellFoundedInduction

Address == [host : Hosts, expired : BOOLEAN]
Entry   == [mx : MX, addresses : Seq(Address)]

PCs == {"limits", "idle", "cycle", "pop", "dropped", "failed", "created", "retried"}

Typed ==
  /\ pc \in PCs /\ then \in {"created", "retried"}
  /\ cached \in {{}, MX} /\ mxRecords \in {{}, MX} /\ stale \in BOOLEAN
  /\ topQueue \in Seq(Entry)
  /\ hasSession \in BOOLEAN /\ server \in Hosts \cup {NoServer}
  /\ current \in MX \cup {0}
  /\ topPriority \in {Priority[r] : r \in MX} \cup {NoPriority}
  /\ pc = "pop" => topQueue # <<>>

\* The server of a session that is or was in use is the last address of the last
\* record, where discardCurrentServer() looks for it.
AtTheBack ==
  /\ ~hasSession => server = NoServer /\ pc \in {"limits", "idle"}
  /\ then = "created" /\ pc \in {"cycle", "pop", "dropped", "failed"} => server = NoServer
  /\ pc \in {"idle", "created"} /\ server # NoServer =>
       /\ topQueue # <<>> /\ Last(topQueue).addresses # <<>>
       /\ CurrentAddress(topQueue) = server

\* The records of the best priority, and those that are queued.
BestOf(records)  == {r \in records : \A q \in records : Priority[r] <= Priority[q]}
RecordsOf(queue) == {queue[i].mx : i \in DOMAIN queue}

\* What is queued for the best priority is of that priority, what is queued for
\* another is not; what is of the best priority is queued or has failed, and has
\* failed before anything else is queued.
InOrder ==
  mxRecords # {} /\ ~IsIP =>
    /\ topPriority = NoPriority => topQueue = <<>>
    /\ topPriority # NoPriority =>
         LET best == BestOf(mxRecords) IN
         IF \E r \in best : topPriority = Priority[r]
         THEN RecordsOf(topQueue) \subseteq best /\ best \subseteq RecordsOf(topQueue) \cup failed
         ELSE RecordsOf(topQueue) \cap best = {} /\ best \subseteq failed
    /\ current # 0 /\ current \notin BestOf(mxRecords) => BestOf(mxRecords) \subseteq failed

IInv == Typed /\ AtTheBack /\ InOrder
----------------------------------------------------------------------------
\* Records, answers and queues.
LEMMA MinFacts ==
  ASSUME NEW S \in SUBSET Nat, S # {}
  PROVE  Min(S) \in S /\ \A y \in S : Min(S) <= y
<1>1. PICK x \in S : \A y \in S : ~ <<y, x>> \in OpToRel(<, Nat)
  BY NatLessThanWellFounded, WFMin
<1>3. \A y \in S : ~ (y < x)
  BY <1>1 DEF OpToRel
<1>2. \A y \in S : x <= y
  BY <1>3
<1> QED
  BY <1>2 DEF Min

LEMMA MXFacts ==
  /\ NoPriority \in Nat
  /\ MX \subseteq Nat \ {0} /\ IsFiniteSet(MX)
  /\ \A r \in MX : Priority[r] \in 0..NoPriority-1 /\ IsFiniteSet(HostsOf[r]) /\ HostsOf[r] \subseteq Hosts
  /\ \A r, q \in MX : r < q => Priority[r] <= Priority[q]
  /\ Hosts \subseteq Nat \ {0}
<1>1. MX = 1..Len(Priority) /\ Len(Priority) \in Nat
  BY ServerCycleAssumption DEF MX
<1>2. IsFiniteSet(MX)
  BY <1>1, FS_Interval
<1>3. \A r \in MX : Priority[r] \in 0..NoPriority-1
  <2> DEFINE S == 0..NoPriority-1
  <2>1. Priority \in Seq(S)
    BY ServerCycleAssumption
  <2> HIDE DEF S
  <2>2. \A r \in MX : Priority[r] \in S
    BY <2>1 DEF MX
  <2> QED
    BY <2>2 DEF S
<1>4. NoPriority \in Nat
  BY SMT DEF NoPriority
<1> QED
  BY <1>1, <1>2, <1>3, <1>4, ServerCycleAssumption DEF Hosts

LEMMA Orders ==
  ASSUME NEW S, IsFiniteSet(S), NEW s \in SetToSeqs(S)
  PROVE  s \in Seq(S)
<1>1. Cardinality(S) \in Nat
  BY FS_CardinalityType
<1> QED
  BY <1>1 DEF SetToSeqs

LEMMA AnswersTyped ==
  ASSUME NEW S, IsFiniteSet(S), NEW a \in Answers(S)
  PROVE  a \in Seq(S)
<1>1. ASSUME NEW s \in UNION {SetToSeqs(T) : T \in SUBSET S} PROVE s \in Seq(S)
  <2>1. PICK T \in SUBSET S : s \in SetToSeqs(T)
    BY <1>1
  <2>2. s \in Seq(T)
    BY <2>1, Orders, FS_Subset
  <2> QED
    BY <2>2
<1>2. ASSUME NEW s \in Seq(S), NEW i \in DOMAIN s
      PROVE  Append(s, s[i]) \in Seq(S) /\ Front(s) \o <<s[i], Last(s)>> \in Seq(S)
  <2>1. s[i] \in S /\ Last(s) \in S
    BY <1>2 DEF Last
  <2>2. Front(s) \in Seq(S)
    BY <1>2 DEF Front
  <2> QED
    BY <2>1, <2>2
<1> DEFINE ordered == UNION {SetToSeqs(T) : T \in SUBSET S}
           Repeated(s, h) == {Append(s, h), Front(s) \o <<h, Last(s)>>}
<1>3. a \in ordered \/ \E s \in ordered : \E i \in DOMAIN s : a \in Repeated(s, s[i])
  <2> DEFINE Both(s) == UNION {Repeated(s, s[i]) : i \in DOMAIN s}
  <2>1. a \in ordered \/ a \in UNION {Both(s) : s \in ordered}
    BY DEF Answers
  <2> HIDE DEF ordered
  <2>2. ASSUME NEW s \in ordered, a \in Both(s) PROVE \E i \in DOMAIN s : a \in Repeated(s, s[i])
    BY <2>2
  <2> HIDE DEF Both
  <2>3. a \in UNION {Both(s) : s \in ordered} => \E s \in ordered : a \in Both(s)
    BY Zenon
  <2> QED
    BY <2>1, <2>2, <2>3
<1> QED
  BY <1>1, <1>2, <1>3

LEMMA AddressesTyped ==
  ASSUME NEW r \in MX, NEW a \in AddressesOf(r)
  PROVE  a \in Seq(Hosts)
<1>1. IsFiniteSet(HostsOf[r] \ discarded)
  BY MXFacts, FS_Subset
<1>2. a \in Seq(HostsOf[r] \ discarded)
  BY <1>1, Orders, AnswersTyped DEF AddressesOf
<1> QED
  BY <1>2, MXFacts

LEMMA EntryTyped ==
  ASSUME NEW r \in MX, NEW a \in Seq(Hosts)
  PROVE  /\ Addresses(a) \in Seq(Address)
         /\ Record(r, a) \in Entry /\ Record(r, a).mx = r
<1>1. Addresses(a) \in Seq(Address)
  <2>1. \A i \in DOMAIN a : Fresh(a[i]) \in Address
    BY DEF Fresh, Address
  <2> QED
    BY <2>1 DEF Addresses
<1> QED
  BY <1>1 DEF Record, Entry

LEMMA QueuesTyped ==
  ASSUME NEW records \in SUBSET MX, NEW resolved, \A r \in records : resolved[r] \in Seq(Hosts),
         NEW queue \in Queues(records, resolved)
  PROVE  /\ queue \in Seq(Entry) /\ RecordsOf(queue) \subseteq records
         /\ records # {} => queue # <<>>
<1>1. PICK s \in Ascending(records) :
        queue = [i \in DOMAIN s |-> Record(s[i], resolved[s[i]])]
  BY DEF Queues
<1>2. s \in Seq(records)
  BY Orders, MXFacts, FS_Subset DEF Ascending
<1>3. \A i \in DOMAIN s : /\ Record(s[i], resolved[s[i]]) \in Entry
                         /\ Record(s[i], resolved[s[i]]).mx = s[i]
  BY <1>2, EntryTyped
<1>4. records # {} => s # <<>>
  <2>1. DOMAIN s = 1..Cardinality(records) /\ IsFiniteSet(records)
    BY MXFacts, FS_Subset DEF Ascending, SetToSeqs
  <2>2. records # {} => Cardinality(records) \in Nat \ {0}
    BY <2>1, FS_EmptySet, FS_CardinalityType
  <2> QED
    BY <2>1, <2>2
<1> QED
  BY <1>1, <1>2, <1>3, <1>4 DEF RecordsOf

LEMMA TopQueuesTyped ==
  ASSUME mxRecords \in SUBSET MX, NEW priority, NEW queue \in TopQueues(priority)
  PROVE  /\ queue \in Seq(Entry)
         /\ ~IsIP => RecordsOf(queue) \subseteq TopRecords(priority)
         /\ stale /\ ~IsIP => queue = <<>>
<1>1. CASE IsIP
  <2>1. PICK s \in SetToSeqs(Hosts) : queue = <<Record(1, s)>>
    BY <1>1 DEF TopQueues
  <2>2. 1 \in MX /\ IsFiniteSet(Hosts)
    <3>1. MX = {1}
      BY <1>1, ServerCycleAssumption
    <3>2. Hosts = HostsOf[1]
      BY <3>1 DEF Hosts
    <3> QED
      BY <3>1, <3>2, MXFacts
  <2>3. Record(1, s) \in Entry
    BY <2>1, <2>2, Orders, EntryTyped
  <2> QED
    BY <1>1, <2>1, <2>3
<1>2. CASE ~IsIP /\ stale
  <2>1. queue = <<>>
    BY <1>2, Zenon DEF TopQueues
  <2> QED
    BY <1>2, <2>1 DEF RecordsOf
<1>3. CASE ~IsIP /\ ~stale
  <2> DEFINE top == TopRecords(priority)
  <2>1. PICK a : /\ \A r \in top : a[r] \in AddressesOf(r)
                 /\ queue \in Queues({r \in top : a[r] # <<>>}, a)
    BY <1>3 DEF TopQueues
  <2>2. top \subseteq MX
    BY DEF TopRecords
  <2> HIDE DEF top
  <2>3. queue \in Seq(Entry) /\ RecordsOf(queue) \subseteq {r \in top : a[r] # <<>>}
    BY <2>1, <2>2, AddressesTyped, QueuesTyped
  <2> QED
    BY <1>3, <2>3 DEF top
<1> QED
  BY <1>1, <1>2, <1>3

LEMMA NextQueuesTyped ==
  ASSUME mxRecords \in SUBSET MX, NEW priority, NEW queue \in NextQueues(priority)
  PROVE  /\ queue \in Seq(Entry) /\ RecordsOf(queue) \subseteq LowerRecords(priority)
         /\ NextRecords(priority) # {} => queue # <<>>
<1>1. NextRecords(priority) \subseteq LowerRecords(priority) /\ LowerRecords(priority) \subseteq MX
  BY DEF NextRecords, LowerRecords
<1>2. /\ queue \in Seq(Entry) /\ RecordsOf(queue) \subseteq NextRecords(priority)
      /\ NextRecords(priority) # {} => queue # <<>>
  <2> DEFINE f == [r \in NextRecords(priority) |-> <<>>]
  <2>1. \A r \in NextRecords(priority) : f[r] \in Seq(Hosts)
    OBVIOUS
  <2>2. queue \in Queues(NextRecords(priority), f)
    BY DEF NextQueues
  <2> HIDE DEF f
  <2> QED
    BY <1>1, <2>1, <2>2, QueuesTyped
<1> QED
  BY <1>1, <1>2
----------------------------------------------------------------------------
\* What is queued when nothing is left.
LEMMA Bests ==
  ASSUME mxRecords \in {{}, MX}, mxRecords # {}
  PROVE  /\ Min(mxRecords) \in BestOf(mxRecords)
         /\ \A r \in mxRecords : r \in BestOf(mxRecords) <=> Priority[r] = Priority[Min(mxRecords)]
         /\ TopRecords(Priority[Min(mxRecords)]) = BestOf(mxRecords)
         /\ \A p \in {Priority[r] : r \in MX} : BestOf(mxRecords) \subseteq TopRecords(p)
<1> DEFINE m == Min(mxRecords)
<1>1. mxRecords = MX /\ mxRecords \in SUBSET Nat
  BY MXFacts
<1>2. m \in mxRecords /\ \A r \in mxRecords : m <= r
  BY <1>1, MinFacts
<1>3. \A r \in mxRecords : Priority[r] \in Nat
  BY <1>1, MXFacts
<1> HIDE DEF m
<1>4. \A r \in mxRecords : Priority[m] <= Priority[r]
  <2> TAKE r \in mxRecords
  <2>1. m < r \/ m = r
    BY <1>1, <1>2
  <2> QED
    BY <1>1, <1>2, <1>3, <2>1, MXFacts
<1>5. \A r \in mxRecords : r \in BestOf(mxRecords) <=> Priority[r] = Priority[m]
  BY <1>2, <1>3, <1>4 DEF BestOf
<1>6. TopRecords(Priority[m]) = BestOf(mxRecords)
  BY <1>2, <1>3, <1>4, <1>5 DEF TopRecords, BestOf
<1>7. \A p \in {Priority[r] : r \in MX} : BestOf(mxRecords) \subseteq TopRecords(p)
  BY <1>1 DEF TopRecords, BestOf
<1> QED
  BY <1>2, <1>5, <1>6, <1>7 DEF m

LEMMA NextFacts ==
  ASSUME mxRecords \in {{}, MX}, NEW p \in {Priority[r] : r \in MX} \cup {NoPriority}
  PROVE  /\ NextPriority(p) \in {Priority[r] : r \in MX} \cup {NoPriority}
         /\ NextRecords(p) # {} => NextPriority(p) # NoPriority /\ NextPriority(p) > p
         /\ NextPriority(p) # NoPriority => NextPriority(p) > p
         /\ NextRecords(p) = {} /\ NextPriority(p) # NoPriority => stale
         /\ p = NoPriority => LowerRecords(p) = {}
<1> DEFINE lower == LowerRecords(p)
           m == Min(lower)
<1>1. /\ lower \subseteq MX /\ lower \in SUBSET Nat /\ p \in Nat /\ p <= NoPriority
      /\ \A r \in lower : Priority[r] > p
      /\ \A r \in MX : Priority[r] \in Nat /\ Priority[r] < NoPriority
  <2>1. \A r \in MX : Priority[r] \in Nat /\ Priority[r] < NoPriority
    BY MXFacts
  <2>2. p \in Nat /\ p <= NoPriority
    BY <2>1, MXFacts
  <2>3. lower \subseteq MX /\ \A r \in lower : Priority[r] > p
    BY DEF LowerRecords
  <2> HIDE DEF lower
  <2> QED
    BY <2>1, <2>2, <2>3, MXFacts
<1>2. CASE lower = {}
  BY <1>2 DEF NextPriority, NextRecords
<1>3. CASE lower # {}
  <2> HIDE DEF lower
  <2>1. m \in lower
    BY <1>1, <1>3, MinFacts
  <2>2. NextPriority(p) = Priority[m]
    BY <1>3 DEF NextPriority, lower
  <2> HIDE DEF m
  <2>3. Priority[m] > p /\ Priority[m] < NoPriority /\ Priority[m] \in {Priority[r] : r \in MX}
    BY <1>1, <2>1
  <2>4. ~stale => m \in NextRecords(p)
    BY <1>1, <2>1, <2>2 DEF NextRecords, SamePriority, lower
  <2>5. Priority[m] # NoPriority /\ p # NoPriority
    BY <1>1, <2>1, <2>3
  <2> QED
    BY <2>2, <2>3, <2>4, <2>5
<1> QED
  BY <1>2, <1>3

\* What Refill does, in its two alternatives.
LEMMA RefillFacts ==
  ASSUME Typed, NEW filled, NEW empty, Refill(filled, empty), ~IsIP
  PROVE  /\ topQueue' \in Seq(Entry)
         /\ topPriority' \in {Priority[r] : r \in MX} \cup {NoPriority}
         /\ pc' \in {filled, empty} /\ (topQueue' = <<>> => pc' = empty)
         /\ \/ /\ RecordsOf(topQueue') \subseteq LowerRecords(topPriority)
               /\ topPriority < topPriority' /\ topPriority' # NoPriority /\ failed' = failed
            \/ /\ RecordsOf(topQueue') \subseteq TopRecords(topPriority')
               /\ failed' = failed \cup (TopRecords(topPriority') \ RecordsOf(topQueue'))
               /\ topPriority' = TopOf(NextPriority(topPriority))
               /\ NextPriority(topPriority) # NoPriority => topQueue' = <<>>
<1>1. /\ mxRecords \in {{}, MX} /\ mxRecords \subseteq MX
      /\ topPriority \in {Priority[r] : r \in MX} \cup {NoPriority}
  BY DEF Typed
<1>2. CASE NextRecords(topPriority) # {}
  <2>1. /\ topQueue' \in NextQueues(topPriority) /\ topPriority' = NextPriority(topPriority)
        /\ pc' = filled /\ failed' = failed
    BY <1>2 DEF Refill
  <2> QED
    BY <1>1, <1>2, <2>1, NextFacts, NextQueuesTyped
<1>3. CASE NextRecords(topPriority) = {}
  <2> DEFINE top == TopOf(NextPriority(topPriority))
  <2>1. /\ topQueue' \in TopQueues(top) /\ topPriority' = top
        /\ pc' \in {filled, empty} /\ (topQueue' = <<>> => pc' = empty)
        /\ failed' = failed \cup (TopRecords(top) \ RecordsOf(topQueue'))
    BY <1>3 DEF Refill, RecordsOf
  <2>2. top \in {Priority[r] : r \in MX} \cup {NoPriority}
    <3>1. mxRecords # {} => Min(mxRecords) \in MX
      BY <1>1, Bests DEF BestOf
    <3> QED
      BY <1>1, <3>1, NextFacts DEF TopOf
  <2>3. NextPriority(topPriority) # NoPriority => stale
    BY <1>1, <1>3, NextFacts
  <2> HIDE DEF top
  <2> QED
    BY <1>1, <2>1, <2>2, <2>3, TopQueuesTyped DEF top
<1> QED
  BY <1>2, <1>3

LEMMA RefillIP ==
  ASSUME Typed, NEW filled, NEW empty, Refill(filled, empty), IsIP
  PROVE  /\ topQueue' \in Seq(Entry)
         /\ pc' \in {filled, empty} /\ (topQueue' = <<>> => pc' = empty)
         /\ topPriority' \in {Priority[r] : r \in MX} \cup {NoPriority}
<1>1. /\ mxRecords \in {{}, MX} /\ mxRecords \subseteq MX
      /\ topPriority \in {Priority[r] : r \in MX} \cup {NoPriority}
  BY DEF Typed
<1>2. topPriority' = NextPriority(topPriority)
  BY DEF Refill
<1>3. /\ topQueue' \in Seq(Entry)
      /\ pc' \in {filled, empty} /\ (topQueue' = <<>> => pc' = empty)
  <2>1. \/ /\ topQueue' \in NextQueues(topPriority) /\ pc' = filled
           /\ NextRecords(topPriority) # {}
        \/ /\ topQueue' \in TopQueues(TopOf(NextPriority(topPriority)))
           /\ pc' \in {filled, empty} /\ (topQueue' = <<>> => pc' = empty)
    BY DEF Refill
  <2> QED
    BY <1>1, <2>1, TopQueuesTyped, NextQueuesTyped
<1> QED
  BY <1>1, <1>2, <1>3, NextFacts

\* setServer(): the address it sets, and where it leaves it.
LEMMA SetServerFacts ==
  ASSUME Typed, SetServer, topQueue # <<>>
  PROVE  /\ server' \in Hosts \ discarded
         /\ topQueue' \in Seq(Entry) /\ topQueue' # <<>>
         /\ Last(topQueue').addresses # <<>> /\ CurrentAddress(topQueue') = server'
         /\ RecordsOf(topQueue') = RecordsOf(topQueue)
         /\ current' = Head(topQueue).mx /\ current' \in RecordsOf(topQueue)
         /\ current' \in MX
<1> DEFINE first == Head(topQueue)
<1>1. first \in Entry /\ topQueue \in Seq(Entry)
  BY DEF Typed
<1>2. PICK addresses \in Tried(first) :
        /\ Usable(addresses) # {}
        /\ server' = addresses[Min(Usable(addresses))].host
        /\ topQueue' = Rotated(topQueue, [first EXCEPT
                          !.addresses = PushBack(addresses, Min(Usable(addresses)))])
  BY DEF SetServer
<1>3. addresses \in Seq(Address)
  <2>1. CASE first.addresses # <<>>
    BY <1>1, <1>2, <2>1 DEF Tried, Entry
  <2>2. CASE first.addresses = <<>>
    <3>1. PICK a \in AddressesOf(first.mx) : addresses = Addresses(a)
      BY <1>2, <2>2 DEF Tried
    <3>2. first.mx \in MX
      BY <1>1 DEF Entry
    <3> QED
      BY <3>1, <3>2, AddressesTyped, EntryTyped
  <2> QED
    BY <2>1, <2>2
<1> DEFINE i == Min(Usable(addresses))
           back == PushBack(addresses, i)
           last == [first EXCEPT !.addresses = back]
<1>4. i \in DOMAIN addresses /\ addresses[i].host \notin discarded
  <2>1. Usable(addresses) \in SUBSET Nat
    BY <1>3 DEF Usable
  <2>2. i \in Usable(addresses)
    BY <1>2, <2>1, MinFacts
  <2> QED
    BY <2>2 DEF Usable
<1> HIDE DEF i
<1>5. addresses[i] \in Address /\ i \in Nat
  BY <1>3, <1>4
<1>6. back \in Seq(Address) /\ back # <<>> /\ Last(back) = addresses[i]
  <2> DEFINE rest == SubSeq(addresses, i + 1, Len(addresses))
  <2>1. rest \in Seq(Address)
    BY <1>3, <1>4
  <2>2. back = Append(rest, addresses[i])
    BY DEF PushBack
  <2> HIDE DEF rest, back
  <2> QED
    BY <1>5, <2>1, <2>2 DEF Last
<1> HIDE DEF back, first
<1>7. last \in Entry /\ last.addresses = back /\ last.mx = first.mx
  BY <1>1, <1>6 DEF Entry
<1> HIDE DEF last
<1>8. topQueue' = Append(Tail(topQueue), last)
  BY <1>2 DEF Rotated, last, back, i
<1>9. topQueue' \in Seq(Entry) /\ topQueue' # <<>> /\ Last(topQueue') = last
  BY <1>1, <1>7, <1>8 DEF Last
<1>10. RecordsOf(topQueue') = RecordsOf(topQueue)
  <2>1. /\ topQueue[1] = first /\ Len(topQueue) \in Nat \ {0} /\ DOMAIN topQueue = 1..Len(topQueue)
        /\ DOMAIN topQueue' = 1..Len(topQueue)
        /\ topQueue'[Len(topQueue)] = last
        /\ \A j \in 1..(Len(topQueue) - 1) : topQueue'[j] = topQueue[j + 1]
    BY <1>1, <1>7, <1>8 DEF first
  <2>2. ASSUME NEW j \in DOMAIN topQueue PROVE \E k \in DOMAIN topQueue' : topQueue'[k].mx = topQueue[j].mx
    <3>1. CASE j = 1
      BY <1>7, <2>1, <3>1
    <3>2. CASE j # 1
      <4>1. j - 1 \in 1..(Len(topQueue) - 1) /\ (j - 1) + 1 = j
        BY <2>1, <2>2, <3>2
      <4>2. topQueue'[j - 1] = topQueue[j]
        BY <2>1, <4>1
      <4> QED
        BY <2>1, <4>1, <4>2
    <3> QED
      BY <3>1, <3>2
  <2>3. ASSUME NEW k \in DOMAIN topQueue' PROVE \E j \in DOMAIN topQueue : topQueue'[k].mx = topQueue[j].mx
    <3>1. CASE k = Len(topQueue)
      BY <1>7, <2>1, <3>1
    <3>2. CASE k # Len(topQueue)
      <4>1. k \in 1..(Len(topQueue) - 1) /\ k + 1 \in 1..Len(topQueue)
        BY <2>1, <2>3, <3>2
      <4> QED
        BY <2>1, <4>1
    <3> QED
      BY <3>1, <3>2
  <2> QED
    BY <2>2, <2>3 DEF RecordsOf
<1>11. current' = first.mx /\ first.mx \in MX /\ first.mx \in RecordsOf(topQueue)
  <2>1. current' = first.mx
    BY DEF SetServer, first
  <2>2. 1 \in DOMAIN topQueue /\ topQueue[1] = first
    BY <1>1 DEF first
  <2> QED
    BY <1>1, <2>1, <2>2 DEF Entry, RecordsOf
<1>12. server' = addresses[i].host
  BY <1>2 DEF i
<1> QED
  BY <1>4, <1>5, <1>6, <1>7, <1>9, <1>10, <1>11, <1>12 DEF Address, CurrentAddress, first

\* Addresses that expire stay where they are.
LEMMA ExpireFacts ==
  ASSUME Typed, ExpireAddresses
  PROVE  /\ topQueue' \in Seq(Entry) /\ RecordsOf(topQueue') = RecordsOf(topQueue)
         /\ topQueue # <<>> /\ Last(topQueue).addresses # <<>> =>
              /\ topQueue' # <<>> /\ Last(topQueue').addresses # <<>>
              /\ CurrentAddress(topQueue') = CurrentAddress(topQueue)
<1>1. topQueue \in Seq(Entry)
  BY DEF Typed
<1>2. PICK i \in DOMAIN topQueue :
        topQueue' = [topQueue EXCEPT ![i].addresses =
                       [j \in DOMAIN @ |-> [@[j] EXCEPT !.expired = TRUE]]]
  BY DEF ExpireAddresses
<1> DEFINE old == topQueue[i].addresses
           new == [j \in DOMAIN old |-> [old[j] EXCEPT !.expired = TRUE]]
           entry == [topQueue[i] EXCEPT !.addresses = new]
<1>3. topQueue[i] \in Entry /\ old \in Seq(Address)
  <2>1. i \in DOMAIN topQueue
    BY <1>2
  <2>2. topQueue[i] \in Entry
    BY <1>1, <2>1
  <2> QED
    BY <2>2 DEF Entry
<1>4. \A j \in DOMAIN old : /\ [old[j] EXCEPT !.expired = TRUE] \in Address
                           /\ [old[j] EXCEPT !.expired = TRUE].host = old[j].host
  <2> HIDE DEF old
  <2>1. \A j \in DOMAIN old : old[j] \in Address
    BY <1>3
  <2> QED
    BY <2>1 DEF Address
<1>5. /\ new \in Seq(Address) /\ Len(new) = Len(old)
      /\ \A j \in DOMAIN old : new[j].host = old[j].host
  <2> HIDE DEF old
  <2>1. DOMAIN old = 1..Len(old) /\ Len(old) \in Nat
    BY <1>3
  <2>2. \A j \in DOMAIN old : new[j] \in Address /\ new[j].host = old[j].host
    BY <1>4
  <2>3. DOMAIN new = 1..Len(old) /\ new = [j \in 1..Len(old) |-> new[j]]
    BY <2>1
  <2> HIDE DEF new
  <2>4. new \in [1..Len(old) -> Address]
    BY <2>1, <2>2, <2>3
  <2> QED
    BY <2>1, <2>2, <2>4
<1>6. topQueue' = [topQueue EXCEPT ![i] = entry]
  BY <1>2
<1> HIDE DEF new
<1>7. entry \in Entry /\ entry.mx = topQueue[i].mx /\ entry.addresses = new
  BY <1>3, <1>5 DEF Entry
<1> HIDE DEF entry
<1>8. /\ topQueue' \in Seq(Entry) /\ Len(topQueue') = Len(topQueue)
      /\ topQueue'[i] = entry /\ \A j \in DOMAIN topQueue \ {i} : topQueue'[j] = topQueue[j]
  <2>1. i \in DOMAIN topQueue
    BY <1>2
  <2> QED
    BY <1>1, <1>6, <1>7, <2>1
<1>9. DOMAIN topQueue' = DOMAIN topQueue
  BY <1>1, <1>8
<1>10. RecordsOf(topQueue') = RecordsOf(topQueue)
  BY <1>7, <1>8, <1>9 DEF RecordsOf
<1>11. ASSUME topQueue # <<>>, Last(topQueue).addresses # <<>>
       PROVE  /\ topQueue' # <<>> /\ Last(topQueue').addresses # <<>>
              /\ CurrentAddress(topQueue') = CurrentAddress(topQueue)
  <2> DEFINE n == Len(topQueue)
  <2>1. n \in DOMAIN topQueue /\ Last(topQueue) = topQueue[n] /\ Last(topQueue') = topQueue'[n]
        /\ topQueue' # <<>>
    BY <1>1, <1>8, <1>11 DEF Last
  <2>2. CASE n = i
    <3>1. Last(topQueue').addresses = new /\ Last(topQueue).addresses = old
      BY <1>7, <1>8, <2>1, <2>2
    <3>2. Len(old) \in DOMAIN old /\ old # <<>>
      BY <1>3, <1>11, <3>1
    <3>3. new # <<>> /\ Last(new).host = Last(old).host
      BY <1>3, <1>5, <3>2 DEF Last
    <3> QED
      BY <2>1, <3>1, <3>3 DEF CurrentAddress
  <2>3. CASE n # i
    BY <1>8, <1>11, <2>1, <2>3 DEF CurrentAddress
  <2> QED
    BY <2>2, <2>3
<1> QED
  BY <1>8, <1>10, <1>11

LEMMA TypedStep ==
  ASSUME Typed, [Next]_vars
  PROVE  Typed'
<1> USE DEF limits, queues, history
<1>1. CASE FindDomainLimits
  <2>1. mxRecords' \in {{}, MX} /\ cached' = mxRecords' /\ pc' \in {"limits", "idle"}
    BY <1>1 DEF FindDomainLimits, Typed
  <2>2. stale' \in BOOLEAN
    <3>1. UNCHANGED stale \/ stale' = FALSE
      BY <1>1, Zenon DEF FindDomainLimits
    <3> QED
      BY <3>1, Zenon DEF Typed
  <2>3. /\ topPriority' = NoPriority /\ topQueue' = <<>>
        /\ hasSession' = FALSE /\ server' = NoServer /\ current' = 0 /\ UNCHANGED then
    BY <1>1, Zenon DEF FindDomainLimits
  <2>4. hasSession' \in BOOLEAN
    BY <2>3, Zenon
  <2> QED
    BY <2>1, <2>2, <2>3, <2>4 DEF Typed, PCs
<1>2. CASE EndSession \/ CreateSession \/ Created \/ Dispatch \/ ConnectionError \/ Retried
  BY <1>2 DEF EndSession, CreateSession, Created, Dispatch, ConnectionError, Retried, NewSession,
              Typed, PCs
<1>3. ASSUME Refill("pop", "failed"), UNCHANGED <<then, limits, hasSession, server, current>>
      PROVE  Typed'
  <2>1. /\ topQueue' \in Seq(Entry) /\ pc' \in {"pop", "failed"} /\ (topQueue' = <<>> => pc' = "failed")
        /\ topPriority' \in {Priority[r] : r \in MX} \cup {NoPriority}
    BY <1>3, RefillFacts, RefillIP
  <2> QED
    BY <1>3, <2>1 DEF Typed, PCs
<1>4. CASE Cycle
  <2>1. CASE topQueue # <<>>
    BY <1>4, <2>1 DEF Cycle, Typed, PCs
  <2>2. CASE topQueue = <<>>
    BY <1>3, <1>4, <2>2 DEF Cycle
  <2> QED
    BY <2>1, <2>2
<1>5. CASE NextRecord
  <2>1. CASE topQueue # <<>>
    BY <1>5, <2>1 DEF NextRecord, Typed, PCs
  <2>2. CASE topQueue = <<>>
    BY <1>3, <1>5, <2>2 DEF NextRecord
  <2> QED
    BY <2>1, <2>2
<1>6. CASE SetServer
  <2>1. topQueue # <<>>
    BY <1>6 DEF SetServer, Typed
  <2>2. server' \in Hosts /\ topQueue' \in Seq(Entry) /\ topQueue' # <<>> /\ current' \in MX
    BY <1>6, <2>1, SetServerFacts
  <2>3. pc' = then /\ UNCHANGED <<then, limits, topPriority, hasSession>>
    BY <1>6 DEF SetServer
  <2> QED
    BY <2>2, <2>3 DEF Typed, PCs
<1>7. CASE DropRecord
  <2>1. topQueue # <<>> /\ topQueue \in Seq(Entry)
    BY <1>7 DEF DropRecord, Typed
  <2>2. Tail(topQueue) \in Seq(Entry)
    BY <2>1
  <2> QED
    BY <1>7, <2>2 DEF DropRecord, Typed, PCs
<1>8. CASE ExpireMX
  BY <1>8 DEF ExpireMX, Typed, PCs
<1>9. CASE ExpireAddresses
  <2>1. topQueue' \in Seq(Entry)
    BY <1>9, ExpireFacts
  <2>2. UNCHANGED <<pc, then, limits, topPriority, discarded, hasSession, server, history>> /\ pc = "idle"
    BY <1>9 DEF ExpireAddresses
  <2> QED
    BY <2>1, <2>2 DEF Typed
<1>10. CASE UNCHANGED vars
  BY <1>10 DEF vars, Typed
<1> QED
  BY <1>1, <1>2, <1>4, <1>5, <1>6, <1>7, <1>8, <1>9, <1>10 DEF Next, CycleServers

LEMMA BackStep ==
  ASSUME Typed, AtTheBack, [Next]_vars
  PROVE  AtTheBack'
<1> USE DEF limits, queues, history
<1>1. CASE FindDomainLimits
  BY <1>1 DEF FindDomainLimits, AtTheBack
<1>2. CASE EndSession \/ CreateSession \/ Created
  BY <1>2 DEF EndSession, CreateSession, Created, AtTheBack
<1>3. CASE Dispatch \/ Retried
  BY <1>3 DEF Dispatch, Retried, NewSession, AtTheBack
<1>4. CASE ConnectionError
  BY <1>4 DEF ConnectionError, AtTheBack
<1>5. CASE Cycle \/ NextRecord \/ DropRecord
  <2>1. /\ UNCHANGED <<then, hasSession, server>> /\ pc \in {"cycle", "dropped", "pop"}
        /\ pc' \in {"pop", "failed", "dropped"}
    BY <1>5 DEF Cycle, NextRecord, DropRecord, Refill
  <2> QED
    BY <2>1 DEF AtTheBack
<1>6. CASE SetServer
  <2>1. topQueue # <<>>
    BY <1>6 DEF SetServer, Typed
  <2>2. /\ topQueue' # <<>> /\ Last(topQueue').addresses # <<>>
        /\ CurrentAddress(topQueue') = server'
    BY <1>6, <2>1, SetServerFacts
  <2>3. pc' = then /\ then \in {"created", "retried"} /\ pc = "pop" /\ UNCHANGED <<then, hasSession>>
    BY <1>6 DEF SetServer, Typed
  <2>4. hasSession
    BY <2>3 DEF AtTheBack
  <2> QED
    BY <2>2, <2>3, <2>4 DEF AtTheBack
<1>7. CASE ExpireMX
  BY <1>7 DEF ExpireMX, AtTheBack
<1>8. CASE ExpireAddresses
  <2>1. UNCHANGED <<pc, then, hasSession, server>>
    BY <1>8 DEF ExpireAddresses
  <2> QED
    BY <1>8, <2>1, ExpireFacts DEF AtTheBack
<1>9. CASE UNCHANGED vars
  BY <1>9 DEF vars, AtTheBack
<1> QED
  BY <1>1, <1>2, <1>3, <1>4, <1>5, <1>6, <1>7, <1>8, <1>9 DEF Next, CycleServers

LEMMA OrderStep ==
  ASSUME Typed, InOrder, [Next]_vars
  PROVE  InOrder'
<1> USE DEF limits, queues, history
<1>1. CASE FindDomainLimits
  <2>1. topPriority' = NoPriority /\ topQueue' = <<>> /\ current' = 0
    BY <1>1, Zenon DEF FindDomainLimits
  <2> QED
    BY <2>1 DEF InOrder
<1>2. SUFFICES ASSUME mxRecords # {}, ~IsIP, UNCHANGED mxRecords, ~FindDomainLimits
      PROVE  InOrder'
  <2>1. UNCHANGED mxRecords \/ FindDomainLimits
    BY DEF Next, vars, CycleServers, EndSession, CreateSession, Created, Dispatch, ConnectionError,
           Retried, NewSession, Cycle, NextRecord, SetServer, DropRecord, ExpireMX, ExpireAddresses
  <2> QED
    BY <1>1, <2>1 DEF InOrder
<1> DEFINE best == BestOf(mxRecords)
           isBest(p) == \E r \in best : p = Priority[r]
<1>3. /\ topPriority = NoPriority => topQueue = <<>>
      /\ topPriority # NoPriority =>
           IF isBest(topPriority)
           THEN RecordsOf(topQueue) \subseteq best /\ best \subseteq RecordsOf(topQueue) \cup failed
           ELSE RecordsOf(topQueue) \cap best = {} /\ best \subseteq failed
      /\ current # 0 /\ current \notin best => best \subseteq failed
  BY <1>2 DEF InOrder
<1>4. SUFFICES /\ topPriority' = NoPriority => topQueue' = <<>>
               /\ topPriority' # NoPriority =>
                    IF isBest(topPriority')
                    THEN RecordsOf(topQueue') \subseteq best
                         /\ best \subseteq RecordsOf(topQueue') \cup failed'
                    ELSE RecordsOf(topQueue') \cap best = {} /\ best \subseteq failed'
               /\ current' # 0 /\ current' \notin best => best \subseteq failed'
  BY <1>2 DEF InOrder
<1>5. /\ mxRecords = MX
      /\ topPriority \in {Priority[r] : r \in MX} \cup {NoPriority}
      /\ \A r \in MX : Priority[r] \in Nat /\ Priority[r] # NoPriority
      /\ NoPriority \in Nat
  BY <1>2, MXFacts DEF Typed
<1>6. CASE UNCHANGED <<queues, failed>> /\ current' \in {0, current}
  BY <1>3, <1>6
<1>7. CASE topQueue = <<>> /\ Refill("pop", "failed") /\ UNCHANGED current
  <2>1. RecordsOf(topQueue) = {}
    BY <1>7 DEF RecordsOf
  <2>2. topPriority # NoPriority => best \subseteq failed
    BY <1>3, <2>1
  <2>3. topPriority' \in {Priority[r] : r \in MX} \cup {NoPriority}
    BY <1>2, <1>7, RefillFacts
  <2>4. CASE /\ RecordsOf(topQueue') \subseteq LowerRecords(topPriority)
             /\ topPriority < topPriority' /\ topPriority' # NoPriority /\ failed' = failed
    <3>1. topPriority # NoPriority
      BY <1>5, <2>3, <2>4, MXFacts
    <3>2. PICK q \in MX : topPriority = Priority[q]
      BY <1>5, <3>1
    <3>3. \A r \in best : Priority[r] <= topPriority
      BY <1>5, <3>2 DEF BestOf
    <3>4. LowerRecords(topPriority) \cap best = {}
      BY <1>5, <3>2, <3>3 DEF LowerRecords, BestOf
    <3>5. ~isBest(topPriority')
      <4>1. \A r \in best : r \in MX /\ Priority[r] \in Nat /\ topPriority' \in Nat /\ topPriority \in Nat
        BY <1>5, <2>3 DEF BestOf
      <4> QED
        BY <2>4, <3>3, <4>1
    <3> QED
      BY <1>3, <1>7, <2>2, <2>4, <3>1, <3>4, <3>5
  <2>5. CASE /\ RecordsOf(topQueue') \subseteq TopRecords(topPriority')
             /\ failed' = failed \cup (TopRecords(topPriority') \ RecordsOf(topQueue'))
             /\ topPriority' = TopOf(NextPriority(topPriority))
             /\ NextPriority(topPriority) # NoPriority => topQueue' = <<>>
    <3> DEFINE top == Priority[Min(mxRecords)]
    <3>1. Min(mxRecords) \in best /\ TopRecords(top) = best /\ best \subseteq MX
      BY <1>2, <1>5, Bests DEF BestOf
    <3>2. CASE NextPriority(topPriority) = NoPriority
      <4>1. topPriority' = top
        BY <1>2, <2>5, <3>2 DEF TopOf
      <4> QED
        BY <1>3, <1>5, <1>7, <2>5, <3>1, <4>1
    <3>3. CASE NextPriority(topPriority) # NoPriority
      <4>1. topQueue' = <<>> /\ RecordsOf(topQueue') = {}
        BY <2>5, <3>3 DEF RecordsOf
      <4>2. topPriority' = NextPriority(topPriority)
        BY <2>5, <3>3 DEF TopOf
      <4>3. best \subseteq TopRecords(topPriority')
        BY <1>2, <1>5, <2>3, <3>3, <4>2, Bests
      <4> QED
        BY <1>3, <1>7, <2>5, <4>1, <4>3
    <3> QED
      BY <3>2, <3>3
  <2> QED
    BY <1>2, <1>7, <2>4, <2>5, RefillFacts
<1>8. CASE SetServer
  <2>1. topQueue # <<>>
    BY <1>8 DEF SetServer, Typed
  <2>2. RecordsOf(topQueue') = RecordsOf(topQueue) /\ current' \in RecordsOf(topQueue)
    BY <1>8, <2>1, SetServerFacts
  <2>3. failed' = failed \ {current'} /\ UNCHANGED topPriority
    BY <1>8 DEF SetServer
  <2> QED
    BY <1>3, <2>1, <2>2, <2>3
<1>9. CASE DropRecord
  <2>1. topQueue # <<>> /\ topQueue \in Seq(Entry) /\ topQueue' = Tail(topQueue)
    BY <1>9 DEF DropRecord, Typed
  <2>2. failed' = failed \cup {Head(topQueue).mx} /\ UNCHANGED <<topPriority, current>>
    BY <1>9 DEF DropRecord
  <2>3. RecordsOf(topQueue) = RecordsOf(topQueue') \cup {Head(topQueue).mx}
    <3>1. /\ DOMAIN topQueue = 1..Len(topQueue) /\ Len(topQueue) \in Nat \ {0}
          /\ DOMAIN topQueue' = 1..(Len(topQueue) - 1) /\ Head(topQueue) = topQueue[1]
          /\ \A i \in 1..(Len(topQueue) - 1) : topQueue'[i] = topQueue[i + 1]
      BY <2>1
    <3>2. ASSUME NEW i \in DOMAIN topQueue, i # 1
          PROVE  \E k \in DOMAIN topQueue' : topQueue'[k] = topQueue[i]
      <4>1. i - 1 \in 1..(Len(topQueue) - 1) /\ (i - 1) + 1 = i
        BY <3>1, <3>2
      <4> QED
        BY <3>1, <4>1
    <3>3. ASSUME NEW k \in DOMAIN topQueue'
          PROVE  \E i \in DOMAIN topQueue : topQueue'[k] = topQueue[i]
      <4>1. k \in 1..(Len(topQueue) - 1) /\ k + 1 \in 1..Len(topQueue)
        BY <3>1, <3>3
      <4> QED
        BY <3>1, <4>1
    <3>4. 1 \in DOMAIN topQueue
      BY <3>1
    <3> QED
      BY <3>1, <3>2, <3>3, <3>4 DEF RecordsOf
  <2> QED
    BY <1>3, <2>1, <2>2, <2>3
<1>10. CASE ExpireAddresses
  <2>1. RecordsOf(topQueue') = RecordsOf(topQueue)
    BY <1>10, ExpireFacts
  <2>2. UNCHANGED <<topPriority, failed, current>>
    BY <1>10 DEF ExpireAddresses
  <2>3. topQueue # <<>>
    BY <1>10 DEF ExpireAddresses
  <2>4. topPriority # NoPriority
    BY <1>3, <2>3
  <2> QED
    BY <1>3, <2>1, <2>2, <2>4
<1>11. CASE Cycle
  BY <1>6, <1>7, <1>11 DEF Cycle
<1>12. CASE NextRecord
  BY <1>6, <1>7, <1>12 DEF NextRecord
<1>13. CASE EndSession \/ CreateSession \/ Created \/ ConnectionError \/ ExpireMX \/ UNCHANGED vars
  <2>1. UNCHANGED <<queues, failed, current>>
    BY <1>13 DEF EndSession, CreateSession, Created, ConnectionError, ExpireMX, vars
  <2> QED
    BY <1>6, <2>1
<1>14. CASE Dispatch \/ Retried
  <2>1. UNCHANGED <<queues, failed>> /\ current' = 0
    BY <1>14 DEF Dispatch, Retried, NewSession
  <2> QED
    BY <1>6, <2>1
<1> QED
  BY <1>2, <1>8, <1>9, <1>10, <1>11, <1>12, <1>13, <1>14 DEF Next, CycleServers
----------------------------------------------------------------------------
\* The invariant that the theorems rest on.
THEOREM Invariance == Spec => []IInv
<1>1. Init => IInv
  <2> SUFFICES ASSUME Init PROVE IInv
    OBVIOUS
  <2>1. topQueue = <<>> /\ topQueue \in Seq(Entry) /\ topPriority = NoPriority
    BY DEF Init
  <2>2. stale \in BOOLEAN /\ hasSession \in BOOLEAN
    BY Zenon DEF Init
  <2>3. Typed
    BY <2>1, <2>2 DEF Init, Typed, PCs
  <2>4. AtTheBack
    BY DEF Init, AtTheBack
  <2>5. InOrder
    BY <2>1 DEF Init, InOrder
  <2> QED
    BY <2>3, <2>4, <2>5 DEF IInv
<1>2. IInv /\ [Next]_vars => IInv'
  BY TypedStep, BackStep, OrderStep DEF IInv
<1> QED
  BY <1>1, <1>2, PTL DEF Spec

\* For any records and answers, a server that is not of the best priority is used
\* only when every record of that priority was found unusable since one of them
\* was last used: cycleServers() empties what initializeTopQueue() queued before
\* queueNextPriorityRecords() is asked.
THEOREM BestFirst == Spec => []PreferredFirst
<1>1. IInv => PreferredFirst
  <2>1. SUFFICES ASSUME IInv, current \in mxRecords,
                        Priority[current] > Priority[Min(mxRecords)]
                 PROVE  BestOf(mxRecords) \subseteq failed
    <3>1. mxRecords \in {{}, MX} => \A r \in mxRecords :
            Priority[r] = Priority[Min(mxRecords)] => r \in BestOf(mxRecords)
      BY Bests
    <3> QED
      BY <3>1 DEF PreferredFirst, IInv, Typed
  <2>2. mxRecords = MX /\ mxRecords # {} /\ current # 0
    BY <2>1, MXFacts DEF IInv, Typed
  <2>3. Min(mxRecords) \in MX /\ current \notin BestOf(mxRecords)
    BY <2>1, <2>2, Bests, MXFacts DEF BestOf
  <2>4. ~IsIP
    <3>1. ASSUME IsIP PROVE FALSE
      <4>1. MX = {1}
        BY <3>1, ServerCycleAssumption
      <4>2. current = Min(mxRecords)
        BY <2>1, <2>2, <2>3, <4>1
      <4>3. Priority[current] \in Nat
        <5>1. current \in MX
          BY <2>1, <2>2
        <5> QED
          BY <5>1, MXFacts
      <4>4. \A n \in Nat : ~(n > n)
        OBVIOUS
      <4> QED
        BY <2>1, <4>2, <4>3, <4>4
    <3> QED
      BY <3>1
  <2> QED
    BY <2>1, <2>2, <2>3, <2>4 DEF IInv, InOrder
<1> QED
  BY <1>1, Invariance, PTL

\* discardCurrentServer() looks at the back of the queues and finds the server
\* that was in use when the connection failed.
THEOREM RightOneDiscarded == Spec => DiscardsCurrent
<1>1. IInv /\ [Next]_vars => [discarded' \notin {discarded, {}} =>
                               discarded' = discarded \cup {server}]_vars
  <2>1. SUFFICES ASSUME IInv, [Next]_vars, discarded' \notin {discarded, {}}
                 PROVE  discarded' = discarded \cup {server}
    OBVIOUS
  <2>2. ConnectionError
    BY <2>1 DEF Next, vars, CycleServers, FindDomainLimits, EndSession, CreateSession, Created,
         Dispatch, Retried, NewSession, Cycle, NextRecord, SetServer, DropRecord, ExpireMX,
         ExpireAddresses
  <2>3. discarded' = Discarded /\ pc = "idle" /\ server # NoServer
    BY <2>2 DEF ConnectionError
  <2> QED
    BY <2>1, <2>3 DEF IInv, AtTheBack, Discarded
<1> QED
  BY <1>1, Invariance, PTL DEF Spec, DiscardsCurrent

\* setServer() never sets an address the session has discarded, under whatever
\* name it is queued again.
THEOREM NeverAgain == Spec => DiscardedForGood
<1>1. IInv /\ [Next]_vars => [server' \notin {server, NoServer} => server' \notin discarded]_vars
  <2>1. SUFFICES ASSUME IInv, [Next]_vars, server' \notin {server, NoServer}
                 PROVE  server' \notin discarded
    OBVIOUS
  <2>2. SetServer
    BY <2>1 DEF Next, vars, CycleServers, FindDomainLimits, EndSession, CreateSession, Created,
         Dispatch, Retried, NewSession, Cycle, NextRecord, ConnectionError, DropRecord, ExpireMX,
         ExpireAddresses
  <2>3. topQueue # <<>>
    BY <2>1, <2>2 DEF SetServer, IInv, Typed
  <2> QED
    BY <2>1, <2>2, <2>3, SetServerFacts DEF IInv
<1> QED
  BY <1>1, Invariance, PTL DEF Spec, DiscardedForGood
----------------------------------------------------------------------------
\* Why cycleServers() returns.

\* The record in front has an address that can be used.
Ready == /\ pc = "pop" /\ ~stale
         /\ topQueue # <<>> /\ Usable(Head(topQueue).addresses) # {}

\* What is left to try, the most important first: priorities to queue; records in the
\* queue; whether one of them has to be popped yet.
RecordsLeft == IF Ready THEN 0 ELSE 1 + Cardinality(LowerRecords(topPriority))
PopsLeft    == IF pc = "pop" THEN 0 ELSE 1
SearchLeft  == <<RecordsLeft, Len(topQueue), PopsLeft>>

\* The lexicographic order.
Less(p, q) == \E i \in 1..3 : p[i] < q[i] /\ \A j \in 1..(i - 1) : p[j] = q[j]

Searching == {"cycle", "pop", "dropped"}

\* Every turn of cycleServers() and setServer() returns, or leaves less to try.
SearchGoesDown ==
  [][CycleServers /\ pc' \in Searching =>
       /\ SearchLeft \in [1..3 -> Nat]
       /\ Less(SearchLeft', SearchLeft)]_vars

LEMMA LeftTypes ==
  ASSUME Typed
  PROVE  /\ RecordsLeft \in Nat /\ Len(topQueue) \in Nat /\ PopsLeft \in Nat
         /\ SearchLeft \in [1..3 -> Nat]
<1>1. Cardinality(LowerRecords(topPriority)) \in Nat
  <2>1. IsFiniteSet(LowerRecords(topPriority))
    BY MXFacts, FS_Subset DEF Typed, LowerRecords
  <2> QED
    BY <2>1, FS_CardinalityType
<1>2. RecordsLeft \in Nat /\ PopsLeft \in Nat
  BY <1>1 DEF RecordsLeft, PopsLeft
<1>3. Len(topQueue) \in Nat
  BY DEF Typed
<1> QED
  BY <1>2, <1>3 DEF SearchLeft

\* What is less important may grow where something more important is less.
LEMMA LessWhen ==
  ASSUME \/ RecordsLeft' < RecordsLeft
         \/ /\ RecordsLeft' = RecordsLeft
            /\ \/ Len(topQueue') < Len(topQueue)
               \/ topQueue' = topQueue /\ PopsLeft' < PopsLeft
  PROVE  Less(SearchLeft', SearchLeft)
<1>1. CASE RecordsLeft' < RecordsLeft
  <2>1. SearchLeft'[1] < SearchLeft[1] /\ 1..0 = {}
    BY <1>1 DEF SearchLeft
  <2> QED
    BY <2>1 DEF Less
<1>2. CASE RecordsLeft' = RecordsLeft /\ Len(topQueue') < Len(topQueue)
  <2>1. SearchLeft'[2] < SearchLeft[2] /\ \A j \in 1..1 : SearchLeft'[j] = SearchLeft[j]
    BY <1>2 DEF SearchLeft
  <2> QED
    BY <2>1 DEF Less
<1>3. CASE RecordsLeft' = RecordsLeft /\ topQueue' = topQueue /\ PopsLeft' < PopsLeft
  <2>1. SearchLeft'[3] < SearchLeft[3] /\ \A j \in 1..2 : SearchLeft'[j] = SearchLeft[j]
    BY <1>3 DEF SearchLeft
  <2> QED
    BY <2>1 DEF Less
<1> QED
  BY <1>1, <1>2, <1>3

\* The addresses an MX record is queued with are those that were not discarded.
LEMMA AnswersUsable ==
  ASSUME NEW r \in MX, NEW a \in AddressesOf(r), a # <<>>
  PROVE  Usable(Addresses(a)) # {}
<1>1. IsFiniteSet(HostsOf[r] \ discarded)
  BY MXFacts, FS_Subset
<1>2. a \in Seq(HostsOf[r] \ discarded)
  BY <1>1, Orders, AnswersTyped DEF AddressesOf
<1>3. 1 \in DOMAIN a /\ a[1] \notin discarded
  BY <1>2
<1>4. DOMAIN Addresses(a) = DOMAIN a /\ Addresses(a)[1] = Fresh(a[1])
  BY <1>3 DEF Addresses
<1>5. 1 \in Usable(Addresses(a))
  BY <1>3, <1>4 DEF Usable, Fresh
<1> QED
  BY <1>5

\* initializeTopQueue() queues only what setServer() can use.
LEMMA TopUsable ==
  ASSUME mxRecords \in SUBSET MX, ~IsIP, ~stale,
         NEW priority, NEW queue \in TopQueues(priority), queue # <<>>
  PROVE  Usable(Head(queue).addresses) # {}
<1> DEFINE top == TopRecords(priority)
<1>1. PICK a : /\ \A r \in top : a[r] \in AddressesOf(r)
               /\ queue \in Queues({r \in top : a[r] # <<>>}, a)
  BY DEF TopQueues
<1>2. top \subseteq MX
  BY DEF TopRecords
<1> HIDE DEF top
<1> DEFINE answered == {r \in top : a[r] # <<>>}
<1>3. PICK s \in Ascending(answered) : queue = [i \in DOMAIN s |-> Record(s[i], a[s[i]])]
  BY <1>1 DEF Queues
<1>4. s \in Seq(answered)
  BY <1>2, Orders, MXFacts, FS_Subset DEF Ascending
<1>5. 1 \in DOMAIN s /\ s[1] \in answered
  <2>1. s # <<>>
    BY <1>3
  <2> HIDE DEF answered
  <2> QED
    BY <1>4, <2>1
<1>6. Head(queue) = Record(s[1], a[s[1]])
  <2>1. queue \in Seq(Entry)
    BY TopQueuesTyped
  <2>2. Head(queue) = queue[1]
    BY <2>1
  <2>3. queue[1] = Record(s[1], a[s[1]])
    BY <1>3, <1>5
  <2> QED
    BY <2>2, <2>3
<1>7. Usable(Addresses(a[s[1]])) # {}
  BY <1>1, <1>2, <1>5, AnswersUsable
<1> QED
  BY <1>6, <1>7 DEF Record

\* An empty queue is filled with fewer records to come, or with what can be used.
LEMMA RefillLess ==
  ASSUME Typed, ~IsIP, pc # "pop", UNCHANGED <<limits, discarded>>, Refill("pop", "failed"),
         pc' \in Searching
  PROVE  RecordsLeft' < RecordsLeft
<1>1. /\ mxRecords \in {{}, MX} /\ mxRecords \in SUBSET MX /\ mxRecords' = mxRecords
      /\ stale' = stale /\ discarded' = discarded
      /\ topPriority \in {Priority[r] : r \in MX} \cup {NoPriority}
  BY DEF Typed, limits
<1>2. RecordsLeft = 1 + Cardinality(LowerRecords(topPriority))
  BY DEF RecordsLeft, Ready
<1>3. IsFiniteSet(LowerRecords(topPriority))
  BY <1>1, MXFacts, FS_Subset DEF LowerRecords
<1>4. Cardinality(LowerRecords(topPriority)) \in Nat
  BY <1>3, FS_CardinalityType
<1>5. CASE NextRecords(topPriority) # {}
  <2> DEFINE lower == LowerRecords(topPriority)
             fewer == LowerRecords(NextPriority(topPriority))
  <2>1. topPriority' = NextPriority(topPriority)
    BY <1>5 DEF Refill
  <2>2. LowerRecords(topPriority)' = fewer
    BY <1>1, <2>1 DEF LowerRecords
  <2>3. lower \in SUBSET Nat /\ lower # {}
    BY <1>1, <1>5, MXFacts DEF LowerRecords, NextRecords
  <2>4. PICK m \in lower : Priority[m] = NextPriority(topPriority)
    <3> HIDE DEF lower
    <3>1. Min(lower) \in lower
      BY <2>3, MinFacts
    <3> QED
      BY <2>3, <3>1 DEF lower, NextPriority
  <2>5. fewer \subseteq lower \ {m}
    <3>1. /\ NextPriority(topPriority) \in Nat /\ topPriority \in Nat
          /\ \A r \in mxRecords : Priority[r] \in Nat
      BY <1>1, NextFacts, MXFacts
    <3>2. NextPriority(topPriority) > topPriority
      BY <1>1, <1>5, NextFacts
    <3>3. \A r \in fewer : r \in lower /\ r # m
      BY <2>4, <3>1, <3>2 DEF LowerRecords
    <3> QED
      BY <3>3
  <2> HIDE DEF lower, fewer
  <2>6. Cardinality(lower \ {m}) < Cardinality(lower)
    <3>1. IsFiniteSet(lower)
      BY <1>3 DEF lower
    <3>2. Cardinality(lower \ {m}) = Cardinality(lower) - 1 /\ Cardinality(lower) \in Nat
      BY <2>4, <3>1, FS_RemoveElement, FS_CardinalityType
    <3> QED
      BY <3>2
  <2>7. /\ Cardinality(fewer) <= Cardinality(lower \ {m}) /\ Cardinality(fewer) \in Nat
        /\ Cardinality(lower \ {m}) \in Nat /\ Cardinality(lower) \in Nat
    <3>1. IsFiniteSet(lower) /\ IsFiniteSet(lower \ {m})
      BY <1>3, FS_Subset DEF lower
    <3> QED
      BY <2>5, <3>1, FS_Subset, FS_CardinalityType
  <2>8. Cardinality(fewer) < Cardinality(lower)
    BY <2>6, <2>7
  <2>9. RecordsLeft' \in {0, 1 + Cardinality(fewer)}
    BY <2>2 DEF RecordsLeft
  <2>10. RecordsLeft = 1 + Cardinality(lower)
    BY <1>2 DEF lower
  <2> QED
    BY <2>7, <2>8, <2>9, <2>10
<1>6. CASE NextRecords(topPriority) = {}
  <2> DEFINE top == TopOf(NextPriority(topPriority))
  <2>1. topQueue' \in TopQueues(top) /\ pc' = IF topQueue' = <<>> THEN "failed" ELSE "pop"
    BY <1>6 DEF Refill
  <2>2. topQueue' # <<>> /\ pc' = "pop"
    BY <2>1 DEF Searching
  <2>3. ~stale
    BY <1>1, <2>1, <2>2, TopQueuesTyped
  <2>4. Usable(Head(topQueue').addresses) # {}
    BY <1>1, <2>1, <2>2, <2>3, TopUsable
  <2>5. Ready'
    BY <1>1, <2>2, <2>3, <2>4 DEF Ready, Usable
  <2>6. RecordsLeft' = 0
    BY <2>5 DEF RecordsLeft
  <2> QED
    BY <1>2, <1>4, <2>6
<1> QED
  BY <1>5, <1>6

\* A record is popped next.
LEMMA PopLess ==
  ASSUME Typed, pc # "pop", pc' = "pop", UNCHANGED <<limits, queues>>
  PROVE  Less(SearchLeft', SearchLeft)
<1>1. PopsLeft = 1 /\ PopsLeft' = 0
  BY DEF PopsLeft
<1>2. topQueue' = topQueue /\ topPriority' = topPriority /\ mxRecords' = mxRecords
  BY DEF limits, queues
<1>3. LowerRecords(topPriority)' = LowerRecords(topPriority)
  BY <1>2 DEF LowerRecords
<1>4. RecordsLeft = 1 + Cardinality(LowerRecords(topPriority))
  BY DEF RecordsLeft, Ready
<1>5. RecordsLeft' \in {0, RecordsLeft}
  BY <1>3, <1>4 DEF RecordsLeft
<1>6. RecordsLeft \in Nat
  BY LeftTypes
<1>7. RecordsLeft' < RecordsLeft \/ RecordsLeft' = RecordsLeft
  <2>1. RecordsLeft # 0
    <3>1. Cardinality(LowerRecords(topPriority)) \in Nat
      BY MXFacts, FS_Subset, FS_CardinalityType DEF Typed, LowerRecords
    <3> QED
      BY <1>4, <3>1
  <2> QED
    BY <1>5, <1>6, <2>1
<1> QED
  BY <1>1, <1>2, <1>7, LessWhen

\* A record is dropped that had nothing to use.
LEMMA DropLess ==
  ASSUME Typed, ~IsIP, DropRecord
  PROVE  Less(SearchLeft', SearchLeft)
<1>1. topQueue \in Seq(Entry) /\ topQueue # <<>>
  BY DEF Typed, DropRecord
<1>2. /\ topQueue' = Tail(topQueue) /\ pc = "pop" /\ pc' = "dropped"
      /\ topPriority' = topPriority /\ mxRecords' = mxRecords
  BY DEF DropRecord, limits
<1>3. Len(topQueue') < Len(topQueue)
  BY <1>1, <1>2
<1>4. ~Ready
  <2>1. stale \/ \E addresses \in Tried(Head(topQueue)) : Usable(addresses) = {}
    BY DEF DropRecord
  <2>2. CASE stale
    BY <2>2 DEF Ready
  <2>3. CASE \E addresses \in Tried(Head(topQueue)) : Usable(addresses) = {}
    <3>1. Head(topQueue).addresses # <<>> => Usable(Head(topQueue).addresses) = {}
      BY <2>3 DEF Tried
    <3>2. Head(topQueue).addresses = <<>> => Usable(Head(topQueue).addresses) = {}
      BY DEF Usable
    <3> QED
      BY <3>1, <3>2 DEF Ready
  <2> QED
    BY <2>1, <2>2, <2>3
<1>5. ~Ready'
  BY <1>2 DEF Ready
<1>6. LowerRecords(topPriority)' = LowerRecords(topPriority)
  BY <1>2 DEF LowerRecords
<1>7. RecordsLeft' = RecordsLeft
  BY <1>4, <1>5, <1>6 DEF RecordsLeft
<1> QED
  BY <1>3, <1>7, LessWhen

\* cycleServers() does not go round the same records for ever, whatever the resolver
\* answers and was discarded: each turn returns, or leaves less to try in an order
\* without infinite descents.  A relay that is an IP address is queued again though it
\* was discarded, and there it may.
THEOREM SearchEnds ==
  ASSUME ~IsIP
  PROVE  Spec => SearchGoesDown
<1>1. ASSUME IInv, CycleServers, pc' \in Searching
      PROVE  SearchLeft \in [1..3 -> Nat] /\ Less(SearchLeft', SearchLeft)
  <2>1. Typed
    BY <1>1 DEF IInv
  <2>2. SearchLeft \in [1..3 -> Nat]
    BY <2>1, LeftTypes
  <2>3. CASE (Cycle \/ NextRecord) /\ topQueue # <<>>
    <3>1. pc # "pop" /\ pc' = "pop" /\ UNCHANGED <<limits, queues>>
      BY <2>3 DEF Cycle, NextRecord
    <3> QED
      BY <2>1, <2>2, <3>1, PopLess
  <2>4. CASE (Cycle \/ NextRecord) /\ topQueue = <<>>
    <3>1. pc # "pop" /\ UNCHANGED <<limits, discarded>> /\ Refill("pop", "failed")
      BY <2>4 DEF Cycle, NextRecord
    <3>2. RecordsLeft' < RecordsLeft
      BY <1>1, <2>1, <3>1, RefillLess
    <3> QED
      BY <2>2, <3>2, LessWhen
  <2>5. CASE SetServer
    <3>1. pc' \in {"created", "retried"}
      BY <2>1, <2>5 DEF SetServer, Typed
    <3> QED
      BY <1>1, <3>1 DEF Searching
  <2>6. CASE DropRecord
    BY <2>1, <2>2, <2>6, DropLess
  <2> QED
    BY <1>1, <2>3, <2>4, <2>5, <2>6 DEF CycleServers
<1>2. IInv /\ [Next]_vars =>
        [CycleServers /\ pc' \in Searching =>
           /\ SearchLeft \in [1..3 -> Nat]
           /\ Less(SearchLeft', SearchLeft)]_vars
  BY <1>1
<1> QED
  BY <1>2, Invariance, PTL DEF Spec, SearchGoesDown
=============================================================================
