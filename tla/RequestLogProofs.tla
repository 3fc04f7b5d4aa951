------------------------- MODULE RequestLogProofs -------------------------
(***************************************************************************)
(* The bound of RequestLog.tla on how often a request is executed within   *)
(* a minute, for any processes, requests, keys, bounds and lengths of the  *)
(* minute.                                                                 *)
(***************************************************************************)
EXTENDS RequestLog, TLAPS, FiniteSetTheorems, WellFoundedInduction

PCs == {"idle", "reading", "key", "search", "execute", "log"}
Times == 1..MaxTime
Rows == [number : Nat, hash : Requests, time : Times]

Typed ==
  /\ now \in Times /\ faults \in Nat /\ forgotten \in Nat
  /\ pc \in [Processes -> PCs]
  /\ request \in [Processes -> Requests \cup {NoRequest}]
  /\ arrived \in [Processes -> 0..MaxTime] /\ seen \in [Processes -> 0..MaxTime]
  /\ log \subseteq Rows
  /\ executed \in [Requests -> [Times -> Nat]]

\* A request is read after it arrived, by the clock that does not go back; rows
\* have the number of the key and a time that is past.
InTime ==
  /\ \A p \in Processes :
       /\ pc[p] # "idle" => request[p] \in Requests /\ arrived[p] \in 1..now
       /\ pc[p] \in {"key", "search", "execute", "log"} => seen[p] \in arrived[p]..now
  /\ \A row \in log : row.number = KeyNumber[KeyOf[row.hash]] /\ row.time <= now

\* Of the processes that serve a request: those that had it before a time and may
\* yet execute it,
Before(q, t) ==
  {p \in Processes : /\ request[p] = q /\ arrived[p] < t
                     /\ pc[p] \in {"reading", "key", "search", "execute"}}
\* those that got it later and have executed it, but not logged it yet,
Unlogged(q, t) ==
  {p \in Processes : request[p] = q /\ arrived[p] >= t /\ pc[p] = "log"}
\* those that got it later and are about to execute it within the minute.
Passed(q, t) ==
  {p \in Processes : /\ request[p] = q /\ arrived[p] >= t /\ seen[p] < t + Minute
                     /\ pc[p] = "execute"}

\* The log has what makes others refuse the request for the rest of the minute.
Refused(q, t) == \E row \in log : row.hash = q /\ row.time >= t

\* What deleted keys allow for: each process may be let through once more.
Slack == forgotten * Cardinality(Processes)

\* Until then every execution but one per process that had the request before is
\* one that is yet to be logged, or whose row was lost; from then on only those
\* go on that were looking for a row too early, or could not look.  A key whose
\* deletion takes the rows starts this over.
Allowance(q, t) ==
  /\ now < t => executed[q][t] = 0
  /\ ~Refused(q, t) =>
       executed[q][t] + Cardinality(Before(q, t))
         <= Cardinality(Processes) + faults + Slack + Cardinality(Unlogged(q, t))
  /\ Refused(q, t) =>
       executed[q][t] + Cardinality(Before(q, t)) + Cardinality(Passed(q, t))
         <= 2 * Cardinality(Processes) + faults + Slack

Bounded == \A q \in Requests, t \in Times : Allowance(q, t)

IInv == Typed /\ InTime /\ Bounded
----------------------------------------------------------------------------
\* The latest of some rows.
LEMMA Latest ==
  ASSUME NEW S \in SUBSET Times, S # {}
  PROVE  Max(S) \in S /\ \A s \in S : s <= Max(S)
<1>1. MaxTime \in Nat
  BY RequestLogAssumption
<1> DEFINE left == {MaxTime - s : s \in S}
<1>2. left \in SUBSET Nat /\ left # {}
  <2>1. \A s \in S : MaxTime - s \in Nat
    BY <1>1 DEF Times
  <2> QED
    BY <2>1
<1> HIDE DEF left
<1>3. PICK n \in left : \A m \in left : ~ <<m, n>> \in OpToRel(<, Nat)
  BY <1>2, WFMin, NatLessThanWellFounded
<1>4. \A m \in left : n <= m
  <2>1. \A m \in left : ~ (m < n)
    BY <1>2, <1>3 DEF OpToRel
  <2> QED
    BY <1>2, <2>1
<1>5. PICK s \in S : n = MaxTime - s
  BY <1>3 DEF left
<1>6. \A r \in S : r <= s
  <2> TAKE r \in S
  <2>1. MaxTime - r \in left
    BY DEF left
  <2> QED
    BY <1>1, <1>4, <1>5, <2>1 DEF Times
<1> QED
  BY <1>5, <1>6 DEF Max

\* A set of processes that one process may enter or leave.
LEMMA OneMore ==
  ASSUME NEW A \in SUBSET Processes, NEW B \in SUBSET Processes, NEW p \in Processes,
         A \ {p} = B \ {p}
  PROVE  /\ Cardinality(A) \in Nat /\ Cardinality(B) \in Nat
         /\ p \in A /\ p \in B => Cardinality(B) = Cardinality(A)
         /\ p \notin A /\ p \notin B => Cardinality(B) = Cardinality(A)
         /\ p \in A /\ p \notin B => Cardinality(B) = Cardinality(A) - 1
         /\ p \notin A /\ p \in B => Cardinality(B) = Cardinality(A) + 1
<1>1. IsFiniteSet(A) /\ IsFiniteSet(B)
  BY RequestLogAssumption, FS_Subset
<1>2. Cardinality(A) \in Nat /\ Cardinality(B) \in Nat
  BY <1>1, FS_CardinalityType
<1>3. CASE (p \in A) = (p \in B)
  <2>1. A = B
    BY <1>3
  <2> QED
    BY <1>2, <1>3, <2>1
<1>4. CASE p \in A /\ p \notin B
  <2>1. B = A \ {p}
    BY <1>4
  <2> QED
    BY <1>1, <1>2, <1>4, <2>1, FS_RemoveElement
<1>5. CASE p \notin A /\ p \in B
  <2>1. B = A \cup {p}
    BY <1>5
  <2> QED
    BY <1>1, <1>2, <1>5, <2>1, FS_AddElement
<1> QED
  BY <1>3, <1>4, <1>5

\* Processes that are yet to log a request and those about to execute it are not
\* the same.
LEMMA Apart ==
  ASSUME NEW q, NEW t
  PROVE  /\ Cardinality(Processes) \in Nat
         /\ Cardinality(Before(q, t)) \in 0..Cardinality(Processes)
         /\ Cardinality(Unlogged(q, t)) \in Nat /\ Cardinality(Passed(q, t)) \in Nat
         /\ Cardinality(Unlogged(q, t)) + Cardinality(Passed(q, t)) <= Cardinality(Processes)
<1> DEFINE b == Before(q, t)
           u == Unlogged(q, t)
           n == Passed(q, t)
<1>1. IsFiniteSet(Processes)
  BY RequestLogAssumption
<1>2. /\ b \subseteq Processes /\ u \subseteq Processes /\ n \subseteq Processes
      /\ u \cap n = {} /\ u \cup n \subseteq Processes
  BY DEF Before, Unlogged, Passed
<1> HIDE DEF b, u, n
<1>3. IsFiniteSet(b) /\ IsFiniteSet(u) /\ IsFiniteSet(n)
  BY <1>1, <1>2, FS_Subset
<1>4. Cardinality(u \cup n) = Cardinality(u) + Cardinality(n) - Cardinality(u \cap n)
  BY <1>3, FS_Union
<1>5. Cardinality(u \cap n) = 0
  BY <1>2, FS_EmptySet
<1>6. /\ Cardinality(b) <= Cardinality(Processes)
      /\ Cardinality(u \cup n) <= Cardinality(Processes)
  BY <1>1, <1>2, FS_Subset
<1>7. /\ Cardinality(Processes) \in Nat /\ Cardinality(b) \in Nat
      /\ Cardinality(u) \in Nat /\ Cardinality(n) \in Nat
  BY <1>1, <1>3, FS_CardinalityType
<1>8. /\ Cardinality(b) \in 0..Cardinality(Processes)
      /\ Cardinality(u) + Cardinality(n) <= Cardinality(Processes)
  BY <1>4, <1>5, <1>6, <1>7
<1> QED
  BY <1>7, <1>8 DEF b, u, n
----------------------------------------------------------------------------
\* Slack counts, and grows by the number of processes.
LEMMA SlackGrows ==
  ASSUME Typed
  PROVE  /\ Slack \in Nat
         /\ forgotten' = forgotten => Slack' = Slack
         /\ forgotten' = forgotten + 1 => Slack' = Slack + Cardinality(Processes)
<1>1. Cardinality(Processes) \in Nat /\ forgotten \in Nat
  BY RequestLogAssumption, FS_CardinalityType DEF Typed
<1>2. \A m, k \in Nat : m * k \in Nat /\ (m + 1) * k = m * k + k
  OBVIOUS
<1> QED
  BY <1>1, <1>2 DEF Slack

\* What one process does to the three sets.
OthersStay(p) ==
  \A o \in Processes \ {p} :
    pc'[o] = pc[o] /\ request'[o] = request[o] /\ arrived'[o] = arrived[o] /\ seen'[o] = seen[o]

LEMMA Changes ==
  ASSUME NEW p \in Processes, OthersStay(p), NEW q, NEW t
  PROVE  /\ Before(q, t) \in SUBSET Processes /\ Before(q, t)' \in SUBSET Processes
         /\ Before(q, t) \ {p} = Before(q, t)' \ {p}
         /\ Unlogged(q, t) \in SUBSET Processes /\ Unlogged(q, t)' \in SUBSET Processes
         /\ Unlogged(q, t) \ {p} = Unlogged(q, t)' \ {p}
         /\ Passed(q, t) \in SUBSET Processes /\ Passed(q, t)' \in SUBSET Processes
         /\ Passed(q, t) \ {p} = Passed(q, t)' \ {p}
<1>1. /\ Before(q, t) \ {p} = Before(q, t)' \ {p}
      /\ Before(q, t) \in SUBSET Processes /\ Before(q, t)' \in SUBSET Processes
  BY DEF OthersStay, Before
<1>2. /\ Unlogged(q, t) \ {p} = Unlogged(q, t)' \ {p}
      /\ Unlogged(q, t) \in SUBSET Processes /\ Unlogged(q, t)' \in SUBSET Processes
  BY DEF OthersStay, Unlogged
<1>3. /\ Passed(q, t) \ {p} = Passed(q, t)' \ {p}
      /\ Passed(q, t) \in SUBSET Processes /\ Passed(q, t)' \in SUBSET Processes
  BY DEF OthersStay, Passed
<1> QED
  BY <1>1, <1>2, <1>3

\* A process that only moves on.
GoesTo(p, to) ==
  /\ pc' = [pc EXCEPT ![p] = to]
  /\ UNCHANGED <<request, arrived>>

LEMMA Steps ==
  ASSUME NEW p \in Processes, Typed
  PROVE  /\ Finish(p) => /\ pc'[p] = "idle" /\ request'[p] = NoRequest
                         /\ OthersStay(p)
                         /\ pc' \in [Processes -> PCs]
                         /\ request' \in [Processes -> Requests \cup {NoRequest}]
                         /\ arrived' \in [Processes -> 0..MaxTime]
                         /\ seen' \in [Processes -> 0..MaxTime]
         /\ \A to \in PCs : GoesTo(p, to) =>
              pc'[p] = to /\ pc' \in [Processes -> PCs]
              /\ (UNCHANGED seen => OthersStay(p))
<1>1. 0 \in 0..MaxTime
  BY RequestLogAssumption
<1> QED
  BY <1>1 DEF Finish, GoesTo, OthersStay, Typed, PCs
----------------------------------------------------------------------------
LEMMA TypedStep ==
  ASSUME Typed, InTime, [Next]_vars
  PROVE  Typed'
<1> USE DEF serving, keys
<1>1. ASSUME NEW p \in Processes, LogRequest(p), request[p] \in Requests, arrived[p] \in Times
      PROVE  log' \subseteq Rows /\ faults' \in Nat /\ faults' >= faults
  <2>1. Row(p) \in Rows
    BY <1>1, RequestLogAssumption DEF Row, Rows
  <2> QED
    BY <1>1, <2>1 DEF LogRequest, Logged, Typed
<1>2. ASSUME NEW p \in Processes, Serve(p)
      PROVE  Typed'
  <2>1. UNCHANGED <<now, forgotten>>
    BY <1>2 DEF Serve, Accept, ReadContent, GetKey, FindLastRequest, WrongSignature,
          Execute, Log, CutShort
  <2>2. pc[p] # "idle" => request[p] \in Requests /\ arrived[p] \in Times
    BY DEF InTime, Typed, Times
  <2>3. now \in 0..MaxTime /\ MaxTime \in Nat
    BY RequestLogAssumption DEF Typed, Times
  <2>4. /\ pc' \in [Processes -> PCs] /\ request' \in [Processes -> Requests \cup {NoRequest}]
        /\ arrived' \in [Processes -> 0..MaxTime] /\ seen' \in [Processes -> 0..MaxTime]
    <3>1. CASE Finish(p)
      BY <3>1, Steps
    <3>2. CASE ~Finish(p)
      BY <1>2, <2>3, <3>2
         DEF Serve, Accept, ReadContent, GetKey, FindLastRequest, WrongSignature,
          Execute, Log, CutShort, Typed, PCs
    <3> QED
      BY <3>1, <3>2
  <2>5. log' \subseteq Rows /\ faults' \in Nat
    <3>1. CASE LogRequest(p) /\ pc[p] # "idle"
      BY <1>1, <2>2, <3>1
    <3>2. CASE UNCHANGED log /\ (UNCHANGED faults \/ faults' = faults + 1)
      BY <3>2 DEF Typed
    <3> QED
      BY <1>2, <3>1, <3>2
         DEF Serve, Accept, ReadContent, GetKey, FindLastRequest, WrongSignature,
          Execute, Log, CutShort
  <2>6. executed' \in [Requests -> [Times -> Nat]]
    <3>1. CASE Execute(p)
      <4> DEFINE e == [t \in 1..MaxTime |-> IF t <= seen[p] /\ seen[p] < t + Minute
                          THEN executed[request[p]][t] + 1 ELSE executed[request[p]][t]]
      <4>1. request[p] \in Requests
        BY <2>2, <3>1 DEF Execute
      <4>2. e \in [Times -> Nat]
        <5>1. executed[request[p]] \in [Times -> Nat]
          BY <4>1 DEF Typed
        <5>2. \A t \in Times : executed[request[p]][t] \in Nat /\ executed[request[p]][t] + 1 \in Nat
          BY <5>1
        <5> QED
          BY <5>2 DEF Times
      <4>3. executed' = [executed EXCEPT ![request[p]] = e]
        BY <3>1 DEF Execute
      <4> HIDE DEF e
      <4> QED
        BY <4>1, <4>2, <4>3 DEF Typed
    <3> QED
      BY <1>2, <3>1 DEF Serve, Accept, ReadContent, GetKey, FindLastRequest, WrongSignature, Log,
                         CutShort, Typed
  <2> QED
    BY <2>1, <2>4, <2>5, <2>6 DEF Typed
<1>3. CASE Tick
  <2>1. now' \in Times
    BY <1>3, RequestLogAssumption DEF Tick, Typed, Times
  <2> QED
    BY <1>3, <2>1 DEF Tick, Typed
<1>4. ASSUME NEW k \in Keys, CreateKey(k) \/ DeleteKey(k) \/ DeleteUsage(k)
      PROVE  Typed'
  <2>1. UNCHANGED <<now, pc, serving, faults, executed>> /\ log' \subseteq log
    BY <1>4 DEF CreateKey, DeleteKey, DeleteUsage
  <2>2. forgotten' \in Nat
    BY <1>4 DEF CreateKey, DeleteKey, DeleteUsage, Typed
  <2> QED
    BY <2>1, <2>2 DEF Typed
<1>5. CASE UNCHANGED vars
  BY <1>5 DEF vars, Typed
<1> QED
  BY <1>2, <1>3, <1>4, <1>5 DEF Next

LEMMA InTimeStep ==
  ASSUME Typed, InTime, [Next]_vars
  PROVE  InTime'
<1> USE DEF serving, keys
<1>1. ASSUME NEW p \in Processes, Serve(p)
      PROVE  InTime'
  <2>1. UNCHANGED now /\ now \in Nat \ {0}
    BY <1>1, RequestLogAssumption
       DEF Serve, Accept, ReadContent, GetKey, FindLastRequest, WrongSignature,
          Execute, Log, CutShort, Typed, Times
  <2>2. OthersStay(p)
    <3>1. CASE Finish(p)
      BY <3>1, Steps
    <3>2. CASE ~Finish(p)
      BY <1>1, <3>2 DEF Serve, Accept, ReadContent, GetKey, FindLastRequest, WrongSignature,
          Execute, Log, CutShort,
                        Typed, OthersStay
    <3> QED
      BY <3>1, <3>2
  <2>3. /\ pc'[p] # "idle" => request'[p] \in Requests /\ arrived'[p] \in 1..now
        /\ pc'[p] \in {"key", "search", "execute", "log"} => seen'[p] \in arrived'[p]..now
    <3>1. CASE Finish(p)
      BY <3>1, Steps
    <3>2. CASE Accept(p)
      BY <2>1, <3>2 DEF Accept, Typed
    <3>3. CASE ~Finish(p) /\ ReadContent(p)
      BY <2>1, <3>3 DEF ReadContent, Typed, InTime
    <3>4. CASE ~Finish(p) /\ (GetKey(p) \/ FindLastRequest(p) \/ Execute(p))
      BY <3>4 DEF GetKey, FindLastRequest, Execute, Typed, InTime
    <3> QED
      BY <1>1, <3>1, <3>2, <3>3, <3>4 DEF Serve, WrongSignature, Log, CutShort
  <2>4. log' \subseteq log \cup {Row(p)} /\ (pc[p] # "idle" \/ log' = log)
    BY <1>1 DEF Serve, Accept, ReadContent, GetKey, FindLastRequest, WrongSignature,
          Execute, Log, CutShort,
                LogRequest, Logged
  <2>5. pc[p] # "idle" => Row(p).number = KeyNumber[KeyOf[Row(p).hash]] /\ Row(p).time <= now
    BY <2>1 DEF Row, InTime
  <2>6. \A row \in log' : row.number = KeyNumber[KeyOf[row.hash]] /\ row.time <= now
    BY <2>4, <2>5 DEF InTime
  <2>7. \A o \in Processes \ {p} :
          /\ pc'[o] # "idle" => request'[o] \in Requests /\ arrived'[o] \in 1..now
          /\ pc'[o] \in {"key", "search", "execute", "log"} => seen'[o] \in arrived'[o]..now
    BY <2>2 DEF OthersStay, InTime
  <2> QED
    BY <2>1, <2>3, <2>6, <2>7 DEF InTime
<1>2. CASE Tick
  <2>1. now' = now + 1 /\ UNCHANGED <<pc, serving, log>> /\ now \in Nat
    BY <1>2 DEF Tick, Typed, Times
  <2>2. \A row \in log : row.time \in Nat /\ row.time <= now
    BY DEF Typed, Rows, Times, InTime
  <2>3. \A p \in Processes : arrived[p] \in Nat /\ seen[p] \in Nat
    BY DEF Typed
  <2> QED
    BY <2>1, <2>2, <2>3 DEF InTime
<1>3. ASSUME NEW k \in Keys, CreateKey(k) \/ DeleteKey(k) \/ DeleteUsage(k)
      PROVE  InTime'
  <2>1. UNCHANGED <<now, pc, serving>> /\ log' \subseteq log
    BY <1>3 DEF CreateKey, DeleteKey, DeleteUsage
  <2> QED
    BY <2>1 DEF InTime
<1>4. CASE UNCHANGED vars
  BY <1>4 DEF vars, InTime
<1> QED
  BY <1>1, <1>2, <1>3, <1>4 DEF Next
----------------------------------------------------------------------------
\* A request that is refused, cut short or logged leaves its process.  One that
\* was executed leaves a row behind, or is one of those that failed.
LEMMA Leaves ==
  ASSUME Typed, InTime, NEW p \in Processes, NEW q \in Requests, NEW t \in Times,
         Allowance(q, t), pc[p] # "idle", Finish(p), UNCHANGED <<now, executed, forgotten>>,
         faults' \in Nat, faults' >= faults, log \subseteq log', log' \subseteq log \cup {Row(p)},
         pc[p] = "log" => faults' > faults \/ Row(p) \in log'
  PROVE  Allowance(q, t)'
<1> DEFINE b == Cardinality(Before(q, t))
           u == Cardinality(Unlogged(q, t))
           n == Cardinality(Passed(q, t))
           P == Cardinality(Processes)
<1>1. /\ p \notin Before(q, t)' /\ p \notin Unlogged(q, t)' /\ p \notin Passed(q, t)'
      /\ OthersStay(p)
  <2>1. pc'[p] = "idle" /\ OthersStay(p)
    BY Steps
  <2> QED
    BY <2>1 DEF Before, Unlogged, Passed
<1>2. b' \in Nat /\ u' \in Nat /\ n' \in Nat /\ b' <= b /\ n' <= n
  <2>1. b' \in Nat /\ (b' = b \/ b' = b - 1)
    BY <1>1, Changes, OneMore
  <2>2. u' \in Nat
    BY <1>1, Changes, OneMore
  <2>3. n' \in Nat /\ (n' = n \/ n' = n - 1)
    BY <1>1, Changes, OneMore
  <2>4. b \in Nat /\ n \in Nat
    BY Apart
  <2> HIDE DEF b, u, n
  <2> QED
    BY <2>1, <2>2, <2>3, <2>4
<1>3. /\ P \in Nat /\ b \in Nat /\ u \in Nat /\ n \in Nat /\ u + n <= P
      /\ faults \in Nat /\ executed[q][t] \in Nat
  BY Apart DEF Typed
<1>4. \/ u' = u
      \/ u' = u - 1 /\ (faults' > faults \/ Refused(q, t)')
  <2>1. CASE p \notin Unlogged(q, t)
    BY <1>1, <2>1, Changes, OneMore
  <2>2. CASE p \in Unlogged(q, t)
    <3>1. u' = u - 1
      BY <1>1, <2>2, Changes, OneMore
    <3>2. pc[p] = "log" /\ Row(p).hash = q /\ Row(p).time >= t
      BY <2>2 DEF Unlogged, Row
    <3> QED
      BY <3>1, <3>2 DEF Refused
  <2> QED
    BY <2>1, <2>2
<1>5. Refused(q, t) => Refused(q, t)'
  BY DEF Refused
<1> HIDE DEF b, u, n, P
<1>6. /\ now < t => executed[q][t] = 0
      /\ ~Refused(q, t) => executed[q][t] + b <= P + faults + Slack + u
      /\ Refused(q, t) => executed[q][t] + b + n <= 2 * P + faults + Slack
  BY DEF Allowance, b, u, n, P
<1>8. Slack \in Nat /\ Slack' = Slack
  BY SlackGrows
<1>7. /\ ~Refused(q, t)' => executed[q][t] + b' <= P + faults' + Slack' + u'
      /\ Refused(q, t)' => executed[q][t] + b' + n' <= 2 * P + faults' + Slack'
  BY <1>2, <1>3, <1>4, <1>5, <1>6, <1>8
<1> QED
  BY <1>6, <1>7 DEF Allowance, b, u, n, P

\* One that stays where it is, as far as a request and a minute are concerned.
LEMMA Stays ==
  ASSUME Typed, NEW p \in Processes, NEW q \in Requests, NEW t \in Times, Allowance(q, t),
         OthersStay(p),
         UNCHANGED <<now, log, forgotten>>, executed'[q][t] = executed[q][t],
         faults' \in Nat, faults' >= faults,
         (p \in Before(q, t)') = (p \in Before(q, t)),
         (p \in Unlogged(q, t)') = (p \in Unlogged(q, t)),
         p \in Passed(q, t)' => p \in Passed(q, t) \/ ~Refused(q, t) \/ faults' > faults
  PROVE  Allowance(q, t)'
<1> DEFINE b == Cardinality(Before(q, t))
           u == Cardinality(Unlogged(q, t))
           n == Cardinality(Passed(q, t))
<1>1. b' = b /\ b \in Nat
  BY Changes, OneMore
<1>2. u' = u /\ u \in Nat
  BY Changes, OneMore
<1>3. /\ n' \in Nat /\ n \in Nat
      /\ Refused(q, t) => n' = n \/ n' = n - 1 \/ (n' = n + 1 /\ faults' > faults)
  BY Changes, OneMore
<1>4. Refused(q, t)' = Refused(q, t)
  BY DEF Refused
<1>7. /\ Slack \in Nat /\ Slack' = Slack /\ Cardinality(Processes) \in Nat
      /\ executed[q][t] \in Nat /\ faults \in Nat
  BY SlackGrows, Apart DEF Typed
<1> HIDE DEF b, u, n
<1>5. /\ now' < t => executed'[q][t] = 0
      /\ ~Refused(q, t)' =>
           executed'[q][t] + b' <= Cardinality(Processes) + faults' + Slack' + u'
  <2>1. ~Refused(q, t) => executed[q][t] + b <= Cardinality(Processes) + faults + Slack + u
    BY DEF Allowance, b, u
  <2>2. now < t => executed[q][t] = 0
    BY DEF Allowance
  <2> QED
    BY <1>1, <1>2, <1>4, <1>7, <2>1, <2>2
<1>6. ASSUME Refused(q, t)'
      PROVE  executed'[q][t] + b' + n' <= 2 * Cardinality(Processes) + faults' + Slack'
  <2>1. executed[q][t] + b + n <= 2 * Cardinality(Processes) + faults + Slack
    BY <1>4, <1>6 DEF Allowance, b, n
  <2>2. n' = n \/ n' = n - 1 \/ (n' = n + 1 /\ faults' > faults)
    BY <1>3, <1>4, <1>6
  <2> QED
    BY <1>1, <1>3, <1>7, <2>1, <2>2
<1> QED
  BY <1>5, <1>6 DEF Allowance, b, u, n

LEMMA AcceptStep ==
  ASSUME Typed, InTime, NEW p \in Processes, NEW q \in Requests, NEW t \in Times,
         Allowance(q, t), Accept(p)
  PROVE  Allowance(q, t)'
<1>1. /\ pc[p] = "idle" /\ pc'[p] = "reading" /\ arrived'[p] = now /\ OthersStay(p)
      /\ UNCHANGED <<now, log, faults, forgotten, executed>>
  BY DEF Accept, Typed, OthersStay, keys
<1>2. CASE now < t
  <2>1. executed'[q][t] = 0
    BY <1>1, <1>2 DEF Allowance
  <2>2. ~Refused(q, t)'
    <3>1. \A row \in log : row.time \in Nat /\ row.time <= now /\ now \in Nat /\ t \in Nat
      BY DEF InTime, Typed, Rows, Times
    <3> QED
      BY <1>1, <1>2, <3>1 DEF Refused
  <2> DEFINE b == Cardinality(Before(q, t))
             u == Cardinality(Unlogged(q, t))
  <2>3. b' \in Nat /\ u' \in Nat /\ b' <= Cardinality(Processes) /\ Cardinality(Processes) \in Nat
    <3>1. IsFiniteSet(Processes) /\ Before(q, t)' \subseteq Processes
      BY <1>1, Changes, RequestLogAssumption
    <3>2. b' \in Nat /\ u' \in Nat
      BY <1>1, Changes, OneMore
    <3> QED
      BY <3>1, <3>2, FS_Subset, FS_CardinalityType
  <2>4. faults' \in Nat /\ Slack' \in Nat
    BY <1>1, SlackGrows DEF Typed
  <2> HIDE DEF b, u
  <2>5. 0 + b' <= Cardinality(Processes) + faults' + Slack' + u'
    BY <2>3, <2>4
  <2> QED
    BY <2>1, <2>2, <2>5 DEF Allowance, b, u
<1>3. CASE ~(now < t)
  <2>1. now \in Nat /\ t \in Nat
    BY DEF Typed, Times
  <2>2. /\ p \notin Before(q, t) /\ p \notin Before(q, t)'
        /\ p \notin Unlogged(q, t) /\ p \notin Unlogged(q, t)' /\ p \notin Passed(q, t)'
    BY <1>1, <1>3, <2>1 DEF Before, Unlogged, Passed
  <2> QED
    BY <1>1, <2>2, Stays DEF Typed
<1> QED
  BY <1>2, <1>3

\* The log is searched: a row of the minute refuses the request, if it was read
\* within the minute.
LEMMA SearchStep ==
  ASSUME Typed, InTime, NEW p \in Processes, NEW q \in Requests, NEW t \in Times,
         pc[p] = "search", ~TooSoon(p), request[p] = q, seen[p] < t + Minute
  PROVE  ~Refused(q, t)
<1> SUFFICES ASSUME NEW row \in log, row.hash = q, row.time >= t
             PROVE  FALSE
  BY DEF Refused
<1>1. /\ row.time \in Nat /\ t \in Nat \ {0} /\ seen[p] \in Nat /\ Minute \in Nat
  <2>1. row \in Rows /\ seen[p] \in 0..MaxTime
    BY DEF Typed
  <2>2. row.time \in Times
    BY <2>1 DEF Rows
  <2> QED
    BY <2>1, <2>2, RequestLogAssumption DEF Times
<1>2. row.time \in Issued(p)
  BY DEF Issued, Row, InTime
<1>3. Issued(p) \in SUBSET Times
  BY DEF Issued, Typed, Rows
<1>4. row.time <= LastRequestTime(p) /\ LastRequestTime(p) \in Nat
  BY <1>2, <1>3, Latest DEF LastRequestTime, Times
<1> QED
  BY <1>1, <1>4 DEF TooSoon

LEMMA ExecuteStep ==
  ASSUME Typed, InTime, NEW p \in Processes, NEW q \in Requests, NEW t \in Times,
         Allowance(q, t), Execute(p)
  PROVE  Allowance(q, t)'
<1> DEFINE b == Cardinality(Before(q, t))
           u == Cardinality(Unlogged(q, t))
           n == Cardinality(Passed(q, t))
           P == Cardinality(Processes)
<1>1. /\ pc[p] = "execute" /\ pc'[p] = "log" /\ OthersStay(p)
      /\ UNCHANGED <<now, request, arrived, seen, log, faults, forgotten>>
  BY DEF Execute, Typed, OthersStay, keys, serving
<1>2. /\ request[p] \in Requests /\ arrived[p] \in Nat /\ seen[p] \in Nat
      /\ arrived[p] <= seen[p] /\ seen[p] <= now /\ now \in Nat /\ t \in Nat /\ Minute \in Nat
  BY <1>1, RequestLogAssumption DEF InTime, Typed, Times
<1>3. executed'[q][t] = IF request[p] = q /\ t <= seen[p] /\ seen[p] < t + Minute
                        THEN executed[q][t] + 1 ELSE executed[q][t]
  BY <1>2 DEF Execute, Typed, Times
<1>4. CASE request[p] # q
  <2>1. /\ (p \in Before(q, t)') = (p \in Before(q, t))
        /\ (p \in Unlogged(q, t)') = (p \in Unlogged(q, t))
        /\ p \notin Passed(q, t)'
    BY <1>1, <1>4 DEF Before, Unlogged, Passed
  <2> QED
    BY <1>1, <1>3, <1>4, <2>1, Stays DEF Typed
<1>5. CASE request[p] = q
  <2>1. /\ p \notin Before(q, t)' /\ p \notin Passed(q, t)'
        /\ p \notin Unlogged(q, t)
        /\ IF arrived[p] < t
           THEN p \in Before(q, t) /\ p \notin Passed(q, t) /\ p \notin Unlogged(q, t)'
           ELSE /\ p \notin Before(q, t) /\ p \in Unlogged(q, t)'
                /\ (p \in Passed(q, t)) = (seen[p] < t + Minute)
    BY <1>1, <1>2, <1>5 DEF Before, Unlogged, Passed
  <2>2. /\ P \in Nat /\ b \in Nat /\ u \in Nat /\ n \in Nat
        /\ faults \in Nat /\ executed[q][t] \in Nat
    BY Apart DEF Typed
  <2>3. b' = IF arrived[p] < t THEN b - 1 ELSE b
    BY <1>1, <2>1, Changes, OneMore
  <2>4. u' = IF arrived[p] < t THEN u ELSE u + 1
    BY <1>1, <2>1, Changes, OneMore
  <2>5. n' = IF ~(arrived[p] < t) /\ seen[p] < t + Minute THEN n - 1 ELSE n
    BY <1>1, <2>1, Changes, OneMore
  <2>6. Refused(q, t)' = Refused(q, t)
    BY <1>1 DEF Refused
  <2>7. now < t => executed'[q][t] = 0
    BY <1>2, <1>3 DEF Allowance
  <2> HIDE DEF b, u, n, P
  <2>8. /\ ~Refused(q, t) => executed[q][t] + b <= P + faults + Slack + u
        /\ Refused(q, t) => executed[q][t] + b + n <= 2 * P + faults + Slack
    BY DEF Allowance, b, u, n, P
  <2>10. Slack \in Nat /\ Slack' = Slack
    BY <1>1, SlackGrows
  <2>9. /\ ~Refused(q, t) => executed'[q][t] + b' <= P + faults + Slack' + u'
        /\ Refused(q, t) => executed'[q][t] + b' + n' <= 2 * P + faults + Slack'
    BY <1>2, <1>3, <1>5, <2>2, <2>3, <2>4, <2>5, <2>8, <2>10
  <2> QED
    BY <1>1, <2>6, <2>7, <2>9 DEF Allowance, b, u, n, P
<1> QED
  BY <1>4, <1>5

\* One that moves on without being executed.
LEMMA MoveStep ==
  ASSUME Typed, InTime, NEW p \in Processes, NEW q \in Requests, NEW t \in Times,
         Allowance(q, t), ~Finish(p), ReadContent(p) \/ GetKey(p) \/ FindLastRequest(p)
  PROVE  Allowance(q, t)'
<1>1. /\ OthersStay(p) /\ UNCHANGED <<now, request, arrived, log, forgotten, executed>>
      /\ faults \in Nat /\ faults' \in Nat /\ faults' >= faults
      /\ \/ pc[p] = "reading" /\ pc'[p] = "key"
         \/ pc[p] = "key" /\ pc'[p] = "search"
         \/ /\ pc[p] = "search" /\ pc'[p] = "execute" /\ UNCHANGED seen
            /\ ~TooSoon(p) \/ faults' > faults
  BY DEF ReadContent, GetKey, FindLastRequest, Typed, OthersStay, keys, serving
<1>2. /\ (p \in Before(q, t)') = (p \in Before(q, t))
      /\ (p \in Unlogged(q, t)') = (p \in Unlogged(q, t))
  BY <1>1 DEF Before, Unlogged
<1>3. p \in Passed(q, t)' => ~Refused(q, t) \/ faults' > faults
  <2> SUFFICES ASSUME p \in Passed(q, t)', ~(faults' > faults) PROVE ~Refused(q, t)
    OBVIOUS
  <2>1. pc'[p] = "execute" /\ request'[p] = q /\ seen'[p] < t + Minute
    BY DEF Passed
  <2>2. pc[p] = "search" /\ ~TooSoon(p) /\ request[p] = q /\ seen[p] < t + Minute
    BY <1>1, <2>1
  <2> QED
    BY <2>2, SearchStep
<1> QED
  BY <1>1, <1>2, <1>3, Stays

LEMMA ServeStep ==
  ASSUME Typed, InTime, NEW p \in Processes, NEW q \in Requests, NEW t \in Times,
         Allowance(q, t), Serve(p), Typed'
  PROVE  Allowance(q, t)'
<1> USE DEF serving, keys
<1>1. CASE Accept(p)
  BY <1>1, AcceptStep
<1>2. CASE Execute(p)
  BY <1>2, ExecuteStep
<1>3. CASE ~Finish(p) /\ (ReadContent(p) \/ GetKey(p) \/ FindLastRequest(p))
  BY <1>3, MoveStep
<1>4. CASE Finish(p) /\ ~Accept(p) /\ ~Execute(p)
  <2>1. pc[p] # "idle" /\ UNCHANGED <<now, executed, forgotten>>
    BY <1>4 DEF Serve, ReadContent, GetKey, FindLastRequest, WrongSignature, Log, CutShort
  <2>2. faults \in Nat /\ faults' \in Nat
    BY DEF Typed
  <2>3. /\ faults' >= faults /\ log \subseteq log' /\ log' \subseteq log \cup {Row(p)}
        /\ pc[p] = "log" => faults' > faults \/ Row(p) \in log'
    <3>1. CASE LogRequest(p)
      BY <2>2, <3>1 DEF LogRequest, Logged
    <3>2. CASE ~LogRequest(p)
      BY <1>4, <2>2, <3>2 DEF Serve, ReadContent, GetKey, FindLastRequest, WrongSignature, Log, CutShort
    <3> QED
      BY <3>1, <3>2
  <2> QED
    BY <1>4, <2>1, <2>2, <2>3, Leaves
<1> QED
  BY <1>1, <1>2, <1>3, <1>4 DEF Serve, WrongSignature, Log, CutShort

LEMMA BoundedStep ==
  ASSUME Typed, InTime, Bounded, [Next]_vars, Typed'
  PROVE  Bounded'
<1> USE DEF serving, keys
<1> SUFFICES ASSUME NEW q \in Requests, NEW t \in Times
             PROVE  Allowance(q, t)'
  BY DEF Bounded
<1>1. Allowance(q, t)
  BY DEF Bounded
<1>2. ASSUME NEW p \in Processes, Serve(p)
      PROVE  Allowance(q, t)'
  BY <1>1, <1>2, ServeStep
<1>3. ASSUME UNCHANGED <<pc, serving, faults, executed>>, log' \subseteq log,
             forgotten' = forgotten + 1 \/ (UNCHANGED <<log, forgotten>>),
             now' = now \/ now' = now + 1
      PROVE  Allowance(q, t)'
  <2> DEFINE b == Cardinality(Before(q, t))
             u == Cardinality(Unlogged(q, t))
             n == Cardinality(Passed(q, t))
             P == Cardinality(Processes)
  <2>1. b' = b /\ u' = u /\ n' = n
    BY <1>3 DEF Before, Unlogged, Passed
  <2>2. now' < t => now < t
    BY <1>3 DEF Typed, Times
  <2>3. Refused(q, t)' => Refused(q, t)
    BY <1>3 DEF Refused
  <2>4. P \in Nat /\ b \in Nat /\ u \in Nat /\ n \in Nat /\ Slack \in Nat
        /\ faults \in Nat /\ executed[q][t] \in Nat
    BY Apart, SlackGrows DEF Typed
  <2>5. \/ Slack' = Slack + P
        \/ Slack' = Slack /\ (Refused(q, t)' = Refused(q, t))
    BY <1>3, SlackGrows DEF Refused
  <2> HIDE DEF b, u, n, P
  <2>6. /\ now < t => executed[q][t] = 0
        /\ ~Refused(q, t) => executed[q][t] + b <= P + faults + Slack + u
        /\ Refused(q, t) => executed[q][t] + b + n <= 2 * P + faults + Slack
    BY <1>1 DEF Allowance, b, u, n, P
  <2>7. /\ now' < t => executed'[q][t] = 0
        /\ ~Refused(q, t)' => executed'[q][t] + b' <= P + faults' + Slack' + u'
        /\ Refused(q, t)' => executed'[q][t] + b' + n' <= 2 * P + faults' + Slack'
    BY <1>3, <2>1, <2>2, <2>3, <2>4, <2>5, <2>6
  <2> QED
    BY <2>7 DEF Allowance, b, u, n, P
<1>4. CASE Tick
  BY <1>3, <1>4 DEF Tick
<1>5. ASSUME NEW k \in Keys, CreateKey(k) \/ DeleteKey(k) \/ DeleteUsage(k)
      PROVE  Allowance(q, t)'
  BY <1>3, <1>5 DEF CreateKey, DeleteKey, DeleteUsage, Typed
<1>6. CASE UNCHANGED vars
  BY <1>3, <1>6 DEF vars
<1> QED
  BY <1>2, <1>4, <1>5, <1>6 DEF Next
----------------------------------------------------------------------------
\* The invariant that the bound rests on.
THEOREM Invariance == Spec => []IInv
<1>1. Init => IInv
  <2> SUFFICES ASSUME Init PROVE IInv
    OBVIOUS
  <2>1. 1 \in Times /\ 0 \in 0..MaxTime /\ MaxTime \in Nat
    BY RequestLogAssumption DEF Times
  <2>2. executed = [q \in Requests |-> [t \in Times |-> 0]]
    BY DEF Init, Times
  <2>3. Typed
    BY <2>1, <2>2 DEF Init, Typed, PCs
  <2>4. InTime
    BY DEF Init, InTime
  <2>5. ASSUME NEW q \in Requests, NEW t \in Times
        PROVE  Allowance(q, t)
    <3>1. executed[q][t] = 0
      BY <2>2
    <3>2. faults = 0 /\ ~Refused(q, t)
      BY DEF Init, Refused
    <3>5. Slack \in Nat
      BY <2>3, SlackGrows
    <3>3. Before(q, t) = {}
      BY DEF Init, Before
    <3>4. Cardinality(Before(q, t)) = 0
      BY <3>3, FS_EmptySet
    <3> QED
      BY <3>1, <3>2, <3>4, <3>5, Apart DEF Allowance
  <2> QED
    BY <2>3, <2>4, <2>5 DEF IInv, Bounded
<1>2. IInv /\ [Next]_vars => IInv'
  BY TypedStep, InTimeStep, BoundedStep DEF IInv
<1> QED
  BY <1>1, <1>2, PTL DEF Spec

\* However many processes serve it and however often it is sent, a request is
\* executed at most twice per process in any minute, and once more for each row
\* that the log has lost, SELECT that failed or request that was cut short, and
\* once more per process for each deletion of a key that took rows:
\* findLastRequestTime() sees the row of the first request of the minute that
\* logRequest() wrote.
THEOREM AtMostTwicePerProcess == Spec => []FewPerMinute
<1>1. IInv => FewPerMinute
  <2> SUFFICES ASSUME IInv, NEW q \in Requests, NEW t \in Times
               PROVE  executed[q][t] <= (2 + forgotten) * Cardinality(Processes) + faults
    BY DEF FewPerMinute, Times
  <2>1. /\ Allowance(q, t) /\ executed[q][t] \in Nat /\ faults \in Nat
        /\ forgotten \in Nat /\ Slack \in Nat
    BY SlackGrows DEF IInv, Bounded, Typed
  <2>2. executed[q][t] <= 2 * Cardinality(Processes) + faults + Slack
    BY <2>1, Apart DEF Allowance
  <2>4. Cardinality(Processes) \in Nat
    BY Apart
  <2>3. (2 + forgotten) * Cardinality(Processes) = 2 * Cardinality(Processes) + Slack
    <3>1. \A m, k \in Nat : (2 + m) * k = 2 * k + m * k
      OBVIOUS
    <3> QED
      BY <2>1, <2>4, <3>1 DEF Slack
  <2> QED
    BY <2>1, <2>2, <2>3, <2>4
<1> QED
  BY <1>1, Invariance, PTL
=============================================================================
