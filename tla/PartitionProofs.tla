-------------------------- MODULE PartitionProofs --------------------------
(***************************************************************************)
(* Theorems about the slaves of a campaign (module Partition), for any     *)
(* number of slaves, recipients and domains, any batch size, and as many   *)
(* restarts as wanted: slaves that were given the same rows email nobody   *)
(* twice, a relay aside, and leave nobody out.                             *)
(*                                                                         *)
(* Both come from one invariant.  Without a relay the domains of a slave   *)
(* are rows that are its own, and only its own: what a slave holds in a    *)
(* batch is waiting, for nobody else may send it.  And a domain that still *)
(* has recipients waiting is a row of each listing, so it is the turn of   *)
(* one slave: it was not started, has the domain in its map or serves it.  *)
(***************************************************************************)
EXTENDS Partition, TLAPS, FiniteSetTheorems, WellFoundedInduction

(***************************************************************************)
(* Rows and offsets.                                                       *)
(***************************************************************************)
LEMMA Division ==
  ASSUME NEW a \in Nat, NEW c \in Nat, c > 0
  PROVE  /\ a \div c \in Nat
         /\ a % c \in 0..(c - 1)
         /\ a = (c * (a \div c)) + (a % c)
<1>1. a \div c \in Nat
  OBVIOUS
<1>2. a % c \in 0..(c - 1)
  OBVIOUS
<1>3. a = (c * (a \div c)) + (a % c)
  OBVIOUS
<1> QED
  BY <1>1, <1>2, <1>3

LEMMA Remainder ==
  ASSUME NEW q \in Nat, NEW r \in Nat, NEW c \in Nat, r < c
  PROVE  ((c * q) + r) % c = r
OBVIOUS

\* Every row is at the offset of one slave,
LEMMA RowHasSlave ==
  ASSUME NEW k \in Nat, k > 0
  PROVE  \E s \in Slaves : GoodDomain(s, k)
<1>1. Count \in Nat /\ Count > 0
  BY PartitionAssumption
<1>2. PICK n \in Nat : n = k - 1
  OBVIOUS
<1>3. PICK q \in Nat, s \in 0..(Count - 1) : n = (Count * q) + s
  BY <1>1, Division
<1>4. (n - s) % Count = 0
  <2>1. n - s = (Count * q) + 0
    BY <1>1, <1>3
  <2> QED
    BY <1>1, <2>1, Remainder
<1>5. n >= s
  <2>1. Count * q \in Nat
    BY <1>1
  <2> QED
    BY <1>1, <1>3, <2>1
<1> QED
  BY <1>2, <1>4, <1>5 DEF GoodDomain, Slaves

\* and of no other.
LEMMA OneSlavePerRow ==
  ASSUME NEW k \in Nat, k > 0, NEW s \in Slaves, NEW t \in Slaves,
         GoodDomain(s, k), GoodDomain(t, k)
  PROVE  s = t
<1>1. Count \in Nat /\ Count > 0
  BY PartitionAssumption
<1>2. PICK n \in Nat : n = k - 1
  OBVIOUS
<1>3. ASSUME NEW u \in Slaves, GoodDomain(u, k)
      PROVE  n % Count = u
  <2>1. u \in Nat /\ u < Count
    BY <1>1 DEF Slaves
  <2>2. n - u \in Nat /\ (n - u) % Count = 0
    BY <1>2, <1>3, <2>1 DEF GoodDomain
  <2>3. PICK q \in Nat : n - u = (Count * q) + 0
    BY <1>1, <2>2, Division
  <2>4. n = (Count * q) + u
    <3>1. Count * q \in Nat
      BY <1>1
    <3> QED
      BY <2>1, <2>3, <3>1
  <2> QED
    BY <1>1, <2>1, <2>4, Remainder
<1> QED
  BY <1>3

(***************************************************************************)
(* What the database answers with.                                         *)
(***************************************************************************)

\* The rows of an answer are distinct, and every domain that has recipients
\* waiting is one of them.
LEMMA RowsAnswer ==
  ASSUME waiting \subseteq Recipients, NEW rows \in Rows
  PROVE  /\ \E n \in Nat : DOMAIN rows = 1..n
         /\ \A i, j \in DOMAIN rows : rows[i] = rows[j] => i = j
         /\ \A r \in waiting : \E k \in DOMAIN rows : rows[k] = DomainOf[r]
<1> DEFINE S == {DomainOf[r] : r \in waiting}
           n == Cardinality(S)
<1>1. IsFiniteSet(S)
  <2> DEFINE f == [r \in waiting |-> DomainOf[r]]
  <2>1. IsFiniteSet(waiting)
    BY PartitionAssumption, FS_Subset
  <2>2. f \in Surjection(waiting, S)
    BY DEF Surjection
  <2> QED
    BY <2>1, <2>2, FS_Surjection
<1>2. n \in Nat
  BY <1>1, FS_CardinalityType
<1>3. rows \in [1..n -> S] /\ \A i, j \in 1..n : i # j => rows[i] # rows[j]
  BY DEF Rows, SetToSeqs
<1>4. ASSUME NEW r \in waiting, ~ \E k \in DOMAIN rows : rows[k] = DomainOf[r]
      PROVE  FALSE
  <2> DEFINE T == S \ {DomainOf[r]}
  <2>1. DomainOf[r] \in S
    OBVIOUS
  <2> HIDE DEF S
  <2>2. IsFiniteSet(T) /\ Cardinality(T) = n - 1
    BY <1>1, <2>1, FS_RemoveElement
  <2>3. IsFiniteSet(1..n) /\ Cardinality(1..n) = n
    BY <1>2, FS_Interval
  <2>4. rows \in [1..n -> T]
    BY <1>3, <1>4
  <2>5. Cardinality(T) < Cardinality(1..n)
    BY <1>2, <2>2, <2>3
  <2> HIDE DEF T
  <2>6. \E x, y \in 1..n : x # y /\ rows[x] = rows[y]
    BY <2>2, <2>3, <2>4, <2>5, FS_PigeonHole
  <2> QED
    BY <1>3, <2>6
<1> HIDE DEF n
<1> QED
  BY <1>2, <1>3, <1>4

\* A batch is empty only when nobody is asked for.
LEMMA FirstOfSome ==
  ASSUME NEW S \in SUBSET Recipients, FirstOf(S) = {}
  PROVE  S = {}
<1>1. SUFFICES ASSUME S # {} PROVE FALSE
  OBVIOUS
<1>2. S \subseteq Nat
  BY PartitionAssumption
<1>3. PICK r \in S : \A q \in S : ~ <<q, r>> \in OpToRel(<, Nat)
  BY <1>1, <1>2, NatLessThanWellFounded, WFMin
<1>4. \A q \in S : ~ (q < r)
  BY <1>2, <1>3 DEF OpToRel
<1>5. {q \in S : q < r} = {}
  BY <1>4
<1>6. Cardinality({q \in S : q < r}) < BatchSize
  BY <1>5, FS_EmptySet, PartitionAssumption
<1> QED
  BY <1>3, <1>6 DEF FirstOf

(***************************************************************************)
(* The inductive invariant.                                                *)
(***************************************************************************)
TypeInv ==
  /\ conf \in Configurations
  /\ waiting \subseteq Recipients
  /\ pc \in [Slaves -> {"start", "top", "fetch", "send", "exit"}]
  /\ map = [s \in Slaves |-> map[s]]
  /\ domain = [s \in Slaves |-> domain[s]]
  /\ batch \in [Slaves -> SUBSET Recipients]
  /\ times \in [Recipients -> Nat]
  /\ IsFiniteSet(listings)

\* Where a slave is, and what it holds there.
PhaseOf(s) ==
  /\ pc[s] = "start" \/ listings # {}
  /\ pc[s] \in {"fetch", "send"} <=> domain[s] # NoDomain
  /\ pc[s] = "send" \/ batch[s] = {}
  /\ pc[s] = "exit" => map[s] = {}
  /\ \A e \in map[s] : e.name # NoDomain
Phases == \A s \in Slaves : PhaseOf(s)

\* The rows of a listing are distinct, and have each domain that has still
\* recipients waiting.
Answers ==
  \A rows \in listings :
    /\ \E n \in Nat : DOMAIN rows = 1..n
    /\ \A i, j \in DOMAIN rows : rows[i] = rows[j] => i = j
    /\ \A r \in waiting : \E k \in DOMAIN rows : rows[k] = DomainOf[r]

\* Without a relay the domains of a slave are rows at its offset.
Owns(s, d, answers) ==
  \E rows \in answers : \E k \in DOMAIN rows : rows[k] = d /\ GoodDomain(s, k)
Owned ==
  conf.relay = NoDomain =>
    \A s \in Slaves : /\ \A e \in map[s] : Owns(s, e.name, listings)
                      /\ domain[s] # NoDomain => Owns(s, domain[s], listings)

\* What OnceEach says most of: one listing, and no relay for several slaves.
Apart ==
  /\ \A rows, others \in listings : rows = others
  /\ conf.relay = NoDomain \/ Count = 1

\* ServedBy() of a configuration.
Serves(c, d) ==
  IF c.internal # NoDomain /\ c.relay = d
    THEN {r \in Recipients : c.relay # c.internal => DomainOf[r] # c.internal}
    ELSE {r \in Recipients : DomainOf[r] = d}

\* A batch is waiting, on the domain it was fetched for,
Held ==
  Apart => \A s \in Slaves :
             batch[s] \subseteq waiting /\ batch[s] \subseteq Serves(conf, domain[s])
\* and nobody who is waiting was emailed.
Once ==
  Apart => \A r \in Recipients :
             times[r] <= 1 /\ (r \in waiting => times[r] = 0)

\* Whatever the listings, a slave fetches a recipient only before anyone has
\* emailed it, so no slave emails it again.
Holders(r) == {s \in Slaves : r \in batch[s]}
EachOnce ==
  \A r \in Recipients : /\ times[r] + Cardinality(Holders(r)) <= Count
                        /\ r \in waiting => times[r] = 0

\* The domains a slave is to serve, by the rows it was given.
Own(c, s, rows) ==
  {k \in Good(s, rows) : \/ c.relay = NoDomain
                         \/ rows[k] = c.internal /\ c.relay # c.internal}
Due(c, s, rows) ==
  {rows[k] : k \in Own(c, s, rows)} \cup {c.relay : i \in {c.relay} \ {NoDomain}}

\* A slave will serve a domain, or serves it, or it has nobody left.
Promised(phase, entries, current, left, d) ==
  \/ phase = "start"
  \/ \E e \in entries : e.name = d
  \/ current = d
  \/ left = {}

Turns ==
  \A rows \in listings : listings = {rows} =>
    \A s \in Slaves : \A d \in Due(conf, s, rows) :
      Promised(pc[s], map[s], domain[s], Serves(conf, d) \cap waiting, d)

IInv == TypeInv /\ Phases /\ Answers /\ Owned /\ Held /\ Once /\ EachOnce /\ Turns

LEMMA ServesRecipients ==
  \A d : /\ ServedBy(d) = Serves(conf, d)
         /\ Serves(conf, d) \subseteq Recipients
         /\ conf.relay = NoDomain /\ d # NoDomain =>
              Serves(conf, d) = {r \in Recipients : DomainOf[r] = d}
BY DEF ServedBy, Serves

\* What a slave puts in its map.
LEMMA TakenNames ==
  ASSUME NEW s \in Slaves, NEW rows
  PROVE  /\ \A e \in Taken(s, rows) : e.name \in Due(conf, s, rows)
         /\ \A d \in Due(conf, s, rows) : \E e \in Taken(s, rows) : e.name = d
<1> DEFINE kept == {i \in Good(s, rows) : KeepsName(rows[i])}
           total == MapThenSumSet(LAMBDA i : Number(rows[i]), Good(s, rows) \ kept)
           own == {Entry(rows[i], Number(rows[i]), i) : i \in kept}
           relay == IF conf.relay = NoDomain THEN {}
                    ELSE {Entry(conf.relay, total, Len(rows) + 1)}
<1>1. Taken(s, rows) = own \cup relay
  BY DEF Taken
<1>2. \A name, number, row : Entry(name, number, row).name = name
  BY DEF Entry
<1>3. kept = Own(conf, s, rows)
  BY DEF Own, KeepsName
<1> HIDE DEF total, kept
<1>4. ASSUME NEW e \in Taken(s, rows) PROVE e.name \in Due(conf, s, rows)
  <2>1. CASE e \in own
    <3>1. PICK i \in kept : e = Entry(rows[i], Number(rows[i]), i)
      BY <2>1
    <3> QED
      BY <1>2, <1>3, <3>1 DEF Due
  <2>2. CASE e \in relay
    <3>1. conf.relay # NoDomain /\ e = Entry(conf.relay, total, Len(rows) + 1)
      BY <2>2
    <3> QED
      BY <1>2, <3>1 DEF Due
  <2> QED
    BY <1>1, <1>4, <2>1, <2>2
<1>5. ASSUME NEW d \in Due(conf, s, rows) PROVE \E e \in Taken(s, rows) : e.name = d
  <2>1. CASE \E k \in Own(conf, s, rows) : d = rows[k]
    <3>1. PICK k \in kept : d = rows[k]
      BY <1>3, <2>1
    <3>2. Entry(rows[k], Number(rows[k]), k) \in own
      OBVIOUS
    <3> QED
      BY <1>1, <1>2, <3>1, <3>2
  <2>2. CASE conf.relay # NoDomain /\ d = conf.relay
    BY <1>1, <1>2, <2>2
  <2> QED
    BY <1>5, <2>1, <2>2 DEF Due
<1> QED
  BY <1>4, <1>5

LEMMA DueNames ==
  ASSUME NEW s \in Slaves, NEW rows, NEW d \in Due(conf, s, rows)
  PROVE  /\ d # NoDomain
         /\ conf.relay = NoDomain =>
              \E k \in DOMAIN rows : rows[k] = d /\ GoodDomain(s, k)
BY DEF Due, Own, Good

LEMMA HoldersFinite ==
  ASSUME NEW r
  PROVE  /\ IsFiniteSet(Holders(r)) /\ Cardinality(Holders(r)) \in Nat
         /\ Cardinality(Holders(r)) <= Count
<1>1. IsFiniteSet(Slaves) /\ Cardinality(Slaves) = Count
  <2>1. /\ IsFiniteSet(0..(Count - 1))
        /\ Cardinality(0..(Count - 1)) = IF 0 > Count - 1 THEN 0 ELSE (Count - 1) - 0 + 1
    BY PartitionAssumption, FS_Interval
  <2> QED
    BY <2>1, PartitionAssumption DEF Slaves
<1>2. Holders(r) \subseteq Slaves
  BY DEF Holders
<1> QED
  BY <1>1, <1>2, FS_Subset, FS_CardinalityType

LEMMA InitInv == Init => IInv
<1> SUFFICES ASSUME Init PROVE IInv
  OBVIOUS
<1>1. TypeInv
  BY FS_EmptySet DEF Init, TypeInv
<1>2. Phases
  BY DEF Init, Phases, PhaseOf
<1>3. Answers /\ Owned /\ Turns
  BY DEF Init, Answers, Owned, Turns
<1>4. Held /\ Once
  BY DEF Init, Held, Once
<1>5. EachOnce
  BY HoldersFinite DEF Init, EachOnce
<1> QED
  BY <1>1, <1>2, <1>3, <1>4, <1>5 DEF IInv

LEMMA TypeStep ==
  ASSUME TypeInv, [Next]_vars
  PROVE  TypeInv'
<1> USE DEF TypeInv
<1>1. ASSUME NEW s \in Slaves, List(s) PROVE TypeInv'
  <2>1. PICK rows \in Rows : /\ map' = [map EXCEPT ![s] = Taken(s, rows)]
                             /\ listings' = listings \cup {rows}
    BY <1>1 DEF List
  <2>2. IsFiniteSet(listings')
    BY <2>1, FS_AddElement
  <2>3. map' = [t \in Slaves |-> map'[t]]
    BY <2>1
  <2> QED
    BY <1>1, <2>2, <2>3 DEF List
<1>2. ASSUME NEW s \in Slaves, TopDomain(s) PROVE TypeInv'
  BY <1>2 DEF TopDomain
<1>3. ASSUME NEW s \in Slaves, Fetch(s) PROVE TypeInv'
  <2>1. FirstOf(Wanted(domain[s])) \subseteq Recipients
    BY DEF FirstOf, Wanted
  <2> QED
    BY <1>3, <2>1 DEF Fetch
<1>4. ASSUME NEW s \in Slaves, Send(s) PROVE TypeInv'
  BY <1>4 DEF Send
<1>5. ASSUME NEW s \in Slaves, Restart(s) PROVE TypeInv'
  BY <1>5 DEF Restart
<1>6. CASE UNCHANGED vars
  BY <1>6 DEF vars
<1> QED
  BY <1>1, <1>2, <1>3, <1>4, <1>5, <1>6 DEF Next

LEMMA PhasesStep ==
  ASSUME TypeInv, Phases, [Next]_vars
  PROVE  Phases'
<1> USE DEF TypeInv, Phases, PhaseOf
<1>1. ASSUME NEW s \in Slaves, List(s) PROVE Phases'
  <2>1. PICK rows \in Rows : /\ map' = [map EXCEPT ![s] = Taken(s, rows)]
                             /\ listings' = listings \cup {rows}
    BY <1>1 DEF List
  <2>2. \A e \in Taken(s, rows) : e.name # NoDomain
    BY TakenNames, DueNames
  <2> QED
    BY <1>1, <2>1, <2>2 DEF List
<1>2. ASSUME NEW s \in Slaves, TopDomain(s) PROVE Phases'
  BY <1>2 DEF TopDomain
<1>3. ASSUME NEW s \in Slaves, Fetch(s) PROVE Phases'
  BY <1>3 DEF Fetch
<1>4. ASSUME NEW s \in Slaves, Send(s) PROVE Phases'
  BY <1>4 DEF Send
<1>5. ASSUME NEW s \in Slaves, Restart(s) PROVE Phases'
  BY <1>5 DEF Restart
<1>6. CASE UNCHANGED vars
  BY <1>6 DEF vars
<1> QED
  BY <1>1, <1>2, <1>3, <1>4, <1>5, <1>6 DEF Next

\* Recipients do not start to wait again, and listings are not forgotten.
LEMMA Monotone ==
  ASSUME TypeInv, [Next]_vars
  PROVE  /\ waiting' \subseteq waiting /\ listings \subseteq listings'
         /\ conf' = conf
BY DEF Next, vars, List, TopDomain, Fetch, Send, Restart

LEMMA AnswersStep ==
  ASSUME TypeInv, Answers, [Next]_vars
  PROVE  Answers'
<1>1. waiting' \subseteq waiting
  BY Monotone
<1>2. ASSUME NEW s \in Slaves, List(s) PROVE Answers'
  <2>1. PICK rows \in Rows : listings' = listings \cup {rows}
    BY <1>2 DEF List
  <2>2. waiting \subseteq Recipients
    BY DEF TypeInv
  <2> QED
    BY <1>1, <2>1, <2>2, RowsAnswer DEF Answers
<1>3. CASE listings' = listings
  BY <1>1, <1>3 DEF Answers
<1> QED
  BY <1>2, <1>3 DEF Next, vars, TopDomain, Fetch, Send, Restart

LEMMA OwnedStep ==
  ASSUME TypeInv, Phases, Owned, [Next]_vars
  PROVE  Owned'
<1>1. SUFFICES ASSUME conf.relay = NoDomain, NEW s \in Slaves
               PROVE  /\ \A e \in map'[s] : Owns(s, e.name, listings')
                      /\ domain'[s] # NoDomain => Owns(s, domain'[s], listings')
  BY Monotone DEF Owned
<1>2. ASSUME NEW d, Owns(s, d, listings) PROVE Owns(s, d, listings')
  BY <1>2, Monotone DEF Owns
<1>3. /\ \A e \in map[s] : Owns(s, e.name, listings)
      /\ domain[s] # NoDomain => Owns(s, domain[s], listings)
  BY <1>1 DEF Owned
<1>4. CASE map'[s] \subseteq map[s] /\ domain'[s] \in {domain[s], NoDomain}
  BY <1>2, <1>3, <1>4
<1>5. CASE List(s)
  <2>1. PICK rows \in Rows : /\ map' = [map EXCEPT ![s] = Taken(s, rows)]
                             /\ listings' = listings \cup {rows}
    BY <1>5 DEF List
  <2>2. map'[s] = Taken(s, rows) /\ domain'[s] = domain[s]
    BY <1>5, <2>1 DEF List, TypeInv
  <2>3. \A e \in Taken(s, rows) : \E k \in DOMAIN rows : rows[k] = e.name /\ GoodDomain(s, k)
    BY <1>1, TakenNames, DueNames
  <2>4. \A e \in Taken(s, rows) : Owns(s, e.name, listings')
    BY <2>1, <2>3 DEF Owns
  <2> QED
    BY <1>2, <1>3, <2>2, <2>4
<1>6. CASE TopDomain(s)
  <2>1. \/ \E e \in map[s] : domain'[s] = e.name /\ map'[s] \subseteq map[s]
        \/ domain' = domain /\ map' = map
    BY <1>6 DEF TopDomain, TypeInv
  <2> QED
    BY <1>2, <1>3, <2>1
<1>7. ASSUME NEW t \in Slaves, t # s, List(t) \/ TopDomain(t)
      PROVE  map'[s] \subseteq map[s] /\ domain'[s] \in {domain[s], NoDomain}
  BY <1>7 DEF TypeInv, List, TopDomain
<1>8. ASSUME NEW t \in Slaves, Fetch(t) \/ Send(t) \/ Restart(t)
      PROVE  map'[s] \subseteq map[s] /\ domain'[s] \in {domain[s], NoDomain}
  BY <1>8 DEF TypeInv, Fetch, Send, Restart
<1>9. CASE UNCHANGED vars
  BY <1>4, <1>9 DEF vars
<1> QED
  BY <1>4, <1>5, <1>6, <1>7, <1>8, <1>9 DEF Next

\* Without a relay two slaves do not fetch the same recipients.
LEMMA Disjoint ==
  ASSUME TypeInv, Phases, Answers, Owned, Held, Apart,
         NEW s \in Slaves, NEW t \in Slaves, s # t
  PROVE  batch[s] \cap batch[t] = {}
<1>1. SUFFICES ASSUME NEW r \in batch[s] \cap batch[t] PROVE FALSE
  OBVIOUS
<1>2. conf.relay = NoDomain
  BY DEF Apart, Slaves
<1>3. domain[s] # NoDomain /\ domain[t] # NoDomain
  BY DEF Phases, PhaseOf
<1>4. DomainOf[r] = domain[s] /\ DomainOf[r] = domain[t]
  BY <1>2, <1>3, ServesRecipients DEF Held
<1>5. Owns(s, domain[s], listings) /\ Owns(t, domain[t], listings)
  BY <1>2, <1>3 DEF Owned
<1>6. PICK rows \in listings :
        \E k \in DOMAIN rows : rows[k] = domain[s] /\ GoodDomain(s, k)
  BY <1>5 DEF Owns
<1>7. PICK k \in DOMAIN rows : rows[k] = domain[s] /\ GoodDomain(s, k)
  BY <1>6
<1>8. PICK i \in DOMAIN rows : rows[i] = domain[t] /\ GoodDomain(t, i)
  BY <1>5 DEF Owns, Apart
<1>9. i = k /\ k \in Nat /\ k > 0
  BY <1>4, <1>7, <1>8 DEF Answers
<1> QED
  BY <1>7, <1>8, <1>9, OneSlavePerRow

LEMMA ApartBefore ==
  ASSUME TypeInv, [Next]_vars, Apart'
  PROVE  Apart
BY Monotone DEF Apart

LEMMA HeldStep ==
  ASSUME TypeInv, Phases, Answers, Owned, Held, [Next]_vars
  PROVE  Held'
<1>1. SUFFICES ASSUME Apart, NEW s \in Slaves
               PROVE  /\ batch'[s] \subseteq waiting'
                      /\ batch'[s] \subseteq Serves(conf', domain'[s])
  BY ApartBefore DEF Held
<1>2. batch[s] \subseteq waiting /\ batch[s] \subseteq Serves(conf, domain[s])
  BY <1>1 DEF Held
<1>3. conf' = conf
  BY Monotone
<1>4. CASE batch'[s] = {}
  BY <1>4
<1>5. CASE batch' = batch /\ waiting' = waiting /\ domain'[s] = domain[s]
  BY <1>2, <1>3, <1>5
<1>6. ASSUME NEW t \in Slaves, List(t) \/ TopDomain(t) \/ Restart(t)
      PROVE  batch'[s] = {} \/ (batch' = batch /\ waiting' = waiting /\ domain'[s] = domain[s])
  <2>1. pc[t] # "send" /\ batch' = batch /\ waiting' = waiting
    BY <1>6 DEF List, TopDomain, Restart
  <2>2. CASE t = s
    BY <2>1, <2>2 DEF Phases, PhaseOf
  <2>3. CASE t # s
    BY <1>6, <2>1, <2>3 DEF List, TopDomain, Restart, TypeInv
  <2> QED
    BY <2>2, <2>3
<1>7. CASE Fetch(s)
  <2> DEFINE found == FirstOf(Wanted(domain[s]))
  <2>1. found \subseteq waiting /\ found \subseteq Serves(conf, domain[s])
    BY ServesRecipients DEF FirstOf, Wanted
  <2>2. batch'[s] = found /\ waiting' = waiting
    BY <1>7 DEF Fetch, TypeInv
  <2>3. found = {} \/ domain' = domain
    BY <1>7 DEF Fetch
  <2> QED
    BY <1>3, <2>1, <2>2, <2>3
<1>8. CASE Send(s)
  BY <1>4, <1>8 DEF Send, TypeInv
<1>9. ASSUME NEW t \in Slaves, t # s, Fetch(t)
      PROVE  batch'[s] \subseteq waiting' /\ batch'[s] \subseteq Serves(conf', domain'[s])
  BY <1>2, <1>3, <1>9 DEF Fetch, TypeInv
<1>10. ASSUME NEW t \in Slaves, t # s, Send(t)
       PROVE  batch'[s] \subseteq waiting' /\ batch'[s] \subseteq Serves(conf', domain'[s])
  <2>1. batch[s] \cap batch[t] = {}
    BY <1>1, <1>10, Disjoint
  <2> QED
    BY <1>2, <1>3, <1>10, <2>1 DEF Send, TypeInv
<1>11. CASE UNCHANGED vars
  BY <1>5, <1>11 DEF vars
<1> QED
  BY <1>4, <1>5, <1>6, <1>7, <1>8, <1>9, <1>10, <1>11 DEF Next

LEMMA OnceStep ==
  ASSUME TypeInv, Held, Once, [Next]_vars
  PROVE  Once'
<1>1. SUFFICES ASSUME Apart, NEW r \in Recipients
               PROVE  times'[r] <= 1 /\ (r \in waiting' => times'[r] = 0)
  BY ApartBefore DEF Once
<1>2. times[r] <= 1 /\ (r \in waiting => times[r] = 0)
  BY <1>1 DEF Once
<1>3. ASSUME NEW s \in Slaves, Send(s)
      PROVE  times'[r] <= 1 /\ (r \in waiting' => times'[r] = 0)
  <2>1. batch[s] \subseteq waiting
    BY <1>1 DEF Held
  <2>2. times'[r] = IF r \in batch[s] THEN times[r] + 1 ELSE times[r]
    BY <1>3 DEF Send
  <2>3. waiting' = waiting \ batch[s]
    BY <1>3 DEF Send
  <2> QED
    BY <1>2, <2>1, <2>2, <2>3
<1>4. CASE times' = times /\ waiting' = waiting
  BY <1>2, <1>4
<1> QED
  BY <1>3, <1>4 DEF Next, vars, List, TopDomain, Fetch, Restart

LEMMA EachOnceStep ==
  ASSUME TypeInv, Phases, EachOnce, [Next]_vars
  PROVE  EachOnce'
<1>1. SUFFICES ASSUME NEW r \in Recipients
               PROVE  /\ times'[r] + Cardinality(Holders(r)') <= Count
                      /\ r \in waiting' => times'[r] = 0
  BY DEF EachOnce
<1>2. /\ times[r] + Cardinality(Holders(r)) <= Count /\ times[r] \in Nat
      /\ r \in waiting => times[r] = 0
  BY DEF EachOnce, TypeInv
<1>3. /\ IsFiniteSet(Holders(r)) /\ Cardinality(Holders(r)) \in Nat
      /\ Cardinality(Holders(r)) <= Count /\ Count \in Nat
  BY HoldersFinite, PartitionAssumption
<1>4. Cardinality(Holders(r)') \in Nat /\ Cardinality(Holders(r)') <= Count
  <2>1. IsFiniteSet(Slaves) /\ Cardinality(Slaves) = Count
    <3>1. /\ IsFiniteSet(0..(Count - 1))
          /\ Cardinality(0..(Count - 1)) = IF 0 > Count - 1 THEN 0 ELSE (Count - 1) - 0 + 1
      BY PartitionAssumption, FS_Interval
    <3> QED
      BY <3>1, PartitionAssumption DEF Slaves
  <2>2. Holders(r)' \subseteq Slaves
    BY DEF Holders
  <2> QED
    BY <2>1, <2>2, FS_Subset, FS_CardinalityType
<1>5. CASE batch' = batch /\ times' = times /\ waiting' = waiting
  <2>1. Holders(r)' = Holders(r)
    BY <1>5 DEF Holders
  <2> QED
    BY <1>2, <1>5, <2>1
<1>6. ASSUME NEW s \in Slaves, Fetch(s)
      PROVE  /\ times'[r] + Cardinality(Holders(r)') <= Count
             /\ r \in waiting' => times'[r] = 0
  <2>1. /\ times' = times /\ waiting' = waiting
        /\ batch' = [batch EXCEPT ![s] = FirstOf(Wanted(domain[s]))]
    BY <1>6 DEF Fetch
  <2>2. CASE r \in waiting
    BY <1>2, <1>3, <1>4, <2>1, <2>2
  <2>3. CASE r \notin waiting
    <3>1. Holders(r)' \subseteq Holders(r)
      BY <2>1, <2>3 DEF Holders, FirstOf, Wanted, TypeInv
    <3>2. Cardinality(Holders(r)') <= Cardinality(Holders(r))
      BY <1>3, <3>1, FS_Subset
    <3> QED
      BY <1>2, <1>3, <1>4, <2>1, <2>3, <3>2
  <2> QED
    BY <2>2, <2>3
<1>7. ASSUME NEW s \in Slaves, Send(s)
      PROVE  /\ times'[r] + Cardinality(Holders(r)') <= Count
             /\ r \in waiting' => times'[r] = 0
  <2>1. /\ times'[r] = IF r \in batch[s] THEN times[r] + 1 ELSE times[r]
        /\ waiting' = waiting \ batch[s]
        /\ batch' = [batch EXCEPT ![s] = {}]
    BY <1>7 DEF Send
  <2>2. Holders(r)' = Holders(r) \ {s}
    BY <2>1 DEF Holders, TypeInv
  <2>3. CASE r \in batch[s]
    <3>1. s \in Holders(r)
      BY <2>3 DEF Holders
    <3>2. Cardinality(Holders(r)') = Cardinality(Holders(r)) - 1
      BY <1>3, <2>2, <3>1, FS_RemoveElement
    <3> QED
      BY <1>2, <1>3, <2>1, <2>3, <3>2
  <2>4. CASE r \notin batch[s]
    <3>1. Holders(r)' = Holders(r)
      BY <2>2, <2>4 DEF Holders
    <3> QED
      BY <1>2, <2>1, <2>4, <3>1
  <2> QED
    BY <2>3, <2>4
<1> QED
  BY <1>5, <1>6, <1>7 DEF Next, vars, List, TopDomain, Restart

LEMMA TurnsStep ==
  ASSUME TypeInv, Phases, Turns, [Next]_vars
  PROVE  Turns'
<1>1. SUFFICES ASSUME NEW rows \in listings', listings' = {rows},
                      NEW s \in Slaves, NEW d \in Due(conf', s, rows)
               PROVE  Promised(pc'[s], map'[s], domain'[s], Serves(conf', d) \cap waiting', d)
  BY DEF Turns
<1>2. conf' = conf /\ waiting' \subseteq waiting /\ listings \subseteq listings'
  BY Monotone
<1>3. d \in Due(conf, s, rows) /\ d # NoDomain
  BY <1>1, <1>2, DueNames
<1>4. PhaseOf(s)
  BY DEF Phases
<1>5. CASE listings = {}
  <2>1. pc[s] = "start"
    BY <1>4, <1>5 DEF PhaseOf
  <2>2. CASE pc'[s] = "start"
    BY <2>2 DEF Promised
  <2>3. CASE pc'[s] # "start"
    <3>1. List(s)
      BY <2>1, <2>3 DEF Next, vars, List, TopDomain, Fetch, Send, Restart, TypeInv
    <3>2. PICK given \in Rows : /\ map' = [map EXCEPT ![s] = Taken(s, given)]
                                /\ listings' = listings \cup {given}
      BY <3>1 DEF List
    <3>3. given = rows /\ map'[s] = Taken(s, rows)
      BY <1>1, <3>2 DEF TypeInv
    <3> QED
      BY <1>3, <3>3, TakenNames DEF Promised
  <2> QED
    BY <2>2, <2>3
<1>6. CASE listings # {}
  <2>1. listings = {rows}
    BY <1>1, <1>2, <1>6
  <2>2. Promised(pc[s], map[s], domain[s], Serves(conf, d) \cap waiting, d)
    BY <1>3, <2>1 DEF Turns
  <2>3. Serves(conf, d) \cap waiting = {} => Serves(conf', d) \cap waiting' = {}
    BY <1>2
  <2>4. CASE pc'[s] = pc[s] /\ map'[s] = map[s] /\ domain'[s] = domain[s]
    BY <2>2, <2>3, <2>4 DEF Promised
  <2>5. CASE List(s)
    <3>1. PICK given \in Rows : /\ map' = [map EXCEPT ![s] = Taken(s, given)]
                                /\ listings' = listings \cup {given}
      BY <2>5 DEF List
    <3>2. given = rows /\ map'[s] = Taken(s, rows)
      BY <1>1, <3>1 DEF TypeInv
    <3> QED
      BY <1>3, <3>2, TakenNames DEF Promised
  <2>6. CASE TopDomain(s)
    <3>1. pc[s] = "top" /\ domain[s] = NoDomain
      BY <1>4, <2>6 DEF TopDomain, PhaseOf
    <3>2. (\E e \in map[s] : e.name = d) \/ Serves(conf, d) \cap waiting = {}
      BY <1>3, <2>2, <3>1 DEF Promised
    <3>3. \/ map[s] = {}
          \/ \E e \in map[s] : domain'[s] = e.name /\ map'[s] = map[s] \ {e}
      BY <2>6 DEF TopDomain, TypeInv
    <3> QED
      BY <2>3, <3>2, <3>3 DEF Promised
  <2>7. CASE Fetch(s)
    <3>1. pc[s] = "fetch" /\ map' = map
      BY <2>7 DEF Fetch
    <3>2. CASE domain' = domain
      BY <2>2, <2>3, <3>1, <3>2 DEF Promised
    <3>3. CASE domain' # domain
      <4>1. FirstOf(Wanted(domain[s])) = {}
        BY <2>7, <3>3 DEF Fetch
      <4>2. Wanted(domain[s]) \subseteq Recipients
        BY DEF Wanted, TypeInv
      <4>3. Serves(conf, domain[s]) \cap waiting = {}
        BY <4>1, <4>2, FirstOfSome, ServesRecipients DEF Wanted
      <4> QED
        BY <2>2, <2>3, <3>1, <4>3 DEF Promised
    <3> QED
      BY <3>2, <3>3
  <2>8. CASE Send(s)
    BY <2>2, <2>3, <2>8 DEF Send, Promised
  <2>9. CASE Restart(s)
    BY <2>9 DEF Restart, Promised, TypeInv
  <2>10. ASSUME NEW t \in Slaves, t # s,
                List(t) \/ TopDomain(t) \/ Fetch(t) \/ Send(t) \/ Restart(t)
         PROVE  pc'[s] = pc[s] /\ map'[s] = map[s] /\ domain'[s] = domain[s]
    BY <2>10 DEF List, TopDomain, Fetch, Send, Restart, TypeInv
  <2>11. CASE UNCHANGED vars
    BY <2>4, <2>11 DEF vars
  <2> QED
    BY <2>4, <2>5, <2>6, <2>7, <2>8, <2>9, <2>10, <2>11 DEF Next
<1> QED
  BY <1>5, <1>6

LEMMA Invariance == Spec => []IInv
<1>1. IInv /\ [Next]_vars => IInv'
  BY TypeStep, PhasesStep, AnswersStep, OwnedStep, HeldStep, OnceStep, EachOnceStep,
     TurnsStep DEF IInv
<1> QED
  BY InitInv, <1>1, PTL DEF Spec

(***************************************************************************)
(* The theorems.                                                           *)
(***************************************************************************)

\* Slaves that were given the same rows email nobody twice, whatever their number
\* and their order, when there is no relay.  With one, or with other rows, each
\* slave emails a recipient once at most.
THEOREM Apartness == Spec => []OnceEach
<1>1. ASSUME IInv, Cardinality(listings) <= 1, conf.relay = NoDomain
      PROVE  \A r \in Recipients : times[r] <= 1
  <2>1. IsFiniteSet(listings)
    BY <1>1 DEF IInv, TypeInv
  <2>2. Cardinality(listings) \in {0, 1}
    BY <1>1, <2>1, FS_CardinalityType
  <2>3. listings = {} \/ \E rows : listings = {rows}
    BY <2>1, <2>2, FS_EmptySet, FS_Singleton
  <2>4. Apart
    BY <1>1, <2>3 DEF Apart
  <2> QED
    BY <1>1, <2>4 DEF IInv, Once
<1>2. ASSUME IInv, NEW r \in Recipients PROVE times[r] <= Count
  <2>1. times[r] + Cardinality(Holders(r)) <= Count /\ times[r] \in Nat
    BY <1>2 DEF IInv, EachOnce, TypeInv
  <2> QED
    BY <2>1, HoldersFinite, PartitionAssumption
<1>3. IInv => OnceEach
  BY <1>1, <1>2 DEF OnceEach
<1> QED
  BY <1>3, Invariance, PTL

\* And when they have ended, they have left out nobody they could email.  A mail
\* relay has to have an internal domain beside it: without one, getRecipients()
\* asks for those on the relay's own domain only.
THEOREM Completeness ==
  ASSUME \A c \in Configurations : c.relay # NoDomain => c.internal # NoDomain
  PROVE  Spec => []AllServed
<1>1. ASSUME IInv, Over, Cardinality(listings) = 1,
             NEW r \in waiting, Reachable(r)
      PROVE  FALSE
  <2>1. PICK rows : listings = {rows}
    BY <1>1, FS_Singleton DEF IInv, TypeInv
  <2>2. r \in Recipients /\ conf \in Configurations
    BY <1>1 DEF IInv, TypeInv
  <2>3. ASSUME NEW s \in Slaves, NEW d \in Due(conf, s, rows), r \in Serves(conf, d)
        PROVE  FALSE
    <3>1. Promised(pc[s], map[s], domain[s], Serves(conf, d) \cap waiting, d)
      BY <1>1, <2>1 DEF IInv, Turns
    <3>2. pc[s] = "exit" /\ map[s] = {} /\ domain[s] = NoDomain
      BY <1>1 DEF IInv, Phases, PhaseOf, Over
    <3>3. d # NoDomain
      BY DueNames
    <3> QED
      BY <2>3, <3>1, <3>2, <3>3 DEF Promised
  <2>4. PICK k \in DOMAIN rows, s \in Slaves : rows[k] = DomainOf[r] /\ GoodDomain(s, k)
    <3>1. PICK k \in DOMAIN rows : rows[k] = DomainOf[r]
      BY <1>1, <2>1 DEF IInv, Answers
    <3>2. k \in Nat /\ k > 0
      BY <1>1, <2>1 DEF IInv, Answers
    <3> QED
      BY <3>1, <3>2, RowHasSlave
  <2>5. CASE conf.relay = NoDomain
    <3>1. DomainOf[r] # NoDomain
      BY <1>1, <2>5 DEF Reachable
    <3>2. DomainOf[r] \in Due(conf, s, rows)
      BY <2>4, <2>5, <3>1 DEF Due, Own, Good
    <3>3. r \in Serves(conf, DomainOf[r])
      BY <2>2, <2>5, <3>1 DEF Serves
    <3> QED
      BY <2>3, <3>2, <3>3
  <2>6. CASE /\ conf.relay # NoDomain
             /\ conf.relay = conf.internal \/ DomainOf[r] # conf.internal
    <3>1. conf.internal # NoDomain
      BY <2>2, <2>6
    <3>2. conf.relay \in Due(conf, s, rows)
      BY <2>6 DEF Due
    <3>3. r \in Serves(conf, conf.relay)
      BY <2>2, <2>6, <3>1 DEF Serves
    <3> QED
      BY <2>3, <3>2, <3>3
  <2>7. CASE /\ conf.relay # NoDomain /\ conf.relay # conf.internal
             /\ DomainOf[r] = conf.internal
    <3>1. conf.internal # NoDomain
      BY <2>2, <2>7
    <3>2. conf.internal \in Due(conf, s, rows)
      BY <2>4, <2>7, <3>1 DEF Due, Own, Good
    <3>3. r \in Serves(conf, conf.internal)
      BY <2>2, <2>7, <3>1 DEF Serves
    <3> QED
      BY <2>3, <3>2, <3>3
  <2> QED
    BY <2>5, <2>6, <2>7
<1>2. IInv => AllServed
  BY <1>1 DEF AllServed
<1> QED
  BY <1>2, Invariance, PTL
=============================================================================
