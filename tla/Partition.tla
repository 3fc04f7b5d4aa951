----------------------------- MODULE Partition -----------------------------
(***************************************************************************)
(* How the slave processes of a campaign share its recipients              *)
(* (src/src/CampaignSQL.cc, listDomains() and getRecipients();             *)
(* src/src/givemail.cc, runSlave() with a slave ID; startCampaign() of     *)
(* src/src/givemaild.cc).  Nobody hands domains out: each slave lists the  *)
(* domains that have recipients waiting, by itself and when it gets to     *)
(* it, and takes every Count-th row of the answer.  A slave that asks for  *)
(* a restart becomes a new process, which lists what is left.              *)
(*                                                                         *)
(* With a mail relay there is one name for all the domains but the         *)
(* internal one.  MX records are found and messages are accepted here:     *)
(* what else may happen to a batch is the matter of SlaveThreads and       *)
(* Delivery.                                                               *)
(***************************************************************************)
EXTENDS Integers, Sequences, FiniteSets, FiniteSetsExt, SequencesExt

CONSTANTS
  Recipients,     \* 1..n, in the order of RecipientID
  DomainOf,       \* [Recipients -> Domains \cup {NoDomain}], DomainName
  Domains,
  NoDomain,       \* the empty name
  Configurations, \* possible mail relays and internal domains
  Count,          \* slave/maxslaves: how many slaves are started
  BatchSize,      \* recipients fetched at a time
  MaxRestarts     \* bound on the restarts

ASSUME PartitionAssumption ==
  /\ Recipients \subseteq Nat /\ IsFiniteSet(Recipients)
  /\ NoDomain \notin Domains
  /\ DomainOf \in [Recipients -> Domains \cup {NoDomain}]
  /\ Configurations \subseteq [relay : Domains \cup {NoDomain},
                               internal : Domains \cup {NoDomain}]
  /\ Count \in Nat \ {0} /\ BatchSize \in Nat \ {0} /\ MaxRestarts \in Nat

Slaves == 0..(Count - 1)     \* slave IDs, the offsets

VARIABLES
  conf,      \* the configuration, the same for all
  waiting,   \* the recipients whose status is "Waiting"
  pc,        \* where each slave is: "start", "top", "fetch", "send", "exit"
  map,       \* m_domainsByRecipients of each slave, a set of entries
  domain,    \* the domain each slave serves
  batch,     \* the recipients each slave fetched
  restarts,  \* slaves restarted so far
  times,     \* history: how often each recipient was emailed
  listings   \* history: the rows that slaves were given

vars == <<conf, waiting, pc, map, domain, batch, restarts, times, listings>>

Init ==
  /\ conf \in Configurations
  /\ waiting = Recipients
  /\ pc = [s \in Slaves |-> "start"]
  /\ map = [s \in Slaves |-> {}]
  /\ domain = [s \in Slaves |-> NoDomain]
  /\ batch = [s \in Slaves |-> {}]
  /\ restarts = 0
  /\ times = [r \in Recipients |-> 0]
  /\ listings = {}
----------------------------------------------------------------------------
\* listDomains().
Number(d) == Cardinality({r \in waiting : DomainOf[r] = d})

\* The rows of the SELECT, most recipients first; the database orders domains
\* with as many.
Rows == {s \in SetToSeqs({DomainOf[r] : r \in waiting}) :
           \A i, j \in DOMAIN s : i < j => Number(s[i]) >= Number(s[j])}

\* Whether a slave takes a row.  Rows without a name are not taken; they count.
\* Mutant: the row at the slave's offset is another slave's.
PastOffset(s, row) == row - 1 > s /\ (row - 1 - s) % Count = 0
GoodDomain(s, row) == row - 1 >= s /\ (row - 1 - s) % Count = 0

\* The domains a slave listed, as it puts them into its multimap: with their
\* numbers of recipients, and the rows they came in.  With a relay the domains it
\* serves become one, that is put in last and always.
Entry(name, number, row) == [name |-> name, number |-> number, row |-> row]

Good(s, rows) == {i \in DOMAIN rows : rows[i] # NoDomain /\ GoodDomain(s, i)}

\* The domains a slave serves under their own names, and those of the relay.
KeepsName(d) ==
  conf.relay = NoDomain \/ (d = conf.internal /\ conf.relay # conf.internal)

Taken(s, rows) ==
  LET kept == {i \in Good(s, rows) : KeepsName(rows[i])}
      relayed == Good(s, rows) \ kept
  IN {Entry(rows[i], Number(rows[i]), i) : i \in kept} \cup
     (IF conf.relay = NoDomain THEN {}
      ELSE {Entry(conf.relay, MapThenSumSet(LAMBDA i : Number(rows[i]), relayed),
                  Len(rows) + 1)})

List(s) ==
  /\ pc[s] = "start"
  /\ \E rows \in Rows :
       /\ map' = [map EXCEPT ![s] = Taken(s, rows)]
       /\ listings' = listings \cup {rows}
  /\ pc' = [pc EXCEPT ![s] = "top"]
  /\ UNCHANGED <<conf, waiting, domain, batch, restarts, times>>
----------------------------------------------------------------------------
\* workerThreadFunc() and sendToDomain(), with getTopDomain(): the first entry of
\* the multimap has the fewest recipients; of those with as many, it came first.
Before(e, o) == \/ e.number < o.number
                \/ e.number = o.number /\ e.row < o.row

TopDomain(s) ==
  /\ pc[s] = "top"
  /\ \/ \E e \in map[s] :
          /\ \A o \in map[s] \ {e} : Before(e, o)
          /\ domain' = [domain EXCEPT ![s] = e.name]
          /\ map' = [map EXCEPT ![s] = @ \ {e}]
          /\ pc' = [pc EXCEPT ![s] = "fetch"]
     \/ /\ map[s] = {}
        /\ pc' = [pc EXCEPT ![s] = "exit"]
        /\ UNCHANGED <<domain, map>>
  /\ UNCHANGED <<conf, waiting, batch, restarts, times, listings>>

\* getRecipients() for the relay asks for those not on the internal domain.
ServedBy(d) ==
  IF conf.internal # NoDomain /\ conf.relay = d
    THEN {r \in Recipients : conf.relay # conf.internal => DomainOf[r] # conf.internal}
    ELSE {r \in Recipients : DomainOf[r] = d}

\* Mutant: the status is not asked for.
AnyStatus(d) == ServedBy(d)
Wanted(d) == ServedBy(d) \cap waiting

\* The first ones in the order of their IDs, up to the size of a batch.
FirstOf(S) == {r \in S : Cardinality({q \in S : q < r}) < BatchSize}

Fetch(s) ==
  LET found == FirstOf(Wanted(domain[s])) IN
  /\ pc[s] = "fetch"
  /\ batch' = [batch EXCEPT ![s] = found]
  /\ IF found = {} THEN /\ pc' = [pc EXCEPT ![s] = "top"]
                        /\ domain' = [domain EXCEPT ![s] = NoDomain]
                   ELSE /\ pc' = [pc EXCEPT ![s] = "send"]
                        /\ UNCHANGED domain
  /\ UNCHANGED <<conf, waiting, map, restarts, times, listings>>

\* The batch is emailed and its rows are updated.
Send(s) ==
  /\ pc[s] = "send"
  /\ times' = [r \in Recipients |-> IF r \in batch[s] THEN times[r] + 1 ELSE times[r]]
  /\ waiting' = waiting \ batch[s]
  /\ batch' = [batch EXCEPT ![s] = {}]
  /\ pc' = [pc EXCEPT ![s] = "fetch"]
  /\ UNCHANGED <<conf, map, domain, restarts, listings>>

\* A slave that failed too often asks for a restart: the daemon starts it anew,
\* with the same ID.
Restart(s) ==
  /\ pc[s] = "fetch" /\ restarts < MaxRestarts
  /\ restarts' = restarts + 1
  /\ pc' = [pc EXCEPT ![s] = "start"]
  /\ map' = [map EXCEPT ![s] = {}]
  /\ domain' = [domain EXCEPT ![s] = NoDomain]
  /\ UNCHANGED <<conf, waiting, batch, times, listings>>

Next == \E s \in Slaves : List(s) \/ TopDomain(s) \/ Fetch(s) \/ Send(s) \/ Restart(s)

Spec == Init /\ [][Next]_vars
----------------------------------------------------------------------------
Over == \A s \in Slaves : pc[s] = "exit"

\* A recipient slaves are meant to email: those without a domain have no slave,
\* but the relay.
Reachable(r) == DomainOf[r] # NoDomain \/ conf.relay # NoDomain

\* Slaves that were given the same rows leave nobody out: when all have ended,
\* whatever their order, no recipient is waiting.
AllServed ==
  Over /\ Cardinality(listings) = 1 => \A r \in waiting : ~Reachable(r)

\* Slaves that were given the same rows email nobody twice when there is no relay.
\* The relay belongs to every slave, and so may a domain when listings differ:
\* a recipient is then emailed by each slave once at worst, however often slaves
\* are restarted and list what is left.
OnceEach ==
  \A r \in Recipients :
    times[r] <= IF Cardinality(listings) <= 1 /\ conf.relay = NoDomain THEN 1 ELSE Count

\* What runSlave() says of it: "other slave processes will take care of the job".
\* When all slaves have ended, and none had to be restarted, nobody is waiting.
JobTakenCareOf == Over /\ restarts = 0 => \A r \in waiting : ~Reachable(r)
=============================================================================
