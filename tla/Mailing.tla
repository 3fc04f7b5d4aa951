------------------------------ MODULE Mailing ------------------------------
(***************************************************************************)
(* csv2givemail (src/src/csv2givemail.cc): every row of a CSV file is a    *)
(* mailing of its own, run by a unit, a thread or a child process          *)
(* (class RunUnits).  No more than MaxSlaves units are to run: when there  *)
(* are that many, the parent waits for all of them, and deletes what they  *)
(* were given.  A unit breaks the recipients of its row down by domain     *)
(* (class RecipientsMap) and emails one domain after the other.            *)
(*                                                                         *)
(* Signals end the loop of a unit.  They also interrupt the parent when it *)
(* waits for a child, as no system call is restarted: the child is then    *)
(* given up.  How a batch is sent is the matter of module Delivery; here   *)
(* emailing a domain serves each of its recipients once.                   *)
(***************************************************************************)
EXTENDS Integers, Sequences, FiniteSets

CONSTANTS
  Rows,            \* the possible rows, records as in MailingAssumption
  Recipients,
  DomainOf,        \* [Recipients -> Domains \cup {NoDomain}]
  Domains,
  NoDomain,        \* the empty name: an address without a domain, or no setting
  Configurations,  \* what the configuration file may say
  MaxSlaves,       \* m_maxSlaves
  MaxRows,         \* bound on the rows of the file
  MaxSignals       \* bound on the signals received

ASSUME MailingAssumption ==
  /\ Rows \subseteq [campaign : BOOLEAN, attachment : BOOLEAN,
                     to : SUBSET Recipients, cc : SUBSET Recipients,
                     bcc : SUBSET Recipients]
  /\ DomainOf \in [Recipients -> Domains \cup {NoDomain}]
  /\ NoDomain \notin Domains
  /\ Configurations \subseteq [threaded : BOOLEAN, relay : Domains \cup {NoDomain},
                               internal : Domains \cup {NoDomain}]
  /\ MaxSlaves \in Nat /\ MaxRows \in Nat /\ MaxSignals \in Nat

VARIABLES
  conf,       \* the configuration
  pc,         \* where runMailing() is: "read", "create", "join", "last", "ended"
  recipients, \* m_recipients of the row that was read
  rows,       \* rows read
  success,    \* finalSuccess is EXIT_SUCCESS
  units,      \* the units created, in order
  ids,        \* m_threadIds or m_childIds
  waiting,    \* those join() has still to wait for
  args,       \* the units whose argument was not deleted
  quit,       \* g_mustQuit in the parent, and in its threads
  signals,    \* signals received
  complete    \* history: rows that are to be emailed

parent == <<conf, pc, recipients, rows, success, ids, waiting, args, quit>>
vars == <<parent, units, signals, complete>>

Init ==
  /\ conf \in Configurations
  /\ pc = "read" /\ recipients = {} /\ rows = 0 /\ success = TRUE
  /\ units = <<>> /\ ids = {} /\ waiting = {} /\ args = {}
  /\ quit = FALSE /\ signals = 0 /\ complete = 0
----------------------------------------------------------------------------
\* RecipientsMap.
OnDomain(S, d) == {r \in S : DomainOf[r] = d}

\* listDomains(): the names to serve, each with the number that orders them.
\* With a relay these are the internal domain and the relay.
Breakdown(S) ==
  IF conf.relay = NoDomain
    THEN [d \in {DomainOf[r] : r \in S} |-> Cardinality(OnDomain(S, d))]
    ELSE LET inner == IF OnDomain(S, conf.internal) = {} THEN {} ELSE {conf.internal}
             outer == {conf.relay} \ {conf.internal}
             served == IF conf.relay = conf.internal
                         THEN S ELSE OnDomain(S, conf.internal)
         IN [d \in inner \cup outer |->
               IF d = conf.internal THEN Cardinality(served)
               ELSE Cardinality(S) - (IF inner = {} THEN 0 ELSE Cardinality(served))]

\* getRecipients(): those on the domain; for the relay, those not on the
\* internal domain.
\* Mutant: the relay is given the recipients of the internal domain too.
GetEveryone(S, d) ==
  {r \in S : DomainOf[r] # NoDomain /\ (DomainOf[r] = d \/ conf.relay = d)}
GetRecipients(S, d) ==
  {r \in S : DomainOf[r] # NoDomain
             /\ \/ DomainOf[r] = d
                \/ /\ conf.internal # NoDomain /\ conf.relay = d
                   /\ conf.internal # DomainOf[r] \/ conf.relay = conf.internal}
----------------------------------------------------------------------------
\* workerUnitFunc() and sendToDomain().
Working == {u \in DOMAIN units : units[u].at # "ended"}
MustQuit(u) == IF conf.threaded THEN quit ELSE units[u].quit

NewUnit == [recipients |-> recipients, at |-> "list", left |-> {}, domain |-> NoDomain,
            quit |-> quit, skipped |-> {}, times |-> [r \in Recipients |-> 0]]

List(u) ==
  /\ units[u].at = "list"
  /\ units' = [units EXCEPT ![u].at = "loop",
                            ![u].left = DOMAIN Breakdown(units[u].recipients)]

\* The domain with the smallest count comes first.  Its limits may not be found
\* (there is no MX record); those of a name that is empty never are.
NextDomain(u) ==
  /\ units[u].at = "loop" /\ ~MustQuit(u)
  /\ \E d \in units[u].left, found \in BOOLEAN :
       LET count == Breakdown(units[u].recipients) IN
       /\ \A e \in units[u].left : count[d] <= count[e]
       /\ found => d # NoDomain
       /\ units' = [units EXCEPT
            ![u].left = @ \ {d},
            ![u].domain = IF found THEN d ELSE NoDomain,
            ![u].at = IF found THEN "send" ELSE "loop",
            ![u].skipped = IF found THEN @ ELSE @ \cup {d}]

\* Without recipients the domain is recorded as such.
Send(u) ==
  LET S == GetRecipients(units[u].recipients, units[u].domain) IN
  /\ units[u].at = "send"
  /\ units' = [units EXCEPT
       ![u].at = "loop", ![u].domain = NoDomain,
       ![u].skipped = IF S = {} THEN @ \cup {units[u].domain} ELSE @,
       ![u].times = [r \in Recipients |-> IF r \in S THEN @[r] + 1 ELSE @[r]]]

\* Mutant: a unit does not end when it must quit before its last domain.
LastServed(u) == units[u].left = {}
LoopIsOver(u) == units[u].left = {} \/ MustQuit(u)

EndUnit(u) ==
  /\ units[u].at = "loop" /\ LoopIsOver(u)
  /\ units' = [units EXCEPT ![u].at = "ended", ![u].left = {}]

Unit(u) ==
  /\ List(u) \/ NextDomain(u) \/ Send(u) \/ EndUnit(u)
  /\ UNCHANGED <<parent, signals, complete>>
----------------------------------------------------------------------------
\* runMailing() and RunUnits.
InRow(row) == row.to \cup row.cc \cup row.bcc

\* Mutant: the parent does not wait for its units when a row cannot be run.
NoLastJoin == pc' = "ended" /\ waiting' = {} /\ success' = FALSE
Abort == pc' = "last" /\ waiting' = ids /\ success' = FALSE

\* Mutant: one unit too many.
OneTooMany == Cardinality(ids) > MaxSlaves
Full == Cardinality(ids) >= MaxSlaves

\* A row without a campaign, without recipients or without any file that
\* matches its attachment is skipped, after the template was loaded.
Skipped(row, filesFound) ==
  \/ ~row.campaign
  \/ InRow(row) = {}
  \/ row.attachment /\ ~filesFound

ReadRow ==
  /\ pc = "read" /\ rows < MaxRows
  /\ rows' = rows + 1
  /\ \E row \in Rows, templateLoads \in BOOLEAN, filesFound \in BOOLEAN :
       \/ /\ row.campaign /\ ~templateLoads
          /\ Abort
          /\ UNCHANGED <<recipients, complete>>
       \/ /\ row.campaign => templateLoads
          /\ Skipped(row, filesFound)
          /\ UNCHANGED <<pc, waiting, success, recipients, complete>>
       \/ /\ templateLoads /\ ~Skipped(row, filesFound)
          /\ recipients' = InRow(row)
          /\ complete' = complete + 1
          /\ IF Full THEN pc' = "join" /\ waiting' = ids
                     ELSE pc' = "create" /\ UNCHANGED waiting
          /\ UNCHANGED success
  /\ UNCHANGED <<conf, units, ids, args, quit, signals>>

EndOfFile ==
  /\ pc = "read"
  /\ pc' = "last" /\ waiting' = ids
  /\ UNCHANGED <<conf, recipients, rows, success, units, ids, args, quit, signals, complete>>

\* join() waits for one unit after the other...
JoinOne ==
  /\ pc \in {"join", "last"}
  /\ \E u \in waiting : units[u].at = "ended" /\ waiting' = waiting \ {u}
  /\ UNCHANGED <<conf, pc, recipients, rows, success, units, ids, args, quit, signals, complete>>

\* ... then deletes their arguments.
Joined ==
  /\ pc \in {"join", "last"} /\ waiting = {}
  /\ pc' = IF pc = "join" THEN "create" ELSE "ended"
  /\ ids' = {} /\ args' = {} /\ waiting' = {}
  /\ UNCHANGED <<conf, recipients, rows, success, units, quit, signals, complete>>

\* create(): a child inherits the parent's g_mustQuit.
Create ==
  LET u == Len(units) + 1 IN
  /\ pc = "create" /\ recipients' = {}
  /\ \/ /\ units' = Append(units, NewUnit)
        /\ ids' = ids \cup {u} /\ args' = args \cup {u}
        /\ pc' = "read"
        /\ UNCHANGED <<waiting, success>>
     \/ Abort /\ UNCHANGED <<units, ids, args>>
  /\ UNCHANGED <<conf, rows, quit, signals, complete>>

Run == ReadRow \/ EndOfFile \/ JoinOne \/ Joined \/ Create
----------------------------------------------------------------------------
\* catchSignals(): only SIGPIPE does not make the process quit.  waitpid()
\* fails when it is interrupted, pthread_join() is not.
Signal ==
  /\ signals < MaxSignals /\ pc # "ended"
  /\ signals' = signals + 1
  /\ \E quits \in BOOLEAN :
       \/ /\ quit' = (quit \/ quits)
          /\ IF ~conf.threaded /\ pc \in {"join", "last"} /\ waiting # {}
               THEN \E u \in waiting : waiting' = waiting \ {u}
               ELSE UNCHANGED waiting
          /\ UNCHANGED units
       \/ /\ ~conf.threaded
          /\ \E u \in Working : units' = [units EXCEPT ![u].quit = @ \/ quits]
          /\ UNCHANGED <<quit, waiting>>
  /\ UNCHANGED <<conf, pc, recipients, rows, success, ids, args, complete>>

Next == Run \/ Signal \/ \E u \in DOMAIN units : Unit(u)

Spec == Init /\ [][Next]_vars
\* The parent and the units are scheduled; the file ends.
FairSpec ==
  /\ Spec /\ WF_vars(Run)
  /\ \A u \in 1..MaxRows : WF_vars(u \in DOMAIN units /\ Unit(u))
----------------------------------------------------------------------------
\* A mailing that succeeds, without a signal, had a unit for every complete row,
\* and every recipient of it that has a domain was emailed exactly once, unless
\* what serves it, its domain or the relay, has no MX record.
RouteOf(r) ==
  IF conf.relay # NoDomain /\ DomainOf[r] # conf.internal THEN conf.relay ELSE DomainOf[r]
ServedOnce ==
  /\ \A u \in DOMAIN units, r \in Recipients :
       units[u].times[r] <= (IF r \in units[u].recipients THEN 1 ELSE 0)
  /\ pc = "ended" /\ success /\ signals = 0 =>
       /\ Len(units) = complete
       /\ \A u \in DOMAIN units : \A r \in units[u].recipients :
            \/ DomainOf[r] = NoDomain
            \/ units[u].times[r] = 1
            \/ RouteOf(r) \in units[u].skipped

\* What a unit reads is not deleted while it works, and csv2givemail does not end
\* before its units, even when it gives up half-way: threads share the argument
\* with the parent; children are waited for unless a signal interrupts that.
UnitsOutlived ==
  /\ conf.threaded => Working \subseteq args
  /\ pc = "ended" /\ (conf.threaded \/ signals = 0) => Working = {}

\* There are never more units than configured, and those that signals made the
\* parent forget: a wait for a child that is interrupted costs one, a thread is
\* waited for whatever happens.  When none are allowed there is one.
Allowed == IF MaxSlaves = 0 THEN 1 ELSE MaxSlaves
BoundedUnits ==
  Cardinality(Working) <= Allowed + (IF conf.threaded THEN 0 ELSE signals)

\* csv2givemail ends, whatever it is sent: no unit runs, or is waited for, for
\* ever.
MailingEnds == <>(pc = "ended" /\ Working = {})
=============================================================================
