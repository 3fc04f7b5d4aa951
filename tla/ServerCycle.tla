---------------------------- MODULE ServerCycle ----------------------------
(***************************************************************************)
(* Which server a session connects to: the MX and A records that           *)
(* src/src/SMTPSession.cc keeps in queues (initializeTopQueue(),           *)
(* queueNextPriorityRecords(), setServer(), cycleServers()), the servers   *)
(* discarded after a connection error (dispatchMessages()), the resolver   *)
(* (src/src/Resolver.cc) and the MX records that                           *)
(* ConfigurationFile::findDomainLimits() keeps for the next session.       *)
(*                                                                         *)
(* MX records are numbered in the order sessions go through them, that of  *)
(* increasing priority numbers.  The resolver answers what it likes, each  *)
(* time it is asked.  The records of one answer share their time to live   *)
(* (60 seconds at least): they expire together, and not while servers are  *)
(* being cycled.                                                           *)
(***************************************************************************)
EXTENDS Integers, Sequences, FiniteSets, SequencesExt

CONSTANTS
  Priority,     \* [1..n -> Nat], the priority of each MX record
  HostsOf,      \* [1..n -> set of addresses], those its name may resolve to
  IsIP,         \* the domain is an IP address (that of a mail relay)
  ReportsErrors,\* the provider reports connection errors (libesmtp)
  MaxSessions   \* bound on the sessions for the domain in one process

MX == DOMAIN Priority
Hosts == UNION {HostsOf[r] : r \in MX}

NoPriority == 1000000

ASSUME ServerCycleAssumption ==
  /\ Priority \in Seq(0..NoPriority-1)
  /\ \A r, q \in MX : r < q => Priority[r] <= Priority[q]
  /\ \A r \in MX : IsFiniteSet(HostsOf[r])
  /\ Hosts \subseteq Nat \ {0}
  /\ IsIP \in BOOLEAN /\ ReportsErrors \in BOOLEAN
  /\ MaxSessions \in Nat
  /\ IsIP => MX = {1} /\ Cardinality(Hosts) = 1

NoServer == 0

VARIABLES
  pc,          \* where the caller of the session, or cycleServers(), is
  then,        \* who called cycleServers(): "created" or "retried"
  cached,      \* m_mxRecords of the domain in the configuration file
  mxRecords,   \* m_domainLimits.m_mxRecords, the session's copy
  stale,       \* the MX records have expired
  topPriority, \* m_topPriority
  topQueue,    \* m_topQueue, records with their addresses
  discarded,   \* m_discarded
  hasSession,  \* the provider has a session
  server,      \* the provider's host name
  sessions,    \* how many sessions there were
  current,     \* history: the MX record the server was set for
  failed       \* history: MX records found unusable since they were last set

limits  == <<cached, mxRecords, stale, sessions>>
queues  == <<topPriority, topQueue>>
history == <<current, failed>>
vars == <<pc, then, limits, queues, discarded, hasSession, server, history>>

Init ==
  /\ pc = "limits" /\ then = "created"
  /\ cached = {} /\ mxRecords = {} /\ stale = FALSE
  /\ topPriority = NoPriority /\ topQueue = <<>> /\ discarded = {}
  /\ hasSession = FALSE /\ server = NoServer
  /\ sessions = 0
  /\ current = 0 /\ failed = {}
----------------------------------------------------------------------------
\* The resolver.  Addresses come in any order; none when the query fails.  A
\* record of a type that was not asked for (an alias) leaves the buffers it
\* would be parsed into as they were: it is skipped, or the record before it is
\* added once more, beside the record that came first in the answer and is last.
Answers(possible) ==
  LET ordered == UNION {SetToSeqs(S) : S \in SUBSET possible}
      Repeated(s, h) == {Append(s, h), Front(s) \o <<h, Last(s)>>}
  IN  ordered \cup UNION {UNION {Repeated(s, s[i]) : i \in DOMAIN s} : s \in ordered}

\* initializeAddresses(): the addresses of an MX record that were not discarded.
\* That of an IP address is itself.
\* Mutant: addresses that were discarded are put back in.
AllAddressesOf(r) == Answers(HostsOf[r])
AddressesOf(r) ==
  IF IsIP THEN SetToSeqs(HostsOf[r] \ discarded) ELSE Answers(HostsOf[r] \ discarded)

\* An address as the queue of its record holds it.
Fresh(h) == [host |-> h, expired |-> FALSE]
Addresses(seq) == [i \in DOMAIN seq |-> Fresh(seq[i])]
Record(r, seq) == [mx |-> r, addresses |-> Addresses(seq)]
----------------------------------------------------------------------------
\* findDomainLimits(): the MX records of the domain, asked for if there are
\* none; and a session for it.  A domain without records is skipped, except by
\* the test mode of givemail, which goes on.
FindDomainLimits ==
  /\ pc = "limits" /\ sessions < MaxSessions
  /\ IF cached # {}
     THEN mxRecords' = cached /\ UNCHANGED stale
     ELSE mxRecords' \in {{}, MX} /\ stale' = FALSE
  /\ cached' = mxRecords'
  /\ sessions' = sessions + 1
  /\ pc' \in IF mxRecords' = {} THEN {"limits", "idle"} ELSE {"idle"}
  /\ topPriority' = NoPriority /\ topQueue' = <<>> /\ discarded' = {}
  /\ hasSession' = FALSE /\ server' = NoServer
  /\ current' = 0 /\ failed' = {}
  /\ UNCHANGED then

\* The session is no longer used.
EndSession ==
  /\ pc = "idle"
  /\ pc' = "limits"
  /\ UNCHANGED <<then, limits, queues, discarded, hasSession, server, history>>

\* createSession() when there is no session yet.
CreateSession ==
  /\ pc = "idle" /\ ~hasSession
  /\ hasSession' = TRUE
  /\ pc' = "cycle" /\ then' = "created"
  /\ UNCHANGED <<limits, queues, discarded, server, history>>
----------------------------------------------------------------------------
\* initializeTopQueue(): the records of the top priority that have an address.
\* The top priority is only looked for when none is set.
TopOf(priority) ==
  IF priority = NoPriority /\ mxRecords # {}
  THEN Priority[Min(mxRecords)] ELSE priority
\* Mutant: all priorities are queued.
AllRecords(priority) == mxRecords
TopRecords(priority) == {r \in mxRecords : Priority[r] <= priority}

\* The queue of some records, whose names resolve to the given addresses.
Ascending(records) ==
  {s \in SetToSeqs(records) : \A i, j \in DOMAIN s : i < j => s[i] < s[j]}
Queues(records, resolved) ==
  {[i \in DOMAIN s |-> Record(s[i], resolved[s[i]])] : s \in Ascending(records)}

TopQueues(priority) ==
  LET top == TopRecords(priority)
      answers == {a \in [top -> UNION {AddressesOf(r) : r \in top}] :
                    \A r \in top : a[r] \in AddressesOf(r)}
  IN  IF IsIP THEN {<<Record(1, s)>> : s \in SetToSeqs(Hosts)}
      ELSE IF stale THEN {<<>>}
      ELSE UNION {Queues({r \in top : a[r] # <<>>}, a) : a \in answers}

\* queueNextPriorityRecords(): those of lower priorities, without addresses.
\* All of them: the check that should stop at the first of another priority
\* looks for a smaller number, and numbers increase.
LowerRecords(priority) == {r \in mxRecords : Priority[r] > priority}
SamePriority(r, priority) == Priority[r] >= priority
NextPriority(priority) ==
  IF LowerRecords(priority) = {} THEN NoPriority
  ELSE Priority[Min(LowerRecords(priority))]
NextRecords(priority) ==
  {r \in LowerRecords(priority) : SamePriority(r, NextPriority(priority)) /\ ~stale}
NextQueues(priority) ==
  Queues(NextRecords(priority), [r \in NextRecords(priority) |-> <<>>])

\* Both, as cycleServers() calls them when it runs out of records.
Refill(filled, empty) ==
  \/ /\ NextRecords(topPriority) # {}
     /\ topQueue' \in NextQueues(topPriority)
     /\ topPriority' = NextPriority(topPriority)
     /\ pc' = filled
     /\ UNCHANGED failed
  \/ /\ NextRecords(topPriority) = {}
     /\ LET top == TopOf(NextPriority(topPriority)) IN
        /\ topQueue' \in TopQueues(top)
        /\ topPriority' = IF IsIP THEN NextPriority(topPriority) ELSE top
        /\ pc' = IF topQueue' = <<>> THEN empty ELSE filled
        /\ failed' = failed \cup
             (TopRecords(top) \ {topQueue'[i].mx : i \in DOMAIN topQueue'})
----------------------------------------------------------------------------
\* cycleServers(): the head of the function,
Cycle ==
  /\ pc = "cycle"
  /\ IF topQueue # <<>>
     THEN pc' = "pop" /\ UNCHANGED <<queues, failed>>
     ELSE Refill("pop", "failed")
  /\ UNCHANGED <<then, limits, discarded, hasSession, server, current>>

\* setServer(): the first address that can be used, those before it are dropped.
\* A record without addresses gets them again.
Usable(addresses) ==
  {i \in DOMAIN addresses :
     addresses[i].host \notin discarded /\ ~addresses[i].expired}
Tried(record) ==
  IF record.addresses # <<>> THEN {record.addresses}
  ELSE {Addresses(a) : a \in AddressesOf(record.mx)}

\* The address that was set, pushed to the back of its queue.
PushBack(addresses, i) == Append(SubSeq(addresses, i + 1, Len(addresses)), addresses[i])
\* The record it belongs to, pushed to the back of the queue.
\* Mutant: the record stays in front.
LeftInFront(queue, record) == <<record>> \o Tail(queue)
Rotated(queue, record) == Append(Tail(queue), record)

\* and one turn of its loop: a record is popped and set as server,
SetServer ==
  /\ pc = "pop" /\ ~stale
  /\ \E addresses \in Tried(Head(topQueue)) :
       /\ Usable(addresses) # {}
       /\ LET i == Min(Usable(addresses)) IN
          /\ server' = addresses[i].host
          /\ topQueue' = Rotated(topQueue, [Head(topQueue) EXCEPT
                                   !.addresses = PushBack(addresses, i)])
  /\ current' = Head(topQueue).mx
  /\ failed' = failed \ {current'}
  /\ pc' = then
  /\ UNCHANGED <<then, limits, topPriority, discarded, hasSession>>

\* or it is expired or has no address; when it was the last one, the next
\* priority or the top one is queued.
DropRecord ==
  /\ pc = "pop"
  /\ \/ stale /\ ~IsIP
     \/ \E addresses \in Tried(Head(topQueue)) : Usable(addresses) = {}
  /\ pc' = "dropped"
  /\ topQueue' = Tail(topQueue)
  /\ failed' = failed \cup {Head(topQueue).mx}
  /\ UNCHANGED <<then, limits, topPriority, discarded, hasSession, server, current>>

NextRecord ==
  /\ pc = "dropped"
  /\ IF topQueue # <<>>
     THEN pc' = "pop" /\ UNCHANGED <<queues, failed>>
     ELSE Refill("pop", "failed")
  /\ UNCHANGED <<then, limits, discarded, hasSession, server, current>>
----------------------------------------------------------------------------
\* createSession() returns.  A session it could not find a server for stays.
Created ==
  /\ pc = "created" \/ (pc = "failed" /\ then = "created")
  /\ pc' = "idle"
  /\ UNCHANGED <<then, limits, queues, discarded, hasSession, server, history>>

\* dispatchMessages(): messages are sent, then the session is replaced.
NewSession ==
  /\ hasSession' = TRUE
  /\ server' = NoServer /\ current' = 0
  /\ pc' = "cycle" /\ then' = "created"

Dispatch ==
  /\ pc = "idle" /\ hasSession
  /\ NewSession
  /\ UNCHANGED <<limits, queues, discarded, failed>>

\* discardCurrentServer(): the address at the back of the record at the back.
CurrentAddress(queue) == Last(Last(queue).addresses).host
Discarded ==
  IF topQueue = <<>> \/ Last(topQueue).addresses = <<>> THEN discarded
  ELSE discarded \cup {CurrentAddress(topQueue)}

\* A connection error: the server is discarded, another one tried.
ConnectionError ==
  /\ pc = "idle" /\ hasSession /\ server # NoServer /\ ReportsErrors
  /\ discarded' = Discarded
  /\ pc' = "cycle" /\ then' = "retried"
  /\ UNCHANGED <<limits, queues, hasSession, server, history>>

\* The messages are sent to the other server, or there is none; either way the
\* session is replaced.
Retried ==
  /\ pc = "retried" \/ (pc = "failed" /\ then = "retried")
  /\ NewSession
  /\ UNCHANGED <<limits, queues, discarded, failed>>
----------------------------------------------------------------------------
\* Time passes while messages are sent, or between batches.
ExpireMX ==
  /\ pc = "idle" /\ ~stale /\ ~IsIP
  /\ stale' = TRUE
  /\ UNCHANGED <<pc, then, cached, mxRecords, sessions, queues, discarded,
                 hasSession, server, history>>

ExpireAddresses ==
  /\ pc = "idle" /\ ~IsIP
  /\ \E i \in DOMAIN topQueue :
       /\ \E j \in DOMAIN topQueue[i].addresses : ~topQueue[i].addresses[j].expired
       /\ topQueue' = [topQueue EXCEPT ![i].addresses =
                         [j \in DOMAIN @ |-> [@[j] EXCEPT !.expired = TRUE]]]
  /\ UNCHANGED <<pc, then, limits, topPriority, discarded, hasSession, server, history>>

CycleServers == Cycle \/ SetServer \/ DropRecord \/ NextRecord

Next ==
  \/ FindDomainLimits \/ EndSession \/ CreateSession
  \/ CycleServers
  \/ Created \/ Dispatch \/ ConnectionError \/ Retried
  \/ ExpireMX \/ ExpireAddresses

Spec == Init /\ [][Next]_vars

\* cycleServers() is a loop without waiting, it goes on.
FairSpec == Spec /\ WF_vars(CycleServers)
----------------------------------------------------------------------------
\* A server that is not of the best priority is used only when all records of
\* that priority were found unusable since one of them was last used:
\* initializeTopQueue() comes first, queueNextPriorityRecords() when nothing is
\* left of what it queued.
PreferredFirst ==
  current \in mxRecords /\ Priority[current] > Priority[Min(mxRecords)] =>
    \A r \in mxRecords : Priority[r] = Priority[Min(mxRecords)] => r \in failed

\* After a connection error, the server discarded is the one that was in use:
\* cycleServers() and setServer() left its records at the back of their queues.
DiscardsCurrent == [][discarded' \notin {discarded, {}} =>
                        discarded' = discarded \cup {server}]_vars

\* A server that was discarded is never set again by the session, even when it
\* is queued under other names, or its name is resolved again.
DiscardedForGood == [][server' \notin {server, NoServer} => server' \notin discarded]_vars

\* cycleServers() returns: it does not go round the same records for ever.
CycleEnds == (pc = "cycle") ~> (pc \in {"idle", "failed", "retried", "created"})
=============================================================================
