--------------------------- MODULE SlaveThreads ---------------------------
(***************************************************************************)
(* One givemail slave (src/src/givemail.cc, runSlave): the domains of a    *)
(* campaign are listed in a DomainsMap, worker threads take them one by    *)
(* one from its top, the main thread is meant to help from its bottom and  *)
(* then joins the threads.  With a slave ID there are no threads and the   *)
(* main thread does what a worker does.                                    *)
(*                                                                         *)
(* Recipients are counted, not named: waiting[d] is the number of rows of  *)
(* domain d whose status is "Waiting".  What happens inside one call of    *)
(* SMTPSession::generateMessages is the subject of module Delivery; both   *)
(* implement BatchRounds: a call that fails leaves none of its batch       *)
(* waiting, one that succeeds resolves some of it, or possibly none after  *)
(* one that failed.  SELECTs may fail; UPDATEs are assumed to reach their  *)
(* rows.                                                                   *)
(***************************************************************************)
EXTENDS Integers, FiniteSets, Sequences

CONSTANTS
  Domains,         \* non-empty domain names, as listDomains() filters them
  NoDomain,        \* the empty name m_lowestDomainName starts with
  MaxRecipients,   \* bound on the waiting recipients of a domain
  MaxSlaves,       \* slave/maxslaves
  BatchSize,       \* recipients fetched per batch, at least 100 in the code
  MaxApiFailures   \* internal errors in a row that make a slave restart

ASSUME SlaveAssumption ==
  /\ IsFiniteSet(Domains)
  /\ NoDomain \notin Domains
  /\ MaxRecipients \in Nat
  /\ MaxSlaves \in Nat
  /\ BatchSize \in Nat \ {0}
  /\ MaxApiFailures \in Nat \ {0}

Main    == 0
Workers == 1..MaxSlaves
Threads == {Main} \cup Workers

VARIABLES
  threaded,    \* multiThreaded: no slave ID was given
  total,       \* [Domains -> Nat]: the counts the domains were listed with
  map,         \* m_domainsByRecipients: domains, fewest recipients first
  lowest,      \* m_lowestDomainName
  waiting,     \* [Domains -> Nat]: the rows still "Waiting"
  pc,          \* where each thread is
  cur,         \* domainName of each thread
  batch,       \* size of the batch each thread is sending
  apiFailures, \* apiFailuresCount of each thread's sendToDomain()
  failed,      \* generateMessages() failed for its batch before: its session
               \* may still count messages that never were in the queue
  created,     \* number of worker threads started
  rows,        \* rowsCount
  mustQuit,    \* g_mustQuit
  returnCode,  \* g_returnCode
  unread       \* history: domains a failed SELECT made the slave give up

setup   == <<threaded, total, rows>>
globals == <<mustQuit, returnCode>>
vars    == <<setup, map, lowest, waiting, pc, cur, batch, apiFailures, failed,
             created, globals, unread>>

Names(s) == {s[i] : i \in 1..Len(s)}

\* The threads runSlave() asks for: min(m_maxSlaves, rowsCount).
Wanted == IF MaxSlaves < rows THEN MaxSlaves ELSE rows

\* Where a thread looks for its next domain.
NextStop(t) == IF threaded /\ t = Main THEN "bottom" ELSE "top"

\* The loop over the bottom domains is entered when threads were too few.
AfterCreation == IF rows > Wanted THEN "bottom" ELSE "join"
----------------------------------------------------------------------------
\* What listDomains() may put in the map: one entry per domain with waiting
\* recipients, sorted by their number; the database orders equal counts.
Listed == {d \in Domains : total[d] > 0}
IsListing(s) == /\ Names(s) = Listed
                /\ \A i, j \in 1..Len(s) :
                     i < j => s[i] # s[j] /\ total[s[i]] <= total[s[j]]

Listings == {s \in [1..Cardinality(Listed) -> Listed] : IsListing(s)}

Init ==
  /\ threaded \in BOOLEAN
  /\ total \in [Domains -> 0..MaxRecipients]
  /\ waiting = total
  /\ \/ map \in Listings /\ unread = {}
     \/ map = <<>> /\ unread = Domains         \* the SELECT failed
  /\ rows = Len(map)
  /\ lowest = NoDomain
  /\ pc = [t \in Threads |-> IF t # Main THEN "absent"
                             ELSE IF threaded THEN "create" ELSE "top"]
  /\ cur = [t \in Threads |-> NoDomain]
  /\ batch = [t \in Threads |-> 0]
  /\ apiFailures = [t \in Threads |-> 0]
  /\ failed = [t \in Threads |-> FALSE]
  /\ created = 0
  /\ mustQuit = FALSE
  /\ returnCode = "success"
----------------------------------------------------------------------------
\* The main thread: create the workers, serve bottom domains, join.

CreateThread ==
  /\ pc[Main] = "create"
  /\ created < Wanted
  /\ created' = created + 1
  /\ pc' = [pc EXCEPT ![created + 1] = "top"]
  /\ UNCHANGED <<setup, map, lowest, waiting, cur, batch, apiFailures, failed,
                 globals, unread>>

\* All threads were created, or pthread_create() failed for the next one.
StopCreating ==
  /\ pc[Main] = "create"
  /\ pc' = [pc EXCEPT ![Main] = AfterCreation]
  /\ UNCHANGED <<setup, map, lowest, waiting, cur, batch, apiFailures, failed,
                 created, globals, unread>>

\* DomainsMap::getBottomDomain(): look for the low water-mark from the end of
\* the map and return the domain before it, which stays in the map.
IsBottom(i) == i < Len(map) /\ map[i + 1] = lowest

GetBottomDomain ==
  /\ pc[Main] = "bottom"
  /\ \/ \E i \in 1..Len(map) :
          /\ IsBottom(i)
          /\ lowest' = map[i]
          /\ cur' = [cur EXCEPT ![Main] = map[i]]
          /\ pc' = [pc EXCEPT ![Main] = "limits"]
     \/ /\ \A i \in 1..Len(map) : ~IsBottom(i)
        /\ pc' = [pc EXCEPT ![Main] = "join"]
        /\ UNCHANGED <<cur, lowest>>
  /\ UNCHANGED <<setup, map, waiting, batch, apiFailures, failed, created, globals,
                 unread>>

\* runSlave() returns once every thread it created has ended; main() turns
\* a failure into an exit code unless a restart is being asked for.  Mutant:
\* threads are not joined.
Unjoined == TRUE
Joined   == \A w \in 1..created : pc[w] = "done"

Exit ==
  /\ \/ threaded /\ pc[Main] = "join"
     \/ ~threaded /\ pc[Main] = "done"
  /\ Joined
  /\ pc' = [pc EXCEPT ![Main] = "exit"]
  /\ returnCode' = IF rows = 0 /\ returnCode = "success" THEN "failure"
                   ELSE returnCode
  /\ UNCHANGED <<setup, map, lowest, waiting, cur, batch, apiFailures, failed,
                 created, mustQuit, unread>>
----------------------------------------------------------------------------
\* workerThreadFunc(), run by the workers, or by main when it has no threads.

\* DomainsMap::getTopDomain(): pop the first entry, unless it is the low
\* water-mark.  Mutant: it is not erased.
NotPopped == map
Popped    == Tail(map)

GetTopDomain(t) ==
  /\ pc[t] = "top"
  /\ IF map = <<>> \/ Head(map) = lowest
     THEN UNCHANGED <<cur, map>>
     ELSE /\ cur' = [cur EXCEPT ![t] = Head(map)]
          /\ map' = Popped
  /\ pc' = [pc EXCEPT ![t] = "check"]
  /\ UNCHANGED <<setup, lowest, waiting, batch, apiFailures, failed, created, globals,
                 unread>>

\* The condition of the worker's loop.  A domain that was popped just before
\* g_mustQuit was set is dropped.
CheckDomain(t) ==
  /\ pc[t] = "check"
  /\ \/ /\ mustQuit \/ cur[t] = NoDomain
        /\ pc' = [pc EXCEPT ![t] = "done"]
        /\ cur' = [cur EXCEPT ![t] = NoDomain]
     \/ /\ ~mustQuit
        /\ cur[t] # NoDomain
        /\ pc' = [pc EXCEPT ![t] = "limits"]
        /\ UNCHANGED cur
  /\ UNCHANGED <<setup, map, lowest, waiting, batch, apiFailures, failed, created,
                 globals, unread>>

LeaveDomain(t) == /\ cur' = [cur EXCEPT ![t] = NoDomain]
                  /\ apiFailures' = [apiFailures EXCEPT ![t] = 0]
                  /\ failed' = [failed EXCEPT ![t] = FALSE]
                  /\ pc' = [pc EXCEPT ![t] = NextStop(t)]

\* findDomainLimits(): with MX records sendToDomain() is entered, otherwise
\* all recipients of the domain fail with "No MX record".
FindLimits(t) ==
  /\ pc[t] = "limits"
  /\ \/ /\ pc' = [pc EXCEPT ![t] = "send"]
        /\ UNCHANGED <<cur, waiting, apiFailures, failed>>
     \/ /\ waiting' = [waiting EXCEPT ![cur[t]] = 0]
        /\ LeaveDomain(t)
  /\ UNCHANGED <<setup, map, lowest, batch, created, globals, unread>>

\* The head of sendToDomain()'s loop: fetch the next batch of waiting rows.
FetchBatch(t) ==
  /\ pc[t] = "send"
  /\ ~mustQuit
  /\ waiting[cur[t]] > 0
  /\ batch' = [batch EXCEPT ![t] = IF waiting[cur[t]] < BatchSize
                                   THEN waiting[cur[t]] ELSE BatchSize]
  /\ pc' = [pc EXCEPT ![t] = "batch"]
  /\ UNCHANGED <<setup, map, lowest, waiting, cur, apiFailures, failed, created,
                 globals, unread>>

\* The loop ends: g_mustQuit, no rows left, or a failed SELECT, which
\* getRecipients() does not tell from an empty result.
LeaveLoop(t) ==
  /\ pc[t] = "send"
  /\ \/ /\ mustQuit \/ waiting[cur[t]] = 0
        /\ UNCHANGED unread
     \/ /\ ~mustQuit
        /\ unread' = unread \cup {cur[t]}
  /\ LeaveDomain(t)
  /\ UNCHANGED <<setup, map, lowest, waiting, batch, created, globals>>

\* generateMessages() returned true: at least one row of the batch resolved,
\* except that a batch after one that failed may be spent on what that one left.
BatchSent(t) ==
  /\ pc[t] = "batch"
  /\ \E n \in 0..batch[t] :
       /\ n = 0 => failed[t]
       /\ waiting' = [waiting EXCEPT ![cur[t]] = @ - n]
  /\ failed' = [failed EXCEPT ![t] = FALSE]
  /\ batch' = [batch EXCEPT ![t] = 0]
  /\ pc' = [pc EXCEPT ![t] = "send"]
  /\ UNCHANGED <<setup, map, lowest, cur, apiFailures, created, globals,
                 unread>>

\* generateMessages() returned false: what was not resolved is set to
\* "Failed".  Internal errors are counted, any other error starts afresh.
\* Mutants: nothing is set, or one recipient too many.
NoneFailed(t)    == 0
OneMoreFailed(t) == batch[t] + 1
AllFailed(t)     == batch[t]

BatchFailed(t) ==
  /\ pc[t] = "batch"
  /\ waiting' = [waiting EXCEPT ![cur[t]] = @ - AllFailed(t)]
  /\ failed' = [failed EXCEPT ![t] = TRUE]
  /\ \/ /\ apiFailures' = [apiFailures EXCEPT ![t] = 0]
        /\ UNCHANGED globals
     \/ /\ apiFailures' = [apiFailures EXCEPT ![t] = @ + 1]
        /\ IF apiFailures[t] + 1 >= MaxApiFailures
           THEN returnCode' = "restart" /\ mustQuit' = TRUE
           ELSE UNCHANGED globals
  /\ batch' = [batch EXCEPT ![t] = 0]
  /\ pc' = [pc EXCEPT ![t] = "send"]
  /\ UNCHANGED <<setup, map, lowest, cur, created, unread>>
----------------------------------------------------------------------------
\* catchSignals(): SIGTERM and its like, or SIGUSR2.
Signal ==
  /\ pc[Main] # "exit"
  /\ mustQuit' = TRUE
  /\ returnCode' \in {returnCode, "restart"}
  /\ UNCHANGED <<setup, map, lowest, waiting, pc, cur, batch, apiFailures, failed,
                 created, unread>>

\* The process has ended.
Terminated == pc[Main] = "exit" /\ UNCHANGED vars

MainStep == CreateThread \/ StopCreating \/ GetBottomDomain \/ Exit

DomainStep(t) ==
  \/ GetTopDomain(t) \/ CheckDomain(t) \/ FindLimits(t) \/ FetchBatch(t)
  \/ LeaveLoop(t) \/ BatchSent(t) \/ BatchFailed(t)

Next == \/ MainStep
        \/ \E t \in Threads : DomainStep(t)
        \/ Signal
        \/ Terminated

Spec == Init /\ [][Next]_vars

\* The scheduler runs every thread that can take a step.
FairSpec == Spec /\ WF_vars(MainStep) /\ \A t \in Threads : WF_vars(DomainStep(t))
----------------------------------------------------------------------------
(***************************************************************************)
(* Properties                                                              *)
(***************************************************************************)

PcValues == {"absent", "create", "bottom", "join", "exit", "top", "check",
             "limits", "send", "batch", "done"}

\* Every variable keeps its type; a thread is inside a domain exactly while
\* its position says so.
TypeOK ==
  /\ threaded \in BOOLEAN
  /\ total \in [Domains -> 0..MaxRecipients]
  /\ waiting \in [Domains -> Nat]
  /\ map \in Seq(Domains)
  /\ lowest \in Domains \cup {NoDomain}
  /\ pc \in [Threads -> PcValues]
  /\ cur \in [Threads -> Domains \cup {NoDomain}]
  /\ batch \in [Threads -> Nat]
  /\ apiFailures \in [Threads -> Nat]
  /\ failed \in [Threads -> BOOLEAN]
  /\ created \in 0..MaxSlaves
  /\ rows \in Nat
  /\ mustQuit \in BOOLEAN
  /\ returnCode \in {"success", "failure", "restart"}
  /\ unread \subseteq Domains
  /\ \A t \in Threads :
       pc[t] \in {"limits", "send", "batch"} => cur[t] \in Domains

\* The rows a thread fetched are all still waiting when their statuses are
\* recorded, so that no recipient is in the batches of two threads and
\* emailed twice (the fetch and the updates of sendToDomain() are separate
\* statements, with no lock held in between).
InFlightStillWaiting ==
  \A t \in Threads : pc[t] = "batch" => batch[t] <= waiting[cur[t]]

\* A slave that ends without having been told to has left no listed domain
\* with waiting recipients, except those a failed SELECT hid from it and
\* when it could not create a single thread.
NothingForgotten ==
  pc[Main] = "exit" =>
    \A d \in Domains : waiting[d] > 0 =>
      mustQuit \/ d \in unread \/ (threaded /\ created = 0)

\* Who is sending to each domain.
SendersOf == [d \in Domains |-> {t \in Threads : cur[t] = d}]

Ownership == INSTANCE DomainOwnership WITH
  Senders <- Threads, queued <- Names(map), senders <- SendersOf

\* Each domain has one sender at a time and is never sent to again by the
\* slave once let go of.
OneSenderPerDomain == Ownership!DomainOwnershipSpec

\* The batch of a domain is that of the thread that is sending to it.
Sending(d)  == {t \in Threads : pc[t] = "batch" /\ cur[t] = d}
BatchOf(d)  == IF Sending(d) = {} THEN 0 ELSE batch[CHOOSE t \in Sending(d) : TRUE]
FailedAt(d) == \E t \in Threads : cur[t] = d /\ failed[t]

Rounds(d) == INSTANCE BatchRounds WITH
  waiting <- waiting[d], batch <- BatchOf(d), failed <- FailedAt(d), restarts <- 0

\* Whatever batches the threads have at the same time, those of a domain come one
\* after the other, are of rows that wait, and change those only.
RoundByRound ==
  /\ \A d \in Domains : Rounds(d)!BatchRoundsInit
  /\ [][\A d \in Domains : \/ UNCHANGED Rounds(d)!BatchRoundsVars
                           \/ Rounds(d)!BatchRoundsNext]_vars

\* The slave ends: the threads drain the map, and joining them does not hang.
Terminates == <>(pc[Main] = "exit")
=============================================================================
