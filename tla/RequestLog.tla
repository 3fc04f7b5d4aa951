---------------------------- MODULE RequestLog ----------------------------
(***************************************************************************)
(* How the Web API recognises a request it has already served              *)
(* (src/src/webapi-fcgi.cc: main(), processXml(), verifyAuthentication();  *)
(* src/src/DBUsageLogger.cc, src/src/AuthSQL.cc, src/src/Key.cc and        *)
(* src/src/webapi-key-manager.cc).  A client whose answer is late or lost  *)
(* sends its request again, word for word and with the same signature.     *)
(* The request is refused for a minute by looking for its signature in the *)
(* usage log, where it is written after it was executed, with the time it  *)
(* arrived at.                                                             *)
(*                                                                         *)
(* Several processes serve requests, each one at a time.  What a request   *)
(* does is the matter of module CampaignStore.  Rows of the log without a  *)
(* signature are left out: no statement can find them.                     *)
(***************************************************************************)
EXTENDS Integers, Sequences, FiniteSets, FiniteSetsExt

CONSTANTS
  Processes,    \* the processes of webapi.fcgi
  Requests,     \* signed requests
  NoRequest,    \* what a process that waits for one serves
  Keys,         \* keys of applications
  KeyOf,        \* [Requests -> Keys]
  DateOf,       \* [Requests -> Nat], the Date header, by the client's clock
  KeyNumber,    \* [Keys -> Nat], a key's ID as a value of an INTEGER column
  Minute,       \* 60 seconds, in ticks
  Skew,         \* 15 minutes
  Lifetime,     \* how long a key is valid
  MaxTime,      \* bound on the time
  MaxFaults     \* bound on the requests cut short and the statements that fail

ASSUME RequestLogAssumption ==
  /\ IsFiniteSet(Processes) /\ NoRequest \notin Requests
  /\ KeyOf \in [Requests -> Keys] /\ DateOf \in [Requests -> Nat]
  /\ KeyNumber \in [Keys -> Nat]
  /\ Minute \in Nat /\ Skew \in Nat /\ Lifetime \in Nat
  /\ MaxTime \in Nat \ {0} /\ MaxFaults \in Nat

VARIABLES
  now,       \* time()
  pc,        \* "idle", "reading", "key", "search", "execute" or "log"
  request,   \* the request each process serves
  arrived,   \* m_currentTime of its DBUsageLogger
  seen,      \* its timeNow
  known,     \* WebAPIKeys
  expiry,    \* [Keys -> Nat], m_expiryTime, 0 before the key is created
  deleting,  \* the key whose usage has still to be deleted
  log,       \* WebAPIUsage
  faults,    \* requests cut short and failed statements
  executed,  \* history: how often requests read in the minute from a time on
             \* were executed
  forgotten  \* history: how often deleting a key took rows of the log

serving == <<request, arrived, seen>>
keys    == <<known, expiry, deleting, forgotten>>
vars    == <<now, pc, serving, keys, log, faults, executed>>

Init ==
  /\ now = 1
  /\ pc = [p \in Processes |-> "idle"]
  /\ request = [p \in Processes |-> NoRequest]
  /\ arrived = [p \in Processes |-> 0] /\ seen = [p \in Processes |-> 0]
  /\ known = {} /\ expiry = [k \in Keys |-> 0] /\ deleting = {}
  /\ log = {} /\ faults = 0
  /\ executed = [q \in Requests |-> [t \in 1..MaxTime |-> 0]] /\ forgotten = 0
----------------------------------------------------------------------------
Row(p) == [number |-> KeyNumber[KeyOf[request[p]]], hash |-> request[p],
           time |-> arrived[p]]

\* What is written into the log has the time the request arrived at.  The
\* INSERT may fail: nobody looks.
\* Mutant: a request is only logged the first time.
KeepFirst(p) == IF \E row \in log : row.hash = request[p] THEN log ELSE log \cup {Row(p)}
Logged(p) == log \cup {Row(p)}

LogRequest(p) ==
  \/ log' = Logged(p) /\ UNCHANGED faults
  \/ faults < MaxFaults /\ faults' = faults + 1 /\ UNCHANGED log

Finish(p) ==
  /\ pc' = [pc EXCEPT ![p] = "idle"]
  /\ request' = [request EXCEPT ![p] = NoRequest]
  /\ arrived' = [arrived EXCEPT ![p] = 0] /\ seen' = [seen EXCEPT ![p] = 0]

\* main(): a request comes in, for the first time or once more.
Accept(p) ==
  /\ pc[p] = "idle"
  /\ \E q \in Requests : request' = [request EXCEPT ![p] = q]
  /\ arrived' = [arrived EXCEPT ![p] = now]
  /\ pc' = [pc EXCEPT ![p] = "reading"]
  /\ UNCHANGED <<now, seen, keys, log, faults, executed>>

\* processXml(): its content was read.  Without a key in it yet, a request whose
\* date is too far from the local time is refused.
TooSkewed(q, time) == time - DateOf[q] > Skew \/ DateOf[q] - time > Skew

ReadContent(p) ==
  /\ pc[p] = "reading"
  /\ IF TooSkewed(request[p], now)
       THEN Finish(p)
       ELSE /\ seen' = [seen EXCEPT ![p] = now]
            /\ pc' = [pc EXCEPT ![p] = "key"]
            /\ UNCHANGED <<request, arrived>>
  /\ UNCHANGED <<now, keys, log, faults, executed>>

\* AuthSQL::getKey(): an unknown key is refused, an expired one too, with a row
\* that names key and signature.
Expired(k, time) == expiry[k] - time < 0

GetKey(p) ==
  LET k == KeyOf[request[p]] IN
  /\ pc[p] = "key"
  /\ \/ k \notin known /\ Finish(p) /\ UNCHANGED <<log, faults>>
     \/ k \in known /\ Expired(k, seen[p]) /\ Finish(p) /\ LogRequest(p)
     \/ /\ k \in known /\ ~Expired(k, seen[p])
        /\ pc' = [pc EXCEPT ![p] = "search"]
        /\ UNCHANGED <<serving, log, faults>>
  /\ UNCHANGED <<now, keys, executed>>

\* findLastRequestTime(), 0 when there is none.
Issued(p) == {row.time : row \in {r \in log : r.number = Row(p).number
                                              /\ r.hash = request[p]}}
LastRequestTime(p) == IF Issued(p) = {} THEN 0 ELSE Max(Issued(p))

TooSoon(p) == LastRequestTime(p) > 0 /\ seen[p] - LastRequestTime(p) < Minute

\* A request that was not found goes on; so does one that was not looked for,
\* for the SELECT failed: findLastRequestTime() returns 0 all the same.
FindLastRequest(p) ==
  /\ pc[p] = "search"
  /\ \/ TooSoon(p) /\ Finish(p) /\ UNCHANGED faults
     \/ /\ \/ ~TooSoon(p) /\ UNCHANGED faults
           \/ faults < MaxFaults /\ faults' = faults + 1
        /\ pc' = [pc EXCEPT ![p] = "execute"]
        /\ UNCHANGED serving
  /\ UNCHANGED <<now, keys, log, executed>>

\* Then its signature is verified: one that does not match is logged.
WrongSignature(p) ==
  /\ pc[p] = "execute"
  /\ Finish(p) /\ LogRequest(p)
  /\ UNCHANGED <<now, keys, executed>>

\* WebAPI::parse() does what it is asked to, then logs the request.
Execute(p) ==
  /\ pc[p] = "execute"
  /\ executed' = [executed EXCEPT ![request[p]] =
                    [t \in 1..MaxTime |-> IF t <= seen[p] /\ seen[p] < t + Minute
                                         THEN @[t] + 1 ELSE @[t]]]
  /\ pc' = [pc EXCEPT ![p] = "log"]
  /\ UNCHANGED <<now, serving, keys, log, faults>>

Log(p) ==
  /\ pc[p] = "log"
  /\ Finish(p) /\ LogRequest(p)
  /\ UNCHANGED <<now, keys, executed>>

\* The process is killed, or the client's request is cut short.
CutShort(p) ==
  /\ pc[p] # "idle" /\ faults < MaxFaults
  /\ Finish(p)
  /\ faults' = faults + 1
  /\ UNCHANGED <<now, keys, log, executed>>
----------------------------------------------------------------------------
\* webapi-key-manager.  Every key has an ID of its own.
CreateKey(k) ==
  /\ expiry[k] = 0
  /\ known' = known \cup {k}
  /\ expiry' = [expiry EXCEPT ![k] = now + Lifetime]
  /\ UNCHANGED <<now, pc, serving, deleting, forgotten, log, faults, executed>>

\* deleteKey() deletes the key, then its usage: the rows with its number, which
\* those of other keys may have.
DeleteKey(k) ==
  /\ k \in known
  /\ known' = known \ {k}
  /\ deleting' = deleting \cup {k}
  /\ UNCHANGED <<now, pc, serving, expiry, forgotten, log, faults, executed>>

DeleteUsage(k) ==
  /\ k \in deleting
  /\ deleting' = deleting \ {k}
  /\ log' = {row \in log : row.number # KeyNumber[k]}
  /\ forgotten' = IF log' = log THEN forgotten ELSE forgotten + 1
  /\ UNCHANGED <<now, pc, serving, known, expiry, faults, executed>>

Tick ==
  /\ now < MaxTime
  /\ now' = now + 1
  /\ UNCHANGED <<pc, serving, keys, log, faults, executed>>

Serve(p) == \/ Accept(p) \/ ReadContent(p) \/ GetKey(p) \/ FindLastRequest(p)
            \/ WrongSignature(p) \/ Execute(p) \/ Log(p) \/ CutShort(p)

Next ==
  \/ \E p \in Processes : Serve(p)
  \/ \E k \in Keys : CreateKey(k) \/ DeleteKey(k) \/ DeleteUsage(k)
  \/ Tick

Spec == Init /\ [][Next]_vars
----------------------------------------------------------------------------
\* In any minute, a request is executed twice at most by one process, and twice
\* as often as there are processes by all of them: once for each that had the
\* request before the minute began, and once for each that then gets it before
\* the first of these was logged.  A row that is lost, or a SELECT that fails,
\* allows for one more; a key that is deleted, whose rows are those of another,
\* for one more by each process.  This is what "request reissued too soon" comes
\* to.
FewPerMinute ==
  \A q \in Requests, time \in 1..MaxTime :
    executed[q][time] <= (2 + forgotten) * Cardinality(Processes) + faults
=============================================================================
