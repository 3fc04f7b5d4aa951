----------------------------- MODULE Delivery -----------------------------
(***************************************************************************)
(* How a slave emails the recipients of one domain, with the libetpan      *)
(* provider: the loop of sendToDomain() (src/src/givemail.cc),             *)
(* SMTPSession::generateMessages(), queueMessage() and dispatchMessages(), *)
(* LibETPANProvider::startSession() and the status updates.                *)
(*                                                                         *)
(* The remote servers, the resolver, the signing library and the database  *)
(* answer what they like.  Recipients are numbers in the order of          *)
(* getRecipients(); a message is the set of recipients added to it.        *)
(* Choosing a server (cycleServers) succeeds or fails.                     *)
(***************************************************************************)
EXTENDS Integers, Sequences, FiniteSets, FiniteSetsExt

CONSTANTS
  NumRecipients,   \* recipients of the domain
  BatchSize,       \* max(100, m_maxMsgsPerServer * MX servers)
  MaxMsgs,         \* m_maxMsgsPerServer
  UnknownReplies,  \* servers may answer what errorToStatusCode() maps to 0
  UpdatesLand,     \* the UPDATE of DBStatusUpdater reaches the recipient
  MaxCrashes,      \* bound on crashes of the slave
  MaxNoServer      \* bound on the failures to find a server

ASSUME DeliveryAssumption ==
  /\ NumRecipients \in Nat
  /\ MaxMsgs \in Nat \ {0}
  /\ BatchSize \in Nat /\ BatchSize >= MaxMsgs
  /\ UnknownReplies \in BOOLEAN
  /\ UpdatesLand \in BOOLEAN
  /\ MaxCrashes \in Nat
  /\ MaxNoServer \in Nat

Recipients == 1..NumRecipients

\* Values of a recipient's entry in LibETPANMessage::m_recipients: not set,
\* authentication failed, unmapped error, success, some mapped error.
Unset == -1
NoAuth == -2
Unmapped == 0
Okay == 250
Refused == 550

VARIABLES
  personalized, \* pDetails->isRecipientPersonalized()
  signed,       \* domainAuth.canSign()
  pc,           \* where sendToDomain() is
  status,       \* [Recipients -> Status column]
  fetched,      \* the recipients of the current batch
  todo,         \* those of them whose message was not created yet
  rest,         \* those queueMessage() has yet to add to its message
  linked,       \* the message queueMessage() works on is in m_messages
  queue,        \* m_messages of the provider
  msgsCount,    \* m_msgsCount
  hasData,      \* m_msgsDataSize # 0
  session,      \* m_session # NULL
  server,       \* m_hostName is set
  code,         \* [Recipients -> code in the recipient's message]
  pending,      \* recipients updateRecipientsStatus() has yet to go through
  resolved,     \* StatusUpdater::m_status
  messageOk,    \* messageOk of generateMessages()
  forced,       \* dispatchMessages() was called with force
  crashes, noServers, \* how often the bounded failures happened
  accepted,     \* history: [Recipients -> times a server took the message]
  tried,        \* history: recipients of a message of a started session
  excused,      \* history: recipients not tried for want of a server, or
                \* in a batch with a signature that failed
  mistaken,     \* history: recipients taken for sent to whose RCPT had an
                \* unmapped answer, or whose message was without data, by
                \* the slave that runs or the one that recorded them
  previousOk    \* history: what generateMessages() returned for the batch before

modes    == <<personalized, signed>>
bounds   == <<crashes, noServers>>
progress == <<fetched, todo, rest, linked, messageOk, forced>>
provider == <<queue, msgsCount, hasData, session, server, code, pending>>
history  == <<accepted, tried, excused, mistaken, previousOk>>
vars == <<modes, pc, status, progress, provider, resolved, bounds, history>>

\* The first n elements of a set of recipients, in the order of the map.
FirstOf(n, S) == {r \in S : Cardinality({q \in S : q <= r}) <= n}

\* A message as the provider's queue holds it.
NewMessage == [to |-> {}, sent |-> FALSE, alive |-> TRUE]
Addressees == UNION {queue[i].to : i \in DOMAIN queue}
----------------------------------------------------------------------------
FreshProcess ==
  /\ pc' = "fetch"
  /\ fetched' = {} /\ todo' = {} /\ rest' = {}
  /\ linked' = FALSE /\ messageOk' = TRUE /\ forced' = FALSE
  /\ queue' = <<>> /\ msgsCount' = 0 /\ hasData' = FALSE
  /\ session' = FALSE /\ server' = FALSE
  /\ code' = [r \in Recipients |-> Unset]
  /\ pending' = {} /\ resolved' = {}
  /\ previousOk' = TRUE

Init ==
  /\ personalized \in BOOLEAN
  /\ signed \in BOOLEAN
  /\ pc = "fetch"
  /\ status = [r \in Recipients |-> "Waiting"]
  /\ fetched = {} /\ todo = {} /\ rest = {}
  /\ linked = FALSE /\ messageOk = TRUE /\ forced = FALSE
  /\ queue = <<>> /\ msgsCount = 0 /\ hasData = FALSE
  /\ session = FALSE /\ server = FALSE
  /\ code = [r \in Recipients |-> Unset]
  /\ pending = {} /\ resolved = {}
  /\ crashes = 0 /\ noServers = 0
  /\ accepted = [r \in Recipients |-> 0]
  /\ tried = {} /\ excused = {} /\ mistaken = {}
  /\ previousOk = TRUE
----------------------------------------------------------------------------
\* getRecipients(..., "Waiting", ...): the next batch, or the end.
Waiting == {r \in Recipients : status[r] = "Waiting"}

FetchBatch ==
  /\ pc = "fetch"
  /\ Waiting # {}
  /\ fetched' = FirstOf(BatchSize, Waiting)
  /\ todo' = fetched'
  /\ code' = [r \in Recipients |-> IF r \in fetched' THEN Unset ELSE code[r]]
  /\ messageOk' = TRUE
  /\ forced' = FALSE
  /\ pc' = "generate"
  /\ UNCHANGED <<modes, status, rest, linked, queue, msgsCount, hasData,
                 session, server, pending, resolved, bounds, history>>

NoneWaiting ==
  /\ pc = "fetch"
  /\ Waiting = {}
  /\ pc' = "done"
  /\ UNCHANGED <<modes, status, progress, provider, resolved, bounds,
                 history>>

\* The recipients of the next message generateMessages() creates.
NextMessage == IF personalized THEN FirstOf(1, todo) ELSE todo

\* newMessage() and the head of queueMessage(): createSession() has or makes
\* a session with a server, the provider queues the message.
QueueMessage ==
  /\ pc = "generate"
  /\ todo # {}
  /\ todo' = todo \ NextMessage
  /\ rest' = NextMessage
  /\ session' = TRUE
  /\ server' = (server \/ ~session)
  /\ queue' = Append(queue, NewMessage)
  /\ linked' = TRUE
  /\ pc' = "add"
  /\ UNCHANGED <<modes, status, fetched, messageOk, forced, msgsCount,
                 hasData, code, pending, resolved, bounds, history>>

\* The same when createSession() needs a server and cycleServers() fails.
\* The provider keeps the session, which passes for a good one next time.
QueueMessageNoServer ==
  /\ pc = "generate"
  /\ todo # {}
  /\ ~session
  /\ noServers < MaxNoServer
  /\ noServers' = noServers + 1
  /\ todo' = todo \ NextMessage
  /\ session' = TRUE
  /\ server' = FALSE
  /\ messageOk' = FALSE
  /\ excused' = excused \cup NextMessage
  /\ UNCHANGED <<modes, pc, status, fetched, rest, linked, forced, queue,
                 msgsCount, hasData, code, pending, resolved, crashes,
                 accepted, tried, mistaken, previousOk>>

\* One turn of queueMessage()'s loop: add as many recipients as the server
\* allows, build, sign, and dispatch if that makes enough.  A message that
\* is not in the provider's queue any more takes recipients all the same.
\* Building may fail as well, which signMessage() does not tell of: what it
\* leaves is looked at by SendMessage, where it is chosen.
\* Mutant: the limit is ignored.
WholeMessage == rest
Chunk == FirstOf(MaxMsgs - msgsCount, rest)

AddRecipients ==
  /\ pc = "add"
  /\ queue' = IF linked THEN [queue EXCEPT ![Len(queue)].to = @ \cup Chunk]
              ELSE queue
  /\ msgsCount' = msgsCount + Cardinality(Chunk)
  /\ \/ /\ rest' = rest \ Chunk
        /\ hasData' = (hasData \/ signed)
        /\ pc' = IF msgsCount' >= MaxMsgs THEN "session" ELSE "generate"
        /\ UNCHANGED <<messageOk, excused>>
     \/ /\ signed                          \* signing is broken
        /\ rest' = {}
        /\ messageOk' = FALSE
        /\ excused' = excused \cup fetched
        /\ pc' = "generate"
        /\ UNCHANGED hasData
  /\ UNCHANGED <<modes, status, fetched, todo, linked, forced, session,
                 server, code, pending, resolved, bounds, accepted, tried,
                 mistaken, previousOk>>

\* "Force a send": dispatchMessages(pUpdater, true), unless no signed data
\* has been queued.  Mutant: it is not called.
NothingToSend == FALSE
MustSend == hasData /\ msgsCount > 0

ForceSend ==
  /\ pc = "generate"
  /\ todo = {}
  /\ messageOk' = (messageOk /\ hasData)
  /\ forced' = TRUE
  /\ pc' = IF MustSend THEN "session" ELSE "delete"
  /\ UNCHANGED <<modes, status, fetched, todo, rest, linked, provider,
                 resolved, bounds, history>>
----------------------------------------------------------------------------
\* dispatchMessages() and LibETPANProvider::startSession().

\* A message deleted by an earlier generateMessages() is still in m_messages:
\* reading it is undefined, and the model stops there.
ReadDeleted ==
  /\ pc = "session"
  /\ \E i \in DOMAIN queue : ~queue[i].alive
  /\ pc' = "undefined"
  /\ UNCHANGED <<modes, status, progress, provider, resolved, bounds,
                 history>>

\* No message, or no connection: nothing is sent, yet startSession() returns
\* true.  When authentication fails every recipient is told so.
NoConnection ==
  /\ pc = "session"
  /\ \A i \in DOMAIN queue : queue[i].alive
  /\ code' \in {code, [r \in Recipients |->
                        IF server /\ r \in Addressees THEN NoAuth ELSE code[r]]}
  /\ pending' = Addressees
  /\ tried' = tried \cup Addressees
  /\ pc' = "update"
  /\ UNCHANGED <<modes, status, progress, queue, msgsCount, hasData, session,
                 server, resolved, bounds, accepted, excused, mistaken,
                 previousOk>>

Connect ==
  /\ pc = "session"
  /\ \A i \in DOMAIN queue : queue[i].alive
  /\ queue # <<>>
  /\ server
  /\ tried' = tried \cup Addressees
  /\ pc' = "mail"
  /\ UNCHANGED <<modes, status, progress, provider, resolved, bounds,
                 accepted, excused, mistaken, previousOk>>

Unsent == {i \in DOMAIN queue : ~queue[i].sent}
NextUnsent  == CHOOSE i \in Unsent : \A j \in Unsent : i <= j

\* What a server may answer to RCPT, and the code it is mapped to.
Replies == IF UnknownReplies THEN {Okay, Refused, Unmapped} ELSE {Okay, Refused}

\* "statusCode <= 250".  Mutant: whatever the server answers.
AnyReply(reply) == TRUE
Succeeded(reply) == reply # Refused

\* m_sent = true.  Mutant: not set.
Unmarked(i) == queue
Marked(i)   == [queue EXCEPT ![i].sent = TRUE]

\* One message: MAIL, a RCPT per recipient, DATA.  A mapped error of RCPT is
\* recorded at once; any other answer counts as a success, and the recipients
\* it leaves unset get the outcome of DATA.  The message may be accepted
\* although its answer is lost.  There is no DATA for a message buildMessage()
\* has left without m_pString (data is FALSE), signed or not: the outcome is
\* the answer to the RCPT of whichever recipient came last.
SendMessage ==
  /\ pc = "mail"
  /\ Unsent # {}
  /\ \E reply \in [queue[NextUnsent].to -> Replies],
        outcome \in {Okay, Refused, Unmapped}, data, lost \in BOOLEAN :
       LET to == queue[NextUnsent].to
           candidates == {r \in to : Succeeded(reply[r])}
           taken == {r \in to : reply[r] = Okay} IN
       /\ lost => outcome = Unmapped /\ data
       /\ ~data => to = {} \/ \E last \in to : outcome = reply[last]
       /\ code' = [r \in Recipients |->
                    IF r \in to \ candidates THEN Refused
                    ELSE IF r \in candidates /\ code[r] = Unset THEN outcome
                    ELSE code[r]]
       /\ accepted' = [r \in Recipients |->
                        IF r \in taken /\ data /\ (outcome = Okay \/ lost)
                        THEN accepted[r] + 1 ELSE accepted[r]]
       /\ mistaken' = mistaken \cup
                        {r \in to : outcome = Okay /\ (data => reply[r] = Unmapped)}
  /\ queue' = Marked(NextUnsent)
  /\ UNCHANGED <<modes, pc, status, progress, msgsCount, hasData, session,
                 server, pending, resolved, bounds, tried, excused,
                 previousOk>>

\* MAIL fails: this message and those behind it are left as they are.
MailRefused ==
  /\ pc = "mail"
  /\ Unsent # {}
  /\ queue' = Marked(NextUnsent)
  /\ pending' = Addressees
  /\ pc' = "update"
  /\ UNCHANGED <<modes, status, progress, msgsCount, hasData, session, server,
                 code, resolved, bounds, history>>

Quit ==
  /\ pc = "mail"
  /\ Unsent = {}
  /\ pending' = Addressees
  /\ pc' = "update"
  /\ UNCHANGED <<modes, status, progress, queue, msgsCount, hasData, session,
                 server, code, resolved, bounds, history>>
----------------------------------------------------------------------------
\* LibETPANProvider::updateRecipientsStatus(), one UPDATE at a time.
\* Mutant: what failed is left waiting, to be tried again.
Retried(c)  == IF c = Okay THEN "Sent" ELSE "Waiting"
StatusOf(c) == IF c = Okay THEN "Sent" ELSE "Failed"

UpdateRecipient ==
  /\ pc = "update"
  /\ pending # {}
  /\ \E r \in FirstOf(1, pending) :
       /\ status' = IF UpdatesLand THEN [status EXCEPT ![r] = StatusOf(code[r])]
                    ELSE status
       /\ pending' = pending \ {r}
       /\ resolved' = resolved \cup {r}
  /\ UNCHANGED <<modes, pc, progress, queue, msgsCount, hasData, session,
                 server, code, bounds, history>>

\* The rest of dispatchMessages(): forget the messages, destroy the session
\* and make one for the next batch.  If there is no server for it, what
\* queueMessage() had left to add is abandoned.
NextSession ==
  /\ pc = "update"
  /\ pending = {}
  /\ queue' = <<>>
  /\ msgsCount' = 0
  /\ hasData' = FALSE
  /\ linked' = FALSE
  /\ session' = TRUE
  /\ \/ /\ server' = TRUE
        /\ pc' = IF forced THEN "delete"
                 ELSE IF rest # {} THEN "add" ELSE "generate"
        /\ UNCHANGED <<rest, messageOk, noServers, excused>>
     \/ /\ noServers < MaxNoServer
        /\ noServers' = noServers + 1
        /\ server' = FALSE
        /\ messageOk' = FALSE
        /\ excused' = excused \cup rest
        /\ rest' = {}
        /\ pc' = IF forced THEN "delete" ELSE "generate"
  /\ UNCHANGED <<modes, status, fetched, todo, forced, code, pending,
                 resolved, crashes, accepted, tried, mistaken, previousOk>>

\* generateMessages() deletes the messages it created, wherever they are, and
\* when it failed sendToDomain() fails the recipients without a status.
\* Mutant: all recipients of the batch.
All        == fetched
Unresolved == fetched \ resolved

DeleteMessages ==
  /\ pc = "delete"
  /\ queue' = [i \in DOMAIN queue |-> [queue[i] EXCEPT !.alive = FALSE]]
  /\ status' = [r \in Recipients |->
                 IF UpdatesLand /\ ~messageOk /\ r \in Unresolved
                 THEN "Failed" ELSE status[r]]
  /\ resolved' = {}
  /\ fetched' = {}
  /\ linked' = FALSE
  /\ previousOk' = messageOk
  /\ pc' = "fetch"
  /\ UNCHANGED <<modes, todo, rest, messageOk, forced, msgsCount, hasData,
                 session, server, code, pending, bounds, accepted, tried,
                 excused, mistaken>>
----------------------------------------------------------------------------
\* The process dies and the daemon restarts it.
Crash ==
  /\ pc \notin {"done", "undefined"}
  /\ crashes < MaxCrashes
  /\ crashes' = crashes + 1
  /\ FreshProcess
  /\ mistaken' = mistaken \ Waiting
  /\ UNCHANGED <<modes, status, noServers, accepted, tried, excused>>

Ended == pc \in {"done", "undefined"} /\ UNCHANGED vars

Step ==
  \/ FetchBatch \/ NoneWaiting
  \/ QueueMessage \/ QueueMessageNoServer \/ AddRecipients \/ ForceSend
  \/ ReadDeleted \/ NoConnection \/ Connect
  \/ SendMessage \/ MailRefused \/ Quit
  \/ UpdateRecipient \/ NextSession \/ DeleteMessages

Next == Step \/ Crash \/ Ended

Spec == Init /\ [][Next]_vars

\* The slave keeps running; the calls it makes all return.
FairSpec == Spec /\ WF_vars(Step)
----------------------------------------------------------------------------
(***************************************************************************)
(* Properties                                                              *)
(***************************************************************************)

\* Every variable keeps its type, and the counters their bounds.
TypeOK ==
  /\ personalized \in BOOLEAN /\ signed \in BOOLEAN
  /\ pc \in {"fetch", "generate", "add", "session", "mail", "update", "delete",
             "done", "undefined"}
  /\ status \in [Recipients -> {"Waiting", "Sent", "Failed"}]
  /\ {fetched, todo, rest, pending, resolved, tried, excused,
      mistaken} \subseteq SUBSET Recipients
  /\ {linked, messageOk, forced, hasData, session, server, previousOk} \subseteq BOOLEAN
  /\ \A i \in DOMAIN queue :
       queue[i] \in [to : SUBSET Recipients, sent : BOOLEAN, alive : BOOLEAN]
  /\ linked => queue # <<>>
  /\ msgsCount \in 0..MaxMsgs
  /\ code \in [Recipients -> {Unset, NoAuth, Unmapped, Okay, Refused}]
  /\ accepted \in [Recipients -> Nat]
  /\ crashes \in 0..MaxCrashes
  /\ noServers \in 0..MaxNoServer

\* A recipient is only reported as sent to when a server has accepted a
\* message for it, but for those startSession() is mistaken about: it takes an
\* answer to RCPT it cannot map for a success, and a message without data for
\* delivered.
SentMeansAccepted ==
  \A r \in Recipients : status[r] = "Sent" => accepted[r] > 0 \/ r \in mistaken

\* No recipient gets the message twice, unless the slave died in between:
\* the status of a recipient is recorded before it is fetched again.
NoDuplicates ==
  \A r \in Recipients : accepted[r] <= 1 + crashes

\* With messages that are personalized and signed, and servers that take several,
\* a recipient is only failed after a session was started for its message, unless
\* there was no server or no signature to be had.
FailedMeansTried ==
  personalized /\ signed /\ MaxMsgs > 1 =>
    \A r \in Recipients : status[r] = "Failed" => r \in tried \cup excused

\* A status once recorded is not changed by the same slave or a restarted one.
StatusIsFinal ==
  [][\A r \in Recipients : status[r] # "Waiting" => status'[r] = status[r]]_vars

Life == INSTANCE RecipientLife WITH restarts <- crashes

\* What becomes of the recipients is one of the lives RecipientLife gives them:
\* their message is taken once each time the slave is started, before they have a
\* status; they get one status, and it is Sent only after that, or after the slave
\* was mistaken about the recipient.
RecipientsLife == Life!RecipientLifeSpec

\* What the threads of SlaveThreads take a batch for is what it is.  A status
\* counts when its batch is over: until then only the status updater knows of it.
\* A batch that was sent has got a recipient a status, except that the one after a
\* batch that failed may be spent on the messages counted there and never queued.
Unfinished == Waiting \cup resolved

Rounds == INSTANCE BatchRounds WITH
  waiting <- Cardinality(Unfinished), batch <- Cardinality(fetched),
  failed <- ~previousOk, restarts <- crashes

RoundByRound == Rounds!BatchRoundsSpec

\* sendToDomain() ends: each round of its loop resolves at least a recipient.
Terminates == <>(pc \in {"done", "undefined"})
=============================================================================
