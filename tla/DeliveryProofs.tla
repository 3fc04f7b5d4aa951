--------------------------- MODULE DeliveryProofs ---------------------------
(***************************************************************************)
(* Proofs about the delivery to a domain, for any number of recipients,    *)
(* any size of batches and messages, and any number of failures.           *)
(***************************************************************************)
EXTENDS Delivery, TLAPS, FiniteSetTheorems, SequenceTheorems, WellFoundedInduction

Message == [to : SUBSET Recipients, sent : BOOLEAN, alive : BOOLEAN]

\* The type invariant, with one conjunct per variable.
TypeInv ==
  /\ personalized \in BOOLEAN /\ signed \in BOOLEAN
  /\ pc \in {"fetch", "generate", "add", "session", "mail", "update", "delete",
             "done", "undefined"}
  /\ status \in [Recipients -> {"Waiting", "Sent", "Failed"}]
  /\ fetched \subseteq Recipients /\ todo \subseteq Recipients /\ rest \subseteq Recipients
  /\ pending \subseteq Recipients /\ resolved \subseteq Recipients
  /\ tried \subseteq Recipients /\ excused \subseteq Recipients /\ mistaken \subseteq Recipients
  /\ linked \in BOOLEAN /\ messageOk \in BOOLEAN /\ forced \in BOOLEAN
  /\ hasData \in BOOLEAN /\ session \in BOOLEAN /\ server \in BOOLEAN
  /\ previousOk \in BOOLEAN
  /\ queue \in Seq(Message)
  /\ linked => queue # <<>>
  /\ msgsCount \in 0..MaxMsgs
  /\ code \in [Recipients -> {Unset, NoAuth, Unmapped, Okay, Refused}]
  /\ accepted \in [Recipients -> Nat]
  /\ crashes \in 0..MaxCrashes
  /\ noServers \in 0..MaxNoServer

Alive == {i \in DOMAIN queue : queue[i].alive}
AllAlive == \A i \in DOMAIN queue : queue[i].alive

\* Outside of a session nothing is half done; a batch is over when nothing is
\* left to create or to add.
Phases ==
  /\ pc \in {"fetch", "generate", "delete", "done"} \/ forced => rest = {}
  /\ pc \in {"fetch", "delete", "done"} \/ forced => todo = {}
  /\ pc \in {"fetch", "done"} => fetched = {} /\ resolved = {} /\ Alive = {}
  /\ pc \in {"mail", "update"} => AllAlive
  /\ pc # "update" => pending = {}
  /\ pc \notin {"mail", "update"} => \A i \in Alive : ~queue[i].sent

\* No recipient is at two places: to create, to add, or in one of the messages.
OnePlace ==
  /\ todo \cap rest = {}
  /\ \A i \in Alive : queue[i].to \cap (todo \cup rest) = {}
  /\ \A i, j \in Alive : i # j => queue[i].to \cap queue[j].to = {}

\* What is still dealt with has no status yet.
StillWaiting ==
  /\ todo \cup rest \subseteq fetched \ resolved
  /\ pc # "update" => \A i \in Alive : queue[i].to \subseteq fetched \ resolved
  /\ pending \subseteq Addressees \cap (fetched \ resolved)
  /\ \A r \in fetched \ resolved : status[r] = "Waiting"

\* A recipient whose message was accepted since the slave was started has a
\* status, or it is about to get one.
InSentMessage(r) == \E i \in DOMAIN queue : queue[i].sent /\ r \in queue[i].to
AcceptedOnce ==
  UpdatesLand => \A r \in Recipients :
    /\ accepted[r] <= 1 + crashes
    /\ accepted[r] > crashes => \/ status[r] # "Waiting"
                                \/ pc = "mail" /\ InSentMessage(r)
                                \/ pc = "update" /\ r \in pending

\* The code of a success comes from a server that took the message, or from a
\* mistake.
OkayMeansAccepted ==
  \A r \in Recipients :
    code[r] = Okay \/ status[r] = "Sent" => accepted[r] > 0 \/ r \in mistaken

\* With messages to one recipient each, a recipient of the batch still has its
\* turn to come, unless it was tried or excused.  The exceptions are a signature
\* that failed, which excuses the batch but may leave the provider's counter at
\* its limit, and messages that were deleted, with which no session goes on.
Broken == fetched \subseteq excused
Turns ==
  /\ pc \in {"mail", "update"} => Addressees \subseteq tried
  /\ \A r \in fetched : \/ r \in todo \cup rest \cup tried \cup excused
                       \/ \E i \in Alive : r \in queue[i].to
  /\ pc = "delete" => fetched \subseteq tried \cup excused
  /\ \A r, q \in rest : r = q
  /\ linked => Len(queue) \in Alive
  /\ pc \in {"session", "mail", "update"} /\ rest # {} => Broken \/ ~AllAlive
  /\ pc = "add" /\ ~linked => Broken /\ queue = <<>> /\ msgsCount = 0
  /\ queue = <<>> => msgsCount <= 1
  /\ pc \in {"fetch", "generate", "add"} /\ msgsCount = MaxMsgs =>
       (pc # "fetch" /\ Broken) \/ ~AllAlive
  /\ pc \in {"generate", "add"} /\ (\E i \in Alive : queue[i].to # {}) =>
       Broken \/ (hasData /\ msgsCount > 0)
  /\ FailedMeansTried
TurnToCome == personalized /\ signed /\ MaxMsgs > 1 => Turns

IInv == /\ TypeInv /\ Phases /\ OnePlace /\ StillWaiting
        /\ AcceptedOnce /\ OkayMeansAccepted /\ TurnToCome
----------------------------------------------------------------------------
\* A non-empty set of numbers has a smallest element.
LEMMA SmallestOf ==
  ASSUME NEW S \in SUBSET Nat, S # {}
  PROVE  \E m \in S : \A k \in S : m <= k
<1>1. \E m \in S : \A k \in S : ~ (<<k, m>> \in OpToRel(<, Nat))
  BY NatLessThanWellFounded, WFMin
<1>2. PICK m \in S : \A k \in S : ~ (<<k, m>> \in OpToRel(<, Nat))
  BY <1>1
<1>3. ASSUME NEW k \in S PROVE m <= k
  <2>1. k \in Nat /\ m \in Nat
    OBVIOUS
  <2>2. <<k, m>> \in OpToRel(<, Nat) <=> k < m
    BY <2>1 DEF OpToRel
  <2>3. ~ (k < m)
    BY <1>2, <2>2
  <2> QED
    BY <2>1, <2>3
<1> QED
  BY <1>3

LEMMA LargestUpTo ==
  ASSUME NEW n \in Nat, NEW S \in SUBSET (0..n), S # {}
  PROVE  \E m \in S : \A k \in S : k <= m
<1> DEFINE T == {n - k : k \in S}
<1>1. T \in SUBSET Nat /\ T # {}
  <2>1. \A k \in S : n - k \in Nat
    OBVIOUS
  <2>2. ASSUME NEW t \in T PROVE t \in Nat
    BY <2>1, <2>2
  <2> QED
    BY <2>2
<1>2. PICK t \in T : \A k \in T : t <= k
  BY <1>1, SmallestOf
<1>3. PICK m \in S : t = n - m
  OBVIOUS
<1>4. ASSUME NEW k \in S PROVE k <= m
  <2>1. n - k \in T
    OBVIOUS
  <2>2. n - m <= n - k
    BY <1>2, <1>3, <2>1
  <2>3. k \in 0..n /\ m \in 0..n
    OBVIOUS
  <2> QED
    BY <2>2, <2>3
<1> QED
  BY <1>4

\* Recipients are finitely many.
LEMMA RecipientsFinite ==
  ASSUME NEW S \in SUBSET Recipients
  PROVE  IsFiniteSet(S) /\ Cardinality(S) \in Nat
<1>1. IsFiniteSet(Recipients)
  BY FS_Interval, DeliveryAssumption DEF Recipients
<1> QED
  BY <1>1, FS_Subset, FS_CardinalityType

\* The first n recipients are n at most, and all of them when they are fewer.
LEMMA FirstOfFacts ==
  ASSUME NEW n \in Nat, NEW S \in SUBSET Recipients
  PROVE  /\ FirstOf(n, S) \subseteq S
         /\ Cardinality(FirstOf(n, S)) \in 0..n
         /\ Cardinality(FirstOf(n, S)) < n => FirstOf(n, S) = S
<1> DEFINE F == FirstOf(n, S)
           UpTo(r) == {q \in S : q <= r}
<1>1. F \subseteq S /\ F = {r \in S : Cardinality(UpTo(r)) <= n}
  BY DEF FirstOf
<1>2. S \subseteq 0..NumRecipients /\ S \subseteq Nat
  BY DeliveryAssumption DEF Recipients
<1>3. \A T \in SUBSET S : IsFiniteSet(T) /\ Cardinality(T) \in Nat
  BY RecipientsFinite
<1>4. Cardinality(F) <= n
  <2>1. CASE F = {}
    BY <2>1, FS_EmptySet
  <2>2. CASE F # {}
    <3>1. PICK m \in F : \A k \in F : k <= m
      BY <1>1, <1>2, <2>2, LargestUpTo, DeliveryAssumption
    <3>2. F \subseteq UpTo(m) /\ UpTo(m) \subseteq S
      BY <1>1, <3>1
    <3>3. Cardinality(F) <= Cardinality(UpTo(m))
      BY <1>3, <3>2, FS_Subset
    <3> HIDE DEF UpTo
    <3> QED
      BY <1>1, <1>3, <3>1, <3>2, <3>3
  <2> QED
    BY <2>1, <2>2
<1>5. ASSUME F # S PROVE n <= Cardinality(F)
  <2>1. PICK m \in S \ F : \A k \in S \ F : m <= k
    <3>1. S \ F \in SUBSET Nat /\ S \ F # {}
      BY <1>1, <1>2, <1>5
    <3> QED
      BY <3>1, SmallestOf
  <2>2. UpTo(m) \subseteq F \cup {m} /\ UpTo(m) \subseteq S
    <3>1. ASSUME NEW q \in UpTo(m), q \notin F PROVE q = m
      <4>1. q \in S \ F /\ q <= m /\ m <= q
        BY <2>1, <3>1
      <4> QED
        BY <1>2, <2>1, <4>1
    <3> QED
      BY <3>1
  <2>3. Cardinality(UpTo(m)) > n
    <3>1. ~(Cardinality(UpTo(m)) <= n)
      BY <1>1, <2>1
    <3>2. Cardinality(UpTo(m)) \in Nat
      BY <1>3, <2>2
    <3> HIDE DEF UpTo
    <3> QED
      BY <3>1, <3>2
  <2>4. Cardinality(F \cup {m}) = Cardinality(F) + 1 /\ IsFiniteSet(F \cup {m})
    <3>1. IsFiniteSet(F) /\ m \notin F
      BY <1>1, <1>3, <2>1
    <3> HIDE DEF F
    <3> QED
      BY <3>1, FS_AddElement
  <2>5. Cardinality(UpTo(m)) <= Cardinality(F \cup {m})
    BY <2>2, <2>4, FS_Subset
  <2>6. Cardinality(UpTo(m)) \in Nat /\ Cardinality(F) \in Nat
    BY <1>1, <1>3, <2>2
  <2> HIDE DEF UpTo, F
  <2> QED
    BY <2>3, <2>4, <2>5, <2>6
<1>6. Cardinality(F) \in Nat
  BY <1>1, <1>3
<1> QED
  BY <1>1, <1>4, <1>5, <1>6
----------------------------------------------------------------------------
\* What the operations on the queue of the provider do to it.
LEMMA QueueAppended ==
  ASSUME NEW q \in Seq(Message), NEW p, p = Append(q, NewMessage)
  PROVE  /\ p \in Seq(Message) /\ p # <<>>
         /\ DOMAIN q = 1..Len(q) /\ Len(q) \in Nat
         /\ DOMAIN p = 1..(Len(q) + 1)
         /\ \A i \in DOMAIN q : p[i] = q[i]
         /\ p[Len(q) + 1] = NewMessage
         /\ NewMessage = [to |-> {}, sent |-> FALSE, alive |-> TRUE]
<1>1. NewMessage \in Message
  BY DEF NewMessage, Message
<1>2. /\ p \in Seq(Message) /\ Len(p) = Len(q) + 1 /\ p # <<>>
      /\ \A i \in 1..Len(q) : p[i] = q[i]
      /\ p[Len(q) + 1] = NewMessage
  BY <1>1, AppendProperties
<1> QED
  BY <1>2, LenProperties DEF NewMessage

LEMMA QueueExtended ==
  ASSUME NEW q \in Seq(Message), q # <<>>, NEW S \in SUBSET Recipients,
         NEW p, p = [q EXCEPT ![Len(q)].to = @ \cup S]
  PROVE  /\ p \in Seq(Message) /\ p # <<>>
         /\ DOMAIN q = 1..Len(q) /\ DOMAIN p = DOMAIN q
         /\ Len(q) \in DOMAIN q
         /\ \A i \in DOMAIN q :
              /\ p[i].to = IF i = Len(q) THEN q[i].to \cup S ELSE q[i].to
              /\ p[i].sent = q[i].sent
              /\ p[i].alive = q[i].alive
<1> DEFINE n == Len(q)
           m == [q[n] EXCEPT !.to = @ \cup S]
<1>1. n \in 1..Len(q) /\ DOMAIN q = 1..Len(q)
  BY EmptySeq, LenProperties
<1>2. q[n] \in Message
  BY <1>1, ElementOfSeq
<1>3. m \in Message /\ m.to = q[n].to \cup S /\ m.sent = q[n].sent /\ m.alive = q[n].alive
  BY <1>2 DEF Message
<1>4. p = [q EXCEPT ![n] = m]
  OBVIOUS
<1> HIDE DEF m, n
<1>5. /\ p \in Seq(Message) /\ Len(p) = Len(q)
      /\ \A j \in 1..Len(q) : p[j] = IF j = n THEN m ELSE q[j]
  <2>1. /\ [q EXCEPT ![n] = m] \in Seq(Message)
        /\ Len([q EXCEPT ![n] = m]) = Len(q)
        /\ \A j \in 1..Len(q) : [q EXCEPT ![n] = m][j] = IF j = n THEN m ELSE q[j]
    BY <1>1, <1>3, ExceptSeq, Zenon
  <2> QED
    BY <1>4, <2>1, Zenon
<1>6. DOMAIN p = 1..Len(q) /\ p # <<>>
  BY <1>1, <1>5, LenProperties, EmptySeq
<1> QED
  BY <1>1, <1>3, <1>5, <1>6 DEF n

LEMMA QueueMarked ==
  ASSUME queue \in Seq(Message), NEW n \in DOMAIN queue
  PROVE  /\ Marked(n) \in Seq(Message) /\ Marked(n) # <<>>
         /\ DOMAIN Marked(n) = DOMAIN queue
         /\ \A i \in DOMAIN queue :
              /\ Marked(n)[i].to = queue[i].to
              /\ Marked(n)[i].sent <=> i = n \/ queue[i].sent
              /\ Marked(n)[i].alive = queue[i].alive
<1> DEFINE q == queue
           p == Marked(n)
           m == [q[n] EXCEPT !.sent = TRUE]
<1>1. q \in Seq(Message) /\ n \in 1..Len(q) /\ DOMAIN q = 1..Len(q)
  BY LenProperties
<1>2. q[n] \in Message
  BY <1>1, ElementOfSeq
<1>3. m \in Message /\ m.to = q[n].to /\ m.sent = TRUE /\ m.alive = q[n].alive
  BY <1>2 DEF Message
<1>4. p = [q EXCEPT ![n] = m]
  BY DEF Marked
<1> HIDE DEF m, p, q
<1>5. /\ p \in Seq(Message) /\ Len(p) = Len(q)
      /\ \A j \in 1..Len(q) : p[j] = IF j = n THEN m ELSE q[j]
  <2>1. /\ [q EXCEPT ![n] = m] \in Seq(Message)
        /\ Len([q EXCEPT ![n] = m]) = Len(q)
        /\ \A j \in 1..Len(q) : [q EXCEPT ![n] = m][j] = IF j = n THEN m ELSE q[j]
    BY <1>1, <1>3, ExceptSeq, Zenon
  <2> QED
    BY <1>4, <2>1, Zenon
<1>6. DOMAIN p = 1..Len(q) /\ p # <<>>
  BY <1>1, <1>5, LenProperties, EmptySeq
<1> QED
  BY <1>1, <1>3, <1>5, <1>6 DEF p, q

LEMMA QueueDeleted ==
  ASSUME NEW q \in Seq(Message),
         NEW p, p = [i \in DOMAIN q |-> [q[i] EXCEPT !.alive = FALSE]]
  PROVE  /\ p \in Seq(Message)
         /\ DOMAIN p = DOMAIN q
         /\ (p = <<>> <=> q = <<>>)
         /\ \A i \in DOMAIN q : ~p[i].alive
<1>1. DOMAIN q = 1..Len(q) /\ Len(q) \in Nat /\ \A i \in 1..Len(q) : q[i] \in Message
  BY LenProperties, ElementOfSeq
<1>2. \A i \in 1..Len(q) : p[i] \in Message /\ p[i].alive = FALSE
  BY <1>1 DEF Message
<1>3. p \in Seq(Message) /\ Len(p) = Len(q) /\ DOMAIN p = 1..Len(q)
  BY <1>1, <1>2
<1>4. p = <<>> <=> q = <<>>
  BY <1>3, EmptySeq
<1> QED
  BY <1>1, <1>2, <1>3, <1>4

\* The message that is sent next.
LEMMA NextUnsentFacts ==
  ASSUME queue \in Seq(Message), Unsent # {}
  PROVE  NextUnsent \in DOMAIN queue /\ ~queue[NextUnsent].sent
<1>1. Unsent \in SUBSET Nat
  BY LenProperties DEF Unsent
<1>2. \E i \in Unsent : \A j \in Unsent : i <= j
  BY <1>1, SmallestOf
<1>3. NextUnsent \in Unsent
  BY <1>2, Zenon DEF NextUnsent
<1> QED
  BY <1>3 DEF Unsent

\* Where messages are addressed to.
LEMMA AddresseesFacts ==
  ASSUME queue \in Seq(Message)
  PROVE  /\ Addressees \subseteq Recipients
         /\ \A r : r \in Addressees <=> \E i \in DOMAIN queue : r \in queue[i].to
<1>1. \A i \in DOMAIN queue : queue[i] \in Message
  BY LenProperties, ElementOfSeq
<1>2. \A i \in DOMAIN queue : queue[i].to \subseteq Recipients
  BY <1>1 DEF Message
<1> QED
  BY <1>2 DEF Addressees
----------------------------------------------------------------------------
\* Types.
LEMMA InitTypes == Init => TypeInv
<1> SUFFICES ASSUME Init PROVE TypeInv
  OBVIOUS
<1>1. queue \in Seq(Message)
  BY EmptySeq DEF Init
<1>2. msgsCount \in 0..MaxMsgs /\ crashes \in 0..MaxCrashes /\ noServers \in 0..MaxNoServer
  BY DeliveryAssumption DEF Init
<1>3. code \in [Recipients -> {Unset, NoAuth, Unmapped, Okay, Refused}]
  BY DEF Init
<1> QED
  BY <1>1, <1>2, <1>3 DEF Init, TypeInv

LEMMA TypesImplyTypeOK == TypeInv => TypeOK
<1> SUFFICES ASSUME TypeInv PROVE TypeOK
  OBVIOUS
<1>1. \A i \in DOMAIN queue : queue[i] \in Message
  BY LenProperties, ElementOfSeq DEF TypeInv
<1>2. {fetched, todo, rest, pending, resolved, tried, excused, mistaken}
        \subseteq SUBSET Recipients
  BY DEF TypeInv
<1>3. {linked, messageOk, forced, hasData, session, server, previousOk} \subseteq BOOLEAN
  BY Zenon DEF TypeInv
<1> QED
  BY <1>1, <1>2, <1>3 DEF TypeInv, TypeOK, Message

LEMMA TypeStep ==
  ASSUME TypeInv, [Next]_vars
  PROVE  TypeInv'
<1> USE DEF TypeInv
<1>1. CASE FetchBatch
  <2>1. fetched' \subseteq Recipients
    BY <1>1 DEF FetchBatch, FirstOf, Waiting
  <2> QED
    BY <1>1, <2>1 DEF FetchBatch, modes, provider, bounds, history
<1>2. CASE NoneWaiting
  BY <1>2 DEF NoneWaiting, modes, progress, provider, bounds, history
<1>3. CASE QueueMessage
  <2>1. NextMessage \subseteq Recipients
    BY DEF NextMessage, FirstOf
  <2>2. queue' \in Seq(Message) /\ queue' # <<>>
    BY <1>3, QueueAppended DEF QueueMessage
  <2>3. session' \in BOOLEAN /\ server' \in BOOLEAN
    BY <1>3, Zenon DEF QueueMessage
  <2> QED
    BY <1>3, <2>1, <2>2, <2>3 DEF QueueMessage, modes, bounds, history
<1>4. CASE QueueMessageNoServer
  <2>1. NextMessage \subseteq Recipients
    BY DEF NextMessage, FirstOf
  <2>2. noServers' \in 0..MaxNoServer
    BY <1>4, DeliveryAssumption DEF QueueMessageNoServer
  <2> QED
    BY <1>4, <2>1, <2>2 DEF QueueMessageNoServer, modes
<1>5. CASE AddRecipients
  <2>1. MaxMsgs - msgsCount \in Nat /\ MaxMsgs \in Nat
    BY DeliveryAssumption
  <2>2. Chunk \subseteq rest /\ Cardinality(Chunk) \in 0..(MaxMsgs - msgsCount)
    BY <2>1, FirstOfFacts DEF Chunk
  <2>3. queue' \in Seq(Message) /\ (linked => queue' # <<>>)
    BY <1>5, <2>2, QueueExtended DEF AddRecipients
  <2>4. msgsCount' \in 0..MaxMsgs
    BY <1>5, <2>1, <2>2 DEF AddRecipients
  <2>5. hasData' \in BOOLEAN /\ messageOk' \in BOOLEAN
    BY <1>5, Zenon DEF AddRecipients
  <2> QED
    BY <1>5, <2>2, <2>3, <2>4, <2>5 DEF AddRecipients, modes, bounds
<1>6. CASE ForceSend
  <2>1. messageOk' \in BOOLEAN /\ forced' \in BOOLEAN
    BY <1>6, Zenon DEF ForceSend
  <2> QED
    BY <1>6, <2>1 DEF ForceSend, modes, provider, bounds, history
<1>7. CASE ReadDeleted
  BY <1>7 DEF ReadDeleted, modes, progress, provider, bounds, history
<1>8. CASE NoConnection
  BY <1>8, AddresseesFacts DEF NoConnection, modes, progress, bounds
<1>9. CASE Connect
  BY <1>9, AddresseesFacts DEF Connect, modes, progress, provider, bounds
<1>10. CASE SendMessage
  <2>1. NextUnsent \in DOMAIN queue
    BY <1>10, NextUnsentFacts DEF SendMessage
  <2>2. queue' \in Seq(Message) /\ queue' # <<>>
    BY <1>10, <2>1, QueueMarked DEF SendMessage
  <2>3. code' \in [Recipients -> {Unset, NoAuth, Unmapped, Okay, Refused}]
    BY <1>10 DEF SendMessage
  <2>4. accepted' \in [Recipients -> Nat]
    BY <1>10 DEF SendMessage
  <2>5. queue[NextUnsent] \in Message
    BY <2>1, LenProperties, ElementOfSeq
  <2>6. mistaken' \subseteq Recipients
    BY <1>10, <2>5 DEF SendMessage, Message
  <2> QED
    BY <1>10, <2>2, <2>3, <2>4, <2>6 DEF SendMessage, modes, progress, bounds
<1>11. CASE MailRefused
  <2>1. NextUnsent \in DOMAIN queue
    BY <1>11, NextUnsentFacts DEF MailRefused
  <2>2. queue' \in Seq(Message) /\ queue' # <<>>
    BY <1>11, <2>1, QueueMarked DEF MailRefused
  <2> QED
    BY <1>11, <2>2, AddresseesFacts DEF MailRefused, modes, progress, bounds, history
<1>12. CASE Quit
  BY <1>12, AddresseesFacts DEF Quit, modes, progress, bounds, history
<1>13. CASE UpdateRecipient
  <2>1. \A c : StatusOf(c) \in {"Sent", "Failed"}
    BY DEF StatusOf
  <2> QED
    BY <1>13, <2>1 DEF UpdateRecipient, FirstOf, modes, progress, bounds, history
<1>14. CASE NextSession
  <2>1. queue' \in Seq(Message) /\ linked' = FALSE
    BY <1>14, EmptySeq DEF NextSession
  <2>2. msgsCount' \in 0..MaxMsgs /\ noServers' \in 0..MaxNoServer
    BY <1>14, DeliveryAssumption DEF NextSession
  <2>3. server' \in BOOLEAN /\ messageOk' \in BOOLEAN /\ session' \in BOOLEAN
        /\ hasData' \in BOOLEAN
    BY <1>14, Zenon DEF NextSession
  <2>4. rest' \subseteq Recipients /\ excused' \subseteq Recipients
    BY <1>14 DEF NextSession
  <2>5. pc' \in {"delete", "add", "generate"}
    BY <1>14 DEF NextSession
  <2> QED
    BY <1>14, <2>1, <2>2, <2>3, <2>4, <2>5 DEF NextSession, modes
<1>15. CASE DeleteMessages
  <2>1. queue' \in Seq(Message)
    BY <1>15, QueueDeleted DEF DeleteMessages
  <2> QED
    BY <1>15, <2>1 DEF DeleteMessages, modes, bounds, history
<1>16. CASE Crash
  <2>1. queue' \in Seq(Message) /\ linked' = FALSE
    BY <1>16, EmptySeq DEF Crash, FreshProcess
  <2>2. msgsCount' \in 0..MaxMsgs /\ crashes' \in 0..MaxCrashes
    BY <1>16, DeliveryAssumption DEF Crash, FreshProcess
  <2>3. code' \in [Recipients -> {Unset, NoAuth, Unmapped, Okay, Refused}]
    BY <1>16 DEF Crash, FreshProcess
  <2> QED
    BY <1>16, <2>1, <2>2, <2>3 DEF Crash, FreshProcess, modes, history
<1>17. CASE Ended \/ UNCHANGED vars
  BY <1>17 DEF Ended, vars, modes, progress, provider, bounds, history
<1> QED
  BY <1>1, <1>2, <1>3, <1>4, <1>5, <1>6, <1>7, <1>8, <1>9, <1>10, <1>11, <1>12,
     <1>13, <1>14, <1>15, <1>16, <1>17 DEF Next, Step
----------------------------------------------------------------------------
\* Where recipients are.
Places == Phases /\ OnePlace /\ StillWaiting

LEMMA InitPlaces == Init => Places
<1> SUFFICES ASSUME Init PROVE Places
  OBVIOUS
<1>1. Alive = {} /\ Addressees \subseteq {}
  BY DEF Init, Alive, Addressees
<1> QED
  BY <1>1 DEF Init, Places, Phases, OnePlace, StillWaiting

\* Steps that leave the queue, and what is left to do, as they are.
LEMMA QuietStep ==
  ASSUME TypeInv, Places, UNCHANGED <<status, fetched, todo, rest, forced, pending, resolved, queue>>,
         \/ pc' = pc
         \/ pc = "fetch" /\ pc' = "done"
         \/ pc = "session" /\ pc' = "undefined"
         \/ pc = "session" /\ pc' = "mail" /\ AllAlive
  PROVE  Places'
<1>1. Alive' = Alive /\ Addressees' = Addressees
  BY DEF Alive, Addressees
<1> QED
  BY <1>1 DEF Places, Phases, OnePlace, StillWaiting, AllAlive

LEMMA FetchPlaces ==
  ASSUME TypeInv, Places, FetchBatch
  PROVE  Places'
<1>1. Alive' = Alive /\ Alive = {} /\ Addressees' = Addressees /\ resolved' = {}
  BY DEF FetchBatch, Places, Phases, Alive, Addressees
<1>2. todo' = fetched' /\ rest' = {} /\ pending' = {} /\ forced' = FALSE /\ pc' = "generate"
  BY DEF FetchBatch, Places, Phases
<1>3. \A r \in fetched' : status'[r] = "Waiting"
  BY DEF FetchBatch, FirstOf, Waiting
<1> QED
  BY <1>1, <1>2, <1>3 DEF Places, Phases, OnePlace, StillWaiting

LEMMA QueuePlaces ==
  ASSUME TypeInv, Places, QueueMessage
  PROVE  Places'
<1>1. NextMessage \subseteq todo
  BY DEF NextMessage, FirstOf
<1>2. /\ DOMAIN queue = 1..Len(queue) /\ Len(queue) \in Nat
      /\ DOMAIN queue' = 1..(Len(queue) + 1)
      /\ \A i \in DOMAIN queue : queue'[i] = queue[i]
      /\ queue'[Len(queue) + 1] = [to |-> {}, sent |-> FALSE, alive |-> TRUE]
  <2>1. queue \in Seq(Message) /\ queue' = Append(queue, NewMessage)
    BY DEF QueueMessage, TypeInv
  <2> QED
    BY <2>1, QueueAppended, Zenon
<1>3. Alive' = Alive \cup {Len(queue) + 1}
  BY <1>2 DEF Alive
<1>4. Alive \subseteq DOMAIN queue /\ Len(queue) + 1 \notin DOMAIN queue
  BY <1>2 DEF Alive
<1>5. rest = {} /\ forced = FALSE
  BY DEF QueueMessage, Places, Phases, TypeInv
<1>6. rest' = NextMessage /\ todo' = todo \ NextMessage /\ pc = "generate" /\ pc' = "add"
      /\ UNCHANGED <<status, fetched, forced, pending, resolved>>
  BY DEF QueueMessage
<1>7. pending' = {}
  BY <1>6 DEF Places, Phases
<1>8. \A i \in Alive' : queue'[i].to = {} \/ (i \in Alive /\ queue'[i] = queue[i])
  BY <1>2, <1>3, <1>4
<1>9. Phases'
  BY <1>2, <1>3, <1>4, <1>5, <1>6, <1>7 DEF Places, Phases
<1>10. OnePlace'
  BY <1>1, <1>6, <1>8 DEF Places, OnePlace
<1>11. StillWaiting'
  BY <1>1, <1>6, <1>7, <1>8 DEF Places, StillWaiting
<1> QED
  BY <1>9, <1>10, <1>11 DEF Places

LEMMA NoServerPlaces ==
  ASSUME TypeInv, Places, QueueMessageNoServer
  PROVE  Places'
<1>1. Alive' = Alive /\ Addressees' = Addressees /\ todo' \subseteq todo /\ pc = "generate"
      /\ UNCHANGED <<pc, status, fetched, rest, forced, pending, resolved, queue>>
  BY DEF QueueMessageNoServer, Alive, Addressees
<1> QED
  BY <1>1 DEF Places, Phases, OnePlace, StillWaiting

LEMMA AddPlaces ==
  ASSUME TypeInv, Places, AddRecipients
  PROVE  Places'
<1>1. MaxMsgs - msgsCount \in Nat /\ MaxMsgs \in Nat /\ msgsCount \in Nat
  BY DeliveryAssumption DEF TypeInv
<1>2. /\ Chunk \subseteq rest
      /\ Cardinality(Chunk) \in Nat
      /\ Cardinality(Chunk) < MaxMsgs - msgsCount => Chunk = rest
  BY <1>1, FirstOfFacts DEF Chunk, TypeInv
<1>3. pc = "add" /\ pc' \in {"session", "generate"}
      /\ UNCHANGED <<status, fetched, todo, forced, pending, resolved>>
  BY DEF AddRecipients
<1>4. rest' \subseteq rest \ Chunk /\ (pc' = "generate" => rest' = {})
  <2>1. CASE rest' = {}
    BY <2>1
  <2>2. CASE rest' = rest \ Chunk /\ pc' = IF msgsCount' >= MaxMsgs THEN "session" ELSE "generate"
    <3>1. msgsCount' = msgsCount + Cardinality(Chunk)
      BY DEF AddRecipients
    <3>2. pc' = "generate" => Cardinality(Chunk) < MaxMsgs - msgsCount
      BY <1>1, <1>2, <2>2, <3>1
    <3> QED
      BY <1>2, <2>2, <3>2
  <2> QED
    BY <2>1, <2>2 DEF AddRecipients
<1>5. pending' = {}
  BY <1>3 DEF Places, Phases
<1>6. /\ DOMAIN queue' = DOMAIN queue
      /\ \A i \in DOMAIN queue :
           /\ queue'[i].to = queue[i].to \/ (i = Len(queue) /\ queue'[i].to = queue[i].to \cup Chunk)
           /\ queue'[i].sent = queue[i].sent
           /\ queue'[i].alive = queue[i].alive
  <2>1. CASE linked
    BY <1>2, <2>1, QueueExtended DEF AddRecipients, TypeInv
  <2>2. CASE ~linked
    BY <2>2 DEF AddRecipients
  <2> QED
    BY <2>1, <2>2
<1>7. Alive' = Alive /\ Alive \subseteq DOMAIN queue
  BY <1>6 DEF Alive
<1>8. Phases'
  BY <1>3, <1>4, <1>5, <1>6, <1>7 DEF Places, Phases
<1>9. OnePlace'
  BY <1>2, <1>3, <1>4, <1>6, <1>7 DEF Places, OnePlace
<1>10. StillWaiting'
  BY <1>2, <1>3, <1>4, <1>5, <1>6, <1>7 DEF Places, StillWaiting
<1> QED
  BY <1>8, <1>9, <1>10 DEF Places

LEMMA NoConnectionPlaces ==
  ASSUME TypeInv, Places, NoConnection
  PROVE  Places'
<1>1. /\ Alive' = Alive /\ Addressees' = Addressees /\ AllAlive /\ pc' = "update" /\ pc = "session"
      /\ pending' = Addressees
      /\ UNCHANGED <<status, fetched, todo, rest, forced, resolved, queue>>
  BY DEF NoConnection, progress, Alive, Addressees, AllAlive
<1>2. Addressees \subseteq fetched \ resolved
  BY <1>1, AddresseesFacts DEF AllAlive, Alive, Places, StillWaiting, TypeInv
<1> QED
  BY <1>1, <1>2 DEF Places, Phases, OnePlace, StillWaiting, AllAlive

LEMMA MarkedPlaces ==
  ASSUME TypeInv, Places, NEW n \in DOMAIN queue, queue' = Marked(n),
         pc = "mail", UNCHANGED progress, UNCHANGED <<status, resolved>>,
         \/ pc' = pc /\ pending' = pending
         \/ pc' = "update" /\ pending' = Addressees
  PROVE  Places'
<1>1. /\ DOMAIN queue' = DOMAIN queue
      /\ \A i \in DOMAIN queue : queue'[i].to = queue[i].to /\ queue'[i].alive = queue[i].alive
      /\ queue' \in Seq(Message)
  BY QueueMarked DEF TypeInv
<1>2. Alive' = Alive /\ Alive = DOMAIN queue
  BY <1>1 DEF Alive, Places, Phases, AllAlive
<1>3. Addressees' = Addressees
  BY <1>1 DEF Addressees
<1>4. Addressees \subseteq fetched \ resolved /\ pending = {}
  BY <1>2, AddresseesFacts DEF Places, Phases, StillWaiting, TypeInv
<1>5. UNCHANGED <<fetched, todo, rest, forced>>
  BY DEF progress
<1>6. Phases'
  BY <1>1, <1>2, <1>5 DEF Places, Phases, AllAlive
<1>7. OnePlace'
  BY <1>1, <1>2, <1>5 DEF Places, OnePlace
<1>8. StillWaiting'
  BY <1>1, <1>2, <1>3, <1>4, <1>5 DEF Places, StillWaiting
<1> QED
  BY <1>6, <1>7, <1>8 DEF Places

LEMMA QuitPlaces ==
  ASSUME TypeInv, Places, Quit
  PROVE  Places'
<1>1. /\ pc = "mail" /\ pc' = "update" /\ pending' = Addressees
      /\ Alive' = Alive /\ Addressees' = Addressees
      /\ UNCHANGED <<status, fetched, todo, rest, forced, resolved, queue>>
  BY DEF Quit, progress, Alive, Addressees
<1>2. Alive = DOMAIN queue /\ Addressees \subseteq fetched \ resolved
  BY <1>1, AddresseesFacts DEF Alive, AllAlive, Places, Phases, StillWaiting, TypeInv
<1> QED
  BY <1>1, <1>2 DEF Places, Phases, OnePlace, StillWaiting, AllAlive

LEMMA UpdatePlaces ==
  ASSUME TypeInv, Places, UpdateRecipient
  PROVE  Places'
<1>1. PICK r \in pending :
        /\ \A q \in Recipients : q # r => status'[q] = status[q]
        /\ pending' = pending \ {r} /\ resolved' = resolved \cup {r}
  BY DEF UpdateRecipient, FirstOf, TypeInv
<1>2. /\ pc = "update" /\ pc' = pc /\ Alive' = Alive /\ Addressees' = Addressees
      /\ UNCHANGED <<fetched, todo, rest, forced, queue>>
  BY DEF UpdateRecipient, progress, Alive, Addressees
<1>3. r \in Addressees /\ Alive = DOMAIN queue
  BY <1>2 DEF Places, Phases, StillWaiting, AllAlive, Alive
<1>4. r \notin todo \cup rest
  BY <1>3, AddresseesFacts DEF Places, OnePlace, TypeInv
<1>5. Phases'
  BY <1>2 DEF Places, Phases, AllAlive
<1>6. OnePlace'
  BY <1>2 DEF Places, OnePlace
<1>7. StillWaiting'
  BY <1>1, <1>2, <1>4 DEF Places, StillWaiting, TypeInv
<1> QED
  BY <1>5, <1>6, <1>7 DEF Places

LEMMA NextSessionPlaces ==
  ASSUME TypeInv, Places, NextSession
  PROVE  Places'
<1>1. /\ queue' = <<>> /\ Alive' = {} /\ Addressees' = {}
      /\ pc = "update" /\ pending = {} /\ pending' = {}
      /\ UNCHANGED <<status, fetched, todo, forced, resolved>>
  BY DEF NextSession, Alive, Addressees
<1>2. /\ rest' \subseteq rest
      /\ pc' \in {"delete", "add", "generate"}
      /\ pc' = "delete" <=> forced
      /\ pc' = "generate" => rest' = {}
  BY DEF NextSession, TypeInv
<1>3. Phases'
  BY <1>1, <1>2 DEF Places, Phases
<1>4. OnePlace'
  BY <1>1, <1>2 DEF Places, OnePlace
<1>5. StillWaiting'
  BY <1>1, <1>2 DEF Places, StillWaiting
<1> QED
  BY <1>3, <1>4, <1>5 DEF Places

LEMMA DeletePlaces ==
  ASSUME TypeInv, Places, DeleteMessages
  PROVE  Places'
<1>1. DOMAIN queue' = DOMAIN queue /\ \A i \in DOMAIN queue : ~queue'[i].alive
  BY QueueDeleted DEF DeleteMessages, TypeInv
<1>2. Alive' = {}
  BY <1>1 DEF Alive
<1>3. /\ pc = "delete" /\ pc' = "fetch" /\ fetched' = {} /\ resolved' = {}
      /\ UNCHANGED <<todo, rest, forced, pending>>
  BY DEF DeleteMessages
<1>4. todo = {} /\ rest = {} /\ pending = {}
  BY <1>3 DEF Places, Phases
<1> QED
  BY <1>2, <1>3, <1>4 DEF Places, Phases, OnePlace, StillWaiting

LEMMA CrashPlaces ==
  ASSUME Crash
  PROVE  Places'
<1>1. Alive' = {}
  BY DEF Crash, FreshProcess, Alive
<1> QED
  BY <1>1 DEF Crash, FreshProcess, Places, Phases, OnePlace, StillWaiting

LEMMA PlacesStep ==
  ASSUME TypeInv, Places, [Next]_vars
  PROVE  Places'
<1>1. CASE NoneWaiting \/ ReadDeleted \/ Connect \/ Ended \/ UNCHANGED vars
  BY <1>1, QuietStep DEF NoneWaiting, ReadDeleted, Connect, Ended, vars,
     progress, provider, AllAlive
<1>2. CASE ForceSend
  <2>1. CASE pc' = "delete"
    BY <1>2, <2>1
    DEF ForceSend, provider, Places, Phases, OnePlace, StillWaiting, Alive, Addressees
  <2>2. CASE pc' = "session"
    BY <1>2, <2>2
    DEF ForceSend, provider, Places, Phases, OnePlace, StillWaiting, Alive, Addressees
  <2> QED
    BY <1>2, <2>1, <2>2 DEF ForceSend
<1>3. CASE SendMessage \/ MailRefused
  <2>1. NextUnsent \in DOMAIN queue
    BY <1>3, NextUnsentFacts DEF SendMessage, MailRefused, TypeInv
  <2> QED
    BY <1>3, <2>1, MarkedPlaces DEF SendMessage, MailRefused
<1> QED
  BY <1>1, <1>2, <1>3, FetchPlaces, QueuePlaces, NoServerPlaces, AddPlaces,
     NoConnectionPlaces, QuitPlaces, UpdatePlaces, NextSessionPlaces, DeletePlaces,
     CrashPlaces DEF Next, Step
----------------------------------------------------------------------------
\* What the status and the history say of a recipient.

\* Only a recipient that is waiting gets a status.
LEMMA StatusStep ==
  ASSUME TypeInv, Places, [Next]_vars
  PROVE  \A r \in Recipients : status[r] # "Waiting" => status'[r] = status[r]
<1>1. CASE UpdateRecipient
  <2>1. PICK r \in pending : \A q \in Recipients : q # r => status'[q] = status[q]
    BY <1>1 DEF UpdateRecipient, FirstOf, TypeInv
  <2>2. status[r] = "Waiting"
    BY <2>1 DEF Places, StillWaiting
  <2> QED
    BY <2>1, <2>2
<1>2. CASE DeleteMessages
  <2>1. \A r \in fetched \ resolved : status[r] = "Waiting"
    BY DEF Places, StillWaiting
  <2> QED
    BY <1>2, <2>1 DEF DeleteMessages, Unresolved
<1>3. CASE ~UpdateRecipient /\ ~DeleteMessages
  <2>1. status' = status
    BY <1>3 DEF Next, Step, FetchBatch, NoneWaiting, QueueMessage, QueueMessageNoServer,
       AddRecipients, ForceSend, ReadDeleted, NoConnection, Connect, SendMessage,
       MailRefused, Quit, NextSession, Crash, Ended, vars
  <2> QED
    BY <2>1
<1> QED
  BY <1>1, <1>2, <1>3

\* Everything but a message being sent leaves what was accepted as it is; the
\* mistakes of a slave that dies are forgotten but for the statuses they gave.
LEMMA AcceptedUnchanged ==
  ASSUME [Next]_vars, ~SendMessage
  PROVE  /\ accepted' = accepted
         /\ mistaken' = IF Crash THEN mistaken \ Waiting ELSE mistaken
BY DEF Next, Step, FetchBatch, NoneWaiting, QueueMessage, QueueMessageNoServer,
   AddRecipients, ForceSend, ReadDeleted, NoConnection, Connect, history,
   MailRefused, Quit, UpdateRecipient, NextSession, DeleteMessages, Crash, Ended, vars

LEMMA CrashesUnchanged ==
  ASSUME [Next]_vars, ~Crash
  PROVE  crashes' = crashes
BY DEF Next, Step, FetchBatch, NoneWaiting, QueueMessage, QueueMessageNoServer,
   AddRecipients, ForceSend, ReadDeleted, NoConnection, Connect, bounds, SendMessage,
   MailRefused, Quit, UpdateRecipient, NextSession, DeleteMessages, Ended, vars

\* What sending a message does to the recipients: those of the message may get
\* it and a code, nothing else changes.
LEMMA SendFacts ==
  ASSUME TypeInv, SendMessage
  PROVE  /\ NextUnsent \in DOMAIN queue /\ ~queue[NextUnsent].sent
         /\ accepted' = [r \in Recipients |-> accepted'[r]]
         /\ \A r \in Recipients :
              /\ accepted'[r] \in {accepted[r], accepted[r] + 1}
              /\ accepted'[r] # accepted[r] => r \in queue[NextUnsent].to
              /\ code'[r] = Okay /\ code[r] # Okay =>
                   accepted'[r] = accepted[r] + 1 \/ r \in mistaken'
         /\ mistaken \subseteq mistaken'
         /\ mistaken' \subseteq mistaken \cup queue[NextUnsent].to
<1>1. NextUnsent \in DOMAIN queue /\ ~queue[NextUnsent].sent
  BY NextUnsentFacts DEF SendMessage, TypeInv
<1> DEFINE to == queue[NextUnsent].to
<1>2. PICK reply \in [to -> Replies], outcome \in {Okay, Refused, Unmapped},
             data \in BOOLEAN, lost \in BOOLEAN :
        /\ code' = [r \in Recipients |->
                     IF r \in to \ {q \in to : Succeeded(reply[q])} THEN Refused
                     ELSE IF r \in {q \in to : Succeeded(reply[q])} /\ code[r] = Unset
                     THEN outcome ELSE code[r]]
        /\ accepted' = [r \in Recipients |->
                         IF /\ r \in {q \in to : reply[q] = Okay}
                            /\ data
                            /\ outcome = Okay \/ lost
                         THEN accepted[r] + 1 ELSE accepted[r]]
        /\ mistaken' = mistaken \cup
                         {q \in to : outcome = Okay /\ (data => reply[q] = Unmapped)}
  BY SMTT(30) DEF SendMessage
<1>3. ASSUME NEW r \in Recipients
      PROVE  /\ accepted'[r] \in {accepted[r], accepted[r] + 1}
             /\ accepted'[r] # accepted[r] => r \in to
  BY <1>2, <1>3
<1>4. ASSUME NEW r \in Recipients, code'[r] = Okay, code[r] # Okay
      PROVE  accepted'[r] = accepted[r] + 1 \/ r \in mistaken'
  <2>1. r \in to /\ Succeeded(reply[r]) /\ outcome = Okay
    BY <1>2, <1>4 DEF Okay, Refused
  <2>2. reply[r] = Okay \/ reply[r] = Unmapped
    BY <2>1 DEF Replies, Succeeded
  <2> QED
    BY <1>2, <2>1, <2>2
<1>5. accepted' = [r \in Recipients |-> accepted'[r]]
  BY <1>2
<1>6. mistaken \subseteq mistaken' /\ mistaken' \subseteq mistaken \cup to
  BY <1>2
<1> QED
  BY <1>1, <1>3, <1>4, <1>5, <1>6

LEMMA OkayStep ==
  ASSUME TypeInv, OkayMeansAccepted, [Next]_vars
  PROVE  OkayMeansAccepted'
<1> SUFFICES ASSUME NEW r \in Recipients,
                    code'[r] = Okay \/ status'[r] = "Sent"
             PROVE  accepted'[r] > 0 \/ r \in mistaken'
  BY DEF OkayMeansAccepted
<1>1. /\ code[r] = Okay \/ status[r] = "Sent" => accepted[r] > 0 \/ r \in mistaken
      /\ accepted[r] \in Nat
  BY DEF OkayMeansAccepted, TypeInv
<1>2. CASE SendMessage
  <2>1. /\ accepted'[r] \in {accepted[r], accepted[r] + 1}
        /\ code'[r] = Okay /\ code[r] # Okay =>
             accepted'[r] = accepted[r] + 1 \/ r \in mistaken'
        /\ mistaken \subseteq mistaken'
    BY <1>2, SendFacts
  <2>2. status' = status
    BY <1>2 DEF SendMessage
  <2> QED
    BY <1>1, <2>1, <2>2
<1>3. CASE Crash
  <2>1. accepted' = accepted /\ mistaken' = mistaken \ Waiting
    BY <1>3 DEF Crash
  <2>2. code'[r] # Okay /\ status' = status
    BY <1>3 DEF Crash, FreshProcess, Okay, Unset
  <2> QED
    BY <1>1, <2>1, <2>2 DEF Waiting
<1>4. CASE ~SendMessage /\ ~Crash
  <2>1. accepted' = accepted /\ mistaken' = mistaken
    BY <1>4, AcceptedUnchanged
  <2>2. code'[r] = Okay => code[r] = Okay
    BY <1>4 DEF Next, Step, FetchBatch, NoneWaiting, QueueMessage, QueueMessageNoServer,
       AddRecipients, ForceSend, ReadDeleted, NoConnection, Connect, provider,
       MailRefused, Quit, UpdateRecipient, NextSession, DeleteMessages,
       Ended, vars, Okay, Unset, NoAuth
  <2>3. status'[r] = "Sent" => status[r] = "Sent" \/ code[r] = Okay
    BY <1>4 DEF Next, Step, FetchBatch, NoneWaiting, QueueMessage, QueueMessageNoServer,
       AddRecipients, ForceSend, ReadDeleted, NoConnection, Connect, StatusOf, TypeInv,
       MailRefused, Quit, UpdateRecipient, FirstOf, NextSession, DeleteMessages,
       Ended, vars
  <2> QED
    BY <1>1, <2>1, <2>2, <2>3
<1> QED
  BY <1>2, <1>3, <1>4

LEMMA AcceptedOnceStep ==
  ASSUME TypeInv, Places, AcceptedOnce, [Next]_vars
  PROVE  AcceptedOnce'
<1> SUFFICES ASSUME UpdatesLand, NEW r \in Recipients
             PROVE  /\ accepted'[r] <= 1 + crashes'
                    /\ accepted'[r] > crashes' => \/ status'[r] # "Waiting"
                                                  \/ pc' = "mail" /\ InSentMessage(r)'
                                                  \/ pc' = "update" /\ r \in pending'
  BY DEF AcceptedOnce
<1>1. /\ accepted[r] <= 1 + crashes
      /\ accepted[r] > crashes => \/ status[r] # "Waiting"
                                  \/ pc = "mail" /\ InSentMessage(r)
                                  \/ pc = "update" /\ r \in pending
      /\ accepted[r] \in Nat /\ crashes \in Nat
  BY DeliveryAssumption DEF AcceptedOnce, TypeInv
<1>2. status[r] # "Waiting" => status'[r] # "Waiting"
  BY StatusStep
<1>3. CASE SendMessage
  <2> DEFINE n == NextUnsent
  <2>1. /\ n \in DOMAIN queue /\ ~queue[n].sent
        /\ accepted'[r] \in {accepted[r], accepted[r] + 1}
        /\ accepted'[r] # accepted[r] => r \in queue[n].to
    BY <1>3, SendFacts
  <2>2. pc = "mail" /\ pc' = "mail" /\ status' = status /\ crashes' = crashes
    BY <1>3 DEF SendMessage, bounds
  <2>3. /\ DOMAIN queue' = DOMAIN queue
        /\ \A i \in DOMAIN queue : queue'[i].to = queue[i].to
                                   /\ (queue'[i].sent <=> i = n \/ queue[i].sent)
    BY <1>3, <2>1, QueueMarked DEF SendMessage, TypeInv
  <2>4. InSentMessage(r) => InSentMessage(r)'
    BY <2>3 DEF InSentMessage
  <2>5. CASE accepted'[r] = accepted[r]
    BY <1>1, <2>2, <2>4, <2>5
  <2>6. CASE accepted'[r] # accepted[r]
    <3>1. Alive = DOMAIN queue
      BY <2>2 DEF Places, Phases, AllAlive, Alive
    <3>2. status[r] = "Waiting"
      BY <2>1, <2>2, <2>6, <3>1 DEF Places, StillWaiting
    <3>3. ~InSentMessage(r)
      BY <2>1, <2>6, <3>1 DEF Places, OnePlace, InSentMessage
    <3>4. accepted[r] <= crashes
      BY <1>1, <2>2, <3>2, <3>3
    <3>5. InSentMessage(r)'
      BY <2>1, <2>3, <2>6 DEF InSentMessage
    <3> QED
      BY <1>1, <2>1, <2>2, <3>4, <3>5
  <2> QED
    BY <2>5, <2>6
<1>4. CASE Crash
  <2>1. accepted' = accepted /\ crashes' = crashes + 1
    BY <1>4 DEF Crash, history
  <2> QED
    BY <1>1, <2>1
<1>5. ASSUME ~SendMessage, ~Crash,
             pc = "mail" /\ InSentMessage(r) =>
               \/ pc' = "mail" /\ InSentMessage(r)'
               \/ pc' = "update" /\ r \in pending',
             pc = "update" /\ r \in pending =>
               \/ status'[r] # "Waiting"
               \/ pc' = "update" /\ r \in pending'
      PROVE  /\ accepted'[r] <= 1 + crashes'
             /\ accepted'[r] > crashes' => \/ status'[r] # "Waiting"
                                           \/ pc' = "mail" /\ InSentMessage(r)'
                                           \/ pc' = "update" /\ r \in pending'
  <2>1. accepted' = accepted /\ crashes' = crashes
    BY <1>5, AcceptedUnchanged, CrashesUnchanged
  <2> QED
    BY <1>1, <1>2, <1>5, <2>1
<1>6. InSentMessage(r) => r \in Addressees
  BY AddresseesFacts DEF InSentMessage, TypeInv
<1>7. CASE MailRefused \/ Quit
  <2>1. pc = "mail" /\ pc' = "update" /\ pending' = Addressees
    BY <1>7 DEF MailRefused, Quit
  <2>2. ~SendMessage /\ ~Crash
    BY <2>1 DEF SendMessage, Crash, FreshProcess
  <2> QED
    BY <1>5, <1>6, <2>1, <2>2
<1>8. CASE UpdateRecipient
  <2>1. pc = "update" /\ pc' = "update"
    BY <1>8 DEF UpdateRecipient
  <2>2. PICK q \in pending : /\ status' = [status EXCEPT ![q] = StatusOf(code[q])]
                             /\ pending' = pending \ {q}
    BY <1>8 DEF UpdateRecipient, FirstOf
  <2>3. r = q => status'[r] # "Waiting"
    BY <2>2 DEF StatusOf, TypeInv
  <2>4. ~SendMessage /\ ~Crash
    BY <2>1 DEF SendMessage, Crash, FreshProcess
  <2> QED
    BY <1>5, <2>1, <2>2, <2>3, <2>4
<1>9. CASE NextSession
  <2>1. pc = "update" /\ pending = {} /\ pc' # "fetch"
    BY <1>9 DEF NextSession, TypeInv
  <2>2. ~SendMessage /\ ~Crash
    BY <2>1 DEF SendMessage, Crash, FreshProcess
  <2> QED
    BY <1>5, <2>1, <2>2
<1>10. CASE FetchBatch \/ NoneWaiting \/ QueueMessage \/ QueueMessageNoServer \/ AddRecipients
            \/ ForceSend \/ ReadDeleted \/ NoConnection \/ Connect \/ DeleteMessages
  <2>1. pc \in {"fetch", "generate", "add", "session", "delete"}
    BY <1>10 DEF FetchBatch, NoneWaiting, QueueMessage, QueueMessageNoServer, AddRecipients,
       ForceSend, ReadDeleted, NoConnection, Connect, DeleteMessages
  <2>2. CASE ~Crash
    <3>1. ~SendMessage
      BY <2>1 DEF SendMessage
    <3> QED
      BY <1>5, <2>1, <2>2, <3>1
  <2> QED
    BY <1>4, <2>2
<1>11. CASE Ended \/ UNCHANGED vars
  <2>1. UNCHANGED <<accepted, crashes, status, pc, queue, pending>>
    BY <1>11 DEF Ended, vars, provider, bounds, history
  <2> QED
    BY <1>1, <2>1 DEF InSentMessage
<1> QED
  BY <1>3, <1>4, <1>7, <1>8, <1>9, <1>10, <1>11 DEF Next, Step
----------------------------------------------------------------------------
\* A recipient has its turn before it is failed.
LEMMA AtMostOne ==
  ASSUME NEW S \in SUBSET Recipients
  PROVE  Cardinality(S) <= 1 <=> \A r, q \in S : r = q
<1>1. IsFiniteSet(S) /\ Cardinality(S) \in Nat
  BY RecipientsFinite
<1>2. ASSUME Cardinality(S) <= 1 PROVE \A r, q \in S : r = q
  <2>1. CASE Cardinality(S) = 0
    BY <1>1, <2>1, FS_EmptySet
  <2>2. CASE Cardinality(S) = 1
    BY <1>1, <2>2, FS_Singleton
  <2> QED
    BY <1>1, <1>2, <2>1, <2>2
<1>3. ASSUME \A r, q \in S : r = q PROVE Cardinality(S) <= 1
  <2>1. CASE S = {}
    BY <2>1, FS_EmptySet
  <2>2. CASE S # {}
    <3>1. PICK r \in S : S = {r}
      BY <1>3, <2>2
    <3> QED
      BY <3>1, FS_Singleton
  <2> QED
    BY <2>1, <2>2
<1> QED
  BY <1>2, <1>3

LEMMA InitTurns == Init => TurnToCome
<1> SUFFICES ASSUME Init, MaxMsgs > 1 PROVE Turns
  BY DEF TurnToCome
<1>1. Alive = {} /\ AllAlive
  BY DEF Init, Alive, AllAlive
<1> QED
  BY <1>1 DEF Init, Turns, FailedMeansTried

LEMMA FetchTurns ==
  ASSUME TypeInv, Places, Turns, FetchBatch
  PROVE  Turns'
<1>1. /\ Alive' = Alive /\ Alive = {} /\ AllAlive' = AllAlive
      /\ todo' = fetched' /\ rest' = {} /\ pc = "fetch" /\ pc' = "generate"
      /\ UNCHANGED <<tried, excused, status, linked, queue, msgsCount, personalized, signed>>
  BY DEF FetchBatch, Alive, AllAlive, history, modes, Places, Phases
<1> QED
  BY <1>1 DEF Turns, FailedMeansTried

LEMMA QueueTurns ==
  ASSUME TypeInv, Places, Turns, personalized, QueueMessage
  PROVE  Turns'
<1>1. NextMessage \subseteq todo /\ \A r, q \in NextMessage : r = q
  <2>1. NextMessage \subseteq todo /\ Cardinality(NextMessage) \in 0..1
    BY FirstOfFacts DEF NextMessage, TypeInv
  <2>2. NextMessage \in SUBSET Recipients /\ Cardinality(NextMessage) <= 1
    BY <2>1 DEF TypeInv
  <2> QED
    BY <2>1, <2>2, AtMostOne
<1>2. /\ DOMAIN queue = 1..Len(queue) /\ Len(queue) \in Nat
      /\ queue' \in Seq(Message) /\ queue' # <<>>
      /\ DOMAIN queue' = 1..(Len(queue) + 1)
      /\ \A i \in DOMAIN queue : queue'[i] = queue[i]
      /\ queue'[Len(queue) + 1] = [to |-> {}, sent |-> FALSE, alive |-> TRUE]
  <2>1. queue \in Seq(Message) /\ queue' = Append(queue, NewMessage)
    BY DEF QueueMessage, TypeInv
  <2> QED
    BY <2>1, QueueAppended, Zenon
<1>3. /\ Alive' = Alive \cup {Len(queue) + 1}
      /\ AllAlive' = AllAlive
  BY <1>2 DEF Alive, AllAlive
<1>4. Alive \subseteq DOMAIN queue /\ Len(queue) + 1 \notin DOMAIN queue
  BY <1>2 DEF Alive
<1>5. Len(queue') = Len(queue) + 1
  BY <1>2, LenProperties
<1>6. /\ rest' = NextMessage /\ todo' = todo \ NextMessage /\ linked' = TRUE
      /\ pc = "generate" /\ pc' = "add"
      /\ UNCHANGED <<status, fetched, hasData, msgsCount, tried, excused, personalized, signed>>
  BY DEF QueueMessage, history, modes
<1>7. \A i \in Alive' : queue'[i].to = {} \/ (i \in Alive /\ queue'[i] = queue[i])
  BY <1>2, <1>3, <1>4
<1>8. \A i \in Alive : i \in Alive' /\ queue'[i] = queue[i]
  BY <1>2, <1>3, <1>4
<1>9. rest = {}
  BY <1>6 DEF Places, Phases
<1>10. Broken' = Broken
  BY <1>6 DEF Broken
<1>11. \A r \in fetched' : \/ r \in todo' \cup rest' \cup tried' \cup excused'
                           \/ \E i \in Alive' : r \in queue'[i].to
  BY <1>6, <1>8, <1>9 DEF Turns
<1>12. Len(queue') \in Alive'
  BY <1>3, <1>5
<1> QED
  BY <1>1, <1>2, <1>3, <1>6, <1>7, <1>10, <1>11, <1>12 DEF Turns, FailedMeansTried

LEMMA NoServerTurns ==
  ASSUME TypeInv, Places, Turns, QueueMessageNoServer
  PROVE  Turns'
<1>1. /\ Alive' = Alive /\ AllAlive' = AllAlive /\ pc = "generate" /\ pc' = pc
      /\ todo' = todo \ NextMessage /\ excused' = excused \cup NextMessage
      /\ UNCHANGED <<tried, status, fetched, rest, linked, queue, msgsCount, hasData,
                     personalized, signed>>
  BY DEF QueueMessageNoServer, Alive, AllAlive, modes
<1>2. Broken => Broken'
  BY <1>1 DEF Broken
<1> QED
  BY <1>1, <1>2 DEF Turns, FailedMeansTried

LEMMA AddTurns ==
  ASSUME TypeInv, Places, Turns, signed, MaxMsgs > 1, AddRecipients
  PROVE  Turns'
<1>1. MaxMsgs - msgsCount \in Nat /\ MaxMsgs \in Nat /\ msgsCount \in Nat
  BY DeliveryAssumption DEF TypeInv
<1>2. /\ Chunk \subseteq rest /\ Chunk \in SUBSET Recipients
      /\ Cardinality(Chunk) \in Nat
      /\ Cardinality(Chunk) < MaxMsgs - msgsCount => Chunk = rest
  BY <1>1, FirstOfFacts DEF Chunk, TypeInv
<1>3. /\ Cardinality(Chunk) <= 1
      /\ Cardinality(Chunk) = 0 <=> Chunk = {}
  <2>1. \A r, q \in Chunk : r = q
    BY <1>2 DEF Turns
  <2> QED
    BY <1>2, <2>1, AtMostOne, RecipientsFinite, FS_EmptySet
<1>4. /\ pc = "add" /\ pc' \in {"session", "generate"}
      /\ msgsCount' = msgsCount + Cardinality(Chunk)
      /\ UNCHANGED <<tried, status, fetched, todo, linked, personalized, signed>>
  BY DEF AddRecipients, modes
\* The message was deleted, or recipients were added to a message that lives.
<1>5. /\ queue' \in Seq(Message) /\ DOMAIN queue' = DOMAIN queue
      /\ queue' = <<>> => ~linked /\ queue = <<>>
      /\ \A i \in DOMAIN queue :
           /\ queue'[i].to = IF linked /\ i = Len(queue) THEN queue[i].to \cup Chunk
                             ELSE queue[i].to
           /\ queue'[i].alive = queue[i].alive
  <2>1. CASE linked
    <3>1. queue' \in Seq(Message) /\ queue' # <<>> /\ DOMAIN queue' = DOMAIN queue
      BY <1>2, <2>1, QueueExtended DEF AddRecipients, TypeInv
    <3>2. \A i \in DOMAIN queue : queue'[i].alive = queue[i].alive
      BY <1>2, <2>1, QueueExtended DEF AddRecipients, TypeInv
    <3>3. \A i \in DOMAIN queue : i # Len(queue) => queue'[i].to = queue[i].to
      BY <1>2, <2>1, QueueExtended DEF AddRecipients, TypeInv
    <3>4. Len(queue) \in DOMAIN queue =>
            queue'[Len(queue)].to = queue[Len(queue)].to \cup Chunk
      <4>1. SUFFICES ASSUME Len(queue) \in DOMAIN queue
                     PROVE  queue'[Len(queue)].to = queue[Len(queue)].to \cup Chunk
        OBVIOUS
      <4>2. queue[Len(queue)] \in Message
        BY <4>1 DEF TypeInv
      <4>3. queue'[Len(queue)] = [queue[Len(queue)] EXCEPT !.to = @ \cup Chunk]
        BY <2>1, <4>1 DEF AddRecipients
      <4> QED
        BY <4>2, <4>3 DEF Message
    <3> QED
      BY <2>1, <3>1, <3>2, <3>3, <3>4
  <2>2. CASE ~linked
    BY <2>2 DEF AddRecipients, TypeInv
  <2> QED
    BY <2>1, <2>2
<1>6. /\ Alive' = Alive /\ Alive \subseteq DOMAIN queue /\ AllAlive' = AllAlive
      /\ Len(queue') = Len(queue)
  <2>1. Len(queue') = Len(queue)
    BY <1>5, LenProperties DEF TypeInv
  <2> QED
    BY <1>5, <2>1 DEF Alive, AllAlive
<1>7. \/ /\ rest' = rest \ Chunk /\ hasData' = TRUE
         /\ pc' = IF msgsCount' >= MaxMsgs THEN "session" ELSE "generate"
         /\ excused' = excused
      \/ /\ rest' = {} /\ Broken' /\ pc' = "generate"
         /\ excused' = excused \cup fetched
  BY <1>4 DEF AddRecipients, Broken
<1>8. Broken => Broken'
  BY <1>4, <1>7 DEF Broken
<1>9. \A r \in fetched' : \/ r \in todo' \cup rest' \cup tried' \cup excused'
                          \/ \E i \in Alive' : r \in queue'[i].to
  <2>1. CASE Broken'
    BY <2>1 DEF Broken
  <2>2. CASE ~Broken'
    <3>1. linked /\ Len(queue) \in Alive /\ rest' = rest \ Chunk /\ excused' = excused
      BY <1>4, <1>7, <1>8, <2>2 DEF Turns
    <3>2. \A r \in Chunk : r \in queue'[Len(queue)].to
      BY <1>5, <1>6, <3>1
    <3>3. \A i \in Alive : queue[i].to \subseteq queue'[i].to
      BY <1>5, <1>6
    <3>4. UNCHANGED <<tried, fetched, todo, Alive>>
      BY <1>4, <1>6
    <3> QED
      BY <3>1, <3>2, <3>3, <3>4 DEF Turns
  <2> QED
    BY <2>1, <2>2
<1>10. pc' = "session" /\ rest' # {} => Broken' \/ ~AllAlive'
  <2>1. SUFFICES ASSUME rest' = rest \ Chunk, rest' # {}
                 PROVE  Broken' \/ ~AllAlive'
    BY <1>7
  <2>2. Chunk = {}
    BY <1>2, <2>1 DEF Turns
  <2>3. msgsCount = MaxMsgs
    BY <1>1, <1>2, <1>3, <2>1, <2>2
  <2> QED
    BY <1>4, <1>6, <1>8, <2>3 DEF Turns
<1>11. queue' = <<>> => msgsCount' <= 1
  BY <1>1, <1>2, <1>3, <1>4, <1>5 DEF Turns
<1>12. pc' = "generate" /\ msgsCount' = MaxMsgs => Broken'
  BY <1>1, <1>7
<1>13. pc' = "generate" /\ (\E i \in Alive' : queue'[i].to # {}) =>
         Broken' \/ (hasData' /\ msgsCount' > 0)
  <2>1. SUFFICES ASSUME hasData' = TRUE, NEW i \in Alive, queue'[i].to # {}, ~Broken'
                 PROVE  msgsCount' > 0
    BY <1>6, <1>7
  <2>2. queue[i].to # {} \/ Chunk # {}
    BY <1>5, <1>6, <2>1
  <2>3. queue[i].to # {} => msgsCount > 0
    BY <1>4, <1>8, <2>1 DEF Turns
  <2> QED
    BY <1>1, <1>2, <1>3, <1>4, <2>2, <2>3
<1>14. rest' \subseteq rest
  BY <1>7
<1>15. FailedMeansTried'
  BY <1>4, <1>7 DEF Turns, FailedMeansTried
<1>16. linked' => Len(queue') \in Alive'
  BY <1>4, <1>6 DEF Turns
<1> QED
  BY <1>4, <1>9, <1>10, <1>11, <1>12, <1>13, <1>14, <1>15, <1>16 DEF Turns

LEMMA ForceTurns ==
  ASSUME TypeInv, Places, Turns, ForceSend
  PROVE  Turns'
<1>1. /\ Alive' = Alive /\ AllAlive' = AllAlive /\ Broken' = Broken
      /\ pc = "generate" /\ todo = {}
      /\ pc' = IF MustSend THEN "session" ELSE "delete"
      /\ UNCHANGED <<tried, excused, status, fetched, todo, rest, linked, queue, msgsCount,
                     hasData, personalized, signed>>
  BY DEF ForceSend, Alive, AllAlive, Broken, provider, history, modes
<1>2. rest = {}
  BY <1>1 DEF Places, Phases
<1>3. pc' = "delete" => fetched \subseteq tried \cup excused
  BY <1>1, <1>2 DEF Turns, MustSend, Broken
<1> QED
  BY <1>1, <1>2, <1>3 DEF Turns, FailedMeansTried

\* A session was started for all messages.
LEMMA StartedTurns ==
  ASSUME TypeInv, Places, Turns, pc = "session", pc' \in {"mail", "update"},
         tried' = tried \cup Addressees,
         UNCHANGED <<excused, status, fetched, todo, rest, linked, queue, msgsCount,
                     personalized, signed>>
  PROVE  Turns'
<1>1. Alive' = Alive /\ AllAlive' = AllAlive /\ Broken' = Broken /\ Addressees' = Addressees
  BY DEF Alive, AllAlive, Broken, Addressees
<1> QED
  BY <1>1 DEF Turns, FailedMeansTried

LEMMA MailTurns ==
  ASSUME TypeInv, Places, Turns, pc = "mail", pc' \in {"mail", "update"},
         \/ queue' = queue
         \/ \E n \in DOMAIN queue : queue' = Marked(n),
         UNCHANGED <<tried, excused, status, fetched, todo, rest, linked, msgsCount,
                     personalized, signed>>
  PROVE  Turns'
<1>1. /\ queue' \in Seq(Message) /\ DOMAIN queue' = DOMAIN queue
      /\ queue' = <<>> => queue = <<>>
      /\ \A i \in DOMAIN queue : queue'[i].to = queue[i].to /\ queue'[i].alive = queue[i].alive
  BY QueueMarked DEF TypeInv
<1>2. Len(queue') = Len(queue)
  BY <1>1, LenProperties DEF TypeInv
<1>3. Alive' = Alive /\ AllAlive' = AllAlive /\ Broken' = Broken /\ Addressees' = Addressees
      /\ Alive \subseteq DOMAIN queue
  BY <1>1 DEF Alive, AllAlive, Broken, Addressees
<1>4. \A r \in fetched' : \/ r \in todo' \cup rest' \cup tried' \cup excused'
                          \/ \E i \in Alive' : r \in queue'[i].to
  BY <1>1, <1>3 DEF Turns
<1> QED
  BY <1>1, <1>2, <1>3, <1>4 DEF Turns, FailedMeansTried

LEMMA UpdateTurns ==
  ASSUME TypeInv, Places, Turns, UpdateRecipient
  PROVE  Turns'
<1>1. PICK r \in pending : \A q \in Recipients : q # r => status'[q] = status[q]
  BY DEF UpdateRecipient, FirstOf, TypeInv
<1>2. /\ pc = "update" /\ pc' = pc
      /\ Alive' = Alive /\ AllAlive' = AllAlive /\ Broken' = Broken /\ Addressees' = Addressees
      /\ UNCHANGED <<tried, excused, fetched, todo, rest, linked, queue, msgsCount, hasData,
                     personalized, signed>>
  BY DEF UpdateRecipient, Alive, AllAlive, Broken, Addressees, progress, history, modes
<1>3. r \in tried
  BY <1>2 DEF Turns, Places, StillWaiting
<1>4. FailedMeansTried'
  BY <1>1, <1>2, <1>3 DEF Turns, FailedMeansTried
<1> QED
  BY <1>2, <1>4 DEF Turns

LEMMA NextSessionTurns ==
  ASSUME TypeInv, Places, Turns, MaxMsgs > 1, NextSession
  PROVE  Turns'
<1>1. /\ queue' = <<>> /\ msgsCount' = 0 /\ linked' = FALSE /\ Alive' = {}
      /\ pc = "update" /\ AllAlive
      /\ UNCHANGED <<tried, status, fetched, todo, personalized, signed>>
  BY DEF NextSession, Alive, modes, Places, Phases
<1>2. /\ \/ rest' = rest /\ excused' = excused
         \/ rest' = {} /\ excused' = excused \cup rest
      /\ pc' \in {"delete", "add", "generate"}
      /\ pc' = "delete" => forced
      /\ pc' = "add" => rest # {}
  BY DEF NextSession
<1>3. \A r \in fetched : r \in todo \cup rest \cup tried \cup excused
  <2>1. Addressees \subseteq tried
    BY <1>1 DEF Turns
  <2>2. ASSUME NEW i \in Alive, NEW r \in queue[i].to PROVE r \in Addressees
    BY <2>2, AddresseesFacts DEF Alive, TypeInv
  <2> QED
    BY <2>1, <2>2 DEF Turns
<1>4. pc' = "delete" => fetched \subseteq tried \cup excused
  BY <1>2, <1>3 DEF Places, Phases
<1>5. pc' = "add" => Broken'
  BY <1>1, <1>2 DEF Turns, Broken
<1>6. FailedMeansTried'
  BY <1>1, <1>2 DEF Turns, FailedMeansTried
<1>7. /\ \A r \in fetched' : r \in todo' \cup rest' \cup tried' \cup excused'
      /\ pc' = "delete" => fetched' \subseteq tried' \cup excused'
  BY <1>1, <1>2, <1>3, <1>4
<1>8. \A r, q \in rest' : r = q
  BY <1>2 DEF Turns
<1> QED
  BY <1>1, <1>2, <1>5, <1>6, <1>7, <1>8 DEF Turns

LEMMA DeleteTurns ==
  ASSUME TypeInv, Places, Turns, MaxMsgs > 1, DeleteMessages
  PROVE  Turns'
<1>1. /\ DOMAIN queue' = DOMAIN queue
      /\ queue' = <<>> <=> queue = <<>>
      /\ \A i \in DOMAIN queue : ~queue'[i].alive
  <2>1. DOMAIN queue' = DOMAIN queue /\ \A i \in DOMAIN queue : ~queue'[i].alive
    BY QueueDeleted DEF DeleteMessages, TypeInv
  <2>2. queue' \in Seq(Message)
    BY QueueDeleted DEF DeleteMessages, TypeInv
  <2>3. Len(queue') = Len(queue) /\ queue \in Seq(Message)
    BY <2>1, <2>2, LenProperties DEF TypeInv
  <2> QED
    BY <2>1, <2>2, <2>3, EmptySeq
<1>2. /\ pc = "delete" /\ pc' = "fetch" /\ fetched' = {} /\ linked' = FALSE
      /\ UNCHANGED <<todo, rest, msgsCount, tried, excused, personalized, signed>>
      /\ \A r \in Recipients : status'[r] = "Failed" =>
           status[r] = "Failed" \/ r \in fetched
  BY DEF DeleteMessages, history, modes, Unresolved
<1>3. rest = {}
  BY <1>2 DEF Places, Phases
<1>4. queue # <<>> => ~AllAlive'
  <2>1. queue # <<>> => 1 \in DOMAIN queue
    BY EmptySeq, LenProperties DEF TypeInv
  <2> QED
    BY <1>1, <2>1 DEF AllAlive
<1>5. msgsCount' = MaxMsgs => ~AllAlive'
  BY <1>2, <1>4, DeliveryAssumption DEF Turns
<1>6. FailedMeansTried'
  BY <1>2 DEF Turns, FailedMeansTried
<1>7. queue' = <<>> => msgsCount' <= 1
  BY <1>1, <1>2 DEF Turns
<1> QED
  BY <1>2, <1>3, <1>5, <1>6, <1>7 DEF Turns

LEMMA CrashTurns ==
  ASSUME TypeInv, Turns, MaxMsgs > 1, Crash
  PROVE  Turns'
<1>1. /\ pc' = "fetch" /\ fetched' = {} /\ rest' = {} /\ linked' = FALSE /\ queue' = <<>>
      /\ msgsCount' = 0
      /\ UNCHANGED <<status, tried, excused, personalized, signed>>
  BY DEF Crash, FreshProcess, history, modes
<1> QED
  BY <1>1 DEF Turns, FailedMeansTried

LEMMA TurnsStep ==
  ASSUME TypeInv, Places, TurnToCome, [Next]_vars
  PROVE  TurnToCome'
<1>1. UNCHANGED <<personalized, signed>>
  BY DEF Next, Step, FetchBatch, NoneWaiting, QueueMessage, QueueMessageNoServer, AddRecipients,
     ForceSend, ReadDeleted, NoConnection, Connect, SendMessage, MailRefused, Quit,
     UpdateRecipient, NextSession, DeleteMessages, Crash, Ended, vars, modes
<1>2. SUFFICES ASSUME personalized, signed, MaxMsgs > 1, Turns
               PROVE  Turns'
  BY <1>1 DEF TurnToCome
<1>3. CASE NoneWaiting \/ ReadDeleted \/ Ended \/ UNCHANGED vars
  <2>1. /\ pc' = pc \/ pc' \in {"done", "undefined"}
        /\ UNCHANGED <<personalized, signed, status, fetched, todo, rest, linked, queue,
                       msgsCount, hasData, tried, excused>>
    BY <1>3 DEF NoneWaiting, ReadDeleted, Ended, vars, modes, progress, provider, history
  <2>2. Alive' = Alive /\ AllAlive' = AllAlive /\ Broken' = Broken /\ Addressees' = Addressees
    BY <2>1 DEF Alive, AllAlive, Broken, Addressees
  <2>3. FailedMeansTried'
    BY <1>2, <2>1 DEF Turns, FailedMeansTried
  <2>4. CASE pc' = pc
    BY <1>2, <2>1, <2>2, <2>3, <2>4 DEF Turns
  <2>5. CASE pc' \in {"done", "undefined"}
    BY <1>2, <2>1, <2>2, <2>3, <2>5 DEF Turns
  <2> QED
    BY <2>1, <2>4, <2>5
<1>4. CASE NoConnection \/ Connect
  BY <1>2, <1>4, StartedTurns DEF NoConnection, Connect, modes, progress, provider
<1>5. CASE SendMessage \/ MailRefused
  <2>1. NextUnsent \in DOMAIN queue
    BY <1>5, NextUnsentFacts DEF SendMessage, MailRefused, TypeInv
  <2>2. \E n \in DOMAIN queue : queue' = Marked(n)
    BY <1>5, <2>1 DEF SendMessage, MailRefused
  <2> QED
    BY <1>2, <1>5, <2>2, MailTurns DEF SendMessage, MailRefused, modes, progress, history
<1>6. CASE Quit
  BY <1>2, <1>6, MailTurns DEF Quit, modes, progress, history
<1> QED
  BY <1>2, <1>3, <1>4, <1>5, <1>6, FetchTurns, QueueTurns, NoServerTurns, AddTurns, ForceTurns,
     UpdateTurns, NextSessionTurns, DeleteTurns, CrashTurns DEF Next, Step
----------------------------------------------------------------------------
\* The invariant is inductive.
LEMMA InitIInv == Init => IInv
<1> SUFFICES ASSUME Init PROVE IInv
  OBVIOUS
<1>1. AcceptedOnce /\ OkayMeansAccepted
  BY DEF Init, AcceptedOnce, OkayMeansAccepted, Okay, Unset
<1> QED
  BY <1>1, InitTypes, InitPlaces, InitTurns DEF IInv, Places

LEMMA NextIInv == IInv /\ [Next]_vars => IInv'
<1> SUFFICES ASSUME IInv, [Next]_vars PROVE IInv'
  OBVIOUS
<1>1. TypeInv /\ Places /\ AcceptedOnce /\ OkayMeansAccepted /\ TurnToCome
  BY DEF IInv, Places
<1>2. TypeInv' /\ Places'
  BY <1>1, TypeStep, PlacesStep
<1>3. AcceptedOnce' /\ OkayMeansAccepted' /\ TurnToCome'
  BY <1>1, AcceptedOnceStep, OkayStep, TurnsStep
<1> QED
  BY <1>2, <1>3 DEF IInv, Places

LEMMA Invariance == Spec => []IInv
BY InitIInv, NextIInv, PTL DEF Spec

\* Every variable of the delivery keeps its type, and the counters of the
\* provider their bounds.
THEOREM TypeCorrect == Spec => []TypeOK
<1>1. IInv => TypeOK
  BY TypesImplyTypeOK DEF IInv
<1> QED
  BY <1>1, Invariance, PTL

\* No recipient is reported as sent to unless a server has accepted a message for
\* it, or startSession() was mistaken: about an answer to RCPT that
\* errorToStatusCode() does not know, or about a message without data.
THEOREM SentAccepted == Spec => []SentMeansAccepted
<1>1. IInv => SentMeansAccepted
  BY DEF IInv, OkayMeansAccepted, SentMeansAccepted
<1> QED
  BY <1>1, Invariance, PTL

\* When the statement that updates recipients names their table, a recipient
\* gets its message once, and once more for each time that the slave dies.
THEOREM SentOnce ==
  ASSUME UpdatesLand
  PROVE  Spec => []NoDuplicates
<1>1. IInv => NoDuplicates
  BY DEF IInv, AcceptedOnce, NoDuplicates
<1> QED
  BY <1>1, Invariance, PTL

\* No recipient is failed before its turn has come.
THEOREM FailedTried == Spec => []FailedMeansTried
<1>1. IInv => FailedMeansTried
  BY DEF IInv, TurnToCome, Turns, FailedMeansTried
<1> QED
  BY <1>1, Invariance, PTL

\* Once recorded, the status of a recipient is final.
THEOREM FinalStatus == Spec => StatusIsFinal
<1>1. IInv /\ [Next]_vars =>
        [\A r \in Recipients : status[r] # "Waiting" => status'[r] = status[r]]_vars
  BY StatusStep DEF IInv, Places
<1> QED
  BY <1>1, Invariance, PTL DEF Spec, StatusIsFinal
----------------------------------------------------------------------------
\* Refinement of RecipientLife.

\* A server that takes a message takes it for recipients who wait, and had none
\* since the slave was started; those the slave is mistaken about wait as well.
LEMMA SendAccepts ==
  ASSUME UpdatesLand, IInv, SendMessage
  PROVE  \E S, M \in SUBSET Recipients : Life!Accept(S, M)
<1> DEFINE n == NextUnsent
           S == {r \in Recipients : accepted'[r] # accepted[r]}
           M == mistaken' \ mistaken
<1>1. /\ n \in DOMAIN queue /\ ~queue[n].sent
      /\ \A r \in Recipients : accepted'[r] \in {accepted[r], accepted[r] + 1}
      /\ \A r \in S : r \in queue[n].to
      /\ mistaken' = mistaken \cup M /\ M \subseteq queue[n].to
  BY SendFacts DEF IInv
<1>2. pc = "mail" /\ status' = status /\ crashes' = crashes
  BY DEF SendMessage, bounds
<1>3. Alive = DOMAIN queue
  BY <1>2 DEF IInv, Phases, AllAlive, Alive
<1>7. \A r \in queue[n].to : r \in Recipients /\ status[r] = "Waiting"
  BY <1>1, <1>2, <1>3 DEF IInv, StillWaiting, TypeInv
<1>4. ASSUME NEW r \in S PROVE status[r] = "Waiting" /\ accepted[r] <= crashes
  <2>1. status[r] = "Waiting"
    BY <1>1, <1>7
  <2>2. ~InSentMessage(r)
    BY <1>1, <1>3 DEF IInv, OnePlace, InSentMessage
  <2>3. accepted[r] \in Nat /\ crashes \in Nat
    BY DeliveryAssumption DEF IInv, TypeInv
  <2> QED
    BY <1>2, <2>1, <2>2, <2>3 DEF IInv, AcceptedOnce
<1>5. accepted' = [r \in Recipients |-> IF r \in S THEN accepted[r] + 1 ELSE accepted[r]]
  <2>1. accepted' = [r \in Recipients |-> accepted'[r]]
    BY SendFacts DEF IInv
  <2>2. \A r \in Recipients : accepted'[r] = IF r \in S THEN accepted[r] + 1 ELSE accepted[r]
    BY <1>1
  <2> QED
    BY <2>1, <2>2
<1>6. S \in SUBSET Recipients /\ M \in SUBSET Recipients
  BY <1>1, <1>7
<1> HIDE DEF S, M
<1> QED
  BY <1>1, <1>2, <1>4, <1>5, <1>6, <1>7 DEF Life!Accept

\* An UPDATE records the status of one recipient, who waits.
LEMMA UpdateRecords ==
  ASSUME UpdatesLand, IInv, UpdateRecipient
  PROVE  \E sent, failed \in SUBSET Recipients : Life!Record(sent, failed)
<1>1. PICK r \in pending : status' = [status EXCEPT ![r] = StatusOf(code[r])]
  BY DEF UpdateRecipient, FirstOf
<1>2. r \in Recipients /\ status[r] = "Waiting" /\ status \in [Recipients -> {"Waiting", "Sent", "Failed"}]
  BY DEF IInv, TypeInv, StillWaiting
<1>3. UNCHANGED <<accepted, mistaken, crashes>>
  BY DEF UpdateRecipient, bounds, history
<1>4. CASE code[r] = Okay
  <2>1. accepted[r] > 0 \/ r \in mistaken
    BY <1>2, <1>4 DEF IInv, OkayMeansAccepted
  <2>2. status' = [q \in Recipients |-> IF q \in {r} THEN "Sent"
                                        ELSE IF q \in {} THEN "Failed" ELSE status[q]]
    BY <1>1, <1>2, <1>4 DEF StatusOf
  <2>3. Life!Record({r}, {})
    BY <1>2, <1>3, <2>1, <2>2 DEF Life!Record
  <2> QED
    BY <1>2, <2>3
<1>5. CASE code[r] # Okay
  <2>1. status' = [q \in Recipients |-> IF q \in {} THEN "Sent"
                                        ELSE IF q \in {r} THEN "Failed" ELSE status[q]]
    BY <1>1, <1>2, <1>5 DEF StatusOf
  <2>2. Life!Record({}, {r})
    BY <1>2, <1>3, <2>1 DEF Life!Record
  <2> QED
    BY <1>2, <2>2
<1> QED
  BY <1>4, <1>5

\* What sendToDomain() fails after a batch is failed for the first time.
LEMMA DeleteRecords ==
  ASSUME UpdatesLand, IInv, DeleteMessages
  PROVE  \E sent, failed \in SUBSET Recipients : Life!Record(sent, failed)
<1> DEFINE failing == IF messageOk THEN {} ELSE fetched \ resolved
<1>1. failing \in SUBSET Recipients /\ \A r \in failing : status[r] = "Waiting"
  BY DEF IInv, TypeInv, StillWaiting
<1>2. status' = [q \in Recipients |-> IF q \in {} THEN "Sent"
                                      ELSE IF q \in failing THEN "Failed" ELSE status[q]]
  BY DEF DeleteMessages, Unresolved
<1>3. UNCHANGED <<accepted, mistaken, crashes>>
  BY DEF DeleteMessages, bounds
<1> HIDE DEF failing
<1>4. Life!Record({}, failing)
  BY <1>1, <1>2, <1>3 DEF Life!Record
<1> QED
  BY <1>1, <1>4

LEMMA LifeStep ==
  ASSUME UpdatesLand, IInv, [Next]_vars
  PROVE  [Life!RecipientLifeNext]_<<status, accepted, mistaken, crashes>>
<1>1. CASE SendMessage
  BY <1>1, SendAccepts DEF Life!RecipientLifeNext
<1>2. CASE UpdateRecipient
  BY <1>2, UpdateRecords DEF Life!RecipientLifeNext
<1>3. CASE DeleteMessages
  BY <1>3, DeleteRecords DEF Life!RecipientLifeNext
<1>4. CASE Crash
  <2>1. mistaken' = {r \in mistaken : status[r] # "Waiting"}
    BY <1>4 DEF Crash, Waiting, IInv, TypeInv
  <2> QED
    BY <1>4, <2>1 DEF Crash, Life!RecipientLifeNext, Life!Restart
<1>5. CASE ~SendMessage /\ ~UpdateRecipient /\ ~DeleteMessages /\ ~Crash
  <2>1. accepted' = accepted /\ mistaken' = mistaken /\ crashes' = crashes
    BY <1>5, AcceptedUnchanged, CrashesUnchanged
  <2>2. status' = status
    BY <1>5 DEF Next, Step, FetchBatch, NoneWaiting, QueueMessage, QueueMessageNoServer,
       AddRecipients, ForceSend, ReadDeleted, NoConnection, Connect, MailRefused, Quit,
       NextSession, Ended, vars
  <2> QED
    BY <2>1, <2>2
<1> QED
  BY <1>1, <1>2, <1>3, <1>4, <1>5

\* With statements that reach their rows, sending to a domain implements
\* RecipientLife.
THEOREM ImplementsLife ==
  ASSUME UpdatesLand
  PROVE  Spec => RecipientsLife
<1>1. Init => Life!RecipientLifeInit
  BY DEF Init, Life!RecipientLifeInit
<1>2. IInv /\ [Next]_vars => [Life!RecipientLifeNext]_<<status, accepted, mistaken, crashes>>
  BY LifeStep
<1> QED
  BY <1>1, <1>2, Invariance, PTL DEF Spec, RecipientsLife, Life!RecipientLifeSpec
----------------------------------------------------------------------------
\* Refinement of BatchRounds.

\* A batch comes to something: what was signed is counted and, unless the batch
\* before failed, addressed to somebody.  It is this batch's, for the count is back
\* at none when a batch has succeeded.
Fruitful ==
  /\ resolved \subseteq fetched
  /\ UpdatesLand => \A r \in resolved : status[r] # "Waiting"
  /\ pc \notin {"fetch", "done"} => fetched # {}
  /\ pc = "add" => rest # {}
  /\ hasData => msgsCount > 0
  /\ pc \in {"fetch", "delete"} => ~hasData
  /\ pc = "delete" /\ messageOk => msgsCount = 0
  /\ pc = "fetch" /\ previousOk => msgsCount = 0
  /\ previousOk /\ messageOk /\ resolved = {} =>
       /\ pc = "generate" => msgsCount < MaxMsgs /\ (hasData => Addressees # {})
       /\ pc = "add" => msgsCount < MaxMsgs /\ linked
       /\ pc \in {"session", "mail"} => Addressees # {}
       /\ pc = "update" => pending # {}
       /\ pc # "delete"

LEMMA FirstOfSome ==
  ASSUME NEW n \in Nat, n > 0, NEW S \in SUBSET Recipients, S # {}
  PROVE  FirstOf(n, S) # {} /\ Cardinality(FirstOf(n, S)) > 0
<1>1. Cardinality(FirstOf(n, S)) < n => FirstOf(n, S) = S
  BY FirstOfFacts
<1>2. Cardinality(FirstOf(n, S)) \in Nat
  BY FirstOfFacts
<1>3. IsFiniteSet(S) /\ Cardinality(S) \in Nat /\ Cardinality(S) # 0
  BY RecipientsFinite, FS_EmptySet
<1>4. Cardinality(FirstOf(n, S)) > 0
  BY <1>1, <1>2, <1>3
<1> QED
  BY <1>4, FS_EmptySet

\* Steps that leave what Fruitful is about as it is, or end the batch or the slave.
LEMMA QuietFruits ==
  ASSUME Fruitful, UNCHANGED <<status, fetched, rest, linked, queue, msgsCount, hasData,
                               pending, resolved, messageOk, previousOk>>,
         \/ pc' = pc
         \/ pc = "fetch" /\ pc' = "done"
         \/ pc = "session" /\ pc' \in {"mail", "undefined"}
  PROVE  Fruitful'
<1>1. Addressees' = Addressees
  BY DEF Addressees
<1> QED
  BY <1>1 DEF Fruitful

LEMMA FetchFruits ==
  ASSUME TypeInv, Places, Fruitful, FetchBatch
  PROVE  Fruitful'
<1>1. fetched' # {}
  <2>1. BatchSize \in Nat /\ BatchSize > 0
    BY DeliveryAssumption
  <2>2. Waiting \in SUBSET Recipients /\ Waiting # {}
    BY DEF FetchBatch, Waiting
  <2> QED
    BY <2>1, <2>2, FirstOfSome DEF FetchBatch
<1>2. pc = "fetch" /\ pc' = "generate" /\ resolved = {} /\ resolved' = {}
  BY DEF FetchBatch, Places, Phases
<1>3. msgsCount' = msgsCount /\ hasData' = hasData /\ previousOk' = previousOk
  BY DEF FetchBatch, history
<1> QED
  BY <1>1, <1>2, <1>3, DeliveryAssumption DEF Fruitful

LEMMA QueueFruits ==
  ASSUME TypeInv, Fruitful, QueueMessage
  PROVE  Fruitful'
<1>1. rest' # {}
  <2>1. CASE personalized
    BY <2>1, FirstOfSome DEF QueueMessage, NextMessage, TypeInv
  <2>2. CASE ~personalized
    BY <2>2 DEF QueueMessage, NextMessage
  <2> QED
    BY <2>1, <2>2
<1>2. /\ pc = "generate" /\ pc' = "add" /\ linked' = TRUE
      /\ UNCHANGED <<status, fetched, msgsCount, hasData, resolved, messageOk, previousOk>>
  BY DEF QueueMessage, history
<1> QED
  BY <1>1, <1>2 DEF Fruitful

LEMMA AddFruits ==
  ASSUME TypeInv, Fruitful, AddRecipients
  PROVE  Fruitful'
<1>1. /\ MaxMsgs - msgsCount \in Nat /\ MaxMsgs \in Nat \ {0} /\ msgsCount \in Nat
      /\ rest \in SUBSET Recipients /\ rest # {}
  BY DeliveryAssumption DEF AddRecipients, Fruitful, TypeInv
<1>2. Chunk \subseteq rest /\ Cardinality(Chunk) \in Nat
  BY <1>1, FirstOfFacts DEF Chunk
<1>3. msgsCount < MaxMsgs => Chunk # {} /\ Cardinality(Chunk) > 0
  BY <1>1, FirstOfSome DEF Chunk
<1>4. /\ pc = "add" /\ pc' \in {"session", "generate"}
      /\ msgsCount' = msgsCount + Cardinality(Chunk) /\ msgsCount' > 0
      /\ UNCHANGED <<status, fetched, pending, resolved, previousOk>>
  BY <1>1, <1>2, <1>3 DEF AddRecipients
<1>5. messageOk' => messageOk /\ pc' = IF msgsCount' >= MaxMsgs THEN "session" ELSE "generate"
  BY DEF AddRecipients
<1>6. ASSUME linked, Chunk # {} PROVE Addressees' # {}
  <2> DEFINE q == [queue EXCEPT ![Len(queue)].to = @ \cup Chunk]
  <2>1. queue \in Seq(Message) /\ queue # <<>> /\ Chunk \in SUBSET Recipients
    BY <1>1, <1>2, <1>6 DEF TypeInv
  <2>2. queue' = q
    BY <1>6 DEF AddRecipients
  <2>3. Len(queue) \in DOMAIN q /\ q[Len(queue)].to = queue[Len(queue)].to \cup Chunk
    BY <2>1, QueueExtended
  <2> HIDE DEF q
  <2>4. Chunk \subseteq Addressees'
    BY <2>2, <2>3 DEF Addressees
  <2> QED
    BY <1>6, <2>4
<1>7. ASSUME previousOk, messageOk', resolved = {}
      PROVE  /\ Addressees' # {}
             /\ pc' = "generate" => msgsCount' < MaxMsgs
  <2>1. msgsCount < MaxMsgs /\ linked
    BY <1>4, <1>5, <1>7 DEF Fruitful
  <2> QED
    BY <1>1, <1>2, <1>3, <1>4, <1>5, <1>6, <1>7, <2>1
<1> QED
  BY <1>4, <1>5, <1>7 DEF Fruitful

LEMMA ForceFruits ==
  ASSUME TypeInv, Fruitful, ForceSend
  PROVE  Fruitful'
<1>1. /\ pc = "generate" /\ pc' = IF hasData /\ msgsCount > 0 THEN "session" ELSE "delete"
      /\ (messageOk' => messageOk /\ hasData)
      /\ UNCHANGED <<status, fetched, resolved, msgsCount, hasData, queue, pending, previousOk>>
  BY DEF ForceSend, MustSend, provider, history
<1>2. Addressees' = Addressees
  BY <1>1 DEF Addressees
<1> QED
  BY <1>1, <1>2 DEF Fruitful

LEMMA MailFruits ==
  ASSUME TypeInv, Fruitful, NoConnection \/ SendMessage \/ MailRefused \/ Quit
  PROVE  Fruitful'
<1>1. Addressees' = Addressees
  <2>1. CASE NoConnection \/ Quit
    BY <2>1 DEF NoConnection, Quit, Addressees
  <2>2. CASE SendMessage \/ MailRefused
    <3>1. NextUnsent \in DOMAIN queue /\ queue' = Marked(NextUnsent)
      BY <2>2, NextUnsentFacts DEF SendMessage, MailRefused, TypeInv
    <3>2. /\ DOMAIN queue' = DOMAIN queue
          /\ \A i \in DOMAIN queue : queue'[i].to = queue[i].to
      BY <3>1, QueueMarked DEF TypeInv
    <3> QED
      BY <3>2 DEF Addressees
  <2> QED
    BY <2>1, <2>2
<1>2. /\ pc \in {"session", "mail"}
      /\ \/ pc' = "mail" /\ pc = "mail"
         \/ pc' = "update" /\ pending' = Addressees
      /\ UNCHANGED <<status, fetched, resolved, messageOk, hasData, msgsCount, previousOk>>
  BY DEF NoConnection, SendMessage, MailRefused, Quit, progress, history
<1> QED
  BY <1>1, <1>2 DEF Fruitful

LEMMA UpdateFruits ==
  ASSUME TypeInv, Places, Fruitful, UpdateRecipient
  PROVE  Fruitful'
<1>1. PICK r \in pending :
        /\ status' = IF UpdatesLand THEN [status EXCEPT ![r] = StatusOf(code[r])] ELSE status
        /\ resolved' = resolved \cup {r}
  BY DEF UpdateRecipient, FirstOf
<1>2. /\ pc = "update" /\ pc' = "update"
      /\ UNCHANGED <<fetched, rest, messageOk, hasData, msgsCount, previousOk>>
  BY DEF UpdateRecipient, progress, history
<1>3. r \in fetched
  BY DEF Places, StillWaiting
<1>4. UpdatesLand => \A q \in resolved' : status'[q] # "Waiting"
  BY <1>1 DEF Fruitful, TypeInv, StatusOf
<1> QED
  BY <1>1, <1>2, <1>3, <1>4 DEF Fruitful

LEMMA NextSessionFruits ==
  ASSUME TypeInv, Fruitful, NextSession
  PROVE  Fruitful'
<1>1. /\ pc = "update" /\ pending = {} /\ msgsCount' = 0 /\ hasData' = FALSE
      /\ pc' \in {"delete", "add", "generate"} /\ (pc' = "add" => rest' # {})
      /\ (messageOk' => messageOk)
      /\ UNCHANGED <<status, fetched, resolved, previousOk>>
  BY DEF NextSession
<1> QED
  BY <1>1 DEF Fruitful

LEMMA FruitfulStep ==
  ASSUME TypeInv, Places, Fruitful, [Next]_vars
  PROVE  Fruitful'
<1>1. CASE NoneWaiting \/ ReadDeleted \/ Connect \/ Ended \/ UNCHANGED vars
  BY <1>1, QuietFruits DEF NoneWaiting, ReadDeleted, Connect, Ended, vars, progress, provider,
     history
<1>2. CASE QueueMessageNoServer
  BY <1>2 DEF QueueMessageNoServer, Fruitful
<1>3. CASE DeleteMessages
  BY <1>3 DEF DeleteMessages, Fruitful
<1>4. CASE Crash
  BY <1>4 DEF Crash, FreshProcess, Fruitful
<1> QED
  BY <1>1, <1>2, <1>3, <1>4, FetchFruits, QueueFruits, AddFruits, ForceFruits, MailFruits,
     UpdateFruits, NextSessionFruits DEF Next, Step

LEMMA FruitfulInvariance == Spec => []Fruitful
<1>1. Init => Fruitful
  BY DEF Init, Fruitful
<1>2. IInv /\ Fruitful /\ [Next]_vars => Fruitful'
  BY FruitfulStep DEF IInv, Places
<1> QED
  BY <1>1, <1>2, Invariance, PTL DEF Spec

\* What is taken away from a set of recipients is taken away from their number.
LEMMA CountedLess ==
  ASSUME NEW A \in SUBSET Recipients, NEW B \in SUBSET A
  PROVE  /\ Cardinality(A) \in Nat /\ Cardinality(B) \in 0..Cardinality(A)
         /\ Cardinality(A \ B) = Cardinality(A) - Cardinality(B)
         /\ B = {} <=> Cardinality(B) = 0
<1>1. A \cap B = B /\ B \in SUBSET Recipients
  OBVIOUS
<1>2. IsFiniteSet(A) /\ IsFiniteSet(B) /\ Cardinality(A) \in Nat /\ Cardinality(B) \in Nat
  BY <1>1, RecipientsFinite
<1>3. Cardinality(A \ B) = Cardinality(A) - Cardinality(B)
  BY <1>1, <1>2, FS_Difference
<1>4. Cardinality(B) <= Cardinality(A)
  BY <1>2, FS_Subset
<1>5. B = {} <=> Cardinality(B) = 0
  BY <1>2, FS_EmptySet
<1> QED
  BY <1>2, <1>3, <1>4, <1>5

LEMMA FetchRounds ==
  ASSUME UpdatesLand, IInv, FetchBatch
  PROVE  Rounds!Fetch
<1>1. fetched = {} /\ resolved = {} /\ Waiting # {} /\ fetched' = FirstOf(BatchSize, Waiting)
  BY DEF FetchBatch, IInv, Phases
<1>2. Unfinished' = Unfinished /\ Unfinished = Waiting
  BY <1>1 DEF FetchBatch, Unfinished, Waiting
<1>3. BatchSize \in Nat /\ Waiting \in SUBSET Recipients
  BY DeliveryAssumption DEF Waiting
<1>4. Cardinality(fetched) = 0
  BY <1>1, FS_EmptySet
<1>5. Cardinality(Waiting) \in Nat /\ Cardinality(Waiting) > 0
  BY <1>1, <1>3, CountedLess
<1> DEFINE F == FirstOf(BatchSize, Waiting)
<1>6. F \in SUBSET Waiting /\ Cardinality(F) \in 0..BatchSize
      /\ (Cardinality(F) < BatchSize => F = Waiting)
  BY <1>3, FirstOfFacts
<1> HIDE DEF F
<1>7. Cardinality(F) <= Cardinality(Waiting)
  <2>1. Cardinality(F) \in 0..Cardinality(Waiting)
    BY <1>3, <1>6, CountedLess
  <2> QED
    BY <1>5, <2>1
<1>8. Cardinality(F) = IF Cardinality(Waiting) < BatchSize THEN Cardinality(Waiting)
                                                          ELSE BatchSize
  BY <1>3, <1>5, <1>6, <1>7
<1>9. previousOk' = previousOk /\ crashes' = crashes
  BY DEF FetchBatch, history, bounds
<1> QED
  BY <1>1, <1>2, <1>4, <1>5, <1>8, <1>9 DEF Rounds!Fetch, F

\* A status the updater has recorded counts when the batch is over.
LEMMA UpdateRounds ==
  ASSUME UpdatesLand, IInv, UpdateRecipient
  PROVE  UNCHANGED Rounds!BatchRoundsVars
<1>1. PICK r \in pending : /\ status' = [status EXCEPT ![r] = StatusOf(code[r])]
                           /\ resolved' = resolved \cup {r}
  BY DEF UpdateRecipient, FirstOf
<1>2. r \in Recipients /\ status[r] = "Waiting" /\ status \in [Recipients -> {"Waiting", "Sent", "Failed"}]
  BY DEF IInv, TypeInv, StillWaiting
<1>3. Waiting' = Waiting \ {r} /\ r \in Waiting
  BY <1>1, <1>2 DEF Waiting, StatusOf
<1>4. Unfinished' = Unfinished
  BY <1>1, <1>3 DEF Unfinished
<1>5. UNCHANGED <<fetched, previousOk, crashes>>
  BY DEF UpdateRecipient, progress, history, bounds
<1> QED
  BY <1>4, <1>5 DEF Rounds!BatchRoundsVars

\* At the end of a batch: who waits, and what the batch has come to so far.
LEMMA BatchInHand ==
  ASSUME UpdatesLand, IInv, Fruitful
  PROVE  /\ Unfinished \in SUBSET Recipients /\ Cardinality(Unfinished) \in Nat
         /\ fetched \in SUBSET Unfinished /\ resolved \in SUBSET fetched
         /\ Waiting = Unfinished \ resolved
         /\ Cardinality(resolved) \in 0..Cardinality(fetched)
         /\ Cardinality(fetched) \in Nat
         /\ Cardinality(Waiting) = Cardinality(Unfinished) - Cardinality(resolved)
         /\ Cardinality(Unfinished \ fetched) = Cardinality(Unfinished) - Cardinality(fetched)
         /\ (fetched # {} => Cardinality(fetched) > 0)
<1>1. resolved \in SUBSET fetched /\ fetched \in SUBSET Recipients
  BY DEF IInv, TypeInv, Fruitful
<1>2. resolved \cap Waiting = {}
  BY DEF Fruitful, Waiting
<1>3. Unfinished \in SUBSET Recipients
  BY <1>1 DEF Unfinished, Waiting
<1>4. fetched \subseteq Unfinished
  BY <1>1 DEF Unfinished, Waiting, IInv, StillWaiting
<1>5. Waiting = Unfinished \ resolved
  BY <1>2 DEF Unfinished
<1>6. resolved \in SUBSET Unfinished /\ fetched \in SUBSET Unfinished
  BY <1>1, <1>4
<1>7. Cardinality(resolved) \in 0..Cardinality(fetched) /\ Cardinality(fetched) \in Nat
      /\ (fetched # {} => Cardinality(fetched) > 0)
  <2>1. Cardinality(resolved) \in 0..Cardinality(fetched) /\ Cardinality(fetched) \in Nat
    BY <1>1, CountedLess
  <2>2. fetched # {} => Cardinality(fetched) # 0
    BY <1>3, <1>6, CountedLess
  <2> QED
    BY <2>1, <2>2
<1>8. Cardinality(Unfinished \ resolved) = Cardinality(Unfinished) - Cardinality(resolved)
      /\ Cardinality(Unfinished \ fetched) = Cardinality(Unfinished) - Cardinality(fetched)
      /\ Cardinality(Unfinished) \in Nat
  BY <1>3, <1>6, CountedLess
<1> QED
  BY <1>1, <1>3, <1>5, <1>6, <1>7, <1>8

LEMMA DeleteRounds ==
  ASSUME UpdatesLand, IInv, Fruitful, DeleteMessages
  PROVE  Rounds!Sent \/ Rounds!Failed
<1>1. /\ pc = "delete" /\ fetched # {} /\ fetched' = {} /\ resolved' = {}
      /\ previousOk' = messageOk /\ crashes' = crashes
  BY DEF DeleteMessages, Fruitful, bounds
<1>2. Cardinality(fetched') = 0
  BY <1>1, FS_EmptySet
<1>3. Unfinished' = Waiting'
  BY <1>1 DEF Unfinished
<1>4. messageOk \in BOOLEAN /\ previousOk \in BOOLEAN
  BY DEF IInv, TypeInv
<1>5. CASE messageOk
  <2>1. Waiting' = Waiting
    BY <1>5 DEF DeleteMessages, Waiting
  <2>2. Cardinality(Unfinished') = Cardinality(Unfinished) - Cardinality(resolved)
    BY <1>3, <2>1, BatchInHand
  <2>3. Cardinality(resolved) = 0 => ~previousOk
    BY <1>1, <1>5, BatchInHand, CountedLess DEF Fruitful
  <2>4. (~previousOk') = FALSE
    BY <1>1, <1>5, Zenon
  <2>5. Rounds!Sent
    BY <1>1, <1>2, <2>2, <2>3, <2>4, BatchInHand DEF Rounds!Sent, Rounds!Over
  <2> QED
    BY <2>5
<1>6. CASE ~messageOk
  <2>1. Waiting' = Waiting \ (fetched \ resolved)
    BY <1>6 DEF DeleteMessages, Waiting, Unresolved
  <2>2. Unfinished' = Unfinished \ fetched
    BY <1>3, <2>1, BatchInHand
  <2>3. Cardinality(Unfinished') = Cardinality(Unfinished) - Cardinality(fetched)
    BY <2>2, BatchInHand
  <2>4. (~previousOk') = TRUE
    BY <1>1, <1>6, Zenon
  <2>5. Rounds!Failed
    BY <1>1, <1>2, <2>3, <2>4, BatchInHand DEF Rounds!Failed, Rounds!Over
  <2> QED
    BY <2>5
<1> QED
  BY <1>4, <1>5, <1>6

LEMMA CrashRounds ==
  ASSUME UpdatesLand, IInv, Fruitful, Crash
  PROVE  Rounds!Restart
<1>1. /\ fetched' = {} /\ resolved' = {} /\ status' = status
      /\ previousOk' = TRUE /\ crashes' = crashes + 1
  BY DEF Crash, FreshProcess
<1>2. Cardinality(fetched') = 0
  BY <1>1, FS_EmptySet
<1>3. Unfinished' = Waiting
  BY <1>1 DEF Unfinished, Waiting
<1>4. Cardinality(Unfinished') = Cardinality(Unfinished) - Cardinality(resolved)
  BY <1>3, BatchInHand
<1>5. (~previousOk') = FALSE
  BY <1>1, Zenon
<1>6. CASE fetched = {}
  <2>1. resolved = {} /\ Cardinality(fetched) = 0
    BY <1>6, BatchInHand, FS_EmptySet
  <2>2. Unfinished' = Unfinished
    BY <1>3, <2>1 DEF Unfinished
  <2> QED
    BY <1>1, <1>2, <1>5, <1>6, <2>1, <2>2 DEF Rounds!Restart
<1>7. CASE fetched # {}
  BY <1>1, <1>2, <1>4, <1>5, <1>7, BatchInHand DEF Rounds!Restart, Rounds!Over
<1> QED
  BY <1>6, <1>7

LEMMA RoundStep ==
  ASSUME UpdatesLand, IInv, Fruitful, [Next]_vars
  PROVE  [Rounds!BatchRoundsNext]_(Rounds!BatchRoundsVars)
<1>1. CASE FetchBatch
  BY <1>1, FetchRounds DEF Rounds!BatchRoundsNext
<1>2. CASE UpdateRecipient
  BY <1>2, UpdateRounds
<1>3. CASE DeleteMessages
  BY <1>3, DeleteRounds DEF Rounds!BatchRoundsNext
<1>4. CASE Crash
  BY <1>4, CrashRounds DEF Rounds!BatchRoundsNext
<1>5. CASE ~FetchBatch /\ ~UpdateRecipient /\ ~DeleteMessages /\ ~Crash
  <2>1. UNCHANGED <<status, resolved, fetched, previousOk, crashes>>
    BY <1>5 DEF Next, Step, NoneWaiting, QueueMessage, QueueMessageNoServer,
       AddRecipients, ForceSend, ReadDeleted, NoConnection, Connect, SendMessage, MailRefused,
       Quit, NextSession, Ended, vars, progress, provider, history, bounds
  <2>2. Unfinished' = Unfinished
    BY <2>1 DEF Unfinished, Waiting
  <2> QED
    BY <2>1, <2>2 DEF Rounds!BatchRoundsVars
<1> QED
  BY <1>1, <1>2, <1>3, <1>4, <1>5

\* With statements that reach their rows, sending to a domain implements
\* BatchRounds: a batch is what a thread of SlaveThreads takes it for.
THEOREM ImplementsRounds ==
  ASSUME UpdatesLand
  PROVE  Spec => RoundByRound
<1>1. Init => Rounds!BatchRoundsInit
  <2> SUFFICES ASSUME Init PROVE Rounds!BatchRoundsInit
    OBVIOUS
  <2>1. Unfinished \in SUBSET Recipients
    BY DEF Init, Unfinished, Waiting
  <2>2. Cardinality(Unfinished) \in Nat
    BY <2>1, RecipientsFinite
  <2>3. Cardinality(fetched) = 0
    BY FS_EmptySet DEF Init
  <2>4. (~previousOk) = FALSE
    BY Zenon DEF Init
  <2> QED
    BY <2>2, <2>3, <2>4 DEF Init, Rounds!BatchRoundsInit
<1>2. IInv /\ Fruitful /\ [Next]_vars => [Rounds!BatchRoundsNext]_(Rounds!BatchRoundsVars)
  BY RoundStep
<1> QED
  BY <1>1, <1>2, Invariance, FruitfulInvariance, PTL
     DEF Spec, RoundByRound, Rounds!BatchRoundsSpec
----------------------------------------------------------------------------
\* Why sending to a domain ends.

\* What is left to do, the most important first: rounds; stages of this round; recipients
\* whose message was not created yet; those to add to this message; steps of this
\* session; messages to send, or statuses to record.
RoundsLeft  == 2 * Cardinality(Unfinished) + IF previousOk THEN 0 ELSE 1
StagesLeft  == CASE pc = "fetch" -> 3
                 [] pc \in {"delete", "done", "undefined"} -> 0
                 [] OTHER -> IF forced THEN 1 ELSE 2
SessionLeft == CASE pc = "session" -> 4
                 [] pc = "mail" -> 3
                 [] pc = "update" -> 2
                 [] pc = "add" -> IF msgsCount < MaxMsgs THEN 1 ELSE 5
                 [] OTHER -> 0
RepliesLeft == CASE pc = "mail" -> Cardinality(Unsent)
                 [] pc = "update" -> Cardinality(pending)
                 [] OTHER -> 0
Left == <<RoundsLeft, StagesLeft, Cardinality(todo), Cardinality(rest), SessionLeft, RepliesLeft>>

\* The lexicographic order.
Less(p, q) == \E i \in 1..6 : p[i] < q[i] /\ \A j \in 1..(i - 1) : p[j] = q[j]

\* Every step of the slave leaves less to do.
LessLeft == [][Step => Left \in [1..6 -> Nat] /\ Less(Left', Left)]_vars

LEMMA UnsentFinite ==
  ASSUME TypeInv
  PROVE  IsFiniteSet(Unsent) /\ Cardinality(Unsent) \in Nat
<1>1. Len(queue) \in Nat /\ DOMAIN queue = 1..Len(queue)
  BY LenProperties DEF TypeInv
<1>2. IsFiniteSet(1..Len(queue))
  BY <1>1, FS_Interval
<1>3. Unsent \in SUBSET (1..Len(queue))
  BY <1>1 DEF Unsent
<1> QED
  BY <1>2, <1>3, FS_Subset, FS_CardinalityType

LEMMA LeftTypes ==
  ASSUME IInv
  PROVE  /\ RoundsLeft \in Nat /\ StagesLeft \in Nat /\ Cardinality(todo) \in Nat
         /\ Cardinality(rest) \in Nat /\ SessionLeft \in Nat /\ RepliesLeft \in Nat
<1>1. TypeInv
  BY DEF IInv
<1>2. Cardinality(Unfinished) \in Nat /\ Cardinality(pending) \in Nat
      /\ Cardinality(todo) \in Nat /\ Cardinality(rest) \in Nat
  <2>1. Unfinished \in SUBSET Recipients
    BY <1>1 DEF TypeInv, Unfinished, Waiting
  <2> QED
    BY <1>1, <2>1, RecipientsFinite DEF TypeInv
<1>3. Cardinality(Unsent) \in Nat
  BY <1>1, UnsentFinite
<1>4. RoundsLeft \in Nat
  BY <1>2 DEF RoundsLeft
<1>5. StagesLeft \in Nat
  BY DEF StagesLeft
<1>6. SessionLeft \in Nat
  BY DEF SessionLeft
<1>7. RepliesLeft \in Nat
  BY <1>2, <1>3 DEF RepliesLeft
<1> QED
  BY <1>2, <1>4, <1>5, <1>6, <1>7

\* What is less important may grow where something more important is less.
LEMMA LessWhen ==
  ASSUME \/ RoundsLeft' < RoundsLeft
         \/ /\ RoundsLeft' = RoundsLeft
            /\ \/ StagesLeft' < StagesLeft
               \/ /\ StagesLeft' = StagesLeft
                  /\ \/ Cardinality(todo') < Cardinality(todo)
                     \/ /\ todo' = todo
                        /\ \/ Cardinality(rest') < Cardinality(rest)
                           \/ /\ rest' = rest
                              /\ \/ SessionLeft' < SessionLeft
                                 \/ /\ SessionLeft' = SessionLeft
                                    /\ RepliesLeft' < RepliesLeft
  PROVE  Less(Left', Left)
<1>1. CASE RoundsLeft' < RoundsLeft
  <2>1. Left'[1] < Left[1] /\ 1..0 = {}
    BY <1>1 DEF Left
  <2> QED
    BY <2>1 DEF Less
<1>2. CASE RoundsLeft' = RoundsLeft /\ StagesLeft' < StagesLeft
  <2>1. Left'[2] < Left[2] /\ \A j \in 1..1 : Left'[j] = Left[j]
    BY <1>2 DEF Left
  <2> QED
    BY <2>1 DEF Less
<1>3. CASE /\ RoundsLeft' = RoundsLeft /\ StagesLeft' = StagesLeft
           /\ Cardinality(todo') < Cardinality(todo)
  <2>1. Left'[3] < Left[3] /\ \A j \in 1..2 : Left'[j] = Left[j]
    BY <1>3 DEF Left
  <2> QED
    BY <2>1 DEF Less
<1>4. CASE /\ RoundsLeft' = RoundsLeft /\ StagesLeft' = StagesLeft /\ todo' = todo
           /\ Cardinality(rest') < Cardinality(rest)
  <2>1. Left'[4] < Left[4] /\ \A j \in 1..3 : Left'[j] = Left[j]
    BY <1>4 DEF Left
  <2> QED
    BY <2>1 DEF Less
<1>5. CASE /\ RoundsLeft' = RoundsLeft /\ StagesLeft' = StagesLeft /\ todo' = todo
           /\ rest' = rest /\ SessionLeft' < SessionLeft
  <2>1. Left'[5] < Left[5] /\ \A j \in 1..4 : Left'[j] = Left[j]
    BY <1>5 DEF Left
  <2> QED
    BY <2>1 DEF Less
<1>6. CASE /\ RoundsLeft' = RoundsLeft /\ StagesLeft' = StagesLeft /\ todo' = todo
           /\ rest' = rest /\ SessionLeft' = SessionLeft /\ RepliesLeft' < RepliesLeft
  <2>1. Left'[6] < Left[6] /\ \A j \in 1..5 : Left'[j] = Left[j]
    BY <1>6 DEF Left
  <2> QED
    BY <2>1 DEF Less
<1> QED
  BY <1>1, <1>2, <1>3, <1>4, <1>5, <1>6

\* Within a batch no round is over.
LEMMA SameRound ==
  ASSUME UpdatesLand, IInv, Step, ~DeleteMessages
  PROVE  RoundsLeft' = RoundsLeft
<1>1. previousOk' = previousOk
  BY DEF Step, FetchBatch, NoneWaiting, QueueMessage, QueueMessageNoServer, AddRecipients,
     ForceSend, ReadDeleted, NoConnection, Connect, SendMessage, MailRefused, Quit,
     UpdateRecipient, NextSession, history
<1>2. Cardinality(Unfinished)' = Cardinality(Unfinished)
  <2>1. CASE UpdateRecipient
    BY <2>1, UpdateRounds DEF Rounds!BatchRoundsVars
  <2>2. CASE ~UpdateRecipient
    <3>1. UNCHANGED <<status, resolved>>
      BY <2>2 DEF Step, FetchBatch, NoneWaiting, QueueMessage, QueueMessageNoServer,
         AddRecipients, ForceSend, ReadDeleted, NoConnection, Connect, SendMessage, MailRefused,
         Quit, NextSession
    <3> QED
      BY <3>1 DEF Unfinished, Waiting
  <2> QED
    BY <2>1, <2>2
<1> QED
  BY <1>1, <1>2 DEF RoundsLeft

\* A batch that is over is one round less.
LEMMA DeleteLess ==
  ASSUME UpdatesLand, IInv, Fruitful, DeleteMessages
  PROVE  RoundsLeft' < RoundsLeft
<1> DEFINE w == Cardinality(Unfinished)
<1>1. w \in Nat /\ Cardinality(fetched) \in Nat
  BY BatchInHand
<1>2. CASE Rounds!Sent
  <2>1. PICK n \in 0..Cardinality(fetched) :
          (n = 0 => ~previousOk) /\ w' = w - n /\ (~previousOk') = FALSE
    BY <1>2 DEF Rounds!Sent, Rounds!Over
  <2>2. previousOk'
    BY <2>1, Zenon
  <2> QED
    BY <1>1, <2>1, <2>2 DEF RoundsLeft
<1>3. CASE Rounds!Failed
  <2>1. Cardinality(fetched) > 0 /\ w' = w - Cardinality(fetched)
    BY <1>3 DEF Rounds!Failed, Rounds!Over
  <2> QED
    BY <1>1, <2>1 DEF RoundsLeft
<1> QED
  BY <1>2, <1>3, DeleteRounds

LEMMA FewerLeft ==
  ASSUME NEW S \in SUBSET Recipients, NEW T \in SUBSET S, T # {}
  PROVE  Cardinality(S \ T) < Cardinality(S)
<1>1. Cardinality(S) \in Nat /\ Cardinality(T) \in 0..Cardinality(S) /\ Cardinality(T) # 0
      /\ Cardinality(S \ T) = Cardinality(S) - Cardinality(T)
  BY CountedLess
<1> QED
  BY <1>1

\* Messages are created for some of those who are left.
LEMMA QueueLess ==
  ASSUME UpdatesLand, IInv, QueueMessage \/ QueueMessageNoServer
  PROVE  Less(Left', Left)
<1>1. /\ pc = "generate" /\ pc' \in {"generate", "add"} /\ forced' = forced
      /\ todo # {} /\ todo' = todo \ NextMessage /\ todo \in SUBSET Recipients
  BY DEF QueueMessage, QueueMessageNoServer, IInv, TypeInv
<1>2. NextMessage \in SUBSET todo /\ NextMessage # {}
  BY <1>1, FirstOfSome, FirstOfFacts DEF NextMessage
<1>3. Cardinality(todo') < Cardinality(todo)
  BY <1>1, <1>2, FewerLeft
<1>4. StagesLeft' = StagesLeft
  BY <1>1 DEF StagesLeft
<1> QED
  BY <1>3, <1>4, SameRound, LessWhen DEF Step, QueueMessage, QueueMessageNoServer, DeleteMessages

\* A full session adds nobody, but is started; any other adds somebody.
LEMMA AddLess ==
  ASSUME UpdatesLand, IInv, Fruitful, AddRecipients
  PROVE  Less(Left', Left)
<1>1. /\ pc = "add" /\ pc' \in {"session", "generate"}
      /\ todo' = todo /\ forced' = forced /\ (rest' = rest \ Chunk \/ rest' = {})
      /\ rest # {} /\ rest \in SUBSET Recipients
      /\ MaxMsgs - msgsCount \in Nat /\ MaxMsgs \in Nat /\ msgsCount \in Nat
  BY DeliveryAssumption DEF AddRecipients, Fruitful, IInv, TypeInv
<1>2. Chunk \in SUBSET rest
  BY <1>1, FirstOfFacts DEF Chunk
<1>3. StagesLeft' = StagesLeft
  BY <1>1 DEF StagesLeft
<1>4. RoundsLeft' = RoundsLeft
  BY SameRound DEF Step, AddRecipients, DeleteMessages
<1>5. CASE rest' = {}
  <2>1. Cardinality(rest') < Cardinality(rest)
    <3>1. rest \ rest = {} /\ Cardinality(rest \ rest) < Cardinality(rest)
      BY <1>1, FewerLeft
    <3> QED
      BY <1>5, <3>1
  <2> QED
    BY <1>1, <1>3, <1>4, <2>1, LessWhen
<1>6. CASE rest' = rest \ Chunk /\ Chunk # {}
  <2>1. Cardinality(rest') < Cardinality(rest)
    BY <1>1, <1>2, <1>6, FewerLeft
  <2> QED
    BY <1>1, <1>3, <1>4, <2>1, LessWhen
<1>7. CASE rest' = rest \ Chunk /\ Chunk = {} /\ rest' # {}
  <2>1. ~(msgsCount < MaxMsgs)
    BY <1>1, <1>7, FirstOfSome DEF Chunk
  <2>2. SessionLeft = 5
    BY <1>1, <2>1 DEF SessionLeft
  <2>3. SessionLeft' < 5
    BY <1>1 DEF SessionLeft
  <2> QED
    BY <1>1, <1>3, <1>4, <1>7, <2>2, <2>3, LessWhen
<1> QED
  BY <1>1, <1>5, <1>6, <1>7

\* The steps of a session.
LEMMA SessionLess ==
  ASSUME UpdatesLand, IInv, NoConnection \/ Connect \/ MailRefused \/ Quit
  PROVE  Less(Left', Left)
<1>1. /\ UNCHANGED <<todo, rest, forced>>
      /\ \/ pc = "session" /\ pc' \in {"mail", "update"}
         \/ pc = "mail" /\ pc' = "update"
  BY DEF NoConnection, Connect, MailRefused, Quit, progress
<1>2. StagesLeft' = StagesLeft
  BY <1>1 DEF StagesLeft
<1>3. SessionLeft' < SessionLeft
  BY <1>1 DEF SessionLeft
<1>4. RoundsLeft' = RoundsLeft
  BY SameRound DEF Step, NoConnection, Connect, MailRefused, Quit, DeleteMessages
<1> QED
  BY <1>1, <1>2, <1>3, <1>4, LessWhen

\* One message less to send.
LEMMA SendLess ==
  ASSUME UpdatesLand, IInv, SendMessage
  PROVE  Less(Left', Left)
<1>1. UNCHANGED <<todo, rest, forced, pc>> /\ pc = "mail" /\ TypeInv
  BY DEF SendMessage, progress, IInv
<1>2. StagesLeft' = StagesLeft /\ SessionLeft' = SessionLeft
  BY <1>1 DEF StagesLeft, SessionLeft
<1>3. RoundsLeft' = RoundsLeft
  BY <1>1, SameRound DEF Step, DeleteMessages
<1>4. Unsent' = Unsent \ {NextUnsent} /\ NextUnsent \in Unsent
  <2>1. queue \in Seq(Message) /\ queue' = Marked(NextUnsent)
    BY <1>1 DEF TypeInv, SendMessage
  <2>2. NextUnsent \in DOMAIN queue /\ ~queue[NextUnsent].sent
    BY <2>1, NextUnsentFacts DEF SendMessage
  <2>3. /\ DOMAIN queue' = DOMAIN queue
        /\ \A i \in DOMAIN queue : queue'[i].sent <=> i = NextUnsent \/ queue[i].sent
    BY <2>1, <2>2, QueueMarked
  <2> QED
    BY <2>2, <2>3 DEF Unsent
<1>5. IsFiniteSet(Unsent) /\ Cardinality(Unsent) \in Nat
  BY <1>1, UnsentFinite
<1>6. Cardinality(Unsent') < Cardinality(Unsent)
  <2>1. Cardinality(Unsent \ {NextUnsent}) = Cardinality(Unsent) - 1
    BY <1>4, <1>5, FS_RemoveElement
  <2> QED
    BY <1>4, <1>5, <2>1
<1>7. RepliesLeft' < RepliesLeft
  BY <1>1, <1>6 DEF RepliesLeft
<1> QED
  BY <1>1, <1>2, <1>3, <1>7, LessWhen

\* One status less to record.
LEMMA RecordLess ==
  ASSUME UpdatesLand, IInv, UpdateRecipient
  PROVE  Less(Left', Left)
<1>1. UNCHANGED <<todo, rest, forced, pc>> /\ pc = "update" /\ pending \in SUBSET Recipients
  BY DEF UpdateRecipient, progress, IInv, TypeInv
<1>2. StagesLeft' = StagesLeft /\ SessionLeft' = SessionLeft
  BY <1>1 DEF StagesLeft, SessionLeft
<1>3. RoundsLeft' = RoundsLeft
  BY <1>1, SameRound DEF Step, DeleteMessages
<1>4. PICK r \in pending : pending' = pending \ {r}
  BY DEF UpdateRecipient, FirstOf
<1>5. Cardinality(pending') < Cardinality(pending)
  BY <1>1, <1>4, FewerLeft
<1>6. RepliesLeft' < RepliesLeft
  BY <1>1, <1>5 DEF RepliesLeft
<1> QED
  BY <1>1, <1>2, <1>3, <1>6, LessWhen

\* A session that was for everybody ends the batch; any other makes room, or there
\* is nothing left to add.
LEMMA NextSessionLess ==
  ASSUME UpdatesLand, IInv, NextSession
  PROVE  Less(Left', Left)
<1>1. /\ pc = "update" /\ todo' = todo /\ forced' = forced /\ msgsCount' = 0
      /\ pc' \in {"delete", "add", "generate"} /\ (pc' = "delete" <=> forced)
      /\ (rest' = rest \/ (rest' = {} /\ rest # {}))
      /\ rest \in SUBSET Recipients
  BY DEF NextSession, IInv, TypeInv
<1>2. RoundsLeft' = RoundsLeft
  BY <1>1, SameRound DEF Step, DeleteMessages
<1>3. CASE forced
  <2>1. StagesLeft' < StagesLeft
    BY <1>1, <1>3 DEF StagesLeft
  <2> QED
    BY <1>2, <2>1, LessWhen
<1>4. CASE ~forced
  <2>1. StagesLeft' = StagesLeft
    BY <1>1, <1>4 DEF StagesLeft
  <2>2. SessionLeft' < SessionLeft
    BY <1>1, <1>4, DeliveryAssumption DEF SessionLeft
  <2>3. rest' = rest \/ Cardinality(rest') < Cardinality(rest)
    <3>1. rest # {} => rest \ rest = {} /\ Cardinality(rest \ rest) < Cardinality(rest)
      BY <1>1, FewerLeft
    <3> QED
      BY <1>1, <3>1
  <2> QED
    BY <1>1, <1>2, <2>1, <2>2, <2>3, LessWhen
<1> QED
  BY <1>3, <1>4

\* What is sent by force is what was left when all messages had been created.
NotYetForced == pc \in {"generate", "add"} => ~forced

LEMMA NotYetForcedInvariance == Spec => []NotYetForced
<1>1. Init => NotYetForced
  BY DEF Init, NotYetForced
<1>2. NotYetForced /\ [Next]_vars => NotYetForced'
  BY DEF NotYetForced, Next, Step, FetchBatch, NoneWaiting, QueueMessage, QueueMessageNoServer,
     AddRecipients, ForceSend, ReadDeleted, NoConnection, Connect, SendMessage, MailRefused, Quit,
     UpdateRecipient, NextSession, DeleteMessages, Crash, FreshProcess, Ended, vars, progress
<1> QED
  BY <1>1, <1>2, PTL DEF Spec

\* The stages of a batch, and the ends of the slave.
LEMMA StagesLess ==
  ASSUME UpdatesLand, IInv, NotYetForced, FetchBatch \/ NoneWaiting \/ ForceSend \/ ReadDeleted
  PROVE  Less(Left', Left)
<1>1. \/ pc = "fetch" /\ pc' \in {"generate", "done"}
      \/ pc = "generate" /\ ~forced /\ forced' /\ pc' \in {"session", "delete"}
      \/ pc = "session" /\ pc' = "undefined"
  BY DEF FetchBatch, NoneWaiting, ForceSend, ReadDeleted, NotYetForced
<1>2. StagesLeft' < StagesLeft
  BY <1>1 DEF StagesLeft
<1>3. RoundsLeft' = RoundsLeft
  BY SameRound DEF Step, FetchBatch, NoneWaiting, ForceSend, ReadDeleted, DeleteMessages
<1> QED
  BY <1>2, <1>3, LessWhen

\* Every step of the slave leaves less to do, in an order without infinite descents:
\* sendToDomain() does not go round for ever, whatever fails or is refused, as long as
\* the process lives and its statements reach their rows.
THEOREM LessIsLeft ==
  ASSUME UpdatesLand
  PROVE  Spec => LessLeft
<1>1. ASSUME IInv, Fruitful, NotYetForced, Step
      PROVE  Left \in [1..6 -> Nat] /\ Less(Left', Left)
  <2>1. Left \in [1..6 -> Nat]
    BY <1>1, LeftTypes DEF Left
  <2>2. CASE DeleteMessages
    BY <1>1, <2>1, <2>2, DeleteLess, LessWhen
  <2>3. CASE ~DeleteMessages
    BY <1>1, <2>1, <2>3, QueueLess, AddLess, SessionLess, SendLess, RecordLess, NextSessionLess,
       StagesLess DEF Step
  <2> QED
    BY <2>1, <2>2, <2>3
<1>2. IInv /\ Fruitful /\ NotYetForced /\ [Next]_vars =>
        [Step => Left \in [1..6 -> Nat] /\ Less(Left', Left)]_vars
  BY <1>1
<1> QED
  BY <1>2, Invariance, FruitfulInvariance, NotYetForcedInvariance, PTL DEF Spec, LessLeft
=============================================================================
