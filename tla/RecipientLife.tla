--------------------------- MODULE RecipientLife ---------------------------
(***************************************************************************)
(* What sending to a domain promises its recipients, whatever servers,     *)
(* batches and messages there are: a waiting recipient's message is taken  *)
(* by a server at most once for each time the slave is started, a status   *)
(* is recorded once, and Sent only of those whose message was taken or     *)
(* about whom the slave was mistaken when it tried to send it.             *)
(***************************************************************************)
EXTENDS Naturals

CONSTANT Recipients

VARIABLES status,    \* [Recipients -> Status column]
          accepted,  \* [Recipients -> times a server took the message]
          mistaken,  \* recipients whose message may be taken for sent wrongly
          restarts   \* how often the slave was started again

RecipientLifeInit == /\ status = [r \in Recipients |-> "Waiting"]
                     /\ accepted = [r \in Recipients |-> 0]
                     /\ mistaken = {}
                     /\ restarts = 0

\* A server takes a message to S, who all wait and had none since the start.
\* About those of M, who wait as well, the slave is mistaken.
Accept(S, M) ==
  /\ \A r \in S : status[r] = "Waiting" /\ accepted[r] <= restarts
  /\ \A r \in M : status[r] = "Waiting"
  /\ accepted' = [r \in Recipients |->
                   IF r \in S THEN accepted[r] + 1 ELSE accepted[r]]
  /\ mistaken' = mistaken \cup M
  /\ UNCHANGED <<status, restarts>>

\* Waiting recipients get a status: Sent are those a server took a message for
\* and those the slave is mistaken about.
Record(sent, failed) ==
  /\ sent \cap failed = {}
  /\ \A r \in sent \cup failed : status[r] = "Waiting"
  /\ \A r \in sent : accepted[r] > 0 \/ r \in mistaken
  /\ status' = [r \in Recipients |-> IF r \in sent THEN "Sent"
                                     ELSE IF r \in failed THEN "Failed"
                                     ELSE status[r]]
  /\ UNCHANGED <<accepted, mistaken, restarts>>

\* The slave is started again, and knows no more than the statuses.
Restart == /\ restarts' = restarts + 1
           /\ mistaken' = {r \in mistaken : status[r] # "Waiting"}
           /\ UNCHANGED <<status, accepted>>

RecipientLifeNext ==
  \/ \E S, M \in SUBSET Recipients : Accept(S, M)
  \/ \E sent, failed \in SUBSET Recipients : Record(sent, failed)
  \/ Restart

RecipientLifeSpec ==
  RecipientLifeInit /\ [][RecipientLifeNext]_<<status, accepted, mistaken, restarts>>
=============================================================================
