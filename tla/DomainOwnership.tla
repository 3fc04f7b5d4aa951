-------------------------- MODULE DomainOwnership --------------------------
(***************************************************************************)
(* What a slave promises about the recipient domains of a campaign: each   *)
(* domain waits in a queue, is then taken by one sender, and once let go   *)
(* of is never picked up again by the same slave.  Two senders that hold a *)
(* domain at the same time, or one after the other, would fetch the same   *)
(* waiting recipients and email them twice.                                *)
(***************************************************************************)

CONSTANTS Domains,  \* the domains of a campaign
          Senders   \* the threads of the slave that send email

VARIABLES queued,   \* the domains nobody has taken yet
          senders   \* [Domains -> SUBSET Senders]: who is sending to a domain

DomainOwnershipInit == /\ queued \in SUBSET Domains
                       /\ senders = [d \in Domains |-> {}]

\* Sender s, which has no domain, takes domain d, which has no sender.
Take(s, d) == /\ d \in queued
              /\ senders[d] = {}
              /\ \A e \in Domains : s \notin senders[e]
              /\ queued' = queued \ {d}
              /\ senders' = [senders EXCEPT ![d] = {s}]

\* Sender s, the only one of domain d, lets go of it, for good.
Release(s, d) == /\ senders[d] = {s}
                 /\ senders' = [senders EXCEPT ![d] = {}]
                 /\ queued' = queued

DomainOwnershipNext ==
  \E s \in Senders, d \in Domains : Take(s, d) \/ Release(s, d)

DomainOwnershipSpec ==
  DomainOwnershipInit /\ [][DomainOwnershipNext]_<<queued, senders>>
=============================================================================
