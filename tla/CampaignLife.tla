---------------------------- MODULE CampaignLife ----------------------------
(***************************************************************************)
(* What the daemon promises the campaigns, whatever it keeps to know of    *)
(* its slaves: the work on a campaign is shared between slaves, it is      *)
(* begun when nobody is at work on it, a share is with one process at a    *)
(* time, and the campaign is sent when every share was finished, unless    *)
(* there was trouble with one.                                             *)
(***************************************************************************)

CONSTANTS Campaigns, Pids

VARIABLES slaves,    \* the slave IDs that share the work on a campaign
          calm,      \* the daemon is only interrupted when it is idle
          oneEach,   \* ...or it is, but never starts a campaign over then
          status,    \* [Campaigns -> Status column]
          at,        \* the processes at work: their pid, campaign and slave ID
          finished,  \* <<campaign, slave ID>> of the finished shares
          trouble    \* campaigns with a share that may not get finished

mode == <<slaves, calm, oneEach>>
CampaignLifeVars == <<mode, status, at, finished, trouble>>

AtWorkOn(c) == {e \in at : e.campaign = c}

CampaignLifeInit == /\ calm => oneEach
                    /\ status = [c \in Campaigns |-> "Ready"]
                    /\ at = {}
                    /\ finished = {}
                    /\ trouble = {}

\* A user makes campaign c ready, at any time.
Ready(c) == /\ status' = [status EXCEPT ![c] = "Ready"]
            /\ UNCHANGED <<mode, at, finished, trouble>>

\* The work on c begins, for the first time or for recipients to try again.
Begin(c) == /\ status[c] \in {"Ready", "Sent"}
            /\ oneEach => AtWorkOn(c) = {}
            /\ \E s \in {"Sending", "Resending"} : status' = [status EXCEPT ![c] = s]
            /\ finished' = {f \in finished : f[1] # c}
            /\ trouble' = trouble \ {c}
            /\ UNCHANGED <<mode, at>>

\* A new process gets the share of slave i, which no other has.
Launch(p, c, i) == /\ \A e \in at : e.pid # p
                   /\ oneEach => \A e \in AtWorkOn(c) : e.slave # i
                   /\ at' = at \cup {[pid |-> p, campaign |-> c, slave |-> i]}
                   /\ UNCHANGED <<mode, status, finished, trouble>>

\* Process e ends: it finished its share, or failed, or is to be started again.
End(e) == /\ at' = at \ {e}
          /\ \/ finished' = finished \cup {<<e.campaign, e.slave>>} /\ trouble' = trouble
             \/ trouble' = trouble \cup {e.campaign} /\ finished' = finished
             \/ UNCHANGED <<finished, trouble>>
          /\ UNCHANGED <<mode, status>>

\* A process for a share of c cannot be started, or the database fails.
Fail(c) == /\ trouble' = trouble \cup {c}
           /\ UNCHANGED <<mode, status, at, finished>>

\* Nobody is at work on c any more, and its shares are finished.
Complete(c) == /\ calm => /\ AtWorkOn(c) = {}
                          /\ c \in trouble \/ \A i \in slaves : <<c, i>> \in finished
               /\ status' = [status EXCEPT ![c] = "Sent"]
               /\ UNCHANGED <<mode, at, finished, trouble>>

\* ...but too many recipients failed because of an API: all is done again.
Redo(c) == /\ calm => AtWorkOn(c) = {}
           /\ finished' = {f \in finished : f[1] # c}
           /\ UNCHANGED <<mode, status, at, trouble>>

CampaignLifeNext ==
  \/ \E c \in Campaigns : Ready(c) \/ Begin(c) \/ Fail(c) \/ Complete(c) \/ Redo(c)
  \/ \E p \in Pids, c \in Campaigns, i \in slaves : Launch(p, c, i)
  \/ \E e \in at : End(e)

CampaignLifeSpec == CampaignLifeInit /\ [][CampaignLifeNext]_CampaignLifeVars
=============================================================================
