----------------------- MODULE GivemailMasterProofs -----------------------
(***************************************************************************)
(* The daemon of GivemailMaster, proved for any number of campaigns,       *)
(* slaves, processes and changes and for every configuration: types, one   *)
(* process per slave of a campaign, entries of g_slaveCampaigns for the    *)
(* processes to wait for and those that were missed, and campaigns marked  *)
(* as sent only when their slaves have served them.                        *)
(***************************************************************************)
EXTENDS GivemailMaster, TLAPS, WellFoundedInduction

\* The process p was started, and was not waited for yet.
Present(p) == child[p].state \in {"running", "zombie"}

\* What runMaster() and the handler hold at each of their steps; a handler that
\* only interrupts the sleep of runMaster() finds it asleep.
Phases ==
  /\ mpc \in {"check", "updating", "start", "insert"} <=> campaign # NoCampaign
  /\ nextSlave <= conf.slaves
  /\ mpc \notin {"start", "insert"} => nextSlave = 0
  /\ mpc = "insert" => nextSlave > 0
  /\ relaunch <= conf.slaves
  /\ hpc # "reprocess" => relaunch = 0
  /\ hpc = "reprocess" => ended # NoCampaign /\ conf.apiFailures
  /\ hpc \in {"none", "wait"} => ended = NoCampaign
  /\ ~conf.async /\ hpc # "none" => mpc = "sleep"
  /\ ~conf.async => hpc # "stuck"
  /\ mpc \notin {"poll", "polling"} => iterations < ResendEvery

\* g_slaveCampaigns has one entry for a process, which tells what the process
\* does, and every slave that was not waited for has one, but the slave that
\* runMaster() has just launched.
Known ==
  /\ mpc # "insert" <=> forkedPid = NoPid
  /\ forkedPid <= forks
  /\ \A e \in registered : e.pid <= forks /\ e.pid # forkedPid
  /\ \A e, f \in registered : e.pid = f.pid => e = f
  /\ \A e \in registered : Present(e.pid) =>
       child[e.pid].campaign = e.campaign /\ child[e.pid].slave = e.slave
  /\ mpc = "insert" /\ Present(forkedPid) =>
       child[forkedPid].campaign = campaign /\ child[forkedPid].slave = nextSlave - 1
  /\ \A p \in Pids : Present(p) /\ child[p].slave # Command =>
       p = forkedPid \/ \E e \in registered : e.pid = p

\* A slave of a campaign has one entry, and none before it is launched.
Distinct ==
  ~(conf.async /\ conf.apiFailures) =>
    /\ \A e, f \in registered : e.campaign = f.campaign /\ e.slave = f.slave => e = f
    /\ mpc \in {"updating", "start"} =>
         \A e \in registered : e.campaign = campaign => e.slave < nextSlave
    /\ mpc = "insert" =>
         \A e \in registered : e.campaign = campaign => e.slave < nextSlave - 1
    /\ hpc \in {"finish", "reprocess"} =>
         \A e \in registered : e.campaign = ended => e.slave < relaunch

\* What was launched or recorded is to be waited for, or was missed, which takes
\* a handler that interrupts runMaster() or that reprocesses.
Expected(p) ==
  \/ Present(p)
  \/ child[p].state = "missed" /\ (conf.async \/ conf.apiFailures)

Fresh ==
  /\ \A e \in registered : Expected(e.pid)
  /\ mpc = "insert" => Expected(forkedPid)

\* A slave that is to be waited for served its part of the campaign, asks for a
\* restart it will get, or something went wrong.
EndsNoted ==
  ~conf.async =>
    \A p \in Pids : child[p].state = "zombie" /\ child[p].slave # Command =>
      \/ child[p].campaign \in trouble
      \/ child[p].end = "done" /\ <<child[p].campaign, child[p].slave>> \in finished
      \/ child[p].end = "again" /\ conf.restarts

\* Every slave of a campaign that is being processed, as far as they were
\* launched, has an entry, served its part, or something went wrong.
Starting(c) == campaign = c /\ mpc # "check"
Launched(c) == IF Starting(c)
               THEN IF mpc = "insert" THEN nextSlave - 1 ELSE nextSlave
               ELSE IF hpc = "reprocess" /\ ended = c THEN relaunch ELSE conf.slaves
Underway(c) == Starting(c) \/ ended = c \/ \E e \in registered : e.campaign = c
Accounted(c, s) == \/ c \in trouble
                   \/ <<c, s>> \in finished
                   \/ \E e \in registered : e.campaign = c /\ e.slave = s

Accounting ==
  ~conf.async =>
    \A c \in Campaigns : Underway(c) =>
      \A s \in Slaves : s < Launched(c) => Accounted(c, s)

IInv == /\ TypeOK /\ Phases /\ Known /\ Distinct /\ Fresh /\ EndsNoted
        /\ Accounting
----------------------------------------------------------------------------
\* The configurations have a number of slaves in range.
LEMMA ConfFacts ==
  ASSUME TypeOK
  PROVE  conf.slaves \in 1..MaxSlaves /\ MaxSlaves \in Nat /\ MaxForks \in Nat
BY ConfigsAssumption, MasterAssumption DEF TypeOK, Configurations

\* getCampaigns() finds one of the campaigns it looks for.
LEMMA FirstReady ==
  ASSUME NEW S \in SUBSET Campaigns, S # {}
  PROVE  Min(S) \in S
<1>1. S \in SUBSET Nat
  BY MasterAssumption DEF Campaigns
<1>2. PICK m \in S : \A k \in S : ~ (<<k, m>> \in OpToRel(<, Nat))
  BY <1>1, NatLessThanWellFounded, WFMin
<1>3. ASSUME NEW k \in S PROVE m <= k
  <2>1. k \in Nat /\ m \in Nat
    BY <1>1
  <2>2. <<k, m>> \in OpToRel(<, Nat) <=> k < m
    BY <2>1 DEF OpToRel
  <2>3. ~ (k < m)
    BY <1>2, <2>2
  <2> QED
    BY <2>1, <2>3
<1> QED
  BY <1>3 DEF Min

ProcessType == [state : {"none", "running", "zombie", "gone", "missed"},
                campaign : Campaigns \cup {NoCampaign},
                slave : Command..MaxSlaves - 1,
                end : {"done", "again", "failed"}]

\* A process was started.
LEMMA ForkFacts ==
  ASSUME TypeOK, NEW c \in Campaigns \cup {NoCampaign},
         NEW s \in Command..MaxSlaves - 1, Fork(c, s)
  PROVE  /\ forks + 1 \in Pids /\ forks' = forks + 1 /\ forks' \in 0..MaxForks
         /\ child' \in [Pids -> ProcessType]
         /\ child'[forks + 1] = Process(c, s)
         /\ \A p \in Pids : p # forks + 1 => child'[p] = child[p]
<1>1. forks + 1 \in Pids /\ forks' = forks + 1 /\ forks' \in 0..MaxForks
  BY MasterAssumption DEF TypeOK, Fork, Pids
<1>2. Process(c, s) \in ProcessType
  BY DEF Process, ProcessType
<1> QED
  BY <1>1, <1>2 DEF Fork, TypeOK, ProcessType

\* A child was waited for.
LEMMA ReapFacts ==
  ASSUME TypeOK, NEW p \in Pids, NEW g \in {Gone, Missed},
         child' = [child EXCEPT ![p] = g]
  PROVE  /\ child' \in [Pids -> ProcessType]
         /\ child'[p].state = IF g = Missed THEN "missed" ELSE "gone"
         /\ \A q \in Pids : q # p => child'[q] = child[q]
<1>1. /\ Gone \in ProcessType /\ Gone.state = "gone"
      /\ Missed \in ProcessType /\ Missed.state = "missed"
  BY MasterAssumption DEF Gone, Missed, NotStarted, ProcessType, Command, NoCampaign
<1> QED
  BY <1>1 DEF TypeOK, ProcessType

LEMMA GoneFacts ==
  ASSUME TypeOK, NEW p \in Pids, child' = [child EXCEPT ![p] = Gone]
  PROVE  /\ child' \in [Pids -> ProcessType]
         /\ child'[p].state = "gone"
         /\ \A q \in Pids : q # p => child'[q] = child[q]
<1>1. Gone # Missed
  BY DEF Gone, Missed, NotStarted
<1> QED
  BY <1>1, ReapFacts

\* A child was restarted.
LEMMA RestartFacts ==
  ASSUME TypeOK, NEW p \in Pids, NEW c \in Campaigns, NEW s \in 0..MaxSlaves - 1,
         forks < MaxForks, p <= forks,
         child' = [child EXCEPT ![p] = Gone, ![forks + 1] = Process(c, s)]
  PROVE  /\ child' \in [Pids -> ProcessType]
         /\ forks + 1 \in Pids
         /\ child'[p].state = "gone"
         /\ child'[forks + 1] = Process(c, s)
         /\ \A q \in Pids : q # p /\ q # forks + 1 => child'[q] = child[q]
<1>1. Gone \in ProcessType /\ Gone.state = "gone"
  BY MasterAssumption DEF Gone, NotStarted, ProcessType, Command, NoCampaign
<1>2. Process(c, s) \in ProcessType
  BY DEF Process, ProcessType, Command
<1>3. forks + 1 \in Pids /\ p # forks + 1
  BY MasterAssumption DEF TypeOK, Pids
<1>4. child \in [Pids -> ProcessType]
  BY DEF TypeOK, ProcessType
<1> QED
  BY <1>1, <1>2, <1>3, <1>4

\* A child has ended.
LEMMA ExitFacts ==
  ASSUME TypeOK, NEW p \in Pids, NEW end \in {"done", "again", "failed"},
         child' = [child EXCEPT ![p] = IF hpc = "reprocess" THEN Missed
                     ELSE [child[p] EXCEPT !.state = "zombie", !.end = end]]
  PROVE  /\ child' \in [Pids -> ProcessType]
         /\ hpc = "reprocess" => child'[p].state = "missed"
         /\ hpc # "reprocess" => /\ child'[p].state = "zombie"
                                 /\ child'[p].end = end
                                 /\ child'[p].campaign = child[p].campaign
                                 /\ child'[p].slave = child[p].slave
         /\ \A q \in Pids : q # p => child'[q] = child[q]
<1>1. Missed \in ProcessType /\ Missed.state = "missed"
  BY MasterAssumption DEF Missed, NotStarted, ProcessType, Command, NoCampaign
<1>2. child \in [Pids -> ProcessType] /\ child[p] \in ProcessType
  BY DEF TypeOK, ProcessType
<1> DEFINE z == [child[p] EXCEPT !.state = "zombie", !.end = end]
<1>3. /\ z \in ProcessType /\ z.state = "zombie" /\ z.end = end
      /\ z.campaign = child[p].campaign /\ z.slave = child[p].slave
  BY <1>2 DEF ProcessType
<1> HIDE DEF z
<1>4. child' = [child EXCEPT ![p] = IF hpc = "reprocess" THEN Missed ELSE z]
  BY DEF z
<1> QED
  BY <1>1, <1>2, <1>3, <1>4
----------------------------------------------------------------------------
LEMMA InitInv == Init => IInv
<1> SUFFICES ASSUME Init PROVE IInv
  OBVIOUS
<1>1. conf \in Configurations
  BY ConfigsAssumption DEF Init
<1>2. conf.slaves \in 1..MaxSlaves /\ MaxSlaves \in Nat /\ NumCampaigns \in Nat
  BY <1>1, MasterAssumption DEF Configurations
<1>3. TypeOK
  <2>1. child \in [Pids -> ProcessType]
    BY <1>2 DEF Init, NotStarted, ProcessType, Command, NoCampaign
  <2>2. {restartSlave, signalEnd, pending} \subseteq BOOLEAN /\ retrying \in BOOLEAN
    BY DEF Init
  <2> QED
    BY <1>2, <2>1, <2>2, MasterAssumption DEF Init, TypeOK, ProcessType, NoCampaign, NoPid
<1>4. \A p \in Pids : ~Present(p) /\ child[p].state # "zombie"
  BY DEF Init, NotStarted, Present
<1>5. Phases
  BY <1>2, MasterAssumption DEF Init, Phases, NoCampaign
<1>6. Known /\ Distinct /\ Fresh /\ EndsNoted
  BY <1>4 DEF Init, Known, Distinct, Fresh, EndsNoted, NoPid
<1>7. Accounting
  BY DEF Init, Accounting, Underway, Starting, NoCampaign, Campaigns
<1> QED
  BY <1>3, <1>5, <1>6, <1>7 DEF IInv

\* Every action keeps the types.
LEMMA TypeStep ==
  ASSUME TypeOK, Phases, Known, [Next]_vars
  PROVE  TypeOK'
<1> USE ConfFacts, MasterAssumption DEF NoCampaign, NoPid
<1>1. CASE Poll \/ GotReady
  <2>1. ASSUME NEW S \in SUBSET Campaigns, S # {} PROVE Min(S) \in Campaigns
    BY <2>1, FirstReady
  <2> DEFINE ready == {c \in Campaigns : status[c] = "Ready"}
  <2>4. ready # {} => Min(ready) \in Campaigns
    BY <2>1
  <2>5. UNCHANGED <<campaign, nextSlave>> \/ (campaign' = NoCampaign /\ nextSlave' = 0)
        \/ (ready # {} /\ campaign' = Min(ready) /\ UNCHANGED nextSlave)
    BY <1>1, Zenon DEF Poll, GotReady, GoToSleep
  <2>2. campaign' \in Campaigns \cup {NoCampaign} /\ nextSlave' \in 0..MaxSlaves
    BY <2>4, <2>5 DEF TypeOK
  <2>3. retrying' \in BOOLEAN
    BY <1>1, Zenon DEF Poll, GotReady, GoToSleep, TypeOK
  <2> QED
    BY <1>1, <2>2, <2>3 DEF Poll, GotReady, GoToSleep, TypeOK, handlerVars, children, history
<1>2. CASE GotTemporaryFailures \/ CheckSlaves
  <2>1. /\ campaign' \in Campaigns \cup {NoCampaign} /\ nextSlave' \in 0..MaxSlaves
        /\ changes' \in 0..MaxChanges /\ iterations' \in 0..ResendEvery
    BY <1>2 DEF GotTemporaryFailures, CheckSlaves, GoToSleep, Reset, TypeOK
  <2>2. retrying' \in BOOLEAN
    BY <1>2, Zenon DEF GotTemporaryFailures, CheckSlaves, GoToSleep, TypeOK
  <2> QED
    BY <1>2, <2>1, <2>2 DEF GotTemporaryFailures, Reset, CheckSlaves, GoToSleep, TypeOK, handlerVars,
       children, history, NoCampaign
<1>3. CASE UpdateCampaign
  <2>1. campaign \in Campaigns
    BY <1>3 DEF UpdateCampaign, TypeOK, Phases
  <2>2. retrying' \in BOOLEAN
    BY <1>3, Zenon DEF UpdateCampaign, GoToSleep, TypeOK
  <2>3. campaign' \in Campaigns \cup {NoCampaign} /\ nextSlave' \in 0..MaxSlaves
    BY <1>3 DEF UpdateCampaign, GoToSleep, TypeOK
  <2> QED
    BY <1>3, <2>1, <2>2, <2>3 DEF UpdateCampaign, GoToSleep, TypeOK, handlerVars, children, NoCampaign
<1>4. CASE LaunchSlave
  <2>1. campaign \in Campaigns /\ nextSlave \in 0..MaxSlaves - 1 /\ nextSlave + 1 \in 0..MaxSlaves
    BY <1>4 DEF LaunchSlave, TypeOK, Phases, Slaves
  <2>2. /\ child' \in [Pids -> ProcessType] /\ forks' \in 0..MaxForks
        /\ forkedPid' \in Pids \cup {NoPid}
    BY <1>4, <2>1, ForkFacts DEF LaunchSlave, TypeOK, Command, ProcessType
  <2> QED
    BY <1>4, <2>1, <2>2 DEF LaunchSlave, TypeOK, handlerVars, ProcessType
<1>5. CASE InsertSlave
  <2>1. campaign \in Campaigns /\ nextSlave - 1 \in 0..MaxSlaves - 1 /\ forkedPid \in Pids
    BY <1>5 DEF InsertSlave, TypeOK, Phases, Known
  <2> QED
    BY <1>5, <2>1 DEF InsertSlave, TypeOK, handlerVars, children, history, Entry
<1>6. CASE AllStarted \/ WakeUp
  <2>1. retrying' \in BOOLEAN
    BY <1>6, Zenon DEF AllStarted, WakeUp, GoToSleep, TypeOK
  <2>2. /\ campaign' \in Campaigns \cup {NoCampaign} /\ nextSlave' \in 0..MaxSlaves
        /\ iterations' \in 0..ResendEvery
    BY <1>6 DEF AllStarted, WakeUp, GoToSleep, TypeOK, Phases
  <2> QED
    BY <1>6, <2>1, <2>2 DEF AllStarted, WakeUp, GoToSleep, TypeOK, Phases, handlerVars, children, history
<1>7. CASE Deliver \/ NoneToReap
  BY <1>7 DEF Deliver, NoneToReap, HandlerReturns, TypeOK, mainVars, children, history
<1>8. ASSUME NEW p \in Pids, RestartSlave(p) PROVE TypeOK'
  <2>1. PICK e \in registered :
          /\ e.pid = p
          /\ \/ /\ forks < MaxForks
                /\ forks' = forks + 1
                /\ child' = [child EXCEPT ![p] = Gone,
                               ![forks + 1] = Process(e.campaign, e.slave)]
                /\ registered' = (registered \ {e})
                                   \cup {Entry(forks + 1, e.campaign, e.slave)}
                /\ UNCHANGED trouble
             \/ /\ child' = [child EXCEPT ![p] = Gone]
                /\ registered' = registered \ {e}
                /\ trouble' = trouble \cup {e.campaign}
                /\ UNCHANGED forks
    BY <1>8 DEF RestartSlave
  <2>2. e.campaign \in Campaigns /\ e.slave \in 0..MaxSlaves - 1 /\ p <= forks
    BY <2>1 DEF TypeOK, Known
  <2>3. child' \in [Pids -> ProcessType]
    BY <2>1, <2>2, RestartFacts, GoneFacts
  <2>4. /\ forks' \in 0..MaxForks /\ trouble' \subseteq Campaigns
        /\ registered' \subseteq [pid : Pids, campaign : Campaigns, slave : 0..MaxSlaves - 1]
    BY <2>1, <2>2 DEF TypeOK, Entry, Pids
  <2> QED
    BY <1>8, <2>3, <2>4 DEF RestartSlave, HandlerReturns, TypeOK, mainVars, ProcessType
<1>9. ASSUME NEW p \in Pids, SlaveEnded(p) PROVE TypeOK'
  <2>1. child' \in [Pids -> ProcessType]
    BY <1>9, GoneFacts DEF SlaveEnded
  <2> QED
    BY <1>9, <2>1 DEF SlaveEnded, Without, HandlerReturns, TypeOK, mainVars, history, ProcessType
<1>10. ASSUME NEW p \in Pids, OtherEnded(p) PROVE TypeOK'
  <2>1. child' \in [Pids -> ProcessType]
    BY <1>10, ReapFacts DEF OtherEnded
  <2>2. restartSlave' \in BOOLEAN
    BY <1>10, Zenon DEF OtherEnded, HandlerReturns, MustRestart
  <2> QED
    BY <1>10, <2>1, <2>2 DEF OtherEnded, HandlerReturns, TypeOK, mainVars, history, ProcessType
<1>11. CASE SelfDeadlock \/ Reprocess \/ AllRelaunched
  <2>1. {restartSlave', signalEnd', pending'} \subseteq BOOLEAN
    BY <1>11, Zenon DEF SelfDeadlock, Reprocess, AllRelaunched, TypeOK, children
  <2>2. ended' \in Campaigns \cup {NoCampaign} /\ relaunch' \in 0..MaxSlaves
    BY <1>11 DEF SelfDeadlock, Reprocess, AllRelaunched, TypeOK
  <2>3. finished' \subseteq finished /\ UNCHANGED trouble
    BY <1>11 DEF SelfDeadlock, Reprocess, AllRelaunched, history
  <2> QED
    BY <1>11, <2>1, <2>2, <2>3 DEF SelfDeadlock, Reprocess, AllRelaunched, TypeOK, mainVars, children, history
<1>12. CASE Finish
  <2>1. child' \in [Pids -> ProcessType] /\ forks' \in 0..MaxForks
    <3>1. Command \in Command..MaxSlaves - 1
      BY DEF Command
    <3> QED
      BY <1>12, <3>1, ForkFacts DEF Finish, TypeOK, ProcessType
  <2> QED
    BY <1>12, <2>1 DEF Finish, MarkedSent, TypeOK, mainVars, ProcessType
<1>13. CASE RelaunchSlave
  <2>1. /\ ended \in Campaigns /\ relaunch \in 0..MaxSlaves - 1
        /\ relaunch + 1 \in 0..MaxSlaves
    BY <1>13 DEF RelaunchSlave, TypeOK, Phases, Slaves
  <2>2. /\ child' \in [Pids -> ProcessType] /\ forks' \in 0..MaxForks
        /\ registered' \subseteq [pid : Pids, campaign : Campaigns, slave : 0..MaxSlaves - 1]
    BY <1>13, <2>1, ForkFacts DEF RelaunchSlave, TypeOK, Command, ProcessType, Entry
  <2> QED
    BY <1>13, <2>1, <2>2 DEF RelaunchSlave, TypeOK, mainVars, ProcessType
<1>14. ASSUME NEW p \in Pids, Exit(p) PROVE TypeOK'
  <2>1. /\ child[p] \in ProcessType /\ child[p].state = "running"
        /\ pending' \in BOOLEAN
    BY <1>14 DEF Exit, Running, TypeOK, ProcessType
  <2>2. child' \in [Pids -> ProcessType]
    BY <1>14, ExitFacts DEF Exit
  <2>3. child[p].slave # Command =>
          child[p].campaign \in Campaigns /\ child[p].slave \in 0..MaxSlaves - 1
    <3>1. child[p].slave # Command => child[p].slave \in 0..MaxSlaves - 1
      BY <2>1 DEF ProcessType, Command
    <3>2. Present(p)
      BY <2>1 DEF Present
    <3>3. CASE p = forkedPid
      <4>1. p # NoPid
        BY DEF Pids
      <4>2. mpc = "insert"
        BY <3>3, <4>1 DEF Known
      <4> QED
        BY <3>1, <3>2, <3>3, <4>2 DEF Known, Phases, TypeOK
    <3>4. ASSUME NEW e \in registered, e.pid = p PROVE child[p].campaign \in Campaigns
      BY <3>2, <3>4 DEF Known, TypeOK
    <3> QED
      BY <3>1, <3>2, <3>3, <3>4 DEF Known
  <2>4. finished' \subseteq Campaigns \X (0..MaxSlaves - 1) /\ trouble' \subseteq Campaigns
    BY <1>14, <2>3 DEF Exit, TypeOK
  <2> QED
    BY <1>14, <2>1, <2>2, <2>4 DEF Exit, TypeOK, mainVars, handlerVars, ProcessType
<1>15. ASSUME NEW c \in Campaigns, MakeReady(c) PROVE TypeOK'
  BY <1>15 DEF MakeReady, TypeOK, mainVars, handlerVars, children, history
<1>16. CASE UNCHANGED vars
  BY <1>16 DEF vars, TypeOK, mainVars, handlerVars, children, history
<1> QED
  BY <1>1, <1>2, <1>3, <1>4, <1>5, <1>6, <1>7, <1>8, <1>9, <1>10, <1>11, <1>12, <1>13, <1>14,
     <1>15, <1>16 DEF Next, MainStep, HandlerStep

\* Every action keeps to the order of the steps.
LEMMA PhasesStep ==
  ASSUME TypeOK, Phases, Known, [Next]_vars
  PROVE  Phases'
<1> USE ConfFacts, MasterAssumption DEF NoCampaign
<1>1. CASE Poll \/ CheckSlaves \/ InsertSlave \/ AllStarted
  BY <1>1 DEF Poll, CheckSlaves, InsertSlave, AllStarted, MainRuns, GoToSleep, TypeOK, Phases,
     handlerVars
<1>2. CASE GotReady
  <2> DEFINE ready == {c \in Campaigns : status[c] = "Ready"}
  <2>1. ready # {} => Min(ready) \in Campaigns
    BY FirstReady
  <2>2. \/ GoToSleep
        \/ ready # {} /\ campaign' = Min(ready) /\ mpc' = "check" /\ UNCHANGED nextSlave
    BY <1>2, Zenon DEF GotReady
  <2>3. (campaign' \in Campaigns /\ mpc' = "check" /\ nextSlave' = nextSlave) \/ GoToSleep
    BY <2>1, <2>2
  <2>4. iterations < ResendEvery
    BY <1>2 DEF GotReady, TypeOK
  <2> QED
    BY <1>2, <2>3, <2>4 DEF GotReady, MainRuns, GoToSleep, TypeOK, Phases, Campaigns, handlerVars
<1>3. CASE GotTemporaryFailures
  BY <1>3 DEF GotTemporaryFailures, MainRuns, GoToSleep, Reset, TypeOK, Phases, Campaigns,
     handlerVars
<1>4. CASE UpdateCampaign
  BY <1>4 DEF UpdateCampaign, MainRuns, GoToSleep, TypeOK, Phases, handlerVars
<1>5. CASE LaunchSlave
  BY <1>5 DEF LaunchSlave, MainRuns, Slaves, TypeOK, Phases, handlerVars
<1>6. CASE WakeUp
  BY <1>6 DEF WakeUp, MainRuns, TypeOK, Phases, handlerVars
<1>7. CASE Deliver \/ NoneToReap
  BY <1>7 DEF Deliver, MayInterrupt, NoneToReap, HandlerReturns, TypeOK, Phases, mainVars
<1>8. ASSUME NEW p \in Pids, RestartSlave(p) PROVE Phases'
  BY <1>8 DEF RestartSlave, Reap, HandlerReturns, TypeOK, Phases, mainVars
<1>9. ASSUME NEW p \in Pids, SlaveEnded(p) PROVE Phases'
  BY <1>9 DEF SlaveEnded, Reap, HandlerReturns, TypeOK, Phases, mainVars
<1>10. ASSUME NEW p \in Pids, OtherEnded(p) PROVE Phases'
  BY <1>10 DEF OtherEnded, Reap, HandlerReturns, TypeOK, Phases, mainVars
<1>11. CASE SelfDeadlock \/ Finish \/ Reprocess \/ AllRelaunched
  BY <1>11 DEF SelfDeadlock, Finish, Reprocess, AllRelaunched, TypeOK, Phases, mainVars
<1>12. CASE RelaunchSlave
  BY <1>12 DEF RelaunchSlave, Slaves, TypeOK, Phases, mainVars
<1>13. CASE (\E p \in Pids : Exit(p)) \/ (\E c \in Campaigns : MakeReady(c)) \/ UNCHANGED vars
  BY <1>13 DEF Exit, MakeReady, vars, Phases, mainVars, handlerVars
<1> QED
  BY <1>1, <1>2, <1>3, <1>4, <1>5, <1>6, <1>7, <1>8, <1>9, <1>10, <1>11, <1>12, <1>13
     DEF Next, MainStep, HandlerStep
----------------------------------------------------------------------------
\* The steps that concern the processes, as the proofs use them.
QuietMain == Poll \/ GotReady \/ GotTemporaryFailures \/ CheckSlaves \/ AllStarted \/ WakeUp
QuietHandler == \/ Deliver \/ NoneToReap \/ SelfDeadlock \/ AllRelaunched
                \/ \E c \in Campaigns : MakeReady(c)

LEMMA QuietMainFacts ==
  ASSUME QuietMain
  PROVE  /\ mpc # "insert" /\ mpc' # "insert"
         /\ mpc' \in {"updating", "start"} =>
              campaign' = campaign /\ \A e \in registered : e.campaign # campaign
         /\ UNCHANGED <<conf, forkedPid, registered, child, forks, handlerVars, history>>
BY DEF QuietMain, NotRunning, EntriesOf, Poll, GotReady, GotTemporaryFailures, CheckSlaves, AllStarted, WakeUp, GoToSleep,
   children, history

LEMMA QuietHandlerFacts ==
  ASSUME QuietHandler
  PROVE  /\ UNCHANGED <<conf, mainVars, registered, child, forks, history>>
         /\ hpc' \notin {"finish", "reprocess"} \/ UNCHANGED <<hpc, ended, relaunch>>
BY DEF QuietHandler, HandlerReturns, handlerVars, Deliver, NoneToReap, SelfDeadlock, AllRelaunched, MakeReady, children, history

LEMMA UpdateFacts ==
  ASSUME UpdateCampaign
  PROVE  /\ mpc = "updating" /\ hpc = "none"
         /\ \/ /\ mpc' = "start" /\ UNCHANGED <<campaign, nextSlave>>
               /\ trouble' = trouble \ {campaign}
               /\ finished' = {f \in finished : f[1] # campaign}
            \/ /\ mpc' = "sleep" /\ campaign' = NoCampaign
               /\ trouble' = trouble \cup {campaign} /\ finished' = finished
         /\ UNCHANGED <<conf, forkedPid, registered, child, forks, handlerVars>>
BY DEF UpdateCampaign, MainRuns, GoToSleep, children

LEMMA ReprocessFacts ==
  ASSUME Reprocess
  PROVE  /\ hpc = "finish" /\ hpc' = "reprocess" /\ ended # NoCampaign /\ conf.apiFailures
         /\ UNCHANGED <<conf, mainVars, registered, child, forks, ended, trouble>>
         /\ relaunch' = 0 /\ finished' = {f \in finished : f[1] # ended}
BY DEF Reprocess

\* A slave was launched, and is not recorded yet; or it could not be.
LEMMA LaunchFacts ==
  ASSUME TypeOK, Phases, LaunchSlave
  PROVE  /\ mpc = "start" /\ hpc = "none" /\ campaign \in Campaigns
         /\ nextSlave \in Slaves /\ nextSlave' = nextSlave + 1
         /\ UNCHANGED <<conf, status, campaign, registered, handlerVars, finished>>
         /\ \/ /\ mpc' = "insert" /\ forkedPid' = forks + 1 /\ forks + 1 \in Pids
               /\ forks' = forks + 1 /\ trouble' = trouble
               /\ child'[forks + 1] = Process(campaign, nextSlave)
               /\ \A p \in Pids : p # forks + 1 => child'[p] = child[p]
            \/ /\ mpc' = "start" /\ UNCHANGED <<forkedPid, child, forks>>
               /\ trouble' = trouble \cup {campaign}
<1>1. mpc = "start" /\ campaign \in Campaigns /\ nextSlave \in Command..MaxSlaves - 1
  BY ConfFacts DEF LaunchSlave, Phases, TypeOK, Slaves, Command
<1> QED
  BY <1>1, ForkFacts DEF LaunchSlave, MainRuns

LEMMA InsertFacts ==
  ASSUME TypeOK, Phases, Known, InsertSlave
  PROVE  /\ mpc = "insert" /\ mpc' = "start" /\ hpc = "none" /\ forkedPid' = NoPid
         /\ campaign \in Campaigns /\ forkedPid \in Pids /\ nextSlave - 1 \in Slaves
         /\ UNCHANGED <<conf, status, campaign, nextSlave, child, forks, handlerVars, history>>
         /\ registered' = registered \cup {Entry(forkedPid, campaign, nextSlave - 1)}
BY ConfFacts DEF InsertSlave, MainRuns, TypeOK, Phases, Known, Slaves, children

\* A slave was restarted with the same part of the campaign, or could not be.
LEMMA RestartSlaveFacts ==
  ASSUME TypeOK, Known, NEW p \in Pids, RestartSlave(p)
  PROVE  \E e \in registered :
           /\ e.pid = p /\ child[p].state = "zombie" /\ hpc = "wait" /\ hpc' = "none"
           /\ ended' = NoCampaign
           /\ UNCHANGED <<conf, status, mainVars, relaunch, finished>>
           /\ child'[p].state = "gone"
           /\ \/ /\ forks + 1 \in Pids /\ p # forks + 1 /\ forks' = forks + 1
                 /\ child'[forks + 1] = Process(e.campaign, e.slave)
                 /\ \A q \in Pids : q # p /\ q # forks + 1 => child'[q] = child[q]
                 /\ registered' = (registered \ {e})
                                     \cup {Entry(forks + 1, e.campaign, e.slave)}
                 /\ trouble' = trouble
              \/ /\ forks' = forks
                 /\ \A q \in Pids : q # p => child'[q] = child[q]
                 /\ registered' = registered \ {e}
                 /\ trouble' = trouble \cup {e.campaign}
<1>1. PICK e \in registered :
        /\ e.pid = p
        /\ \/ /\ forks < MaxForks
              /\ forks' = forks + 1
              /\ child' = [child EXCEPT ![p] = Gone,
                             ![forks + 1] = Process(e.campaign, e.slave)]
              /\ registered' = (registered \ {e})
                                 \cup {Entry(forks + 1, e.campaign, e.slave)}
              /\ UNCHANGED trouble
           \/ /\ child' = [child EXCEPT ![p] = Gone]
              /\ registered' = registered \ {e}
              /\ trouble' = trouble \cup {e.campaign}
              /\ UNCHANGED forks
  BY DEF RestartSlave
<1>2. e.campaign \in Campaigns /\ e.slave \in 0..MaxSlaves - 1 /\ p <= forks /\ p # forks + 1
  BY <1>1, MasterAssumption DEF TypeOK, Known, Pids
<1>3. /\ child[p].state = "zombie" /\ hpc = "wait" /\ hpc' = "none" /\ ended' = NoCampaign
      /\ UNCHANGED <<conf, status, mainVars, relaunch, finished>>
  BY DEF RestartSlave, Reap, Zombies, HandlerReturns
<1> QED
  BY <1>1, <1>2, <1>3, RestartFacts, GoneFacts

\* A slave has ended for good.
LEMMA SlaveEndedFacts ==
  ASSUME TypeOK, NEW p \in Pids, SlaveEnded(p)
  PROVE  \E e \in registered :
           /\ e.pid = p /\ child[p].state = "zombie" /\ hpc = "wait"
           /\ ~(conf.restarts /\ child[p].end = "again")
           /\ UNCHANGED <<conf, status, mainVars, relaunch, forks, history>>
           /\ child'[p].state = "gone"
           /\ \A q \in Pids : q # p => child'[q] = child[q]
           /\ registered' = registered \ {e}
           /\ \/ /\ hpc' = "none" /\ ended' = NoCampaign
                 /\ \E f \in registered : f # e /\ f.campaign = e.campaign
              \/ /\ hpc' = "finish" /\ ended' = e.campaign
                 /\ \A f \in registered : f.campaign = e.campaign => f = e
<1>1. PICK e \in registered :
        /\ e.pid = p
        /\ registered' = registered \ {e}
        /\ IF EntriesOf(e.campaign) # {e}
           THEN HandlerReturns
           ELSE hpc' = "finish" /\ ended' = e.campaign
  BY DEF SlaveEnded, Without, OthersLeft
<1>2. EntriesOf(e.campaign) # {e} => \E f \in registered : f # e /\ f.campaign = e.campaign
  BY DEF EntriesOf
<1>3. EntriesOf(e.campaign) = {e} => \A f \in registered : f.campaign = e.campaign => f = e
  BY DEF EntriesOf
<1>4. /\ child[p].state = "zombie" /\ hpc = "wait"
      /\ ~(conf.restarts /\ child[p].end = "again")
      /\ UNCHANGED <<conf, status, mainVars, relaunch, forks, history>>
  BY DEF SlaveEnded, Reap, Zombies, MustRestart
<1>5. child'[p].state = "gone" /\ \A q \in Pids : q # p => child'[q] = child[q]
  BY GoneFacts DEF SlaveEnded
<1> QED
  BY <1>1, <1>2, <1>3, <1>4, <1>5 DEF HandlerReturns

\* A child that is not in g_slaveCampaigns has ended.
LEMMA OtherEndedFacts ==
  ASSUME TypeOK, NEW p \in Pids, OtherEnded(p)
  PROVE  /\ child[p].state = "zombie" /\ hpc = "wait" /\ hpc' \in {"none", "finish"}
         /\ ended' = ended \/ ended' = NoCampaign
         /\ UNCHANGED <<conf, status, mainVars, registered, relaunch, forks, history>>
         /\ child'[p].state = "missed"
         /\ \A q \in Pids : q # p => child'[q] = child[q]
         /\ \A e \in registered : e.pid # p
<1>1. child'[p].state = "missed" /\ \A q \in Pids : q # p => child'[q] = child[q]
  BY ReapFacts DEF OtherEnded
<1> QED
  BY <1>1 DEF OtherEnded, Reap, Zombies, HandlerReturns

\* The handler is done with a campaign; a command may have been launched.
LEMMA FinishFacts ==
  ASSUME TypeOK, Finish
  PROVE  /\ hpc = "finish" /\ hpc' = "wait" /\ ended' = NoCampaign
         /\ UNCHANGED <<conf, mainVars, registered, relaunch, finished>>
         /\ \/ trouble' = trouble /\ status' = MarkedSent
            \/ trouble' = trouble \cup {ended} /\ status' = status
         /\ \/ /\ forks + 1 \in Pids /\ forks' = forks + 1
               /\ child'[forks + 1] = Process(ended, Command)
               /\ \A p \in Pids : p # forks + 1 => child'[p] = child[p]
            \/ UNCHANGED <<child, forks>>
<1>1. Command \in Command..MaxSlaves - 1 /\ ended \in Campaigns \cup {NoCampaign}
  BY MasterAssumption DEF Command, TypeOK
<1> QED
  BY <1>1, ForkFacts DEF Finish

\* The handler launched a slave and recorded it, or could not.
LEMMA RelaunchFacts ==
  ASSUME TypeOK, Phases, RelaunchSlave
  PROVE  /\ hpc = "reprocess" /\ hpc' = hpc /\ ended \in Campaigns /\ ended' = ended
         /\ relaunch \in Slaves /\ relaunch' = relaunch + 1
         /\ UNCHANGED <<conf, status, mainVars, finished>>
         /\ \/ /\ forks + 1 \in Pids /\ forks' = forks + 1 /\ trouble' = trouble
               /\ child'[forks + 1] = Process(ended, relaunch)
               /\ \A p \in Pids : p # forks + 1 => child'[p] = child[p]
               /\ registered' = registered \cup {Entry(forks + 1, ended, relaunch)}
            \/ /\ UNCHANGED <<registered, child, forks>>
               /\ trouble' = trouble \cup {ended}
<1>1. ended \in Campaigns /\ relaunch \in Command..MaxSlaves - 1
  BY ConfFacts DEF RelaunchSlave, Phases, TypeOK, Slaves, Command
<1> QED
  BY <1>1, ForkFacts DEF RelaunchSlave

\* A process has ended.
LEMMA EndFacts ==
  ASSUME TypeOK, NEW p \in Pids, Exit(p)
  PROVE  /\ child[p].state = "running"
         /\ UNCHANGED <<conf, status, mainVars, registered, handlerVars, forks>>
         /\ \A q \in Pids : q # p => child'[q] = child[q]
         /\ finished \subseteq finished' /\ trouble \subseteq trouble'
         /\ hpc = "reprocess" => child'[p].state = "missed"
         /\ hpc # "reprocess" =>
              /\ child'[p].state = "zombie"
              /\ child'[p].campaign = child[p].campaign
              /\ child'[p].slave = child[p].slave
              /\ child[p].slave # Command =>
                   \/ child[p].campaign \in trouble'
                   \/ child'[p].end = "done" /\ <<child[p].campaign, child[p].slave>> \in finished'
                   \/ child'[p].end = "again" /\ conf.restarts
<1>1. PICK end \in {"done", "again", "failed"} :
        /\ child' = [child EXCEPT ![p] = IF hpc = "reprocess" THEN Missed
                       ELSE [child[p] EXCEPT !.state = "zombie", !.end = end]]
        /\ finished' = IF end = "done" /\ child[p].slave # Command
                       THEN finished \cup {<<child[p].campaign, child[p].slave>>} ELSE finished
        /\ trouble' = IF child[p].slave # Command /\ (end = "failed" \/
                                                      (end = "again" /\ ~conf.restarts))
                      THEN trouble \cup {child[p].campaign} ELSE trouble
  BY DEF Exit
<1>2. /\ child[p].state = "running"
      /\ UNCHANGED <<conf, status, mainVars, registered, handlerVars, forks>>
  BY DEF Exit, Running
<1> QED
  BY <1>1, <1>2, ExitFacts
----------------------------------------------------------------------------
LEMMA RegisteredTypes ==
  ASSUME TypeOK
  PROVE  /\ forks \in Nat /\ forkedPid \in Nat /\ relaunch \in Nat /\ nextSlave \in Nat
         /\ \A e \in registered : /\ e.pid \in Pids /\ e.pid \in Nat /\ e.pid # NoPid
                                 /\ e.campaign \in Campaigns /\ e.slave \in Nat
BY MasterAssumption DEF TypeOK, Pids, NoPid

LEMMA Unrecorded ==
  ASSUME TypeOK, Known
  PROVE  mpc = "insert" => forkedPid \in Pids
BY DEF TypeOK, Known

\* What a new process is.
LEMMA ProcessFields ==
  ASSUME NEW c, NEW s
  PROVE  /\ Process(c, s).state = "running"
         /\ Process(c, s).campaign = c
         /\ Process(c, s).slave = s
BY DEF Process

LEMMA EntryFields ==
  ASSUME NEW p, NEW c, NEW s
  PROVE  Entry(p, c, s).pid = p /\ Entry(p, c, s).campaign = c /\ Entry(p, c, s).slave = s
BY DEF Entry

\* Every action keeps g_slaveCampaigns in line with the processes.
LEMMA KnownStep ==
  ASSUME TypeOK, Phases, Known, [Next]_vars
  PROVE  Known'
<1> USE RegisteredTypes, Unrecorded
<1>1. CASE QuietMain
  BY <1>1, QuietMainFacts DEF Known, Present
<1>2. CASE QuietHandler \/ UNCHANGED vars
  BY <1>2, QuietHandlerFacts DEF Known, Present, mainVars, vars, children
<1>3. CASE UpdateCampaign
  BY <1>3, UpdateFacts DEF Known, Present
<1>4. CASE LaunchSlave
  <2>1. CASE mpc' = "start" /\ UNCHANGED <<forkedPid, child, forks>>
    <3>1. mpc = "start" /\ UNCHANGED <<campaign, registered>>
      BY <1>4, LaunchFacts
    <3> QED
      BY <2>1, <3>1 DEF Known, Present
  <2>2. CASE /\ mpc' = "insert" /\ forkedPid' = forks + 1 /\ forks + 1 \in Pids
             /\ forks' = forks + 1
             /\ child'[forks + 1] = Process(campaign, nextSlave)
             /\ \A p \in Pids : p # forks + 1 => child'[p] = child[p]
    <3>1. /\ mpc' = "insert" /\ forkedPid' = forks + 1 /\ forks + 1 \in Pids /\ forkedPid = NoPid
          /\ forks' = forks + 1 /\ nextSlave' - 1 = nextSlave
          /\ UNCHANGED <<campaign, registered>>
          /\ \A p \in Pids : p # forks + 1 => child'[p] = child[p]
      BY <1>4, <2>2, LaunchFacts DEF Known
    <3>2. \A e \in registered : e.pid # forks + 1 /\ e.pid # NoPid
      BY DEF Known, Pids, NoPid
    <3>3. child'[forks + 1].campaign = campaign /\ child'[forks + 1].slave = nextSlave
      BY <2>2, ProcessFields
    <3>4. \A p \in Pids : Present(p)' /\ child'[p].slave # Command =>
            p = forkedPid' \/ \E e \in registered' : e.pid = p
      BY <3>1 DEF Known, Present, Pids, NoPid
    <3>5. \A e \in registered' : Present(e.pid)' =>
            child'[e.pid].campaign = e.campaign /\ child'[e.pid].slave = e.slave
      BY <3>1, <3>2 DEF Known, Present
    <3>6. \A e \in registered' : e.pid <= forks' /\ e.pid # forkedPid'
      BY <3>1, <3>2 DEF Known
    <3>7. \A e, f \in registered' : e.pid = f.pid => e = f
      BY <3>1 DEF Known
    <3> QED
      BY <3>1, <3>3, <3>4, <3>5, <3>6, <3>7 DEF Known, NoPid
  <2> QED
    BY <1>4, <2>1, <2>2, LaunchFacts
<1>5. CASE InsertSlave
  <2>1. \A e \in registered' : \/ e \in registered
                               \/ /\ e = Entry(forkedPid, campaign, nextSlave - 1)
                                  /\ e.pid = forkedPid /\ e.campaign = campaign
                                  /\ e.slave = nextSlave - 1
    BY <1>5, InsertFacts, EntryFields
  <2>2. Entry(forkedPid, campaign, nextSlave - 1).pid = forkedPid
    BY EntryFields
  <2>3. \A e \in registered' : e.pid # NoPid
    BY <1>5, <2>1, InsertFacts DEF NoPid, Pids
  <2>4. /\ mpc' # "insert" /\ forkedPid' = NoPid /\ UNCHANGED <<child, forks>>
        /\ Entry(forkedPid, campaign, nextSlave - 1) \in registered'
        /\ registered \subseteq registered' /\ mpc = "insert"
    BY <1>5, InsertFacts
  <2>5. \A p \in Pids : Present(p)' /\ child'[p].slave # Command =>
          p = forkedPid' \/ \E e \in registered' : e.pid = p
    BY <2>2, <2>4 DEF Known, Present
  <2>6. \A e \in registered' : Present(e.pid)' =>
          child'[e.pid].campaign = e.campaign /\ child'[e.pid].slave = e.slave
    BY <2>1, <2>4 DEF Known, Present
  <2>7. \A e \in registered' : e.pid <= forks' /\ e.pid # forkedPid'
    BY <2>1, <2>3, <2>4 DEF Known
  <2>8. \A e, f \in registered' : e.pid = f.pid => e = f
    BY <2>1 DEF Known
  <2> QED
    BY <2>4, <2>5, <2>6, <2>7, <2>8 DEF Known, NoPid
<1>6. ASSUME NEW p \in Pids, RestartSlave(p) PROVE Known'
  <2>1. PICK e \in registered :
           /\ e.pid = p
           /\ UNCHANGED mainVars
           /\ child'[p].state = "gone"
           /\ \/ /\ forks + 1 \in Pids /\ p # forks + 1 /\ forks' = forks + 1
                 /\ child'[forks + 1] = Process(e.campaign, e.slave)
                 /\ \A q \in Pids : q # p /\ q # forks + 1 => child'[q] = child[q]
                 /\ registered' = (registered \ {e})
                                     \cup {Entry(forks + 1, e.campaign, e.slave)}
              \/ /\ forks' = forks
                 /\ \A q \in Pids : q # p => child'[q] = child[q]
                 /\ registered' = registered \ {e}
    BY <1>6, RestartSlaveFacts
  <2>2. ~Present(p)'
    BY <2>1 DEF Present
  <2>3. forkedPid # p /\ UNCHANGED <<mpc, campaign, nextSlave, forkedPid>>
    BY <2>1 DEF Known, mainVars
  <2>4. CASE registered' = registered \ {e} /\ forks' = forks
             /\ \A q \in Pids : q # p => child'[q] = child[q]
    BY <2>1, <2>2, <2>3, <2>4 DEF Known, Present
  <2>5. CASE /\ forks + 1 \in Pids /\ p # forks + 1 /\ forks' = forks + 1
             /\ child'[forks + 1] = Process(e.campaign, e.slave)
             /\ \A q \in Pids : q # p /\ q # forks + 1 => child'[q] = child[q]
             /\ registered' = (registered \ {e}) \cup {Entry(forks + 1, e.campaign, e.slave)}
    <3> DEFINE n == Entry(forks + 1, e.campaign, e.slave)
    <3>1. /\ n \in registered' /\ n.pid = forks + 1 /\ n.campaign = e.campaign /\ n.slave = e.slave
          /\ registered' = (registered \ {e}) \cup {n}
      BY <2>5, EntryFields
    <3> HIDE DEF n
    <3>2. /\ child'[forks + 1].campaign = e.campaign /\ child'[forks + 1].slave = e.slave
      BY <2>5, ProcessFields
    <3>3. \A f \in registered' : f = n \/ (f \in registered /\ f # e /\ f.pid # p /\ f.pid <= forks)
      BY <2>1, <3>1 DEF Known
    <3>4. forkedPid' <= forks' /\ forkedPid' # forks + 1
      BY <2>3, <2>5 DEF Known
    <3>5. \A f \in registered' : f.pid <= forks' /\ f.pid # forkedPid'
      BY <2>3, <2>5, <3>1, <3>3, <3>4 DEF Known
    <3>6. \A f, g \in registered' : f.pid = g.pid => f = g
      BY <3>1, <3>3 DEF Known
    <3>7. \A f \in registered' : Present(f.pid)' =>
            child'[f.pid].campaign = f.campaign /\ child'[f.pid].slave = f.slave
      BY <2>5, <3>1, <3>2, <3>3 DEF Known, Present
    <3>8. \A q \in Pids : Present(q)' /\ child'[q].slave # Command =>
            q = forkedPid' \/ \E f \in registered' : f.pid = q
      BY <2>1, <2>2, <2>3, <2>5, <3>1 DEF Known, Present
    <3>9. mpc' = "insert" => forkedPid \in Pids /\ child'[forkedPid] = child[forkedPid]
      BY <2>3, <2>5, <3>4 DEF Known, TypeOK
    <3> QED
      BY <2>3, <3>4, <3>5, <3>6, <3>7, <3>8, <3>9 DEF Known, Present
  <2> QED
    BY <2>1, <2>4, <2>5
<1>7. ASSUME NEW p \in Pids, SlaveEnded(p) PROVE Known'
  <2>1. PICK e \in registered :
           /\ e.pid = p /\ UNCHANGED <<mpc, campaign, nextSlave, forkedPid, forks>>
           /\ child'[p].state = "gone"
           /\ \A q \in Pids : q # p => child'[q] = child[q]
           /\ registered' = registered \ {e}
    BY <1>7, SlaveEndedFacts DEF mainVars
  <2>2. ~Present(p)'
    BY <2>1 DEF Present
  <2> QED
    BY <2>1, <2>2 DEF Known, Present
<1>8. ASSUME NEW p \in Pids, OtherEnded(p) PROVE Known'
  <2>1. /\ UNCHANGED <<mpc, campaign, nextSlave, forkedPid, forks, registered>>
        /\ child'[p].state = "missed"
        /\ \A q \in Pids : q # p => child'[q] = child[q]
    BY <1>8, OtherEndedFacts DEF mainVars
  <2>2. ~Present(p)'
    BY <2>1 DEF Present
  <2> QED
    BY <2>1, <2>2 DEF Known, Present, TypeOK
<1>9. CASE Finish
  <2>1. UNCHANGED <<mpc, campaign, nextSlave, forkedPid, registered>>
    BY <1>9, FinishFacts DEF mainVars
  <2>2. CASE UNCHANGED <<child, forks>>
    BY <2>1, <2>2 DEF Known, Present
  <2>3. CASE /\ forks + 1 \in Pids /\ forks' = forks + 1
             /\ child'[forks + 1] = Process(ended, Command)
             /\ \A p \in Pids : p # forks + 1 => child'[p] = child[p]
    <3>1. child'[forks + 1].slave = Command
      BY <2>3, ProcessFields
    <3>2. forkedPid # forks + 1 /\ \A e \in registered : e.pid # forks + 1
      BY DEF Known
    <3> QED
      BY <2>1, <2>3, <3>1, <3>2 DEF Known, Present, TypeOK
  <2> QED
    BY <1>9, <2>2, <2>3, FinishFacts
<1>10. CASE Reprocess
  BY <1>10, ReprocessFacts DEF Known, Present, mainVars
<1>11. CASE RelaunchSlave
  <2>1. UNCHANGED <<mpc, campaign, nextSlave, forkedPid>>
    BY <1>11, RelaunchFacts DEF mainVars
  <2>2. CASE UNCHANGED <<registered, child, forks>>
    BY <2>1, <2>2 DEF Known, Present
  <2>3. CASE /\ forks + 1 \in Pids /\ forks' = forks + 1
             /\ child'[forks + 1] = Process(ended, relaunch)
             /\ \A p \in Pids : p # forks + 1 => child'[p] = child[p]
             /\ registered' = registered \cup {Entry(forks + 1, ended, relaunch)}
    <3> DEFINE n == Entry(forks + 1, ended, relaunch)
    <3>1. /\ n \in registered' /\ n.pid = forks + 1 /\ n.campaign = ended /\ n.slave = relaunch
          /\ registered' = registered \cup {n}
      BY <2>3, EntryFields
    <3> HIDE DEF n
    <3>2. child'[forks + 1].campaign = ended /\ child'[forks + 1].slave = relaunch
      BY <2>3, ProcessFields
    <3>3. \A f \in registered : f.pid # forks + 1
      BY DEF Known
    <3>4. forkedPid' <= forks' /\ forkedPid' # forks + 1
      BY <2>1, <2>3 DEF Known
    <3>5. mpc' = "insert" => child'[forkedPid] = child[forkedPid]
      BY <2>1, <2>3, <3>4 DEF Known, TypeOK
    <3>6. \A f \in registered' : f.pid <= forks' /\ f.pid # forkedPid'
      BY <2>1, <2>3, <3>1, <3>4 DEF Known
    <3>7. \A f \in registered' : Present(f.pid)' =>
            child'[f.pid].campaign = f.campaign /\ child'[f.pid].slave = f.slave
      BY <2>3, <3>1, <3>2, <3>3 DEF Known, Present
    <3>8. \A q \in Pids : Present(q)' /\ child'[q].slave # Command =>
            q = forkedPid' \/ \E f \in registered' : f.pid = q
      BY <2>1, <2>3, <3>1 DEF Known, Present
    <3> QED
      BY <2>1, <3>1, <3>3, <3>4, <3>5, <3>6, <3>7, <3>8 DEF Known, Present
  <2> QED
    BY <1>11, <2>2, <2>3, RelaunchFacts
<1>12. ASSUME NEW p \in Pids, Exit(p) PROVE Known'
  <2>1. /\ UNCHANGED <<mpc, campaign, nextSlave, forkedPid, registered, forks>>
        /\ Present(p)
        /\ \A q \in Pids : q # p => child'[q] = child[q]
        /\ Present(p)' => /\ child'[p].campaign = child[p].campaign
                          /\ child'[p].slave = child[p].slave
    BY <1>12, EndFacts DEF mainVars, Present
  <2> QED
    BY <2>1 DEF Known, Present
<1> QED
  BY <1>1, <1>2, <1>3, <1>4, <1>5, <1>6, <1>7, <1>8, <1>9, <1>10, <1>11, <1>12
     DEF Next, MainStep, HandlerStep, QuietMain, QuietHandler
----------------------------------------------------------------------------
\* Every action keeps the slaves of a campaign distinct.
LEMMA DistinctStep ==
  ASSUME TypeOK, Phases, Known, Distinct, [Next]_vars
  PROVE  Distinct'
<1> USE RegisteredTypes
<1>1. CASE QuietMain
  BY <1>1, QuietMainFacts DEF Distinct, handlerVars
<1>2. CASE QuietHandler \/ UNCHANGED vars
  BY <1>2, QuietHandlerFacts DEF Distinct, mainVars, handlerVars, vars
<1>3. CASE UpdateCampaign
  BY <1>3, UpdateFacts DEF Distinct, handlerVars
<1>4. CASE LaunchSlave
  <2>1. /\ mpc = "start" /\ mpc' \in {"start", "insert"} /\ nextSlave' = nextSlave + 1
        /\ UNCHANGED <<conf, campaign, registered, hpc, ended, relaunch>>
    BY <1>4, LaunchFacts DEF handlerVars
  <2> QED
    BY <2>1 DEF Distinct
<1>5. CASE InsertSlave
  <2>1. /\ mpc = "insert" /\ mpc' = "start" /\ hpc = "none"
        /\ UNCHANGED <<conf, campaign, nextSlave, hpc, ended, relaunch>>
    BY <1>5, InsertFacts DEF handlerVars
  <2>2. \A e \in registered' : \/ e \in registered
                               \/ /\ e = Entry(forkedPid, campaign, nextSlave - 1)
                                  /\ e.campaign = campaign /\ e.slave = nextSlave - 1
    BY <1>5, InsertFacts, EntryFields
  <2> QED
    BY <2>1, <2>2 DEF Distinct
<1>6. ASSUME NEW p \in Pids, RestartSlave(p) PROVE Distinct'
  <2>1. PICK e \in registered :
           /\ hpc' = "none"
           /\ UNCHANGED <<conf, mainVars>>
           /\ \/ registered' = (registered \ {e})
                                  \cup {Entry(forks + 1, e.campaign, e.slave)}
              \/ registered' = registered \ {e}
    BY <1>6, RestartSlaveFacts
  <2> DEFINE n == Entry(forks + 1, e.campaign, e.slave)
  <2>2. n.campaign = e.campaign /\ n.slave = e.slave
    BY EntryFields
  <2>3. \A f \in registered' : f = n \/ (f \in registered /\ f # e)
    BY <2>1
  <2> HIDE DEF n
  <2> QED
    BY <2>1, <2>2, <2>3 DEF Distinct, mainVars
<1>7. ASSUME NEW p \in Pids, SlaveEnded(p) PROVE Distinct'
  <2>1. PICK e \in registered :
           /\ UNCHANGED <<conf, mainVars>>
           /\ registered' = registered \ {e}
           /\ hpc' = "finish" =>
                /\ ended' = e.campaign
                /\ \A f \in registered : f.campaign = e.campaign => f = e
           /\ hpc' # "reprocess"
    BY <1>7, SlaveEndedFacts
  <2> QED
    BY <2>1 DEF Distinct, mainVars
<1>8. ASSUME NEW p \in Pids, OtherEnded(p) PROVE Distinct'
  <2>1. /\ UNCHANGED <<conf, mainVars, registered>> /\ hpc' # "reprocess"
        /\ ended' = NoCampaign
    BY <1>8, OtherEndedFacts DEF Phases
  <2>2. \A e \in registered : e.campaign # NoCampaign
    BY MasterAssumption DEF Campaigns, NoCampaign
  <2> QED
    BY <2>1, <2>2 DEF Distinct, mainVars
<1>9. CASE Finish
  BY <1>9, FinishFacts DEF Distinct, mainVars
<1>10. CASE Reprocess
  <2>1. /\ hpc = "finish" /\ relaunch = 0 /\ relaunch' = 0
        /\ UNCHANGED <<conf, mainVars, registered, ended>>
    BY <1>10, ReprocessFacts DEF Phases
  <2> QED
    BY <2>1 DEF Distinct, mainVars
<1>11. CASE RelaunchSlave
  <2>1. /\ hpc = "reprocess" /\ hpc' = hpc /\ ended' = ended /\ relaunch' = relaunch + 1
        /\ UNCHANGED <<conf, mpc, campaign>>
        /\ conf.apiFailures
        /\ ~conf.async => mpc = "sleep"
    BY <1>11, RelaunchFacts DEF Phases, mainVars
  <2>2. \A e \in registered' : \/ e \in registered
                               \/ /\ e = Entry(forks + 1, ended, relaunch)
                                  /\ e.campaign = ended /\ e.slave = relaunch
    BY <1>11, RelaunchFacts, EntryFields
  <2> QED
    BY <2>1, <2>2 DEF Distinct
<1>12. CASE \E p \in Pids : Exit(p)
  BY <1>12, EndFacts DEF Distinct, mainVars, handlerVars
<1> QED
  BY <1>1, <1>2, <1>3, <1>4, <1>5, <1>6, <1>7, <1>8, <1>9, <1>10, <1>11, <1>12
     DEF Next, MainStep, HandlerStep, QuietMain, QuietHandler

LEMMA SameConf ==
  ASSUME [Next]_vars
  PROVE  conf' = conf
BY DEF Next, MainStep, HandlerStep, vars, Poll, GotReady, GotTemporaryFailures, CheckSlaves,
   UpdateCampaign, LaunchSlave, InsertSlave, AllStarted, WakeUp, Deliver, NoneToReap,
   RestartSlave, SlaveEnded, OtherEnded, SelfDeadlock, Finish, Reprocess, RelaunchSlave,
   AllRelaunched, Exit, MakeReady

\* Every action keeps the entries of g_slaveCampaigns fresh.
LEMMA FreshStep ==
  ASSUME TypeOK, Phases, Known, Fresh, [Next]_vars
  PROVE  Fresh'
<1> SUFFICES ASSUME conf' = conf,
                    \A e \in registered : Expected(e.pid),
                    mpc = "insert" => Expected(forkedPid)
             PROVE  /\ \A e \in registered' : Expected(e.pid)'
                    /\ mpc' = "insert" => Expected(forkedPid)'
  BY SameConf DEF Fresh
<1> USE RegisteredTypes, Unrecorded
<1>1. CASE QuietMain
  BY <1>1, QuietMainFacts DEF Expected, Present
<1>2. CASE QuietHandler \/ UNCHANGED vars
  BY <1>2, QuietHandlerFacts DEF Expected, Present, mainVars, vars, children
<1>3. CASE UpdateCampaign
  BY <1>3, UpdateFacts DEF Expected, Present
<1>4. CASE LaunchSlave
  <2>1. CASE mpc' = "start" /\ UNCHANGED <<forkedPid, child, forks>>
    BY <1>4, <2>1, LaunchFacts DEF Expected, Present
  <2>2. CASE /\ mpc' = "insert" /\ forkedPid' = forks + 1
             /\ child'[forks + 1] = Process(campaign, nextSlave)
             /\ \A p \in Pids : p # forks + 1 => child'[p] = child[p]
    <3>1. \A e \in registered : e.pid # forks + 1
      BY DEF Known
    <3>2. child'[forks + 1].state = "running"
      BY <2>2, ProcessFields
    <3> QED
      BY <1>4, <2>2, <3>1, <3>2, LaunchFacts DEF Expected, Present
  <2> QED
    BY <1>4, <2>1, <2>2, LaunchFacts
<1>5. CASE InsertSlave
  <2>1. \A e \in registered' : e \in registered \/ e.pid = forkedPid
    BY <1>5, InsertFacts, EntryFields
  <2> QED
    BY <1>5, <2>1, InsertFacts DEF Expected, Present
<1>6. ASSUME NEW p \in Pids, RestartSlave(p)
      PROVE  /\ \A e \in registered' : Expected(e.pid)'
             /\ mpc' = "insert" => Expected(forkedPid)'
  <2>1. UNCHANGED <<mpc, forkedPid>>
    BY <1>6, RestartSlaveFacts DEF mainVars
  <2>2. PICK e \in registered :
           /\ e.pid = p
           /\ \/ /\ child'[forks + 1] = Process(e.campaign, e.slave)
                 /\ \A q \in Pids : q # p /\ q # forks + 1 => child'[q] = child[q]
                 /\ registered' = (registered \ {e})
                                     \cup {Entry(forks + 1, e.campaign, e.slave)}
              \/ /\ \A q \in Pids : q # p => child'[q] = child[q]
                 /\ registered' = registered \ {e}
    BY <1>6, RestartSlaveFacts
  <2>3. \A f \in registered : f.pid <= forks /\ (f # e => f.pid # p)
    BY <2>2 DEF Known
  <2>4. forkedPid # p /\ forkedPid # forks + 1
    BY <2>2 DEF Known
  <2>5. Process(e.campaign, e.slave).state = "running"
    BY ProcessFields
  <2>6. Entry(forks + 1, e.campaign, e.slave).pid = forks + 1
    BY EntryFields
  <2> QED
    BY <2>1, <2>2, <2>3, <2>4, <2>5, <2>6 DEF Expected, Present
<1>7. ASSUME NEW p \in Pids, SlaveEnded(p)
      PROVE  /\ \A e \in registered' : Expected(e.pid)'
             /\ mpc' = "insert" => Expected(forkedPid)'
  <2>1. UNCHANGED <<mpc, forkedPid>>
    BY <1>7, SlaveEndedFacts DEF mainVars
  <2>2. PICK e \in registered :
           /\ e.pid = p
           /\ \A q \in Pids : q # p => child'[q] = child[q]
           /\ registered' = registered \ {e}
    BY <1>7, SlaveEndedFacts
  <2> QED
    BY <2>1, <2>2 DEF Expected, Present, Known
<1>8. ASSUME NEW p \in Pids, OtherEnded(p)
      PROVE  /\ \A e \in registered' : Expected(e.pid)'
             /\ mpc' = "insert" => Expected(forkedPid)'
  <2>1. /\ UNCHANGED <<mpc, forkedPid, registered>> /\ hpc = "wait"
        /\ child'[p].state = "missed"
        /\ \A q \in Pids : q # p => child'[q] = child[q]
        /\ \A e \in registered : e.pid # p
    BY <1>8, OtherEndedFacts DEF mainVars
  <2>2. mpc = "insert" => conf.async
    BY <2>1 DEF Phases
  <2> QED
    BY <2>1, <2>2 DEF Expected, Present
<1>9. CASE Finish
  <2>1. UNCHANGED <<mpc, forkedPid, registered>>
    BY <1>9, FinishFacts DEF mainVars
  <2>2. Process(ended, Command).state = "running"
    BY ProcessFields
  <2>3. forkedPid # forks + 1 /\ \A e \in registered : e.pid # forks + 1
    BY DEF Known
  <2> QED
    BY <1>9, <2>1, <2>2, <2>3, FinishFacts DEF Expected, Present
<1>10. CASE Reprocess
  BY <1>10, ReprocessFacts DEF Expected, Present, mainVars
<1>11. CASE RelaunchSlave
  <2>1. UNCHANGED <<mpc, forkedPid>>
    BY <1>11, RelaunchFacts DEF mainVars
  <2>2. Process(ended, relaunch).state = "running"
    BY ProcessFields
  <2>3. Entry(forks + 1, ended, relaunch).pid = forks + 1
    BY EntryFields
  <2>4. forkedPid # forks + 1 /\ \A e \in registered : e.pid # forks + 1
    BY DEF Known
  <2> QED
    BY <1>11, <2>1, <2>2, <2>3, <2>4, RelaunchFacts DEF Expected, Present
<1>12. ASSUME NEW p \in Pids, Exit(p)
       PROVE  /\ \A e \in registered' : Expected(e.pid)'
              /\ mpc' = "insert" => Expected(forkedPid)'
  <2>1. /\ UNCHANGED <<mpc, forkedPid, registered>>
        /\ \A q \in Pids : q # p => child'[q] = child[q]
    BY <1>12, EndFacts DEF mainVars
  <2>2. \/ child'[p].state = "zombie"
        \/ child'[p].state = "missed" /\ conf.apiFailures
    BY <1>12, EndFacts DEF Phases
  <2> QED
    BY <2>1, <2>2 DEF Expected, Present
<1> QED
  BY <1>1, <1>2, <1>3, <1>4, <1>5, <1>6, <1>7, <1>8, <1>9, <1>10, <1>11, <1>12
     DEF Next, MainStep, HandlerStep, QuietMain, QuietHandler
----------------------------------------------------------------------------
\* A campaign that is about to be started, by runMaster() or again by the
\* handler, has no slave.
LEMMA NoSlaveLeft ==
  ASSUME TypeOK, Phases, Known, Distinct, ~conf.async,
         NEW c, (mpc = "updating" /\ c = campaign) \/ (hpc = "finish" /\ c = ended)
  PROVE  /\ \A e \in registered : e.campaign # c
         /\ \A p \in Pids : Present(p) /\ child[p].slave # Command => child[p].campaign # c
<1>1. \A e \in registered : e.slave \in Nat
  BY RegisteredTypes
<1>2. \A e \in registered : e.campaign # c
  BY <1>1 DEF Distinct, Phases
<1>3. forkedPid = NoPid
  BY DEF Phases, Known
<1>4. \A p \in Pids : p # NoPid
  BY DEF Pids, NoPid
<1> QED
  BY <1>2, <1>3, <1>4 DEF Known

\* Every action keeps account of the slaves that have ended.
LEMMA EndsNotedStep ==
  ASSUME TypeOK, Phases, Known, Distinct, EndsNoted, [Next]_vars
  PROVE  EndsNoted'
<1> SUFFICES ASSUME ~conf.async, NEW q \in Pids,
                    child'[q].state = "zombie", child'[q].slave # Command,
                    child[q].state = "zombie" /\ child[q].slave # Command =>
                      \/ child[q].campaign \in trouble
                      \/ /\ child[q].end = "done"
                         /\ <<child[q].campaign, child[q].slave>> \in finished
                      \/ child[q].end = "again" /\ conf.restarts
             PROVE  \/ child'[q].campaign \in trouble'
                    \/ /\ child'[q].end = "done"
                       /\ <<child'[q].campaign, child'[q].slave>> \in finished'
                    \/ child'[q].end = "again" /\ conf.restarts
  BY SameConf DEF EndsNoted
<1>1. CASE QuietMain
  BY <1>1, QuietMainFacts DEF history
<1>2. CASE QuietHandler \/ UNCHANGED vars
  BY <1>2, QuietHandlerFacts DEF history, vars, children
<1>3. CASE UpdateCampaign
  <2>1. child[q].campaign # campaign
    BY <1>3, UpdateFacts, NoSlaveLeft DEF Present
  <2>2. child' = child
    BY <1>3, UpdateFacts
  <2>3. <<child[q].campaign, child[q].slave>>[1] = child[q].campaign
    OBVIOUS
  <2> QED
    BY <1>3, <2>1, <2>2, <2>3, UpdateFacts
<1>4. CASE LaunchSlave
  BY <1>4, LaunchFacts, ProcessFields
<1>5. CASE InsertSlave
  BY <1>5, InsertFacts DEF history
<1>6. CASE \E p \in Pids : RestartSlave(p)
  BY <1>6, RestartSlaveFacts, ProcessFields
<1>7. CASE \E p \in Pids : SlaveEnded(p)
  BY <1>7, SlaveEndedFacts DEF history
<1>8. CASE \E p \in Pids : OtherEnded(p)
  BY <1>8, OtherEndedFacts DEF history
<1>9. CASE Finish
  BY <1>9, FinishFacts, ProcessFields
<1>10. CASE Reprocess
  <2>1. child[q].campaign # ended
    BY <1>10, ReprocessFacts, NoSlaveLeft DEF Present
  <2>2. child' = child
    BY <1>10, ReprocessFacts
  <2>3. <<child[q].campaign, child[q].slave>>[1] = child[q].campaign
    OBVIOUS
  <2> QED
    BY <1>10, <2>1, <2>2, <2>3, ReprocessFacts
<1>11. CASE RelaunchSlave
  BY <1>11, RelaunchFacts, ProcessFields
<1>12. CASE \E p \in Pids : Exit(p)
  BY <1>12, EndFacts
<1> QED
  BY <1>1, <1>2, <1>3, <1>4, <1>5, <1>6, <1>7, <1>8, <1>9, <1>10, <1>11, <1>12
     DEF Next, MainStep, HandlerStep, QuietMain, QuietHandler

\* Every action keeps account of the slaves of the campaigns.
LEMMA AccountingStep ==
  ASSUME TypeOK, Phases, Known, Distinct, EndsNoted, Accounting, [Next]_vars
  PROVE  Accounting'
<1> SUFFICES ASSUME ~conf.async, conf' = conf, NEW c \in Campaigns, NEW s \in Slaves,
                    Underway(c)', s < Launched(c)',
                    Underway(c) /\ s < Launched(c) => Accounted(c, s)
             PROVE  Accounted(c, s)'
  BY SameConf DEF Accounting, Slaves
<1>1. /\ c # NoCampaign /\ s \in Nat /\ s < conf.slaves /\ conf.slaves \in Nat
      /\ relaunch \in Nat /\ nextSlave \in Nat
  BY ConfFacts, RegisteredTypes DEF Campaigns, NoCampaign, Slaves
<1>2. CASE QuietMain
  <2>1. UNCHANGED <<conf, registered, hpc, ended, relaunch, history>> /\ hpc = "none"
    BY <1>2, QuietMainFacts DEF handlerVars, QuietMain, Poll, GotReady, GotTemporaryFailures,
       CheckSlaves, AllStarted, WakeUp, MainRuns
  <2>2. Starting(c)' => Launched(c)' = 0
    BY <1>2, <1>1 DEF Phases, Starting, Launched, QuietMain, Poll, GotReady, GotTemporaryFailures,
       CheckSlaves, AllStarted, WakeUp, GoToSleep
  <2>3. ~Starting(c)' /\ ended # c
    BY <1>1, <2>1, <2>2 DEF Phases
  <2>4. Launched(c) = conf.slaves
    BY <1>1, <1>2, <2>1 DEF Phases, Starting, Launched, QuietMain, Poll, GotReady,
       GotTemporaryFailures, CheckSlaves, AllStarted, WakeUp, Slaves
  <2> QED
    BY <1>1, <2>1, <2>3, <2>4 DEF Underway, Accounted, history
<1>3. CASE QuietHandler \/ UNCHANGED vars
  <2>1. /\ UNCHANGED <<mainVars, registered, history>>
        /\ \/ UNCHANGED <<hpc, ended, relaunch>>
           \/ ended' = ended /\ hpc = "none" /\ hpc' = "wait"
           \/ ended' = NoCampaign /\ hpc = "wait" /\ hpc' = "none"
           \/ ended' = NoCampaign /\ hpc = "reprocess" /\ relaunch = conf.slaves /\ hpc' = "wait"
    BY <1>1, <1>3, QuietHandlerFacts DEF QuietHandler, Deliver, NoneToReap, HandlerReturns,
       SelfDeadlock, AllRelaunched, MakeReady, handlerVars, vars, Slaves, Phases
  <2>2. Starting(c)' = Starting(c)
    BY <2>1 DEF Starting, mainVars
  <2>3. Underway(c)
    BY <1>1, <2>1, <2>2 DEF Underway
  <2>4. s < Launched(c)
    BY <1>1, <2>1, <2>2 DEF Launched, mainVars
  <2> QED
    BY <2>1, <2>3, <2>4 DEF Accounted, history
<1>4. CASE UpdateCampaign
  <2>1. /\ UNCHANGED <<registered, hpc, ended, relaunch>> /\ mpc = "updating"
        /\ hpc = "none" /\ nextSlave = 0
    BY <1>4, UpdateFacts DEF handlerVars, Phases
  <2>2. c # campaign
    <3>1. campaign \in Campaigns => \A e \in registered : e.campaign # campaign
      BY <2>1, NoSlaveLeft
    <3> QED
      BY <1>1, <1>4, <2>1, <3>1, UpdateFacts DEF Underway, Launched, Starting, Phases
  <2>3. Underway(c) /\ Launched(c) = conf.slaves
    BY <1>1, <1>4, <2>1, <2>2, UpdateFacts DEF Underway, Launched, Starting
  <2>4. Accounted(c, s)
    BY <1>1, <2>3
  <2>5. <<c, s>>[1] = c
    OBVIOUS
  <2> QED
    BY <1>4, <2>1, <2>2, <2>4, <2>5, UpdateFacts DEF Accounted
<1>5. CASE LaunchSlave
  <2>1. /\ UNCHANGED <<campaign, registered, hpc, ended, relaunch, finished>> /\ mpc = "start"
        /\ \/ mpc' = "insert" /\ trouble' = trouble
           \/ mpc' = "start" /\ trouble' = trouble \cup {campaign}
        /\ nextSlave' = nextSlave + 1
    BY <1>5, LaunchFacts DEF handlerVars
  <2>2. Underway(c)
    BY <2>1 DEF Underway, Starting
  <2>3. (c = campaign /\ mpc' = "start") \/ s < Launched(c)
    BY <1>1, <2>1 DEF Launched, Starting
  <2> QED
    BY <2>1, <2>2, <2>3 DEF Accounted
<1>6. CASE InsertSlave
  <2> DEFINE n == Entry(forkedPid, campaign, nextSlave - 1)
  <2>1. /\ UNCHANGED <<campaign, nextSlave, hpc, ended, relaunch, history>>
        /\ registered' = registered \cup {n} /\ mpc = "insert" /\ mpc' = "start"
    BY <1>6, InsertFacts DEF handlerVars
  <2>2. n.campaign = campaign /\ n.slave = nextSlave - 1
    BY EntryFields
  <2> HIDE DEF n
  <2>3. Underway(c)
    BY <2>1, <2>2 DEF Underway, Starting
  <2>4. (c = campaign /\ s = nextSlave - 1) \/ s < Launched(c)
    BY <1>1, <2>1 DEF Launched, Starting
  <2> QED
    BY <2>1, <2>2, <2>3, <2>4 DEF Accounted, history
<1>7. ASSUME NEW p \in Pids, RestartSlave(p) PROVE Accounted(c, s)'
  <2>1. PICK e \in registered :
           /\ hpc = "wait" /\ hpc' = "none" /\ ended' = NoCampaign
           /\ UNCHANGED <<mainVars, finished>>
           /\ \/ /\ registered' = (registered \ {e})
                                     \cup {Entry(forks + 1, e.campaign, e.slave)}
                 /\ trouble' = trouble
              \/ /\ registered' = registered \ {e}
                 /\ trouble' = trouble \cup {e.campaign}
    BY <1>7, RestartSlaveFacts
  <2> DEFINE n == Entry(forks + 1, e.campaign, e.slave)
  <2>2. n.campaign = e.campaign /\ n.slave = e.slave
    BY EntryFields
  <2>3. \/ registered' = (registered \ {e}) \cup {n} /\ trouble' = trouble
        \/ registered' = registered \ {e} /\ trouble' = trouble \cup {e.campaign}
    BY <2>1
  <2> HIDE DEF n
  <2>4. Starting(c)' = Starting(c) /\ Launched(c)' = Launched(c)
    BY <2>1 DEF Starting, Launched, mainVars
  <2>5. Underway(c)
    BY <1>1, <2>1, <2>2, <2>3, <2>4 DEF Underway
  <2> QED
    BY <2>1, <2>2, <2>3, <2>4, <2>5 DEF Accounted
<1>8. ASSUME NEW p \in Pids, SlaveEnded(p) PROVE Accounted(c, s)'
  <2>1. PICK e \in registered :
           /\ e.pid = p /\ child[p].state = "zombie" /\ hpc = "wait"
           /\ ~(conf.restarts /\ child[p].end = "again")
           /\ UNCHANGED <<mainVars, history>>
           /\ registered' = registered \ {e}
           /\ hpc' # "reprocess" /\ ended' \in {NoCampaign, e.campaign}
    BY <1>8, SlaveEndedFacts
  <2>2. Starting(c)' = Starting(c) /\ Launched(c)' = Launched(c)
    BY <2>1 DEF Starting, Launched, mainVars
  <2>3. Underway(c)
    BY <1>1, <2>1, <2>2 DEF Underway
  <2>4. child[p].campaign = e.campaign /\ child[p].slave = e.slave /\ e.slave # Command
    BY <2>1, RegisteredTypes DEF Known, Present, Command
  <2>5. e.campaign \in trouble \/ <<e.campaign, e.slave>> \in finished
    BY <2>1, <2>4 DEF EndsNoted
  <2> QED
    BY <2>1, <2>2, <2>3, <2>5 DEF Accounted, history
<1>9. CASE \E p \in Pids : OtherEnded(p)
  <2>1. /\ UNCHANGED <<mainVars, registered, history>> /\ hpc = "wait" /\ hpc' # "reprocess"
        /\ ended' = NoCampaign
    BY <1>9, OtherEndedFacts DEF Phases
  <2>2. Starting(c)' = Starting(c) /\ Launched(c)' = Launched(c)
    BY <2>1 DEF Starting, Launched, mainVars
  <2> QED
    BY <1>1, <2>1, <2>2 DEF Accounted, Underway, history
<1>10. CASE Finish
  <2>1. /\ UNCHANGED <<mainVars, registered, finished>> /\ hpc = "finish" /\ hpc' = "wait"
        /\ ended' = NoCampaign /\ trouble \subseteq trouble'
    BY <1>10, FinishFacts
  <2>2. Starting(c)' = Starting(c) /\ Launched(c)' = Launched(c)
    BY <2>1 DEF Starting, Launched, mainVars
  <2> QED
    BY <1>1, <2>1, <2>2 DEF Accounted, Underway
<1>11. CASE Reprocess
  <2>1. /\ UNCHANGED <<mainVars, registered, ended, trouble>> /\ hpc = "finish"
        /\ hpc' = "reprocess" /\ relaunch' = 0
        /\ finished' = {f \in finished : f[1] # ended}
        /\ mpc = "sleep" /\ campaign = NoCampaign
    BY <1>11, ReprocessFacts DEF Phases
  <2>2. c # ended
    BY <1>1, <2>1 DEF Launched, Starting, mainVars
  <2>3. Launched(c) = conf.slaves /\ Underway(c)
    BY <1>1, <2>1, <2>2 DEF Launched, Starting, mainVars, Underway
  <2>4. Accounted(c, s) /\ <<c, s>>[1] = c
    BY <1>1, <2>3
  <2> QED
    BY <2>1, <2>2, <2>4 DEF Accounted
<1>12. CASE RelaunchSlave
  <2> DEFINE n == Entry(forks + 1, ended, relaunch)
  <2>1. /\ UNCHANGED <<mainVars, finished, ended>> /\ hpc = "reprocess" /\ hpc' = hpc
        /\ relaunch' = relaunch + 1 /\ mpc = "sleep" /\ campaign = NoCampaign
        /\ \/ registered' = registered \cup {n} /\ trouble' = trouble
           \/ registered' = registered /\ trouble' = trouble \cup {ended}
    BY <1>12, RelaunchFacts DEF Phases
  <2>2. n.campaign = ended /\ n.slave = relaunch
    BY EntryFields
  <2> HIDE DEF n
  <2>3. Underway(c)
    BY <1>1, <2>1, <2>2 DEF Underway, Starting, mainVars
  <2>4. (c = ended /\ s = relaunch) \/ s < Launched(c)
    BY <1>1, <2>1 DEF Launched, Starting, mainVars
  <2> QED
    BY <2>1, <2>2, <2>3, <2>4 DEF Accounted
<1>13. CASE \E p \in Pids : Exit(p)
  <2>1. /\ UNCHANGED <<mainVars, registered, handlerVars>>
        /\ trouble \subseteq trouble' /\ finished \subseteq finished'
    BY <1>13, EndFacts
  <2>2. Underway(c) /\ s < Launched(c)
    BY <2>1 DEF Starting, Launched, Underway, mainVars, handlerVars
  <2> QED
    BY <2>1, <2>2 DEF Accounted
<1> QED
  BY <1>2, <1>3, <1>4, <1>5, <1>6, <1>7, <1>8, <1>9, <1>10, <1>11, <1>12, <1>13
     DEF Next, MainStep, HandlerStep, QuietMain, QuietHandler
----------------------------------------------------------------------------
\* The invariant is inductive.
LEMMA NextInv == IInv /\ [Next]_vars => IInv'
BY TypeStep, PhasesStep, KnownStep, DistinctStep, FreshStep, EndsNotedStep, AccountingStep DEF IInv

LEMMA Invariance == Spec => []IInv
BY InitInv, NextInv, PTL DEF Spec

\* Every variable of the daemon keeps its type.
THEOREM TypeCorrect == Spec => []TypeOK
<1>1. IInv => TypeOK
  BY DEF IInv
<1> QED
  BY <1>1, Invariance, PTL

\* Two processes never serve the same part of a campaign, whatever the order in
\* which slaves end, are restarted and are started by runMaster() and by the
\* SIGCHLD handler, except when a handler that may interrupt runMaster() anywhere
\* also reprocesses campaigns.
THEOREM OneProcess == Spec => []OneProcessPerSlave
<1>1. IInv => OneProcessPerSlave
  <2> SUFFICES ASSUME IInv, ~(conf.async /\ conf.apiFailures),
                      NEW p \in Pids, NEW q \in Pids,
                      child[p].state = "running", child[q].state = "running",
                      p # q, child[p].slave # Command, child[p].slave = child[q].slave
               PROVE  child[p].campaign # child[q].campaign
    BY DEF OneProcessPerSlave, Running
  <2>1. TypeOK /\ Phases /\ Known /\ Distinct
    BY DEF IInv
  <2>2. Present(p) /\ Present(q)
    BY DEF Present
  <2>3. ASSUME NEW e \in registered, e.pid = p, NEW f \in registered, f.pid = q
        PROVE  child[p].campaign # child[q].campaign
    BY <2>1, <2>2, <2>3 DEF Known, Distinct
  <2>4. ASSUME NEW r \in Pids, r = forkedPid, Present(r), NEW e \in registered, Present(e.pid),
               child[r].slave = child[e.pid].slave
        PROVE  child[r].campaign # child[e.pid].campaign
    <3>1. mpc = "insert"
      BY <2>1, <2>4 DEF Known, Pids, NoPid
    <3>2. e.slave \in Nat /\ nextSlave \in Nat
      BY <2>1, RegisteredTypes
    <3> QED
      BY <2>1, <2>4, <3>1, <3>2 DEF Known, Distinct
  <2> QED
    BY <2>1, <2>2, <2>3, <2>4 DEF Known
<1> QED
  BY <1>1, Invariance, PTL

\* g_slaveCampaigns has an entry for a process that nobody will wait for only if
\* that process was missed, before it was recorded or while SIGCHLD was ignored.
THEOREM NoneStale == Spec => []NoStaleEntry
<1>1. IInv => NoStaleEntry
  BY RegisteredTypes DEF IInv, NoStaleEntry, Fresh, Expected, Present, Running, Zombies
<1> QED
  BY <1>1, Invariance, PTL

\* When the handler interrupts only the sleep of runMaster(), a campaign is marked
\* as sent only when each of its slaves has served its part of the campaign, or
\* something went wrong with one.
THEOREM SentServed == Spec => SentMeansServed
<1>1. ASSUME IInv, [Next]_vars, ~conf.async, NEW c \in Campaigns,
             status[c] # "Sent", status'[c] = "Sent"
      PROVE  AllServed(c)
  <2>1. Finish /\ ended = c
    <3>1. /\ status \in [Campaigns -> {"Ready", "Sending", "Resending", "Sent"}]
      BY <1>1 DEF IInv, TypeOK
    <3>2. status' # status
      BY <1>1
    <3>3. UpdateCampaign \/ Finish \/ \E d \in Campaigns : MakeReady(d)
      BY <1>1, <3>2 DEF Next, MainStep, HandlerStep, vars, Poll, GotReady, GotTemporaryFailures,
         CheckSlaves, LaunchSlave, InsertSlave, AllStarted, WakeUp, Deliver, NoneToReap,
         RestartSlave, SlaveEnded, OtherEnded, SelfDeadlock, Reprocess, RelaunchSlave,
         AllRelaunched, Exit
    <3>4. ~UpdateCampaign /\ ~ \E d \in Campaigns : MakeReady(d)
      BY <1>1, <3>1 DEF UpdateCampaign, MakeReady
    <3> QED
      BY <1>1, <3>1, <3>3, <3>4 DEF Finish, MarkedSent
  <2>2. hpc = "finish" /\ mpc = "sleep" /\ c # NoCampaign /\ campaign = NoCampaign
    BY <1>1, <2>1 DEF Finish, IInv, Phases, Campaigns, NoCampaign
  <2>3. Underway(c) /\ Launched(c) = conf.slaves
    BY <2>1, <2>2 DEF Underway, Launched, Starting
  <2>4. \A e \in registered : e.campaign # c
    BY <1>1, <2>1, <2>2, NoSlaveLeft DEF IInv
  <2>5. \A s \in Slaves : s < conf.slaves
    BY <1>1, ConfFacts DEF IInv, Slaves
  <2> QED
    BY <1>1, <2>3, <2>4, <2>5 DEF IInv, Accounting, Accounted, AllServed
<1>2. IInv /\ [Next]_vars =>
        [~conf.async => \A c \in Campaigns :
           status[c] # "Sent" /\ status'[c] = "Sent" => AllServed(c)]_vars
  BY <1>1
<1> QED
  BY <1>2, Invariance, PTL DEF Spec, SentMeansServed
----------------------------------------------------------------------------
\* Refinement of CampaignLife.

\* The process p runs and is a slave.
Serving(p) == child[p].state = "running" /\ child[p].slave # Command

LEMMA AtWorkFacts ==
  ASSUME NEW e
  PROVE  e \in AtWork <=>
           \E p \in Pids : Serving(p) /\ e = Entry(p, child[p].campaign, child[p].slave)
BY DEF AtWork, Running, Serving

LEMMA AtWorkPrimed ==
  ASSUME NEW e
  PROVE  e \in AtWork' <=>
           \E p \in Pids : Serving(p)' /\ e = Entry(p, child'[p].campaign, child'[p].slave)
BY DEF AtWork, Running, Serving, Entry

\* Nobody is started, and nobody who is at work ends.
LEMMA SameAtWork ==
  ASSUME \A p \in Pids : (Serving(p)' <=> Serving(p)) /\ (Serving(p) => child'[p] = child[p])
  PROVE  AtWork' = AtWork
<1>1. ASSUME NEW e PROVE e \in AtWork' <=> e \in AtWork
  BY AtWorkFacts, AtWorkPrimed
<1> QED
  BY <1>1

\* Process n is started.
LEMMA MoreAtWork ==
  ASSUME NEW n \in Pids, NEW c, NEW s, s # Command, ~Serving(n), child'[n] = Process(c, s),
         \A p \in Pids : p # n =>
           (Serving(p)' <=> Serving(p)) /\ (Serving(p) => child'[p] = child[p])
  PROVE  /\ AtWork' = AtWork \cup {[pid |-> n, campaign |-> c, slave |-> s]}
         /\ \A e \in AtWork : e.pid # n
<1>1. Serving(n)' /\ child'[n].campaign = c /\ child'[n].slave = s
  BY ProcessFields DEF Serving
<1>2. Entry(n, child'[n].campaign, child'[n].slave) = [pid |-> n, campaign |-> c, slave |-> s]
  BY <1>1 DEF Entry
<1> DEFINE m == [pid |-> n, campaign |-> c, slave |-> s]
<1> HIDE DEF m
<1>3. ASSUME NEW e PROVE e \in AtWork' <=> e \in AtWork \cup {m}
  BY <1>1, <1>2, AtWorkFacts, AtWorkPrimed DEF m
<1>4. \A e \in AtWork : e.pid # n
  BY AtWorkFacts, EntryFields
<1> QED
  BY <1>3, <1>4 DEF m

\* Process p ends.
LEMMA LessAtWork ==
  ASSUME NEW p \in Pids, Serving(p), ~Serving(p)',
         \A q \in Pids : q # p => child'[q] = child[q]
  PROVE  LET e == Entry(p, child[p].campaign, child[p].slave)
         IN  e \in AtWork /\ AtWork' = AtWork \ {e}
<1> DEFINE m == Entry(p, child[p].campaign, child[p].slave)
<1>1. m \in AtWork /\ m.pid = p
  BY AtWorkFacts, EntryFields
<1>2. ASSUME NEW q \in Pids, q # p
      PROVE  /\ Serving(q)' <=> Serving(q)
             /\ Entry(q, child'[q].campaign, child'[q].slave)
                  = Entry(q, child[q].campaign, child[q].slave)
             /\ Entry(q, child[q].campaign, child[q].slave) # m
  <2>1. child'[q] = child[q]
    BY <1>2
  <2>2. Entry(q, child[q].campaign, child[q].slave).pid = q
    BY EntryFields
  <2> QED
    BY <1>1, <1>2, <2>1, <2>2 DEF Serving
<1> HIDE DEF m
<1>3. ASSUME NEW e PROVE e \in AtWork' <=> e \in AtWork /\ e # m
  BY <1>2, AtWorkFacts, AtWorkPrimed DEF m
<1> QED
  BY <1>1, <1>3 DEF m

\* Whoever is at work has an entry in g_slaveCampaigns, or is about to get one.
LEMMA AtWorkKnown ==
  ASSUME TypeOK, Known, NEW e \in AtWork
  PROVE  /\ e.pid \in Pids /\ e.pid <= forks /\ child[e.pid].state = "running"
         /\ \/ \E f \in registered :
                 f.pid = e.pid /\ f.campaign = e.campaign /\ f.slave = e.slave
            \/ /\ mpc = "insert" /\ e.pid = forkedPid
               /\ e.campaign = campaign /\ e.slave = nextSlave - 1
<1>1. PICK p \in Pids : Serving(p) /\ e = Entry(p, child[p].campaign, child[p].slave)
  BY AtWorkFacts
<1>2. e.pid = p /\ e.campaign = child[p].campaign /\ e.slave = child[p].slave
  BY <1>1, EntryFields
<1>3. Present(p) /\ child[p].slave # Command
  BY <1>1 DEF Serving, Present
<1>4. CASE \E f \in registered : f.pid = p
  <2>1. PICK f \in registered : f.pid = p
    BY <1>4
  <2>2. f.campaign = child[p].campaign /\ f.slave = child[p].slave /\ p <= forks
    BY <1>3, <2>1 DEF Known
  <2> QED
    BY <1>1, <1>2, <2>1, <2>2 DEF Serving
<1>5. CASE p = forkedPid
  <2>1. p # NoPid
    BY DEF Pids, NoPid
  <2>2. mpc = "insert" /\ p <= forks
    BY <1>5, <2>1 DEF Known
  <2>3. child[p].campaign = campaign /\ child[p].slave = nextSlave - 1
    BY <1>3, <1>5, <2>2 DEF Known
  <2> QED
    BY <1>1, <1>2, <1>5, <2>2, <2>3 DEF Serving
<1> QED
  BY <1>3, <1>4, <1>5 DEF Known

\* A process about to be started does nothing yet.
LEMMA NotYetServing ==
  ASSUME TypeOK, Known, forks + 1 \in Pids
  PROVE  ~Serving(forks + 1)
<1> SUFFICES ASSUME Serving(forks + 1) PROVE FALSE
  OBVIOUS
<1> DEFINE n == forks + 1
           e == Entry(n, child[n].campaign, child[n].slave)
<1>1. e \in AtWork /\ e.pid = n
  BY AtWorkFacts, EntryFields
<1>2. forks \in Nat
  BY RegisteredTypes
<1>3. n <= forks
  BY <1>1, AtWorkKnown
<1> QED
  BY <1>2, <1>3

\* runMaster() only turns to campaigns that are ready, or sent and to be tried again.
Picked == mpc \in {"check", "updating"} => status[campaign] \in {"Ready", "Sent"}

LEMMA PickedStep ==
  ASSUME TypeOK, Phases, Picked, [Next]_vars
  PROVE  Picked'
<1>0. status \in [Campaigns -> {"Ready", "Sending", "Resending", "Sent"}]
      /\ (mpc \in {"check", "updating"} => campaign \in Campaigns)
  BY DEF TypeOK, Phases
<1>1. CASE GotReady
  <2> DEFINE ready == {c \in Campaigns : status[c] = "Ready"}
  <2>1. status' = status
    BY <1>1 DEF GotReady
  <2>2. CASE ready = {}
    BY <1>1, <2>2 DEF GotReady, GoToSleep, Picked
  <2>3. CASE ready # {}
    <3>1. Min(ready) \in ready
      BY <2>3, FirstReady
    <3>2. campaign' = Min(ready)
      BY <1>1, <2>3 DEF GotReady
    <3> QED
      BY <2>1, <3>1, <3>2 DEF Picked
  <2> QED
    BY <2>2, <2>3
<1>2. CASE GotTemporaryFailures
  BY <1>2 DEF GotTemporaryFailures, GoToSleep, Picked
<1>3. CASE CheckSlaves
  BY <1>3 DEF CheckSlaves, GoToSleep, Picked
<1>4. CASE UpdateCampaign
  BY <1>4 DEF UpdateCampaign, GoToSleep, Picked
<1>5. CASE Finish
  <2>1. mpc' = mpc /\ campaign' = campaign /\ (status' = MarkedSent \/ status' = status)
    BY <1>5 DEF Finish, mainVars
  <2> QED
    BY <1>0, <2>1 DEF Picked, MarkedSent
<1>6. CASE \E c \in Campaigns : MakeReady(c)
  BY <1>0, <1>6 DEF MakeReady, mainVars, Picked
<1>7. CASE AllStarted \/ LaunchSlave \/ InsertSlave \/ Poll \/ WakeUp
  BY <1>7 DEF AllStarted, LaunchSlave, InsertSlave, Poll, WakeUp, GoToSleep, Picked
<1>8. CASE \/ Deliver \/ NoneToReap \/ SelfDeadlock \/ Reprocess \/ RelaunchSlave
           \/ AllRelaunched \/ UNCHANGED vars
           \/ \E p \in Pids : RestartSlave(p) \/ SlaveEnded(p) \/ OtherEnded(p) \/ Exit(p)
  <2>1. UNCHANGED <<mpc, campaign, status>>
    BY <1>8 DEF Deliver, NoneToReap, SelfDeadlock, Reprocess, RelaunchSlave, AllRelaunched,
       RestartSlave, SlaveEnded, OtherEnded, Exit, vars, mainVars
  <2> QED
    BY <2>1 DEF Picked
<1> QED
  BY <1>1, <1>2, <1>3, <1>4, <1>5, <1>6, <1>7, <1>8 DEF Next, MainStep, HandlerStep

LEMMA PickedInvariance == Spec => []Picked
<1>1. Init => Picked
  BY DEF Init, Picked
<1>2. IInv /\ Picked /\ [Next]_vars => Picked'
  BY PickedStep DEF IInv
<1> QED
  BY <1>1, <1>2, Invariance, PTL DEF Spec

\* The slaves in g_slaveCampaigns are some that the campaigns are shared between.
Shared == \A e \in registered : e.slave \in Slaves

LEMMA SharedStep ==
  ASSUME TypeOK, Phases, Known, Shared, [Next]_vars
  PROVE  Shared'
<1>0. Slaves' = Slaves
  BY SameConf DEF Slaves
<1>1. CASE InsertSlave
  BY <1>0, <1>1, InsertFacts, EntryFields DEF Shared
<1>2. CASE RelaunchSlave
  BY <1>0, <1>2, RelaunchFacts, EntryFields DEF Shared
<1>3. ASSUME NEW p \in Pids, RestartSlave(p) PROVE Shared'
  <2>1. PICK e \in registered : registered' \subseteq
          registered \cup {Entry(forks + 1, e.campaign, e.slave)}
    BY <1>3, RestartSlaveFacts
  <2> QED
    BY <1>0, <2>1, EntryFields DEF Shared
<1>4. ASSUME NEW p \in Pids, SlaveEnded(p) PROVE Shared'
  <2>1. registered' \subseteq registered
    BY <1>4, SlaveEndedFacts
  <2> QED
    BY <1>0, <2>1 DEF Shared
<1>5. CASE registered' = registered
  BY <1>0, <1>5 DEF Shared
<1> QED
  BY <1>1, <1>2, <1>3, <1>4, <1>5 DEF Next, MainStep, HandlerStep, vars, Poll, GotReady,
     GotTemporaryFailures, CheckSlaves, UpdateCampaign, LaunchSlave, AllStarted, WakeUp, Deliver,
     NoneToReap, OtherEnded, SelfDeadlock, Finish, Reprocess, AllRelaunched, Exit, MakeReady

LEMMA SharedInvariance == Spec => []Shared
<1>1. Init => Shared
  BY DEF Init, Shared
<1>2. IInv /\ Shared /\ [Next]_vars => Shared'
  BY SharedStep DEF IInv
<1> QED
  BY <1>1, <1>2, Invariance, PTL DEF Spec

\* Steps that CampaignLife knows nothing about.
LEMMA QuietLife ==
  ASSUME UNCHANGED <<conf, status, history>>,
         \A p \in Pids : (Serving(p)' <=> Serving(p)) /\ (Serving(p) => child'[p] = child[p])
  PROVE  UNCHANGED Life!CampaignLifeVars
<1>1. AtWork' = AtWork
  BY SameAtWork
<1> QED
  BY <1>1 DEF Life!CampaignLifeVars, Life!mode, Slaves, history

LEMMA ModeUnchanged ==
  ASSUME conf' = conf
  PROVE  UNCHANGED Life!mode
BY DEF Life!mode, Slaves

LEMMA UpdateLife ==
  ASSUME IInv, Picked, UpdateCampaign
  PROVE  Life!Begin(campaign) \/ Life!Fail(campaign)
<1>1. mpc = "updating" /\ campaign \in Campaigns /\ forkedPid = NoPid
  BY DEF UpdateCampaign, IInv, TypeOK, Phases, Known
<1>2. UNCHANGED Life!mode /\ AtWork' = AtWork
  BY UpdateFacts, ModeUnchanged DEF AtWork, Running, Entry
<1>3. ~(conf.async /\ conf.apiFailures) => Life!AtWorkOn(campaign) = {}
  <2> SUFFICES ASSUME ~(conf.async /\ conf.apiFailures), NEW e \in AtWork,
                      e.campaign = campaign
               PROVE  FALSE
    BY DEF Life!AtWorkOn
  <2>1. PICK f \in registered : f.campaign = campaign
    BY <1>1, AtWorkKnown DEF IInv
  <2>2. f.slave < nextSlave /\ f.slave \in Nat /\ nextSlave = 0
    BY <1>1, <2>1, RegisteredTypes DEF IInv, Distinct, Phases
  <2> QED
    BY <2>2
<1>4. status[campaign] \in {"Ready", "Sent"}
  BY <1>1 DEF Picked
<1>5. CASE status' = status
  <2>1. status' # status \/ (trouble' = trouble \cup {campaign} /\ finished' = finished)
    BY <1>1, <1>4, <1>5 DEF UpdateCampaign, IInv, TypeOK
  <2> QED
    BY <1>2, <1>5, <2>1 DEF Life!Fail
<1>6. CASE status' # status
  <2>1. /\ \E s \in {"Sending", "Resending"} : status' = [status EXCEPT ![campaign] = s]
        /\ finished' = {f \in finished : f[1] # campaign}
        /\ trouble' = trouble \ {campaign}
    BY <1>6 DEF UpdateCampaign
  <2> QED
    BY <1>2, <1>3, <1>4, <2>1 DEF Life!Begin
<1> QED
  BY <1>5, <1>6

LEMMA LaunchLife ==
  ASSUME IInv, LaunchSlave
  PROVE  \/ Life!Fail(campaign)
         \/ forks + 1 \in Pids /\ Life!Launch(forks + 1, campaign, nextSlave)
<1>1. TypeOK /\ Phases /\ Known /\ Distinct /\ mpc = "start"
  BY DEF IInv, LaunchSlave
<1>2. UNCHANGED <<conf, status, finished>> /\ UNCHANGED Life!mode /\ nextSlave \in Nat
  BY <1>1, LaunchFacts, ModeUnchanged, RegisteredTypes
<1>3. CASE UNCHANGED child /\ trouble' = trouble \cup {campaign}
  <2>1. AtWork' = AtWork
    BY <1>3 DEF AtWork, Running, Entry
  <2> QED
    BY <1>2, <1>3, <2>1 DEF Life!Fail
<1>4. CASE /\ forks + 1 \in Pids /\ trouble' = trouble
           /\ child'[forks + 1] = Process(campaign, nextSlave)
           /\ \A p \in Pids : p # forks + 1 => child'[p] = child[p]
  <2>1. nextSlave # Command /\ ~Serving(forks + 1)
    BY <1>1, <1>2, <1>4, NotYetServing DEF Command
  <2>2. \A p \in Pids : p # forks + 1 =>
          (Serving(p)' <=> Serving(p)) /\ (Serving(p) => child'[p] = child[p])
    BY <1>4 DEF Serving
  <2>3. /\ AtWork' = AtWork \cup {[pid |-> forks + 1, campaign |-> campaign, slave |-> nextSlave]}
        /\ \A e \in AtWork : e.pid # forks + 1
    BY <1>4, <2>1, <2>2, MoreAtWork
  <2>4. ASSUME ~(conf.async /\ conf.apiFailures), NEW e \in AtWork, e.campaign = campaign
        PROVE  e.slave # nextSlave
    <3>1. PICK f \in registered : f.campaign = campaign /\ f.slave = e.slave
      BY <1>1, <2>4, AtWorkKnown
    <3>2. f.slave < nextSlave /\ f.slave \in Nat
      BY <1>1, <2>4, <3>1, RegisteredTypes DEF Distinct
    <3> QED
      BY <1>2, <3>1, <3>2
  <2> QED
    BY <1>2, <1>4, <2>3, <2>4 DEF Life!Launch, Life!AtWorkOn
<1> QED
  BY <1>1, <1>3, <1>4, LaunchFacts

LEMMA RelaunchLife ==
  ASSUME IInv, RelaunchSlave
  PROVE  \/ Life!Fail(ended)
         \/ forks + 1 \in Pids /\ Life!Launch(forks + 1, ended, relaunch)
<1>1. TypeOK /\ Phases /\ Known /\ Distinct /\ hpc = "reprocess" /\ conf.apiFailures
  BY DEF IInv, RelaunchSlave, Phases
<1>2. UNCHANGED <<conf, status, finished>> /\ UNCHANGED Life!mode /\ relaunch \in Nat
  BY <1>1, RelaunchFacts, ModeUnchanged, RegisteredTypes
<1>3. CASE UNCHANGED child /\ trouble' = trouble \cup {ended}
  <2>1. AtWork' = AtWork
    BY <1>3 DEF AtWork, Running, Entry
  <2> QED
    BY <1>2, <1>3, <2>1 DEF Life!Fail
<1>4. CASE /\ forks + 1 \in Pids /\ trouble' = trouble
           /\ child'[forks + 1] = Process(ended, relaunch)
           /\ \A p \in Pids : p # forks + 1 => child'[p] = child[p]
  <2>1. relaunch # Command /\ ~Serving(forks + 1)
    BY <1>1, <1>2, <1>4, NotYetServing DEF Command
  <2>2. \A p \in Pids : p # forks + 1 =>
          (Serving(p)' <=> Serving(p)) /\ (Serving(p) => child'[p] = child[p])
    BY <1>4 DEF Serving
  <2>3. /\ AtWork' = AtWork \cup {[pid |-> forks + 1, campaign |-> ended, slave |-> relaunch]}
        /\ \A e \in AtWork : e.pid # forks + 1
    BY <1>4, <2>1, <2>2, MoreAtWork
  <2>4. ASSUME ~(conf.async /\ conf.apiFailures), NEW e \in AtWork, e.campaign = ended
        PROVE  e.slave # relaunch
    <3>1. mpc = "sleep"
      BY <1>1, <2>4 DEF Phases
    <3>2. PICK f \in registered : f.campaign = ended /\ f.slave = e.slave
      BY <1>1, <2>4, <3>1, AtWorkKnown
    <3>3. f.slave < relaunch /\ f.slave \in Nat
      BY <1>1, <2>4, <3>2, RegisteredTypes DEF Distinct
    <3> QED
      BY <1>2, <3>2, <3>3
  <2> QED
    BY <1>2, <1>4, <2>3, <2>4 DEF Life!Launch, Life!AtWorkOn
<1> QED
  BY <1>1, <1>3, <1>4, RelaunchFacts

\* A slave restarted with the part of the one that has ended is alone with it.
LEMMA RestartLife ==
  ASSUME IInv, NEW p \in Pids, RestartSlave(p)
  PROVE  \E e \in registered :
           \/ Life!Fail(e.campaign)
           \/ forks + 1 \in Pids /\ Life!Launch(forks + 1, e.campaign, e.slave)
<1>1. TypeOK /\ Phases /\ Known /\ Distinct
  BY DEF IInv
<1>2. PICK e \in registered :
        /\ e.pid = p /\ child[p].state = "zombie"
        /\ UNCHANGED <<conf, status, finished>>
        /\ child'[p].state = "gone"
        /\ \/ /\ forks + 1 \in Pids /\ p # forks + 1
              /\ child'[forks + 1] = Process(e.campaign, e.slave)
              /\ \A q \in Pids : q # p /\ q # forks + 1 => child'[q] = child[q]
              /\ trouble' = trouble
           \/ /\ \A q \in Pids : q # p => child'[q] = child[q]
              /\ trouble' = trouble \cup {e.campaign}
  BY <1>1, RestartSlaveFacts
<1>3. UNCHANGED Life!mode /\ e.slave \in Nat /\ ~Serving(p) /\ ~Serving(p)'
  BY <1>1, <1>2, ModeUnchanged, RegisteredTypes DEF Serving
<1>4. CASE /\ \A q \in Pids : q # p => child'[q] = child[q]
           /\ trouble' = trouble \cup {e.campaign}
  <2>1. AtWork' = AtWork
    <3>1. \A q \in Pids : (Serving(q)' <=> Serving(q)) /\ (Serving(q) => child'[q] = child[q])
      BY <1>3, <1>4 DEF Serving
    <3> QED
      BY <3>1, SameAtWork
  <2> QED
    BY <1>2, <1>3, <1>4, <2>1 DEF Life!Fail
<1>5. CASE /\ forks + 1 \in Pids /\ p # forks + 1 /\ trouble' = trouble
           /\ child'[forks + 1] = Process(e.campaign, e.slave)
           /\ \A q \in Pids : q # p /\ q # forks + 1 => child'[q] = child[q]
  <2>1. e.slave # Command /\ ~Serving(forks + 1)
    BY <1>1, <1>3, <1>5, NotYetServing DEF Command
  <2>2. \A q \in Pids : q # forks + 1 =>
          (Serving(q)' <=> Serving(q)) /\ (Serving(q) => child'[q] = child[q])
    BY <1>3, <1>5 DEF Serving
  <2>3. /\ AtWork' = AtWork \cup {[pid |-> forks + 1, campaign |-> e.campaign, slave |-> e.slave]}
        /\ \A f \in AtWork : f.pid # forks + 1
    BY <1>5, <2>1, <2>2, MoreAtWork
  <2>4. ASSUME ~(conf.async /\ conf.apiFailures), NEW f \in AtWork, f.campaign = e.campaign
        PROVE  f.slave # e.slave
    <3>1. child[f.pid].state = "running"
      BY <1>1, AtWorkKnown
    <3>2. ASSUME NEW g \in registered, g.pid = f.pid, g.campaign = f.campaign, g.slave = f.slave
          PROVE  f.slave # e.slave
      <4>1. g # e
        BY <1>2, <3>1, <3>2
      <4> QED
        BY <1>1, <2>4, <3>2, <4>1 DEF Distinct
    <3>3. ASSUME mpc = "insert", f.campaign = campaign, f.slave = nextSlave - 1
          PROVE  f.slave # e.slave
      <4>1. e.slave < nextSlave - 1 /\ nextSlave \in Nat
        BY <1>1, <2>4, <3>3, RegisteredTypes DEF Distinct
      <4> QED
        BY <1>3, <3>3, <4>1
    <3> QED
      BY <1>1, <3>2, <3>3, AtWorkKnown
  <2> QED
    BY <1>2, <1>3, <1>5, <2>3, <2>4 DEF Life!Launch, Life!AtWorkOn
<1> QED
  BY <1>2, <1>4, <1>5

\* A process that ends leaves its part, if it has one.
LEMMA ExitLife ==
  ASSUME IInv, NEW p \in Pids, Exit(p)
  PROVE  (\E e \in AtWork : Life!End(e)) \/ UNCHANGED Life!CampaignLifeVars
<1>1. TypeOK /\ child[p].state = "running"
  BY DEF IInv, Exit, Running
<1>2. /\ UNCHANGED <<conf, status>> /\ child'[p].state \in {"zombie", "missed"}
      /\ \A q \in Pids : q # p => child'[q] = child[q]
  BY <1>1, EndFacts
<1>3. UNCHANGED Life!mode /\ ~Serving(p)'
  BY <1>2, ModeUnchanged DEF Serving
<1>4. CASE child[p].slave = Command
  <2>1. finished' = finished /\ trouble' = trouble
    BY <1>4 DEF Exit
  <2>2. \A q \in Pids : (Serving(q)' <=> Serving(q)) /\ (Serving(q) => child'[q] = child[q])
    BY <1>2, <1>3, <1>4 DEF Serving
  <2> QED
    BY <1>2, <2>1, <2>2, QuietLife DEF history
<1>5. CASE child[p].slave # Command
  <2> DEFINE e == Entry(p, child[p].campaign, child[p].slave)
  <2>1. Serving(p)
    BY <1>1, <1>5 DEF Serving
  <2>2. e \in AtWork /\ AtWork' = AtWork \ {e}
    BY <1>2, <1>3, <2>1, LessAtWork
  <2>3. e.campaign = child[p].campaign /\ e.slave = child[p].slave
    BY EntryFields
  <2>4. \/ finished' = finished \cup {<<child[p].campaign, child[p].slave>>} /\ trouble' = trouble
        \/ trouble' = trouble \cup {child[p].campaign} /\ finished' = finished
        \/ finished' = finished /\ trouble' = trouble
    BY <1>5 DEF Exit
  <2> HIDE DEF e
  <2>5. Life!End(e)
    BY <1>2, <1>3, <2>2, <2>3, <2>4 DEF Life!End
  <2> QED
    BY <2>2, <2>5
<1> QED
  BY <1>4, <1>5

\* Processes that are no slaves are none of CampaignLife's business.
LEMMA NoSlavesChanged ==
  ASSUME IInv, Finish
  PROVE  AtWork' = AtWork
<1>1. TypeOK /\ Known
  BY DEF IInv
<1>2. CASE child' = child
  BY <1>2 DEF AtWork, Running, Entry
<1>3. CASE /\ forks + 1 \in Pids /\ child'[forks + 1] = Process(ended, Command)
           /\ \A p \in Pids : p # forks + 1 => child'[p] = child[p]
  <2>1. PICK n \in Pids : n = forks + 1
    BY <1>3
  <2>2. child'[n] = Process(ended, Command) /\ \A p \in Pids : p # n => child'[p] = child[p]
    BY <1>3, <2>1
  <2>3. ~Serving(n) /\ ~Serving(n)'
    BY <1>1, <2>1, <2>2, NotYetServing, ProcessFields DEF Serving
  <2>4. \A q \in Pids : (Serving(q)' <=> Serving(q)) /\ (Serving(q) => child'[q] = child[q])
    BY <2>2, <2>3 DEF Serving
  <2> QED
    BY <2>4, SameAtWork
<1> QED
  BY <1>1, <1>2, <1>3, FinishFacts

\* With a handler that only interrupts the sleep of runMaster(), a campaign has
\* no slave left when the handler is done with it, and none that owes its part.
LEMMA NobodyLeft ==
  ASSUME IInv, ~conf.async, hpc = "finish", ended # NoCampaign
  PROVE  Life!AtWorkOn(ended) = {} /\ AllServed(ended)
<1>1. TypeOK /\ Phases /\ Known /\ Distinct /\ Accounting /\ mpc = "sleep" /\ campaign = NoCampaign
  BY DEF IInv, Phases
<1>2. \A e \in registered : e.campaign # ended
  BY <1>1, NoSlaveLeft
<1>3. Life!AtWorkOn(ended) = {}
  BY <1>1, <1>2, AtWorkKnown DEF Life!AtWorkOn
<1>4. ended \in Campaigns /\ Underway(ended) /\ Launched(ended) = conf.slaves
  BY <1>1 DEF TypeOK, Underway, Launched, Starting
<1>5. \A s \in Slaves : s < conf.slaves
  BY <1>1, ConfFacts DEF Slaves
<1> QED
  BY <1>1, <1>2, <1>3, <1>4, <1>5 DEF Accounting, Accounted, AllServed

LEMMA FinishLife ==
  ASSUME IInv, Finish
  PROVE  \/ UNCHANGED Life!CampaignLifeVars
         \/ ended \in Campaigns /\ (Life!Complete(ended) \/ Life!Fail(ended))
<1>1. TypeOK /\ hpc = "finish" /\ conf' = conf /\ finished' = finished
  BY FinishFacts DEF IInv
<1>2. UNCHANGED Life!mode /\ AtWork' = AtWork
  BY <1>1, ModeUnchanged, NoSlavesChanged
<1>3. status \in [Campaigns -> {"Ready", "Sending", "Resending", "Sent"}]
      /\ ended \in Campaigns \cup {NoCampaign} /\ NoCampaign \notin Campaigns
  BY <1>1 DEF TypeOK, Campaigns, NoCampaign
<1>4. CASE status' = MarkedSent /\ trouble' = trouble /\ ended # NoCampaign
  <2>1. status' = [status EXCEPT ![ended] = "Sent"]
    BY <1>3, <1>4 DEF MarkedSent
  <2>2. ~conf.async => Life!AtWorkOn(ended) = {} /\ AllServed(ended)
    BY <1>1, <1>4, NobodyLeft
  <2>3. Life!Complete(ended)
    BY <1>1, <1>2, <1>4, <2>1, <2>2 DEF Life!Complete, AllServed
  <2> QED
    BY <1>3, <1>4, <2>3
<1>5. CASE status' = MarkedSent /\ trouble' = trouble /\ ended = NoCampaign
  <2>1. status' = status
    BY <1>3, <1>5 DEF MarkedSent
  <2> QED
    BY <1>1, <1>2, <1>5, <2>1 DEF Life!CampaignLifeVars
<1>6. CASE status' = status /\ trouble' = trouble \cup {ended} /\ ended # NoCampaign
  BY <1>1, <1>2, <1>3, <1>6 DEF Life!Fail
<1> QED
  BY <1>4, <1>5, <1>6 DEF Finish

LEMMA ReprocessLife ==
  ASSUME IInv, Reprocess
  PROVE  ended \in Campaigns /\ Life!Redo(ended)
<1>1. /\ hpc = "finish" /\ ended # NoCampaign /\ ended \in Campaigns
      /\ UNCHANGED <<conf, status, child, trouble>>
      /\ finished' = {f \in finished : f[1] # ended}
  BY DEF Reprocess, IInv, TypeOK
<1>2. UNCHANGED Life!mode /\ AtWork' = AtWork
  BY <1>1, ModeUnchanged DEF AtWork, Running, Entry
<1>3. ~conf.async => Life!AtWorkOn(ended) = {}
  BY <1>1, NobodyLeft
<1> QED
  BY <1>1, <1>2, <1>3 DEF Life!Redo

LEMMA CampaignLifeStep ==
  ASSUME IInv, Picked, Shared, [Next]_vars
  PROVE  [Life!CampaignLifeNext]_(Life!CampaignLifeVars)
<1>0. TypeOK /\ Phases
  BY DEF IInv
<1>1. CASE UpdateCampaign
  <2>1. campaign \in Campaigns
    BY <1>0, <1>1 DEF UpdateCampaign, TypeOK, Phases
  <2> QED
    BY <1>1, <2>1, UpdateLife DEF Life!CampaignLifeNext
<1>2. CASE LaunchSlave
  <2>1. campaign \in Campaigns /\ nextSlave \in Slaves
    BY <1>0, <1>2, LaunchFacts
  <2> QED
    BY <1>2, <2>1, LaunchLife DEF Life!CampaignLifeNext
<1>3. CASE RelaunchSlave
  <2>1. ended \in Campaigns /\ relaunch \in Slaves
    BY <1>0, <1>3, RelaunchFacts
  <2> QED
    BY <1>3, <2>1, RelaunchLife DEF Life!CampaignLifeNext
<1>4. ASSUME NEW p \in Pids, RestartSlave(p) PROVE Life!CampaignLifeNext
  <2>1. PICK e \in registered : \/ Life!Fail(e.campaign)
                                \/ forks + 1 \in Pids /\ Life!Launch(forks + 1, e.campaign, e.slave)
    BY <1>4, RestartLife
  <2>2. e.campaign \in Campaigns
    BY <1>0, RegisteredTypes
  <2>3. e.slave \in Slaves
    BY DEF Shared
  <2> QED
    BY <2>1, <2>2, <2>3 DEF Life!CampaignLifeNext
<1>5. CASE \E p \in Pids : Exit(p)
  BY <1>5, ExitLife DEF Life!CampaignLifeNext
<1>6. CASE Finish
  BY <1>6, FinishLife DEF Life!CampaignLifeNext
<1>7. CASE Reprocess
  BY <1>7, ReprocessLife DEF Life!CampaignLifeNext
<1>8. ASSUME NEW c \in Campaigns, MakeReady(c) PROVE Life!CampaignLifeNext
  <2>1. conf' = conf /\ child' = child
    BY <1>8 DEF MakeReady, children
  <2>2. UNCHANGED Life!mode /\ AtWork' = AtWork
    BY <2>1, ModeUnchanged DEF AtWork, Running, Entry
  <2>3. Life!Ready(c)
    BY <1>8, <2>2 DEF MakeReady, Life!Ready, history
  <2> QED
    BY <2>3 DEF Life!CampaignLifeNext
<1>9. ASSUME NEW p \in Pids, SlaveEnded(p) \/ OtherEnded(p)
      PROVE  UNCHANGED Life!CampaignLifeVars
  <2>1. /\ UNCHANGED <<conf, status, history>>
        /\ child[p].state = "zombie" /\ child'[p].state \in {"gone", "missed"}
        /\ \A q \in Pids : q # p => child'[q] = child[q]
    BY <1>0, <1>9, SlaveEndedFacts, OtherEndedFacts
  <2>2. \A q \in Pids : (Serving(q)' <=> Serving(q)) /\ (Serving(q) => child'[q] = child[q])
    BY <2>1 DEF Serving
  <2> QED
    BY <2>1, <2>2, QuietLife
<1>10. CASE \/ Poll \/ GotReady \/ GotTemporaryFailures \/ CheckSlaves \/ InsertSlave
            \/ AllStarted \/ WakeUp \/ Deliver \/ NoneToReap \/ SelfDeadlock
            \/ AllRelaunched \/ UNCHANGED vars
  <2>1. UNCHANGED <<conf, status, history, child>>
    BY <1>10 DEF Poll, GotReady, GotTemporaryFailures, CheckSlaves, InsertSlave, AllStarted,
       WakeUp, Deliver, NoneToReap, SelfDeadlock, AllRelaunched, vars, children
  <2>2. \A q \in Pids : (Serving(q)' <=> Serving(q)) /\ (Serving(q) => child'[q] = child[q])
    BY <2>1 DEF Serving
  <2> QED
    BY <2>1, <2>2, QuietLife
<1> QED
  BY <1>1, <1>2, <1>3, <1>4, <1>5, <1>6, <1>7, <1>8, <1>9, <1>10 DEF Next, MainStep, HandlerStep

\* In every configuration, and whatever signals do, the daemon implements
\* CampaignLife.
THEOREM ImplementsCampaigns == Spec => CampaignsLife
<1>1. Init => Life!CampaignLifeInit
  <2> SUFFICES ASSUME Init PROVE Life!CampaignLifeInit
    OBVIOUS
  <2>1. \A p \in Pids : child[p].state = "none"
    BY DEF Init, NotStarted
  <2>2. AtWork = {}
    BY <2>1, AtWorkFacts DEF Serving
  <2> QED
    BY <2>2 DEF Init, Life!CampaignLifeInit
<1>2. IInv /\ Picked /\ Shared /\ [Next]_vars => [Life!CampaignLifeNext]_(Life!CampaignLifeVars)
  BY CampaignLifeStep
<1> QED
  BY <1>1, <1>2, Invariance, PickedInvariance, SharedInvariance, PTL
     DEF Spec, CampaignsLife, Life!CampaignLifeSpec
=============================================================================
