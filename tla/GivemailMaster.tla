--------------------------- MODULE GivemailMaster ---------------------------
(***************************************************************************)
(* The givemaild daemon (src/src/givemaild.cc): runMaster() polls the      *)
(* database for campaigns and starts slave processes; the SIGCHLD handler  *)
(* reaps them, restarts them, and marks a campaign as sent when none is    *)
(* left.  The handler interrupts runMaster() between any two of its steps, *)
(* or only while it sleeps when conf.async is FALSE.                       *)
(*                                                                         *)
(* Signals do not queue: SIGCHLD is pending or not.  It is blocked while   *)
(* its handler runs and ignored while the handler reprocesses a campaign.  *)
(* The database connection has a mutex that is not recursive.  Process IDs *)
(* are not reused.                                                         *)
(***************************************************************************)
EXTENDS Integers, FiniteSets, FiniteSetsExt

CONSTANTS
  NumCampaigns,  \* campaigns in the database
  Configs,       \* configurations considered, see Configurations below
  MaxSlaves,     \* bound on slave/maxslaves
  ResendEvery,   \* iterations between two looks for temporary failures (60)
  MaxForks,      \* bound on the processes started
  MaxChanges     \* bound on the changes users make and on retries

ASSUME MasterAssumption ==
  /\ NumCampaigns \in Nat
  /\ MaxSlaves \in Nat \ {0}
  /\ ResendEvery \in Nat \ {0, 1}
  /\ MaxForks \in Nat
  /\ MaxChanges \in Nat

Campaigns  == 1..NumCampaigns
NoCampaign == 0      \* the empty identifier of a default SlaveInfo
Pids       == 1..MaxForks
NoPid      == 0
Command    == -1     \* the "slave ID" of an end-of-campaign command

\* When the handler runs, slave/maxslaves (1 if threaded), whether a command is
\* configured, --restart-slaves, and whether recipients fail with "Invalid API".
Configurations == [async : BOOLEAN, slaves : 1..MaxSlaves, command : BOOLEAN,
                   restarts : BOOLEAN, apiFailures : BOOLEAN]

ASSUME ConfigsAssumption == Configs \subseteq Configurations

VARIABLES
  conf,        \* the configuration
  status,      \* [Campaigns -> Status column]
  mpc,         \* where runMaster() is
  campaign,    \* the campaign it deals with
  retrying,    \* ~newCampaigns
  nextSlave,   \* slaveNum of startCampaign(), in runMaster()
  forkedPid,   \* process launched but not yet in g_slaveCampaigns
  iterations,  \* iterationsCount
  registered,  \* g_slaveCampaigns
  hpc,         \* where the handler is
  ended,       \* slaveInfo.m_campaignId of the handler
  restartSlave, signalEnd,  \* its flags, for all children it reaps
  relaunch,    \* slaveNum of startCampaign(), in the handler
  pending,     \* SIGCHLD is pending
  child,       \* [Pids -> process]
  forks,       \* number of processes started
  changes,     \* number of bounded changes made
  finished,    \* history: slaves that served their part of the campaign
  trouble      \* history: campaigns with a slave that failed, or could not
               \* be started, or with a database error

mainVars    == <<mpc, campaign, retrying, nextSlave, forkedPid, iterations>>
handlerVars == <<hpc, ended, restartSlave, signalEnd, relaunch>>
history     == <<finished, trouble>>
children    == <<pending, child, forks>>
vars == <<conf, status, mainVars, registered, handlerVars, children, changes,
          history>>

Slaves == 0..conf.slaves - 1

\* Process states: not started, running, zombie, gone, or missed: waited for
\* while g_slaveCampaigns did not have it, or by the kernel while SIGCHLD was
\* ignored.  A process that ends did its work, asks for a restart (or was killed
\* by SIGSEGV), or failed; this is its exit status while it is a zombie.
NotStarted == [state |-> "none", campaign |-> NoCampaign, slave |-> Command,
               end |-> "done"]
Gone   == [NotStarted EXCEPT !.state = "gone"]
Missed == [NotStarted EXCEPT !.state = "missed"]
Process(c, s) == [state |-> "running", campaign |-> c, slave |-> s,
                  end |-> "done"]
Running == {p \in Pids : child[p].state = "running"}
Zombies == {p \in Pids : child[p].state = "zombie"}

\* An element of g_slaveCampaigns.
Entry(p, c, s) == [pid |-> p, campaign |-> c, slave |-> s]
EntriesOf(c) == {e \in registered : e.campaign = c}
----------------------------------------------------------------------------
Init ==
  /\ conf \in Configs
  /\ status = [c \in Campaigns |-> "Ready"]
  /\ mpc = "poll"
  /\ campaign = NoCampaign
  /\ retrying = FALSE
  /\ nextSlave = 0
  /\ forkedPid = NoPid
  /\ iterations = 0
  /\ registered = {}
  /\ hpc = "none"
  /\ ended = NoCampaign
  /\ restartSlave = FALSE /\ signalEnd = FALSE /\ relaunch = 0
  /\ pending = FALSE
  /\ child = [p \in Pids |-> NotStarted]
  /\ forks = 0
  /\ changes = 0
  /\ finished = {}
  /\ trouble = {}
----------------------------------------------------------------------------
\* Process::launch(): a new process for slave s of campaign c, or a command.
Fork(c, s) ==
  /\ forks < MaxForks
  /\ forks' = forks + 1
  /\ child' = [child EXCEPT ![forks + 1] = Process(c, s)]
----------------------------------------------------------------------------
\* runMaster().  It does not run while the handler does.
MainRuns == hpc = "none"

\* The body of the loop is over, its variables with it.
GoToSleep == /\ mpc' = "sleep"
             /\ campaign' = NoCampaign
             /\ retrying' = FALSE
             /\ nextSlave' = 0

\* The SELECT for campaigns has the mutex of the connection.
Poll ==
  /\ MainRuns
  /\ mpc = "poll"
  /\ mpc' = "polling"
  /\ UNCHANGED <<conf, status, campaign, retrying, nextSlave, forkedPid,
                 iterations, registered, handlerVars, children, changes,
                 history>>

\* getCampaigns("Ready"): MAX_CAMPAIGNS is 1 and the order is the database's.
GotReady ==
  /\ MainRuns
  /\ mpc = "polling"
  /\ iterations # ResendEvery
  /\ LET ready == {c \in Campaigns : status[c] = "Ready"} IN
       IF ready = {} THEN GoToSleep
       ELSE /\ mpc' = "check"
            /\ campaign' = Min(ready)
            /\ UNCHANGED <<retrying, nextSlave>>
  /\ UNCHANGED <<conf, status, forkedPid, iterations, registered, handlerVars,
                 children, changes, history>>

\* getCampaignsWithTemporaryFailures(): sent campaigns, if any has recipients
\* that failed with a 4xy long enough ago.
\* Mutant: iterationsCount is not reset.
NoReset == iterations
Reset   == 0

GotTemporaryFailures ==
  /\ MainRuns
  /\ mpc = "polling"
  /\ iterations = ResendEvery
  /\ \/ /\ GoToSleep
        /\ UNCHANGED changes
     \/ /\ changes < MaxChanges
        /\ changes' = changes + 1
        /\ campaign' \in {c \in Campaigns : status[c] = "Sent"}
        /\ retrying' = TRUE
        /\ mpc' = "check"
        /\ UNCHANGED nextSlave
  /\ iterations' = Reset
  /\ UNCHANGED <<conf, status, forkedPid, registered, handlerVars, children,
                 history>>

\* "Double-check we don't already have a slave running for this campaign"
\* Mutant: nothing is checked.
NoCheck    == TRUE
NotRunning == EntriesOf(campaign) = {}

CheckSlaves ==
  /\ MainRuns
  /\ mpc = "check"
  /\ IF NotRunning
     THEN mpc' = "updating" /\ UNCHANGED <<campaign, retrying, nextSlave>>
     ELSE GoToSleep
  /\ UNCHANGED <<conf, status, forkedPid, iterations, registered, handlerVars,
                 children, changes, history>>

\* setCampaign(), after resetFailedRecipients() on a retry.
UpdateCampaign ==
  /\ MainRuns
  /\ mpc = "updating"
  /\ \/ /\ status' = [status EXCEPT ![campaign] =
                        IF retrying THEN "Resending" ELSE "Sending"]
        /\ finished' = {f \in finished : f[1] # campaign}
        /\ trouble' = trouble \ {campaign}
        /\ mpc' = "start"
        /\ UNCHANGED <<campaign, retrying, nextSlave>>
     \/ /\ trouble' = trouble \cup {campaign}
        /\ GoToSleep
        /\ UNCHANGED <<status, finished>>
  /\ UNCHANGED <<conf, forkedPid, iterations, registered, handlerVars,
                 children, changes>>

\* startCampaign(): startSlave() forks...
LaunchSlave ==
  /\ MainRuns
  /\ mpc = "start"
  /\ nextSlave \in Slaves
  /\ nextSlave' = nextSlave + 1
  /\ \/ /\ Fork(campaign, nextSlave)
        /\ forkedPid' = forks + 1
        /\ mpc' = "insert"
        /\ UNCHANGED trouble
     \/ /\ trouble' = trouble \cup {campaign}
        /\ UNCHANGED <<mpc, forkedPid, child, forks>>
  /\ UNCHANGED <<conf, status, campaign, retrying, iterations, registered,
                 handlerVars, pending, changes, finished>>

\* ...and only then records the process.
InsertSlave ==
  /\ MainRuns
  /\ mpc = "insert"
  /\ registered' = registered \cup {Entry(forkedPid, campaign, nextSlave - 1)}
  /\ forkedPid' = NoPid
  /\ mpc' = "start"
  /\ UNCHANGED <<conf, status, campaign, retrying, nextSlave, iterations,
                 handlerVars, children, changes, history>>

AllStarted ==
  /\ MainRuns
  /\ mpc = "start"
  /\ nextSlave \notin Slaves
  /\ GoToSleep
  /\ UNCHANGED <<conf, status, forkedPid, iterations, registered, handlerVars,
                 children, changes, history>>

\* sleep(60) is over, or was cut short by a signal, whose handler runs first.
WakeUp ==
  /\ MainRuns
  /\ mpc = "sleep"
  /\ ~pending
  /\ iterations' = iterations + 1
  /\ mpc' = "poll"
  /\ UNCHANGED <<conf, status, campaign, retrying, nextSlave, forkedPid,
                 registered, handlerVars, children, changes, history>>
----------------------------------------------------------------------------
\* catchSignals(SIGCHLD).
MayInterrupt == conf.async \/ mpc = "sleep"

Deliver ==
  /\ pending
  /\ hpc = "none"
  /\ MayInterrupt
  /\ pending' = FALSE
  /\ hpc' = "wait"
  /\ restartSlave' = FALSE
  /\ signalEnd' = FALSE
  /\ UNCHANGED <<conf, status, mainVars, registered, ended, relaunch, child,
                 forks, changes, history>>

\* The handler returns, its variables are gone.
HandlerReturns == /\ hpc' = "none"
                  /\ ended' = NoCampaign
                  /\ restartSlave' = FALSE
                  /\ signalEnd' = FALSE

\* waitpid() has nothing to return.
NoneToReap ==
  /\ hpc = "wait"
  /\ Zombies = {}
  /\ HandlerReturns
  /\ UNCHANGED <<conf, status, mainVars, registered, relaunch, children,
                 changes, history>>

\* waitpid() returned p.  Whether p or one reaped before it asked for a restart.
Reap(p)     == hpc = "wait" /\ p \in Zombies
MustRestart(p) == restartSlave \/ (conf.restarts /\ child[p].end = "again")

\* p is a slave that is to be restarted.  The handler returns, whatever other
\* children have ended.
RestartSlave(p) ==
  /\ Reap(p)
  /\ MustRestart(p)
  /\ \E e \in registered :
       /\ e.pid = p
       /\ \/ /\ forks < MaxForks
             /\ forks' = forks + 1
             /\ child' = [child EXCEPT ![p] = Gone,
                            ![forks + 1] = Process(e.campaign, e.slave)]
             /\ registered' = (registered \ {e})
                                \cup {Entry(forks + 1, e.campaign, e.slave)}
             /\ UNCHANGED trouble
          \/ /\ child' = [child EXCEPT ![p] = Gone]
             /\ registered' = registered \ {e}
             /\ trouble' = trouble \cup {e.campaign}
             /\ UNCHANGED forks
  /\ HandlerReturns
  /\ UNCHANGED <<conf, status, mainVars, relaunch, pending, changes,
                 finished>>

\* p is a slave that has ended.  If others are left for its campaign the
\* handler returns.  Mutants: others are not looked for; p is not erased.
NotLookedFor(e) == FALSE
OthersLeft(e)   == EntriesOf(e.campaign) # {e}
Kept(e)         == registered
Without(e)      == registered \ {e}

SlaveEnded(p) ==
  /\ Reap(p)
  /\ ~MustRestart(p)
  /\ child' = [child EXCEPT ![p] = Gone]
  /\ \E e \in registered :
       /\ e.pid = p
       /\ registered' = Without(e)
       /\ IF OthersLeft(e)
          THEN HandlerReturns
          ELSE /\ hpc' = "finish"
               /\ ended' = e.campaign
               /\ signalEnd' = TRUE
               /\ UNCHANGED restartSlave
  /\ UNCHANGED <<conf, status, mainVars, relaunch, pending, forks, changes,
                 history>>

\* p is not in g_slaveCampaigns.  The handler returns, unless a slave reaped
\* before has set signalEndOfCampaign: it then goes on without a campaign.
OtherEnded(p) ==
  /\ Reap(p)
  /\ \A e \in registered : e.pid # p
  /\ child' = [child EXCEPT ![p] = Missed]
  /\ IF signalEnd
     THEN /\ hpc' = "finish"
          /\ restartSlave' = MustRestart(p)
          /\ UNCHANGED <<ended, signalEnd>>
     ELSE HandlerReturns
  /\ UNCHANGED <<conf, status, mainVars, registered, relaunch, pending, forks,
                 changes, history>>

\* The handler needs the mutex that the statement it interrupted holds.
SelfDeadlock ==
  /\ hpc = "finish"
  /\ mpc \in {"polling", "updating"}
  /\ hpc' = "stuck"
  /\ UNCHANGED <<conf, status, mainVars, registered, ended, restartSlave,
                 signalEnd, relaunch, children, changes, history>>

\* No slave is left: the campaign is marked as sent, if there is one, and the
\* end-of-campaign command is launched.  Mutant: it is not marked.
NotMarked  == status
MarkedSent == [c \in Campaigns |-> IF c = ended THEN "Sent" ELSE status[c]]

Finish ==
  /\ hpc = "finish"
  /\ mpc \notin {"polling", "updating"}
  /\ \/ /\ status' = MarkedSent
        /\ UNCHANGED trouble
     \/ /\ ended # NoCampaign
        /\ trouble' = trouble \cup {ended}
        /\ UNCHANGED status
  /\ signalEnd' = TRUE
  /\ \/ conf.command /\ Fork(ended, Command)
     \/ UNCHANGED <<child, forks>>
  /\ hpc' = "wait"
  /\ ended' = NoCampaign
  /\ UNCHANGED <<conf, mainVars, registered, restartSlave, relaunch, pending,
                 changes, finished>>

\* More than a tenth of the recipients failed because of the API: SIGCHLD is
\* ignored, which discards a pending one, and the slaves are started again.
Reprocess ==
  /\ hpc = "finish"
  /\ mpc \notin {"polling", "updating"}
  /\ conf.apiFailures
  /\ ended # NoCampaign
  /\ signalEnd' = FALSE
  /\ pending' = FALSE
  /\ relaunch' = 0
  /\ hpc' = "reprocess"
  /\ finished' = {f \in finished : f[1] # ended}
  /\ UNCHANGED <<conf, status, mainVars, registered, ended, restartSlave,
                 child, forks, changes, trouble>>

\* startCampaign() in the handler; SIGCHLD is caught again when it is done.
RelaunchSlave ==
  /\ hpc = "reprocess"
  /\ relaunch \in Slaves
  /\ relaunch' = relaunch + 1
  /\ \/ /\ Fork(ended, relaunch)
        /\ registered' = registered \cup {Entry(forks + 1, ended, relaunch)}
        /\ UNCHANGED trouble
     \/ /\ trouble' = trouble \cup {ended}
        /\ UNCHANGED <<registered, child, forks>>
  /\ UNCHANGED <<conf, status, mainVars, hpc, ended, restartSlave, signalEnd,
                 pending, changes, finished>>

AllRelaunched ==
  /\ hpc = "reprocess"
  /\ relaunch \notin Slaves
  /\ hpc' = "wait"
  /\ ended' = NoCampaign
  /\ relaunch' = 0
  /\ UNCHANGED <<conf, status, mainVars, registered, restartSlave, signalEnd,
                 children, changes, history>>
----------------------------------------------------------------------------
\* A child ends.  SIGCHLD becomes pending, unless it is being ignored: the
\* child is then reaped by the kernel and nobody hears of it.
Exit(p) ==
  /\ p \in Running
  /\ \E end \in {"done", "again", "failed"} :
       LET c == child[p].campaign
           s == child[p].slave IN
       /\ child' = [child EXCEPT ![p] = IF hpc = "reprocess" THEN Missed
                      ELSE [child[p] EXCEPT !.state = "zombie", !.end = end]]
       /\ finished' = IF end = "done" /\ s # Command
                      THEN finished \cup {<<c, s>>} ELSE finished
       /\ trouble' = IF s # Command /\ (end = "failed" \/
                                        (end = "again" /\ ~conf.restarts))
                     THEN trouble \cup {c} ELSE trouble
  /\ pending' = (hpc # "reprocess")
  /\ UNCHANGED <<conf, status, mainVars, registered, handlerVars, forks,
                 changes>>

\* A user makes a campaign ready (again), through the Web API.
MakeReady(c) ==
  /\ changes < MaxChanges
  /\ changes' = changes + 1
  /\ status' = [status EXCEPT ![c] = "Ready"]
  /\ UNCHANGED <<conf, mainVars, registered, handlerVars, children, history>>

MainStep == \/ Poll \/ GotReady \/ GotTemporaryFailures \/ CheckSlaves
            \/ UpdateCampaign \/ LaunchSlave \/ InsertSlave \/ AllStarted
            \/ WakeUp

HandlerStep == \/ Deliver \/ NoneToReap
               \/ \E p \in Pids : RestartSlave(p) \/ SlaveEnded(p) \/ OtherEnded(p)
               \/ SelfDeadlock \/ Finish
               \/ Reprocess \/ RelaunchSlave \/ AllRelaunched

Next == \/ MainStep \/ HandlerStep
        \/ \E p \in Pids : Exit(p)
        \/ \E c \in Campaigns : MakeReady(c)

Spec == Init /\ [][Next]_vars

\* The daemon runs, signals are delivered, and every slave ends.
FairSpec == /\ Spec
            /\ WF_vars(MainStep)
            /\ WF_vars(HandlerStep)
            /\ \A p \in Pids : WF_vars(Exit(p))
----------------------------------------------------------------------------
(***************************************************************************)
(* Properties                                                              *)
(***************************************************************************)

\* Every variable keeps its type.
TypeOK ==
  /\ conf \in Configs
  /\ status \in [Campaigns -> {"Ready", "Sending", "Resending", "Sent"}]
  /\ mpc \in {"poll", "polling", "check", "updating", "start", "insert", "sleep"}
  /\ campaign \in Campaigns \cup {NoCampaign}
  /\ retrying \in BOOLEAN
  /\ nextSlave \in 0..MaxSlaves
  /\ forkedPid \in Pids \cup {NoPid}
  /\ iterations \in 0..ResendEvery
  /\ registered \subseteq [pid : Pids, campaign : Campaigns, slave : 0..MaxSlaves - 1]
  /\ hpc \in {"none", "wait", "finish", "reprocess", "stuck"}
  /\ ended \in Campaigns \cup {NoCampaign}
  /\ {restartSlave, signalEnd, pending} \subseteq BOOLEAN
  /\ relaunch \in 0..MaxSlaves
  /\ child \in [Pids -> [state : {"none", "running", "zombie", "gone", "missed"},
                        campaign : Campaigns \cup {NoCampaign},
                        slave : Command..MaxSlaves - 1,
                        end : {"done", "again", "failed"}]]
  /\ forks \in 0..MaxForks
  /\ changes \in 0..MaxChanges
  /\ finished \subseteq Campaigns \X (0..MaxSlaves - 1)
  /\ trouble \subseteq Campaigns

\* Two processes never run with the same campaign and slave ID, which would
\* send to the same domains.  A campaign reprocessed by a handler that
\* interrupted its start is the exception.
OneProcessPerSlave ==
  ~(conf.async /\ conf.apiFailures) =>
    \A p, q \in Running :
      /\ p # q
      /\ child[p].slave # Command
      /\ child[p].slave = child[q].slave
      => child[p].campaign # child[q].campaign

\* Every entry of g_slaveCampaigns is a process that still has to be waited for,
\* or one that was missed: reaped between its launch and its insertion, by a
\* handler that interrupted runMaster() there, or while SIGCHLD was ignored.
\* Nothing else leaves an entry behind, however slaves end and are restarted.
NoStaleEntry ==
  \A e \in registered :
    \/ e.pid \in Running \cup Zombies
    \/ child[e.pid].state = "missed" /\ (conf.async \/ conf.apiFailures)

\* With a handler that only interrupts the sleep of runMaster(), a campaign is
\* marked as sent only when all of its slaves have served their part of it, or
\* something went wrong with one.
AllServed(c) == c \in trouble \/ \A s \in Slaves : <<c, s>> \in finished

SentMeansServed ==
  [][~conf.async => \A c \in Campaigns :
       status[c] # "Sent" /\ status'[c] = "Sent" => AllServed(c)]_vars

\* The slaves that run, and what they work on.
AtWork == {Entry(p, child[p].campaign, child[p].slave) :
             p \in {q \in Running : child[q].slave # Command}}

Life == INSTANCE CampaignLife WITH
  slaves <- Slaves, calm <- ~conf.async,
  oneEach <- ~(conf.async /\ conf.apiFailures), at <- AtWork

\* What becomes of the campaigns is what CampaignLife allows: work on a campaign
\* is begun when none of its slaves runs, a slave has one process at a time however
\* it is restarted or reprocessed, and a campaign is marked as sent, or done again,
\* when none of its slaves runs and each has served its part of it.
CampaignsLife == Life!CampaignLifeSpec

\* A ready campaign is sent in the end, when it has one slave, nothing is
\* restarted or reprocessed, no command is configured, and neither this
\* campaign nor another that comes before it fails.
Simple == conf.slaves = 1 /\ ~conf.async /\ ~conf.command /\ ~conf.restarts
          /\ ~conf.apiFailures

ReadyIsSent ==
  \A c \in Campaigns :
    Simple /\ status[c] = "Ready" ~> status[c] = "Sent" \/ trouble # {}

\* "Better let the daemon set campaigns status to Sent, once all slaves are
\* done" (ChangeLog-previous:2014), wherever the handler interrupts runMaster().
SentOnceAllDone ==
  [][\A c \in Campaigns :
       status[c] # "Sent" /\ status'[c] = "Sent" => AllServed(c)]_vars
=============================================================================
