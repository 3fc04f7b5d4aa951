------------------------- MODULE MCGivemailMaster -------------------------
\* GivemailMaster with up to two slaves per campaign: the configurations of
\* the runs.
EXTENDS GivemailMaster

AllConfigs == Configurations

\* One slave per campaign, and a handler that only interrupts the sleep.
SimpleConfigs == {c \in Configurations :
  c.slaves = 1 /\ ~c.async /\ ~c.command /\ ~c.restarts /\ ~c.apiFailures}

\* Slaves are processes, two of them (threaded is NO in the configuration file),
\* and the daemon has --restart-slaves, with which scripts/givemaild starts it.
ProcessesConfigs == {c \in Configurations :
  c.slaves = MaxSlaves /\ c.restarts /\ ~c.command /\ ~c.apiFailures}
=============================================================================
