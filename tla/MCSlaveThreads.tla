------------------------- MODULE MCSlaveThreads -------------------------
\* SlaveThreads with three domains for two workers: one domain is left over
\* for the main thread.
EXTENDS SlaveThreads
=============================================================================
