--------------------------- MODULE MCServerCycle ---------------------------
\* Servers of three priorities; an address is shared by names.
EXTENDS ServerCycle

MCPriority == <<10, 10, 20, 30>>
MCHostsOf == <<{1, 2}, {2}, {3}, {3}>>
=============================================================================
