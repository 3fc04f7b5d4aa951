----------------------------- MODULE MCMailing -----------------------------
\* Recipients on the internal domain, on another, and with no domain at all.
EXTENDS Mailing

MCRecipients == {"r1", "r2", "r3"}
MCDomainOf == [r \in MCRecipients |->
  CASE r = "r1" -> "in" [] r = "r2" -> "out" [] OTHER -> ""]
MCRow(to, cc, bcc) ==
  [campaign |-> TRUE, attachment |-> TRUE, to |-> to, cc |-> cc, bcc |-> bcc]
MCRows ==
  {MCRow({"r1"}, {"r2"}, {"r1"}), MCRow({"r2"}, {}, {"r3"}), MCRow({}, {}, {}),
   [MCRow({"r1"}, {}, {}) EXCEPT !.campaign = FALSE]}
\* Where the relay is the internal domain, or has no internal domain beside it,
\* recipients are left out (see the README).
MCConfigurations ==
  [threaded : BOOLEAN, relay : {""}, internal : {"in"}]
    \cup [threaded : {TRUE}, relay : {"relay", "out"}, internal : {"in"}]
=============================================================================
