---------------------------- MODULE MCPartition ----------------------------
\* Five recipients: two on each of two domains, and one without a domain.
EXTENDS Partition

MCRecipients == 1..5
MCDomainOf == <<"in", "out", "out", "", "in">>
MCConfigurations ==
  {[relay |-> "", internal |-> ""], [relay |-> "relay", internal |-> "in"],
   [relay |-> "in", internal |-> "in"], [relay |-> "out", internal |-> "in"]}
=============================================================================
