---------------------------- MODULE MCCampaignStore ----------------------------
\* Two processes of the Web API over two campaigns, one of which may have yet
\* to be created.
EXTENDS CampaignStoreProofs, TLC

CONSTANTS w1, w2

Entries(a, b) == <<[address |-> a, status |-> "Waiting"], [address |-> b, status |-> "Sent"]>>

MCRequests ==
  { [op |-> "createCampaign", message |-> TRUE, files |-> TRUE, status |-> "Ready"],
    [op |-> "createRecipients", campaign |-> 1, entries |-> Entries(1, 2)],
    [op |-> "createRecipients", campaign |-> 2, entries |-> Entries(1, 1)],
    [op |-> "import", campaign |-> 2, source |-> 1, status |-> None],
    [op |-> "import", campaign |-> 1, source |-> 2, status |-> "Waiting"],
    [op |-> "setCampaign", campaign |-> 1, message |-> TRUE, files |-> TRUE, status |-> None],
    [op |-> "setCampaign", campaign |-> 2, message |-> FALSE, files |-> FALSE, status |-> "Ready"],
    [op |-> "setRecipient", id |-> 1, address |-> 2, status |-> None],
    [op |-> "setStatuses", campaign |-> 1, status |-> "Waiting", current |-> "Sent"],
    [op |-> "deleteCampaign", campaign |-> 1],
    [op |-> "deleteRecipients", campaign |-> 1, status |-> "Waiting"],
    [op |-> "deleteRecipient", id |-> 1] }

WorkerSymmetry == Permutations({w1, w2})
=============================================================================
