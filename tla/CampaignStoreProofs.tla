------------------------ MODULE CampaignStoreProofs ------------------------
(***************************************************************************)
(* What the tables keep to for any number of campaigns, recipients,        *)
(* processes of the Web API, requests and faults:                          *)
(*  - NoOrphans: however requests overlap and wherever they are cut short, *)
(*    what is left of a deleted campaign was inserted too late or could    *)
(*    not be deleted;                                                      *)
(*  - TypeOK, UniqueAddresses and NoStrayFields, from the invariant IInv;  *)
(*  - ImportComplete, from IInv and what is known of a copy under way.     *)
(***************************************************************************)
EXTENDS CampaignStore, TLAPS, FiniteSetTheorems, WellFoundedInduction

JobFields == {"step", "op", "req", "count", "id", "campaign", "todo", "wanted"}

\* The steps of a request that is not about one campaign.
Elsewhere == {"create", "setRecipient", "delRow"}

\* What the steps of a request say about it.
JobOK(j) ==
  \/ j = Idle
  \/ /\ DOMAIN j = JobFields
     /\ j.step \notin Elsewhere => j.campaign \in Campaigns
     /\ j.step \in {"delFields", "delRows"} => j.op \in {"deleteRecipients", "deleteCampaign"}
     /\ j.step \in {"delFiles", "delCampaign"} => j.op = "deleteCampaign"

\* Past the DELETE of recipients, or also that of attachments.
PastRows  == {"delFiles", "delCampaign"}
PastFiles == {"delCampaign"}

Shape ==
  /\ campaign = [c \in Campaigns |-> campaign[c]]
  /\ rows = [r \in Ids |-> rows[r]]
  /\ \A r \in Ids : DOMAIN rows[r] = {"campaign", "address", "status"}
  /\ \A r \in Live : rows[r].campaign \in Campaigns
  /\ attached \subseteq Campaigns
  /\ job = [w \in Workers |-> job[w]]
  /\ \A w \in Workers : JobOK(job[w])

\* A deletion that is past a table has left nothing in it but what came late.
Swept ==
  \A w \in Busy :
    /\ job[w].step \in PastRows  =>
         \A r \in Live : rows[r].campaign = job[w].campaign => r \in late
    /\ job[w].step \in PastFiles =>
         \A c \in attached : c = job[w].campaign => c \in lateFiles

\* The inductive invariant.
StoreInv == Shape /\ Swept /\ NoOrphans
----------------------------------------------------------------------------
\* Where a request starts: never in the middle of a deletion.
LEMMA Starts ==
  ASSUME NEW q \in Requests
  PROVE  /\ FirstStep(q) \notin PastRows
         /\ FirstStep(q) \in {"delFields", "delRows"}
              => q.op \in {"deleteRecipients", "deleteCampaign"}
         /\ FirstStep(q) \notin Elsewhere => "campaign" \in DOMAIN q /\ q.campaign \in Campaigns
<1>1. q \in AllRequests
  BY RequestsAssumption
<1>2. CASE q.op = "createCampaign"
  BY <1>2 DEF FirstStep, PastRows, Elsewhere
<1>3. CASE q.op = "createRecipients"
  BY <1>1, <1>3 DEF FirstStep, PastRows, Elsewhere, AllRequests
<1>4. CASE q.op = "import"
  BY <1>1, <1>4 DEF FirstStep, PastRows, Elsewhere, AllRequests
<1>5. CASE q.op = "setCampaign"
  BY <1>1, <1>5 DEF FirstStep, PastRows, Elsewhere, AllRequests
<1>6. CASE q.op \in {"setRecipient", "deleteRecipient"}
  BY <1>6 DEF FirstStep, PastRows, Elsewhere
<1>7. CASE q.op = "setStatuses"
  BY <1>1, <1>7 DEF FirstStep, PastRows, Elsewhere, AllRequests
<1>8. CASE q.op \in {"deleteRecipients", "deleteCampaign"}
  <2>1. FirstStep(q) = "delFields"
    BY <1>8 DEF FirstStep, Deletions
  <2> QED  BY <1>1, <1>8, <2>1 DEF PastRows, Elsewhere, AllRequests
<1> QED
  BY <1>1, <1>2, <1>3, <1>4, <1>5, <1>6, <1>7, <1>8 DEF AllRequests

\* Where a deletion goes on.
LEMMA Continues ==
  ASSUME NEW w \in Workers, NextDeletion(w),
         job[w].op \in {"deleteRecipients", "deleteCampaign"},
         job[w].step \in {"delFields", "delRows", "delFiles", "delCampaign"},
         job[w].op = "deleteRecipients" => job[w].step \in {"delFields", "delRows"}
  PROVE  \/ job[w].step = "delFields" /\ Go(w, "delRows")
         \/ job[w].step = "delRows" /\ job[w].op = "deleteCampaign" /\ Go(w, "delFiles")
         \/ job[w].step = "delFiles" /\ Go(w, "delCampaign")
         \/ (job[w].step = "delCampaign" \/ job[w].op = "deleteRecipients") /\ Done(w)
<1> DEFINE order == Deletions(job[w].op)
           i == CHOOSE j \in DOMAIN order : order[j] = job[w].step
<1>1. IF i = Len(order) THEN Done(w) ELSE Go(w, order[i + 1])
  BY DEF NextDeletion
<1>2. CASE job[w].op = "deleteRecipients"
  <2>1. order = <<"delFields", "delRows">>
    BY <1>2 DEF Deletions
  <2>2. Len(order) = 2 /\ DOMAIN order = 1..2 /\ order[1] = "delFields" /\ order[2] = "delRows"
    BY <2>1
  <2>3. /\ job[w].step = "delFields" => i = 1
        /\ job[w].step = "delRows" => i = 2
    BY <2>2
  <2> QED  BY <1>1, <1>2, <2>2, <2>3
<1>3. CASE job[w].op = "deleteCampaign"
  <2>1. order = <<"delFields", "delRows", "delFiles", "delCampaign">>
    BY <1>3 DEF Deletions
  <2>2. /\ Len(order) = 4 /\ DOMAIN order = 1..4
        /\ order[1] = "delFields" /\ order[2] = "delRows"
        /\ order[3] = "delFiles" /\ order[4] = "delCampaign"
    BY <2>1
  <2>3. /\ job[w].step = "delFields" => i = 1
        /\ job[w].step = "delRows" => i = 2
        /\ job[w].step = "delFiles" => i = 3
        /\ job[w].step = "delCampaign" => i = 4
    BY <2>2
  <2> QED  BY <1>1, <1>3, <2>2, <2>3
<1> QED  BY <1>2, <1>3
----------------------------------------------------------------------------
\* A step that inserts nothing and deletes no campaign, of a worker that does
\* not get past a table.
LEMMA Harmless ==
  ASSUME StoreInv, NEW w \in Workers, NEW j,
         job' = [job EXCEPT ![w] = j], JobOK(j),
         j = Idle \/ j.step \notin PastRows,
         campaign' = campaign, attached' \subseteq attached,
         rows' = [r \in Ids |-> rows'[r]],
         \A r \in Ids : DOMAIN rows'[r] = {"campaign", "address", "status"},
         \A r \in Live' : r \in Live /\ rows'[r].campaign = rows[r].campaign,
         late \subseteq late', lateFiles \subseteq lateFiles'
  PROVE  StoreInv'
<1>1. Shape'
  BY DEF StoreInv, Shape
<1>2. \A v \in Busy' : v # w \/ job'[v].step \notin PastRows
  BY DEF StoreInv, Shape, Busy
<1>3. \A v \in Workers \ {w} : job'[v] = job[v]
  BY DEF StoreInv, Shape
<1>4. Swept'
  <2> SUFFICES ASSUME NEW v \in Busy'
               PROVE  /\ job'[v].step \in PastRows =>
                           \A r \in Live' : rows'[r].campaign = job'[v].campaign => r \in late'
                      /\ job'[v].step \in PastFiles =>
                           \A c \in attached' : c = job'[v].campaign => c \in lateFiles'
    BY DEF Swept
  <2>1. CASE v = w
    BY <1>2, <2>1 DEF PastRows, PastFiles
  <2>2. CASE v # w
    BY <1>3, <2>2 DEF Busy, StoreInv, Swept
  <2> QED  BY <2>1, <2>2
<1>5. NoOrphans'
  BY DEF StoreInv, NoOrphans
<1> QED  BY <1>1, <1>4, <1>5 DEF StoreInv

\* A step that leaves rows and history alone.
LEMMA Quiet ==
  ASSUME StoreInv, NEW w \in Workers, job' = [job EXCEPT ![w] = job'[w]], JobOK(job'[w]),
         job'[w] = Idle \/ job'[w].step \notin PastRows,
         campaign' = campaign, rows' = rows, attached' \subseteq attached,
         late' = late, lateFiles' = lateFiles
  PROVE  StoreInv'
<1>1. /\ rows' = [r \in Ids |-> rows'[r]]
      /\ \A r \in Ids : DOMAIN rows'[r] = {"campaign", "address", "status"}
      /\ \A r \in Live' : r \in Live /\ rows'[r].campaign = rows[r].campaign
  BY DEF StoreInv, Shape, Live
<1> QED  BY <1>1, Harmless

\* A worker that is done.
LEMMA Finishes ==
  ASSUME StoreInv, NEW w \in Workers, Done(w)
  PROVE  job' = [job EXCEPT ![w] = job'[w]] /\ JobOK(job'[w]) /\ job'[w] = Idle
BY DEF Done, JobOK, StoreInv, Shape

\* A worker that goes on with the same request about the same campaign.
LEMMA GoesOn ==
  ASSUME StoreInv, NEW w \in Workers, NEW t, job[w] # Idle, Go(w, t)
  PROVE  /\ job' = [job EXCEPT ![w] = job'[w]]
         /\ job'[w] # Idle /\ DOMAIN job'[w] = JobFields /\ job'[w].step = t
         /\ job'[w].op = job[w].op /\ job'[w].campaign = job[w].campaign
BY DEF Go, JobOK, JobFields, StoreInv, Shape, Idle

\* A worker that goes on with the next recipient, or is done.
LEMMA GoesToNext ==
  ASSUME StoreInv, NEW w \in Workers, job[w] # Idle, job[w].step \notin Elsewhere, NextEntry(w)
  PROVE  /\ job' = [job EXCEPT ![w] = job'[w]] /\ JobOK(job'[w])
         /\ job'[w] = Idle \/ job'[w].step \notin PastRows
<1>1. JobOK(job[w]) /\ w \in DOMAIN job /\ job = [v \in Workers |-> job[v]]
  BY DEF StoreInv, Shape
<1>2. CASE AfterEntry(Tail(job[w].todo)) = "idle"
  BY <1>1, <1>2 DEF NextEntry, JobOK
<1>3. CASE AfterEntry(Tail(job[w].todo)) # "idle"
  <2>1. AfterEntry(Tail(job[w].todo)) = "look"
    BY <1>3 DEF AfterEntry
  <2>2. /\ job' = [job EXCEPT ![w] = job'[w]]
        /\ DOMAIN job'[w] = JobFields /\ job'[w].step = "look"
        /\ job'[w].campaign = job[w].campaign
    BY <1>1, <2>1 DEF NextEntry, JobOK, JobFields
  <2> QED  BY <1>1, <2>2 DEF JobOK, Elsewhere, PastRows
<1> QED  BY <1>2, <1>3
----------------------------------------------------------------------------
\* The requests that create recipients.
LEMMA BeginOK ==
  ASSUME StoreInv, NEW w \in Workers, NEW q \in Requests, Begin(w, q)
  PROVE  StoreInv'
<1>1. job' = [job EXCEPT ![w] = job'[w]] /\ w \in DOMAIN job
  BY DEF Begin, StoreInv, Shape
<1>2. CASE Refused(q)
  <2>1. job'[w] = Idle
    BY <1>1, <1>2 DEF Begin
  <2> QED  BY <1>1, <2>1, Quiet DEF Begin, JobOK, tables, history
<1>3. CASE ~Refused(q)
  <2>1. /\ DOMAIN job'[w] = JobFields
        /\ job'[w].step = FirstStep(q) /\ job'[w].op = q.op
        /\ "campaign" \in DOMAIN q => job'[w].campaign = q.campaign
    BY <1>1, <1>3 DEF Begin, JobFields
  <2>2. JobOK(job'[w]) /\ job'[w].step \notin PastRows
    BY <2>1, Starts DEF JobOK, PastRows
  <2> QED  BY <1>1, <2>2, Quiet DEF Begin, tables, history
<1> QED  BY <1>2, <1>3

LEMMA CrashOK ==
  ASSUME StoreInv, NEW w \in Workers, Crash(w)
  PROVE  StoreInv'
BY Finishes, Quiet DEF Crash, tables, history

LEMMA LookOK ==
  ASSUME StoreInv, NEW w \in Workers, Look(w)
  PROVE  StoreInv'
<1>1. job[w] # Idle /\ job[w].step = "look" /\ JobOK(job[w])
  BY DEF Look, At, StoreInv, Shape
<1>2. CASE NextEntry(w)
  BY <1>1, <1>2, GoesToNext, Quiet DEF Look, tables, Elsewhere
<1>3. CASE Go(w, "insert")
  <2>1. JobOK(job'[w]) /\ job'[w].step \notin PastRows
    BY <1>1, <1>3, GoesOn DEF JobOK, Elsewhere, PastRows
  <2> QED  BY <1>1, <1>3, <2>1, GoesOn, Quiet DEF Look, tables
<1> QED  BY <1>2, <1>3 DEF Look

\* A recipient created for a campaign that is there, and that nobody deletes,
\* or is marked as late.
LEMMA InsertOK ==
  ASSUME StoreInv, NEW w \in Workers, Insert(w)
  PROVE  StoreInv'
<1>1. job[w] # Idle /\ job[w].step = "insert" /\ JobOK(job[w]) /\ w \in DOMAIN job
  BY DEF Insert, At, StoreInv, Shape
<1>2. job[w].campaign \in Campaigns /\ DOMAIN job[w] = JobFields
  BY <1>1 DEF JobOK, Elsewhere
<1>3. CASE NextEntry(w) /\ UNCHANGED <<rows, late>>
  BY <1>1, <1>3, GoesToNext, Quiet DEF Insert, Elsewhere
<1>4. CASE ~(NextEntry(w) /\ UNCHANGED <<rows, late>>)
  <2> DEFINE c == job[w].campaign
             gone == Doomed(c, {"delFiles", "delCampaign"})
  <2>1. PICK r \in Ids :
          /\ rows' = [rows EXCEPT ![r] = [campaign |-> c, address |-> Head(job[w].todo).address,
                                          status |-> Head(job[w].todo).status]]
          /\ late' = IF gone THEN late \cup {r} ELSE late
          /\ job' = [job EXCEPT ![w].step = "fields", ![w].id = r]
    BY <1>4 DEF Insert
  <2>2. /\ job' = [job EXCEPT ![w] = job'[w]]
        /\ DOMAIN job'[w] = JobFields /\ job'[w].step = "fields" /\ job'[w].campaign = c
    BY <1>1, <1>2, <2>1 DEF JobFields, StoreInv, Shape
  <2>3. JobOK(job'[w]) /\ job'[w].step \notin PastRows \cup PastFiles
    BY <1>2, <2>2 DEF JobOK, PastRows, PastFiles
  <2>4. UNCHANGED <<campaign, attached, lateFiles>>
    BY DEF Insert
  <2>5. /\ rows'[r].campaign = c /\ DOMAIN rows'[r] = {"campaign", "address", "status"}
        /\ \A q \in Ids \ {r} : rows'[q] = rows[q]
        /\ rows' = [q \in Ids |-> rows'[q]]
    BY <2>1 DEF StoreInv, Shape
  <2>6. Shape'
    BY <1>2, <2>2, <2>3, <2>4, <2>5 DEF StoreInv, Shape, Live
  <2>7. \A v \in Workers \ {w} : job'[v] = job[v]
    BY <2>1, <1>1 DEF StoreInv, Shape
  <2>8. ASSUME ~gone
        PROVE  /\ campaign[c] # None
               /\ \A v \in Busy : job[v].step \in PastRows => job[v].campaign # c
    <3>1. \A v \in Busy : job[v].step \in PastRows => job[v].op = "deleteCampaign"
      BY DEF StoreInv, Shape, JobOK, Busy, PastRows
    <3> QED  BY <2>8, <3>1 DEF Doomed, PastRows
  <2>9. Swept'
    <3> HIDE DEF gone
    <3> SUFFICES ASSUME NEW v \in Busy'
                 PROVE  /\ job'[v].step \in PastRows =>
                             \A q \in Live' : rows'[q].campaign = job'[v].campaign => q \in late'
                        /\ job'[v].step \in PastFiles =>
                             \A d \in attached' : d = job'[v].campaign => d \in lateFiles'
      BY DEF Swept
    <3>1. CASE v = w
      BY <2>3, <3>1
    <3>2. CASE v # w
      <4>1. v \in Busy /\ job'[v] = job[v]
        BY <2>7, <3>2 DEF Busy
      <4>2. ASSUME NEW q \in Live', job[v].step \in PastRows, rows'[q].campaign = job[v].campaign
            PROVE  q \in late'
        <5>1. CASE q = r
          BY <2>1, <2>5, <2>8, <4>1, <4>2, <5>1
        <5>2. CASE q # r
          BY <2>1, <2>5, <4>1, <4>2, <5>2 DEF StoreInv, Swept, Live
        <5> QED  BY <5>1, <5>2
      <4> QED  BY <2>4, <4>1, <4>2 DEF StoreInv, Swept
    <3> QED  BY <3>1, <3>2
  <2>10. NoOrphans'
    BY <2>1, <2>4, <2>5, <2>8 DEF StoreInv, NoOrphans, Live
  <2> QED  BY <2>6, <2>9, <2>10 DEF StoreInv
<1> QED  BY <1>3, <1>4

LEMMA InsertFieldsOK ==
  ASSUME StoreInv, NEW w \in Workers, InsertFields(w)
  PROVE  StoreInv'
BY GoesToNext, Quiet DEF InsertFields, At, history, Elsewhere

LEMMA CountOK ==
  ASSUME StoreInv, NEW w \in Workers, Count(w)
  PROVE  StoreInv'
<1>1. job[w] # Idle /\ job[w].step = "count" /\ JobOK(job[w]) /\ w \in DOMAIN job
  BY DEF Count, At, StoreInv, Shape
<1>2. /\ job' = [job EXCEPT ![w] = job'[w]]
      /\ DOMAIN job'[w] = JobFields /\ job'[w].step = "read"
      /\ job'[w].campaign = job[w].campaign
  BY <1>1 DEF Count, JobOK, JobFields, StoreInv, Shape
<1>3. JobOK(job'[w]) /\ job'[w].step \notin PastRows
  BY <1>1, <1>2 DEF JobOK, Elsewhere, PastRows
<1> QED  BY <1>2, <1>3, Quiet DEF Count, tables, history

LEMMA ReadOK ==
  ASSUME StoreInv, NEW w \in Workers, Read(w)
  PROVE  StoreInv'
<1>1. job[w] # Idle /\ job[w].step = "read" /\ JobOK(job[w]) /\ w \in DOMAIN job
  BY DEF Read, At, StoreInv, Shape
<1>2. CASE Done(w)
  BY <1>2, Finishes, Quiet DEF Read, tables, history
<1>3. CASE ~Done(w)
  <2>1. PICK entries : job' = [job EXCEPT ![w].step = "look", ![w].todo = entries]
    BY <1>3 DEF Read
  <2>2. /\ job' = [job EXCEPT ![w] = job'[w]]
        /\ DOMAIN job'[w] = JobFields /\ job'[w].step = "look"
        /\ job'[w].campaign = job[w].campaign
    BY <1>1, <2>1 DEF JobOK, JobFields, StoreInv, Shape
  <2>3. JobOK(job'[w]) /\ job'[w].step \notin PastRows
    BY <1>1, <2>2 DEF JobOK, Elsewhere, PastRows
  <2> QED  BY <2>2, <2>3, Quiet DEF Read, tables, history
<1> QED  BY <1>2, <1>3
----------------------------------------------------------------------------
\* The requests about a campaign.
LEMMA CreateOK ==
  ASSUME StoreInv, NEW w \in Workers, Create(w)
  PROVE  StoreInv'
<1>1. job[w] # Idle /\ JobOK(job[w]) /\ w \in DOMAIN job
  BY DEF Create, At, StoreInv, Shape
<1>2. CASE Done(w) /\ UNCHANGED campaign
  BY <1>2, Finishes, Quiet DEF Create, history
<1>3. CASE ~(Done(w) /\ UNCHANGED campaign)
  <2>1. PICK c \in Campaigns :
          /\ campaign' = [campaign EXCEPT ![c] = StatusGiven(job[w].req.status)]
          /\ job' = [job EXCEPT ![w].step = "attach", ![w].campaign = c]
    BY <1>3 DEF Create
  <2>2. /\ job' = [job EXCEPT ![w] = job'[w]]
        /\ DOMAIN job'[w] = JobFields /\ job'[w].step = "attach" /\ job'[w].campaign = c
    BY <1>1, <2>1 DEF JobOK, JobFields, StoreInv, Shape
  <2>3. JobOK(job'[w]) /\ job'[w].step \notin PastRows \cup PastFiles
    BY <2>2 DEF JobOK, PastRows, PastFiles
  <2>4. UNCHANGED <<rows, attached, late, lateFiles>>
    BY DEF Create, history
  <2>5. /\ \A v \in Workers \ {w} : job'[v] = job[v]
        /\ campaign' = [d \in Campaigns |-> campaign'[d]]
        /\ \A d \in Campaigns : campaign'[d] = None => campaign[d] = None
    BY <2>1, <1>1 DEF StoreInv, Shape, StatusGiven, None
  <2>6. Shape'
    BY <2>2, <2>3, <2>4, <2>5 DEF StoreInv, Shape, Live
  <2>7. Swept'
    BY <2>3, <2>4, <2>5 DEF StoreInv, Swept, Busy, Live
  <2>8. NoOrphans'
    BY <2>4, <2>5 DEF StoreInv, Shape, NoOrphans, Live
  <2> QED  BY <2>6, <2>7, <2>8 DEF StoreInv
<1> QED  BY <1>2, <1>3

LEMMA SetMessageOK ==
  ASSUME StoreInv, NEW w \in Workers, SetMessage(w)
  PROVE  StoreInv'
<1>1. job[w] # Idle /\ job[w].step = "message" /\ JobOK(job[w])
  BY DEF SetMessage, At, StoreInv, Shape
<1>2. PICK t \in {"detach", "update"} : Go(w, t)
  BY DEF SetMessage
<1>3. JobOK(job'[w]) /\ job'[w].step \notin PastRows
  BY <1>1, <1>2, GoesOn DEF JobOK, Elsewhere, PastRows
<1> QED  BY <1>1, <1>2, <1>3, GoesOn, Quiet DEF SetMessage, tables, history

LEMMA DetachOK ==
  ASSUME StoreInv, NEW w \in Workers, Detach(w)
  PROVE  StoreInv'
<1>1. job[w] # Idle /\ job[w].step = "detach" /\ JobOK(job[w])
  BY DEF Detach, At, StoreInv, Shape
<1>2. Go(w, "attach")
  BY DEF Detach
<1>3. JobOK(job'[w]) /\ job'[w].step \notin PastRows
  BY <1>1, <1>2, GoesOn DEF JobOK, Elsewhere, PastRows
<1> QED  BY <1>1, <1>2, <1>3, GoesOn, Quiet DEF Detach, history

\* Attachments of a campaign that is there, and that nobody is about to
\* delete, or that is marked.
LEMMA AttachOK ==
  ASSUME StoreInv, NEW w \in Workers, Attach(w)
  PROVE  StoreInv'
<1> DEFINE c == job[w].campaign
           gone == Doomed(c, {"delCampaign"})
<1>1. job[w] # Idle /\ job[w].step = "attach" /\ JobOK(job[w]) /\ c \in Campaigns
  BY DEF Attach, At, StoreInv, Shape, JobOK, Elsewhere
<1>2. /\ job' = [job EXCEPT ![w] = job'[w]] /\ JobOK(job'[w])
      /\ job'[w] = Idle \/ job'[w].step \notin PastRows \cup PastFiles
  <2>1. CASE Done(w)
    BY <2>1, Finishes
  <2>2. CASE Go(w, "update")
    BY <1>1, <2>2, GoesOn DEF JobOK, Elsewhere, PastRows, PastFiles
  <2> QED  BY <2>1, <2>2 DEF Attach
<1>3. UNCHANGED <<campaign, rows, late>>
  BY DEF Attach
<1>4. CASE UNCHANGED <<attached, lateFiles>>
  BY <1>2, <1>3, <1>4, Quiet
<1>5. CASE /\ attached' = attached \cup {c}
           /\ lateFiles' = IF gone THEN lateFiles \cup {c} ELSE lateFiles
  <2>1. \A v \in Workers \ {w} : job'[v] = job[v]
    BY <1>2 DEF StoreInv, Shape
  <2>2. Shape'
    BY <1>1, <1>2, <1>3, <1>5 DEF StoreInv, Shape, Live
  <2>3. ASSUME ~gone
        PROVE  /\ campaign[c] # None
               /\ \A v \in Busy : job[v].step \in PastFiles => job[v].campaign # c
    <3>1. \A v \in Busy : job[v].step \in PastFiles => job[v].op = "deleteCampaign"
      BY DEF StoreInv, Shape, JobOK, Busy, PastFiles
    <3> QED  BY <2>3, <3>1 DEF Doomed, PastFiles
  <2> HIDE DEF gone
  <2>4. Swept'
    <3> SUFFICES ASSUME NEW v \in Busy'
                 PROVE  /\ job'[v].step \in PastRows =>
                             \A q \in Live' : rows'[q].campaign = job'[v].campaign => q \in late'
                        /\ job'[v].step \in PastFiles =>
                             \A d \in attached' : d = job'[v].campaign => d \in lateFiles'
      BY DEF Swept
    <3>1. CASE v = w
      BY <1>2, <3>1 DEF Busy
    <3>2. CASE v # w
      <4>1. v \in Busy /\ job'[v] = job[v]
        BY <2>1, <3>2 DEF Busy
      <4> QED  BY <1>3, <1>5, <2>3, <4>1 DEF StoreInv, Swept, Live
    <3> QED  BY <3>1, <3>2
  <2>5. NoOrphans'
    BY <1>3, <1>5, <2>3 DEF StoreInv, NoOrphans, Live
  <2> QED  BY <2>2, <2>4, <2>5 DEF StoreInv
<1> QED  BY <1>4, <1>5 DEF Attach

\* A campaign that is gone does not come back with a status.
LEMMA UpdateOK ==
  ASSUME StoreInv, NEW w \in Workers, Update(w)
  PROVE  StoreInv'
<1>1. job' = [job EXCEPT ![w] = job'[w]] /\ JobOK(job'[w]) /\ job'[w] = Idle
  BY Finishes DEF Update
<1>2. UNCHANGED <<rows, attached, late, lateFiles>>
  BY DEF Update, history
<1>3. /\ campaign' = [d \in Campaigns |-> campaign'[d]]
      /\ \A d \in Campaigns : campaign'[d] = None => campaign[d] = None
  BY DEF Update, StoreInv, Shape, StatusGiven, None
<1>4. \A v \in Workers \ {w} : job'[v] = job[v]
  BY <1>1 DEF StoreInv, Shape
<1>5. Shape'
  BY <1>1, <1>2, <1>3 DEF StoreInv, Shape, Live
<1>6. Swept'
  BY <1>1, <1>2, <1>4 DEF StoreInv, Swept, Busy, Live
<1>7. NoOrphans'
  BY <1>2, <1>3 DEF StoreInv, Shape, NoOrphans, Live
<1> QED  BY <1>5, <1>6, <1>7 DEF StoreInv
----------------------------------------------------------------------------
\* Changes of rows.
LEMMA SetRecipientOK ==
  ASSUME StoreInv, NEW w \in Workers, SetRecipient(w)
  PROVE  StoreInv'
<1>1. job' = [job EXCEPT ![w] = job'[w]] /\ JobOK(job'[w]) /\ job'[w] = Idle
  BY Finishes DEF SetRecipient
<1>2. UNCHANGED <<campaign, attached, late, lateFiles>>
  BY DEF SetRecipient
<1>3. /\ rows' = [r \in Ids |-> rows'[r]]
      /\ \A r \in Ids : /\ DOMAIN rows'[r] = {"campaign", "address", "status"}
                        /\ rows'[r].campaign = rows[r].campaign
                        /\ rows[r] = NoRow => rows'[r] = NoRow
  <2>1. /\ rows' = [r \in Ids |-> rows'[r]]
        /\ \A r \in Ids : \/ rows'[r] = rows[r]
                          \/ rows[r] # NoRow /\ rows'[r] = Changed(rows[r], job[w].req)
    <3>1. CASE UNCHANGED rows
      BY <3>1 DEF StoreInv, Shape
    <3>2. CASE rows' = [r \in Ids |-> IF r \in Live \cap {job[w].req.id}
                                     THEN Changed(rows[r], job[w].req) ELSE rows[r]]
      BY <3>2 DEF Live
    <3> QED  BY <3>1, <3>2 DEF SetRecipient
  <2>2. ASSUME NEW row, NEW q, DOMAIN row = {"campaign", "address", "status"}
        PROVE  /\ DOMAIN Changed(row, q) = {"campaign", "address", "status"}
               /\ Changed(row, q).campaign = row.campaign
    BY <2>2 DEF Changed
  <2>3. ASSUME NEW r \in Ids
        PROVE  /\ DOMAIN rows'[r] = {"campaign", "address", "status"}
               /\ rows'[r].campaign = rows[r].campaign
               /\ rows[r] = NoRow => rows'[r] = NoRow
    <3>1. DOMAIN rows[r] = {"campaign", "address", "status"}
      BY DEF StoreInv, Shape
    <3>2. CASE rows'[r] = rows[r]
      BY <3>1, <3>2
    <3>3. CASE rows[r] # NoRow /\ rows'[r] = Changed(rows[r], job[w].req)
      BY <2>2, <3>1, <3>3
    <3> QED  BY <2>1, <3>2, <3>3
  <2> QED  BY <2>1, <2>3
<1> QED  BY <1>1, <1>2, <1>3, Harmless DEF Live

LEMMA SetStatusesOK ==
  ASSUME StoreInv, NEW w \in Workers, SetStatuses(w)
  PROVE  StoreInv'
<1>1. job' = [job EXCEPT ![w] = job'[w]] /\ JobOK(job'[w]) /\ job'[w] = Idle
  BY Finishes DEF SetStatuses
<1>2. UNCHANGED <<campaign, attached, late, lateFiles>>
  BY DEF SetStatuses, history
<1>3. /\ rows' = [r \in Ids |-> rows'[r]]
      /\ \A r \in Ids : /\ DOMAIN rows'[r] = {"campaign", "address", "status"}
                        /\ rows'[r].campaign = rows[r].campaign
                        /\ rows[r] = NoRow => rows'[r] = NoRow
  BY DEF SetStatuses, StoreInv, Shape, WithStatus, RowsOf, Live
<1> QED  BY <1>1, <1>2, <1>3, Harmless DEF Live

LEMMA SlaveUpdateOK ==
  ASSUME StoreInv, NEW r \in Ids, NEW s \in Outcomes, SlaveUpdate(r, s)
  PROVE  StoreInv'
<1>1. UNCHANGED <<campaign, attached, job, late, lateFiles>>
  BY DEF SlaveUpdate, history
<1>2. /\ rows' = [q \in Ids |-> rows'[q]]
      /\ \A q \in Ids : /\ DOMAIN rows'[q] = {"campaign", "address", "status"}
                        /\ rows'[q].campaign = rows[q].campaign
                        /\ rows[q] = NoRow => rows'[q] = NoRow
  BY DEF SlaveUpdate, StoreInv, Shape, RowsOf, Live
<1>3. Shape'
  BY <1>1, <1>2 DEF StoreInv, Shape, Live
<1>4. Swept'
  BY <1>1, <1>2 DEF StoreInv, Swept, Busy, Live
<1>5. NoOrphans'
  BY <1>1, <1>2 DEF StoreInv, NoOrphans, Live
<1> QED  BY <1>3, <1>4, <1>5 DEF StoreInv
----------------------------------------------------------------------------
\* Deletions.  What is known of a worker at one of their steps.
LEMMA Deleting ==
  ASSUME StoreInv, NEW w \in Workers, NEW s \in {"delFields", "delRows", "delFiles", "delCampaign"},
         At(w, s)
  PROVE  /\ w \in Busy /\ job[w] # Idle /\ job[w].step = s /\ DOMAIN job[w] = JobFields
         /\ job[w].campaign \in Campaigns
         /\ job[w].op \in {"deleteRecipients", "deleteCampaign"}
         /\ job[w].op = "deleteRecipients" => s \in {"delFields", "delRows"}
BY DEF At, StoreInv, Shape, JobOK, Elsewhere, Busy

LEMMA DeleteFieldsOK ==
  ASSUME StoreInv, NEW w \in Workers, DeleteFields(w)
  PROVE  StoreInv'
<1>1. At(w, "delFields")
  BY DEF DeleteFields
<1>2. Go(w, "delRows") \/ Done(w)
  BY <1>1, Deleting, Continues DEF DeleteFields
<1>3. /\ job' = [job EXCEPT ![w] = job'[w]] /\ JobOK(job'[w])
      /\ job'[w] = Idle \/ job'[w].step \notin PastRows
  <2>1. CASE Done(w)
    BY <2>1, Finishes
  <2>2. CASE Go(w, "delRows")
    BY <1>1, <2>2, Deleting, GoesOn DEF JobOK, PastRows
  <2> QED  BY <1>2, <2>1, <2>2
<1> QED  BY <1>3, Quiet DEF DeleteFields, history

\* Whether the rows are deleted or not, those that are left came late.
LEMMA DeleteRowsOK ==
  ASSUME StoreInv, NEW w \in Workers, DeleteRows(w)
  PROVE  StoreInv'
<1> DEFINE c == job[w].campaign
<1>1. At(w, "delRows") /\ w \in Busy /\ DOMAIN job[w] = JobFields /\ c \in Campaigns
  BY Deleting DEF DeleteRows
<1>2. UNCHANGED <<campaign, attached, lateFiles>>
  BY DEF DeleteRows
<1>3. /\ rows' = [r \in Ids |-> rows'[r]]
      /\ \A r \in Ids : DOMAIN rows'[r] = {"campaign", "address", "status"}
      /\ \A r \in Live' : r \in Live /\ rows'[r].campaign = rows[r].campaign
      /\ late \subseteq late'
  BY DEF DeleteRows, StoreInv, Shape, Emptied, Live, NoRow
<1>4. CASE Done(w)
  BY <1>2, <1>3, <1>4, Finishes, Harmless
<1>5. CASE job[w].op = "deleteCampaign" /\ Go(w, "delFiles")
  <2>1. /\ job' = [job EXCEPT ![w] = job'[w]] /\ job'[w] # Idle /\ DOMAIN job'[w] = JobFields
        /\ job'[w].step = "delFiles" /\ job'[w].op = "deleteCampaign" /\ job'[w].campaign = c
    BY <1>1, <1>5, GoesOn, Deleting
  <2>2. JobOK(job'[w])
    BY <1>1, <2>1 DEF JobOK
  <2>3. Shape'
    BY <1>2, <1>3, <2>1, <2>2 DEF StoreInv, Shape
  <2>4. \A r \in Live' : rows[r].campaign = c => r \in late'
    <3>1. Selected(w) = RowsOf(c)
      BY <1>5 DEF Selected, WithStatus
    <3>2. \A r \in Live : rows[r].campaign = c => r \in RowsOf(c)
      BY DEF RowsOf
    <3>3. CASE rows' = Emptied(Selected(w))
      <4>1. \A r \in RowsOf(c) : rows'[r] = NoRow
        BY <3>1, <3>3 DEF Emptied, RowsOf, Live
      <4> QED  BY <1>3, <3>2, <4>1 DEF Live
    <3>4. CASE late' = late \cup Selected(w)
      BY <1>3, <3>1, <3>2, <3>4
    <3> QED  BY <1>5, <3>3, <3>4 DEF DeleteRows
  <2>5. \A v \in Workers \ {w} : job'[v] = job[v]
    BY <2>1 DEF StoreInv, Shape
  <2>6. Swept'
    <3> SUFFICES ASSUME NEW v \in Busy'
                 PROVE  /\ job'[v].step \in PastRows =>
                             \A q \in Live' : rows'[q].campaign = job'[v].campaign => q \in late'
                        /\ job'[v].step \in PastFiles =>
                             \A d \in attached' : d = job'[v].campaign => d \in lateFiles'
      BY DEF Swept
    <3>1. CASE v = w
      BY <1>3, <2>1, <2>4, <3>1 DEF PastFiles
    <3>2. CASE v # w
      <4>1. v \in Busy /\ job'[v] = job[v]
        BY <2>5, <3>2 DEF Busy
      <4> QED  BY <1>2, <1>3, <4>1 DEF StoreInv, Swept
    <3> QED  BY <3>1, <3>2
  <2>7. NoOrphans'
    BY <1>2, <1>3 DEF StoreInv, NoOrphans
  <2> QED  BY <2>3, <2>6, <2>7 DEF StoreInv
<1>6. NextDeletion(w)
  BY DEF DeleteRows
<1> QED  BY <1>1, <1>4, <1>5, <1>6, Deleting, Continues

\* Likewise for attachments.
LEMMA DeleteFilesOK ==
  ASSUME StoreInv, NEW w \in Workers, DeleteFiles(w)
  PROVE  StoreInv'
<1> DEFINE c == job[w].campaign
<1>1. /\ At(w, "delFiles") /\ w \in Busy /\ job[w].step = "delFiles"
      /\ job[w].op = "deleteCampaign" /\ c \in Campaigns
  BY Deleting DEF DeleteFiles
<1>2. UNCHANGED <<campaign, rows, late>>
  BY DEF DeleteFiles
<1>3. /\ attached' \subseteq attached /\ lateFiles \subseteq lateFiles'
      /\ c \in attached' => c \in lateFiles'
  BY DEF DeleteFiles
<1>4. Go(w, "delCampaign")
  BY <1>1, Deleting, Continues DEF DeleteFiles
<1>5. /\ job' = [job EXCEPT ![w] = job'[w]] /\ job'[w] # Idle /\ DOMAIN job'[w] = JobFields
      /\ job'[w].step = "delCampaign" /\ job'[w].op = "deleteCampaign" /\ job'[w].campaign = c
  BY <1>1, <1>4, Deleting, GoesOn
<1>6. JobOK(job'[w])
  BY <1>1, <1>5 DEF JobOK
<1>7. Shape'
  BY <1>2, <1>3, <1>5, <1>6 DEF StoreInv, Shape, Live
<1>8. \A v \in Workers \ {w} : job'[v] = job[v]
  BY <1>5 DEF StoreInv, Shape
<1>9. Swept'
  <2> SUFFICES ASSUME NEW v \in Busy'
               PROVE  /\ job'[v].step \in PastRows =>
                           \A q \in Live' : rows'[q].campaign = job'[v].campaign => q \in late'
                      /\ job'[v].step \in PastFiles =>
                           \A d \in attached' : d = job'[v].campaign => d \in lateFiles'
    BY DEF Swept
  <2>1. CASE v = w
    BY <1>1, <1>2, <1>3, <1>5, <2>1 DEF StoreInv, Swept, PastRows, Live
  <2>2. CASE v # w
    <3>1. v \in Busy /\ job'[v] = job[v]
      BY <1>8, <2>2 DEF Busy
    <3> QED  BY <1>2, <1>3, <3>1 DEF StoreInv, Swept, Live
  <2> QED  BY <2>1, <2>2
<1>10. NoOrphans'
  BY <1>2, <1>3 DEF StoreInv, NoOrphans, Live
<1> QED  BY <1>7, <1>9, <1>10 DEF StoreInv

\* The campaign goes when nothing but what came late is left of it.
LEMMA DeleteCampaignOK ==
  ASSUME StoreInv, NEW w \in Workers, DeleteCampaign(w)
  PROVE  StoreInv'
<1> DEFINE c == job[w].campaign
<1>1. At(w, "delCampaign") /\ w \in Busy /\ job[w].step = "delCampaign" /\ c \in Campaigns
  BY Deleting DEF DeleteCampaign
<1>2. Done(w)
  BY <1>1, Deleting, Continues DEF DeleteCampaign
<1>3. job' = [job EXCEPT ![w] = job'[w]] /\ JobOK(job'[w]) /\ job'[w] = Idle
  BY <1>2, Finishes
<1>4. UNCHANGED <<rows, attached, late, lateFiles>>
  BY DEF DeleteCampaign, history
<1>5. /\ campaign' = [d \in Campaigns |-> campaign'[d]]
      /\ \A d \in Campaigns \ {c} : campaign'[d] = campaign[d]
  BY DEF DeleteCampaign, StoreInv, Shape
<1>6. \A v \in Workers \ {w} : job'[v] = job[v]
  BY <1>3 DEF StoreInv, Shape
<1>7. Shape'
  BY <1>3, <1>4, <1>5 DEF StoreInv, Shape, Live
<1>8. Swept'
  BY <1>3, <1>4, <1>6 DEF StoreInv, Swept, Busy, Live
<1>9. /\ \A r \in Live : rows[r].campaign = c => r \in late
      /\ c \in attached => c \in lateFiles
  BY <1>1 DEF StoreInv, Swept, PastRows, PastFiles
<1>10. NoOrphans'
  BY <1>4, <1>5, <1>9 DEF StoreInv, Shape, NoOrphans, Live
<1> QED  BY <1>7, <1>8, <1>10 DEF StoreInv

LEMMA DeleteRowOK ==
  ASSUME StoreInv, NEW w \in Workers, DeleteRow(w)
  PROVE  StoreInv'
<1>1. job' = [job EXCEPT ![w] = job'[w]] /\ JobOK(job'[w]) /\ job'[w] = Idle
  BY Finishes DEF DeleteRow
<1>2. UNCHANGED <<campaign, attached, late, lateFiles>>
  BY DEF DeleteRow
<1>3. /\ rows' = [r \in Ids |-> rows'[r]]
      /\ \A r \in Ids : DOMAIN rows'[r] = {"campaign", "address", "status"}
      /\ \A r \in Live' : r \in Live /\ rows'[r].campaign = rows[r].campaign
  BY DEF DeleteRow, StoreInv, Shape, Emptied, Live, NoRow
<1> QED  BY <1>1, <1>2, <1>3, Harmless
----------------------------------------------------------------------------
LEMMA InitOK == Init => StoreInv
<1> SUFFICES ASSUME Init PROVE StoreInv
  OBVIOUS
<1>1. known \subseteq Campaigns
  BY StoreAssumption DEF Init, Campaigns
<1>2. PICK of \in [used -> known], at \in [used -> Addresses] :
        rows = [r \in Ids |->
          IF r \in used THEN [campaign |-> of[r], address |-> at[r],
                              status |-> IF r = 1 THEN "Sent" ELSE "Waiting"]
          ELSE NoRow]
  BY DEF Init
<1>3. /\ campaign = [d \in Campaigns |-> campaign[d]]
      /\ \A d \in known : campaign[d] # None
  BY <1>1 DEF Init, None
<1>4. \A r \in Live : rows[r].campaign \in known
  BY <1>2 DEF Live
<1>5. \A r \in Ids : DOMAIN rows[r] = {"campaign", "address", "status"}
  BY <1>2 DEF NoRow
<1>6. Shape
  BY <1>1, <1>2, <1>3, <1>4, <1>5 DEF Init, Shape, JobOK
<1>7. Swept /\ NoOrphans
  BY <1>3, <1>4 DEF Init, Swept, NoOrphans, Busy
<1> QED  BY <1>6, <1>7 DEF StoreInv

\* Every step preserves the invariant.
LEMMA StepOK == StoreInv /\ [Next]_vars => StoreInv'
<1> SUFFICES ASSUME StoreInv, [Next]_vars PROVE StoreInv'
  OBVIOUS
<1>1. CASE UNCHANGED vars
  BY <1>1 DEF vars, tables, history, StoreInv, Shape, Swept, NoOrphans, Busy, Live
<1>2. ASSUME NEW w \in Workers, Step(w)
      PROVE  StoreInv'
  BY <1>2, LookOK, InsertOK, InsertFieldsOK, CountOK, ReadOK, CreateOK, SetMessageOK,
     DetachOK, AttachOK, UpdateOK, SetRecipientOK, SetStatusesOK, DeleteFieldsOK,
     DeleteRowsOK, DeleteFilesOK, DeleteCampaignOK, DeleteRowOK DEF Step
<1>3. ASSUME NEW w \in Workers, Crash(w) \/ \E q \in Requests : Begin(w, q)
      PROVE  StoreInv'
  BY <1>3, CrashOK, BeginOK
<1> QED  BY <1>1, <1>2, <1>3, SlaveUpdateOK DEF Next

\* The inductive invariant holds throughout: rows of deleteCampaign()'s campaign
\* are gone from each table it is past, but those that came late.
THEOREM StoreInvariance == Spec => []StoreInv
BY InitOK, StepOK, PTL DEF Spec

\* However requests to create, copy, change and delete overlap, fail and are
\* cut short, a deleted campaign has left no recipients and no attachments
\* but those inserted too late or not reached by a failed DELETE.
THEOREM NothingLeftBehind == Spec => []NoOrphans
<1>1. StoreInv => NoOrphans
  BY DEF StoreInv
<1> QED  BY <1>1, StoreInvariance, PTL
----------------------------------------------------------------------------
(***************************************************************************)
(* Types, addresses and custom fields.                                     *)
(***************************************************************************)

\* Which requests have which steps.
Fits(op, step) ==
  /\ step \in {"look", "insert", "fields"}    => op \in {"createRecipients", "import"}
  /\ step \in {"count", "read"}               => op = "import"
  /\ step = "create"                          => op = "createCampaign"
  /\ step = "attach"                          => op \in {"createCampaign", "setCampaign"}
  /\ step \in {"message", "detach", "update"} => op = "setCampaign"
  /\ step \in {"delFields", "delRows"}        => op \in {"deleteRecipients", "deleteCampaign"}
  /\ step \in {"delFiles", "delCampaign"}     => op = "deleteCampaign"
  /\ step = "delRow"                          => op = "deleteRecipient"
  /\ step \in {"setRecipient", "setStatuses"} => op = step
Working(j) ==
  /\ j \in Job /\ j.op = j.req.op /\ Fits(j.op, j.step)
  /\ j.step \in {"look", "insert", "fields"} => j.todo # <<>>
  /\ j.step = "fields" => j.id \in Ids

Typed == TypeOK /\ \A w \in Busy : Working(job[w])

\* One request at a time.
Alone == serial => \A v, w \in Busy : v = w

\* No two recipients of a campaign have an address, and what is about to be
\* inserted does not either.
Distinct ==
  serial /\ ~blurred =>
    /\ \A r, q \in Live : rows[r].campaign = rows[q].campaign /\ rows[r].address = rows[q].address
                          => r = q
    /\ \A w \in Busy : job[w].step = "insert" =>
         Head(job[w].todo).address \notin AddressesOf(job[w].campaign)

\* Between the statements of a creation or of a deletion, custom fields belong
\* to recipients that are there, and not to those about to be deleted.
FieldsKept ==
  serial /\ ~sending /\ failures = 0 =>
    /\ fields \subseteq Live \cup alone
    /\ \A w \in Busy : /\ job[w].step = "fields" => job[w].id \in Live
                       /\ job[w].step = "delRows" => fields \cap Selected(w) = {}

IInv == StoreInv /\ Typed /\ Alone /\ Distinct /\ FieldsKept
----------------------------------------------------------------------------
\* How a request goes on: what a worker does next.
LEMMA FirstStepFits ==
  ASSUME NEW q \in Requests
  PROVE  /\ FirstStep(q) \in Steps \ {"insert", "fields", "delRows"}
         /\ q.op \in Operations /\ Fits(q.op, FirstStep(q))
         /\ FirstStep(q) = "look" => q.op = "createRecipients"
<1>1. q \in AllRequests
  BY RequestsAssumption
<1>2. CASE q.op \in {"createRecipients", "import", "createCampaign", "deleteRecipient"}
  BY <1>2 DEF FirstStep, Fits, Steps, Operations
<1>3. CASE q.op = "setCampaign"
  BY <1>1, <1>3 DEF FirstStep, Fits, Steps, Operations
<1>4. CASE q.op \in {"setRecipient", "setStatuses"}
  BY <1>4 DEF FirstStep, Fits, Steps, Operations
<1>5. CASE q.op \in {"deleteRecipients", "deleteCampaign"}
  <2>1. FirstStep(q) = "delFields"
    BY <1>5 DEF FirstStep, Deletions
  <2> QED
    BY <1>5, <2>1 DEF Fits, Steps, Operations
<1> QED
  BY <1>1, <1>2, <1>3, <1>4, <1>5 DEF AllRequests

LEMMA WorkerFacts ==
  ASSUME StoreInv, Typed, NEW w \in Workers, NEW t \in Steps, At(w, t)
  PROVE  /\ w \in Busy /\ job[w] # Idle /\ job[w].step = t
         /\ Working(job[w]) /\ JobOK(job[w]) /\ w \in DOMAIN job
BY DEF At, StoreInv, Shape, Busy, Typed

LEMMA GoWorks ==
  ASSUME StoreInv, Typed, NEW w \in Busy, NEW t \in Steps, Go(w, t), Fits(job[w].op, t),
         t \in {"look", "insert", "fields"} => job[w].todo # <<>>,
         t = "fields" => job[w].id \in Ids
  PROVE  /\ job' = [job EXCEPT ![w] = job'[w]] /\ Working(job'[w])
         /\ job'[w] = [job[w] EXCEPT !.step = t] /\ job'[w].step = t
<1>1. Working(job[w]) /\ job[w] \in Job /\ w \in DOMAIN job
  BY DEF Typed, Working, Busy, StoreInv, Shape
<1>2. job'[w] = [job[w] EXCEPT !.step = t] /\ job' = [job EXCEPT ![w] = job'[w]]
  BY <1>1 DEF Go
<1>3. job'[w] \in Job /\ job'[w].step = t
  BY <1>1, <1>2 DEF Job
<1>4. job'[w].op = job[w].op /\ job'[w].req = job[w].req /\ job'[w].todo = job[w].todo
      /\ job'[w].id = job[w].id
  BY <1>1, <1>2 DEF Job
<1> QED
  BY <1>1, <1>2, <1>3, <1>4 DEF Working

LEMMA NextEntryWorks ==
  ASSUME StoreInv, Typed, NEW w \in Busy, job[w].step \in {"look", "insert", "fields"},
         NextEntry(w)
  PROVE  /\ job' = [job EXCEPT ![w] = job'[w]]
         /\ job'[w] = Idle \/ (Working(job'[w]) /\ job'[w].step = "look")
<1>1. Working(job[w]) /\ job[w] \in Job /\ w \in DOMAIN job
  BY DEF Typed, Working, Busy, StoreInv, Shape
<1> DEFINE rest == Tail(job[w].todo)
<1>2. job[w].todo \in Seq(Entry) /\ job[w].todo # <<>>
  BY <1>1 DEF Working, Job
<1>3. rest \in Seq(Entry)
  BY <1>2
<1>4. CASE rest = <<>>
  BY <1>1, <1>4 DEF NextEntry, AfterEntry
<1>5. CASE rest # <<>>
  <2>1. AfterEntry(rest) = "look"
    BY <1>5 DEF AfterEntry
  <2>2. job'[w] = [job[w] EXCEPT !.todo = rest, !.step = "look"]
        /\ job' = [job EXCEPT ![w] = job'[w]]
    BY <1>1, <2>1 DEF NextEntry
  <2> HIDE DEF rest
  <2>3. job'[w] \in Job /\ job'[w].step = "look" /\ job'[w].todo = rest
    BY <1>1, <1>3, <2>2 DEF Job, Steps
  <2>4. job'[w].op = job[w].op /\ job'[w].req = job[w].req
    BY <1>1, <2>2 DEF Job
  <2> QED
    BY <1>1, <1>5, <2>2, <2>3, <2>4 DEF Working, Fits
<1> QED
  BY <1>4, <1>5

LEMMA DeletionWorks ==
  ASSUME StoreInv, Typed, NEW w \in Busy,
         job[w].step \in {"delFields", "delRows", "delFiles", "delCampaign"}, NextDeletion(w)
  PROVE  /\ job' = [job EXCEPT ![w] = job'[w]]
         /\ \/ job'[w] = Idle
            \/ /\ Working(job'[w])
               /\ job'[w].step \in {"delRows", "delFiles", "delCampaign"}
               /\ job'[w].step = "delRows" => job[w].step = "delFields"
<1>1. Working(job[w]) /\ w \in Workers
  BY DEF Typed, Busy
<1>2. /\ job[w].op \in {"deleteRecipients", "deleteCampaign"}
      /\ job[w].op = "deleteRecipients" => job[w].step \in {"delFields", "delRows"}
  BY <1>1 DEF Working, Fits
<1>3. CASE Done(w)
  BY <1>1, <1>3, Finishes
<1>4. CASE job[w].step = "delFields" /\ Go(w, "delRows")
  BY <1>2, <1>4, GoWorks DEF Fits, Steps
<1>5. CASE job[w].op = "deleteCampaign" /\ Go(w, "delFiles")
  BY <1>2, <1>5, GoWorks DEF Fits, Steps
<1>6. CASE job[w].step = "delFiles" /\ Go(w, "delCampaign")
  BY <1>1, <1>6, GoWorks DEF Fits, Steps, Working
<1> QED
  BY <1>1, <1>2, <1>3, <1>4, <1>5, <1>6, Continues

\* What a step makes of the worker's request, and which steps precede those that
\* the invariant is about.
Moves(w) ==
  /\ job' = [job EXCEPT ![w] = job'[w]]
  /\ \/ job'[w] = Idle
     \/ /\ Working(job'[w])
        /\ job'[w].step = "insert"  => Look(w) /\ Go(w, "insert")
        /\ job'[w].step = "fields"  => Insert(w) /\ ~NextEntry(w)
        /\ job'[w].step = "delRows" => DeleteFields(w) /\ Go(w, "delRows")

\* The map read by an import has entries.
LEMMA ByAddressEntries ==
  ASSUME Typed, NEW set \in SUBSET Live, NEW entries \in ByAddress(set)
  PROVE  entries \in Seq(Entry)
<1> DEFINE last == {r \in set : \A q \in set : rows[q].address = rows[r].address => q <= r}
           S == {[address |-> rows[r].address, status |-> rows[r].status] : r \in last}
<1>1. S \subseteq Entry
  <2>1. \A r \in last : rows[r] \in Row
    BY DEF Typed, TypeOK, Live
  <2> QED
    BY <2>1 DEF Row, Entry
<1>2. IsFiniteSet(S)
  <2> DEFINE f == [r \in last |-> [address |-> rows[r].address, status |-> rows[r].status]]
  <2>1. IsFiniteSet(last)
    <3>1. IsFiniteSet(Ids)
      BY StoreAssumption, FS_Interval DEF Ids
    <3>2. last \subseteq Ids
      BY DEF Live
    <3> QED
      BY <3>1, <3>2, FS_Subset
  <2>2. f \in Surjection(last, S)
    BY DEF Surjection
  <2> QED
    BY <2>1, <2>2, FS_Surjection
<1>3. entries \in [1..Cardinality(S) -> S]
  BY DEF ByAddress, SetToSeqs
<1>4. Cardinality(S) \in Nat
  BY <1>2, FS_CardinalityType
<1> HIDE DEF S
<1> QED
  BY <1>1, <1>3, <1>4

LEMMA CreationMoves ==
  ASSUME StoreInv, Typed, NEW w \in Workers,
         Look(w) \/ Insert(w) \/ InsertFields(w) \/ Count(w) \/ Read(w)
  PROVE  Moves(w)
<1>1. CASE Look(w)
  <2>1. w \in Busy /\ job[w].step = "look" /\ Working(job[w])
    BY <1>1, WorkerFacts DEF Look, Steps
  <2>2. CASE NextEntry(w)
    BY <2>1, <2>2, NextEntryWorks DEF Moves
  <2>3. CASE Go(w, "insert")
    BY <1>1, <2>1, <2>3, GoWorks DEF Moves, Working, Fits, Steps
  <2> QED
    BY <1>1, <2>2, <2>3 DEF Look
<1>2. CASE Insert(w)
  <2>1. w \in Busy /\ job[w].step = "insert" /\ Working(job[w]) /\ w \in DOMAIN job
    BY <1>2, WorkerFacts DEF Insert, Steps
  <2>2. CASE NextEntry(w)
    BY <2>1, <2>2, NextEntryWorks DEF Moves
  <2>3. CASE ~NextEntry(w)
    <3>1. PICK r \in Ids : job' = [job EXCEPT ![w].step = "fields", ![w].id = r]
      BY <1>2, <2>3 DEF Insert
    <3>2. /\ job' = [job EXCEPT ![w] = job'[w]]
          /\ job'[w] = [job[w] EXCEPT !.step = "fields", !.id = r]
      BY <2>1, <3>1
    <3>3. job[w] \in Job
      BY <2>1 DEF Working
    <3>4. job'[w] \in Job /\ job'[w].step = "fields" /\ job'[w].id = r
      BY <3>2, <3>3 DEF Job, Steps
    <3>5. job'[w].op = job[w].op /\ job'[w].req = job[w].req /\ job'[w].todo = job[w].todo
      BY <3>2, <3>3 DEF Job
    <3> QED
      BY <1>2, <2>1, <2>3, <3>2, <3>4, <3>5 DEF Moves, Working, Fits
  <2> QED
    BY <2>2, <2>3
<1>3. CASE InsertFields(w)
  <2>1. w \in Busy /\ job[w].step = "fields"
    BY <1>3, WorkerFacts DEF InsertFields, Steps
  <2> QED
    BY <1>3, <2>1, NextEntryWorks DEF Moves, InsertFields
<1>4. CASE Count(w)
  <2>1. w \in Busy /\ job[w].step = "count" /\ Working(job[w]) /\ w \in DOMAIN job
    BY <1>4, WorkerFacts DEF Count, Steps
  <2> DEFINE found == WithStatus(job[w].req.source, job[w].req.status)
  <2>2. /\ Cardinality(found) \in 0..NumRecipients
        /\ {rows[r].address : r \in found} \subseteq Addresses
    <3>1. found \subseteq Ids /\ found \subseteq Live
      BY DEF WithStatus, RowsOf, Live
    <3>2. IsFiniteSet(Ids) /\ Cardinality(Ids) = NumRecipients /\ NumRecipients \in Nat
      BY StoreAssumption, FS_Interval DEF Ids
    <3>3. IsFiniteSet(found) /\ Cardinality(found) <= NumRecipients
      BY <3>1, <3>2, FS_Subset
    <3>4. Cardinality(found) \in Nat
      BY <3>3, FS_CardinalityType
    <3>5. \A r \in found : rows[r] \in Row
      BY <3>1 DEF Typed, TypeOK, Live
    <3> HIDE DEF found
    <3>6. Cardinality(found) \in 0..NumRecipients
      BY <3>2, <3>3, <3>4
    <3> QED
      BY <3>5, <3>6 DEF Row
  <2> HIDE DEF found
  <2>3. PICK n \in 0..NumRecipients, a \in SUBSET Addresses :
          \/ job' = [job EXCEPT ![w].step = "read", ![w].count = n, ![w].wanted = a]
          \/ job' = [job EXCEPT ![w].step = "read", ![w].count = n]
    <3>1. 0 \in 0..NumRecipients
      BY StoreAssumption
    <3> QED
      BY <1>4, <2>2, <3>1 DEF Count, found
  <2>4. job[w] \in Job
    BY <2>1 DEF Working
  <2>5. /\ job' = [job EXCEPT ![w] = job'[w]]
        /\ \/ job'[w] = [job[w] EXCEPT !.step = "read", !.count = n, !.wanted = a]
           \/ job'[w] = [job[w] EXCEPT !.step = "read", !.count = n]
    BY <2>1, <2>3
  <2>6. job'[w] \in Job /\ job'[w].step = "read"
    BY <2>4, <2>5 DEF Job, Steps
  <2>7. job'[w].op = job[w].op /\ job'[w].req = job[w].req
    BY <2>4, <2>5 DEF Job
  <2> QED
    BY <2>1, <2>5, <2>6, <2>7 DEF Moves, Working, Fits
<1>5. CASE Read(w)
  <2>1. w \in Busy /\ job[w].step = "read" /\ Working(job[w]) /\ w \in DOMAIN job
    BY <1>5, WorkerFacts DEF Read, Steps
  <2> DEFINE found == FirstRows(job[w].count, WithStatus(job[w].req.source, job[w].req.status))
  <2>2. found \in SUBSET Live
    BY DEF FirstRows, WithStatus, RowsOf
  <2> HIDE DEF found
  <2>3. CASE Done(w)
    BY <2>3, Finishes DEF Moves
  <2>4. CASE ~Done(w)
    <3>1. PICK entries \in ByAddress(found) :
            /\ entries # <<>>
            /\ job' = [job EXCEPT ![w].step = "look", ![w].todo = entries]
      BY <1>5, <2>4 DEF Read, found
    <3>2. entries \in Seq(Entry)
      BY <2>2, ByAddressEntries
    <3>3. job[w] \in Job
      BY <2>1 DEF Working
    <3>4. /\ job' = [job EXCEPT ![w] = job'[w]]
          /\ job'[w] = [job[w] EXCEPT !.step = "look", !.todo = entries]
      BY <2>1, <3>1
    <3>5. job'[w] \in Job /\ job'[w].step = "look" /\ job'[w].todo = entries
      BY <3>2, <3>3, <3>4 DEF Job, Steps
    <3>6. job'[w].op = job[w].op /\ job'[w].req = job[w].req
      BY <3>3, <3>4 DEF Job
    <3> QED
      BY <2>1, <3>1, <3>4, <3>5, <3>6 DEF Moves, Working, Fits
  <2> QED
    BY <2>3, <2>4
<1> QED
  BY <1>1, <1>2, <1>3, <1>4, <1>5

LEMMA ChangeMoves ==
  ASSUME StoreInv, Typed, NEW w \in Workers,
         \/ Create(w) \/ SetMessage(w) \/ Detach(w) \/ Attach(w) \/ Update(w)
         \/ SetRecipient(w) \/ SetStatuses(w) \/ DeleteRow(w)
  PROVE  Moves(w)
<1>1. CASE Done(w)
  BY <1>1, Finishes DEF Moves
<1>2. CASE Create(w) /\ ~Done(w)
  <2>1. w \in Busy /\ job[w].step = "create" /\ Working(job[w]) /\ w \in DOMAIN job
    BY <1>2, WorkerFacts DEF Create, Steps
  <2>2. PICK c \in Campaigns : job' = [job EXCEPT ![w].step = "attach", ![w].campaign = c]
    BY <1>2 DEF Create
  <2>3. job[w] \in Job
    BY <2>1 DEF Working
  <2>4. /\ job' = [job EXCEPT ![w] = job'[w]]
        /\ job'[w] = [job[w] EXCEPT !.step = "attach", !.campaign = c]
    BY <2>1, <2>2
  <2>5. job'[w] \in Job /\ job'[w].step = "attach"
    BY <2>3, <2>4 DEF Job, Steps
  <2>6. job'[w].op = job[w].op /\ job'[w].req = job[w].req
    BY <2>3, <2>4 DEF Job
  <2> QED
    BY <2>1, <2>4, <2>5, <2>6 DEF Moves, Working, Fits
<1>3. CASE SetMessage(w)
  <2>1. w \in Busy /\ job[w].step = "message" /\ Working(job[w])
    BY <1>3, WorkerFacts DEF SetMessage, Steps
  <2>2. PICK t \in {"detach", "update"} : Go(w, t)
    BY <1>3 DEF SetMessage
  <2> QED
    BY <2>1, <2>2, GoWorks DEF Moves, Working, Fits, Steps
<1>4. CASE Detach(w)
  <2>1. w \in Busy /\ job[w].step = "detach" /\ Working(job[w])
    BY <1>4, WorkerFacts DEF Detach, Steps
  <2>2. Go(w, "attach")
    BY <1>4 DEF Detach
  <2> QED
    BY <2>1, <2>2, GoWorks DEF Moves, Working, Fits, Steps
<1>5. CASE Attach(w) /\ ~Done(w)
  <2>1. w \in Busy /\ job[w].step = "attach" /\ Working(job[w])
    BY <1>5, WorkerFacts DEF Attach, Steps
  <2>2. job[w].op # "createCampaign" /\ Go(w, "update")
    BY <1>5 DEF Attach
  <2> QED
    BY <2>1, <2>2, GoWorks DEF Moves, Working, Fits, Steps
<1> QED
  BY <1>1, <1>2, <1>3, <1>4, <1>5 DEF Update, SetRecipient, SetStatuses, DeleteRow

LEMMA DeletionMoves ==
  ASSUME StoreInv, Typed, NEW w \in Workers,
         DeleteFields(w) \/ DeleteRows(w) \/ DeleteFiles(w) \/ DeleteCampaign(w)
  PROVE  Moves(w)
<1>1. w \in Busy /\ job[w].step \in {"delFields", "delRows", "delFiles", "delCampaign"}
  BY WorkerFacts DEF DeleteFields, DeleteRows, DeleteFiles, DeleteCampaign, Steps
<1>2. NextDeletion(w)
  BY DEF DeleteFields, DeleteRows, DeleteFiles, DeleteCampaign
<1>3. job[w].step = "delFields" => DeleteFields(w)
  BY DEF DeleteRows, DeleteFiles, DeleteCampaign, At
<1>4. /\ job' = [job EXCEPT ![w] = job'[w]]
      /\ \/ job'[w] = Idle
         \/ /\ Working(job'[w])
            /\ job'[w].step \in {"delRows", "delFiles", "delCampaign"}
            /\ job'[w].step = "delRows" => job[w].step = "delFields"
  BY <1>1, <1>2, DeletionWorks
<1>5. job[w].step = "delFields" => Go(w, "delRows") \/ job'[w] = Idle
  <2>1. ASSUME job[w].step = "delFields" PROVE Go(w, "delRows") \/ Done(w)
    BY <1>1, <1>2, <2>1, Continues, WorkerFacts DEF Busy, Typed, Working, Fits
  <2> QED
    BY <2>1, Finishes
<1> QED
  BY <1>3, <1>4, <1>5 DEF Moves

LEMMA BeginMoves ==
  ASSUME StoreInv, Typed, NEW w \in Workers, NEW q \in Requests, Begin(w, q)
  PROVE  Moves(w)
<1>1. job' = [job EXCEPT ![w] = job'[w]] /\ w \in DOMAIN job
  BY DEF Begin, StoreInv, Shape
<1>2. CASE Refused(q)
  <2>1. job'[w] = Idle
    BY <1>1, <1>2 DEF Begin
  <2> QED
    BY <1>1, <2>1 DEF Moves
<1>3. CASE ~Refused(q)
  <2> DEFINE c == IF "campaign" \in DOMAIN q THEN q.campaign ELSE 0
             todo == IF q.op = "createRecipients" THEN q.entries ELSE <<>>
  <2>1. job'[w] = [step |-> FirstStep(q), op |-> q.op, req |-> q, count |-> 0, id |-> 0,
                   campaign |-> c, todo |-> todo, wanted |-> {}]
    BY <1>1, <1>3 DEF Begin
  <2>2. q \in AllRequests
    BY RequestsAssumption
  <2>3. todo \in Seq(Entry) /\ (q.op = "createRecipients" => todo # <<>>)
    <3>1. q.op = "createRecipients" => q.entries \in Seq(Entry)
      BY <2>2 DEF AllRequests
    <3> QED
      BY <1>3, <3>1 DEF Refused
  <2>4. c \in Campaigns \cup {0}
    BY <2>2 DEF AllRequests
  <2>5. 0 \in 0..NumRecipients
    BY StoreAssumption
  <2> HIDE DEF c, todo
  <2>6. job'[w] \in Job
    BY <2>1, <2>3, <2>4, <2>5, FirstStepFits DEF Job
  <2>7. /\ job'[w].step = FirstStep(q) /\ job'[w].op = q.op /\ job'[w].req = q
        /\ job'[w].todo = todo
    BY <2>1
  <2> QED
    BY <1>1, <2>3, <2>6, <2>7, FirstStepFits DEF Moves, Working
<1> QED
  BY <1>2, <1>3

LEMMA StepMoves ==
  ASSUME StoreInv, Typed, NEW w \in Workers,
         Step(w) \/ Crash(w) \/ \E q \in Requests : Begin(w, q)
  PROVE  Moves(w)
<1>1. CASE Crash(w)
  BY <1>1, Finishes DEF Crash, Moves
<1> QED
  BY <1>1, CreationMoves, ChangeMoves, DeletionMoves, BeginMoves DEF Step
----------------------------------------------------------------------------
\* Types.
LEMMA RowsTyped ==
  ASSUME StoreInv, Typed, [Next]_vars
  PROVE  rows' \in [Ids -> Row \cup {NoRow}]
<1>1. rows \in [Ids -> Row \cup {NoRow}] /\ \A r \in Live : rows[r] \in Row
  BY DEF Typed, TypeOK, Live
<1>2. ASSUME NEW w \in Workers, Insert(w) PROVE rows' \in [Ids -> Row \cup {NoRow}]
  <2>1. Working(job[w]) /\ JobOK(job[w]) /\ job[w].step = "insert"
    BY <1>2, WorkerFacts DEF Insert, Steps
  <2>2. job[w].campaign \in Campaigns
    BY <2>1 DEF JobOK, Elsewhere, Working, Job, Idle
  <2>3. Head(job[w].todo) \in Entry
    BY <2>1 DEF Working, Job
  <2>4. [campaign |-> job[w].campaign, address |-> Head(job[w].todo).address,
         status |-> Head(job[w].todo).status] \in Row
    BY <2>2, <2>3 DEF Entry, Row
  <2> QED
    BY <1>1, <1>2, <2>4 DEF Insert
<1>3. ASSUME NEW w \in Workers, SetRecipient(w) PROVE rows' \in [Ids -> Row \cup {NoRow}]
  <2>1. Working(job[w]) /\ job[w].step = "setRecipient"
    BY <1>3, WorkerFacts DEF SetRecipient, Steps
  <2> DEFINE q == job[w].req
  <2>2. q \in AllRequests /\ q.op = "setRecipient"
    BY <2>1, RequestsAssumption DEF Working, Job, Fits
  <2>3. q.address \in Addresses \cup {Unset} /\ q.status \in RecipientStatus \cup {None}
    BY <2>2 DEF AllRequests
  <2> HIDE DEF q
  <2>4. ASSUME NEW r \in Live PROVE Changed(rows[r], q) \in Row
    BY <1>1, <2>3 DEF Changed, Row
  <2> QED
    BY <1>1, <1>3, <2>4 DEF SetRecipient, q
<1>4. ASSUME NEW w \in Workers, SetStatuses(w) PROVE rows' \in [Ids -> Row \cup {NoRow}]
  <2>1. Working(job[w]) /\ job[w].step = "setStatuses"
    BY <1>4, WorkerFacts DEF SetStatuses, Steps
  <2> DEFINE q == job[w].req
             set == WithStatus(q.campaign, q.current)
  <2>2. q \in AllRequests /\ q.op = "setStatuses"
    BY <2>1, RequestsAssumption DEF Working, Job, Fits
  <2>3. q.status \in RecipientStatus
    BY <2>2 DEF AllRequests
  <2>4. set \subseteq Live
    BY DEF WithStatus, RowsOf
  <2> HIDE DEF q, set
  <2>5. ASSUME NEW r \in Live PROVE [rows[r] EXCEPT !.status = q.status] \in Row
    BY <1>1, <2>3 DEF Row
  <2> QED
    BY <1>1, <1>4, <2>4, <2>5 DEF SetStatuses, q, set
<1>5. ASSUME NEW r \in Ids, NEW s \in Outcomes, SlaveUpdate(r, s)
      PROVE  rows' \in [Ids -> Row \cup {NoRow}]
  <2>1. s \in RecipientStatus
    BY StoreAssumption DEF RecipientStatus
  <2>2. ASSUME NEW q \in Live PROVE [rows[q] EXCEPT !.status = s] \in Row
    BY <1>1, <2>1 DEF Row
  <2> QED
    BY <1>1, <1>5, <2>2 DEF SlaveUpdate, RowsOf
<1>6. ASSUME NEW removed, rows' = Emptied(removed) PROVE rows' \in [Ids -> Row \cup {NoRow}]
  BY <1>1, <1>6 DEF Emptied
<1>7. CASE UNCHANGED rows
  BY <1>1, <1>7
<1> QED
  BY <1>2, <1>3, <1>4, <1>5, <1>6, <1>7
     DEF Next, Step, vars, tables, history, Look, InsertFields, Count, Read, Create, SetMessage,
         Detach, Attach, Update, DeleteFields, DeleteRows, DeleteFiles, DeleteCampaign, DeleteRow,
         Crash, Begin

LEMMA CampaignsTyped ==
  ASSUME StoreInv, Typed, [Next]_vars
  PROVE  campaign' \in [Campaigns -> CampaignStatus \cup {None}] /\ known' \subseteq Campaigns
<1>1. campaign \in [Campaigns -> CampaignStatus \cup {None}] /\ known \subseteq Campaigns
  BY DEF Typed, TypeOK
<1>2. ASSUME NEW w \in Workers, Create(w)
      PROVE  campaign' \in [Campaigns -> CampaignStatus \cup {None}] /\ known' \subseteq Campaigns
  <2>1. Working(job[w]) /\ job[w].step = "create"
    BY <1>2, WorkerFacts DEF Create, Steps
  <2>2. job[w].req \in AllRequests /\ job[w].req.op = "createCampaign"
    BY <2>1, RequestsAssumption DEF Working, Job, Fits
  <2>3. StatusGiven(job[w].req.status) \in CampaignStatus
    BY <2>2 DEF AllRequests, StatusGiven, CampaignStatus
  <2> QED
    BY <1>1, <1>2, <2>3 DEF Create
<1>3. ASSUME NEW w \in Workers, Update(w)
      PROVE  campaign' \in [Campaigns -> CampaignStatus \cup {None}] /\ known' \subseteq Campaigns
  <2>1. Working(job[w]) /\ job[w].step = "update"
    BY <1>3, WorkerFacts DEF Update, Steps
  <2>2. job[w].req \in AllRequests /\ job[w].req.op = "setCampaign"
    BY <2>1, RequestsAssumption DEF Working, Job, Fits
  <2>3. StatusGiven(job[w].req.status) \in CampaignStatus
    BY <2>2 DEF AllRequests, StatusGiven, CampaignStatus
  <2> QED
    BY <1>1, <1>3, <2>3 DEF Update, ids
<1>4. ASSUME NEW w \in Workers, DeleteCampaign(w)
      PROVE  campaign' \in [Campaigns -> CampaignStatus \cup {None}] /\ known' \subseteq Campaigns
  BY <1>1, <1>4 DEF DeleteCampaign, ids
<1>5. CASE UNCHANGED <<campaign, known>>
  BY <1>1, <1>5
<1> QED
  BY <1>2, <1>3, <1>4, <1>5
     DEF Next, Step, vars, tables, ids, Look, Insert, InsertFields, Count, Read, SetMessage,
         Detach, Attach, SetRecipient, SetStatuses, DeleteFields, DeleteRows, DeleteFiles,
         DeleteRow, Crash, Begin, SlaveUpdate

\* The worker that makes a step.
LEMMA StepWorker ==
  ASSUME StoreInv, Typed, NEW w \in Workers, Step(w)
  PROVE  w \in Busy /\ Working(job[w]) /\ JobOK(job[w])
<1>1. PICK t \in Steps : At(w, t)
  BY DEF Step, Steps, Look, Insert, InsertFields, Count, Read, Create, SetMessage,
         Detach, Attach, Update, SetRecipient, SetStatuses, DeleteFields, DeleteRows,
         DeleteFiles, DeleteCampaign, DeleteRow
<1> QED
  BY <1>1, WorkerFacts

LEMMA SetsTyped ==
  ASSUME StoreInv, Typed, [Next]_vars
  PROVE  /\ fields' \subseteq Ids /\ attached' \subseteq Campaigns /\ used' \subseteq Ids
         /\ late' \subseteq Ids /\ lateFiles' \subseteq Campaigns /\ alone' \subseteq Ids
<1>1. /\ fields \subseteq Ids /\ attached \subseteq Campaigns /\ used \subseteq Ids
      /\ late \subseteq Ids /\ lateFiles \subseteq Campaigns /\ alone \subseteq Ids
  BY DEF Typed, TypeOK
<1>2. ASSUME NEW w \in Workers, Insert(w)
      PROVE  used' \subseteq Ids /\ late' \subseteq Ids
             /\ UNCHANGED <<fields, attached, lateFiles, alone>>
  BY <1>1, <1>2 DEF Insert
<1>3. ASSUME NEW w \in Workers, InsertFields(w)
      PROVE  fields' \subseteq Ids /\ UNCHANGED <<used, late, attached, lateFiles, alone>>
  <2>1. job[w].id \in Ids
    BY <1>3, WorkerFacts DEF InsertFields, Steps, Working
  <2> QED
    BY <1>1, <1>3, <2>1 DEF InsertFields, ids, history
<1>4. ASSUME NEW w \in Workers, Attach(w) \/ DeleteFiles(w)
      PROVE  /\ attached' \subseteq Campaigns /\ lateFiles' \subseteq Campaigns
             /\ UNCHANGED <<used, late, fields, alone>>
  <2>1. job[w].campaign \in Campaigns
    <3>1. JobOK(job[w]) /\ job[w] # Idle /\ job[w].step \in {"attach", "delFiles"}
      BY <1>4, WorkerFacts DEF Attach, DeleteFiles, Steps
    <3> QED
      BY <3>1 DEF JobOK, Elsewhere
  <2> QED
    BY <1>1, <1>4, <2>1 DEF Attach, DeleteFiles, ids
<1>5. ASSUME NEW w \in Workers, DeleteRows(w)
      PROVE  late' \subseteq Ids /\ UNCHANGED <<used, fields, attached, lateFiles, alone>>
  <2>1. Selected(w) \subseteq Ids
    BY DEF Selected, WithStatus, RowsOf, Live
  <2> QED
    BY <1>1, <1>5, <2>1 DEF DeleteRows, ids
<1>6. ASSUME NEW w \in Workers, DeleteRow(w)
      PROVE  alone' \subseteq Ids /\ UNCHANGED <<used, fields, attached, late, lateFiles>>
  <2>1. Working(job[w]) /\ job[w].step = "delRow"
    BY <1>6, WorkerFacts DEF DeleteRow, Steps
  <2>2. job[w].req \in AllRequests /\ job[w].req.op = "deleteRecipient"
    BY <2>1, RequestsAssumption DEF Working, Job, Fits
  <2>3. job[w].req.id \in Ids
    BY <2>2 DEF AllRequests
  <2> QED
    BY <1>1, <1>6, <2>3 DEF DeleteRow, ids
<1>7. ASSUME NEW w \in Workers, Detach(w) \/ DeleteFields(w)
      PROVE  /\ fields' \subseteq fields /\ attached' \subseteq attached
             /\ UNCHANGED <<used, late, lateFiles, alone>>
  BY <1>7 DEF Detach, DeleteFields, ids, history
<1>8. CASE UNCHANGED <<fields, attached, used, late, lateFiles, alone>>
  BY <1>1, <1>8
<1> QED
  BY <1>1, <1>2, <1>3, <1>4, <1>5, <1>6, <1>7, <1>8
     DEF Next, Step, vars, tables, ids, history, Look, Count, Read, Create, SetMessage, Update,
         SetRecipient, SetStatuses, DeleteCampaign, Crash, Begin, SlaveUpdate

\* What is bounded, and the modes.
LEMMA CountersTyped ==
  ASSUME StoreInv, Typed, [Next]_vars
  PROVE  /\ serial' = serial /\ sending' = sending /\ dated' = dated
         /\ served' \in 0..MaxRequests /\ failures' \in 0..MaxFaults /\ crashes' \in 0..MaxFaults
         /\ failures <= failures'
<1>1. /\ MaxRequests \in Nat /\ MaxFaults \in Nat
      /\ served \in 0..MaxRequests /\ failures \in 0..MaxFaults /\ crashes \in 0..MaxFaults
  BY StoreAssumption DEF Typed, TypeOK
<1>2. ASSUME NEW w \in Workers, Step(w)
      PROVE  /\ UNCHANGED <<modes, served, crashes>>
             /\ UNCHANGED failures \/ (failures + crashes < MaxFaults /\ failures' = failures + 1)
  <2> USE <1>2 DEF Step, bounds, Succeeds, Fails
  <2>1. CASE Look(w) \/ Insert(w) \/ InsertFields(w) \/ Count(w) \/ Read(w)
    BY <2>1 DEF Look, Insert, InsertFields, Count, Read
  <2>2. CASE Create(w) \/ SetMessage(w) \/ Detach(w) \/ Attach(w) \/ Update(w)
    BY <2>2 DEF Create, SetMessage, Detach, Attach, Update
  <2>3. CASE SetRecipient(w) \/ SetStatuses(w) \/ DeleteRow(w)
    BY <2>3 DEF SetRecipient, SetStatuses, DeleteRow
  <2>4. CASE DeleteFields(w) \/ DeleteRows(w) \/ DeleteFiles(w) \/ DeleteCampaign(w)
    BY <2>4 DEF DeleteFields, DeleteRows, DeleteFiles, DeleteCampaign
  <2> QED
    BY <2>1, <2>2, <2>3, <2>4
<1>3. ASSUME NEW w \in Workers, Crash(w)
      PROVE  /\ UNCHANGED <<modes, served, failures>>
             /\ failures + crashes < MaxFaults /\ crashes' = crashes + 1
  BY <1>3 DEF Crash
<1>4. ASSUME NEW w \in Workers, NEW q \in Requests, Begin(w, q)
      PROVE  UNCHANGED <<modes, crashes, failures>> /\ served < MaxRequests /\ served' = served + 1
  BY <1>4 DEF Begin
<1>5. CASE UNCHANGED <<modes, bounds, failures>>
  BY <1>1, <1>5 DEF modes, bounds
<1> QED
  BY <1>1, <1>2, <1>3, <1>4, <1>5 DEF Next, vars, modes, SlaveUpdate

LEMMA BlurredTyped ==
  ASSUME blurred \in BOOLEAN, [Next]_vars
  PROVE  blurred' \in BOOLEAN
<1>1. CASE UNCHANGED blurred
  BY <1>1, Zenon
<1>2. ASSUME NEW w \in Workers, Look(w) PROVE blurred' \in BOOLEAN
  <2>1. UNCHANGED blurred \/ blurred' = TRUE
    BY <1>2 DEF Look
  <2> QED
    BY <2>1, Zenon
<1>3. ASSUME NEW w \in Workers, SetRecipient(w) PROVE blurred' \in BOOLEAN
  <2>1. UNCHANGED blurred \/ blurred' = (blurred \/ job[w].req.address # Unset)
    BY <1>3, Zenon DEF SetRecipient
  <2> QED
    BY <2>1, Zenon
<1>4. ASSUME NEW w \in Workers, Step(w), ~Look(w), ~SetRecipient(w) PROVE UNCHANGED blurred
  BY <1>4 DEF Step, history, Insert, InsertFields, Count, Read, Create, SetMessage,
         Detach, Attach, Update, SetStatuses, DeleteFields, DeleteRows, DeleteFiles,
         DeleteCampaign, DeleteRow
<1>5. ASSUME NEW w \in Workers, Crash(w) \/ \E q \in Requests : Begin(w, q)
      PROVE  UNCHANGED blurred
  BY <1>5 DEF Crash, Begin, history
<1>6. ASSUME NEW r \in Ids, NEW s \in Outcomes, SlaveUpdate(r, s) PROVE UNCHANGED blurred
  BY <1>6 DEF SlaveUpdate, history
<1>7. CASE UNCHANGED vars
  BY <1>1, <1>7 DEF vars, history
<1> QED
  BY <1>1, <1>2, <1>3, <1>4, <1>5, <1>6, <1>7, Zenon DEF Next

LEMMA JobsTyped ==
  ASSUME StoreInv, Typed, [Next]_vars
  PROVE  \A w \in Busy' : Working(job'[w])
<1>1. \A w \in Busy : Working(job[w])
  BY DEF Typed
<1>2. ASSUME NEW w \in Workers, Moves(w) PROVE \A v \in Busy' : Working(job'[v])
  <2>1. \A v \in Workers \ {w} : job'[v] = job[v]
    BY <1>2 DEF Moves, StoreInv, Shape
  <2> QED
    BY <1>1, <1>2, <2>1 DEF Moves, Busy
<1>3. CASE job' = job
  BY <1>1, <1>3 DEF Busy
<1> QED
  BY <1>2, <1>3, StepMoves DEF Next, vars, SlaveUpdate

LEMMA TypedStep ==
  ASSUME StoreInv, Typed, [Next]_vars
  PROVE  Typed'
<1>1. serial' \in BOOLEAN /\ sending' \in BOOLEAN /\ dated' \in BOOLEAN
  BY CountersTyped, Zenon DEF Typed, TypeOK
<1>2. blurred' \in BOOLEAN
  BY BlurredTyped, Zenon DEF Typed, TypeOK
<1>3. served' \in 0..MaxRequests /\ failures' \in 0..MaxFaults /\ crashes' \in 0..MaxFaults
  BY CountersTyped
<1>4. \A w \in Busy' : Working(job'[w])
  BY JobsTyped
<1>5. \A w \in Busy' : /\ job'[w] \in Job
                       /\ job'[w].step \in {"look", "insert", "fields"} => job'[w].todo # <<>>
  BY <1>4 DEF Working
<1>6. TypeOK'
  BY <1>1, <1>2, <1>3, <1>5, RowsTyped, CampaignsTyped, SetsTyped, Zenon DEF TypeOK
<1> QED
  BY <1>4, <1>6 DEF Typed
----------------------------------------------------------------------------
\* One request at a time, and what rows have in common before and after a step.
LEMMA OthersWait ==
  ASSUME StoreInv, Typed, Alone, [Next]_vars
  PROVE  Alone'
<1>1. SUFFICES ASSUME serial PROVE \A v, u \in Busy' : v = u
  BY CountersTyped DEF Alone
<1>2. \A v, u \in Busy : v = u
  BY <1>1 DEF Alone
<1>3. ASSUME NEW w \in Workers, Step(w) \/ Crash(w) PROVE Busy' \subseteq Busy
  <2>1. w \in Busy
    BY <1>3, StepWorker DEF Crash, Busy
  <2>2. \A v \in Workers \ {w} : job'[v] = job[v]
    BY <1>3, StepMoves DEF Moves, StoreInv, Shape
  <2> QED
    BY <2>1, <2>2 DEF Busy
<1>4. ASSUME NEW w \in Workers, NEW q \in Requests, Begin(w, q) PROVE Busy' \subseteq {w}
  <2>1. Busy = {}
    BY <1>1, <1>4 DEF Begin
  <2>2. \A v \in Workers \ {w} : job'[v] = job[v]
    BY <1>4, StepMoves DEF Moves, StoreInv, Shape
  <2> QED
    BY <2>1, <2>2 DEF Busy
<1>5. CASE job' = job
  BY <1>2, <1>5 DEF Busy
<1> QED
  BY <1>2, <1>3, <1>4, <1>5 DEF Next, vars, SlaveUpdate

\* But for insertions and changes of addresses, recipients keep their campaign
\* and address, and none appears.
Kept ==
  \A r \in Live' : /\ r \in Live
                   /\ rows'[r].campaign = rows[r].campaign /\ rows'[r].address = rows[r].address
\* But for deletions, too, none disappears.
Stay == \A r \in Ids : rows'[r] = NoRow <=> rows[r] = NoRow

LEMMA RowNotEmpty ==
  ASSUME NEW row \in Row
  PROVE  row # NoRow
<1>1. row.campaign \in Campaigns
  BY DEF Row
<1>2. NoRow.campaign = 0 /\ 0 \notin Campaigns
  BY StoreAssumption DEF NoRow, Campaigns
<1> QED
  BY <1>1, <1>2

LEMMA SetRecipientKeeps ==
  ASSUME StoreInv, Typed, NEW w \in Workers, SetRecipient(w), ~blurred'
  PROVE  Kept /\ Stay
<1>1. rows \in [Ids -> Row \cup {NoRow}] /\ \A r \in Live : rows[r] \in Row
  BY DEF Typed, TypeOK, Live
<1> DEFINE q == job[w].req
<1>2. CASE UNCHANGED rows
  BY <1>2 DEF Kept, Stay, Live
<1>3. CASE /\ rows' = [r \in Ids |-> IF r \in Live \cap {q.id} THEN Changed(rows[r], q) ELSE rows[r]]
           /\ blurred' = (blurred \/ q.address # Unset)
  <2>1. q.address = Unset
    BY <1>3, Zenon
  <2>2. q \in AllRequests /\ q.op = "setRecipient"
    BY WorkerFacts, RequestsAssumption DEF SetRecipient, Working, Job, Fits, Steps
  <2>3. q.status \in RecipientStatus \cup {None}
    BY <2>2 DEF AllRequests
  <2> HIDE DEF q
  <2>4. ASSUME NEW r \in Live
        PROVE  /\ Changed(rows[r], q) \in Row
               /\ Changed(rows[r], q).campaign = rows[r].campaign
               /\ Changed(rows[r], q).address = rows[r].address
    BY <1>1, <2>1, <2>3 DEF Changed, Row
  <2> QED
    BY <1>1, <1>3, <2>4, RowNotEmpty DEF Kept, Stay, Live
<1> QED
  BY <1>2, <1>3 DEF SetRecipient

LEMMA StatusesKeep ==
  ASSUME StoreInv, Typed,
         \/ \E w \in Workers : SetStatuses(w)
         \/ \E r \in Ids, s \in Outcomes : SlaveUpdate(r, s)
  PROVE  Kept /\ Stay
<1>1. rows \in [Ids -> Row \cup {NoRow}] /\ \A r \in Live : rows[r] \in Row
  BY DEF Typed, TypeOK, Live
<1>2. \/ UNCHANGED rows
      \/ \E set \in SUBSET Live, s \in RecipientStatus :
           rows' = [r \in Ids |-> IF r \in set THEN [rows[r] EXCEPT !.status = s] ELSE rows[r]]
  <2>1. ASSUME NEW w \in Workers, SetStatuses(w), rows' # rows
        PROVE  \E set \in SUBSET Live, s \in RecipientStatus :
           rows' = [r \in Ids |-> IF r \in set THEN [rows[r] EXCEPT !.status = s] ELSE rows[r]]
    <3> DEFINE q == job[w].req
    <3>1. q \in AllRequests /\ q.op = "setStatuses"
      BY <2>1, WorkerFacts, RequestsAssumption DEF SetStatuses, Working, Job, Fits, Steps
    <3>2. q.status \in RecipientStatus
      BY <3>1 DEF AllRequests
    <3>3. WithStatus(q.campaign, q.current) \in SUBSET Live
      BY DEF WithStatus, RowsOf
    <3> QED
      BY <2>1, <3>2, <3>3 DEF SetStatuses
  <2>2. ASSUME NEW r \in Ids, NEW s \in Outcomes, SlaveUpdate(r, s)
        PROVE  \E set \in SUBSET Live :
           rows' = [q \in Ids |-> IF q \in set THEN [rows[q] EXCEPT !.status = s] ELSE rows[q]]
    <3> DEFINE set == {q \in RowsOf(rows[r].campaign) : rows[q].address = rows[r].address}
    <3>1. set \in SUBSET Live
      BY DEF RowsOf
    <3>2. rows' = [q \in Ids |-> IF q \in set THEN [rows[q] EXCEPT !.status = s] ELSE rows[q]]
      BY <2>2 DEF SlaveUpdate
    <3> QED
      BY <3>1, <3>2
  <2>3. Outcomes \subseteq RecipientStatus
    BY StoreAssumption DEF RecipientStatus
  <2> QED
    BY <2>1, <2>2, <2>3
<1>3. CASE UNCHANGED rows
  BY <1>3 DEF Kept, Stay, Live
<1>4. ASSUME NEW set \in SUBSET Live, NEW s \in RecipientStatus,
             rows' = [r \in Ids |-> IF r \in set THEN [rows[r] EXCEPT !.status = s] ELSE rows[r]]
      PROVE  Kept /\ Stay
  <2>1. ASSUME NEW r \in Live
        PROVE  /\ [rows[r] EXCEPT !.status = s] \in Row
               /\ [rows[r] EXCEPT !.status = s].campaign = rows[r].campaign
               /\ [rows[r] EXCEPT !.status = s].address = rows[r].address
    BY <1>1 DEF Row
  <2> QED
    BY <1>1, <1>4, <2>1, RowNotEmpty DEF Kept, Stay, Live
<1> QED
  BY <1>2, <1>3, <1>4

LEMMA EmptiedKeeps ==
  ASSUME NEW removed, rows' = Emptied(removed)
  PROVE  Kept /\ \A r \in Live : r \in Live' \/ r \in removed
BY DEF Emptied, Kept, Live

LEMMA RowsKept ==
  ASSUME StoreInv, Typed, [Next]_vars, ~blurred'
  PROVE  Kept \/ \E w \in Workers : Insert(w) /\ ~NextEntry(w)
<1>1. CASE UNCHANGED rows
  BY <1>1 DEF Kept, Live
<1>2. ASSUME NEW w \in Workers, DeleteRows(w) \/ DeleteRow(w)
      PROVE  Kept
  <2>1. UNCHANGED rows \/ rows' = Emptied(Selected(w)) \/ rows' = Emptied({job[w].req.id})
    BY <1>2 DEF DeleteRows, DeleteRow
  <2>2. UNCHANGED rows => Kept
    BY DEF Kept, Live
  <2> QED
    BY <2>1, <2>2, EmptiedKeeps
<1>3. ASSUME NEW w \in Workers, Insert(w)
      PROVE  UNCHANGED rows \/ ~NextEntry(w)
  <2>1. CASE Fails /\ NextEntry(w) /\ UNCHANGED <<used, rows, late>>
    BY <2>1
  <2>2. CASE \E r \in Ids : job' = [job EXCEPT ![w].step = "fields", ![w].id = r]
    <3>1. w \in Busy /\ job[w].step = "insert" /\ Working(job[w]) /\ w \in DOMAIN job
      BY <1>3, WorkerFacts DEF Insert, Steps
    <3>2. "step" \in DOMAIN job[w]
      BY <3>1 DEF Working, Job
    <3>3. job'[w].step = "fields"
      BY <2>2, <3>1, <3>2
    <3>4. NextEntry(w) => job'[w] = Idle \/ job'[w].step = "look"
      BY <3>1, NextEntryWorks
    <3> QED
      BY <3>3, <3>4 DEF Idle
  <2> QED
    BY <1>3, <2>1, <2>2 DEF Insert
<1> QED
  BY <1>1, <1>2, <1>3, SetRecipientKeeps, StatusesKeep
     DEF Next, Step, vars, tables, history, Look, InsertFields, Count, Read, Create, SetMessage,
         Detach, Attach, Update, DeleteFields, DeleteFiles, DeleteCampaign, Crash, Begin
----------------------------------------------------------------------------
\* No address twice.
LEMMA BlurredStays ==
  ASSUME Typed, [Next]_vars, blurred
  PROVE  blurred'
<1>1. CASE UNCHANGED blurred
  BY <1>1, Zenon
<1>2. ASSUME NEW w \in Workers, Look(w) PROVE blurred'
  <2>1. UNCHANGED blurred \/ blurred' = TRUE
    BY <1>2 DEF Look
  <2> QED
    BY <2>1, Zenon
<1>3. ASSUME NEW w \in Workers, SetRecipient(w) PROVE blurred'
  <2>1. UNCHANGED blurred \/ blurred' = (blurred \/ job[w].req.address # Unset)
    BY <1>3, Zenon DEF SetRecipient
  <2> QED
    BY <2>1, Zenon
<1>4. ASSUME NEW w \in Workers, Step(w), ~Look(w), ~SetRecipient(w) PROVE UNCHANGED blurred
  BY <1>4 DEF Step, history, Insert, InsertFields, Count, Read, Create, SetMessage,
         Detach, Attach, Update, SetStatuses, DeleteFields, DeleteRows, DeleteFiles,
         DeleteCampaign, DeleteRow
<1>5. ASSUME NEW w \in Workers, Crash(w) \/ \E q \in Requests : Begin(w, q)
      PROVE  UNCHANGED blurred
  BY <1>5 DEF Crash, Begin, history
<1>6. ASSUME NEW r \in Ids, NEW s \in Outcomes, SlaveUpdate(r, s) PROVE UNCHANGED blurred
  BY <1>6 DEF SlaveUpdate, history
<1>7. CASE UNCHANGED vars
  BY <1>1, <1>7 DEF vars, history
<1> QED
  BY <1>1, <1>2, <1>3, <1>4, <1>5, <1>6, <1>7, Zenon DEF Next

\* Every worker but the one that makes a step goes on where it was.
LEMMA Where ==
  ASSUME StoreInv, Typed, [Next]_vars, NEW v \in Busy'
  PROVE  (v \in Busy /\ job'[v] = job[v]) \/ Moves(v)
<1>1. ASSUME NEW w \in Workers, Moves(w) PROVE (v \in Busy /\ job'[v] = job[v]) \/ Moves(v)
  BY <1>1 DEF Moves, StoreInv, Shape, Busy
<1>2. CASE job' = job
  BY <1>2 DEF Busy
<1> QED
  BY <1>1, <1>2, StepMoves DEF Next, vars, SlaveUpdate

\* What the steps look for stays in the request.
LEMMA SameRequest ==
  ASSUME StoreInv, Typed, NEW w \in Busy, NEW t \in Steps, Go(w, t)
  PROVE  /\ job'[w].campaign = job[w].campaign /\ job'[w].todo = job[w].todo
         /\ job'[w].op = job[w].op /\ job'[w].req = job[w].req /\ job'[w].step = t
<1>1. job[w] \in Job /\ w \in DOMAIN job
  BY DEF Typed, Working, Busy, StoreInv, Shape
<1>2. job'[w] = [job[w] EXCEPT !.step = t]
  BY <1>1 DEF Go
<1> QED
  BY <1>1, <1>2 DEF Job

LEMMA DistinctStep ==
  ASSUME StoreInv, Typed, Alone, Distinct, [Next]_vars
  PROVE  Distinct'
<1>1. SUFFICES ASSUME serial, ~blurred, ~blurred'
      PROVE  /\ \A r, q \in Live' : /\ rows'[r].campaign = rows'[q].campaign
                                    /\ rows'[r].address = rows'[q].address
                                    => r = q
             /\ \A v \in Busy' : job'[v].step = "insert" =>
                  \A r \in Live' : rows'[r].campaign = job'[v].campaign =>
                                   rows'[r].address # Head(job'[v].todo).address
  <2>1. serial' => serial
    BY CountersTyped, Zenon
  <2>2. ~blurred' => ~blurred
    BY BlurredStays, Zenon
  <2> QED
    BY <2>1, <2>2 DEF Distinct, AddressesOf, RowsOf
<1>2. \A r, q \in Live : rows[r].campaign = rows[q].campaign /\ rows[r].address = rows[q].address
                         => r = q
  BY <1>1, Zenon DEF Distinct
<1>3. \A v \in Busy : job[v].step = "insert" =>
         Head(job[v].todo).address \notin AddressesOf(job[v].campaign)
  BY <1>1, Zenon DEF Distinct
<1>4. CASE Kept
  <2>1. ASSUME NEW c, NEW a, a \notin AddressesOf(c)
        PROVE  \A r \in Live' : rows'[r].campaign = c => rows'[r].address # a
    BY <1>4, <2>1 DEF Kept, AddressesOf, RowsOf
  <2>2. ASSUME NEW v \in Busy', job'[v].step = "insert"
        PROVE  \A r \in Live' : rows'[r].campaign = job'[v].campaign =>
                                rows'[r].address # Head(job'[v].todo).address
    <3>1. CASE v \in Busy /\ job'[v] = job[v]
      BY <1>3, <2>1, <2>2, <3>1
    <3>2. CASE Look(v) /\ Go(v, "insert")
      <4>1. v \in Busy /\ job[v].step = "look" /\ Working(job[v])
        BY <3>2, WorkerFacts DEF Busy, Look, Steps
      <4>2. ~Known(job[v].campaign, Head(job[v].todo).address)
        <5>1. ~NextEntry(v)
          <6>1. job'[v] # Idle
            BY DEF Busy
          <6> QED
            BY <2>2, <4>1, <6>1, NextEntryWorks
        <5>2. blurred' # TRUE
          BY <1>1, Zenon
        <5> QED
          BY <3>2, <5>1, <5>2 DEF Look
      <4> QED
        BY <2>1, <3>2, <4>1, <4>2, SameRequest DEF Known, Steps
    <3> QED
      BY <2>2, <3>1, <3>2, Where DEF Moves, Busy
  <2>3. \A r, q \in Live' : /\ rows'[r].campaign = rows'[q].campaign
                           /\ rows'[r].address = rows'[q].address
                           => r = q
    BY <1>2, <1>4 DEF Kept
  <2> QED
    BY <2>2, <2>3
<1>5. ASSUME NEW w \in Workers, Insert(w), ~NextEntry(w)
      PROVE  /\ \A r, q \in Live' : /\ rows'[r].campaign = rows'[q].campaign
                                    /\ rows'[r].address = rows'[q].address
                                    => r = q
             /\ Busy' \subseteq {w} /\ job'[w].step = "fields"
  <2>1. w \in Busy /\ job[w].step = "insert" /\ Working(job[w]) /\ w \in DOMAIN job
    BY <1>5, WorkerFacts DEF Insert, Steps
  <2> DEFINE c == job[w].campaign
             a == Head(job[w].todo).address
             row == [campaign |-> c, address |-> a, status |-> Head(job[w].todo).status]
  <2>2. PICK n \in Ids : /\ rows' = [rows EXCEPT ![n] = row]
                         /\ job' = [job EXCEPT ![w].step = "fields", ![w].id = n]
    BY <1>5 DEF Insert
  <2>3. row.campaign = c /\ row.address = a
    OBVIOUS
  <2>4. a \notin AddressesOf(c)
    BY <1>3, <2>1
  <2> HIDE DEF row
  <2>5. rows' [n] = row /\ \A r \in Ids \ {n} : rows'[r] = rows[r]
    BY <2>2 DEF Typed, TypeOK
  <2>6. \A r \in Live' \ {n} : r \in Live /\ rows'[r] = rows[r]
    BY <2>5 DEF Live
  <2>7. \A r \in Live' \ {n} : ~(rows'[r].campaign = c /\ rows'[r].address = a)
    BY <2>4, <2>6 DEF AddressesOf, RowsOf
  <2>8. \A r, q \in Live' : /\ rows'[r].campaign = rows'[q].campaign
                           /\ rows'[r].address = rows'[q].address
                           => r = q
    BY <1>2, <2>3, <2>5, <2>6, <2>7
  <2>9. Busy' \subseteq {w}
    <3>1. Busy \subseteq {w}
      BY <1>1, <2>1 DEF Alone
    <3>2. \A v \in Workers \ {w} : job'[v] = job[v]
      BY <2>1, <2>2 DEF StoreInv, Shape
    <3> QED
      BY <3>1, <3>2 DEF Busy
  <2>10. job'[w].step = "fields"
    <3>1. "step" \in DOMAIN job[w]
      BY <2>1 DEF Working, Job
    <3> QED
      BY <2>1, <2>2, <3>1
  <2> QED
    BY <2>8, <2>9, <2>10
<1> QED
  BY <1>1, <1>4, <1>5, RowsKept
----------------------------------------------------------------------------
\* No custom fields without a recipient.
LEMMA OnlyOne ==
  ASSUME StoreInv, Typed, Alone, serial, NEW w \in Workers,
         Step(w) \/ Crash(w) \/ \E q \in Requests : Begin(w, q)
  PROVE  Busy' \subseteq {w}
<1>1. \A v \in Workers \ {w} : job'[v] = job[v]
  BY StepMoves DEF Moves, StoreInv, Shape
<1>2. Busy \subseteq {w}
  <2>1. CASE Step(w) \/ Crash(w)
    BY <2>1, StepWorker DEF Crash, Busy, Alone
  <2>2. CASE \E q \in Requests : Begin(w, q)
    BY <2>2 DEF Begin
  <2> QED
    BY <2>1, <2>2
<1> QED
  BY <1>1, <1>2 DEF Busy

LEMMA SetRecipientStays ==
  ASSUME StoreInv, Typed, NEW w \in Workers, SetRecipient(w)
  PROVE  Stay
<1>1. rows \in [Ids -> Row \cup {NoRow}] /\ \A r \in Live : rows[r] \in Row
  BY DEF Typed, TypeOK, Live
<1> DEFINE q == job[w].req
<1>2. CASE UNCHANGED rows
  BY <1>2 DEF Stay
<1>3. CASE rows' = [r \in Ids |-> IF r \in Live \cap {q.id} THEN Changed(rows[r], q) ELSE rows[r]]
  <2>1. q \in AllRequests /\ q.op = "setRecipient"
    BY WorkerFacts, RequestsAssumption DEF SetRecipient, Working, Job, Fits, Steps
  <2>2. q.address \in Addresses \cup {Unset} /\ q.status \in RecipientStatus \cup {None}
    BY <2>1 DEF AllRequests
  <2> HIDE DEF q
  <2>3. ASSUME NEW r \in Live PROVE Changed(rows[r], q) \in Row
    BY <1>1, <2>2 DEF Changed, Row
  <2> QED
    BY <1>1, <1>3, <2>3, RowNotEmpty DEF Stay, Live
<1> QED
  BY <1>2, <1>3 DEF SetRecipient

\* What is true of the custom fields and of the one request in progress.
InStep ==
  /\ fields \subseteq Live \cup alone
  /\ \A v \in Busy : /\ job[v].step = "fields" => job[v].id \in Live
                     /\ job[v].step = "delRows" => fields \cap Selected(v) = {}

LEMMA InsertInStep ==
  ASSUME StoreInv, Typed, Alone, serial, InStep, NEW w \in Workers, Insert(w), UNCHANGED failures
  PROVE  InStep'
<1>1. w \in Busy /\ job[w].step = "insert" /\ Working(job[w]) /\ w \in DOMAIN job
  BY WorkerFacts DEF Insert, Steps
<1>2. Busy' \subseteq {w}
  BY OnlyOne DEF Step
<1> DEFINE row == [campaign |-> job[w].campaign, address |-> Head(job[w].todo).address,
                   status |-> Head(job[w].todo).status]
<1>3. failures # failures + 1
  BY DEF Typed, TypeOK
<1>4. PICK n \in Ids : /\ rows' = [rows EXCEPT ![n] = row]
                       /\ job' = [job EXCEPT ![w].step = "fields", ![w].id = n]
  BY <1>3 DEF Insert, Fails
<1>5. UNCHANGED <<fields, alone>>
  BY DEF Insert
<1>6. row # NoRow
  <2>1. job[w].campaign \in Campaigns
    BY <1>1 DEF StoreInv, Shape, Busy, JobOK, Elsewhere
  <2>2. row.campaign = job[w].campaign /\ NoRow.campaign = 0 /\ 0 \notin Campaigns
    BY StoreAssumption DEF NoRow, Campaigns
  <2> QED
    BY <2>1, <2>2
<1> HIDE DEF row
<1>7. Live' = Live \cup {n}
  BY <1>4, <1>6 DEF Live, Typed, TypeOK
<1>8. job'[w].step = "fields" /\ job'[w].id = n
  <2>1. {"step", "id"} \subseteq DOMAIN job[w]
    BY <1>1 DEF Working, Job
  <2> QED
    BY <1>1, <1>4, <2>1
<1>9. fields' \subseteq Live' \cup alone'
  BY <1>5, <1>7 DEF InStep
<1> QED
  BY <1>2, <1>7, <1>8, <1>9 DEF InStep

LEMMA DeleteFieldsInStep ==
  ASSUME StoreInv, Typed, Alone, serial, InStep, NEW w \in Workers, DeleteFields(w),
         UNCHANGED failures
  PROVE  InStep'
<1>1. w \in Busy /\ job[w].step = "delFields" /\ Working(job[w])
  BY WorkerFacts DEF DeleteFields, Steps
<1>2. Busy' \subseteq {w}
  BY OnlyOne DEF Step
<1>3. failures # failures + 1
  BY DEF Typed, TypeOK
<1>4. fields' = fields \ Selected(w) /\ UNCHANGED <<rows, alone>> /\ NextDeletion(w)
  BY <1>3 DEF DeleteFields, Fails, history
<1>5. Live' = Live
  BY <1>4 DEF Live
<1>6. fields' \subseteq Live' \cup alone'
  BY <1>4, <1>5 DEF InStep
<1>7. job'[w] = Idle \/ job'[w].step \in {"delRows", "delFiles", "delCampaign"}
  BY <1>1, <1>4, DeletionWorks
<1>8. ASSUME job'[w] # Idle, job'[w].step = "delRows" PROVE fields' \cap Selected(w)' = {}
  <2>1. Go(w, "delRows")
    <3>1. Moves(w)
      BY StepMoves DEF Step
    <3> QED
      BY <1>8, <3>1 DEF Moves
  <2>2. job'[w].campaign = job[w].campaign /\ job'[w].op = job[w].op /\ job'[w].req = job[w].req
    BY <1>1, <2>1, SameRequest DEF Steps
  <2>3. Selected(w)' = Selected(w)
    BY <1>4, <2>2 DEF Selected, WithStatus, RowsOf, Live
  <2> QED
    BY <1>4, <2>3
<1> QED
  <2>1. \A v \in Busy' : v = w /\ job'[w] # Idle
    BY <1>2 DEF Busy
  <2> QED
    BY <1>6, <1>7, <1>8, <2>1 DEF InStep

LEMMA OtherInStep ==
  ASSUME StoreInv, Typed, Alone, serial, InStep, UNCHANGED failures, NEW w \in Workers,
         Step(w) \/ Crash(w) \/ \E q \in Requests : Begin(w, q),
         ~Insert(w), ~DeleteFields(w)
  PROVE  InStep'
<1>1. Busy' \subseteq {w}
  BY OnlyOne
<1>2. \A v \in Busy' : job'[v].step \notin {"fields", "delRows"}
  <2>1. Moves(w)
    BY StepMoves
  <2> QED
    BY <1>1, <2>1 DEF Moves, Busy
<1>3. failures # failures + 1
  BY DEF Typed, TypeOK
<1>4. fields \subseteq Live \cup alone
  BY DEF InStep
<1>5. ASSUME UNCHANGED <<rows, fields, alone>> PROVE fields' \subseteq Live' \cup alone'
  BY <1>4, <1>5 DEF Live
<1>6. ASSUME InsertFields(w) PROVE fields' \subseteq Live' \cup alone'
  <2>1. job[w].id \in Live
    BY <1>6, WorkerFacts DEF InsertFields, Steps, InStep
  <2>2. fields' = fields \cup {job[w].id} /\ UNCHANGED <<rows, alone>>
    BY <1>3, <1>6 DEF InsertFields, Fails, history
  <2> QED
    BY <1>4, <2>1, <2>2 DEF Live
<1>7. ASSUME DeleteRows(w) PROVE fields' \subseteq Live' \cup alone'
  <2>1. fields \cap Selected(w) = {}
    BY <1>7, WorkerFacts DEF DeleteRows, Steps, InStep
  <2>2. rows' = Emptied(Selected(w)) /\ UNCHANGED <<fields, alone>>
    BY <1>3, <1>7 DEF DeleteRows, Fails
  <2>3. \A r \in Live : r \in Live' \/ r \in Selected(w)
    BY <2>2 DEF Emptied, Live
  <2> QED
    BY <1>4, <2>1, <2>2, <2>3
<1>8. ASSUME DeleteRow(w) PROVE fields' \subseteq Live' \cup alone'
  <2>1. rows' = Emptied({job[w].req.id}) /\ alone' = alone \cup {job[w].req.id}
        /\ UNCHANGED fields
    BY <1>3, <1>8 DEF DeleteRow, Fails
  <2>2. \A r \in Live : r \in Live' \/ r = job[w].req.id
    BY <2>1 DEF Emptied, Live
  <2> QED
    BY <1>4, <2>1, <2>2
<1>9. ASSUME SetRecipient(w) \/ SetStatuses(w) PROVE fields' \subseteq Live' \cup alone'
  <2>1. Stay
    BY <1>9, SetRecipientStays, StatusesKeep
  <2>2. UNCHANGED <<fields, alone>>
    BY <1>9 DEF SetRecipient, SetStatuses, history
  <2> QED
    BY <1>4, <2>1, <2>2 DEF Stay, Live
<1>10. fields' \subseteq Live' \cup alone'
  BY <1>4, <1>5, <1>6, <1>7, <1>8, <1>9
     DEF Step, tables, history, Look, Count, Read, Create, SetMessage,
         Detach, Attach, Update, DeleteFiles, DeleteCampaign, Crash, Begin
<1> QED
  BY <1>2, <1>10 DEF InStep

LEMMA FieldsKeptStep ==
  ASSUME StoreInv, Typed, Alone, FieldsKept, [Next]_vars
  PROVE  FieldsKept'
<1>1. SUFFICES ASSUME serial, ~sending, failures = 0, failures' = 0 PROVE InStep'
  <2>1. serial' => serial
    BY CountersTyped, Zenon
  <2>3. ~sending' => ~sending
    <3>1. sending' = sending
      BY CountersTyped
    <3> QED
      BY <3>1, Zenon
  <2>2. failures' = 0 => failures = 0
    BY CountersTyped DEF Typed, TypeOK
  <2> QED
    BY <2>1, <2>2, <2>3 DEF FieldsKept, InStep
<1>2. InStep
  BY <1>1, Zenon DEF FieldsKept, InStep
<1>3. CASE UNCHANGED vars
  BY <1>2, <1>3 DEF vars, tables, history, InStep, Busy, Live, Selected, WithStatus, RowsOf
<1>4. ASSUME NEW r \in Ids, NEW s \in Outcomes, SlaveUpdate(r, s) PROVE FALSE
  BY <1>1, <1>4, Zenon DEF SlaveUpdate
<1>5. UNCHANGED failures
  BY <1>1
<1>6. ASSUME NEW w \in Workers, Step(w) \/ Crash(w) \/ \E q \in Requests : Begin(w, q)
      PROVE  InStep'
  BY <1>1, <1>2, <1>5, <1>6, InsertInStep, DeleteFieldsInStep, OtherInStep
<1> QED
  BY <1>3, <1>4, <1>6, Zenon DEF Next
----------------------------------------------------------------------------
\* What the tables may hold at first.
LEMMA InitTyped == Init => Typed /\ Alone
<1> SUFFICES ASSUME Init PROVE Typed /\ Alone
  OBVIOUS
<1>2. Busy = {}
  BY DEF Init, Busy
<1>3. serial \in BOOLEAN /\ sending \in BOOLEAN /\ dated \in BOOLEAN
  BY Zenon DEF Init
<1>4. blurred \in BOOLEAN
  BY Zenon DEF Init
<1>5. known \subseteq Campaigns /\ used \subseteq Ids
  <2>1. PICK n \in Campaigns : known = 1..n
    BY DEF Init
  <2>2. known \subseteq Campaigns
    BY <2>1, StoreAssumption DEF Campaigns
  <2>3. PICK m \in 0..2 : used = (1..m) \cap Ids
    BY DEF Init
  <2> QED
    BY <2>2, <2>3
<1>6. campaign \in [Campaigns -> CampaignStatus \cup {None}]
  BY DEF Init, CampaignStatus
<1>7. rows \in [Ids -> Row \cup {NoRow}]
  <2>1. PICK of \in [used -> known], at \in [used -> Addresses] :
          rows = [r \in Ids |->
            IF r \in used
            THEN [campaign |-> of[r], address |-> at[r],
                  status |-> IF r = 1 THEN "Sent" ELSE "Waiting"]
            ELSE NoRow]
    BY DEF Init
  <2>2. ASSUME NEW r \in used
        PROVE  [campaign |-> of[r], address |-> at[r],
                status |-> IF r = 1 THEN "Sent" ELSE "Waiting"] \in Row
    BY <1>5 DEF Row, RecipientStatus
  <2> QED
    BY <2>1, <2>2
<1>8. /\ fields \subseteq Ids /\ attached \subseteq Campaigns
      /\ late \subseteq Ids /\ lateFiles \subseteq Campaigns /\ alone \subseteq Ids
  BY <1>5 DEF Init
<1>9. served \in 0..MaxRequests /\ failures \in 0..MaxFaults /\ crashes \in 0..MaxFaults
  BY StoreAssumption DEF Init
<1>10. TypeOK
  BY <1>2, <1>3, <1>4, <1>5, <1>6, <1>7, <1>8, <1>9, Zenon DEF TypeOK
<1> QED
  BY <1>2, <1>10 DEF Typed, Alone

LEMMA InitDistinct == Init => Distinct /\ FieldsKept
<1> SUFFICES ASSUME Init PROVE Distinct /\ FieldsKept
  OBVIOUS
<1>2. Busy = {}
  BY DEF Init, Busy
<1>3. PICK of \in [used -> known], at \in [used -> Addresses] :
        /\ \A r, q \in used : of[r] = of[q] /\ at[r] = at[q] => r = q
        /\ rows = [r \in Ids |->
             IF r \in used
             THEN [campaign |-> of[r], address |-> at[r],
                   status |-> IF r = 1 THEN "Sent" ELSE "Waiting"]
             ELSE NoRow]
  BY DEF Init
<1>4. Live \subseteq used
  BY <1>3 DEF Live
<1>5. \A r \in used : rows[r].campaign = of[r] /\ rows[r].address = at[r]
  BY <1>3 DEF Init
<1>6. \A r, q \in Live : rows[r].campaign = rows[q].campaign /\ rows[r].address = rows[q].address
                         => r = q
  BY <1>3, <1>4, <1>5
<1>7. used \subseteq Live
  <2>1. \A r \in used : of[r] # 0
    BY DEF Init, Campaigns
  <2>2. NoRow.campaign = 0
    BY DEF NoRow
  <2> QED
    BY <1>5, <2>1, <2>2 DEF Live, Init
<1>8. fields \subseteq Live
  BY <1>7 DEF Init
<1> QED
  BY <1>2, <1>6, <1>8 DEF Distinct, FieldsKept
----------------------------------------------------------------------------
\* The invariant that the three theorems below rest on.
THEOREM TablesInvariance == Spec => []IInv
<1>1. Init => IInv
  BY InitOK, InitTyped, InitDistinct DEF IInv
<1>2. IInv /\ [Next]_vars => IInv'
  BY StepOK, TypedStep, OthersWait, DistinctStep, FieldsKeptStep DEF IInv
<1> QED
  BY <1>1, <1>2, PTL DEF Spec

\* Every table and every request in progress has its type, and while recipients
\* are created there is an entry to create: createRecipient() is never called
\* past the end of the list or of the map it walks through.
THEOREM TypeCorrect == Spec => []TypeOK
<1>1. IInv => TypeOK  BY DEF IInv, Typed
<1> QED  BY <1>1, TablesInvariance, PTL

\* hasRecipient() before every INSERT keeps the addresses of a campaign apart,
\* for any number of processes, requests, campaigns and crashes, when requests
\* are served one at a time, every lookup got an answer and nobody set an
\* address: nothing but the lookup does, for the table has no such key.
THEOREM AddressesUnique == Spec => []UniqueAddresses
<1>1. IInv => UniqueAddresses  BY DEF IInv, Distinct, UniqueAddresses
<1> QED  BY <1>1, TablesInvariance, PTL

\* Custom fields are deleted before the recipients they are found through, and
\* the second DELETE selects whom the first one did: none is left without its
\* recipient, wherever a process dies, when requests are served one at a time,
\* no slave is at work and no statement fails.
THEOREM FieldsGoFirst == Spec => []NoStrayFields
<1>1. IInv => NoStrayFields  BY DEF IInv, FieldsKept, NoStrayFields
<1> QED  BY <1>1, TablesInvariance, PTL
----------------------------------------------------------------------------
(***************************************************************************)
(* Copying recipients from another campaign.                               *)
(***************************************************************************)

\* The addresses that an import has yet to look at.
Ahead(w) == {job[w].todo[i].address : i \in DOMAIN job[w].todo}

\* An import reads as many rows as it counted; whom it is to copy is in the
\* campaign or ahead, and the recipient whose custom fields come next is there.
CopyKept(w) ==
  /\ job[w].step = "read" =>
       LET found == WithStatus(job[w].req.source, job[w].req.status) IN
       /\ job[w].wanted = {rows[r].address : r \in found}
       /\ job[w].count = Cardinality(found)
  /\ job[w].step \in {"look", "insert", "fields"} =>
       job[w].wanted \subseteq AddressesOf(job[w].campaign) \cup Ahead(w)
  /\ job[w].step = "fields" => Head(job[w].todo).address \in AddressesOf(job[w].campaign)

\* An import that the statements of nobody interfere with.
Import(w) == job[w].op = "import" /\ (sending => job[w].req.status = None)

\* Rows have identifiers that were given.
Given == Live \subseteq used

ImportKept ==
  serial /\ failures = 0 => \A w \in Busy : Import(w) => CopyKept(w)

\* The largest of some identifiers.
LEMMA LastRow ==
  ASSUME NEW S \in SUBSET Ids, S # {}
  PROVE  \E r \in S : \A q \in S : q <= r
<1>1. NumRecipients \in Nat
  BY StoreAssumption
<1> DEFINE left == {NumRecipients - s : s \in S}
<1>2. left \in SUBSET Nat /\ left # {}
  <2>1. \A s \in S : NumRecipients - s \in Nat
    BY <1>1 DEF Ids
  <2> QED
    BY <2>1
<1> HIDE DEF left
<1>3. PICK n \in left : \A m \in left : ~ <<m, n>> \in OpToRel(<, Nat)
  BY <1>2, WFMin, NatLessThanWellFounded
<1>4. \A m \in left : n <= m
  <2>1. \A m \in left : ~ (m < n)
    BY <1>2, <1>3 DEF OpToRel
  <2> QED
    BY <1>2, <2>1
<1>5. PICK s \in S : n = NumRecipients - s
  BY <1>3 DEF left
<1>6. \A r \in S : r <= s
  <2> TAKE r \in S
  <2>1. NumRecipients - r \in left
    BY DEF left
  <2> QED
    BY <1>1, <1>4, <1>5, <2>1 DEF Ids
<1> QED
  BY <1>6

\* The map that getRecipients() returns has every address of the rows it read.
LEMMA ByAddressAll ==
  ASSUME Typed, NEW set \in SUBSET Live, NEW entries \in ByAddress(set)
  PROVE  {rows[r].address : r \in set} \subseteq {entries[i].address : i \in DOMAIN entries}
<1> DEFINE last == {r \in set : \A q \in set : rows[q].address = rows[r].address => q <= r}
           S == {[address |-> rows[r].address, status |-> rows[r].status] : r \in last}
<1>1. IsFiniteSet(S)
  <2> DEFINE f == [r \in last |-> [address |-> rows[r].address, status |-> rows[r].status]]
  <2>1. IsFiniteSet(Ids)
    BY StoreAssumption, FS_Interval DEF Ids
  <2>2. IsFiniteSet(last)
    <3>1. last \subseteq Ids
      BY DEF Live
    <3> QED
      BY <2>1, <3>1, FS_Subset
  <2>3. f \in Surjection(last, S)
    BY DEF Surjection
  <2> QED
    BY <2>2, <2>3, FS_Surjection
<1>2. \A r \in set : \E e \in S : e.address = rows[r].address
  <2> TAKE r \in set
  <2> DEFINE same == {q \in set : rows[q].address = rows[r].address}
  <2>1. same \in SUBSET Ids /\ same # {}
    BY DEF Live
  <2>2. PICK l \in same : \A q \in same : q <= l
    BY <2>1, LastRow
  <2>3. l \in last
    BY <2>2
  <2>4. [address |-> rows[l].address, status |-> rows[l].status] \in S
    BY <2>3
  <2> HIDE DEF S
  <2> QED
    BY <2>2, <2>4
<1>3. /\ entries \in [1..Cardinality(S) -> S]
      /\ \A i, j \in 1..Cardinality(S) : i # j => entries[i] # entries[j]
  BY DEF ByAddress, SetToSeqs
<1> HIDE DEF S
<1>4. Cardinality(S) \in Nat
  BY <1>1, FS_CardinalityType
<1>5. entries \in Injection(1..Cardinality(S), S)
  BY <1>3 DEF Injection, IsInjective
<1>6. IsFiniteSet(1..Cardinality(S)) /\ Cardinality(1..Cardinality(S)) = Cardinality(S)
  BY <1>4, FS_Interval
<1>7. entries \in Surjection(1..Cardinality(S), S)
  BY <1>1, <1>5, <1>6, FS_Injection
<1>8. \A e \in S : \E i \in DOMAIN entries : entries[i] = e
  BY <1>3, <1>7 DEF Surjection
<1> QED
  BY <1>2, <1>8

\* ORDER BY with a LIMIT that is the number of rows reads all of them.
LEMMA AllRows ==
  ASSUME NEW S \in SUBSET Ids
  PROVE  FirstRows(Cardinality(S), S) = S
<1>1. IsFiniteSet(S)
  <2>1. IsFiniteSet(Ids)
    BY StoreAssumption, FS_Interval DEF Ids
  <2> QED
    BY <2>1, FS_Subset
<1>2. \A r \in S : Cardinality({q \in S : q <= r}) <= Cardinality(S)
  <2> TAKE r \in S
  <2> DEFINE upTo == {q \in S : q <= r}
  <2>1. upTo \in SUBSET S
    OBVIOUS
  <2> HIDE DEF upTo
  <2> QED
    BY <1>1, <2>1, FS_Subset DEF upTo
<1> QED
  BY <1>2 DEF FirstRows

\* What a step of an import keeps or ends with.
Copied(w) ==
  IF job'[w] = Idle
  THEN \A c \in {job[w].campaign} : job[w].wanted \subseteq AddressesOf(c)'
  ELSE CopyKept(w)'

\* An import goes on with the next recipient.
LEMMA NextEntryCopies ==
  ASSUME StoreInv, Typed, NEW w \in Busy, job[w].step \in {"look", "fields"}, UNCHANGED rows,
         NextEntry(w), job[w].wanted \subseteq AddressesOf(job[w].campaign) \cup Ahead(w),
         Head(job[w].todo).address \in AddressesOf(job[w].campaign)
  PROVE  Copied(w)
<1>1. Working(job[w]) /\ job[w] \in Job /\ w \in DOMAIN job
  BY DEF Typed, Working, Busy, StoreInv, Shape
<1>0. PICK c : c = job[w].campaign
  OBVIOUS
<1> DEFINE todo == job[w].todo
           rest == Tail(todo)
<1>2. todo \in Seq(Entry) /\ todo # <<>>
  BY <1>1 DEF Working, Job
<1>3. AddressesOf(c)' = AddressesOf(c)
  BY DEF AddressesOf, RowsOf, Live
<1>4. Ahead(w) \subseteq {Head(todo).address} \cup {rest[i].address : i \in DOMAIN rest}
  <2>1. /\ DOMAIN todo = 1..Len(todo) /\ Len(todo) \in Nat \ {0} /\ Head(todo) = todo[1]
        /\ DOMAIN rest = 1..(Len(todo) - 1)
        /\ \A i \in 1..(Len(todo) - 1) : rest[i] = todo[i + 1]
    BY <1>2
  <2> HIDE DEF todo, rest
  <2>2. ASSUME NEW i \in DOMAIN todo, i # 1
        PROVE  \E k \in DOMAIN rest : rest[k] = todo[i]
    <3>1. i - 1 \in 1..(Len(todo) - 1) /\ (i - 1) + 1 = i
      BY <2>1, <2>2
    <3> QED
      BY <2>1, <3>1
  <2> QED
    BY <2>1, <2>2 DEF Ahead, todo
<1>5. CASE rest = <<>>
  <2>1. Ahead(w) \subseteq {Head(todo).address}
    BY <1>4, <1>5
  <2>2. job'[w] = Idle
    BY <1>1, <1>5 DEF NextEntry, AfterEntry
  <2> QED
    BY <1>0, <1>3, <2>1, <2>2 DEF Copied
<1>6. CASE rest # <<>>
  <2>1. AfterEntry(rest) = "look"
    BY <1>6 DEF AfterEntry
  <2>2. job'[w] = [job[w] EXCEPT !.todo = rest, !.step = "look"]
    BY <1>1, <2>1 DEF NextEntry
  <2>3. /\ job'[w].step = "look" /\ job'[w].todo = rest
        /\ job'[w].campaign = c /\ job'[w].wanted = job[w].wanted
    BY <1>0, <1>1, <2>2 DEF Job
  <2>4. job'[w] # Idle
    BY <2>3 DEF Idle
  <2>5. Ahead(w)' = {rest[i].address : i \in DOMAIN rest}
    BY <2>3 DEF Ahead
  <2>6. job'[w].wanted \subseteq AddressesOf(job[w].campaign)' \cup Ahead(w)'
    <3>1. job'[w].wanted \subseteq AddressesOf(c)' \cup Ahead(w)'
      BY <1>0, <1>3, <1>4, <2>3, <2>5
    <3>2. AddressesOf(job[w].campaign)' = AddressesOf(c)'
      BY <2>3
    <3> QED
      BY <3>1, <3>2
  <2> QED
    BY <2>3, <2>4, <2>6 DEF Copied, CopyKept
<1> QED
  BY <1>5, <1>6

LEMMA ImportCopies ==
  ASSUME StoreInv, Typed, Given, NEW w \in Workers, UNCHANGED failures, job[w].op = "import",
         CopyKept(w), Look(w) \/ Insert(w) \/ InsertFields(w) \/ Count(w) \/ Read(w)
  PROVE  Copied(w)
<1>1. failures # failures + 1 /\ ~Fails
  BY DEF Typed, TypeOK, Fails
<1>2. CASE Count(w)
  <2>1. w \in Busy /\ Working(job[w]) /\ job[w] \in Job /\ w \in DOMAIN job
    BY <1>2, WorkerFacts DEF Count, Steps, Working
  <2>2. PICK found : found = WithStatus(job[w].req.source, job[w].req.status)
    OBVIOUS
  <2>3. /\ job' = [job EXCEPT ![w].step = "read", ![w].count = Cardinality(found),
                              ![w].wanted = {rows[r].address : r \in found}]
        /\ UNCHANGED rows
    BY <1>1, <1>2, <2>2 DEF Count, tables
  <2>4. /\ job'[w].step = "read" /\ job'[w].count = Cardinality(found)
        /\ job'[w].wanted = {rows[r].address : r \in found} /\ job'[w].req = job[w].req
    BY <2>1, <2>3 DEF Job
  <2>5. WithStatus(job[w].req.source, job[w].req.status)' = found
    BY <2>2, <2>3, <2>4 DEF WithStatus, RowsOf, Live
  <2>6. job'[w].wanted = {rows'[r].address : r \in found}
    BY <2>3, <2>4
  <2>7. CopyKept(w)'
    BY <2>4, <2>5, <2>6 DEF CopyKept
  <2>8. job'[w] # Idle
    BY <2>4 DEF Idle
  <2> QED
    BY <2>7, <2>8 DEF Copied
<1>3. CASE Read(w)
  <2>1. w \in Busy /\ Working(job[w]) /\ job[w] \in Job /\ w \in DOMAIN job /\ job[w].step = "read"
    BY <1>3, WorkerFacts DEF Read, Steps, Working
  <2> DEFINE found == WithStatus(job[w].req.source, job[w].req.status)
  <2>2. /\ found \in SUBSET Live /\ found \in SUBSET Ids
        /\ job[w].wanted = {rows[r].address : r \in found} /\ job[w].count = Cardinality(found)
    BY <2>1 DEF CopyKept, WithStatus, RowsOf, Live
  <2>3. FirstRows(job[w].count, found) = found
    BY <2>2, AllRows
  <2>4. PICK entries \in ByAddress(found) :
          /\ IF entries = <<>> THEN Done(w)
             ELSE job' = [job EXCEPT ![w].step = "look", ![w].todo = entries]
          /\ UNCHANGED rows
    BY <1>1, <1>3, <2>3 DEF Read, tables
  <2> HIDE DEF found
  <2>5. job[w].wanted \subseteq {entries[i].address : i \in DOMAIN entries}
    BY <2>2, ByAddressAll
  <2>6. CASE entries = <<>>
    BY <2>1, <2>4, <2>5, <2>6, Finishes DEF Copied
  <2>7. CASE entries # <<>>
    <3>1. job'[w].step = "look" /\ job'[w].todo = entries /\ job'[w].wanted = job[w].wanted
      BY <2>1, <2>4, <2>7 DEF Job
    <3>2. Ahead(w)' = {entries[i].address : i \in DOMAIN entries}
      BY <3>1 DEF Ahead
    <3>3. CopyKept(w)' /\ job'[w] # Idle
      BY <2>5, <3>1, <3>2 DEF CopyKept, Idle
    <3> QED
      BY <3>3 DEF Copied
  <2> QED
    BY <2>6, <2>7
<1>4. CASE Look(w)
  <2>1. w \in Busy /\ Working(job[w]) /\ job[w] \in Job /\ w \in DOMAIN job /\ job[w].step = "look"
    BY <1>4, WorkerFacts DEF Look, Steps, Working
  <2>2. /\ job[w].wanted \subseteq AddressesOf(job[w].campaign) \cup Ahead(w)
        /\ UNCHANGED rows
    BY <1>4, <2>1 DEF CopyKept, Look, tables
  <2>3. CASE Known(job[w].campaign, Head(job[w].todo).address) /\ NextEntry(w)
    BY <2>1, <2>2, <2>3, NextEntryCopies DEF Known
  <2>4. CASE Go(w, "insert")
    <3>1. job'[w] = [job[w] EXCEPT !.step = "insert"]
      BY <2>1, <2>4 DEF Go
    <3>2. /\ job'[w].step = "insert" /\ job'[w].todo = job[w].todo
          /\ job'[w].campaign = job[w].campaign /\ job'[w].wanted = job[w].wanted
      BY <2>1, <3>1 DEF Job
    <3>3. Ahead(w)' = Ahead(w)
      BY <3>2 DEF Ahead
    <3>4. AddressesOf(job[w].campaign)' = AddressesOf(job[w].campaign)
      BY <2>2, <3>2 DEF AddressesOf, RowsOf, Live
    <3>5. CopyKept(w)' /\ job'[w] # Idle
      BY <2>2, <3>2, <3>3, <3>4 DEF CopyKept, Idle
    <3> QED
      BY <3>5 DEF Copied
  <2> QED
    BY <1>1, <1>4, <2>3, <2>4 DEF Look
<1>5. CASE Insert(w)
  <2>1. w \in Busy /\ Working(job[w]) /\ job[w] \in Job /\ w \in DOMAIN job /\ job[w].step = "insert"
    BY <1>5, WorkerFacts DEF Insert, Steps, Working
  <2> DEFINE row == [campaign |-> job[w].campaign, address |-> Head(job[w].todo).address,
                     status |-> Head(job[w].todo).status]
  <2>2. PICK n \in Ids \ used : /\ rows' = [rows EXCEPT ![n] = row]
                                /\ job' = [job EXCEPT ![w].step = "fields", ![w].id = n]
    BY <1>1, <1>5 DEF Insert
  <2>3. job[w].campaign \in Campaigns
    BY <2>1 DEF StoreInv, Shape, Busy, JobOK, Elsewhere
  <2>4. PICK c, a : c = job[w].campaign /\ a = Head(job[w].todo).address
    OBVIOUS
  <2>5. row.campaign = c /\ row.address = a
    BY <2>4
  <2>6. row # NoRow
    <3>1. NoRow.campaign = 0 /\ 0 \notin Campaigns
      BY StoreAssumption DEF NoRow, Campaigns
    <3> QED
      BY <2>3, <2>4, <2>5, <3>1
  <2> HIDE DEF row
  <2>7. n \notin Live /\ rows'[n] = row /\ \A r \in Ids \ {n} : rows'[r] = rows[r]
    BY <2>2 DEF Given, Typed, TypeOK
  <2>8. Live' = Live \cup {n}
    BY <2>6, <2>7 DEF Live
  <2>9. AddressesOf(c)' = AddressesOf(c) \cup {a}
    BY <2>5, <2>7, <2>8 DEF AddressesOf, RowsOf, Live
  <2>10. /\ job'[w].step = "fields" /\ job'[w].todo = job[w].todo
         /\ job'[w].campaign = c /\ job'[w].wanted = job[w].wanted
    BY <2>1, <2>2, <2>4 DEF Job
  <2>11. Ahead(w)' = Ahead(w)
    BY <2>10 DEF Ahead
  <2>12. AddressesOf(job[w].campaign)' = AddressesOf(c)'
    BY <2>10
  <2>13. Head(job'[w].todo).address = a
    BY <2>4, <2>10
  <2>14. CopyKept(w)' /\ job'[w] # Idle
    <3>1. job[w].wanted \subseteq AddressesOf(c) \cup Ahead(w)
      BY <2>1, <2>4 DEF CopyKept
    <3> QED
      BY <2>9, <2>10, <2>11, <2>12, <2>13, <3>1 DEF CopyKept, Idle
  <2> QED
    BY <2>14 DEF Copied
<1>6. CASE InsertFields(w)
  <2>1. w \in Busy /\ job[w].step = "fields"
    BY <1>6, WorkerFacts DEF InsertFields, Steps
  <2>2. NextEntry(w) /\ UNCHANGED rows
    BY <1>6 DEF InsertFields
  <2> QED
    BY <2>1, <2>2, NextEntryCopies DEF CopyKept
<1> QED
  BY <1>2, <1>3, <1>4, <1>5, <1>6

\* A worker goes on with the same request.
LEMMA CreationSame ==
  ASSUME StoreInv, Typed, NEW w \in Workers,
         Look(w) \/ Insert(w) \/ InsertFields(w) \/ Count(w) \/ Read(w)
  PROVE  job'[w] = Idle \/ (job'[w].op = job[w].op /\ job'[w].req = job[w].req)
<1>1. w \in Busy /\ job[w] \in Job /\ w \in DOMAIN job
  BY WorkerFacts DEF Look, Insert, InsertFields, Count, Read, Steps, Working
<1>2. CASE Done(w)
  BY <1>2, Finishes
<1>3. CASE Go(w, "insert")
  BY <1>1, <1>3, SameRequest DEF Steps
<1>4. CASE NextEntry(w)
  <2>1. \/ job'[w] = Idle
        \/ \E rest, t : job'[w] = [job[w] EXCEPT !.todo = rest, !.step = t]
    BY <1>1, <1>4 DEF NextEntry
  <2> QED
    BY <1>1, <2>1 DEF Job
<1>5. ASSUME NEW t, NEW n, job' = [job EXCEPT ![w].step = t, ![w].id = n]
      PROVE  job'[w].op = job[w].op /\ job'[w].req = job[w].req
  BY <1>1, <1>5 DEF Job
<1>6. ASSUME NEW t, NEW n, NEW set,
             \/ job' = [job EXCEPT ![w].step = t, ![w].count = n, ![w].wanted = set]
             \/ job' = [job EXCEPT ![w].step = t, ![w].count = n]
             \/ job' = [job EXCEPT ![w].step = t, ![w].todo = n]
      PROVE  job'[w].op = job[w].op /\ job'[w].req = job[w].req
  BY <1>1, <1>6 DEF Job
<1>7. CASE Look(w) \/ InsertFields(w)
  BY <1>3, <1>4, <1>7 DEF Look, InsertFields
<1>8. CASE Insert(w)
  BY <1>4, <1>5, <1>8 DEF Insert
<1>9. CASE Count(w)
  <2>1. \/ \E n, set : job' = [job EXCEPT ![w].step = "read", ![w].count = n, ![w].wanted = set]
        \/ job' = [job EXCEPT ![w].step = "read", ![w].count = 0]
    BY <1>9 DEF Count
  <2> QED
    BY <1>1, <2>1 DEF Job
<1>10. CASE Read(w)
  BY <1>2, <1>6, <1>10 DEF Read
<1> QED
  BY <1>7, <1>8, <1>9, <1>10

\* The steps that are not those of an import.
LEMMA OtherSteps ==
  ASSUME StoreInv, Typed, NEW w \in Workers, Step(w),
         ~(Look(w) \/ Insert(w) \/ InsertFields(w) \/ Count(w) \/ Read(w))
  PROVE  /\ job[w].op # "import"
         /\ job'[w] = Idle \/ job'[w].step \notin {"read", "look", "insert", "fields"}
<1>1. w \in Busy /\ Working(job[w]) /\ job[w] # Idle
  BY StepWorker DEF Busy
<1>2. CASE Create(w)
  <2>1. job[w].op # "import" /\ job[w].step = "create" /\ job[w] \in Job
    BY <1>1, <1>2 DEF Create, At, Working, Fits
  <2>2. \/ Done(w)
        \/ \E c \in Campaigns : job' = [job EXCEPT ![w].step = "attach", ![w].campaign = c]
    BY <1>2 DEF Create
  <2>3. ASSUME NEW c \in Campaigns, job' = [job EXCEPT ![w].step = "attach", ![w].campaign = c]
        PROVE  job'[w].step = "attach"
    <3>1. w \in DOMAIN job /\ "step" \in DOMAIN job[w]
      BY <2>1 DEF Job, StoreInv, Shape
    <3> QED
      BY <2>3, <3>1
  <2> QED
    BY <2>1, <2>2, <2>3, Finishes
<1>3. ASSUME NEW t \in Steps \ {"read", "look", "insert", "fields"}, Go(w, t)
      PROVE  job'[w].step \notin {"read", "look", "insert", "fields"}
  BY <1>1, <1>3, GoesOn
<1>4. CASE SetMessage(w) \/ Detach(w) \/ Attach(w) \/ Update(w)
  <2>1. job[w].op # "import"
    BY <1>1, <1>4 DEF SetMessage, Detach, Attach, Update, At, Working, Fits
  <2>2. Done(w) \/ Go(w, "detach") \/ Go(w, "attach") \/ Go(w, "update")
    BY <1>4 DEF SetMessage, Detach, Attach, Update
  <2> QED
    BY <1>3, <2>1, <2>2, Finishes DEF Steps
<1>5. CASE SetRecipient(w) \/ SetStatuses(w) \/ DeleteRow(w)
  <2>1. job[w].op # "import" /\ Done(w)
    BY <1>1, <1>5 DEF SetRecipient, SetStatuses, DeleteRow, At, Working, Fits
  <2> QED
    BY <2>1, Finishes
<1>6. CASE DeleteFields(w) \/ DeleteRows(w) \/ DeleteFiles(w) \/ DeleteCampaign(w)
  <2>1. /\ job[w].op # "import" /\ NextDeletion(w)
        /\ job[w].step \in {"delFields", "delRows", "delFiles", "delCampaign"}
    BY <1>1, <1>6 DEF DeleteFields, DeleteRows, DeleteFiles, DeleteCampaign, At, Working, Fits
  <2> QED
    BY <1>1, <2>1, DeletionWorks
<1> QED
  BY <1>2, <1>4, <1>5, <1>6 DEF Step

LEMMA GivenStep ==
  ASSUME StoreInv, Typed, Given, [Next]_vars
  PROVE  Given'
<1>1. CASE UNCHANGED <<rows, used>>
  BY <1>1 DEF Given, Live
<1>2. ASSUME NEW w \in Workers, Insert(w)
      PROVE  Given'
  <2>1. CASE UNCHANGED <<rows, used>>
    BY <2>1 DEF Given, Live
  <2>2. CASE \E r \in Ids \ used : \E row :
               used' = used \cup {r} /\ rows' = [rows EXCEPT ![r] = row]
    BY <2>2 DEF Given, Live, Typed, TypeOK
  <2> QED
    BY <1>2, <2>1, <2>2 DEF Insert
<1>3. CASE UNCHANGED used /\ (Stay \/ Kept)
  BY <1>3 DEF Given, Live, Stay, Kept
<1>4. ASSUME NEW w \in Workers, SetRecipient(w) PROVE Given'
  BY <1>3, <1>4, SetRecipientStays DEF SetRecipient, ids
<1>5. ASSUME \/ \E w \in Workers : SetStatuses(w)
             \/ \E r \in Ids, s \in Outcomes : SlaveUpdate(r, s)
      PROVE  Given'
  BY <1>3, <1>5, StatusesKeep DEF SetStatuses, SlaveUpdate, ids
<1>6. ASSUME NEW w \in Workers, DeleteRows(w) \/ DeleteRow(w) PROVE Given'
  <2>1. UNCHANGED rows \/ rows' = Emptied(Selected(w)) \/ rows' = Emptied({job[w].req.id})
    BY <1>6 DEF DeleteRows, DeleteRow
  <2>2. UNCHANGED used
    BY <1>6 DEF DeleteRows, DeleteRow, ids
  <2> QED
    BY <1>1, <1>3, <2>1, <2>2, EmptiedKeeps
<1> QED
  BY <1>1, <1>2, <1>4, <1>5, <1>6
     DEF Next, Step, vars, tables, ids, Look, InsertFields, Count, Read, Create, SetMessage,
         Detach, Attach, Update, DeleteFields, DeleteFiles, DeleteCampaign, Crash, Begin

LEMMA ImportKeptStep ==
  ASSUME StoreInv, Typed, Alone, Given, ImportKept, [Next]_vars
  PROVE  ImportKept'
<1>1. SUFFICES ASSUME serial, failures = 0, failures' = 0, NEW w \in Busy', Import(w)'
      PROVE  CopyKept(w)'
  <2>1. serial' => serial
    BY CountersTyped, Zenon
  <2>2. failures' = 0 => failures = 0
    BY CountersTyped DEF Typed, TypeOK
  <2> QED
    BY <2>1, <2>2 DEF ImportKept
<1>2. sending' = sending
  BY CountersTyped
<1>3. \A v \in Busy : Import(v) => CopyKept(v)
  BY <1>1, Zenon DEF ImportKept
<1>4. ASSUME w \in Busy, job'[w] = job[w], UNCHANGED rows PROVE CopyKept(w)'
  <2>1. Import(w)
    BY <1>1, <1>2, <1>4, Zenon DEF Import
  <2>2. CopyKept(w)
    BY <1>3, <1>4, <2>1
  <2> QED
    BY <1>4, <2>2 DEF CopyKept, AddressesOf, WithStatus, RowsOf, Live, Ahead
<1>5. CASE UNCHANGED vars
  BY <1>4, <1>5 DEF vars, tables, Busy
<1>6. ASSUME NEW r \in Ids, NEW s \in Outcomes, SlaveUpdate(r, s) PROVE CopyKept(w)'
  <2>1. Kept /\ Stay /\ UNCHANGED job /\ sending
    BY <1>6, StatusesKeep DEF SlaveUpdate
  <2>2. w \in Busy /\ Import(w) /\ CopyKept(w)
    <3>1. w \in Busy
      BY <2>1 DEF Busy
    <3>2. Import(w)
      BY <1>1, <1>2, <2>1, Zenon DEF Import
    <3> QED
      BY <1>3, <3>1, <3>2
  <2>3. job[w].req.status = None
    BY <2>1, <2>2, Zenon DEF Import
  <2>4. Live' = Live
    BY <2>1 DEF Stay, Live
  <2>5. \A c : AddressesOf(c)' = AddressesOf(c) /\ WithStatus(c, None)' = WithStatus(c, None)
    BY <2>1, <2>4 DEF Kept, AddressesOf, WithStatus, RowsOf
  <2>6. \A c : \A q \in WithStatus(c, None) : rows'[q].address = rows[q].address
    BY <2>1, <2>4 DEF Kept, WithStatus, RowsOf
  <2> QED
    BY <2>1, <2>2, <2>3, <2>5, <2>6 DEF CopyKept, Ahead
<1>7. ASSUME NEW v \in Workers, Step(v) \/ Crash(v) \/ \E q \in Requests : Begin(v, q)
      PROVE  CopyKept(w)'
  <2>1. w = v /\ job'[w] # Idle /\ Moves(w)
    BY <1>1, <1>7, OnlyOne, StepMoves DEF Busy
  <2>2. CASE Look(w) \/ Insert(w) \/ InsertFields(w) \/ Count(w) \/ Read(w)
    <3>1. Step(w)
      BY <2>2 DEF Step
    <3>2. w \in Busy
      BY <2>1, <3>1, StepWorker
    <3>3. job'[w].op = job[w].op /\ job'[w].req = job[w].req
      BY <2>1, <2>2, CreationSame
    <3>4. Import(w)
      BY <1>1, <1>2, <3>3, Zenon DEF Import
    <3>5. Copied(w)
      BY <1>1, <1>3, <2>1, <2>2, <3>2, <3>4, ImportCopies DEF Import
    <3> QED
      BY <2>1, <3>5 DEF Copied
  <2>3. CASE Step(w) /\ ~(Look(w) \/ Insert(w) \/ InsertFields(w) \/ Count(w) \/ Read(w))
    BY <2>1, <2>3, OtherSteps DEF CopyKept
  <2>4. CASE Crash(w)
    BY <2>1, <2>4, Finishes DEF Crash
  <2>5. ASSUME NEW q \in Requests, Begin(w, q) PROVE CopyKept(w)'
    <3>1. job'[w].step = FirstStep(q) /\ job'[w].op = q.op
      <4>1. w \in DOMAIN job
        BY <2>1 DEF StoreInv, Shape
      <4> QED
        BY <2>1, <2>5, <4>1 DEF Begin
    <3>2. q.op = "import"
      BY <1>1, <3>1 DEF Import
    <3>3. job'[w].step = "count"
      BY <3>1, <3>2 DEF FirstStep
    <3> QED
      BY <3>3 DEF CopyKept
  <2> QED
    BY <1>7, <2>1, <2>2, <2>3, <2>4, <2>5
<1> QED
  BY <1>5, <1>6, <1>7, Zenon DEF Next

CopyInv == IInv /\ Given /\ ImportKept

\* An import from another campaign that runs to its end has copied everyone who
\* was selected when it started, for any campaigns, recipients and addresses, when
\* requests are served one at a time and nothing fails: the number of rows that
\* limits the second SELECT is that of the rows it can read, the map by address
\* loses none of the addresses, and each was found or inserted.
THEOREM ImportsComplete == Spec => ImportComplete
<1>1. Init => CopyInv
  <2> SUFFICES ASSUME Init PROVE CopyInv
    OBVIOUS
  <2>1. IInv
    BY InitOK, InitTyped, InitDistinct DEF IInv
  <2>2. Given
    BY DEF Init, Given, Live
  <2>3. ImportKept
    BY DEF Init, ImportKept, Busy
  <2> QED
    BY <2>1, <2>2, <2>3 DEF CopyInv
<1>2. CopyInv /\ [Next]_vars => CopyInv'
  BY StepOK, TypedStep, OthersWait, DistinctStep, FieldsKeptStep, GivenStep, ImportKeptStep
     DEF IInv, CopyInv
<1>3. CopyInv /\ [Next]_vars =>
        [\A w \in Workers :
           /\ job[w].op = "import" /\ job'[w] = Idle /\ crashes' = crashes
           /\ serial /\ failures' = 0 /\ (sending => job[w].req.status = None)
           => \A c \in {job[w].campaign} : job[w].wanted \subseteq AddressesOf(c)']_vars
  <2> SUFFICES ASSUME CopyInv, [Next]_vars, NEW w \in Workers, job[w].op = "import",
                      job'[w] = Idle, crashes' = crashes, serial, failures' = 0,
                      sending => job[w].req.status = None
               PROVE  \A c \in {job[w].campaign} : job[w].wanted \subseteq AddressesOf(c)'
    OBVIOUS
  <2>1. StoreInv /\ Typed /\ Alone /\ Given /\ ImportKept
    BY DEF CopyInv, IInv
  <2>2. failures = 0
    <3>1. failures <= failures' /\ failures' = 0
      BY <2>1, CountersTyped
    <3>2. failures \in 0..MaxFaults /\ MaxFaults \in Nat
      BY <2>1, StoreAssumption DEF Typed, TypeOK
    <3> QED
      BY <3>1, <3>2
  <2>3. job[w] # Idle /\ w \in Busy
    BY DEF Idle, None, Busy
  <2>4. CopyKept(w)
    <3>1. Import(w)
      BY Zenon DEF Import
    <3> QED
      BY <2>1, <2>2, <2>3, <3>1 DEF ImportKept
  <2>5. ASSUME NEW v \in Workers, Step(v) \/ Crash(v) \/ \E q \in Requests : Begin(v, q)
        PROVE  v = w
    <3>1. Moves(v)
      BY <2>1, <2>5, StepMoves
    <3> QED
      BY <2>1, <2>3, <3>1 DEF Moves, StoreInv, Shape
  <2>6. job' # job
    BY <2>3
  <2>7. Step(w) \/ Crash(w) \/ \E q \in Requests : Begin(w, q)
    BY <2>5, <2>6 DEF Next, vars, SlaveUpdate
  <2>8. ~Crash(w)
    <3>1. crashes # crashes + 1
      BY <2>1 DEF Typed, TypeOK
    <3> QED
      BY <3>1 DEF Crash
  <2>9. Look(w) \/ Insert(w) \/ InsertFields(w) \/ Count(w) \/ Read(w)
    BY <2>1, <2>3, <2>7, <2>8, OtherSteps DEF Begin
  <2>10. Copied(w)
    BY <2>1, <2>2, <2>4, <2>9, ImportCopies
  <2> QED
    BY <2>10 DEF Copied
<1> QED
  BY <1>1, <1>2, <1>3, PTL DEF Spec, ImportComplete
=============================================================================
