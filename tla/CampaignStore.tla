--------------------------- MODULE CampaignStore ---------------------------
(***************************************************************************)
(* The tables Campaigns, Recipients, CustomFields and Attachments, as the  *)
(* requests of the Web API change them (src/src/WebAPI.cc over             *)
(* CampaignSQL.cc).  Several processes of webapi.fcgi serve requests, each *)
(* one after the other; a request is a sequence of statements without a    *)
(* transaction around them, and slaves update statuses in between.         *)
(*                                                                         *)
(* Identifiers and addresses are numbers, so that they can be ordered.     *)
(* A statement may fail: the connection is lost, or a value holds a        *)
(* semicolon, at which MySQLBase::executeSimpleStatement cuts.  Requests   *)
(* that only read change nothing and are left out, as are the columns      *)
(* nothing here depends on (names, contents, DomainName, dates) and what   *)
(* the daemon does to the statuses of campaigns (see GivemailMaster).      *)
(***************************************************************************)
EXTENDS Integers, FiniteSets, SequencesExt

CONSTANTS
  NumCampaigns,    \* campaigns there may ever be
  NumRecipients,   \* recipients there may ever be
  NumAddresses,    \* email addresses
  Workers,         \* processes of webapi.fcgi
  Requests,        \* requests considered, see AllRequests below
  Outcomes,        \* statuses a slave records
  MaxRequests,     \* bound on the requests served
  MaxFaults        \* bound on statements that fail and requests cut short

ASSUME StoreAssumption ==
  /\ {NumCampaigns, NumRecipients, NumAddresses} \subseteq Nat \ {0}
  /\ {MaxRequests, MaxFaults} \subseteq Nat
  /\ Outcomes \subseteq {"Sent", "Failed"}
  /\ IsFiniteSet(Workers)

Campaigns == 1..NumCampaigns
Ids       == 1..NumRecipients   \* RecipientID, ordered as the database does
Addresses == 1..NumAddresses
Unset     == 0                  \* an element that is not in the request
None      == "none"             \* no such row, or no status in the request

CampaignStatus  == {"Draft", "Ready", "Sending", "Sent", "Resending"}
RecipientStatus == {"Waiting", "Sent", "Failed"}

Row   == [campaign : Campaigns, address : Addresses, status : RecipientStatus]
NoRow == [campaign |-> 0, address |-> Unset, status |-> None]
Entry == [address : Addresses, status : RecipientStatus]

\* What a request may ask for.  createRecipients is a Create block or the
\* import of a CSV file, both of which create recipients one by one; import
\* copies from another campaign.  A status of None is "All", except in
\* setCampaign, setRecipient and createCampaign: not specified.
AllRequests ==
  [op : {"createCampaign"}, message : BOOLEAN, files : BOOLEAN,
   status : CampaignStatus \cup {None}]
  \cup [op : {"createRecipients"}, campaign : Campaigns, entries : Seq(Entry)]
  \cup [op : {"import"}, campaign : Campaigns, source : Campaigns,
        status : RecipientStatus \cup {None}]
  \cup [op : {"setCampaign"}, campaign : Campaigns, message : BOOLEAN,
        files : BOOLEAN, status : CampaignStatus \cup {None}]
  \cup [op : {"setRecipient"}, id : Ids, address : Addresses \cup {Unset},
        status : RecipientStatus \cup {None}]
  \cup [op : {"setStatuses"}, campaign : Campaigns, status : RecipientStatus,
        current : RecipientStatus \cup {None}]
  \cup [op : {"deleteCampaign"}, campaign : Campaigns]
  \cup [op : {"deleteRecipients"}, campaign : Campaigns,
        status : RecipientStatus \cup {None}]
  \cup [op : {"deleteRecipient"}, id : Ids]

ASSUME RequestsAssumption == Requests \subseteq AllRequests

VARIABLES
  serial,    \* requests are served one at a time
  sending,   \* the campaigns have slaves at work
  dated,     \* Recipients has the column ProcessingDate; as packaged, not
  campaign,  \* [Campaigns -> Status, or None]: table Campaigns
  rows,      \* [Ids -> Row, or NoRow]: table Recipients
  fields,    \* recipients that have rows in CustomFields
  attached,  \* campaigns that have rows in Attachments
  known,     \* campaigns whose identifier was given
  used,      \* recipients whose identifier was given
  job,       \* [Workers -> the request served and how far it is]
  served, failures, crashes,  \* counts of what is bounded
  late,      \* history: rows inserted for a campaign that was gone or being
             \* deleted, or that a deletion failed to delete
  lateFiles, \* history: campaigns with such rows in Attachments
  alone,     \* history: recipients deleted by themselves
  blurred    \* history: a lookup failed, or an address was changed

modes   == <<serial, sending, dated>>
ids     == <<known, used>>
bounds  == <<served, crashes>>
history == <<late, lateFiles, alone, blurred>>
tables  == <<campaign, rows, fields, attached>>
vars    == <<modes, tables, ids, job, bounds, failures, history>>

Live == {r \in Ids : rows[r] # NoRow}
RowsOf(c) == {r \in Live : rows[r].campaign = c}
WithStatus(c, s) == {r \in RowsOf(c) : s = None \/ rows[r].status = s}
AddressesOf(c) == {rows[r].address : r \in RowsOf(c)}

\* A worker that waits in FCGX_Accept_r().
Idle == [step |-> "idle", op |-> None]
Busy == {w \in Workers : job[w] # Idle}
----------------------------------------------------------------------------
\* Campaigns being sent or drafted, with at most two recipients, created one
\* at a time, the first of which was sent to.
Init ==
  /\ serial \in BOOLEAN /\ sending \in BOOLEAN /\ dated \in BOOLEAN
  /\ known \in {1..n : n \in Campaigns}
  /\ campaign = [c \in Campaigns |-> CASE c \notin known -> None
                                       [] c = 1 -> "Sending"
                                       [] OTHER -> "Draft"]
  /\ used \in {(1..n) \cap Ids : n \in 0..2}
  /\ \E of \in [used -> known], at \in [used -> Addresses] :
       /\ \A r, q \in used : of[r] = of[q] /\ at[r] = at[q] => r = q
       /\ rows = [r \in Ids |->
            IF r \in used
            THEN [campaign |-> of[r], address |-> at[r],
                  status |-> IF r = 1 THEN "Sent" ELSE "Waiting"]
            ELSE NoRow]
  /\ fields = used /\ attached = {}
  /\ job = [w \in Workers |-> Idle]
  /\ served = 0 /\ failures = 0 /\ crashes = 0
  /\ late = {} /\ lateFiles = {} /\ alone = {} /\ blurred = FALSE

Succeeds == UNCHANGED failures
Fails    == failures + crashes < MaxFaults /\ failures' = failures + 1

At(w, step)  == job[w] # Idle /\ job[w].step = step
Go(w, step)  == job' = [job EXCEPT ![w].step = step]
Done(w)      == job' = [job EXCEPT ![w] = Idle]

\* Mutant: the campaign goes first.
CampaignFirst(op) == CASE op = "deleteRecipients" -> <<"delFields", "delRows">>
                       [] op = "deleteCampaign" ->
                            <<"delCampaign", "delFields", "delRows", "delFiles">>
\* Mutant: recipients go before the custom fields that are found through them.
RowsFirst(op) == CASE op = "deleteRecipients" -> <<"delRows", "delFields">>
                   [] op = "deleteCampaign" ->
                        <<"delRows", "delFields", "delFiles", "delCampaign">>
\* The order in which deleteRecipients() and deleteCampaign() empty the tables.
Deletions(op) == CASE op = "deleteRecipients" -> <<"delFields", "delRows">>
                   [] op = "deleteCampaign" ->
                        <<"delFields", "delRows", "delFiles", "delCampaign">>

FirstStep(q) ==
  CASE q.op = "createRecipients" -> "look"
    [] q.op = "import"           -> "count"
    [] q.op = "createCampaign"   -> "create"
    [] q.op = "setCampaign"      -> IF q.message THEN "message" ELSE "update"
    [] q.op = "deleteRecipient"  -> "delRow"
    [] q.op \in {"setRecipient", "setStatuses"} -> q.op
    [] OTHER                     -> Deletions(q.op)[1]

\* Refused without a statement: no message, no recipient, a campaign copied
\* to itself, no property to set.
Refused(q) ==
  \/ q.op = "createCampaign" /\ ~q.message
  \/ q.op = "createRecipients" /\ q.entries = <<>>
  \/ q.op = "import" /\ q.source = q.campaign
  \/ q.op = "setRecipient" /\ q.address = Unset /\ q.status = None

Named(q) == (IF "campaign" \in DOMAIN q THEN {q.campaign} ELSE {})
            \cup (IF "source" \in DOMAIN q THEN {q.source} ELSE {})

\* A request names identifiers that were given, of objects that may be gone.
Begin(w, q) ==
  /\ job[w] = Idle
  /\ serial => Busy = {}
  /\ served < MaxRequests /\ served' = served + 1
  /\ Named(q) \subseteq known
  /\ "id" \in DOMAIN q => q.id \in used
  /\ job' = [job EXCEPT ![w] =
       IF Refused(q) THEN Idle
       ELSE [step |-> FirstStep(q), op |-> q.op, req |-> q, count |-> 0, id |-> 0,
             campaign |-> IF "campaign" \in DOMAIN q THEN q.campaign ELSE 0,
             todo |-> IF q.op = "createRecipients" THEN q.entries ELSE <<>>,
             wanted |-> {}]]
  /\ UNCHANGED <<modes, tables, ids, failures, crashes, history>>

\* The process dies, or the connection it has: nothing is rolled back.
Crash(w) ==
  /\ job[w] # Idle
  /\ failures + crashes < MaxFaults /\ crashes' = crashes + 1
  /\ Done(w)
  /\ UNCHANGED <<modes, tables, ids, served, failures, history>>
----------------------------------------------------------------------------
\* Creating recipients, one entry after the other.

\* Mutant: the loop does not look for its end.
NeverEnds(rest) == "look"
\* The statement executed after an entry is done with.
AfterEntry(rest) == IF rest = <<>> THEN "idle" ELSE "look"

NextEntry(w) ==
  LET rest == Tail(job[w].todo) IN
  job' = [job EXCEPT ![w] = IF AfterEntry(rest) = "idle" THEN Idle
                            ELSE [@ EXCEPT !.todo = rest, !.step = AfterEntry(rest)]]

\* Mutant: only recipients that wait are looked for.
KnownWaiting(c, a) == \E r \in RowsOf(c) : rows[r].address = a /\ rows[r].status = "Waiting"
Known(c, a) == a \in AddressesOf(c)

\* hasRecipient(): a SELECT that fails finds nobody.
Look(w) ==
  /\ At(w, "look")
  /\ \/ /\ Succeeds
        /\ IF Known(job[w].campaign, Head(job[w].todo).address)
           THEN NextEntry(w) ELSE Go(w, "insert")
        /\ UNCHANGED blurred
     \/ Fails /\ Go(w, "insert") /\ blurred' = TRUE
  /\ UNCHANGED <<modes, tables, ids, bounds, late, lateFiles, alone>>

\* Somebody is about to delete campaign c and is past the given steps.
Doomed(c, steps) ==
  \/ campaign[c] = None
  \/ \E w \in Busy : /\ job[w].op = "deleteCampaign" /\ job[w].campaign = c
                     /\ job[w].step \in steps

\* createNewRecipient(), first statement: nothing checks that the campaign
\* is there.
Insert(w) ==
  LET c == job[w].campaign  e == Head(job[w].todo) IN
  /\ At(w, "insert")
  /\ \/ /\ Succeeds
        /\ \E r \in Ids \ used :
             /\ used' = used \cup {r}
             /\ rows' = [rows EXCEPT ![r] =
                  [campaign |-> c, address |-> e.address, status |-> e.status]]
             /\ late' = IF Doomed(c, {"delFiles", "delCampaign"}) THEN late \cup {r} ELSE late
             /\ job' = [job EXCEPT ![w].step = "fields", ![w].id = r]
     \/ Fails /\ NextEntry(w) /\ UNCHANGED <<used, rows, late>>
  /\ UNCHANGED <<modes, campaign, fields, attached, known, bounds, lateFiles, alone, blurred>>

\* Its other statements: custom fields; their failure is ignored.
InsertFields(w) ==
  /\ At(w, "fields")
  /\ \/ Succeeds /\ fields' = fields \cup {job[w].id}
     \/ Fails /\ UNCHANGED fields
  /\ NextEntry(w)
  /\ UNCHANGED <<modes, campaign, rows, attached, ids, bounds, history>>

\* Import from another campaign: countRecipients().
Count(w) ==
  LET q == job[w].req  found == WithStatus(q.source, q.status) IN
  /\ At(w, "count")
  /\ \/ Succeeds /\ job' = [job EXCEPT ![w].step = "read", ![w].count = Cardinality(found),
                                       ![w].wanted = {rows[r].address : r \in found}]
     \/ Fails /\ job' = [job EXCEPT ![w].step = "read", ![w].count = 0]
  /\ UNCHANGED <<modes, tables, ids, bounds, history>>

\* Mutant: one too few.
OneTooFew(n, set) == {r \in set : Cardinality({q \in set : q <= r}) < n}
\* ORDER BY RecipientID LIMIT n
FirstRows(n, set) == {r \in set : Cardinality({q \in set : q <= r}) <= n}

\* The map of getRecipients(): by address, the last row read wins.
ByAddress(set) ==
  LET last == {r \in set : \A q \in set : rows[q].address = rows[r].address => q <= r}
      entries == {[address |-> rows[r].address, status |-> rows[r].status] : r \in last}
  IN  {s \in SetToSeqs(entries) :
         \A i, j \in DOMAIN s : i < j => s[i].address < s[j].address}

\* getRecipients(): a failure, too, ends the import without an error.
Read(w) ==
  LET q == job[w].req
      found == FirstRows(job[w].count, WithStatus(q.source, q.status))
  IN
  /\ At(w, "read")
  /\ \/ /\ Succeeds
        /\ \E entries \in ByAddress(found) :
             IF entries = <<>> THEN Done(w)
             ELSE job' = [job EXCEPT ![w].step = "look", ![w].todo = entries]
     \/ Fails /\ Done(w)
  /\ UNCHANGED <<modes, tables, ids, bounds, history>>
----------------------------------------------------------------------------
\* Campaigns.

\* The status of a Campaign object: Campaign() starts as a draft.
StatusGiven(s) == IF s = None THEN "Draft" ELSE s

\* createNewCampaign()
Create(w) ==
  /\ At(w, "create")
  /\ \/ /\ Succeeds
        /\ \E c \in Campaigns \ known :
             /\ known' = known \cup {c}
             /\ campaign' = [campaign EXCEPT ![c] = StatusGiven(job[w].req.status)]
             /\ job' = [job EXCEPT ![w].step = "attach", ![w].campaign = c]
     \/ Fails /\ Done(w) /\ UNCHANGED <<known, campaign>>
  /\ UNCHANGED <<modes, rows, fields, attached, used, bounds, history>>

\* updateMessage(): the content, which is there or not with the campaign.
SetMessage(w) ==
  /\ At(w, "message")
  /\ \/ Succeeds /\ Go(w, "detach")
     \/ Fails /\ Go(w, "update")
  /\ UNCHANGED <<modes, tables, ids, bounds, history>>

\* ... and the attachments it had.
Detach(w) ==
  /\ At(w, "detach")
  /\ \/ Succeeds /\ attached' = attached \ {job[w].campaign}
     \/ Fails /\ UNCHANGED attached
  /\ Go(w, "attach")
  /\ UNCHANGED <<modes, campaign, rows, fields, ids, bounds, history>>

\* setAttachments(), which does not look for the campaign either.
Attach(w) ==
  LET c == job[w].campaign IN
  /\ At(w, "attach")
  /\ \/ /\ Succeeds
        /\ attached' = IF job[w].req.files THEN attached \cup {c} ELSE attached
        /\ lateFiles' = IF job[w].req.files /\ Doomed(c, {"delCampaign"})
                        THEN lateFiles \cup {c} ELSE lateFiles
     \/ Fails /\ job[w].req.files /\ UNCHANGED <<attached, lateFiles>>
  /\ IF job[w].op = "createCampaign" THEN Done(w) ELSE Go(w, "update")
  /\ UNCHANGED <<modes, campaign, rows, fields, ids, bounds, late, alone, blurred>>

\* setCampaign()
Update(w) ==
  LET c == job[w].campaign IN
  /\ At(w, "update")
  /\ \/ /\ Succeeds
        /\ campaign' = [campaign EXCEPT ![c] =
             IF @ = None THEN None ELSE StatusGiven(job[w].req.status)]
     \/ Fails /\ UNCHANGED campaign
  /\ Done(w)
  /\ UNCHANGED <<modes, rows, fields, attached, ids, bounds, history>>
----------------------------------------------------------------------------
\* Recipients.

Changed(row, q) ==
  [row EXCEPT !.address = IF q.address = Unset THEN row.address ELSE q.address,
              !.status = IF q.status = None THEN row.status ELSE q.status]

\* setRecipient(): a status needs the column ProcessingDate; nothing checks
\* that the address is new.
SetRecipient(w) ==
  LET q == job[w].req IN
  /\ At(w, "setRecipient")
  /\ \/ /\ Succeeds
        /\ q.status # None => dated
        /\ rows' = [r \in Ids |-> IF r \in Live \cap {q.id} THEN Changed(rows[r], q) ELSE rows[r]]
        /\ blurred' = (blurred \/ q.address # Unset)
     \/ Succeeds /\ q.status # None /\ ~dated /\ UNCHANGED <<rows, blurred>>
     \/ Fails /\ UNCHANGED <<rows, blurred>>
  /\ Done(w)
  /\ UNCHANGED <<modes, campaign, fields, attached, ids, bounds, late, lateFiles, alone>>

\* setRecipientsStatus()
SetStatuses(w) ==
  LET q == job[w].req IN
  /\ At(w, "setStatuses")
  /\ \/ /\ Succeeds /\ dated
        /\ rows' = [r \in Ids |-> IF r \in WithStatus(q.campaign, q.current)
                                  THEN [rows[r] EXCEPT !.status = q.status] ELSE rows[r]]
     \/ Succeeds /\ ~dated /\ UNCHANGED rows
     \/ Fails /\ UNCHANGED rows
  /\ Done(w)
  /\ UNCHANGED <<modes, campaign, fields, attached, ids, bounds, history>>

\* updateRecipientStatus() of a slave, by address.
SlaveUpdate(r, s) ==
  /\ sending
  /\ r \in Live /\ rows[r].status = "Waiting"
  /\ rows' = [q \in Ids |-> IF /\ q \in RowsOf(rows[r].campaign)
                               /\ rows[q].address = rows[r].address
                            THEN [rows[q] EXCEPT !.status = s] ELSE rows[q]]
  /\ UNCHANGED <<modes, campaign, fields, attached, ids, job, bounds, failures, history>>
----------------------------------------------------------------------------
\* Deletions.  After a failure they go on with the next table.

Emptied(removed) == [r \in Ids |-> IF r \in removed THEN NoRow ELSE rows[r]]

\* The recipients a deletion is about.
Selected(w) == WithStatus(job[w].campaign,
                          IF job[w].op = "deleteRecipients" THEN job[w].req.status ELSE None)

\* On to the next table.
NextDeletion(w) ==
  LET order == Deletions(job[w].op)
      i == CHOOSE j \in DOMAIN order : order[j] = job[w].step
  IN  IF i = Len(order) THEN Done(w) ELSE Go(w, order[i + 1])

DeleteFields(w) ==
  /\ At(w, "delFields")
  /\ \/ Succeeds /\ fields' = fields \ Selected(w)
     \/ Fails /\ UNCHANGED fields
  /\ NextDeletion(w)
  /\ UNCHANGED <<modes, campaign, rows, attached, ids, bounds, history>>

DeleteRows(w) ==
  /\ At(w, "delRows")
  /\ \/ Succeeds /\ rows' = Emptied(Selected(w)) /\ UNCHANGED late
     \/ Fails /\ UNCHANGED rows
        /\ late' = IF job[w].op = "deleteCampaign" THEN late \cup Selected(w) ELSE late
  /\ NextDeletion(w)
  /\ UNCHANGED <<modes, campaign, fields, attached, ids, bounds, lateFiles, alone, blurred>>

DeleteFiles(w) ==
  /\ At(w, "delFiles")
  /\ \/ Succeeds /\ attached' = attached \ {job[w].campaign} /\ UNCHANGED lateFiles
     \/ Fails /\ UNCHANGED attached /\ lateFiles' = lateFiles \cup {job[w].campaign}
  /\ NextDeletion(w)
  /\ UNCHANGED <<modes, campaign, rows, fields, ids, bounds, late, alone, blurred>>

DeleteCampaign(w) ==
  /\ At(w, "delCampaign")
  /\ \/ Succeeds /\ campaign' = [campaign EXCEPT ![job[w].campaign] = None]
     \/ Fails /\ UNCHANGED campaign
  /\ NextDeletion(w)
  /\ UNCHANGED <<modes, rows, fields, attached, ids, bounds, history>>

\* deleteRecipient() leaves the custom fields where they are.
DeleteRow(w) ==
  /\ At(w, "delRow")
  /\ \/ Succeeds /\ rows' = Emptied({job[w].req.id}) /\ alone' = alone \cup {job[w].req.id}
     \/ Fails /\ UNCHANGED <<rows, alone>>
  /\ Done(w)
  /\ UNCHANGED <<modes, campaign, fields, attached, ids, bounds, late, lateFiles, blurred>>

Step(w) ==
  \/ Look(w) \/ Insert(w) \/ InsertFields(w) \/ Count(w) \/ Read(w)
  \/ Create(w) \/ SetMessage(w) \/ Detach(w) \/ Attach(w) \/ Update(w)
  \/ SetRecipient(w) \/ SetStatuses(w)
  \/ DeleteFields(w) \/ DeleteRows(w) \/ DeleteFiles(w) \/ DeleteCampaign(w) \/ DeleteRow(w)

Next ==
  \/ \E w \in Workers : Step(w) \/ Crash(w) \/ \E q \in Requests : Begin(w, q)
  \/ \E r \in Ids, s \in Outcomes : SlaveUpdate(r, s)

Spec == Init /\ [][Next]_vars
----------------------------------------------------------------------------
Steps == {"look", "insert", "fields", "count", "read", "create", "message", "detach",
          "attach", "update", "setRecipient", "setStatuses", "delFields", "delRows",
          "delFiles", "delCampaign", "delRow"}

Operations == {"createCampaign", "createRecipients", "import", "setCampaign", "setRecipient",
               "setStatuses", "deleteCampaign", "deleteRecipients", "deleteRecipient"}

Job == [step : Steps, op : Operations, req : Requests, count : 0..NumRecipients,
        id : Ids \cup {0}, campaign : Campaigns \cup {0}, todo : Seq(Entry),
        wanted : SUBSET Addresses]

\* Types; while recipients are created there is an entry to create.
TypeOK ==
  /\ serial \in BOOLEAN /\ sending \in BOOLEAN /\ dated \in BOOLEAN
  /\ campaign \in [Campaigns -> CampaignStatus \cup {None}]
  /\ rows \in [Ids -> Row \cup {NoRow}]
  /\ fields \subseteq Ids /\ attached \subseteq Campaigns
  /\ known \subseteq Campaigns /\ used \subseteq Ids
  /\ \A w \in Busy : /\ job[w] \in Job
                     /\ job[w].step \in {"look", "insert", "fields"} => job[w].todo # <<>>
  /\ served \in 0..MaxRequests /\ failures \in 0..MaxFaults /\ crashes \in 0..MaxFaults
  /\ late \subseteq Ids /\ lateFiles \subseteq Campaigns /\ alone \subseteq Ids
  /\ blurred \in BOOLEAN

\* No two recipients of a campaign have the same address, which the status
\* updates of the slaves rely on (DBStatusUpdater.cc:135), when requests are
\* served one at a time, every lookup got an answer, and nobody set an
\* address: whatever files and campaigns are imported, in pieces or again
\* after a crash.
UniqueAddresses ==
  serial /\ ~blurred =>
    \A r, q \in Live : rows[r].campaign = rows[q].campaign /\ rows[r].address = rows[q].address
                       => r = q

\* However requests overlap and wherever they are cut short, a campaign that
\* is gone has left neither recipients nor attachments, but those inserted
\* while or after it was deleted and those a failed DELETE did not reach: the
\* campaign goes last, so that a deletion can be repeated.
NoOrphans ==
  /\ \A r \in Live : campaign[rows[r].campaign] = None => r \in late
  /\ \A c \in attached : campaign[c] = None => c \in lateFiles

\* Custom fields do not outlive their recipient, but one deleted by itself,
\* when requests are served one at a time, no slave changes which recipients
\* a deletion selects between its statements, and no statement fails.
NoStrayFields ==
  serial /\ ~sending /\ failures = 0 => fields \subseteq Live \cup alone

\* An import from another campaign that runs to its end has copied everyone
\* who was selected when it started, when nobody interferes: the count that
\* limits the second SELECT is that of the rows it reads.
ImportComplete ==
  [][\A w \in Workers :
       /\ job[w].op = "import" /\ job'[w] = Idle /\ crashes' = crashes
       /\ serial /\ failures' = 0 /\ (sending => job[w].req.status = None)
       => \A c \in {job[w].campaign} : job[w].wanted \subseteq AddressesOf(c)']_vars
=============================================================================
