# givemail in TLA+

Specifications of [givemail](../src), a bulk mailer: a daemon starts slave
processes for the campaigns of a database, the slaves send them, a Web API lets
users manage them. The modules are written from the C++ code in `src/src`; line
numbers below are of that code. `PROJECT.json` maps every definition to the
lines it stands for.

## The system

| part | state | operations | talks to |
|---|---|---|---|
| `givemaild` (givemaild.cc) | `g_slaveCampaigns`, `iterationsCount` | `runMaster`, `startCampaign`, `startSlave`, the SIGCHLD handler | database; slaves through fork, exit status and SIGCHLD |
| slave, domains (givemail.cc, DomainsMap.cc) | `m_domainsByRecipients`, the low water-mark, `g_mustQuit`, `g_returnCode`, the threads | `runSlave`, `workerThreadFunc`, `sendToDomain`, `getTopDomain`, `getBottomDomain`, `catchSignals` | database; SMTPSession |
| SMTP session (SMTPSession.cc) | `m_msgsCount`, `m_msgsDataSize`, the server queues | `generateMessages`, `queueMessage`, `dispatchMessages`, `cycleServers` | provider, resolver, signing library |
| provider (LibETPANProvider.cc, or LibESMTPProvider.cc) | `m_messages`, `m_session`, the codes of recipients | `startSession`, `updateRecipientsStatus` | remote SMTP servers, status updater |
| status updaters | `m_status` | `updateRecipientStatus`, `updateRecipientsStatus`, `clear` | database |
| campaign store (CampaignSQL.cc on MySQLBase.cc) | tables Campaigns, Recipients, CustomFields, Attachments, Keys, Usage | one method per statement | everybody, with no transactions |
| Web API (WebAPI.cc, webapi-fcgi.cc, AuthSQL.cc, DBUsageLogger.cc) | none of its own | create, get, set, import, list, delete | database |
| servers of a session (SMTPSession.cc, Resolver.cc, ConfigurationFile.cc) | `m_topQueue`, `m_topPriority`, `m_discarded`, the MX records kept per domain | `initializeTopQueue`, `queueNextPriorityRecords`, `setServer`, `discardCurrentServer`, `cycleServers` | resolver, provider |
| csv2givemail | threads or child processes, their arguments, `g_mustQuit` | one unit per row of a file: `runMailing`, `RunUnits`, `workerUnitFunc` | SMTPSession |
| content (MessageDetails.cc, SMTPMessage.cc, the providers) | parts and attachments, encoded once; the stage of libesmtp's callback | `buildMessage`, `messageDataCallback` | provider library |
| keys and usage log (AuthSQL.cc, DBUsageLogger.cc, webapi-fcgi.cc) | tables WebAPIKeys and WebAPIUsage | `verifyAuthentication`, `logRequest`, `deleteKey` | database |
| encodings, signatures | - | formatting | - |

What makes it hard: the signal handler interrupts the daemon anywhere and
signals coalesce; children end between fork and the bookkeeping; worker threads
share a map; a batch is read in one statement and its rows are updated one by
one much later, after servers, which may answer anything, were talked to; slaves
crash and are restarted; errors of the database look like empty results.
`PROJECT.json` lists each hazard at its line, with the properties that cover it.

What makes each part correct:

- daemon: no slave runs twice for the same share of a campaign; a campaign is
  Sent when its slaves have served it, not before, and not never;
- slave: a domain has one sender, no domain is forgotten, the slave ends;
- session, provider, updaters: a recorded status is what happened, nobody is
  emailed twice, every recipient is resolved, deleted messages are not read;
- servers: better ones first, the one that failed is discarded and stays so, the
  search ends;
- partition: the slaves of a campaign leave nobody out and email nobody twice;
- content: both providers make the same message of the same parts, with all of
  them, to its end;
- csv2givemail: every recipient of every row once, units waited for, not too many;
- campaign store and Web API: no duplicate recipients, no campaign deleted by
  halves, complete imports, a repeated request executed a bounded number of times.

## Modules

| module | models |
|---|---|
| `DomainOwnership` | what a slave promises about domains: queued, with one sender, let go of for good |
| `RecipientLife` | what sending promises a recipient: taken by a server once per start of the slave, one status, Sent only after that or after a mistake |
| `BatchRounds` | what a batch of a domain is to the thread that sends it: fetched, then over, with rows that do not wait any more |
| `CampaignLife` | what the daemon promises a campaign: begun with nobody at work on it, a share with one process, sent when all are finished |
| `SlaveThreads` | one slave: map, worker threads, main thread, signals; implements `DomainOwnership`, and `BatchRounds` for each domain |
| `Delivery` | one domain's recipients through `sendToDomain`, `SMTPSession`, the libetpan provider and the status updates; implements `RecipientLife` and `BatchRounds` |
| `GivemailMaster` | the daemon, its handler, its children and the campaigns' statuses; implements `CampaignLife` |
| `CampaignStore` | the tables, as the requests of several Web API processes and the slaves change them |
| `ServerCycle` | MX and A records in their queues, from session to session |
| `Partition` | how the slave processes of a campaign share its domains |
| `MessageTree` | the parts of a message and the tree libetpan is given (operators only) |
| `MessageStages` | libesmtp's callback, against that tree |
| `Mailing` | csv2givemail |
| `RequestLog` | how a request that is sent again is recognised |
| `DeliveryProofs`, `GivemailMasterProofs`, `SlaveThreadsProofs`, `CampaignStoreProofs`, `MailingProofs`, `PartitionProofs`, `ServerCycleProofs`, `RequestLogProofs` | for each of those modules its inductive invariant, the lemmas and the theorems |
| `MC*` | the instances TLC checks, one per component, with a `.cfg` per run |

The components compose by abstraction. A batch is what `SlaveThreads` and `Delivery`
share, and `BatchRounds` what they agree on: the threads assume no more of a batch than
it says, and sending one does no less, both proved. A slave process of `GivemailMaster`
is a process that ends done, failed or asking for a restart, what `SlaveThreads`
does in between; a server that is found or not in `Delivery` is what
`ServerCycle` finds; the slaves of `Partition` are processes of `GivemailMaster` that
do what `SlaveThreads` does with one thread; a request `RequestLog` executes is one
`CampaignStore` serves; a unit of `Mailing` sends a domain as `Delivery` does;
`MessageStages` extends `MessageTree`; the slaves of `CampaignStore` are the status
updates of `Delivery`, in any order.

### SlaveThreads

`map` is the multimap in its order, `waiting` counts the rows of a domain whose
status is Waiting, `pc`, `cur`, `batch` and `apiFailures` are the locals of each
thread, and `failed` says that the batch before failed in `generateMessages()`, which
leaves messages counted in the session. Each access to the map under its mutex is an action, as is each
statement of the database; `generateMessages()` is the interval between
`FetchBatch` and `BatchSent` or `BatchFailed`, so that batches of threads overlap
in every way. `Signal` sets `g_mustQuit` at any time. SELECTs may fail (history
variable `unread`), thread creation may fail, domains may have no MX records,
internal errors may accumulate until the slave asks to be restarted. UPDATEs are
assumed to reach their rows here; `Delivery` has a constant for it. Rows other
processes add or change while the slave runs are left out, as are relays and
the share of a slave with an ID, which is modelled with the listing it made.
The empty domain name is what the low water-mark starts with, and `listDomains`
filters it (CampaignSQL.cc:723), so that the uninitialised count beside it is
never decisive.

### Delivery

Recipients are numbers, a message is the set of recipients added to it, codes are
success, a mapped error, an unmapped error, -1 and -2. `AddRecipients` is one
turn of the loop of `queueMessage`, with signing and the decision to dispatch;
`NoConnection` ... `Quit` are `startSession`; `UpdateRecipient` is one UPDATE.
A message may have no data, when it could not be serialized: it is then given
its recipients but no DATA, and what became of it is read off the answer to the last
RCPT. History variables count the times a server took a message for a recipient
(`accepted`), who was in a session (`tried`) or had no chance to (`excused`), whom
`startSession` took for delivered to without a reason (`mistaken`: an answer to RCPT
that it cannot map, a message without data), and whether the batch before was sent
(`previousOk`).
With libetpan `startSession` returns true whatever happens, so there is neither a
second server nor an internal error; that is how the code is, not a
simplification. After a deleted message was read the behaviour is undefined and
the model stops (`pc = "undefined"`).

### GivemailMaster

`registered` is `g_slaveCampaigns`; `mpc` and `hpc` are the positions of
`runMaster` and of the handler, which runs to its end before `runMaster` goes on;
a statement of the daemon is two steps, for the handler may find its mutex
taken. `pending` is one bit. The configuration, chosen at the start, says whether
the handler may interrupt anywhere (`async`), which is what it does, since no signal is
ever blocked, or only during the sleep; the second
is what remains of the promises once the races with fork, the map and the mutex are
set aside, and its behaviours are a subset of the first's. Children are started
and end at will; one that was waited for while `g_slaveCampaigns` did not have it, or
by the kernel while SIGCHLD was ignored, is `missed`. Process IDs are not reused. The daemon's own end and restart are not
modelled: nothing in the code takes up a campaign left in Sending.

### CampaignStore

Each statement is an action that succeeds or fails; a request is the sequence of
its statements, `job` says how far each process of webapi.fcgi is with its own, and
a request may be cut short (`Crash`) after any of them. `createRecipients`
stands for a Create block and for the import of a CSV file, which have the same
loop. UUIDs are drawn in any order, which the LIMIT of an import depends on. The configuration, chosen at the
start, says whether requests overlap, whether slaves are at work, and whether
Recipients has the column ProcessingDate, which the packaged schema lacks so that
setting statuses fails. History variables tell what a property excuses: rows
inserted for a campaign that is gone (`late`), recipients deleted by themselves,
which leaves their custom fields (`alone`), failed lookups and changed addresses
(`blurred`). A value with a semicolon makes a statement fail, as
`executeSimpleStatement` cuts there. Left out: DomainName, which Set writes only
with a return path and so leaves behind when just an address changes; which column
of a CSV line goes where (importCSV never gets past a column that is not mapped);
and the identifiers of attachments, which `loadAttachment` drops.

### ServerCycle

MX records are numbers in the order sessions go through them; `topQueue` has those
that are queued, each with its addresses, `cached` the records `findDomainLimits`
keeps. `TopQueues` and `NextQueues` are the queues that may come out of asking for
the names of some records, in ascending order, without those nothing is known of. `cycleServers` is four actions: its head (`Cycle`), a record that is set
(`SetServer`) or dropped (`DropRecord`), and what follows (`NextRecord`); the answers
of the resolver are chosen each time it is asked, any subset of a host's addresses,
none for a failed query. What is not an address in an answer (an alias) makes
`addNameResourceRecords` add the record before it once more, `Answers` has that too;
`set` then drops it unless its time to live differs, which is why it may stay.
Records of one answer expire together and between two batches. History: the record
`current` was set from, the records `failed` since they were last set.

### Partition

A slave lists, then goes through its map from the domain with the fewest recipients,
in batches: `getTopDomain` takes `begin()` of an ascending multimap, where its
comment says "Top domains have the most recipients" (DomainsMap.h:42). The map is a
set of entries that remember their numbers and the rows they came in.
`Rows` has each order the database may answer with: domains with as many
recipients are in none. `Taken` is the loop over rows, with the relay; `listings`
remembers which answers slaves were given. Slaves start at any time after each
other, as the daemon's starting them and their connecting take time.

### MessageTree and MessageStages

Tokens stand for headers, texts, boundaries, and each line of each attachment;
line breaks between parts are left out, as is what fields and headers say.
`Tree` is `buildMessage` with its early return for read notifications, `Serialize`
(external) writes a tree as libetpan does. `MessageStages` has the 27 stages in
their order: `Reached` is the fall-through of the `switch`, `Output` what the stage
returns, `NextStage` where the next call begins. What is returned is copied in a
step of its own (`Copy`), for the buffer is global; loading and encoding an
attachment are two steps each, since pointer and length are assigned separately. A
transfer may be cut anywhere and begins again.

### Mailing

`ReadRow` is the body of the loop of `runMailing` up to the check of how many units
run, `Create` the rest of it; `JoinOne` and `Joined` are `join()`. With processes,
signals interrupt `waitpid()` (no `SA_RESTART`), and a child inherits `g_mustQuit`.
`Breakdown` and `GetRecipients` are the two functions of `RecipientsMap`.

### RequestLog

One request may arrive at any process at any time, again and again; `pc` says how
far each is, `executed` counts how often a request was executed of those times it was
read in the minute from a time on. Time is in ticks, a minute and the 15 minutes of the date check are
constants. A statement may fail (`faults`): a row is then missing from the log, or a
request is executed because it could not be looked for. `forgotten` counts the
deletions of keys that took rows. The usage log is the set of rows that name a signature. `KeyNumber` is a
key's ID as the column `KeyID INTEGER` holds it, the same for most keys, which are
UUIDs. Hosts that need no signature (`skipauth`) leave rows nobody looks for, and
are left out.

## Runs

| run | shows | expects |
|---|---|---|
| slave_threads | types, `InFlightStillWaiting`, `NothingForgotten`, refinements of `DomainOwnership` (`OneSenderPerDomain`) and `BatchRounds` (`RoundByRound`), termination | pass |
| delivery | types, `SentMeansAccepted`, `NoDuplicates`, `FailedMeansTried`, refinements of `RecipientLife` (`RecipientsLife`) and `BatchRounds` (`RoundByRound`), termination | pass |
| server_cycle | `PreferredFirst`, `DiscardsCurrent`, `CycleEnds` | pass |
| partition | `AllServed`, `OnceEach` | pass |
| left_waiting | slaves that list at different times leave domains to nobody | violation |
| master | types, `OneProcessPerSlave`, `NoStaleEntry`, refinement of `CampaignLife` (`CampaignsLife`) | pass |
| master_live | `ReadyIsSent` | pass |
| sent_too_early | Sent while slaves are still to be started, with `threaded` set to NO | violation |
| message_stages | `SameMessage`, `NothingLost`, `StreamEnds` | pass |
| mailing | `ServedOnce`, `UnitsOutlived`, `BoundedUnits`, `MailingEnds` | pass |
| store | types, `UniqueAddresses`, `NoOrphans`, `NoStrayFields`, `ImportComplete` | pass |
| request_log | `FewPerMinute` | pass |

Conditions on properties name what breaks them. What `CampaignLife` says of campaigns that
are sent or done again is stated for a handler that interrupts the sleep only
(`sent_too_early` shows one that does not; it takes slaves that are processes, while
conf/givemail.conf:78 ships `<threaded>YES</threaded>`, with which a campaign has one).
`OneProcessPerSlave` leaves out a handler that interrupts anywhere and reprocesses a
campaign, which it may do while `runMaster` starts it. `NoStaleEntry` is stated for every
configuration, and names the children that were missed as the only ones whose
entries stay. `AllServed` is stated for slaves that
were given the same rows (`left_waiting` shows others). The other bounds say what their
exceptions cost: `OnceEach` allows one email per slave with a relay or other rows,
`BoundedUnits` one more child per signal, `FewPerMinute` one more execution per failed
statement or request cut short and one per process for each deletion that took rows,
`SentMeansAccepted` the recipients `startSession` is mistaken about, who are
there in the `delivery` run. The next section has the rest.

### What the instances leave out on purpose

The code does not do what it says in the following cases. Each is in the model and
TLC shows it when the instance is changed as said; the runs above keep to the other
side, so that what holds there is worth something.

- `mistaken` left out of `SentMeansAccepted`: a reply `errorToStatusCode` does not
  know becomes 0 and counts as success (LibETPANProvider.cc:707, 1587), and a message
  without data gets the outcome of a RCPT (1611, 1632). Both are in the `delivery` run.
- `UpdatesLand = FALSE`: the UPDATE names a table the packaged schema does not have
  (DBStatusUpdater.cc:104); `NoDuplicates` fails, recipients are emailed for ever.
- `FailedMeansTried` without its condition: the forced send is skipped when nothing
  was signed (SMTPSession.cc:978), and recipients fail without a server tried.
- `MaxMsgs = 1` in MCDelivery.cfg, for servers that take one message per session: a
  signature that fails leaves the counter at its limit, so the next session is
  started before anybody was added to its message, and the recipient is then added
  to one that is no longer queued and fails untried. The attempt to prove
  `FailedMeansTried` for every `MaxMsgs` found it; it is stated for `MaxMsgs > 1`.
- `failed` left out of `BatchRounds!Sent`, with NumRecipients = 5, BatchSize = 4 and no
  crash: without personalization, a signature that fails after a first session leaves
  the rest of the message counted (SMTPSession.cc:594) and nothing in the provider's
  queue. The session that follows is spent on nobody, the recipients of the next batch
  are added to a message that is not queued any more, and `generateMessages()` returns
  true with nobody's status changed (the batch after that gets them). The attempt to
  prove that a batch that was sent has got somebody a status found it; `RoundByRound`
  says so of batches after one that was sent.
- `map = <<>>` when the main thread of SlaveThreads begins to join: it serves no
  bottom domain (DomainsMap.cc:107), although givemail.cc:517 says so.
- The second disjunct left out of `NoStaleEntry`: a child ends, and its SIGCHLD is
  handled, between its launch and its insertion into `g_slaveCampaigns`
  (givemaild.cc:154-158); the entry that is made then stays, `CheckSlaves` finds it every
  time, and the campaign is believed to be processed for ever (and, as MAX_CAMPAIGNS
  is 1, those behind it are starved). One threaded slave, as packaged, is enough. A
  child that ends while SIGCHLD is ignored (givemaild.cc:301) is missed too.
- `[]<>(mpc = "poll")` under `FairSpec` with an `async` configuration: the handler
  interrupts a statement of `runMaster` and needs the mutex of its connection, which is
  not recursive (MySQLBase.cc:605, 942, 997); the daemon waits for itself
  (`SelfDeadlock`). It holds when the handler interrupts the sleep only.
- `Sending` that is always left, with two slaves and a handler that runs during the
  sleep only: two exits, one signal, one `waitpid()`
  (givemaild.cc:269).
- Two lower priorities are queued together (SMTPSession.cc:309): among them the
  better one does not come first; `PreferredFirst` is about the best one only.
- `IsIP = TRUE` in MCServerCycle.cfg, with one record of one address: a relay that is
  an IP address and was discarded is queued again and again; `CycleEnds` fails, the
  slave hangs (SMTPSession.cc:235, 836).
- When the first look-up of a session finds no address of the best priority,
  `cycleServers` gives up without trying the others: `queueNextPriorityRecords`, called
  first, finds nothing below the priority 1000000, and `initializeTopQueue` is the
  last resort. Only a later call gets to the records of lower priority.
- Two threads in MCMessageStages.cfg: with libesmtp they share `g_attachmentData`
  (LibESMTPProvider.cc:182, 386) and messages get lines of others, even with
  `GIVEMAIL_MUTEX_SESSIONS`, for signing reads a message outside the mutex.
- Headers of inline parts are read from a destroyed string (LibESMTPProvider.cc:359-367):
  `SameMessage` accepts garbage in their place.
- `typed = FALSE` in `FileParts`: an attachment without a content type, that is a
  name without an extension, is dropped by libetpan (LibETPANProvider.cc:487). Inline
  files of a message without HTML are dropped by libetpan, and make a stream whose
  boundaries are never opened with libesmtp; a message of attachments only gets
  an empty part more with libesmtp. MCMessages has HTML with inline files and a text.
- Relays in MCMailing: where relay and internal domain are the same and nobody
  is on it, `listDomains` lists nothing (csv2givemail.cc:117-136); where there is a
  relay and no internal domain, the relay is given nobody (csv2givemail.cc:172).
  `ServedOnce` fails. CampaignSQL.cc:953-984 has the second, too.
- Several slaves with a relay fetch the same recipients (CampaignSQL.cc:768), as
  slaves that list other rows may: `OnceEach` is one email per slave then, and that it is
  no more than that holds in these cases too.
- A Set request without a status writes "Draft" (WebAPI.cc:680, Campaign.cc:34), so
  changing the message of a campaign that is being sent stops it. In
  `CampaignStore` that is `Update` with `status |-> None`.

### Bounds

- SlaveThreads: three domains for two workers, so that one is left over; up to two
  recipients and batches of one, so that a domain takes several rounds; two
  internal errors in a row to a restart (three in the code), so that a counter is
  both reset and reached.
- Delivery: four recipients, batches of three, two per session: a batch spans two
  sessions, a session two messages, and there is a second batch. One crash and one
  missing server, at any point.
- GivemailMaster: one campaign and two slaves for safety, four processes, so that
  each may be restarted once; one change by a user or retry. Three processes and no
  changes are enough for `sent_too_early`. Two campaigns of one
  slave, four processes and two changes for liveness. A look for temporary failures every second
  iteration instead of every sixtieth.

- ServerCycle: four MX records, two of the best priority and two of others, so that a
  record is rotated, a priority is left, and one follows another; an address two
  hosts have, so that what was discarded may come back; two sessions, so that kept
  records are used stale. `server_cycle` is for a provider that reports connection
  errors, as otherwise nothing is ever discarded.
- Partition: two slaves, five recipients on two domains and none, batches of one,
  one restart; four relay configurations.
- MessageStages: up to three attachments, inline or not, empty or of two lines:
  first, middle and last part, first and last line. One cut.
- Mailing: three rows, up to two units, two signals, so that a third unit may run
  beside two whose waits were interrupted; rows that are complete, incomplete,
  with an address in two columns, with recipients on and off the internal domain and
  without a domain.
- RequestLog: two processes, one request, two keys of the same number; a minute
  of two ticks and three ticks in all, so that a request is refused, then served
  again; keys that last one tick; one fault.
- CampaignStore: two processes and two requests, so that each pair of requests
  overlaps or follows; two campaigns to copy between, one of which may be created;
  two addresses and entries that repeat one; four recipients, two of them created
  by a request; one failed statement or one request cut short.

`CHECK_DEADLOCK FALSE` is set for the daemon's runs with a handler that may
deadlock with the statement it interrupted (`hpc = "stuck"`), or where processes run out (`MaxForks`) so that it really may stop; and for the store's,
which stop when the requests (`MaxRequests`) are served; for the partition, mailing and
message runs, whose programs end; for server_cycle, where sessions are bounded
(`MaxSessions`), and for request_log, where time is (`MaxTime`).

### Fairness

`SlaveThreads`: weak fairness for the main thread and for each other thread, as
the operating system schedules them and every call a thread makes returns. No
fairness for signals. `Delivery`: weak fairness for the slave's steps, none for
crashes. `GivemailMaster`: weak fairness for the daemon's steps, for the handler's
and for the end of each child, which `SlaveThreads` shows for a slave. Fairness of
the sleep is that of `sleep(60)`; no more than that is assumed about signals
than that a pending one is delivered. `ServerCycle`: `cycleServers` does not wait for
anything but the resolver, which answers or fails. `MessageStages`: threads go on; no
fairness for cuts. `Mailing`: the parent and each unit are scheduled, a file ends;
none for signals. Partition, RequestLog and CampaignStore have safety properties only.

## Proofs

Each of the eight components with an inductive invariant of its own has a `...Proofs`
module: every invariant, every action property and every refinement that a passing run
checks is proved for all values of the constants the assumptions allow, except those of
`MessageStages`. The invariants were checked by TLC on the instances before they were
proved.

| module | theorems | proved for any | on condition of |
|---|---|---|---|
| `SlaveThreads` | `TypeCorrect`, `BatchesStayWaiting`, `NoneForgotten`, `Refinement`, `DomainRounds` | domains, recipients, workers, rows per batch | - |
| `Delivery` | `TypeCorrect`, `SentAccepted`, `SentOnce`, `FailedTried`, `FinalStatus`, `ImplementsLife`, `ImplementsRounds`, `LessIsLeft` | recipients, sizes of batches and sessions, crashes, missing servers | `SentOnce`, `ImplementsLife`, `ImplementsRounds`, `LessIsLeft`: `UpdatesLand`. `SentAccepted` and `ImplementsLife` except those whom `startSession` is mistaken about |
| `GivemailMaster` | `TypeCorrect`, `OneProcess`, `NoneStale`, `SentServed`, `ImplementsCampaigns` | campaigns, slaves, forks, changes by users, configurations | `OneProcess`: not both `async` and `apiFailures`; `SentServed`: `~async`; `NoneStale` except missed children, of which there are none with neither `async` nor `apiFailures` |
| `CampaignStore` | `TypeCorrect`, `NothingLeftBehind`, `AddressesUnique`, `FieldsGoFirst`, `ImportsComplete` | campaigns, recipients, addresses, processes, requests, faults | - |
| `Mailing` | `Outlived`, `Bounded`, `OnceServed` | rows, configurations, units, signals | `Outlived`: for children, no signals; `Bounded`: one more child for each signal; `OnceServed`: a relay has another domain as internal domain |
| `Partition` | `Apartness`, `Completeness` | slaves, recipients, domains, batches, restarts | `Apartness`: once for the same rows and no relay, else once per slave; `Completeness`: the same rows for all, and a relay has an internal domain |
| `ServerCycle` | `BestFirst`, `RightOneDiscarded`, `NeverAgain`, `SearchEnds` | MX records of priorities below 1000000, addresses, answers, sessions | `SearchEnds`: the domain is no IP address |
| `RequestLog` | `AtMostTwicePerProcess` | processes, requests, keys, lengths of the minute and of a key's life, faults | faults and deletions that took rows add to the bound |

The conditions are those under which the properties hold at all: what happens
without them is listed above. They are in the properties or hypotheses of the theorems, not
of the modules, so that the instances may be changed to break them. The ASSUMEs of the modules say
what the constants are, and TLC evaluates them in the runs. The bounds on what the runs
count (`MaxForks`, `MaxFaults`, `MaxTime`...) are any natural numbers, so that nothing
proved depends on them.

### The invariants

**SlaveThreads.** `InFlightStillWaiting` is not inductive: that nobody else takes rows
from a thread's domain depends on the map having each domain once and on the map's and
the threads' domains being disjoint (`Distinct`, `Exclusive`), which in turn depends on
the bottom end of the map never being served (`NoWaterMark`): were it served as
intended, the domain would stay in the map while the main thread sends to it, and
only the water-mark would keep the workers away. `NothingForgotten` needs
`Accounted`, where each domain with waiting rows is, `StopsDrained`, why a thread
ends, and `Bookkeeping`, what has become of the threads when the main thread
exits. Each action has a lemma that it preserves `IInv`. `Refinement` proves
`Spec => OneSenderPerDomain`, that is `DomainOwnership` under the mapping of its queue to
`map` and of each domain's senders to the threads that have it; it has two lemmas, for a
domain that is taken and one that is let go of, and `Exclusive` gives the guards of both. `DomainRounds`
is `BatchRounds` for every domain at once: a step of a thread is a step of its domain's
batches and of no other's. `Batches` adds that a batch being sent is not empty and that
a failure is remembered by a thread that is sending only.

**Delivery.** A recipient of a batch is at one place: to be created, to be added, or in
one message of the queue (`OnePlace`), and has no status yet (`StillWaiting`). Together
with what is over at each step (`Phases`), that makes `AcceptedOnce` inductive: someone
whose message was taken since the slave started has a status or is about to get one, so
that the next batch does not have them. `OkayMeansAccepted` says of the codes that
become statuses that a success is an accepted message, or a mistake. `TurnToCome` is what `FailedMeansTried` takes: with personalized and
signed messages, whoever is fetched is still to be created or added, is in a message, or
was tried or excused; the two ways out are a signature that failed and a message that
was deleted. `ImplementsLife` needs no more than these. `ImplementsRounds` does:
`Fruitful` follows a batch in which nobody has a status yet, and whose predecessor was
sent, from `generateMessages()` to the update, and says at each step what it is bound to
come to: room is left in the session, or somebody is addressed in the queue, or there
are statuses to record. The rows that wait, together with those of the batch whose status
is recorded (`Unfinished`), are counted, so that a batch ends in one step.
`LessIsLeft` is why `sendToDomain()` does not go round for ever: each step of the slave
decreases `Left`, six numbers in lexicographic order. They are the rounds (twice the
rows that wait, and one more after a failed batch, since the next one may then come to
nothing), the stages of a round, the recipients whose message is to be created, those to
add to it, the steps of a session, the messages to send or the statuses to record.
`Fruitful` makes the first decrease at the end of a round, and `NotYetForced` the second
when what is left in the queue is sent by force. The property, `LessLeft`, is in no run's
cfg; the theorem states it.

**GivemailMaster.** `OneProcessPerSlave` takes `Known`, that processes and entries of
`g_slaveCampaigns` correspond, but for the child `runMaster` has just forked, and
`Distinct`, that a slave of a campaign has one entry and none before it is launched.
`Fresh` is why entries do not get stale but by a child that was missed (`Expected`), and
`NoneStale` says so of all of them: the two races, with the insertion and with the
handler that ignores SIGCHLD, are the only ones. `SentMeansServed` is about history: `EndsNoted`
says what a child that ended stands for, `Accounting` that each slave of a campaign
under way, of those launched, has an entry, served its share or had trouble. As in the
runs, the parts name the configurations they are for: `async` handlers interrupt
anywhere, and with `apiFailures` they reprocess a campaign. `ImplementsCampaigns` maps the
processes that run, no commands, to `at`. Each step is one of `CampaignLife` or
none; `AtWorkKnown` ties whoever is at work to an entry or to the fork just made, so that
`Distinct` gives that a share is launched once; `Picked`, that `runMaster` deals with
campaigns that are ready or sent, and `Shared`, that entries are of the slaves there are,
are invariants of their own. It implies `SentMeansServed` and `OneProcessPerSlave`.

**CampaignStore.** `NoOrphans` is not inductive: that the last DELETE leaves no orphans
depends on what the earlier ones did and on what was inserted since. `Swept` says it of
every deletion under way, past the rows and past the attachments; `Shape` says which
requests are at which statement, and that rows are of campaigns. `Harmless` is the
lemma most actions share: a step that inserts nothing, deletes no campaign and does
not take a deletion past a table preserves `StoreInv`. The others, where a row, an
attachment or a campaign comes or goes, have proofs of their own. `Typed` adds what a
request has left to do at each statement. With one request at a time (`Alone`),
`Distinct` keeps the addresses of a campaign apart, including the one that is about to be
inserted, and `FieldsKept` the fields with their recipients, including those that are
about to be deleted. `ImportComplete` compares the end of an import with its beginning:
`ImportKept` says in between that the count is that of the rows to be read, and later
that everyone who was wanted is in the campaign or in the list to go through. That the
map by address has an entry for every address, and the LIMIT leaves out no row, are the
lemmas `ByAddressAll` and `AllRows`.

**Mailing.** `Remembered`, `Room` and `WaitedFor` are about which units the parent knows
of and waits for; `FewForgotten` counts those it does not wait for any more against the
signals; `RowsHaveUnits` counts them against the complete rows. `EmailsOnce`
and `EmailsAll` say of each unit that a recipient emailed is on none of the domains
left, and that anyone not emailed is on one, or on one that was skipped; `Listed`,
`Got` and `Route` are what `Breakdown` and `GetRecipients` come to.

**Partition.** One invariant has both theorems. `Answers` is what any listing has of
the recipients who wait; without a relay the domains of a slave are rows at its offset
(`Owned`), and no row is at two slaves' offsets (`Division`), so that what a slave has in
its batch is still waiting (`Held`) and was not emailed (`Once`). Whatever they were
given, a recipient was emailed and is held by no more slaves than there are, for none
fetches it any more once one has emailed it (`EachOnce`). `Turns` says of each
domain a slave was given that it was not started, has it in its map, serves it, or that
nobody waits there.

**ServerCycle.** `AtTheBack`: the server in use is the last address of the last record,
which is where `discardCurrentServer` looks; every action that rotates or refills the queues
has to keep or to end that. `InOrder`: what is queued under the best priority is of it,
each of its records is queued or has failed, and what is queued under another priority
was so after all of them failed.
`SearchEnds` is why the search does not go round the same records for
ever: each turn returns or decreases, in lexicographic order, the records of priorities
yet to come, those in the queue, and the pops. When the top priority is queued again the
priorities to come are all of them again; that is no endless loop only because
`initializeAddresses()` leaves out what was discarded: the record in front then has
something to set, and the next turn returns (`Ready`). For an IP address it is not left out, hence the condition.
Like `LessLeft`, `SearchGoesDown` is in no run's cfg.

**RequestLog.** The bound on executions in a minute is the sum of two kinds of requests:
those a process already had before (`Before`), and those that were read later but
before a row was there to refuse them. `Allowance` counts the executions of each minute
together with the processes that may yet add one: until a row of the minute is in the
log, all but one per process are executions yet to be logged (`Unlogged`) or faults,
and from then on only processes that looked too early, or could not look, go on (`Passed`).
A deletion that takes the rows starts this over (`Slack`).

### Only model-checked

- Liveness, under fairness: `Terminates`, `ReadyIsSent`, `CycleEnds`, `MailingEnds`,
  `StreamEnds`, and that a slave ends. TLAPS does not prove temporal properties that
  take ENABLED. Of `Terminates` and `CycleEnds` the descent is proved (`LessIsLeft`,
  `SearchEnds`), and the rest, that a step can be taken until the loop is done and is
  taken then, is what the runs check.
- `SameMessage` and `NothingLost`: `MessageTree` has recursive operators, which the
  provers do not take.
- The two properties that fail, `sent_too_early` and `left_waiting`.

## Plan

What is left are the hazards in `PROJECT.json` no property covers: the Web API as another
writer of a campaign's row, beside the daemon and its handler, whose lost updates no
line of the code rules out, and those that a run leaves out because the property is known
to fail there (an UPDATE that names another table, two threads in libesmtp's callback, the
headers of inline parts), or because nothing holds (the daemon that waits for itself); and the content of messages without recursive operators, so
that `NothingLost` can be proved.

## Not modelled

The statuses libesmtp's callbacks report, the substitution of fields and the
encodings, the signing libraries, the XML and the option parsers, test and
spam-check modes, log files. Of the parsing of CSV files only what a row has: that
`nextColumn` (CSVParser.cc) loses an unquoted last column of one character is left
out, as are the statements `setCampaign` and `setRecipient` send that no database
accepts (no column to set). `PROJECT.json` says why for each component.
