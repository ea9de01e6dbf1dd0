# Verification of PayHub

PayHub distributes payslips: a connector on the customer's network reads the
payroll of Sage, an API stores it, workers turn it into documents, employees
view and sign them.  This directory holds TLA+ models of the program in `src/`,
the TLC configurations that check them on small instances, and proofs, checked
by TLAPS, of the properties that matter most.

At its centre are the **import pipeline**, where three kinds of process write the
same rows with no common lock, and the **documents of a payslip**, which
normalizations, releases, signatures, synchronizations and deletions share.
Around them are what works **in the background** (schedules, the runs they start,
notifications, migrations, the collection and its normalizer) and what **people**
do (employees and their sessions on the phone and in the browser, the evidence of
a signature, new companies).  Section 8 says what is left out and why.

## 1. Inventory

Paths are under `src/apps/api/src/` unless they begin with another directory.

| Part | State it keeps | Operations | What is hard, what must hold |
|---|---|---|---|
| Runs and jobs (`payroll-run.service.ts`, migrations 002, 003, 006) | `payroll_runs`, `import_jobs` | startGroup, startEmployee | Two inserts without a transaction, and a job looked up and then inserted without a unique key. A run must close with its jobs. |
| Sage connector (`connector/PayHub.SageConnector`) | the job in memory | poll, collect, report | One attempt per HTTP call, a five-minute timeout, calls that outlive their timeout, restarts. |
| Agent API (`connector.service.ts`) | the same rows, `connector_raw_batches`, logs | claimNext, progress, appendLog, storeBatch, complete, fail | Check and update are separate statements; `fail` checks less than the others and writes two tables. |
| Normalization queue (`normalization-queue.service.ts`) | the `normalization_*` columns | claimNext, renew, complete, fail | Leases, takeovers, a limit of attempts, lost answers of COMMIT. |
| Worker (`worker/main.ts`, `watchdog.ts`, `payroll.service.ts`) | the claim in memory, heartbeat | processClaimedJobs, normalizeClaimedJob | Crash at any point, a claim that outlives its owner, a watchdog that must beat the lease. |
| Payslips (`payroll.service.ts`) | `payrolls`, `payroll_documents`, files | persist, repair, release, markViewed, archive | Versions against signatures and deletions that happen meanwhile; files written before the row; raw batches archived by the worker and by a script under one name. |
| Signature (`signature.service.ts`) | requests, links, evidence, chain of events, files | createLink, sign, verify | One signature per payslip over an unchanged document; an unforked chain. |
| Group schedules (`group.service.ts`) | `group_schedules`, `employee_groups` | create, update, list | Edits disable and enable rows whose executions mark what was searched for today; the next search that is shown must be the one that starts. |
| Scheduled runs (`worker/main.ts`, `payroll-run.service.ts`) | `schedule_executions` | claim, startGroup, end | A lease shorter than a cycle; ends that name the row by id alone; a run and a job without a transaction. |
| Notification outbox (`notification-outbox.service.ts`, `push-provider.ts`) | `notification_outbox`, subscriptions, preferences | raise, dispatch | Devices answer one by one, workers die between the push and the UPDATE. At least once, bounded attempts. |
| Employees (`employee.service.ts`) | `employees`, identities, lookup jobs | lookup, create, sync, refresh of documents, reset, delete | A result is put together from several reads and applied at any time after; a refresh rewrites a document being signed; a deletion must spare signed ones. |
| Sessions of employees (`auth.service.ts`, the PIN in `signature.service.ts`) | sessions, selections, the counter of wrong PINs | login, first access, the PIN at a signature, select, switch, log-out, reset | A counter that is read, changed and written, with a session and without; one session per selection; a reset during a login. |
| Phone (`src/apps/mobile`) | two secrets in memory and in the secure store, whom it shows | login, switch, log-out, start | Killed between two writes, answers lost: what is shown as logged in must be able to act. |
| Browser (`src/apps/dashboard`, `routes/auth.routes.ts`) | cookies shared by tabs, a token and a principal in each tab | login, me, switch, log-out | Answers of two tabs cross; `me` renews a token that all of them share. |
| Evidence of a signature (`signature.service.ts`, `signature-evidence.ts`, `evidence.ts`) | chain of events, links, evidence, signed file, original | link, identity, sign, rewrite the original, verify; what a device tells of itself | An unforked chain, an evidence that names the original of the row; a verdict that is wrong for no other reason than a cause; a device must not stand in the way. |
| Provisioning (`company-provisioning.service.ts`) | companies, users, masters | provision, bootstrap, createAnalyst | Idempotent under repeats and races for rows that are not there yet. |
| Migrations (`db/migrate.ts`) | `schema_migrations`, `schema_migration_runs` | runMigrations | DDL that commits by itself and leaves the rest of the file without a transaction, a crash in the middle, a lock that goes with its connection. |
| Collection and normalizer (`SageReadOnlyClient.cs`, `normalizer.service.ts`) | batches; none | ReadPayroll, normalize | Rows in any order and any cut; the payslip must not depend on it. |
| Earlier tree (`domain`, `infra`, `http`) | its own users, sessions, import jobs | login, sessions, bootstrap; create, claim, report | Touching a session that has ended; jobs taken over under a connector that works. `app.ts` does not mount it, but `scripts/bootstrap-master.ts` and its tests use its repositories. |
| Run events, audit, settings, heartbeat row, PDF layout, screens | append-only logs, single rows, none | | Nothing reads them back to decide; not modelled. |

How the parts of the pipeline meet: an administrator (or the scheduler) creates
a run and its job; the connector polls `jobs/next`, which makes the job
`RUNNING`; it sends batches and at the end `complete`, which makes the job
`COMPLETED` and its `normalization_state` `PENDING`, or `fail`; a worker claims
the job under a lease, stores one payslip per transaction, renews the lease
after each, and ends the claim with `complete` or `fail`, which also close the
run.  All of it goes through two tables, and apart from the agent's `claimNext`
every decision is taken in one statement or transaction and acted on in
another.

How the documents meet: a normalization creates the first version of a payslip,
repairs its document when the data are the same, or replaces it with a new
version when they are not; an officer releases the current version, which makes
a request for signature; the employee views and signs it.  Meanwhile a
synchronization with Sage, or a download of a document with an old footer,
rewrites `original.pdf`, and a MASTER may delete the employee.  Signing and
normalizing decide under a row lock or a unique key; the rewriters decide on
what they read and take no lock.

How the rest meets these: an edit of a group's schedules decides what is due
(`GroupSchedules`); a due schedule becomes an execution, a run and a job
(`ScheduledRuns`), and the job is one of the pipeline's; the connector's tables
(`SageCollection`) are what the normalization reads, and what it makes of them
(`PayrollNormalizer`) is the data of a version in `PayslipDocuments`.  An
employee is there because a lookup found her (`EmployeeRegistry`), and her
sessions (`EmployeeAccess`) are what the phone and the tabs keep.
`SignatureEvidence` takes the transaction of a signature as one step, which
`PayslipDocuments` opens up, and opens up the chain of events instead; both have
the writers of `original.pdf`, the one for what the tables say of a signature, the
other for what the public verification makes of it.

`PROJECT.json` lists every component with its status, and every hazard with its
line and the properties that watch it.

## 2. Modules

| Module | Models | EXTENDS |
|---|---|---|
| `ImportRows` | the columns of `import_jobs` and `payroll_runs` that the pipeline uses; creation of runs and jobs | |
| `ConnectorAgent` | the connector and the agent endpoints | `ImportRows` |
| `NormalizationWorker` | the normalization queue and the workers, untimed | `ImportRows` |
| `ImportPipeline` | the composition, its fairness and its properties | the two above |
| `DurableQueue` | what the normalization columns promise, whoever writes them | |
| `WorkerLease` | lease, cycle and watchdog under a clock | |
| `ImportPipelineProofs`, `WorkerLeaseProofs` | the proofs | the modules they prove about |
| `PayslipDocuments` | the versions of one payslip, their rows and files, and everyone who writes them | |
| `SignedPayslip` | what those versions promise about signatures | |
| `GroupSchedules` | the schedules of a group, what is due, the next search that is shown | |
| `ScheduledRuns` | executions, `startGroup` for them, and their ends, by overlapping workers | |
| `NotificationOutbox` | notifications, devices, dispatchers | |
| `SchemaMigrations` | `runMigrations` by several processes | |
| `PayrollNormalizer` | the pure functions from rows of Sage to payslips | |
| `SageCollection` | `ReadPayrollAsync`, batches, and the normalizer applied to them | `PayrollNormalizer` |
| `RawArchive` | the archive of a job's raw batches, by calls that may overlap | |
| `EarlierImportJobs`, `EarlierAccounts` | jobs, and accounts with their sessions, of the earlier tree, in memory and in MySQL | |
| `EmployeeRegistry` | lookups of a contract, registration and synchronization | |
| `EmployeeAccess` | an identity, its PIN, its sessions and selections | |
| `PhoneSession` | the session on a phone: API, memory, secure store | |
| `DashboardSession` | the sessions of a browser: API, cookies, tabs | |
| `SignatureEvidence` | events, links, signature, verification | |
| `ClientEvidence` | what a device tells, and what the route makes of it | |
| `CompanyProvisioning` | new companies, their masters, analysts | |
| `SchemaMigrationsProofs` | proofs about the migrations | `SchemaMigrations` |
| `CollectionProofs` | proofs about a collection's payslips and the archive | `SageCollection`, `RawArchive` |
| `PayslipDocumentsProofs` | proofs about the versions of a payslip and their refinement | `PayslipDocuments` |
| `BackgroundWorkProofs` | proofs about notifications, scheduled runs, schedules and the earlier jobs, and the types of all that works in the background | `MCBackgroundWork` and the proofs about its other components |
| `EmployeeProofs` | proofs about access, registry and the browser | `EmployeeAccess`, `EmployeeRegistry`, `DashboardSession` |
| `PeopleAndDocumentsProofs` | proofs about provisioning, earlier accounts, the phone and the evidence, and the types of all that people do | `MCPeopleAndDocuments`, `EmployeeProofs` |
| `MCImportPipeline`, `MCPayslipDocuments` | instances for TLC | the models |
| `MCBackgroundWork` | instances of the schedules, scheduled runs, outbox, migrations, collection, archive, leases and earlier jobs | those eight |
| `MCPeopleAndDocuments` | instances of the registry, access, phone, browser, evidence (two), provisioning and earlier accounts | those eight |

The components of the last two share no variable that a property speaks of.  So a
behaviour follows one of them, its `subject`, chosen in the initial state, and
the others keep their initial states: a run then costs the sum of its components'
states and not their product, and still fires every action.

### State and actions against the code

*Rows.*  A variable is a column, with `"absent"` before the INSERT and `"null"`
for NULL; `leaseLapsed[j]` stands for
`normalization_lease_until < UTC_TIMESTAMP()`.  `company_id` is left out: every
agent statement filters by it, and to the worker the jobs of another company are
just more jobs.  `CANCELLED` is left out: no statement writes it.

*Connector.*  `agent[c]` is the point where `ExecuteJobAsync` stands: polling,
collecting, or awaiting the answer of `complete`, `log` or `fail`.  `calls`
holds every request that the API may still execute, whether or not the connector
still waits for it (`Awaited`): a call is lost, refused, answered, or answered
to nobody.  Each statement in autocommit is an action of its own:
`CompleteCheck` and `CompleteUpdate`, `FailJob` and `FailRun`.  Progress, logs
and batches sent during the collection all begin with `assertOwnedJob` and
change nothing that the properties read; they are the guard of `AgentCollects`.

*Worker.*  `worker[w]` is the point where `processClaimedJobs` stands.
`SelectCandidate` and `ClaimCandidate` are the two statements of `claimNext`,
and `seen` is the attempt count as the first one read it.  `CheckClaim` is
`normalizationJob`.  `PersistSlip` is the transaction of one payslip, `RenewLease`
the renew after it, `CompleteClaim` and `FailClaim` the transactions of
`complete` and `fail`.  `NormalizationThrows` is any exception inside the `try`.
When a COMMIT takes effect and its answer is lost, `CompleteClaim` goes to the
catch block and `RenewLease` does too.  A payslip is reduced to the run its
current version belongs to (`slipRun`), which is what `fail` counts.

*Abstractions of the worker.*  Payslips are stored one at a time, the default of
`PAYROLL_GENERATION_CONCURRENCY`.  `persistNormalizedPayroll`'s choice between a
new version, a repair, no change and a skip is left open wherever the data
allows it.  The eight tries of `claimNext` are not counted: after the eighth it
pauses and tries again.  A process that restarts takes a new `instanceId` in the
code and keeps its name here; a claim it left behind would then look like its
own, which matters to no statement, because each one that names an owner also
belongs to a job in memory, and that was lost.  A stop by SIGTERM is a crash that
happens between two jobs.  Deletion of employees, which deletes payslips, is
outside this model.

*Time.*  `NormalizationWorker` has no clock.  A lease may lapse at any moment: one
whose owner is dead or gone (`OrphanLapses`), or, as a fault, one whose owner
is busy (`LapsesUnderWorker`: a suspended machine, a stopped database).
`WorkerLease` has the clock and nothing else of the worker, and shows that
without such a fault the second never happens.

*Archive.*  `archiver[a]` is a call of `archiveCompletedJobRaw`, with the rows that
its SELECT has brought and that are still before it, taken by their ids.  The file
of a batch is one variable for all calls, since its name is made of the row alone;
`writeFile` empties it first, so writing is `OpenFile` and `FinishFile`.
`Readable` is what `rawRows` makes of a row.  `callsMet` only records that two
calls overlapped.

*Documents.*  One payslip is enough for `PayslipDocuments`: no statement relates
two, except the deletion of an employee, which treats them all alike.  A version
is its place in `payrolls.version`; columns of four tables are functions of it,
`file` and `signedFile` are its two files.  A PDF is reduced to what differs
between two renderings of it: the Sage data (`Sources`), the employee's data
(`Profiles`) and the old footer; a signed PDF is who made it, since it shows the
second of the signature.  A SHA-256 is its content.  A transaction is one action
unless it can be seen from outside before COMMIT: the repair writes its file
under the lock, so it has `RepairWrites` and `RepairCommits`, with the row
`Locked` in between.  `Preload`, `ReleaseChecks`, `SignerReads`, `RefreshReads`
and `DownloadStarts` are the reads on which the later steps rely.  `...Stops` is
an exception, a refusal or the death of the process, after which memory is lost
and rows and files stay.  A link and the portal sign alike: expiry, `used_at` and
the PIN only make a request fail earlier, which `SignerStops` covers.

*Abstractions of the documents.*  A payslip's three attempts on lock conflicts are
not counted.  `source_hash` and `render_hash` are one value, since either one
alone decides for a repair and no statement changes one without the other.
`ERROR`, `CANCELLED` are written by no statement and `PROCESSING` is never
committed.  `employees.status` is taken as ACTIVE: otherwise the payslip is
skipped.  The employee's rows and the current payslips are preloaded in one step.
Documents of the layout before `companies/` are not modelled, apart from the
footer that one may have.

*Background.*  In `GroupSchedules` a day has a few slots and a schedule is known
by its time, which is unique in a group; weekdays are masks of seven bits as in
`core/time.ts`, and inputs contain days out of range.  `ScheduledRuns` has the
SELECT, the claim, `startGroup`'s statements and the two ends as actions; a
lease of five minutes may lapse at any moment, and an execution may be due or not.
A unique key refuses the second run of an execution but nothing the second job.
`NotificationOutbox` reads the row, claims it, pushes device by device and
settles it; `attempts` in the dispatcher's memory is that of the SELECT.  In
`SchemaMigrations` the INSERT into `schema_migrations` and the UPDATE of the run are
two more steps of a file (`Recording`, `Finishing`).  A statement in `Ddl` commits what
came before and itself and ends the transaction (`open`), which nothing begins again:
every later step of the file is durable at once, so that a file can be left with its
row and its run still `RUNNING`, or `FAILED` after its last statement.  Each step may
be refused, or take effect and lose its answer; the
lock is lost with its connection while its process goes on.  `SageCollection` gives
back every table in any order and cuts it into batches of `BatchSize`;
`PayrollNormalizer` keeps of a row its key, event, amount in cents, nature and
what its description suggests, and sorts as `Array.prototype.sort` does, stably.
The spellings of a nature that `inferNature` recognizes are one value each
(`KnownColumns`); any other text of the column, and none, leaves it to the
description (`Suggests`) and then to the sign.
`EarlierImportJobs` has both repositories, chosen at the start; a job goes stale
when nothing has touched `updated_at` for ten minutes.

*People.*  A card of Sage has the functions held with their dates, the title on the
card and the situation; `held` remembers what Sage has said of a contract, in order.
The connector finds the code in one SELECT and then reads the tables one by one,
outside any transaction (`SageReadOnlyClient.cs:152-167`), while Sage is edited.
Nobody sees what it has read before all is done, so `ReadCard` is one action that
picks each column (birth, functions, title, situation, leaving) from any card that
was held since the code was found (`Meanwhile`, `Readings`): a row torn by an edit is
a state of the model.  Two things are taken for granted: a column, the
date of leaving too, is found in one table of an installation, so that its reading is
of one moment; and a contract does not vanish from Sage.  A
lookup keeps the result it was answered with until somebody applies it.  In
`EmployeeAccess` a request reads the identity in one step and writes what it decided
in others, with the PIN verified in between; select and switch lock their rows
and are two steps, the read and the commit.  The PIN is asked for outside logins
too: by a signature in the portal or by a link, and to show a link's payslip
(`verifyExistingPin`: `ConfirmPin`, then `WrongPin` or `PinConfirmed`); and a link may
be the first access (`activateFromLink`: `ActivateFromLink`, then `LinkActivates`, or
`AlreadyActivated` where the PIN is there by then).  These write the same row and open
no session.  `overlapped`, `crossed`, `crowded`
and `calm` are history variables: they say whether requests met, which
the properties that the code promises only to one request at a time need.
`PhoneSession` writes the two keys of the store one after the other, and the app
may be killed after any step.  In `DashboardSession` an answer sets cookies and
reaches its tab in one step, in any order with the answers of the other tab.
`SignatureEvidence` keeps of the chain its length and whether each event names the
one before it; a request is the list of the steps it has still to take.  Those that
write `original.pdf` are such requests as well: the refresh of a synchronization
(`employee.service.ts:125`) and a download that cleans an old footer
(`payroll.service.ts:297`) read the payslip as unsigned, write the file and then its
hash by id (`RewriteOriginal`); the repair (`payroll.service.ts:125-141`) looks at the
status again under the lock that it holds to its commit, and a signature waits for it
(`RepairOriginal`, `LockPayslip`, `RowLocked`).  File and hash are each the request
that wrote them last.  A repair begins where the original is not what its row says:
`PROCESSING`, its other reason, is never seen outside the transaction that creates
the payslip, and `ERROR` is written by no statement.  A verification compares what
`verify` compares: the original and the signed file with the hashes of the row it has
read, the seal with the secret, the original that the evidence names with that of the
row (`DocumentLinksMatch`), and the chain.
`ClientEvidence` measures texts by their length, at the limits of the schema.
In `CompanyProvisioning` a lookup FOR UPDATE of a row that is not there stops
nobody, the unique keys decide at the INSERT, and a deadlock ends one of the two.

## 3. Properties

* `PipelineInv` - the inductive invariant of section 6.  Two of its parts say:
  owner, lease, state and `normalized_at` of a job agree, although four services
  write them (`ClaimColumnsAgree`); no job is given up before its attempts are
  used (`GivenUpAfterMaxAttempts`).
* `RunClosesWithItsJobs` - a run is not open once all its jobs have settled,
  even though the claim of a second job reopens it.
* `CompletedRunIsWhole` - a `COMPLETED` run left no payslip behind, through any
  number of takeovers.
* `ClaimBudget` - a job is not given up, faults and other workers accounted for,
  too late.  The budget is `MaxAttempts + faults + |Workers| - 1`; the last term is
  the stale SELECT of the finding below.
* `OnlyHolderSettles` (action property) - nobody but the holder of a claim ends
  it.
* `QueueSpec` (refinement) - the normalization columns implement `DurableQueue`,
  with `phase` the image of `normalization_state`.
* `DeliveredJobSettles` (liveness) - a job that Sage has delivered is normalized
  or given up, after any finite number of faults, unless a late `fail` of its
  connector withdraws it.
* `OneWorkerPerItem` - no two workers are busy with one job, because a busy
  worker's lease has not expired (`LeaseCoversWork`), because the lease was taken
  within a cycle that ends sooner (`LeaseOutlivesCycle`).
* `OneCurrentVersion` - the current version is the highest one and the only one.
* `SignaturesAgree` - payslip, request, evidence and document agree on what is
  signed, whatever a release or repair under way writes later.
* `OfferedHasRequest` - a payslip that an employee is asked to sign has its
  request.
* `SignedLeftByNormalizer` (action property) - no normalization changes a signed
  version: the lock and the second look at the status under it.
* `PayslipSpec` (refinement) - the versions implement `SignedPayslip`: signed once
  and for good, no successor to a signed current version, no erasure of a signed
  payslip.  A version that was replaced may still be signed, through a link or a
  request from before; `SignedPayslip` allows that because the code does.
* `OneSearchPerDay`, `NextRunIsTheNextSearch` - through any edits of a group's
  schedules a time is searched for once a day, and the next search that `list`
  names is the next one that the worker will start.
* `JobsOfScheduledRun`, `EnqueuedForGood` (action property), `ClaimSettles`
  (liveness) - a second job of a scheduled run takes two workers at one execution
  and no less; an execution that was enqueued stays out of the queue, even when a
  late end sets it to FAILED; a claimed execution is settled while it is due.
* `SentReachedAll`, `GivenUpLate`, `PushSettles` (liveness) - a notification that is
  SENT has reached every device subscribed since it was raised; none is given
  up early although the count that decides may be stale; each is sent or given up.
* `MigratedOnceInOrder` - the schema is what one undisturbed process would have made
  of a prefix of the files and of the beginning of one more: no statement twice, no
  statement without those before it, no row in `schema_migrations` without all the
  statements of the file, no run `APPLIED` without the row, and nothing of a file
  before the earlier ones are applied.
* `PayslipsOfSage`, `RenderStable` - the payslips against a reference definition
  over the set of rows; two collections of one payroll print the same payslip.
  Both need that no definition is ambiguous; the second excepts rows that the
  sort cannot tell apart and a payslip with two rows of bases, for which the
  order of Sage's answer does decide.
* `BatchesReadable` - as long as no two archivings of a job have overlapped, every
  batch can be read at any moment, from its row or from its file, wherever they
  stopped.
* `AbandonedJobSettles` (liveness) - in the MySQL repository of the earlier tree a
  job that its connector abandons ends, by another one or as FAILED.
* `RowsComeFromTheirContract` - each column of an employee's row is what Sage has once
  said of that contract, and of no other of the same person.  The columns need not be
  of one moment, since a lookup may be torn by an edit.
* `OneSessionPerSelection`, `ResetEndsSessions`, `LockAfterWrongPins` - one
  session for a selection; no session that was open at a reset of the PIN survives
  it, in any company (a login that was under way may still open one after it); unless
  requests overlapped, the counter is the number of wrong PINs, at logins and
  signatures, since a session, a PIN confirmed at a signature, a first access or a
  reset has cleared it, and whoever is locked out is at the limit.
* `ShownSessionCanAct` - a started app whose session lives has its CSRF token, and
  an app at rest shows the employment of its session unless its calls overlapped.
* `BrowserRecovers` - after any crossing of answers, one call that runs alone puts a
  tab right, and every tab then passes the CSRF check.
* `AlertHasCause` - the public verification raises an alert only for requests for the
  payslip that overlapped, those that rewrite its original included (finding 4 is one
  such overlap); for an original that is not what its row says, because it was lost,
  or written again by a request that stopped before it recorded the hash; for one
  that was recorded while the verification ran; for a lost signed file; or for another
  secret.  With one request at a time, a signature verifies from its commit on,
  whatever rewritings and repairs came before it.
* `EvidenceNeverBlocks` - what a device tells is accepted, except a message of an
  error that the phone has not cut; what is recorded of the place holds together.
* `EndedStaysEnded` - in the earlier tree no request that is sent after a log-out or
  the disabling of an account gets through, though touches are under way.
* `ProvisionedAsAsked` - who is answered with a company has the company asked for;
  no tenant has two, no e-mail two users, and a company has one MASTER.
* `TypeOK`, `BackgroundTypeOK`, `PeopleTypeOK` - the types.

## 4. Runs

| Run | Instance | Shows |
|---|---|---|
| `pipeline_one_job` | 1 job with its run, 1 connector, 2 workers, 2 payslips, `MaxAttempts` 2, `MaxFaults` 2 | the inductive invariant, the budget of claims and the refinement (2.6 million states) |
| `pipeline_two_jobs` | 2 jobs of one run, 1 worker, 1 payslip, `MaxAttempts` 2, `MaxFaults` 1, `FairSpec` | a run with two writers closes; liveness (480 thousand states) |
| `payslip` | 2 normalizations, 1 officer, 2 signers, 1 rewriter, 2 sources, 1 profile, 2 versions, `Legacy`; symmetry | all properties of the documents (2.3 million states up to symmetry) |
| `background_work` | the instances listed below | the properties of the eight background components (700 thousand states) |
| `people_and_documents` | the instances listed below | the properties of the eight components of people (6.6 million states) |
| `signed_original`, `signed_file`, `deleted_files` | 1 version, 1 normalization | the findings 4 to 6 of section 5 |
| `archived_raw` | 2 archivers, 1 batch, no call ends early | the finding 7 of section 5 |
| `partial_run`, `failed_collection`, `last_attempt` | 1 job, as small as the case allows, no faults | the findings 1 to 3 of section 5 |

*Why the bounds are enough.*  Two workers are what a takeover, a stale SELECT and
a late `complete` need.  Two payslips separate "some stored" from "all stored",
which is what `fail` and `complete` tell apart.  Two attempts separate a failure
that is retried from the last one.  Two faults allow a crash in the claim that
took over from a crash.  One connector is enough for a job, which never changes
its connector.  Two jobs of one run are what the unprotected check in
`startGroup` can leave behind.  `MaxFaults` bounds crashes,
failures of `fail`, throwing heartbeats, lock conflicts and leases that lapse
under a busy worker; exceptions in the normalization are not bounded by it, since
the attempts bound them.

For the documents, two normalizations race for one replacement, two signers for
one evidence, and two versions are a replaced one and its successor, with a
release that has read the first.  One rewriter is what a repair and a signature
can meet; with the old footer one profile already gives a file two contents, and
`signed_original` has two profiles.  `MaxVersions` bounds the versions and so the
replacements; everything else repeats without a bound.  The symmetry is between
values that the model only compares, in a run without liveness properties.

In `background_work`: two slots and two days with four inputs of weekdays are an
edit between two searches of a day, and a weekday tomorrow and in a week
(`MaxSchedules` bounds the rows of a group).  Two claimants and one execution,
two scopes, two attempts and one break (`MaxBreaks`) are a takeover by a worker that
finds other employees.  Two devices, two dispatchers, two attempts and two stops
(`MaxStops`) are a row settled for a dispatcher that died between two pushes.
Two migrators and two files of two statements, the second of the first file and the
first of the second file DDL (`MCDdl`), are a lost lock in
one file, a later file to be kept from starting, a statement that is committed with
a DDL after it, and one that comes after a DDL and is durable by itself, as the two
records of both files are.  Rows of two employees, two
types and two events, with at most three calculated and two moved rows, two
definitions and one base (`Contents`), in batches of two, collected twice
(`MaxCollections`), are every order and cut of a small payslip.  Two archivers,
two batches and two early ends (`MaxArchiveStops`) are a file half written, and one
written and not recorded, with a call after it that begins again.  With `Lease` 3
just equal to `CycleTimeout` 2 plus `Grace` 1, the timed instance is the tightest
the assumption allows; two workers, one item and eight seconds (`Horizon` bounds
the clock) see a claim, its expiry, two takeovers, and an item that goes back to
the queue and is claimed again late in the same cycle.  One job, two
agents and three claims (`MaxClaims`, the code's own limit) are every takeover.

In `people_and_documents`: three contracts of one person in two companies and
three cards, two lookups and one edit in Sage (`MaxLookups`, `MaxEdits`) are a
result that is older than the edit, torn by it, or of the other contract.  Two requests at a
time of four in all (`MaxRequests`), two employments, two PINs, two wrong ones to
the lock and one order (`MaxOrders`) are a reset during a login, a selection
presented twice and a counter written over.  Three sessions, three tokens and
two calls (`MaxSessions`, `MaxTokens`, `MaxCalls`) are an app killed between its
two writes and the start that repairs them.  Two tabs, two sessions and three
tokens (`MaxWebSessions`, `MaxWebTokens`), one officer and two employments of one
person are two logins over each other and a token renewed twice.  Two of three
visits (`MaxVisits`) and one link (`MaxLinks`) are a fork of the chain and a visit
after it, a rewriting that stops half-way, its repair and a signature over that, and a
refresh that is overtaken by a signature.  `Lengths` has a value on each side of the limits of the schema.
Two windows, two accounts and two sessions are a log-out beside a touch; two
provisioners, tenants, slugs and e-mails and three requests (`MaxProvisionings`)
are a race, a repeat and a repeat with other data.

*Deadlock* is not checked: a pipeline whose jobs have settled, or whose connector
has gone, rests, at `Horizon` time stops, and the bounds on requests end a
behaviour of people.

*Fairness* (`FairSpec`).  Weak fairness of each worker's own steps: PM2 restarts a
process that dies (`ecosystem.config.cjs`), and the loop of `main` takes up the
next job as long as it runs.  Weak fairness of `OrphanLapses`: the clock passes
every lease that nobody renews.  Nothing is assumed of the connector or the
users, and faults are finite in number, PM2's restart limit included.  The same
holds of `SchedulingSpec` (each worker's steps; the five minutes of a claim pass)
and `OutboxSpec` (each dispatcher's steps; the times of a row pass).
`EarlierFairness` has the ten minutes pass, lets a connector that is at work
send its batches and then report, and has the connectors of `Steady` go on
polling, as the loop of the connector does while it is registered.

Every property has a mutant: an operator beside the original (`Terminal` and
`TerminalLate`, say) with a plausible bug, and under it the run refutes the
property.

## 5. Findings

1. `partial_run`: when the last attempt fails after some payslips were stored,
   `fail` leaves the run `PARTIAL` with a `FAILED` job.  The design asks for
   that; `scripts/verify-durable-worker.ts:39-43` counts it as an inconsistency
   and expects none.
2. `failed_collection`: `connector.fail` updates the job and the run in two
   statements.  If the API dies between them, the run stays `RUNNING` with a
   `FAILED` job, which `scripts/verify-durable-worker.ts:45-49` expects never to
   see, and nothing closes it later.
3. `last_attempt`: `claimNext` computes `claim.attempt` from its SELECT.  If
   another worker claims the job and fails between that SELECT and the UPDATE,
   the claim counts one too few, and a job is back in the queue after its third
   failure; the design makes the third the last.  No fault is involved, only two
   workers, which a reload produces.

4. `signed_original`: `refreshUnsignedPayrollDocuments` rewrites `original.pdf` and
   its hash by id, long after it has read that the payslip is unsigned.  A
   signature in between has sealed the old hash, and the public verification answers
   `INTEGRITY_ALERT`; in `SignatureEvidence` this is an overlap that `AlertHasCause`
   excuses.  A repair whose commit a signature waited for does the same: the
   signer's hash is of its own read.
5. `signed_file`: of two requests that sign one payslip the second overwrites
   `signed.pdf` and then fails; the public verification then reports
   `INTEGRITY_ALERT` for a payslip that was signed correctly.
6. `deleted_files`: `deleteEmployee` removes `payrolls/<employeeId>`; the documents
   below `companies/<companyId>/payrolls/`.
7. `archived_raw`: two calls of `archiveCompletedJobRaw` for one job, the worker's and
   that of `maintenance:archive-raw`, write each batch to the same file.  The one
   whose UPDATE comes second finds no payload, takes its file for superfluous and
   removes it: the row then names a file that is gone, and its payload is gone
   too.  `CHANGELOG-0.6.0.md:32` calls the reading of archived batches transparent;
   `rawRows` logs an error and leaves the rows out.

Behaviours that the models contain and that no run is about:

* A phone sends the message of a location error uncut; above 240 characters the
  route refuses the signature, which `DEPLOY-HOTFIX-0.4.2.md:62` says a missing
  location does not block.  `EvidenceNeverBlocks` excepts exactly this.
* A lookup whose latest function has no description takes the title of the latest
  function that has one, even an ended one (`InferSageJobTitle`).
* A log-out that is refused for its CSRF token leaves the session alive, while the
  tab shows nobody; and a tab may show one principal and act with the cookies of
  another until its next `me`.
* A right PIN at a signature, and a first access by a link, clear the counter of wrong
  PINs of the identity without any session.
* An employee's row may mix columns of two moments of Sage, until the next
  synchronization.
* A migration that stops after its row in `schema_migrations` leaves its run `RUNNING` or
  `FAILED`, and every later start skips the file as applied; a file that stops before
  that keeps every later start from going on.  `DEPLOY-MULTIEMPRESA.md:105` says that an
  interrupted run blocks the repetition and is to be inspected: it does in the second
  case only, and in the first nothing of the file is missing.
* A scheduled run whose worker was overtaken may have a second job, with other
  employees than the run names (`JobsOfScheduledRun` says when).

## 6. Proofs

All theorems hold for every value of the constants under the named assumptions
of the modules (`RowsAssumption`, `WorkerAssumption`, `LeaseAssumption`, ...),
which TLC evaluates in the runs.  Nearly all of them only give the constants their
types (limits are natural numbers, some of them positive; a run is assigned to
jobs of the payroll only) and keep a marker such as `NoTenant` apart from the
values it stands beside.  `SageCollectionAssumption` says of Sage only that its
tables are finite and what type a column has, `EmployeeRegistryAssumption` that the
functions on a card are a list with dates; `ProvisioningAssumption` and
`EarlierAccountsAssumption` that there are e-mails and slugs to choose from.  Two
say more: `PipelineAssumption`, that the workers are finitely many, which only
`ClaimsStayInBudget` uses, for it counts them; and `LeaseAssumption`, which relates
lease, timeout and grace.

Some theorems state what no run lists by itself.  `ColumnsAlwaysAgree` and
`NeverGivenUpEarly` are parts of `PipelineInv`, which `pipeline_one_job` checks;
`LeaseAlwaysCoversWork` and `LeaseAlwaysOutlivesCycle` are what `OneWorkerPerItem`
rests on.  The type theorems of single components (`AccessTypeCorrect`,
`RegistryTypeCorrect`, `PhoneTypeCorrect`, `MigrationsTypeCorrect`,
`ArchiveTypeCorrect`, `CollectionAlwaysTyped`, the `TypeCorrect` of the leases and a
few more) are what `BackgroundTypeCorrect` and `PeopleTypeCorrect` put together.  The
inductive invariants that are named with
the proofs and not with the models hold on the instances of section 4 as well
(of `CalendarInv` all but a type that quantifies over all numbers, and of
`CollectionInv` all but the parts that quantify over all tables, which TLC cannot
enumerate).

### `ImportPipelineProofs`

`TypeCorrect`, `PipelineInvHolds`, and from it `ColumnsAlwaysAgree`,
`RunsCloseWithTheirJobs`, `CompletedRunsAreWhole`, `NeverGivenUpEarly` and
`ClaimsStayInBudget`; then `SettledByHolderOnly` and `ImplementsQueue`.

The inductive invariant is `TypeOK /\ PipelineInv`.  The properties are not
inductive by themselves; what they need is

* `StateFollowsCollection`: normalization has not begun before the collection
  has ended, so `complete` of the connector writes `PENDING` only over `"null"`
  and can never put a settled job back into the queue;
* `AgentKnowsItsJob` and `CallsKnowTheirJob`: of the requests that may still
  execute, at most one is a `complete` of a job, and while one exists the job's
  state is `"null"`; a connector that still collects has no request about its
  job.  This is what makes the gap between `assertOwnedJob` and the UPDATE
  harmless in `complete`;
* `ClaimIsCounted`: the count a worker has read is smaller than the count in the
  row, so that a terminal `fail`, which trusts the first, implies the second;
* `StoredUnlessSkipped`: a worker that skipped nothing has stored what it no
  longer has to do, whoever stored it again meanwhile, since no statement removes
  a current version.
* `BudgetIsKept`: the claims of a job that is at its limit are counted against
  what can still be claimed.  Such a job is claimed once more by each worker whose
  SELECT saw it earlier (`EarlyReaders`), by the worker whose claim is the last
  (`LastClaim`), and once for each fault that has cost a claim.  Each claim beyond
  the limit uses up one of these, and nobody becomes an early reader of a job that
  is at its limit.  The count of readers is a cardinality, hence the
  finiteness of `Workers`.

The lemmas follow the two processes: for each, types first, then the part of the
invariant that its steps can disturb, action by action (`AgentInv` for what the
connector's side needs, the lemmas about claims and payslips for the worker's).
The case that carries `RunClosesWithItsJobs` is that a claim of the connector,
the one step that reopens a run, comes with a job that has just become
`RUNNING` and so is not settled, and that each settling of a job closes its run
in the same transaction.

`SettledByHolderOnly` and `ImplementsQueue` are step-by-step arguments under that
invariant: each step of the pipeline is a step of `DurableQueue` or leaves its
variables alone.

### `WorkerLeaseProofs`

`LeaseOutlivesCycle` is inductive together with the types: the lease of a claim
is at least `cycleStart + Lease`, the watchdog keeps
`now <= cycleStart + CycleTimeout + Grace`, and the assumption relates the two.
`LeaseCoversWork` and `OneWorkerPerItem` follow.  The assumption is the
inequality that `DEPLOY-DURABLE-WORKER.md:83` asks for, with the watchdog's
second of grace; `config/env.ts` does not enforce it.

### `SchemaMigrationsProofs`

`MigrationsTypeCorrect` and `MigratedOnceAndInOrder`, for any number of processes,
files and statements, and any choice of the statements that commit by themselves.
`MigratedOnceInOrder` speaks of effects, files and records only; what makes it
inductive is where the processes are, in the conjuncts of `MigrationsInv`:

* `RunIsTaken` and `AloneInFile`: who is past the INSERT of a file's run has that
  run, and is alone in the file.  The lock does not give this, for it is gone
  with its connection while its holder goes on; the primary key of
  `schema_migration_runs` does, because no row of it is ever removed
  (`InsertKeepsInv`);
* `EarlierApplied` and `NothingBeforeRun`: a process has seen every earlier file
  applied, and a file that has no run has had no effect, so that the one who
  inserts the run starts from nothing;
* `ExecutedSoFar` and `OutsideAtRest`: as long as its transaction is open, what a
  process has executed of the file is in it, and nothing of the file has taken
  effect; once a statement has ended it, just what was executed has
  (`Executed`).  The two records of the file are among the steps, so that the row in
  `schema_migrations` comes after all statements on either side of that moment.

What a COMMIT or an autocommit makes durable is one operator of the model (`Durable`),
and one lemma says what it adds (`DurableAdds`).  The steps of a file keep the
invariant by one lemma (`StepKeepsInv`), to which `DdlKeepsInv`, `DmlKeepsInv`,
`RefusalKeepsInv` and `CommitKeepsInv` come down; the many that only
move a process out of a file or between files by another (`MovingKeepsInv`).

### `CollectionProofs`

*Collection.*  `PayslipsAlwaysOfSage`, `RenderAlwaysStable` and
`CollectionAlwaysTyped`: for any payroll of finite tables, any order of the rows,
any size of a batch and any number of jobs.  The inductive invariant
`CollectionInv` says that the batches of every table that has been read, put
together, list the selected rows once each (`TablesRead`), that the events met are
those of the rows, once each, and that every render is what the normalizer makes
of tables collected like this (`Rendered`).  The rest is about pure functions:

* *Filter and sort.*  `Ranked` puts the element with n - 1 others before it at place
  n.  `RankedInOrder` shows that this is an enumeration in the given order, whenever
  that order is a strict total one; a filter of a list of distinct rows then lists
  the rows that pass (`KeptLists`), and a stable sort lists the same rows in order.
* *Batches.*  The batches of a list, flattened, are the list (`BatchesTogether`), for
  every size and every length.
* *Sums.*  A fold over a list and a sum over a set are each the size of a set of
  units, one for each cent of each row (`TotalIsSum`), which does not
  depend on the order.
* *Definitions.*  What the normalizer finds by sorting the dated definitions and
  taking the first that has begun is the one in force by its set-theoretic
  definition (`ApplicableFound`), from which the natures agree (`NatureFound`): the
  property has a reading of its own of what column and description mean
  (`MeantNature`), and does not use the normalizer's.
* *Order.*  Items that the comparison tells apart are enumerated in one way only
  (`EnumeratedOnce`), so that two collections print the same list (`PrintedOnce`).

Folds are not unfolded by induction but by a smallest set, or a shortest prefix, at
which the claim would fail (`SmallestSubset`).

*Archive.*  `ArchiveTypeCorrect` and `ArchivingAloneLosesNothing`.  The invariant
says that, while no calls have met, one at most is at work (`OneAtWork`), and that
the rows before it still have their payloads, so that it never gets as far as
removing a file, and that the file of its first row is whole when the row is about
to be updated (`RowsBeforeIt`).  What it writes over is then never the only copy.

### `PayslipDocumentsProofs`

`PayslipTypeCorrect`, `AlwaysOneCurrentVersion`, `SignaturesAlwaysAgree` and
`OfferedAlwaysHasRequest`, for any number of normalizers, officers, signers and
rewriters and any number of versions.  The inductive invariant `PayslipInv` is the
types, the rows (`RowsInv`) and what each actor may rely on between two of its
statements (`MemoriesHold`):

* `NormalizersHold`: the row that a normalizer has locked stays current and
  unsigned until it commits.  Nobody can sign it or replace it meanwhile: a
  signature waits for the lock through the foreign key of its evidence, a
  replacement locks the same row.  This is why the second look at the status under
  the lock is enough;
* `OfficersHold`: between the statements of `release` the version is still
  there unless the employee was deleted, and the request is there before
  the status offers it;
* `SignersHold`, `RewritersHold`, `FilesHold`: the hash that a signer or a
  rewriter carries was once a document's.  They do not say that it still is, for
  it need not be; `SignaturesAgree` compares the tables, which the transaction of
  the signature writes together.

`NormalizerLeavesSigned` (`SignedLeftByNormalizer`) goes through the steps of a
normalizer under that invariant.  `ImplementsSignedPayslip` shows that each initial
state is one of `SignedPayslip`, and each step one of its steps or a stutter; the
steps of officers and rewriters touch neither the current version nor the
evidence, and stutter.

### `BackgroundWorkProofs`

*Outbox.*  `SentAlwaysReachedAll` and `NeverGivenUpBeforeLimit` follow from
`OutboxInv`.  `DispatchersHold` is its core: the attempt in a dispatcher's memory
is at most what the row has counted once the claim is made, so giving up by the
memory implies the limit in the row; and a dispatcher marks as sent only what has
reached the devices owed to, because devices are only taken off that list once the
notification is there.

*Scheduled runs.*  `JobsAlwaysOfScheduledRun` follows from `SchedulingInv`.  Two
workers are never inside `startGroup` by the same claim, and an execution at which
two workers are together knows it (`ClaimantsApart`).  So a worker that is about to
create a job for an execution that was not overlapped finds none there, and a job
of the run's own attempt has its scope (`ClaimantHolds`).  `AlwaysEnqueuedForGood`
is the step-by-step argument under the same invariant.

*Schedules.*  `SearchedOnceADay` and `NextRunAlwaysTheNextSearch` follow from
`CalendarInv`: a time that was searched for has the row that
was executed, and a schedule that is enabled has a weekday in its mask, so the week
that `list` looks ahead always holds the next search.  That last fact is about the
bitwise fold by which the mask is made.  The fold is not unfolded
by induction: a smallest set of weekdays for which the mask were not the sum of
its bits would have a smaller one in it, with one weekday less (`MaskIsSum`,
by the well-foundedness of strict subsets), and a sum of distinct powers of two
holds just their bits (`MaskHoldsDays`).

*Earlier jobs.*  Their type says that a job is claimed at most `MaxClaims` times,
though the UPDATE that counts a claim does not ask for the count.  `EarlierInv` adds
that a job which waits has a claim left: one that is taken back does by the
condition of its UPDATE, and in memory nothing is taken back.

*All of it.*  `BackgroundTypeCorrect`: each step of the composition is a step of one
component and leaves the other seven where they are, so that every behaviour is one
of each component as well, and the types of the eight hold together.  Fairness plays
no part in it.

### `EmployeeProofs`

*Access.*  `AccessInv` gives `AccessTypeCorrect`, `AlwaysOneSessionPerSelection`,
`ResetAlwaysEndsSessions` and `LockAlwaysAfterWrongPins`.  `SelectionsHold` says what
the lock on the row of a selection gives: the request that has read it as open is
the only one, and no session has come of it yet.  `CounterHolds` says
that while requests have not overlapped one at most is under way, and the counter
is still what it has read, be it a login or a PIN at a signature.

*Registry.*  `RegistryInv` gives `RowsAlwaysComeFromTheirContract`: a lookup's
code is of its person and its company and was in Sage, and its result is a reading of
cards that this contract has once had (`LookupsHold`), each column of any of them; cards that
were held stay held (`CardsHeld`), and so a reading stays one.  `RegistryTypeCorrect` needs besides that the
latest function of a card exists, for the model names it by CHOOSE: of the finitely
many functions one has the smallest set of others that precede it, and that set is
empty (`LatestPostAmong`).

*Browser.*  `WebInv` gives `BrowserAlwaysRecovers`.  `LoneCallsHold` is about calls
that nobody has crossed: such a call was sent with the cookies that the
browser still has, and the cookies after its answer agree with each other and with
the user it names.  `CalmHolds` carries this over to the tab: when nothing is on
its way that the cookies do not agree with yet, the tab shows whose they are or is
about to ask.  It must allow for calls that are refused and for a login that ends
in a choice of company, which change neither cookies nor tab.

### `PeopleAndDocumentsProofs`

*Provisioning.*  `AlwaysProvisionedAsAsked` from `ProvisioningInv`.  What an open
transaction has inserted, no committed row and no other open transaction has
(`ProvisionerHolds`, `ProvisionersApart`): this is what the unique keys give,
including those on rows that are not committed.

*Earlier accounts.*  `EndedAlwaysStaysEnded` from `AccountsInv`: a request whose
session ended before it was sent has been stopped, or stands before a guard that
will stop it (`RequestHolds`); no step takes an end back (`RowsOnlyEnd`).

*Evidence.*  `AlertAlwaysHasCause` from `EvidenceInv`.  While requests have not
overlapped, one at most has steps to take, it has read the last event, and the
file on disk is its own from the moment it is written (`AloneHolds`); what remains
of its steps is in the order of the code (`InOrder`); a row that was read as signed
is the row for good (`SealHolds`).  The original that a lone signer has read is the
row's until it commits, and after the commit nobody who arrives writes it again; so
the link of a signature breaks only where a request that read the payslip as
unsigned is still under way (`RewritingInOrder`, `RewritingKeepsInv`).

*Phone.*  `ShownSessionCanAlwaysAct` from `PhoneInv`: once the first `me` has been
answered, the pair in memory is one that the API accepts if its session lives
(`MemoryHolds`); so is the pair of every answer (`CallHolds`), and that `me` runs
alone (`MeHolds`), so that no other answer can come between what it was sent with
and what it finds.  While calls have not overlapped, what is shown goes with the
memory (`ApartHolds`).

*Device.*  `EvidenceNeverEverBlocks` from `ClientInv`: every text is within the
bound of the schema that it meets, since cutting to a bound leaves what is within
it, whatever the length (`ClipWithin`).

*Types.*  The invariants above speak of numbers without a bound.  For `PeopleTypeOK`
an invariant beside each says what the numbers are bounded by (`PhoneBounded`,
`EvidenceBounded`, `RegistryBounded` and the like).  The phone's says most:
`PhoneTypeCorrect` has every token in memory, in the store and in a call be one that
the API has issued, wherever the app was killed.  `PeopleTypeCorrect` puts the eight
components together as `BackgroundTypeCorrect` does.

### Only model-checked

* Every liveness property (`DeliveredJobSettles`, `ClaimSettles`, `PushSettles`,
  `AbandonedJobSettles`): liveness under fairness is out of the prover's reach.
* The findings.

## 7. Plan

Every safety property that a run checks is proved.  What remains is to model more:
a safety property of the earlier import jobs beside their liveness, and
`PAYROLL_GENERATION_CONCURRENCY` above 1, for which `PersistSlip` would have to be
several steps under way at once.

## 8. Not modelled

* *Runs*: counters, listings, `payroll_run_events`; the key that makes a request for
  a run idempotent is a column the pages send and is not modelled.
* *Connector*: the discovery of Sage's column names, the conversion of its values,
  `sourceHash`.  A batch that arrives after `complete`
  replaces its predecessor; the models send none.
* *Normalizer*: parsing of numbers and dates, categories and descriptions of items,
  CBO codes, the capa of the movement; the payslip and its amounts do not depend on
  them.
* *Payslips*: `PAYROLL_GENERATION_CONCURRENCY` above 1, queries and the
  layout of the PDFs.  A write of a file is one step: a crash within it may leave it
  truncated (`storage.service.ts:13`).
* *Employees*: contact data and listings.  Rows of the verification log refuse
  `deleteEmployee` by a foreign key (`employee.service.ts:246`); the model deletes
  only payslips that nobody has verified.  The lookup's salary, notice and CBO columns
  are read like the others and not modelled.
* *Verification*: `compareFileHash` and the log of lookups.  The hash of the evidence's
  JSON, and the document number and the signed hash that it names, are written in the
  transaction that writes the row and by nothing else.
* *Sessions*: rate limits, hashing.  *Provisioning*: the signature of the bridge and
  the licences.  *Migrations*: the splitting of a file into statements.
* *Settings, audit, run events, heartbeat row, operational alerts, retention*: rows
  that are written and shown; nothing reads them back to decide.
* *Screens* of the dashboard and the phone, routes and middleware: they hold no state
  of the system but the sessions and the evidence, which are modelled.

The hazards without a property are in `PROJECT.json` with the reason: the job whose
claim was not heard, which the code never recovers; and the parallel generation.
