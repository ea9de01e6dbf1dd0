--------------------------- MODULE MCBackgroundWork ---------------------------
(***************************************************************************)
(* Small instances of what works by itself, without anyone who waits for   *)
(* it: the schedules of the groups and the runs they start, the outbox of  *)
(* the notifications, the migrations of the schema, the collection and the *)
(* normalizer that make payslips of Sage, the archive of what was          *)
(* collected, the clock of the workers' leases, and the import jobs of the *)
(* earlier API tree.  They share nothing that their properties speak of,   *)
(* so that a behaviour follows one of them, its subject, and the others    *)
(* keep their initial states.                                              *)
(***************************************************************************)
EXTENDS GroupSchedules, ScheduledRuns, NotificationOutbox, SchemaMigrations,
        SageCollection, RawArchive, WorkerLease, EarlierImportJobs

VARIABLE subject

vars == <<subject, calendarVars, schedulingVars, outboxVars, migrationVars,
          collectionVars, archiveVars, leaseVars, earlierVars>>

----------------------------------------------------------------------------
(* What Sage may hold.  Employee e1 has a payroll of two events, calculated *)
(* or moved; a row of another employee and one without a key are near; the *)
(* definitions of an event are dated, not yet in force, or without a date,  *)
(* and X is a nature that the code does not know.                          *)

Key(employee, type) == [employee |-> employee, competence |-> 2, type |-> type]

PayRow(key, event, amount, nature, hint) ==
  [key |-> key, event |-> event, amount |-> amount, nature |-> nature,
   hint |-> hint]

ProcRows ==
  {PayRow(Key("e1", 2), 2, 500, "X", "EARNING"),
   PayRow(Key("e1", 2), 1, -300, Blank, Blank),
   PayRow(Key("e1", 2), 1, 200, Blank, "PLAIN"),
   PayRow(Key("e2", Termination), 180, 70, "V", Blank),
   PayRow(Unkeyed, 1, Blank, "V", Blank)}

MovRows ==
  {PayRow(Key("e1", 3), 2, 40, Blank, "DEDUCTION"),
   PayRow(Key("e1", 3), 3, Blank, Blank, Blank)}

Definition(event, from, nature, hint) ==
  [event |-> event, from |-> from, nature |-> nature, hint |-> hint]

DefinitionRows ==
  {Definition(1, 1, "D", Blank), Definition(1, 2, "V", Blank),
   Definition(2, 3, "X", "BASE"), Definition(2, Blank, "V", Blank)}

BaseRows ==
  {[key |-> Key("e1", 2), event |-> Blank, amount |-> Blank, base |-> b] :
     b \in {10}}

Upto(S, n) == UNION {kSubset(k, S) : k \in 0 .. n}

MCContents ==
  [proc : Upto(ProcRows, 3), mov : Upto(MovRows, 2),
   definitions : Upto(DefinitionRows, 2), base : Upto(BaseRows, 1)]

\* A file that changes the schema after it has written, and one before.
MCDdl == {<<1, 2>>, <<2, 1>>}

NothingInSage == [proc |-> {}, mov |-> {}, definitions |-> {}, base |-> {}]

----------------------------------------------------------------------------
MCInit ==
  /\ subject \in {"calendar", "scheduling", "outbox", "migrations", "collection",
                  "archive", "lease", "earlier"}
  /\ CalendarInit
  /\ subject # "calendar" => firstWeekday = 1
  /\ SchedulingInit
  /\ subject # "scheduling" => scope = CHOOSE s \in Scopes : TRUE
  /\ OutboxInit
  /\ subject # "outbox" => ~pushEnabled
  /\ MigrationsInit
  /\ CollectionInit
  /\ subject # "collection" => sage = NothingInSage
  /\ ArchiveInit
  /\ LeaseInit
  /\ EarlierInit
  /\ subject # "earlier" => repository = "mysql"

CalendarMoves ==
  /\ subject = "calendar"
  /\ CalendarNext
  /\ UNCHANGED <<subject, schedulingVars, outboxVars, migrationVars, collectionVars,
                 archiveVars, leaseVars, earlierVars>>

SchedulingMoves ==
  /\ subject = "scheduling"
  /\ SchedulingNext
  /\ UNCHANGED <<subject, calendarVars, outboxVars, migrationVars, collectionVars,
                 archiveVars, leaseVars, earlierVars>>

OutboxMoves ==
  /\ subject = "outbox"
  /\ OutboxNext
  /\ UNCHANGED <<subject, calendarVars, schedulingVars, migrationVars, collectionVars,
                 archiveVars, leaseVars, earlierVars>>

MigrationsMove ==
  /\ subject = "migrations"
  /\ MigrationsNext
  /\ UNCHANGED <<subject, calendarVars, schedulingVars, outboxVars, collectionVars,
                 archiveVars, leaseVars, earlierVars>>

CollectionMoves ==
  /\ subject = "collection"
  /\ CollectionNext
  /\ UNCHANGED <<subject, calendarVars, schedulingVars, outboxVars, migrationVars,
                 archiveVars, leaseVars, earlierVars>>

ArchiveMoves ==
  /\ subject = "archive"
  /\ ArchiveNext
  /\ UNCHANGED <<subject, calendarVars, schedulingVars, outboxVars, migrationVars,
                 collectionVars, leaseVars, earlierVars>>

LeaseMoves ==
  /\ subject = "lease"
  /\ LeaseNext
  /\ UNCHANGED <<subject, calendarVars, schedulingVars, outboxVars, migrationVars,
                 collectionVars, archiveVars, earlierVars>>

EarlierMoves ==
  /\ subject = "earlier"
  /\ EarlierNext
  /\ UNCHANGED <<subject, calendarVars, schedulingVars, outboxVars, migrationVars,
                 collectionVars, archiveVars, leaseVars>>

MCNext ==
  \/ CalendarMoves \/ SchedulingMoves \/ OutboxMoves \/ MigrationsMove
  \/ CollectionMoves \/ ArchiveMoves \/ LeaseMoves \/ EarlierMoves

\* The fairness of SchedulingSpec, of OutboxSpec and of EarlierSpec, for their
\* own behaviours.
MCFairness ==
  /\ \A w \in Claimants :
       WF_schedulingVars(subject = "scheduling" /\ SchedulingStep(w))
  /\ \A x \in Executions :
       WF_schedulingVars(subject = "scheduling" /\ ClaimLapses(x))
  /\ \A n \in Notices : WF_outboxVars(subject = "outbox" /\ RowRipens(n))
  /\ \A d \in Dispatchers : WF_outboxVars(subject = "outbox" /\ DispatchStep(d))
  /\ \A j \in ImportJobIds :
       WF_earlierVars(subject = "earlier" /\ TenMinutesPass(j))
  /\ \A c \in Agents : WF_earlierVars(subject = "earlier" /\ StoreBatch(c))
  /\ \A c \in Agents :
       WF_earlierVars(subject = "earlier" /\ (CompleteJob(c) \/ FailJob(c)))
  /\ \A c \in Steady : WF_earlierVars(subject = "earlier" /\ ClaimNextJob(c))

MCSpec == MCInit /\ [][MCNext]_vars /\ MCFairness

\* Every component's variables keep to their types.
BackgroundTypeOK ==
  /\ subject = "calendar" => CalendarTypeOK
  /\ subject = "scheduling" => SchedulingTypeOK
  /\ subject = "outbox" => OutboxTypeOK
  /\ subject = "migrations" => MigrationsTypeOK
  /\ subject = "collection" => CollectionTypeOK
  /\ subject = "archive" => ArchiveTypeOK
  /\ subject = "lease" => LeaseTypeOK
  /\ subject = "earlier" => EarlierTypeOK
=============================================================================
