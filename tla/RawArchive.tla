----------------------------- MODULE RawArchive -----------------------------
(***************************************************************************)
(* The raw batches of a job whose payslips exist leave MySQL: each is      *)
(* written to the storage as a compressed file, and then its payload_json  *)
(* is set to NULL.  The worker does so after every job, and the            *)
(* maintenance script for all jobs that still have payloads; both call     *)
(* archiveCompletedJobRaw, nothing keeps two calls for one job apart, and  *)
(* the file of a batch has the same name in both.                          *)
(***************************************************************************)
EXTENDS Naturals

CONSTANTS
  Archivers,       \* calls of archiveCompletedJobRaw that may overlap
  LastBatch,       \* the batches of the job are 1 .. LastBatch, by their ids
  MaxArchiveStops  \* bound on the calls that end early

ASSUME ArchiveAssumption == LastBatch \in Nat /\ MaxArchiveStops \in Nat

VARIABLES
  rawPayload,  \* the batches whose payload_json is not NULL
  archived,    \* the batches that have an archived_path
  batchFile,   \* the file of a batch, which both calls name alike
  archiver,    \* a call: where it is, and the rows it has selected
  callsMet,    \* a call has begun while another was at work
  archiveStops \* calls that may still end early

archiveVars ==
  <<rawPayload, archived, batchFile, archiver, callsMet, archiveStops>>

RawBatches == 1 .. LastBatch
NotArchiving == [at |-> "idle", todo |-> {}]

\* Rows and files are of the batches; a call that is at work has rows left.
ArchiveTypeOK ==
  /\ rawPayload \subseteq RawBatches /\ archived \subseteq RawBatches
  /\ batchFile \in [RawBatches -> {"none", "part", "whole"}]
  /\ archiver \in [Archivers ->
       [at : {"idle", "open", "write", "update", "remove"},
        todo : SUBSET RawBatches]]
  /\ \A a \in Archivers : archiver[a].at = "idle" <=> archiver[a].todo = {}
  /\ callsMet \in BOOLEAN
  /\ archiveStops \in 0 .. MaxArchiveStops

ArchiveInit ==
  /\ rawPayload = RawBatches
  /\ archived = {}
  /\ batchFile = [b \in RawBatches |-> "none"]
  /\ archiver = [a \in Archivers |-> NotArchiving]
  /\ callsMet = FALSE
  /\ archiveStops = MaxArchiveStops

\* The rows are taken by their ids.
Archiving(a, place, b) ==
  archiver[a].at = place /\ \A later \in archiver[a].todo : b <= later
ArchiverAt(a, place) == archiver' = [archiver EXCEPT ![a].at = place]
NextBatch(a, b) ==
  archiver' = [archiver EXCEPT ![a] =
    IF @.todo = {b} THEN NotArchiving
    ELSE [at |-> "open", todo |-> @.todo \ {b}]]

-----------------------------------------------------------------------------
\* The script takes the jobs that still have payloads; a call for a job that
\* has none does nothing.
HasPayloads == rawPayload # {}

\* The SELECT, which also fetches the payloads.
SelectPayloads(a) ==
  /\ archiver[a].at = "idle" /\ HasPayloads
  /\ archiver' = [archiver EXCEPT ![a] = [at |-> "open", todo |-> rawPayload]]
  /\ callsMet' = (callsMet \/ \E o \in Archivers : archiver[o].at # "idle")
  /\ UNCHANGED <<rawPayload, archived, batchFile, archiveStops>>

\* Mutant: the writing is not awaited.
OpenWithoutAwait(a, b) ==
  /\ Archiving(a, "open", b)
  /\ batchFile' = [batchFile EXCEPT ![b] = "part"]
  /\ ArchiverAt(a, "update")
  /\ UNCHANGED <<rawPayload, archived, callsMet, archiveStops>>

\* writeFile begins by emptying the file that is there.
OpenFile(a, b) ==
  /\ Archiving(a, "open", b)
  /\ batchFile' = [batchFile EXCEPT ![b] = "part"]
  /\ ArchiverAt(a, "write")
  /\ UNCHANGED <<rawPayload, archived, callsMet, archiveStops>>

\* The compression of a payload is the same every time.
FinishFile(a, b) ==
  /\ Archiving(a, "write", b)
  /\ batchFile' = [batchFile EXCEPT ![b] = "whole"]
  /\ ArchiverAt(a, "update")
  /\ UNCHANGED <<rawPayload, archived, callsMet, archiveStops>>

\* UPDATE ... WHERE payload_json IS NOT NULL: another call may have been first.
FreePayload(a, b) ==
  /\ Archiving(a, "update", b)
  /\ IF b \in rawPayload
     THEN /\ rawPayload' = rawPayload \ {b}
          /\ archived' = archived \cup {b}
          /\ NextBatch(a, b)
     ELSE ArchiverAt(a, "remove") /\ UNCHANGED <<rawPayload, archived>>
  /\ UNCHANGED <<batchFile, callsMet, archiveStops>>

\* storage.remove of what this call wrote; an error of it is swallowed.
RemoveFile(a, b) ==
  /\ Archiving(a, "remove", b)
  /\ \/ batchFile' = [batchFile EXCEPT ![b] = "none"]
     \/ UNCHANGED batchFile
  /\ NextBatch(a, b)
  /\ UNCHANGED <<rawPayload, archived, callsMet, archiveStops>>

(***************************************************************************)
(* The process dies, a file cannot be written or a statement throws, also  *)
(* after MySQL has executed it: the call ends where it is.                 *)
(***************************************************************************)
ArchiverStops(a) ==
  /\ archiver[a].at # "idle"
  /\ archiveStops > 0
  /\ archiveStops' = archiveStops - 1
  /\ archiver' = [archiver EXCEPT ![a] = NotArchiving]
  /\ UNCHANGED <<rawPayload, archived, batchFile, callsMet>>

ArchiveNext ==
  \E a \in Archivers :
    \/ SelectPayloads(a) \/ ArchiverStops(a)
    \/ \E b \in archiver[a].todo :
         \/ OpenFile(a, b) \/ FinishFile(a, b)
         \/ FreePayload(a, b) \/ RemoveFile(a, b)

ArchiveSpec == ArchiveInit /\ [][ArchiveNext]_archiveVars

-----------------------------------------------------------------------------
\* rawRows skips a batch whose file is not there or has another hash.
Readable(b) == b \in rawPayload \/ (b \in archived /\ batchFile[b] = "whole")

(***************************************************************************)
(* Every batch of the job can be read at any moment, from its row or from  *)
(* its file, wherever an archiving stops and however often it is begun     *)
(* again: the row gives up its payload only when the file is whole.  This  *)
(* is so as long as no two calls for the job have overlapped.              *)
(***************************************************************************)
BatchesReadable == ~callsMet => \A b \in RawBatches : Readable(b)

(***************************************************************************)
(* The release notes call the reading of archived batches transparent.     *)
(* While nothing is being archived every batch should be readable; of two  *)
(* calls that overlap, the one whose UPDATE finds no payload any more      *)
(* removes the file that the other has recorded.                           *)
(***************************************************************************)
ArchiveIsTransparent ==
  (\A a \in Archivers : archiver[a].at = "idle") =>
    \A b \in RawBatches : Readable(b)
=============================================================================
