--------------------------- MODULE PayslipDocuments ---------------------------
(***************************************************************************)
(* The versions of one payslip (an employee, a month and a payroll type),  *)
(* their rows in payrolls, payroll_documents, signature_requests and       *)
(* signature_evidence, and the two files of each, original.pdf and         *)
(* signed.pdf.  Five kinds of actors share them and meet only in MySQL and *)
(* in the file system:                                                     *)
(*                                                                         *)
(*   - normalizers create, repair and replace versions;                    *)
(*   - officers of the company release a version for signature;            *)
(*   - signers sign it, from the portal or through a link;                 *)
(*   - rewriters rewrite original.pdf, after a synchronization with Sage   *)
(*     or to take the footer of an earlier release out of it;              *)
(*   - a MASTER deletes the employee.                                      *)
(*                                                                         *)
(* A transaction is one step unless others can see into it: a repair       *)
(* writes its file before it commits.  A SHA-256 is the content it is of.  *)
(***************************************************************************)
EXTENDS Naturals

CONSTANTS
  Normalizers,  \* jobs being normalized, each with a payslip of this key
  Officers,     \* requests of the company's users
  Signers,      \* requests that sign; each would leave its own signed.pdf
  Rewriters,    \* requests that rewrite original.pdf
  Sources,      \* what Sage may say of the payslip: sourceHash, renderHash
  Profiles,     \* what the employee's row may say: name, job title, CBO
  MaxVersions,  \* bound on the versions
  Legacy,       \* there may be a version whose document has the old footer
  None          \* NULL, no file

VARIABLES
  status,      \* payrolls.status, ABSENT where there is no row
  current,     \* payrolls.is_current
  source,      \* payrolls.source_hash and render_hash
  original,    \* payroll_documents.original_sha256
  signed,      \* payroll_documents.signed_sha256
  request,     \* signature_requests.status
  evidence,    \* signature_evidence: the two hashes it seals
  file,        \* original.pdf
  signedFile,  \* signed.pdf
  profile,     \* the employee's row
  employee,    \* active or deleted
  norm,        \* each normalizer's place and what it has in memory
  officer,     \* each officer's, the same
  signer,      \* each signer's
  rewriter     \* each rewriter's

rowVars == <<status, current, source, original, signed, request, evidence>>
fileVars == <<file, signedFile>>
employeeVars == <<profile, employee>>
actorVars == <<norm, officer, signer, rewriter>>
vars == <<rowVars, fileVars, employeeVars, actorVars>>

Versions == 1 .. MaxVersions

\* PROCESSING is seen only inside the transaction that creates the version.
Status ==
  {"ABSENT", "READY", "SIGNATURE_REQUESTED", "VIEWED", "SIGNED", "REPLACED"}

\* What an original.pdf shows.
Content == [source : Sources, profile : Profiles, footer : BOOLEAN]
Evidence == [original : Content, signed : Signers]

ASSUME PayslipAssumption ==
  /\ MaxVersions \in Nat \ {0}
  /\ Legacy \in BOOLEAN
  /\ None \notin Signers \cup Sources \cup Profiles \cup Content \cup Evidence
  /\ None \notin {"PENDING", "SIGNED"}

NormalizerState ==
  [at : {"idle", "checking", "repair", "locked", "replace"},
   version : 0 .. MaxVersions, source : Sources \cup {None},
   profile : Profiles \cup {None}, hash : Content \cup {None}]
OfficerState == [at : {"idle", "insert", "update"}, version : 0 .. MaxVersions]
SignerState ==
  [at : {"idle", "write", "commit"}, version : 0 .. MaxVersions,
   original : Content \cup {None}]
RewriterState ==
  [at : {"idle", "list", "read", "write", "record"},
   version : 0 .. MaxVersions, content : Content \cup {None}]

IdleNormalizer ==
  [at |-> "idle", version |-> 0, source |-> None, profile |-> None, hash |-> None]
IdleOfficer == [at |-> "idle", version |-> 0]
IdleSigner == [at |-> "idle", version |-> 0, original |-> None]
IdleRewriter == [at |-> "idle", version |-> 0, content |-> None]

\* Columns, files and memories hold what their names say.
TypeOK ==
  /\ status \in [Versions -> Status]
  /\ current \in [Versions -> BOOLEAN]
  /\ source \in [Versions -> Sources \cup {None}]
  /\ original \in [Versions -> Content \cup {None}]
  /\ signed \in [Versions -> Signers \cup {None}]
  /\ request \in [Versions -> {None, "PENDING", "SIGNED"}]
  /\ evidence \in [Versions -> Evidence \cup {None}]
  /\ file \in [Versions -> Content \cup {None}]
  /\ signedFile \in [Versions -> Signers \cup {None}]
  /\ profile \in Profiles
  /\ employee \in {"active", "deleted"}
  /\ norm \in [Normalizers -> NormalizerState]
  /\ officer \in [Officers -> OfficerState]
  /\ signer \in [Signers -> SignerState]
  /\ rewriter \in [Rewriters -> RewriterState]

-----------------------------------------------------------------------------

\* Nothing yet, or one version that an earlier release has left.
Init ==
  /\ profile \in Profiles
  /\ \E present \in SUBSET (IF Legacy THEN {1} ELSE {}), s \in Sources :
       LET old == [source |-> s, profile |-> profile, footer |-> TRUE]
           Of(x, none) == [v \in Versions |-> IF v \in present THEN x ELSE none]
       IN /\ status = Of("READY", "ABSENT")
          /\ current = Of(TRUE, FALSE)
          /\ source = Of(s, None)
          /\ original = Of(old, None)
          /\ file = Of(old, None)
  /\ signed = [v \in Versions |-> None]
  /\ request = [v \in Versions |-> None]
  /\ evidence = [v \in Versions |-> None]
  /\ signedFile = [v \in Versions |-> None]
  /\ employee = "active"
  /\ norm = [n \in Normalizers |-> IdleNormalizer]
  /\ officer = [h \in Officers |-> IdleOfficer]
  /\ signer = [g \in Signers |-> IdleSigner]
  /\ rewriter = [r \in Rewriters |-> IdleRewriter]

Present(v) == status[v] # "ABSENT"

\* A repair holds the row FOR UPDATE until it commits or rolls back.
Locked(v) == \E n \in Normalizers : norm[n].at = "locked" /\ norm[n].version = v

\* WHERE is_current=1 ORDER BY version DESC LIMIT 1, 0 when there is none.
CurrentVersion ==
  LET marked == {v \in Versions : current[v]} IN
  IF marked = {} THEN 0 ELSE CHOOSE v \in marked : \A u \in marked : u <= v

-----------------------------------------------------------------------------
(* The normalizer.                                                         *)

\* payrollPdf, from the payslip and the employee as they were preloaded.
Rendered(n) ==
  [source |-> norm[n].source, profile |-> norm[n].profile, footer |-> FALSE]

\* preloadEmployees and preloadCurrentPayrolls.  A signed version is left
\* alone on either branch of persistNormalizedPayroll.
Preload(n, s) ==
  LET v == CurrentVersion IN
  /\ norm[n].at = "idle"
  /\ employee = "active"
  /\ v # 0 => status[v] # "SIGNED"
  /\ norm' = [norm EXCEPT ![n] =
       [at |-> IF v # 0 /\ source[v] = s THEN "checking" ELSE "replace",
        version |-> v, source |-> s, profile |-> profile,
        hash |-> IF v # 0 /\ source[v] = s THEN original[v] ELSE None]]
  /\ UNCHANGED <<rowVars, fileVars, employeeVars, officer, signer, rewriter>>

\* The same source: originalDocumentIntact compares the file, read now, with
\* the hash that was preloaded.
CheckDocument(n) ==
  /\ norm[n].at = "checking"
  /\ norm' = [norm EXCEPT ![n] = IF file[norm[n].version] = norm[n].hash
                                 THEN IdleNormalizer
                                 ELSE [@ EXCEPT !.at = "repair"]]
  /\ UNCHANGED <<rowVars, fileVars, employeeVars, officer, signer, rewriter>>

\* Mutant: the status is not read again under the lock.
RepairableUnread(n) ==
  LET v == norm[n].version IN current[v] /\ source[v] = norm[n].source

\* What the repair reads again under the lock.
Repairable(n) ==
  LET v == norm[n].version IN
  current[v] /\ status[v] # "SIGNED" /\ source[v] = norm[n].source

\* BEGIN, SELECT ... FOR UPDATE, and storage.write, which no rollback undoes.
RepairWrites(n) ==
  /\ norm[n].at = "repair"
  /\ ~Locked(norm[n].version)
  /\ Repairable(n)
  /\ file' = [file EXCEPT ![norm[n].version] = Rendered(n)]
  /\ norm' = [norm EXCEPT ![n].at = "locked"]
  /\ UNCHANGED <<rowVars, signedFile, employeeVars, officer, signer, rewriter>>

\* CASE WHEN status IN (...) THEN status ELSE 'READY' END.
RepairedStatus(v) ==
  IF status[v] \in {"SIGNATURE_REQUESTED", "VIEWED"} THEN status[v] ELSE "READY"

RepairCommits(n) ==
  LET v == norm[n].version IN
  /\ norm[n].at = "locked"
  /\ original' = [original EXCEPT ![v] = Rendered(n)]
  /\ status' = [status EXCEPT ![v] = RepairedStatus(v)]
  /\ norm' = [norm EXCEPT ![n] = IdleNormalizer]
  /\ UNCHANGED <<current, source, signed, request, evidence, fileVars,
                 employeeVars, officer, signer, rewriter>>

\* A lock conflict: normalizeClaimedJob calls again with what was preloaded.
RepairRetries(n) ==
  /\ norm[n].at = "locked"
  /\ norm' = [norm EXCEPT ![n].at = "checking"]
  /\ UNCHANGED <<rowVars, fileVars, employeeVars, officer, signer, rewriter>>

\* Mutant: the replaced version keeps is_current.
SupersededKept(v) == FALSE

\* UPDATE payrolls SET is_current=0,status=IF(status='SIGNED',status,'REPLACED').
Superseded(v) == v = CurrentVersion

\* Mutant: the status is not read again under the lock.
ReplaceableUnread(n) == norm[n].version = CurrentVersion

\* The two throws of the replacement, on the current version under the lock.
Replaceable(n) ==
  LET v == CurrentVersion IN
  /\ norm[n].version = v
  /\ v # 0 => status[v] # "SIGNED"

\* Mutant: the last UPDATE of the transaction is forgotten.
NewStatusForgotten == "PROCESSING"

\* UPDATE payrolls SET status='READY', before COMMIT.
NewStatus == "READY"

(***************************************************************************)
(* Another source, or no version: one transaction.  The file of the new    *)
(* id is seen by nobody before COMMIT and removed on rollback.  The foreign *)
(* key to the employee and uk_payroll_version are conditions of the INSERT. *)
(***************************************************************************)
Replace(n) ==
  LET new == CurrentVersion + 1 IN
  /\ norm[n].at = "replace"
  /\ \A v \in Versions : ~Locked(v)
  /\ Replaceable(n)
  /\ employee = "active"
  /\ new <= MaxVersions /\ ~Present(new)
  /\ status' = [v \in Versions |-> IF v = new THEN NewStatus
                                   ELSE IF Superseded(v) THEN "REPLACED"
                                   ELSE status[v]]
  /\ current' = [v \in Versions |-> v = new \/ (current[v] /\ ~Superseded(v))]
  /\ source' = [source EXCEPT ![new] = norm[n].source]
  /\ original' = [original EXCEPT ![new] = Rendered(n)]
  /\ file' = [file EXCEPT ![new] = Rendered(n)]
  /\ norm' = [norm EXCEPT ![n] = IdleNormalizer]
  /\ UNCHANGED <<signed, request, evidence, signedFile, employeeVars,
                 officer, signer, rewriter>>

\* An exception, an outcome that writes nothing, or the death of the process.
NormalizerStops(n) ==
  /\ norm[n].at # "idle"
  /\ norm' = [norm EXCEPT ![n] = IdleNormalizer]
  /\ UNCHANGED <<rowVars, fileVars, employeeVars, officer, signer, rewriter>>

-----------------------------------------------------------------------------
(* The officer: release, three statements; and the employee's markViewed.  *)

ReleaseChecks(h, v) ==
  /\ officer[h].at = "idle"
  /\ current[v]
  /\ status[v] \in {"READY", "SIGNATURE_REQUESTED", "VIEWED"}
  /\ officer' = [officer EXCEPT ![h] = [at |-> "insert", version |-> v]]
  /\ UNCHANGED <<rowVars, fileVars, employeeVars, norm, signer, rewriter>>

\* INSERT ... ON DUPLICATE KEY UPDATE; its foreign key needs the payslip.
ReleaseInserts(h) ==
  LET v == officer[h].version IN
  /\ officer[h].at = "insert"
  /\ Present(v) /\ ~Locked(v)
  /\ request' = [request EXCEPT ![v] = IF @ = "SIGNED" THEN @ ELSE "PENDING"]
  /\ officer' = [officer EXCEPT ![h].at = "update"]
  /\ UNCHANGED <<status, current, source, original, signed, evidence, fileVars,
                 employeeVars, norm, signer, rewriter>>

\* Mutant: the status is overwritten.
ReleasedOverSigned(v) == "SIGNATURE_REQUESTED"

\* IF(status='SIGNED',status,'SIGNATURE_REQUESTED').
ReleasedStatus(v) ==
  IF status[v] = "SIGNED" THEN status[v] ELSE "SIGNATURE_REQUESTED"

\* The UPDATE goes by id: the version may have been replaced since.
ReleaseUpdates(h) ==
  LET v == officer[h].version IN
  /\ officer[h].at = "update"
  /\ Present(v) /\ ~Locked(v)
  /\ status' = [status EXCEPT ![v] = ReleasedStatus(v)]
  /\ officer' = [officer EXCEPT ![h] = IdleOfficer]
  /\ UNCHANGED <<current, source, original, signed, request, evidence, fileVars,
                 employeeVars, norm, signer, rewriter>>

\* An exception or the death of the API: what was committed stays.
OfficerStops(h) ==
  /\ officer[h].at # "idle"
  /\ officer' = [officer EXCEPT ![h] = IdleOfficer]
  /\ UNCHANGED <<rowVars, fileVars, employeeVars, norm, signer, rewriter>>

\* Mutant: the condition on the status is dropped.
ViewableEarly == {"READY", "SIGNATURE_REQUESTED"}

\* The status that a view changes; VIEWED and SIGNED stay.
Viewable == {"SIGNATURE_REQUESTED"}

MarkViewed(v) ==
  /\ status[v] \in Viewable
  /\ ~Locked(v)
  /\ status' = [status EXCEPT ![v] = "VIEWED"]
  /\ UNCHANGED <<current, source, original, signed, request, evidence, fileVars,
                 employeeVars, actorVars>>

-----------------------------------------------------------------------------
(* The signer: performSign.                                                *)

\* contextByRequest: what is signed is the row as it is now, of any version.
SignerReads(g, v) ==
  /\ signer[g].at = "idle"
  /\ request[v] # None
  /\ status[v] # "SIGNED"
  /\ signer' = [signer EXCEPT ![g] =
       [at |-> "write", version |-> v, original |-> original[v]]]
  /\ UNCHANGED <<rowVars, fileVars, employeeVars, norm, officer, rewriter>>

\* storage.write of signed.pdf, at the path of the payslip.
SignerWrites(g) ==
  /\ signer[g].at = "write"
  /\ signedFile' = [signedFile EXCEPT ![signer[g].version] = g]
  /\ signer' = [signer EXCEPT ![g].at = "commit"]
  /\ UNCHANGED <<rowVars, file, employeeVars, norm, officer, rewriter>>

(***************************************************************************)
(* One transaction: evidence, document, request and payslip.  The INSERT   *)
(* waits for a repair's lock, through the foreign key, and fails when the  *)
(* request has its evidence (uk_signature_evidence_request) or is gone.    *)
(***************************************************************************)
SignCommits(g) ==
  LET v == signer[g].version IN
  /\ signer[g].at = "commit"
  /\ request[v] # None /\ evidence[v] = None /\ ~Locked(v)
  /\ evidence' = [evidence EXCEPT ![v] =
       [original |-> signer[g].original, signed |-> g]]
  /\ signed' = [signed EXCEPT ![v] = g]
  /\ request' = [request EXCEPT ![v] = "SIGNED"]
  /\ status' = [status EXCEPT ![v] = "SIGNED"]
  /\ signer' = [signer EXCEPT ![g] = IdleSigner]
  /\ UNCHANGED <<current, source, original, fileVars, employeeVars,
                 norm, officer, rewriter>>

\* The transaction failed, or something before it, or the API died.
SignerStops(g) ==
  /\ signer[g].at # "idle"
  /\ signer' = [signer EXCEPT ![g] = IdleSigner]
  /\ UNCHANGED <<rowVars, fileVars, employeeVars, norm, officer, rewriter>>

-----------------------------------------------------------------------------
(* The rewriters of original.pdf.                                          *)

\* applySync: the employee's row, and then refreshUnsignedPayrollDocuments.
SyncApplies(r, p) ==
  /\ rewriter[r].at = "idle"
  /\ employee = "active"
  /\ profile' = p
  /\ rewriter' = [rewriter EXCEPT ![r].at = "list"]
  /\ UNCHANGED <<rowVars, fileVars, employee, norm, officer, signer>>

\* The SELECT of the current payslips that are not signed, and the new PDF.
RefreshReads(r, v) ==
  /\ rewriter[r].at = "list"
  /\ current[v] /\ status[v] # "SIGNED"
  /\ rewriter' = [rewriter EXCEPT ![r] =
       [at |-> "write", version |-> v,
        content |-> [source |-> source[v], profile |-> profile, footer |-> FALSE]]]
  /\ UNCHANGED <<rowVars, fileVars, employeeVars, norm, officer, signer>>

\* adminDocument and exportDocuments: no signed_path, so the original is sent.
DownloadStarts(r, v) ==
  /\ rewriter[r].at = "idle"
  /\ Present(v) /\ signed[v] = None
  /\ rewriter' = [rewriter EXCEPT ![r] =
       [at |-> "read", version |-> v, content |-> None]]
  /\ UNCHANGED <<rowVars, fileVars, employeeVars, norm, officer, signer>>

\* readOriginalWithoutLegacyFooter; a file without the footer is only sent.
DownloadReads(r) ==
  LET pdf == file[rewriter[r].version] IN
  /\ rewriter[r].at = "read"
  /\ rewriter' = [rewriter EXCEPT ![r] =
       IF pdf.footer
       THEN [@ EXCEPT !.at = "write", !.content = [pdf EXCEPT !.footer = FALSE]]
       ELSE IdleRewriter]
  /\ UNCHANGED <<rowVars, fileVars, employeeVars, norm, officer, signer>>

\* storage.write: no look at the row again.
RewriterWrites(r) ==
  /\ rewriter[r].at = "write"
  /\ file' = [file EXCEPT ![rewriter[r].version] = rewriter[r].content]
  /\ rewriter' = [rewriter EXCEPT ![r].at = "record"]
  /\ UNCHANGED <<rowVars, signedFile, employeeVars, norm, officer, signer>>

\* UPDATE payroll_documents SET original_sha256, by payroll_id alone.
RewriterRecords(r) ==
  LET v == rewriter[r].version IN
  /\ rewriter[r].at = "record"
  /\ Present(v)
  /\ original' = [original EXCEPT ![v] = rewriter[r].content]
  /\ rewriter' = [rewriter EXCEPT ![r] = IdleRewriter]
  /\ UNCHANGED <<status, current, source, signed, request, evidence, fileVars,
                 employeeVars, norm, officer, signer>>

\* Nothing to refresh, the row is gone, an exception, or the API died.
RewriterStops(r) ==
  /\ rewriter[r].at # "idle"
  /\ rewriter' = [rewriter EXCEPT ![r] = IdleRewriter]
  /\ UNCHANGED <<rowVars, fileVars, employeeVars, norm, officer, signer>>

-----------------------------------------------------------------------------
(* deleteEmployee.                                                         *)

\* The versions whose files are below payrolls/<employee>: storage.write puts
\* them below companies/<company>/payrolls instead.
RemovedVersions == {}

(***************************************************************************)
(* One transaction over every payslip of the employee, FOR UPDATE, and     *)
(* storage.removeTree right after COMMIT, in the same step.                *)
(* Where a lookup of the document has left a document_verification_logs    *)
(* row its foreign key refuses the transaction, and nothing happens.       *)
(***************************************************************************)
DeleteEmployee ==
  /\ employee = "active"
  /\ \A v \in Versions :
       ~Locked(v) /\ status[v] # "SIGNED" /\ evidence[v] = None
  /\ status' = [v \in Versions |-> "ABSENT"]
  /\ current' = [v \in Versions |-> FALSE]
  /\ source' = [v \in Versions |-> None]
  /\ original' = [v \in Versions |-> None]
  /\ request' = [v \in Versions |-> None]
  /\ file' = [v \in Versions |-> IF v \in RemovedVersions THEN None ELSE file[v]]
  /\ signedFile' =
       [v \in Versions |-> IF v \in RemovedVersions THEN None ELSE signedFile[v]]
  /\ employee' = "deleted"
  /\ UNCHANGED <<signed, evidence, profile, actorVars>>

-----------------------------------------------------------------------------

NormalizerNext(n) ==
  \/ \E s \in Sources : Preload(n, s)
  \/ CheckDocument(n) \/ RepairWrites(n) \/ RepairCommits(n) \/ RepairRetries(n)
  \/ Replace(n) \/ NormalizerStops(n)

OfficerNext(h) ==
  \/ \E v \in Versions : ReleaseChecks(h, v)
  \/ ReleaseInserts(h) \/ ReleaseUpdates(h) \/ OfficerStops(h)

SignerNext(g) ==
  \/ \E v \in Versions : SignerReads(g, v)
  \/ SignerWrites(g) \/ SignCommits(g) \/ SignerStops(g)

RewriterNext(r) ==
  \/ \E p \in Profiles : SyncApplies(r, p)
  \/ \E v \in Versions : RefreshReads(r, v) \/ DownloadStarts(r, v)
  \/ DownloadReads(r) \/ RewriterWrites(r) \/ RewriterRecords(r) \/ RewriterStops(r)

Next ==
  \/ \E n \in Normalizers : NormalizerNext(n)
  \/ \E h \in Officers : OfficerNext(h)
  \/ \E g \in Signers : SignerNext(g)
  \/ \E r \in Rewriters : RewriterNext(r)
  \/ \E v \in Versions : MarkViewed(v)
  \/ DeleteEmployee

Spec == Init /\ [][Next]_vars

-----------------------------------------------------------------------------

(***************************************************************************)
(* At every moment exactly the highest version is the current one, so that *)
(* every reader of is_current finds the same single row, across the races  *)
(* of two normalizations of the payslip and the employee's deletion.       *)
(***************************************************************************)
OneCurrentVersion ==
  \A v \in Versions :
    current[v] <=> Present(v) /\ \A u \in Versions : Present(u) => u <= v

(***************************************************************************)
(* The four tables agree on what is signed, and by what: status SIGNED,    *)
(* request SIGNED, evidence, and a signed document whose hash the evidence *)
(* has.  A release or a repair under way must not undo one of them.        *)
(***************************************************************************)
SignaturesAgree ==
  \A v \in Versions :
    /\ status[v] = "SIGNED" <=> evidence[v] # None
    /\ request[v] = "SIGNED" <=> evidence[v] # None
    /\ signed[v] = IF evidence[v] = None THEN None ELSE evidence[v].signed

(***************************************************************************)
(* An employee sees a payslip to sign only when there is a request that    *)
(* signing can find, whatever repairs, replacements and deletions ran      *)
(* between the statements of release.                                      *)
(***************************************************************************)
OfferedHasRequest ==
  \A v \in Versions :
    status[v] \in {"SIGNATURE_REQUESTED", "VIEWED"} => request[v] = "PENDING"

(***************************************************************************)
(* "Holerite assinado nunca sera rebaixado ou sobrescrito": whatever else  *)
(* happens in between, no step of a normalizer changes the row, the        *)
(* document's hash or the file of a version that is signed.                *)
(***************************************************************************)
SignedLeftByNormalizer ==
  [][\A v \in Versions :
       status[v] = "SIGNED" /\ norm' # norm =>
         UNCHANGED <<status[v], current[v], original[v], file[v], signedFile[v]>>]_vars

(***************************************************************************)
(* The versions and their signatures implement SignedPayslip: signed once  *)
(* and for good, no successor to a signed current version, no erasure of   *)
(* a signed payslip.                                                       *)
(***************************************************************************)
SignatureOf(v) == IF evidence[v] = None THEN None ELSE evidence[v].signed

Payslip == INSTANCE SignedPayslip WITH
  latest <- CurrentVersion,
  signature <- [v \in Versions |-> SignatureOf(v)]

PayslipSpec == Payslip!Spec

(***************************************************************************)
(* "PDFs ja assinados nao sao alterados": the original of a signed payslip *)
(* is the one whose hash its evidence has, in the row and in storage.      *)
(***************************************************************************)
SignedOriginalKept ==
  \A v \in Versions :
    evidence[v] # None =>
      original[v] = evidence[v].original /\ file[v] = evidence[v].original

(***************************************************************************)
(* "PDFs ja assinados permanecem imutaveis": the signed file is the one    *)
(* whose hash the evidence has.                                            *)
(***************************************************************************)
SignedFileKept ==
  \A v \in Versions : evidence[v] # None => signedFile[v] = evidence[v].signed

(***************************************************************************)
(* "Limpeza de holerites/arquivos nao assinados": when deleteEmployee has  *)
(* returned, none of the employee's documents is left in storage.          *)
(***************************************************************************)
FilesGoWithEmployee ==
  employee = "deleted" => \A v \in Versions : file[v] = None
=============================================================================
