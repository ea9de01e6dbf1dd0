------------------------ MODULE PayslipDocumentsProofs ------------------------
(***************************************************************************)
(* Theorems about the documents of one payslip, for any number of          *)
(* versions and of normalizers, officers, signers and rewriters.           *)
(***************************************************************************)
EXTENDS PayslipDocuments, TLAPS

\* A row is whole, and a request belongs to a row.
RowsAreWhole ==
  \A v \in Versions :
    /\ Present(v) => source[v] \in Sources /\ original[v] \in Content
    /\ request[v] # None => Present(v)

\* Where there are versions one is current; a deleted employee has none.
PayslipHasCurrent ==
  /\ \A v \in Versions : Present(v) => \E u \in Versions : current[u]
  /\ employee = "deleted" => \A v \in Versions : ~Present(v)

RowsInv ==
  /\ RowsAreWhole
  /\ PayslipHasCurrent
  /\ OneCurrentVersion
  /\ SignaturesAgree
  /\ OfferedHasRequest

\* A normalizer knows what it renders, and the row it has locked stays current
\* and unsigned until it lets it go.
NormalizersHold ==
  \A n \in Normalizers :
    LET v == norm[n].version IN
    /\ norm[n].at # "idle" => norm[n].source \in Sources /\ norm[n].profile \in Profiles
    /\ norm[n].at \in {"checking", "repair", "locked"} => v \in Versions
    /\ norm[n].at = "locked" => current[v] /\ status[v] # "SIGNED"

\* The version that an officer releases is there, and has its request before
\* its status says so, as long as the employee is there.
OfficersHold ==
  \A h \in Officers :
    LET v == officer[h].version IN
    /\ officer[h].at # "idle" => v \in Versions /\ (employee = "active" => Present(v))
    /\ officer[h].at = "update" /\ employee = "active" => request[v] # None

\* A signer has read the hash of a document.
SignersHold ==
  \A g \in Signers :
    signer[g].at # "idle" =>
      signer[g].version \in Versions /\ signer[g].original \in Content

\* What a rewriter reads, and what it writes, is a document.
RewritersHold ==
  \A r \in Rewriters :
    LET v == rewriter[r].version IN
    /\ rewriter[r].at \in {"read", "write", "record"} => v \in Versions
    /\ rewriter[r].at = "read" => file[v] \in Content
    /\ rewriter[r].at \in {"write", "record"} => rewriter[r].content \in Content

FilesHold == \A v \in Versions : Present(v) => file[v] \in Content

MemoriesHold ==
  /\ FilesHold
  /\ NormalizersHold
  /\ OfficersHold
  /\ SignersHold
  /\ RewritersHold

PayslipInv == TypeOK /\ RowsInv /\ MemoriesHold

-----------------------------------------------------------------------------
(***************************************************************************)
(* Types.                                                                  *)
(***************************************************************************)

\* The current version is a version, or 0 where none is current.
LEMMA CurrentVersionType ==
  ASSUME TypeOK, RowsInv
  PROVE  /\ CurrentVersion \in 0 .. MaxVersions
         /\ CurrentVersion # 0 =>
              CurrentVersion \in Versions /\ current[CurrentVersion]
         /\ \A v \in Versions : current[v] => v = CurrentVersion
<1>1. CASE \E v \in Versions : current[v]
  <2>1. PICK v \in Versions : current[v]
    BY <1>1
  <2>2. \A u \in Versions : current[u] => u <= v /\ v <= u
    BY <2>1 DEF RowsInv, OneCurrentVersion
  <2>3. CurrentVersion \in {u \in Versions : current[u]}
    BY <2>1, <2>2 DEF CurrentVersion, Versions
  <2>4. QED
    BY <2>1, <2>2, <2>3, PayslipAssumption DEF Versions
<1>2. CASE ~ \E v \in Versions : current[v]
  <2>1. CurrentVersion = 0
    BY <1>2 DEF CurrentVersion
  <2>2. QED
    BY <1>2, <2>1, PayslipAssumption
<1>3. QED
  BY <1>1, <1>2

\* A normalizer that is at work renders a document.
LEMMA RenderedType ==
  ASSUME PayslipInv, NEW n \in Normalizers, norm[n].at # "idle"
  PROVE  Rendered(n) \in Content
BY DEF PayslipInv, MemoriesHold, NormalizersHold, Rendered, Content

\* Going on to another place keeps what a normalizer has in memory.
LEMMA NormalizerMoved ==
  ASSUME TypeOK, NEW n \in Normalizers,
         NEW place \in {"idle", "checking", "repair", "locked", "replace"},
         norm' = [norm EXCEPT ![n].at = place]
  PROVE  /\ norm' \in [Normalizers -> NormalizerState]
         /\ norm'[n].at = place
         /\ norm'[n].version = norm[n].version
         /\ norm'[n].source = norm[n].source
         /\ norm'[n].profile = norm[n].profile
         /\ \A m \in Normalizers : m # n => norm'[m] = norm[m]
BY DEF TypeOK, NormalizerState

\* Types through every step of a normalizer.
LEMMA NormalizerKeepsTypes ==
  ASSUME PayslipInv, NEW n \in Normalizers, NormalizerNext(n) PROVE TypeOK'
<1> USE PayslipAssumption
    DEF PayslipInv, MemoriesHold, NormalizersHold, rowVars, fileVars, employeeVars
<1>1. ASSUME NEW s \in Sources, Preload(n, s) PROVE TypeOK'
  <2>1. CurrentVersion \in 0 .. MaxVersions
    BY CurrentVersionType
  <2> DEFINE v == CurrentVersion
  <2>2. norm'[n] \in NormalizerState
    BY <1>1, CurrentVersionType DEF Preload, TypeOK, NormalizerState
  <2>3. QED
    BY <1>1, <2>2 DEF Preload, TypeOK
<1>2. ASSUME CheckDocument(n) PROVE TypeOK'
  BY <1>2 DEF CheckDocument, TypeOK, NormalizerState, IdleNormalizer
<1>3. ASSUME RepairWrites(n) PROVE TypeOK'
  <2>1. Rendered(n) \in Content
    BY <1>3, RenderedType DEF RepairWrites
  <2>2. norm' \in [Normalizers -> NormalizerState]
    BY <1>3, NormalizerMoved DEF RepairWrites
  <2>3. QED
    BY <1>3, <2>1, <2>2 DEF RepairWrites, TypeOK
<1>4. ASSUME RepairCommits(n) PROVE TypeOK'
  <2>1. Rendered(n) \in Content
    BY <1>4, RenderedType DEF RepairCommits
  <2>2. norm' \in [Normalizers -> NormalizerState]
    BY <1>4 DEF RepairCommits, TypeOK, NormalizerState, IdleNormalizer
  <2>3. QED
    BY <1>4, <2>1, <2>2 DEF RepairCommits, RepairedStatus, Status, TypeOK
<1>5. ASSUME RepairRetries(n) PROVE TypeOK'
  BY <1>5, NormalizerMoved DEF RepairRetries, TypeOK
<1>6. ASSUME Replace(n) PROVE TypeOK'
  <2>1. Rendered(n) \in Content /\ norm[n].source \in Sources
    BY <1>6, RenderedType DEF Replace
  <2>2. norm' \in [Normalizers -> NormalizerState]
    BY <1>6 DEF Replace, TypeOK, NormalizerState, IdleNormalizer
  <2>3. /\ source' \in [Versions -> Sources \cup {None}]
        /\ original' \in [Versions -> Content \cup {None}]
        /\ file' \in [Versions -> Content \cup {None}]
    BY <1>6, <2>1 DEF Replace, TypeOK
  <2>4. /\ status' \in [Versions -> Status]
        /\ current' \in [Versions -> BOOLEAN]
    BY <1>6 DEF Replace, NewStatus, Status, TypeOK
  <2>5. QED
    BY <1>6, <2>2, <2>3, <2>4 DEF Replace, TypeOK
<1>7. ASSUME NormalizerStops(n) PROVE TypeOK'
  BY <1>7 DEF NormalizerStops, TypeOK, NormalizerState, IdleNormalizer
<1>8. QED
  BY <1>1, <1>2, <1>3, <1>4, <1>5, <1>6, <1>7 DEF NormalizerNext

\* Types through every step of an officer, a signer and a rewriter.
LEMMA OfficerKeepsTypes ==
  ASSUME PayslipInv, NEW h \in Officers, OfficerNext(h) PROVE TypeOK'
<1> USE PayslipAssumption
    DEF PayslipInv, TypeOK, OfficerState, rowVars, fileVars, employeeVars
<1>1. ASSUME NEW v \in Versions, ReleaseChecks(h, v) PROVE TypeOK'
  BY <1>1 DEF ReleaseChecks, Versions
<1>2. ASSUME ReleaseInserts(h) PROVE TypeOK'
  BY <1>2 DEF ReleaseInserts
<1>3. ASSUME ReleaseUpdates(h) PROVE TypeOK'
  <2>1. officer' \in [Officers -> OfficerState]
    BY <1>3 DEF ReleaseUpdates, IdleOfficer
  <2>2. ReleasedStatus(officer[h].version) \in Status
        \/ officer[h].version \notin Versions
    BY DEF ReleasedStatus, Status
  <2>3. QED
    BY <1>3, <2>1, <2>2 DEF ReleaseUpdates
<1>4. ASSUME OfficerStops(h) PROVE TypeOK'
  BY <1>4 DEF OfficerStops, IdleOfficer
<1>5. QED
  BY <1>1, <1>2, <1>3, <1>4 DEF OfficerNext

\* Types through every step of a request that signs.
LEMMA SignerKeepsTypes ==
  ASSUME PayslipInv, NEW g \in Signers, SignerNext(g) PROVE TypeOK'
<1> USE PayslipAssumption
    DEF PayslipInv, TypeOK, SignerState, rowVars, fileVars, employeeVars
<1>1. ASSUME NEW v \in Versions, SignerReads(g, v) PROVE TypeOK'
  BY <1>1 DEF SignerReads, Versions
<1>2. ASSUME SignerWrites(g) PROVE TypeOK'
  BY <1>2 DEF SignerWrites
<1>3. ASSUME SignCommits(g) PROVE TypeOK'
  <2>1. signer[g].original \in Content
    BY <1>3 DEF SignCommits, MemoriesHold, SignersHold
  <2>2. [original |-> signer[g].original, signed |-> g] \in Evidence
    BY <2>1 DEF Evidence
  <2>3. evidence' \in [Versions -> Evidence \cup {None}]
    BY <1>3, <2>2 DEF SignCommits
  <2>4. QED
    BY <1>3, <2>3 DEF SignCommits, Status, IdleSigner
<1>4. ASSUME SignerStops(g) PROVE TypeOK'
  BY <1>4 DEF SignerStops, IdleSigner
<1>5. QED
  BY <1>1, <1>2, <1>3, <1>4 DEF SignerNext

\* Types through every step of a rewriter.
LEMMA RewriterKeepsTypes ==
  ASSUME PayslipInv, NEW r \in Rewriters, RewriterNext(r) PROVE TypeOK'
<1> USE PayslipAssumption
    DEF PayslipInv, MemoriesHold, RewritersHold, TypeOK, RewriterState,
        IdleRewriter, rowVars, fileVars, employeeVars
<1>1. ASSUME NEW p \in Profiles, SyncApplies(r, p) PROVE TypeOK'
  BY <1>1 DEF SyncApplies
<1>2. ASSUME NEW v \in Versions, RefreshReads(r, v) PROVE TypeOK'
  <2>1. source[v] \in Sources
    BY <1>2 DEF RefreshReads, RowsInv, RowsAreWhole, OneCurrentVersion
  <2>2. [source |-> source[v], profile |-> profile, footer |-> FALSE] \in Content
    BY <2>1 DEF Content
  <2>3. QED
    BY <1>2, <2>2 DEF RefreshReads, Versions
<1>3. ASSUME NEW v \in Versions, DownloadStarts(r, v) PROVE TypeOK'
  BY <1>3 DEF DownloadStarts, Versions
<1>4. ASSUME DownloadReads(r) PROVE TypeOK'
  <2> DEFINE pdf == file[rewriter[r].version]
  <2>1. pdf \in Content
    BY <1>4 DEF DownloadReads
  <2>2. [pdf EXCEPT !.footer = FALSE] \in Content
    BY <2>1 DEF Content
  <2> HIDE DEF pdf
  <2>3. rewriter'[r] \in RewriterState
    <3>1. rewriter'[r] = IF pdf.footer
            THEN [rewriter[r] EXCEPT !.at = "write",
                                     !.content = [pdf EXCEPT !.footer = FALSE]]
            ELSE IdleRewriter
      BY <1>4 DEF DownloadReads, pdf
    <3>2. rewriter[r] \in RewriterState
      OBVIOUS
    <3>3. [rewriter[r] EXCEPT !.at = "write",
                              !.content = [pdf EXCEPT !.footer = FALSE]]
            \in RewriterState
      BY <2>2, <3>2
    <3>4. QED
      BY <3>1, <3>3
  <2>4. QED
    BY <1>4, <2>3 DEF DownloadReads
<1>5. ASSUME RewriterWrites(r) PROVE TypeOK'
  BY <1>5 DEF RewriterWrites
<1>6. ASSUME RewriterRecords(r) PROVE TypeOK'
  BY <1>6 DEF RewriterRecords
<1>7. ASSUME RewriterStops(r) PROVE TypeOK'
  BY <1>7 DEF RewriterStops
<1>8. QED
  BY <1>1, <1>2, <1>3, <1>4, <1>5, <1>6, <1>7 DEF RewriterNext

\* Types through every step.
LEMMA TypesKept == ASSUME PayslipInv, [Next]_vars PROVE TypeOK'
<1>1. ASSUME NEW v \in Versions, MarkViewed(v) PROVE TypeOK'
  BY <1>1 DEF MarkViewed, PayslipInv, TypeOK, Status, fileVars, employeeVars, actorVars
<1>2. ASSUME DeleteEmployee PROVE TypeOK'
  BY <1>2 DEF DeleteEmployee, RemovedVersions, PayslipInv, TypeOK, Status, actorVars
<1>3. ASSUME UNCHANGED vars PROVE TypeOK'
  BY <1>3 DEF PayslipInv, TypeOK, vars, rowVars, fileVars, employeeVars, actorVars
<1>4. QED
  BY <1>1, <1>2, <1>3, NormalizerKeepsTypes, OfficerKeepsTypes, SignerKeepsTypes,
     RewriterKeepsTypes DEF Next

-----------------------------------------------------------------------------
(***************************************************************************)
(* Rows.                                                                   *)
(***************************************************************************)

\* Rows untouched but for the hash of a document.
LEMMA RowsUntouched ==
  ASSUME PayslipInv, UNCHANGED <<status, current, source, signed, request, evidence>>,
         employee' = employee,
         \A v \in Versions : original[v] \in Content => original'[v] \in Content
  PROVE  RowsInv'
BY DEF PayslipInv, RowsInv, RowsAreWhole, PayslipHasCurrent, OneCurrentVersion,
       SignaturesAgree, OfferedHasRequest, Present

\* A row that is there and not signed gets a status other than SIGNED, and one
\* that offers it to the employee only where there is a request.
LEMMA StatusChanged ==
  ASSUME PayslipInv, NEW v \in Versions, NEW s \in Status \ {"ABSENT", "SIGNED"},
         Present(v), status[v] # "SIGNED",
         s \in {"SIGNATURE_REQUESTED", "VIEWED"} => request[v] = "PENDING",
         status' = [status EXCEPT ![v] = s],
         UNCHANGED <<current, source, signed, request, evidence, employee>>,
         \A u \in Versions : original[u] \in Content => original'[u] \in Content
  PROVE  RowsInv'
<1> USE DEF PayslipInv, RowsInv
<1>1. status'[v] = s /\ \A u \in Versions : u # v => status'[u] = status[u]
  BY DEF TypeOK
<1>2. \A u \in Versions : Present(u)' <=> Present(u)
  BY <1>1 DEF Present
<1>3. RowsAreWhole' /\ PayslipHasCurrent' /\ OneCurrentVersion'
  BY <1>2 DEF RowsAreWhole, PayslipHasCurrent, OneCurrentVersion
<1>4. SignaturesAgree' /\ OfferedHasRequest'
  BY <1>1 DEF SignaturesAgree, OfferedHasRequest
<1>5. QED
  BY <1>3, <1>4

\* The row that a repair has locked is there and not signed.
LEMMA LockedRow ==
  ASSUME PayslipInv, NEW n \in Normalizers, norm[n].at = "locked"
  PROVE  /\ norm[n].version \in Versions
         /\ current[norm[n].version]
         /\ Present(norm[n].version)
         /\ status[norm[n].version] # "SIGNED"
BY DEF PayslipInv, RowsInv, MemoriesHold, NormalizersHold, OneCurrentVersion

\* Rows through every step of a normalizer.
LEMMA RepairCommitsRows ==
  ASSUME PayslipInv, NEW n \in Normalizers, RepairCommits(n) PROVE RowsInv'
<1> DEFINE v == norm[n].version
<1>1. v \in Versions /\ Present(v) /\ status[v] # "SIGNED"
  BY LockedRow DEF RepairCommits
<1>2. RepairedStatus(v) \in Status \ {"ABSENT", "SIGNED"}
  BY DEF RepairedStatus, Status
<1>3. RepairedStatus(v) \in {"SIGNATURE_REQUESTED", "VIEWED"} => request[v] = "PENDING"
  BY <1>1 DEF RepairedStatus, PayslipInv, RowsInv, OfferedHasRequest
<1>4. \A u \in Versions : original[u] \in Content => original'[u] \in Content
  BY RenderedType DEF RepairCommits, PayslipInv, TypeOK
<1>5. QED
  BY <1>1, <1>2, <1>3, <1>4, StatusChanged DEF RepairCommits, employeeVars

\* A new version takes over from the one that the normalizer holds locked,
\* which was seen to be unsigned, and takes its request with it.
LEMMA ReplaceRows ==
  ASSUME PayslipInv, NEW n \in Normalizers, Replace(n) PROVE RowsInv'
<1> USE DEF PayslipInv
<1> DEFINE old == CurrentVersion
           new == CurrentVersion + 1
<1>1. /\ new \in Versions /\ ~Present(new) /\ new = old + 1
      /\ old # 0 => old \in Versions /\ current[old] /\ status[old] # "SIGNED"
      /\ employee = "active" /\ employee' = "active"
      /\ \A v \in Versions : current[v] => v = old
  BY CurrentVersionType, PayslipAssumption
     DEF Replace, Replaceable, Versions, employeeVars
<1>2. \A v \in Versions : Present(v) => v <= old
  BY <1>1 DEF RowsInv, OneCurrentVersion, PayslipHasCurrent
<1>3. \A v \in Versions :
        /\ status'[v] = IF v = new THEN "READY"
                        ELSE IF v = old THEN "REPLACED" ELSE status[v]
        /\ current'[v] <=> v = new \/ (current[v] /\ v # old)
        /\ source'[v] = IF v = new THEN norm[n].source ELSE source[v]
        /\ original'[v] = IF v = new THEN Rendered(n) ELSE original[v]
  BY DEF Replace, TypeOK, NewStatus, Superseded
<1>4. UNCHANGED <<signed, request, evidence>>
  BY DEF Replace
<1> HIDE DEF old, new
<1>5. \A v \in Versions : Present(v)' <=> v = new \/ Present(v)
  BY <1>1, <1>3 DEF Present, RowsInv, OneCurrentVersion, Versions
<1>6. RowsAreWhole'
  <2>1. Rendered(n) \in Content /\ norm[n].source \in Sources
    BY RenderedType DEF Replace, MemoriesHold, NormalizersHold
  <2>2. QED
    BY <1>1, <1>3, <1>4, <1>5, <2>1 DEF RowsInv, RowsAreWhole
<1>7. PayslipHasCurrent'
  BY <1>1, <1>3 DEF PayslipHasCurrent
<1>8. OneCurrentVersion'
  BY <1>1, <1>2, <1>3, <1>5 DEF OneCurrentVersion, Versions
<1>9. SignaturesAgree' /\ OfferedHasRequest'
  BY <1>1, <1>3, <1>4
     DEF RowsInv, SignaturesAgree, OfferedHasRequest, Present, Versions
<1>10. QED
  BY <1>6, <1>7, <1>8, <1>9 DEF RowsInv

\* Rows through every step of a normalizer.
LEMMA NormalizerKeepsRows ==
  ASSUME PayslipInv, NEW n \in Normalizers, NormalizerNext(n) PROVE RowsInv'
<1>1. CASE UNCHANGED <<rowVars, employeeVars>>
  BY <1>1, RowsUntouched DEF rowVars, employeeVars
<1>2. QED
  BY <1>1, RepairCommitsRows, ReplaceRows
     DEF NormalizerNext, Preload, CheckDocument, RepairWrites, RepairRetries,
         NormalizerStops

\* Rows through every step of an officer.
LEMMA OfficerKeepsRows ==
  ASSUME PayslipInv, NEW h \in Officers, OfficerNext(h) PROVE RowsInv'
<1> DEFINE v == officer[h].version
<1>1. CASE UNCHANGED <<rowVars, employeeVars>>
  BY <1>1, RowsUntouched DEF rowVars, employeeVars
<1>2. ASSUME ReleaseInserts(h) PROVE RowsInv'
  <2> USE DEF PayslipInv, RowsInv
  <2>1. v \in Versions /\ Present(v)
    BY <1>2 DEF ReleaseInserts, MemoriesHold, OfficersHold
  <2>2. /\ request'[v] = IF request[v] = "SIGNED" THEN "SIGNED" ELSE "PENDING"
        /\ \A u \in Versions : u # v => request'[u] = request[u]
    BY <1>2, <2>1 DEF ReleaseInserts, TypeOK
  <2>3. UNCHANGED <<status, current, source, original, signed, evidence, employee>>
    BY <1>2 DEF ReleaseInserts, employeeVars
  <2>4. RowsAreWhole' /\ PayslipHasCurrent' /\ OneCurrentVersion'
    BY <2>1, <2>2, <2>3 DEF RowsAreWhole, PayslipHasCurrent, OneCurrentVersion, Present
  <2>5. SignaturesAgree' /\ OfferedHasRequest'
    BY <2>2, <2>3 DEF SignaturesAgree, OfferedHasRequest
  <2>6. QED
    BY <2>4, <2>5
<1>3. ASSUME ReleaseUpdates(h) PROVE RowsInv'
  <2>1. v \in Versions /\ Present(v) /\ request[v] # None
    BY <1>3 DEF ReleaseUpdates, PayslipInv, RowsInv, PayslipHasCurrent, TypeOK,
                MemoriesHold, OfficersHold
  <2>2. CASE status[v] = "SIGNED"
    <3>1. status' = status
      BY <1>3, <2>2 DEF ReleaseUpdates, ReleasedStatus, PayslipInv, TypeOK
    <3>2. QED
      BY <1>3, <3>1, RowsUntouched DEF ReleaseUpdates, employeeVars
  <2>3. CASE status[v] # "SIGNED"
    <3>1. request[v] = "PENDING"
      BY <2>1, <2>3 DEF PayslipInv, TypeOK, RowsInv, SignaturesAgree
    <3>2. status' = [status EXCEPT ![v] = "SIGNATURE_REQUESTED"]
      BY <1>3, <2>3 DEF ReleaseUpdates, ReleasedStatus
    <3>3. QED
      BY <1>3, <2>1, <2>3, <3>1, <3>2, StatusChanged
         DEF ReleaseUpdates, employeeVars, Status
  <2>4. QED
    BY <2>2, <2>3
<1>4. QED
  BY <1>1, <1>2, <1>3 DEF OfficerNext, ReleaseChecks, OfficerStops

\* Rows through the transaction of a signature, which must find the request and
\* no evidence.
LEMMA SignerKeepsRows ==
  ASSUME PayslipInv, NEW g \in Signers, SignerNext(g) PROVE RowsInv'
<1> DEFINE v == signer[g].version
<1>1. CASE UNCHANGED <<rowVars, employeeVars>>
  BY <1>1, RowsUntouched DEF rowVars, employeeVars
<1>2. ASSUME SignCommits(g) PROVE RowsInv'
  <2> USE DEF PayslipInv, RowsInv
  <2> DEFINE e == [original |-> signer[g].original, signed |-> g]
  <2>1. v \in Versions /\ Present(v) /\ evidence[v] = None
    BY <1>2 DEF SignCommits, MemoriesHold, SignersHold, RowsAreWhole
  <2>2. e # None /\ e.signed = g
    BY <1>2, PayslipAssumption DEF SignCommits, Evidence, MemoriesHold, SignersHold
  <2>3. /\ evidence'[v] = e /\ signed'[v] = g
        /\ request'[v] = "SIGNED" /\ status'[v] = "SIGNED"
        /\ \A u \in Versions : u # v =>
             UNCHANGED <<evidence[u], signed[u], request[u], status[u]>>
    BY <1>2, <2>1 DEF SignCommits, TypeOK
  <2>4. UNCHANGED <<current, source, original, employee>>
    BY <1>2 DEF SignCommits, employeeVars
  <2>5. \A u \in Versions : Present(u)' <=> Present(u)
    BY <2>1, <2>3 DEF Present
  <2>6. RowsAreWhole' /\ PayslipHasCurrent' /\ OneCurrentVersion'
    BY <2>1, <2>3, <2>4, <2>5 DEF RowsAreWhole, PayslipHasCurrent, OneCurrentVersion
  <2> HIDE DEF e
  <2>7. SignaturesAgree' /\ OfferedHasRequest'
    BY <2>2, <2>3 DEF SignaturesAgree, OfferedHasRequest
  <2>8. QED
    BY <2>6, <2>7
<1>3. QED
  BY <1>1, <1>2 DEF SignerNext, SignerReads, SignerWrites, SignerStops

\* Rows through every step of a rewriter, which writes a hash at most.
LEMMA RewriterKeepsRows ==
  ASSUME PayslipInv, NEW r \in Rewriters, RewriterNext(r) PROVE RowsInv'
<1>1. CASE UNCHANGED <<rowVars, employee>>
  BY <1>1, RowsUntouched DEF rowVars
<1>2. ASSUME RewriterRecords(r) PROVE RowsInv'
  <2>1. \A v \in Versions : original[v] \in Content => original'[v] \in Content
    BY <1>2 DEF RewriterRecords, PayslipInv, TypeOK, MemoriesHold, RewritersHold
  <2>2. QED
    BY <1>2, <2>1, RowsUntouched DEF RewriterRecords, employeeVars
<1>3. QED
  BY <1>1, <1>2
     DEF RewriterNext, SyncApplies, RefreshReads, DownloadStarts, DownloadReads,
         RewriterWrites, RewriterStops, employeeVars

\* Rows through every step.
LEMMA RowsKept == ASSUME PayslipInv, [Next]_vars PROVE RowsInv'
<1>1. ASSUME NEW v \in Versions, MarkViewed(v) PROVE RowsInv'
  <2>1. Present(v) /\ status[v] # "SIGNED" /\ request[v] = "PENDING"
    BY <1>1 DEF MarkViewed, Viewable, Present, PayslipInv, RowsInv, OfferedHasRequest
  <2>2. QED
    BY <1>1, <2>1, StatusChanged DEF MarkViewed, Status, employeeVars
<1>2. ASSUME DeleteEmployee PROVE RowsInv'
  <2>1. \A v \in Versions : /\ status'[v] = "ABSENT" /\ ~current'[v]
                            /\ request'[v] = None
                            /\ evidence'[v] = None /\ signed'[v] = None
    BY <1>2 DEF DeleteEmployee, PayslipInv, RowsInv, SignaturesAgree
  <2>2. QED
    BY <2>1, PayslipAssumption
       DEF RowsInv, RowsAreWhole, PayslipHasCurrent, OneCurrentVersion,
           SignaturesAgree, OfferedHasRequest, Present
<1>3. ASSUME UNCHANGED vars PROVE RowsInv'
  BY <1>3, RowsUntouched DEF vars, rowVars, employeeVars
<1>4. QED
  BY <1>1, <1>2, <1>3, NormalizerKeepsRows, OfficerKeepsRows, SignerKeepsRows,
     RewriterKeepsRows DEF Next

-----------------------------------------------------------------------------
(***************************************************************************)
(* Memories.                                                               *)
(***************************************************************************)

\* Rows come with their file, and stay with their request, for as long as the
\* employee does; a document is never replaced by something else.
LEMMA RowsStay ==
  ASSUME PayslipInv, [Next]_vars
  PROVE  /\ employee' = "active" =>
              /\ employee = "active"
              /\ \A v \in Versions :
                   /\ Present(v) => Present(v)'
                   /\ request[v] # None => request'[v] # None
         /\ \A v \in Versions : file[v] \in Content => file'[v] \in Content
         /\ FilesHold'
<1> USE DEF PayslipInv
<1> DEFINE Stay(v) == /\ Present(v) => Present(v)'
                      /\ request[v] # None => request'[v] # None
                      /\ file[v] \in Content => file'[v] \in Content
                      /\ Present(v)' => file'[v] \in Content
<1> SUFFICES /\ employee' = "active" => employee = "active"
             /\ \A v \in Versions :
                  /\ file[v] \in Content => file'[v] \in Content
                  /\ Present(v)' => file'[v] \in Content
                  /\ employee' = "active" => Stay(v)
  BY DEF FilesHold
<1>1. CASE UNCHANGED <<status, request, file, employee>>
  BY <1>1 DEF Present, MemoriesHold, FilesHold
<1>2. ASSUME NEW n \in Normalizers, RepairWrites(n)
      PROVE  employee' = employee /\ \A v \in Versions : Stay(v)
  BY <1>2, RenderedType
     DEF RepairWrites, rowVars, employeeVars, Present, MemoriesHold, FilesHold, TypeOK
<1>3. ASSUME NEW n \in Normalizers, RepairCommits(n)
      PROVE  employee' = employee /\ \A v \in Versions : Stay(v)
  BY <1>3, LockedRow
     DEF RepairCommits, RepairedStatus, fileVars, employeeVars, Present,
         MemoriesHold, FilesHold, TypeOK
<1>4. ASSUME NEW n \in Normalizers, Replace(n)
      PROVE  employee' = employee /\ \A v \in Versions : Stay(v)
  <2>1. Rendered(n) \in Content
    BY <1>4, RenderedType DEF Replace
  <2> DEFINE new == CurrentVersion + 1
  <2>2. \A v \in Versions : /\ file'[v] = IF v = new THEN Rendered(n) ELSE file[v]
                            /\ v # new /\ Present(v)' => Present(v)
                            /\ Present(v) => Present(v)'
    BY <1>4, CurrentVersionType, PayslipAssumption
       DEF Replace, TypeOK, Present, NewStatus, Superseded, RowsInv,
           OneCurrentVersion, Versions
  <2> HIDE DEF new
  <2>3. QED
    BY <1>4, <2>1, <2>2 DEF Replace, employeeVars, MemoriesHold, FilesHold
<1>5. ASSUME NEW h \in Officers, ReleaseInserts(h) \/ ReleaseUpdates(h)
      PROVE  employee' = employee /\ \A v \in Versions : Stay(v)
  BY <1>5, PayslipAssumption
     DEF ReleaseInserts, ReleaseUpdates, ReleasedStatus, fileVars, employeeVars,
         Present, MemoriesHold, FilesHold, TypeOK
<1>6. ASSUME NEW g \in Signers, SignCommits(g)
      PROVE  employee' = employee /\ \A v \in Versions : Stay(v)
  <2>1. Present(signer[g].version)
    BY <1>6 DEF SignCommits, RowsInv, RowsAreWhole, MemoriesHold, SignersHold
  <2>2. QED
    BY <1>6, <2>1, PayslipAssumption
       DEF SignCommits, fileVars, employeeVars, Present, MemoriesHold, FilesHold, TypeOK
<1>7. ASSUME NEW r \in Rewriters, RewriterWrites(r)
      PROVE  employee' = employee /\ \A v \in Versions : Stay(v)
  BY <1>7 DEF RewriterWrites, rowVars, employeeVars, Present, MemoriesHold,
              FilesHold, RewritersHold, TypeOK
<1>8. ASSUME NEW v \in Versions, MarkViewed(v)
      PROVE  employee' = employee /\ \A u \in Versions : Stay(u)
  BY <1>8 DEF MarkViewed, Viewable, fileVars, employeeVars, Present, MemoriesHold,
              FilesHold, TypeOK
<1>9. ASSUME DeleteEmployee
      PROVE  /\ employee' = "deleted"
             /\ \A v \in Versions : ~Present(v)' /\ file'[v] = file[v]
  BY <1>9 DEF DeleteEmployee, RemovedVersions, Present, TypeOK
<1>10. QED
  <2>1. CASE \E n \in Normalizers : NormalizerNext(n)
    BY <2>1, <1>1, <1>2, <1>3, <1>4
       DEF NormalizerNext, Preload, CheckDocument, RepairRetries, NormalizerStops,
           rowVars, fileVars, employeeVars
  <2>2. CASE \E h \in Officers : OfficerNext(h)
    BY <2>2, <1>1, <1>5
       DEF OfficerNext, ReleaseChecks, OfficerStops, rowVars, fileVars, employeeVars
  <2>3. CASE \E g \in Signers : SignerNext(g)
    BY <2>3, <1>1, <1>6
       DEF SignerNext, SignerReads, SignerWrites, SignerStops, rowVars, fileVars,
           employeeVars
  <2>4. CASE \E r \in Rewriters : RewriterNext(r)
    BY <2>4, <1>1, <1>7
       DEF RewriterNext, SyncApplies, RefreshReads, DownloadStarts, DownloadReads,
           RewriterRecords, RewriterStops, rowVars, fileVars, employeeVars
  <2>5. CASE UNCHANGED vars
    BY <2>5, <1>1 DEF vars, rowVars, fileVars, employeeVars
  <2>6. QED
    BY <2>1, <2>2, <2>3, <2>4, <2>5, <1>8, <1>9 DEF Next

\* The steps of others leave a locked row alone.
LEMMA LockRespected ==
  ASSUME PayslipInv, norm' = norm, [Next]_vars
  PROVE  \A n \in Normalizers : norm[n].at = "locked" =>
           LET v == norm[n].version IN current'[v] /\ status'[v] # "SIGNED"
<1> SUFFICES ASSUME NEW n \in Normalizers, norm[n].at = "locked"
             PROVE  /\ current'[norm[n].version]
                    /\ status'[norm[n].version] # "SIGNED"
  OBVIOUS
<1> USE DEF PayslipInv, TypeOK
<1> DEFINE v == norm[n].version
<1>1. v \in Versions /\ current[v] /\ status[v] # "SIGNED" /\ Locked(v)
  BY LockedRow DEF Locked
<1> HIDE DEF v
<1>2. CASE UNCHANGED <<status, current>>
  BY <1>1, <1>2 DEF v
<1>3. CASE \E m \in Normalizers : NormalizerNext(m)
  <2>1. PICK m \in Normalizers : NormalizerNext(m)
    BY <1>3
  <2>2. norm'[m] = norm[m] /\ norm[m] \in NormalizerState
    OBVIOUS
  <2>3. ~RepairCommits(m) /\ ~Replace(m)
    BY <2>2 DEF RepairCommits, Replace, IdleNormalizer
  <2>4. QED
    BY <1>2, <2>1, <2>3
       DEF NormalizerNext, Preload, CheckDocument, RepairWrites, RepairRetries,
           NormalizerStops, rowVars
<1>4. CASE \E h \in Officers : OfficerNext(h)
  <2>1. ASSUME NEW h \in Officers, ReleaseUpdates(h)
        PROVE  current' = current /\ status'[v] # "SIGNED"
    BY <1>1, <2>1 DEF ReleaseUpdates, ReleasedStatus
  <2>2. QED
    BY <1>1, <1>2, <1>4, <2>1
       DEF OfficerNext, ReleaseChecks, ReleaseInserts, OfficerStops, rowVars, v
<1>5. CASE \E g \in Signers : SignerNext(g)
  <2>1. ASSUME NEW g \in Signers, SignCommits(g)
        PROVE  current' = current /\ status'[v] # "SIGNED"
    BY <1>1, <2>1 DEF SignCommits
  <2>2. QED
    BY <1>1, <1>2, <1>5, <2>1
       DEF SignerNext, SignerReads, SignerWrites, SignerStops, rowVars, v
<1>6. CASE \E r \in Rewriters : RewriterNext(r)
  BY <1>2, <1>6
     DEF RewriterNext, SyncApplies, RefreshReads, DownloadStarts, DownloadReads,
         RewriterWrites, RewriterRecords, RewriterStops, rowVars
<1>7. ASSUME NEW u \in Versions, MarkViewed(u)
      PROVE  current' = current /\ status'[v] # "SIGNED"
  BY <1>1, <1>7 DEF MarkViewed
<1>8. CASE DeleteEmployee
  BY <1>1, <1>8 DEF DeleteEmployee
<1>9. CASE UNCHANGED vars
  BY <1>2, <1>9 DEF vars, rowVars
<1>10. QED
  BY <1>1, <1>3, <1>4, <1>5, <1>6, <1>7, <1>8, <1>9 DEF Next, v

\* Only its own steps change what a normalizer holds.
LEMMA NormalizersKept ==
  ASSUME PayslipInv, [Next]_vars PROVE NormalizersHold'
<1> USE DEF PayslipInv
<1>1. CASE norm' = norm
  BY <1>1, LockRespected DEF MemoriesHold, NormalizersHold
<1>2. ASSUME NEW n \in Normalizers, NormalizerNext(n) PROVE NormalizersHold'
  <2> DEFINE Holds(m) ==
        /\ norm[m].at # "idle" => norm[m].source \in Sources /\ norm[m].profile \in Profiles
        /\ norm[m].at \in {"checking", "repair", "locked"} => norm[m].version \in Versions
        /\ norm[m].at = "locked" =>
             current[norm[m].version] /\ status[norm[m].version] # "SIGNED"
  <2>1. \A m \in Normalizers : Holds(m)
    BY DEF MemoriesHold, NormalizersHold
  <2>2. norm'[n].at = "idle" => Holds(n)'
    OBVIOUS
  <2>3. ASSUME UNCHANGED <<status, current>>, Holds(n)',
               \A m \in Normalizers : m # n => norm'[m] = norm[m]
        PROVE  NormalizersHold'
    BY <2>1, <2>3 DEF NormalizersHold
  <2>4. ASSUME NEW s \in Sources, Preload(n, s) PROVE NormalizersHold'
    <3>1. Holds(n)'
      BY <2>4, CurrentVersionType DEF Preload, TypeOK, employeeVars
    <3>2. QED
      BY <2>4, <3>1, <2>3 DEF Preload, TypeOK, rowVars
  <2>5. ASSUME CheckDocument(n) PROVE NormalizersHold'
    <3>1. Holds(n)'
      BY <2>5, <2>1 DEF CheckDocument, TypeOK, NormalizerState, IdleNormalizer
    <3>2. QED
      BY <2>5, <3>1, <2>3 DEF CheckDocument, TypeOK, rowVars
  <2>6. ASSUME RepairWrites(n) PROVE NormalizersHold'
    <3>1. Holds(n)'
      BY <2>6, <2>1, NormalizerMoved DEF RepairWrites, Repairable, rowVars
    <3>2. QED
      BY <2>6, <3>1, <2>3 DEF RepairWrites, TypeOK, rowVars
  <2>7. ASSUME RepairCommits(n) PROVE NormalizersHold'
    <3>1. \A m \in Normalizers : m # n => norm'[m] = norm[m]
      BY <2>7 DEF RepairCommits, TypeOK
    <3>2. norm'[n].at = "idle"
      BY <2>7 DEF RepairCommits, TypeOK, IdleNormalizer
    <3>3. \A v \in Versions : status[v] # "SIGNED" => status'[v] # "SIGNED"
      BY <2>7 DEF RepairCommits, RepairedStatus, TypeOK
    <3>4. QED
      BY <2>1, <2>2, <2>7, <3>1, <3>2, <3>3 DEF RepairCommits, NormalizersHold
  <2>8. ASSUME RepairRetries(n) PROVE NormalizersHold'
    <3>1. Holds(n)'
      BY <2>8, <2>1, NormalizerMoved DEF RepairRetries
    <3>2. QED
      BY <2>8, <3>1, <2>3 DEF RepairRetries, TypeOK, rowVars
  <2>9. ASSUME Replace(n) PROVE NormalizersHold'
    <3>1. \A m \in Normalizers : m # n => norm'[m] = norm[m] /\ norm[m].at # "locked"
      BY <2>9, <2>1 DEF Replace, TypeOK, Locked
    <3>2. norm'[n].at = "idle"
      BY <2>9 DEF Replace, TypeOK, IdleNormalizer
    <3>3. QED
      BY <2>1, <2>2, <3>1, <3>2 DEF NormalizersHold
  <2>10. ASSUME NormalizerStops(n) PROVE NormalizersHold'
    BY <2>10, <2>2, <2>3 DEF NormalizerStops, TypeOK, IdleNormalizer, rowVars
  <2>11. QED
    BY <1>2, <2>4, <2>5, <2>6, <2>7, <2>8, <2>9, <2>10 DEF NormalizerNext
<1>3. QED
  BY <1>1, <1>2
     DEF Next, vars, actorVars, OfficerNext, ReleaseChecks, ReleaseInserts,
         ReleaseUpdates, OfficerStops, SignerNext, SignerReads, SignerWrites,
         SignCommits, SignerStops, RewriterNext, SyncApplies, RefreshReads,
         DownloadStarts, DownloadReads, RewriterWrites, RewriterRecords,
         RewriterStops, MarkViewed, DeleteEmployee

\* Only its own steps change what an officer holds; its version stays.
LEMMA OfficersKept ==
  ASSUME PayslipInv, [Next]_vars PROVE OfficersHold'
<1> USE DEF PayslipInv
<1> DEFINE Holds(h) ==
      /\ officer[h].at # "idle" =>
           /\ officer[h].version \in Versions
           /\ employee = "active" => Present(officer[h].version)
      /\ officer[h].at = "update" /\ employee = "active" =>
           request[officer[h].version] # None
<1>1. ASSUME NEW h \in Officers, officer'[h] = officer[h] PROVE Holds(h)'
  BY <1>1, RowsStay DEF MemoriesHold, OfficersHold, TypeOK, OfficerState
<1>2. CASE officer' = officer
  BY <1>1, <1>2 DEF OfficersHold
<1>3. ASSUME NEW h \in Officers, OfficerNext(h) PROVE OfficersHold'
  <2>1. \A k \in Officers : k # h => officer'[k] = officer[k]
    BY <1>3 DEF OfficerNext, ReleaseChecks, ReleaseInserts, ReleaseUpdates,
                OfficerStops, TypeOK
  <2>2. Holds(h)'
    <3>1. ASSUME NEW v \in Versions, ReleaseChecks(h, v) PROVE Holds(h)'
      BY <3>1 DEF ReleaseChecks, TypeOK, rowVars, employeeVars, Present
    <3>2. ASSUME ReleaseInserts(h) PROVE Holds(h)'
      BY <3>2, PayslipAssumption
         DEF ReleaseInserts, TypeOK, OfficerState, employeeVars, Present,
             MemoriesHold, OfficersHold
    <3>3. ASSUME ReleaseUpdates(h) \/ OfficerStops(h) PROVE Holds(h)'
      BY <3>3 DEF ReleaseUpdates, OfficerStops, TypeOK, IdleOfficer
    <3>4. QED
      BY <1>3, <3>1, <3>2, <3>3 DEF OfficerNext
  <2>3. QED
    BY <1>1, <2>1, <2>2 DEF OfficersHold
<1>4. QED
  BY <1>2, <1>3
     DEF Next, vars, actorVars, NormalizerNext, Preload, CheckDocument, RepairWrites,
         RepairCommits, RepairRetries, Replace, NormalizerStops, SignerNext,
         SignerReads, SignerWrites, SignCommits, SignerStops, RewriterNext,
         SyncApplies, RefreshReads, DownloadStarts, DownloadReads, RewriterWrites,
         RewriterRecords, RewriterStops, MarkViewed, DeleteEmployee

\* Only its own steps change what a signer holds.
LEMMA SignersKept ==
  ASSUME PayslipInv, [Next]_vars PROVE SignersHold'
<1> USE DEF PayslipInv, MemoriesHold, SignersHold, TypeOK, SignerState
<1>1. CASE signer' = signer
  BY <1>1
<1>2. ASSUME NEW g \in Signers, SignerNext(g) PROVE SignersHold'
  <2>1. ASSUME NEW v \in Versions, SignerReads(g, v) PROVE SignersHold'
    BY <2>1 DEF SignerReads, RowsInv, RowsAreWhole
  <2>2. ASSUME SignerWrites(g) PROVE SignersHold'
    BY <2>2 DEF SignerWrites
  <2>3. ASSUME SignCommits(g) \/ SignerStops(g) PROVE SignersHold'
    BY <2>3 DEF SignCommits, SignerStops, IdleSigner
  <2>4. QED
    BY <1>2, <2>1, <2>2, <2>3 DEF SignerNext
<1> HIDE DEF PayslipInv, MemoriesHold, SignersHold, TypeOK, SignerState
<1>3. QED
  BY <1>1, <1>2
     DEF Next, vars, actorVars, NormalizerNext, Preload, CheckDocument, RepairWrites,
         RepairCommits, RepairRetries, Replace, NormalizerStops, OfficerNext,
         ReleaseChecks, ReleaseInserts, ReleaseUpdates, OfficerStops, RewriterNext,
         SyncApplies, RefreshReads, DownloadStarts, DownloadReads, RewriterWrites,
         RewriterRecords, RewriterStops, MarkViewed, DeleteEmployee

\* Only its own steps change what a rewriter holds; its file stays.
LEMMA RewritersKept ==
  ASSUME PayslipInv, [Next]_vars PROVE RewritersHold'
<1> USE DEF PayslipInv
<1> DEFINE Holds(r) ==
      /\ rewriter[r].at \in {"read", "write", "record"} => rewriter[r].version \in Versions
      /\ rewriter[r].at = "read" => file[rewriter[r].version] \in Content
      /\ rewriter[r].at \in {"write", "record"} => rewriter[r].content \in Content
<1>1. ASSUME NEW r \in Rewriters, rewriter'[r] = rewriter[r] PROVE Holds(r)'
  BY <1>1, RowsStay DEF MemoriesHold, RewritersHold
<1>2. CASE rewriter' = rewriter
  BY <1>1, <1>2 DEF RewritersHold
<1>3. ASSUME NEW r \in Rewriters, RewriterNext(r) PROVE RewritersHold'
  <2>1. \A q \in Rewriters : q # r => rewriter'[q] = rewriter[q]
    BY <1>3 DEF RewriterNext, SyncApplies, RefreshReads, DownloadStarts,
                DownloadReads, RewriterWrites, RewriterRecords, RewriterStops, TypeOK
  <2>2. Holds(r)'
    <3> USE DEF TypeOK, RewriterState, MemoriesHold, RewritersHold
    <3>1. ASSUME NEW p \in Profiles, SyncApplies(r, p) PROVE Holds(r)'
      BY <3>1 DEF SyncApplies
    <3>2. ASSUME NEW v \in Versions, RefreshReads(r, v) PROVE Holds(r)'
      <4>1. source[v] \in Sources
        BY <3>2 DEF RefreshReads, RowsInv, RowsAreWhole, OneCurrentVersion
      <4>2. [source |-> source[v], profile |-> profile, footer |-> FALSE] \in Content
        BY <4>1 DEF Content
      <4>3. QED
        BY <3>2, <4>2 DEF RefreshReads
    <3>3. ASSUME NEW v \in Versions, DownloadStarts(r, v) PROVE Holds(r)'
      BY <3>3 DEF DownloadStarts, FilesHold, fileVars
    <3>4. ASSUME DownloadReads(r) PROVE Holds(r)'
      <4> DEFINE pdf == file[rewriter[r].version]
      <4>1. [pdf EXCEPT !.footer = FALSE] \in Content /\ rewriter[r].version \in Versions
        BY <3>4 DEF DownloadReads, Content
      <4>2. rewriter'[r] = IF pdf.footer
              THEN [rewriter[r] EXCEPT !.at = "write",
                                       !.content = [pdf EXCEPT !.footer = FALSE]]
              ELSE IdleRewriter
        BY <3>4 DEF DownloadReads
      <4> HIDE DEF pdf
      <4>3. QED
        BY <4>1, <4>2 DEF IdleRewriter
    <3>5. ASSUME RewriterWrites(r) PROVE Holds(r)'
      BY <3>5 DEF RewriterWrites
    <3>6. ASSUME RewriterRecords(r) \/ RewriterStops(r) PROVE Holds(r)'
      BY <3>6 DEF RewriterRecords, RewriterStops, IdleRewriter
    <3>7. QED
      BY <1>3, <3>1, <3>2, <3>3, <3>4, <3>5, <3>6 DEF RewriterNext
  <2>3. QED
    BY <1>1, <2>1, <2>2 DEF RewritersHold
<1>4. QED
  BY <1>2, <1>3
     DEF Next, vars, actorVars, NormalizerNext, Preload, CheckDocument, RepairWrites,
         RepairCommits, RepairRetries, Replace, NormalizerStops, OfficerNext,
         ReleaseChecks, ReleaseInserts, ReleaseUpdates, OfficerStops, SignerNext,
         SignerReads, SignerWrites, SignCommits, SignerStops, MarkViewed,
         DeleteEmployee

-----------------------------------------------------------------------------
(***************************************************************************)
(* The invariant, and what follows from it.                                *)
(***************************************************************************)

\* There is nothing yet, or one version of an earlier release.
LEMMA PayslipInvInit == ASSUME Init PROVE PayslipInv
<1> USE PayslipAssumption
<1>1. PICK present \in SUBSET (IF Legacy THEN {1} ELSE {}), s \in Sources :
        LET old == [source |-> s, profile |-> profile, footer |-> TRUE]
            Of(x, none) == [v \in Versions |-> IF v \in present THEN x ELSE none]
        IN /\ status = Of("READY", "ABSENT")
           /\ current = Of(TRUE, FALSE)
           /\ source = Of(s, None)
           /\ original = Of(old, None)
           /\ file = Of(old, None)
  BY DEF Init
<1>2. [source |-> s, profile |-> profile, footer |-> TRUE] \in Content
  BY DEF Init, Content
<1>3. \A v \in Versions : v \in present => v = 1
  OBVIOUS
<1>4. /\ IdleNormalizer \in NormalizerState /\ IdleOfficer \in OfficerState
      /\ IdleSigner \in SignerState /\ IdleRewriter \in RewriterState
  BY DEF IdleNormalizer, NormalizerState, IdleOfficer, OfficerState, IdleSigner,
         SignerState, IdleRewriter, RewriterState
<1>5. TypeOK
  BY <1>1, <1>2, <1>4 DEF Init, TypeOK, Status
<1>6. RowsInv
  <2>1. \A v \in Versions :
          /\ Present(v) <=> v \in present
          /\ current[v] <=> v \in present
          /\ status[v] \in {"ABSENT", "READY"}
          /\ request[v] = None /\ evidence[v] = None /\ signed[v] = None
    BY <1>1 DEF Init, Present
  <2>2. RowsAreWhole
    BY <1>1, <1>2, <2>1 DEF RowsAreWhole
  <2>3. PayslipHasCurrent
    BY <2>1 DEF Init, PayslipHasCurrent
  <2>4. OneCurrentVersion
    BY <1>3, <2>1 DEF OneCurrentVersion
  <2>5. SignaturesAgree /\ OfferedHasRequest
    BY <2>1 DEF SignaturesAgree, OfferedHasRequest
  <2>6. QED
    BY <2>2, <2>3, <2>4, <2>5 DEF RowsInv
<1>7. MemoriesHold
  BY <1>1, <1>2 DEF Init, MemoriesHold, FilesHold, NormalizersHold, OfficersHold,
     SignersHold, RewritersHold, Present, IdleNormalizer, IdleOfficer, IdleSigner,
     IdleRewriter
<1>8. QED
  BY <1>5, <1>6, <1>7 DEF PayslipInv

\* Every step of the five kinds of actors keeps the invariant.
LEMMA PayslipInvKept == ASSUME PayslipInv, [Next]_vars PROVE PayslipInv'
BY TypesKept, RowsKept, RowsStay, NormalizersKept, OfficersKept, SignersKept,
   RewritersKept DEF PayslipInv, MemoriesHold

\* The invariant of the documents in every state of a behaviour.
LEMMA PayslipInvHolds == Spec => []PayslipInv
<1>1. Init => PayslipInv
  BY PayslipInvInit
<1>2. PayslipInv /\ [Next]_vars => PayslipInv'
  BY PayslipInvKept
<1>3. QED
  BY <1>1, <1>2, PTL DEF Spec

(***************************************************************************)
(* Every column of a version, its two files, and what each normalizer,     *)
(* officer, signer and rewriter has read keep to their types, for any      *)
(* number of them, of versions and of contents.                            *)
(***************************************************************************)
THEOREM PayslipTypeCorrect == Spec => []TypeOK
<1>1. PayslipInv => TypeOK
  BY DEF PayslipInv
<1>2. QED
  BY <1>1, PayslipInvHolds, PTL

(***************************************************************************)
(* However many normalizations race for a replacement, exactly the latest  *)
(* version of the payslip is_current, so that every reader that asks for   *)
(* the current row finds one.                                              *)
(***************************************************************************)
THEOREM AlwaysOneCurrentVersion == Spec => []OneCurrentVersion
<1>1. PayslipInv => OneCurrentVersion
  BY DEF PayslipInv, RowsInv
<1>2. QED
  BY <1>1, PayslipInvHolds, PTL

(***************************************************************************)
(* payrolls, payroll_documents, signature_requests and signature_evidence  *)
(* agree on what is signed, and by what.                                   *)
(***************************************************************************)
THEOREM SignaturesAlwaysAgree == Spec => []SignaturesAgree
<1>1. PayslipInv => SignaturesAgree
  BY DEF PayslipInv, RowsInv
<1>2. QED
  BY <1>1, PayslipInvHolds, PTL

(***************************************************************************)
(* What is offered to an employee for signature can be signed.             *)
(***************************************************************************)
THEOREM OfferedAlwaysHasRequest == Spec => []OfferedHasRequest
<1>1. PayslipInv => OfferedHasRequest
  BY DEF PayslipInv, RowsInv
<1>2. QED
  BY <1>1, PayslipInvHolds, PTL

(***************************************************************************)
(* No step of a normalizer touches a signed version.  It writes either     *)
(* where it has just seen under the lock that the version is not signed,   *)
(* or to the row that it has locked, or to a version that is new.          *)
(***************************************************************************)
THEOREM NormalizerLeavesSigned == Spec => SignedLeftByNormalizer
<1> DEFINE Left(v) ==
      UNCHANGED <<status[v], current[v], original[v], file[v], signedFile[v]>>
<1>1. ASSUME PayslipInv, [Next]_vars, norm' # norm,
             NEW v \in Versions, status[v] = "SIGNED"
      PROVE  Left(v)
  <2> USE DEF PayslipInv, TypeOK
  <2>1. CASE UNCHANGED <<rowVars, fileVars>>
    BY <2>1 DEF rowVars, fileVars
  <2>2. ASSUME NEW n \in Normalizers, RepairWrites(n) PROVE Left(v)
    BY <1>1, <2>2 DEF RepairWrites, Repairable, rowVars
  <2>3. ASSUME NEW n \in Normalizers, RepairCommits(n) PROVE Left(v)
    BY <1>1, <2>3, LockedRow DEF RepairCommits, fileVars
  <2>4. ASSUME NEW n \in Normalizers, Replace(n) PROVE Left(v)
    <3>1. v # CurrentVersion + 1
      BY <1>1, <2>4 DEF Replace, Present
    <3>2. v # CurrentVersion
      BY <1>1, <2>4, PayslipAssumption DEF Replace, Replaceable, Versions
    <3>3. QED
      BY <1>1, <2>4, <3>1, <3>2 DEF Replace, Superseded
  <2>5. QED
    BY <1>1, <2>1, <2>2, <2>3, <2>4
       DEF Next, vars, actorVars, NormalizerNext, Preload, CheckDocument,
           RepairRetries, NormalizerStops, OfficerNext, ReleaseChecks,
           ReleaseInserts, ReleaseUpdates, OfficerStops, SignerNext, SignerReads,
           SignerWrites, SignCommits, SignerStops, RewriterNext, SyncApplies,
           RefreshReads, DownloadStarts, DownloadReads, RewriterWrites,
           RewriterRecords, RewriterStops, MarkViewed, DeleteEmployee
<1>2. PayslipInv /\ [Next]_vars =>
        [\A v \in Versions : status[v] = "SIGNED" /\ norm' # norm => Left(v)]_vars
  BY <1>1
<1>3. QED
  BY <1>2, PayslipInvHolds, PTL DEF Spec, SignedLeftByNormalizer

-----------------------------------------------------------------------------
(***************************************************************************)
(* The refinement of SignedPayslip.                                        *)
(***************************************************************************)

\* A version is signed in the abstract where it has evidence.
LEMMA SignatureIsEvidence ==
  ASSUME PayslipInv, NEW v \in Versions
  PROVE  SignatureOf(v) = None <=> evidence[v] = None
BY PayslipAssumption DEF SignatureOf, Evidence, PayslipInv, TypeOK

\* Neither the current version nor the evidence changes: a stutter.
LEMMA PayslipStutters ==
  ASSUME UNCHANGED <<current, evidence>>
  PROVE  /\ CurrentVersion' = CurrentVersion
         /\ \A v \in Versions : SignatureOf(v)' = SignatureOf(v)
BY DEF CurrentVersion, SignatureOf

\* A new version supersedes the current one, which is not signed.
LEMMA ReplaceSupersedes ==
  ASSUME PayslipInv, NEW n \in Normalizers, Replace(n) PROVE Payslip!Supersede
<1> DEFINE new == CurrentVersion + 1
<1>1. /\ new \in Versions /\ CurrentVersion < MaxVersions
      /\ CurrentVersion # 0 =>
           CurrentVersion \in Versions /\ status[CurrentVersion] # "SIGNED"
      /\ \A v \in Versions : current[v] => v = CurrentVersion
  BY CurrentVersionType, PayslipAssumption DEF Replace, Replaceable, Versions, PayslipInv
<1>2. CurrentVersion # 0 => SignatureOf(CurrentVersion) = None
  BY <1>1, SignatureIsEvidence DEF PayslipInv, RowsInv, SignaturesAgree
<1>3. CurrentVersion' = new
  <2>1. \A v \in Versions : current'[v] <=> v = new
    BY <1>1 DEF Replace, Superseded, Versions
  <2> HIDE DEF new
  <2>2. {v \in Versions : current'[v]} = {new}
    BY <1>1, <2>1
  <2>3. QED
    BY <1>1, <2>2 DEF CurrentVersion, Versions
<1>4. [v \in Versions |-> SignatureOf(v)]' = [v \in Versions |-> SignatureOf(v)]
  BY DEF Replace, SignatureOf
<1>5. QED
  BY <1>1, <1>2, <1>3, <1>4 DEF Payslip!Supersede

\* A signature's transaction signs a version that has no signature.
LEMMA CommitSigns ==
  ASSUME PayslipInv, NEW g \in Signers, SignCommits(g)
  PROVE  \E v \in Versions : Payslip!Sign(v, g)
<1> USE DEF PayslipInv
<1> DEFINE v == signer[g].version
<1>1. v \in Versions /\ Present(v) /\ evidence[v] = None
  BY DEF SignCommits, MemoriesHold, SignersHold, RowsInv, RowsAreWhole
<1>2. v \in 1 .. CurrentVersion
  <2>1. PICK u \in Versions : current[u]
    BY <1>1 DEF RowsInv, PayslipHasCurrent
  <2>2. v <= u /\ u = CurrentVersion
    BY <1>1, <2>1, CurrentVersionType DEF RowsInv, OneCurrentVersion
  <2>3. QED
    BY <1>1, <2>1, <2>2, PayslipAssumption DEF Versions
<1>3. SignatureOf(v) = None
  BY <1>1 DEF SignatureOf
<1>4. \A u \in Versions : SignatureOf(u)' = IF u = v THEN g ELSE SignatureOf(u)
  <2>1. [original |-> signer[g].original, signed |-> g] # None
    BY PayslipAssumption DEF SignCommits, Evidence, MemoriesHold, SignersHold
  <2>2. evidence' = [evidence EXCEPT ![v] =
                       [original |-> signer[g].original, signed |-> g]]
    BY DEF SignCommits
  <2>3. QED
    BY <1>1, <2>1, <2>2 DEF SignatureOf, TypeOK
<1>5. CurrentVersion' = CurrentVersion
  BY DEF SignCommits, CurrentVersion
<1> HIDE DEF v
<1>6. [u \in Versions |-> SignatureOf(u)]' =
        [[u \in Versions |-> SignatureOf(u)] EXCEPT ![v] = g]
  BY <1>1, <1>4
<1>7. Payslip!Sign(v, g)
  BY <1>1, <1>2, <1>3, <1>5, <1>6 DEF Payslip!Sign
<1>8. QED
  BY <1>1, <1>7

\* A deletion erases a payslip of which no version is signed.
LEMMA DeletionErases == ASSUME PayslipInv, DeleteEmployee PROVE Payslip!Erase
<1>1. \A v \in Versions : SignatureOf(v) = None
  BY SignatureIsEvidence DEF DeleteEmployee
<1>2. CurrentVersion' = 0
  BY DEF DeleteEmployee, CurrentVersion
<1>3. [v \in Versions |-> SignatureOf(v)]' = [v \in Versions |-> SignatureOf(v)]
  BY DEF DeleteEmployee, SignatureOf
<1>4. QED
  BY <1>1, <1>2, <1>3 DEF Payslip!Erase, Payslip!Versions, Versions

(***************************************************************************)
(* Whatever the five kinds of actors do, a version is signed at most once  *)
(* and for good, a version that was signed while it was the latest has no  *)
(* successor, and no signed payslip is erased.                             *)
(***************************************************************************)
THEOREM ImplementsSignedPayslip == Spec => PayslipSpec
<1>1. ASSUME Init PROVE Payslip!Init
  <2>1. PICK present \in SUBSET (IF Legacy THEN {1} ELSE {}), s \in Sources :
          current = [v \in Versions |-> IF v \in present THEN TRUE ELSE FALSE]
    BY <1>1 DEF Init
  <2>2. CurrentVersion \in {0, 1}
    <3>1. CASE 1 \in present
      <4>1. {v \in Versions : current[v]} = {1}
        BY <2>1, <3>1, PayslipAssumption DEF Versions
      <4>2. QED
        BY <4>1 DEF CurrentVersion
    <3>2. CASE 1 \notin present
      BY <2>1, <3>2 DEF CurrentVersion
    <3>3. QED
      BY <3>1, <3>2
  <2>3. [v \in Versions |-> SignatureOf(v)] = [v \in Versions |-> None]
    <3>1. \A v \in Versions : evidence[v] = None
      BY <1>1 DEF Init
    <3>2. QED
      BY <3>1 DEF SignatureOf
  <2>4. QED
    BY <2>2, <2>3, PayslipAssumption DEF Payslip!Init, Payslip!Versions, Versions
<1>2. ASSUME PayslipInv, [Next]_vars PROVE [Payslip!Next]_(Payslip!vars)
  <2>1. CASE UNCHANGED <<current, evidence>>
    <3>1. UNCHANGED Payslip!vars
      BY <2>1, PayslipStutters DEF Payslip!vars
    <3>2. QED
      BY <3>1
  <2>2. ASSUME NEW n \in Normalizers, Replace(n) PROVE Payslip!Next
    BY <2>2, <1>2, ReplaceSupersedes DEF Payslip!Next
  <2>3. ASSUME NEW g \in Signers, SignCommits(g) PROVE Payslip!Next
    BY <2>3, <1>2, CommitSigns DEF Payslip!Next, Payslip!Versions, Versions
  <2>4. ASSUME DeleteEmployee PROVE Payslip!Next
    BY <2>4, <1>2, DeletionErases DEF Payslip!Next
  <2>5. CASE \E n \in Normalizers : NormalizerNext(n)
    BY <2>5, <2>1, <2>2
       DEF NormalizerNext, Preload, CheckDocument, RepairWrites, RepairCommits,
           RepairRetries, NormalizerStops, rowVars
  <2>6. CASE \E h \in Officers : OfficerNext(h)
    BY <2>6, <2>1
       DEF OfficerNext, ReleaseChecks, ReleaseInserts, ReleaseUpdates,
           OfficerStops, rowVars
  <2>7. CASE \E g \in Signers : SignerNext(g)
    BY <2>7, <2>1, <2>3
       DEF SignerNext, SignerReads, SignerWrites, SignerStops, rowVars
  <2>8. CASE \E r \in Rewriters : RewriterNext(r)
    BY <2>8, <2>1
       DEF RewriterNext, SyncApplies, RefreshReads, DownloadStarts, DownloadReads,
           RewriterWrites, RewriterRecords, RewriterStops, rowVars
  <2>9. ASSUME NEW v \in Versions, MarkViewed(v) PROVE UNCHANGED <<current, evidence>>
    BY <2>9 DEF MarkViewed
  <2>10. CASE UNCHANGED vars
    BY <2>10, <2>1 DEF vars, rowVars
  <2>11. QED
    BY <1>2, <2>1, <2>4, <2>5, <2>6, <2>7, <2>8, <2>9, <2>10 DEF Next
<1>3. QED
  BY <1>1, <1>2, PayslipInvHolds, PTL DEF Spec, PayslipSpec, Payslip!Spec
=============================================================================
