-------------------------- MODULE SignatureEvidence --------------------------
(***************************************************************************)
(* What proves a signature: the chained events of a signature request, its *)
(* evidence, the signed file and the original it names, the links it may   *)
(* be signed from, and the public verification that reads all of them.     *)
(* While the payslip is unsigned, a synchronization with Sage, a download  *)
(* that removes the old footer, and the repair of a lost file write its    *)
(* original again.                                                         *)
(*                                                                         *)
(* A request of the API is the list of the steps it still has to take.  An *)
(* event is appended in two statements: the hash of the last event is read *)
(* and the new one inserted.  The hash of an event is its place, and of    *)
(* the stored events only their number and their integrity are kept.       *)
(***************************************************************************)
EXTENDS Naturals, Sequences

CONSTANTS
  Visitors,     \* requests that may be under way at once
  MaxVisits,    \* bound on the requests
  MaxLinks,     \* bound on the links
  NoFile,       \* no signed.pdf, no signed hash, no evidence
  Broken        \* what is left of a file that the storage loses

ASSUME SignatureEvidenceAssumption ==
  /\ MaxVisits \in Nat /\ MaxLinks \in Nat
  /\ NoFile # Broken /\ NoFile \notin Nat /\ Broken \notin Nat

VARIABLES
  events,      \* signature_events: how many, and whether each names as
               \* previous_hash the one before it
  links,       \* signature_links: "LIVE", "USED" or "EXPIRED"
  sealed,      \* signature_evidence and the signed hash of the documents row
  signedFile,  \* what signed.pdf holds: the visit that wrote it
  originalFile,  \* what original.pdf holds: the visit that wrote it last, 0
                 \* for the normalization that created the payslip
  originalHash,  \* original_sha256: the visit whose file was recorded last
  visit,       \* what a request remembers
  verifying,   \* the row a verification has read
  secret,      \* the generation of SIGNATURE_SEAL_SECRET
  visits,      \* requests so far
  crowded      \* two requests were under way at once

original == <<originalFile, originalHash>>

evidenceVars ==
  <<events, links, sealed, signedFile, original, visit, verifying,
    secret, visits, crowded>>

Appends ==
  {"LINK_CREATED", "LINK_OPENED", "IDENTITY_VERIFIED", "DOCUMENT_VIEWED",
   "ACCEPTANCE_CONFIRMED", "CLIENT_EVIDENCE_CAPTURED", "SIGNATURE_CREATED",
   "DOCUMENT_SEALED"}

\* performSign, in the order of its statements; a link is used at the end.
Signing ==
  <<"IDENTITY_VERIFIED", "DOCUMENT_VIEWED", "ACCEPTANCE_CONFIRMED",
    "CLIENT_EVIDENCE_CAPTURED", "signed.pdf", "COMMIT", "SIGNATURE_CREATED",
    "DOCUMENT_SEALED">>

\* refreshUnsignedPayrollDocuments and readOriginalWithoutLegacyFooter.
Rewriting == <<"original.pdf", "original_sha256">>

\* The repair of persistNormalizedPayroll, which holds the row of the payslip
\* from its lock to its commit.
Repairing == <<"FOR UPDATE", "repaired.pdf", "repaired_sha256">>

Others ==
  {"signed.pdf", "COMMIT", "used_at", "original.pdf", "original_sha256",
   "FOR UPDATE", "repaired.pdf", "repaired_sha256"}

Away ==
  [todo |-> <<>>, link |-> 0, name |-> 0, last |-> 0, read |-> FALSE,
   original |-> 0]

Unsealed == [file |-> NoFile, secret |-> 0, original |-> 0]

Seals == [file : Nat \cup {NoFile}, secret : Nat, original : Nat]

\* Rows and memories hold what their columns say.
EvidenceTypeOK ==
  /\ events \in [stored : Nat, whole : BOOLEAN]
  /\ links \in Seq({"LIVE", "USED", "EXPIRED"})
  /\ sealed \in Seals
  /\ signedFile \in Nat \cup {NoFile, Broken}
  /\ originalFile \in Nat \cup {Broken} /\ originalHash \in Nat
  /\ visit \in [Visitors ->
       [todo : Seq(Appends \cup Others), link : 0 .. Len(links), name : Nat,
        last : 0 .. events.stored, read : BOOLEAN, original : Nat]]
  /\ verifying \in [seal : Seals, original : Nat] \cup {NoFile}
  /\ secret \in 0 .. 1 /\ visits \in 0 .. MaxVisits /\ crowded \in BOOLEAN

EvidenceInit ==
  /\ events = [stored |-> 0, whole |-> TRUE] /\ links = <<>>
  /\ sealed = Unsealed /\ signedFile = NoFile
  /\ originalFile = 0 /\ originalHash = 0
  /\ visit = [v \in Visitors |-> Away]
  /\ verifying = NoFile /\ secret = 0
  /\ visits = 0 /\ crowded = FALSE

Signed == sealed.file # NoFile

\* The row of the payslip is read, with the hash of its original.
Arrives(v, todo, link) ==
  /\ visit[v].todo = <<>> /\ visits < MaxVisits
  /\ visits' = visits + 1
  /\ visit' = [visit EXCEPT ![v] = [Away EXCEPT !.todo = todo, !.link = link,
                                               !.name = visits + 1,
                                               !.original = originalHash]]
  /\ crowded' = (crowded \/ \E w \in Visitors \ {v} : visit[w].todo # <<>>)
  /\ UNCHANGED <<events, sealed, signedFile, original, verifying,
                 secret>>

\* createLink: the link, then its event.
CreateLink(v) ==
  /\ ~ Signed /\ Len(links) < MaxLinks
  /\ links' = Append(links, "LIVE")
  /\ Arrives(v, <<"LINK_CREATED">>, 0)

\* publicInfo: a link that was used still shows the page.
OpenLink(v) ==
  \E l \in DOMAIN links :
    /\ links[l] # "EXPIRED"
    /\ Arrives(v, <<"LINK_OPENED">>, l)
    /\ UNCHANGED links

\* verifyLinkIdentity, with the right PIN or a first access.
VerifyIdentity(v) ==
  \E l \in DOMAIN links :
    /\ links[l] = "LIVE"
    /\ Arrives(v, <<"IDENTITY_VERIFIED", "DOCUMENT_VIEWED">>, l)
    /\ UNCHANGED links

\* signFromPortal and signFromLink, up to the checks of performSign.
SignFromPortal(v) == ~ Signed /\ Arrives(v, Signing, 0) /\ UNCHANGED links

SignFromLink(v) ==
  \E l \in DOMAIN links :
    /\ ~ Signed /\ links[l] = "LIVE"
    /\ Arrives(v, Append(Signing, "used_at"), l)
    /\ UNCHANGED links

\* The rows of the refresh without a look at the status.
AnyPayslip == TRUE

\* p.status<>'SIGNED', and no signed_path yet.
Rewritable == ~ Signed

\* applySync refreshes the originals of the unsigned payslips; a download by
\* an administrator cleans one that has the old footer.
RewriteOriginal(v) == Rewritable /\ Arrives(v, Rewriting, 0) /\ UNCHANGED links

\* The normalization comes upon the same payslip again, and its original is
\* not what its row says.
RepairOriginal(v) ==
  /\ ~ Signed /\ originalFile # originalHash
  /\ Arrives(v, Repairing, 0)
  /\ UNCHANGED links

Step(v, name) == visit[v].todo # <<>> /\ Head(visit[v].todo) = name

StepDone(v) ==
  visit' = [visit EXCEPT ![v].todo = Tail(visit[v].todo), ![v].read = FALSE,
                         ![v].last = 0]

\* SELECT event_hash ... ORDER BY id DESC LIMIT 1.
LastHash == events.stored

AppendReads(v) ==
  /\ \E type \in Appends : Step(v, type)
  /\ ~ visit[v].read
  /\ visit' = [visit EXCEPT ![v].read = TRUE, ![v].last = LastHash]
  /\ UNCHANGED <<events, links, sealed, signedFile, original, verifying,
                 secret, visits, crowded>>

AppendInserts(v) ==
  /\ visit[v].read
  /\ events' = [stored |-> events.stored + 1,
                whole |-> events.whole /\ visit[v].last = events.stored]
  /\ StepDone(v)
  /\ UNCHANGED <<links, sealed, signedFile, original, verifying,
                 secret, visits, crowded>>

\* storage.write: every visit renders its own file, at the same path.
WriteSigned(v) ==
  /\ Step(v, "signed.pdf")
  /\ signedFile' = visit[v].name
  /\ StepDone(v)
  /\ UNCHANGED <<events, links, sealed, original, verifying, secret,
                 visits, crowded>>

\* A repair holds the row of the payslip.
RowLocked ==
  \E v \in Visitors : Step(v, "repaired.pdf") \/ Step(v, "repaired_sha256")

\* The transaction: the evidence of a request is unique, and it writes the row
\* of the payslip.  The evidence names the original that was read at first.
CommitSignature(v) ==
  /\ Step(v, "COMMIT") /\ ~ Signed /\ ~ RowLocked
  /\ sealed' = [file |-> visit[v].name, secret |-> secret,
                original |-> visit[v].original]
  /\ StepDone(v)
  /\ UNCHANGED <<events, links, signedFile, original, verifying,
                 secret, visits, crowded>>

UseLink(v) ==
  /\ Step(v, "used_at")
  /\ links' = [links EXCEPT ![visit[v].link] = "USED"]
  /\ StepDone(v)
  /\ UNCHANGED <<events, sealed, signedFile, original, verifying,
                 secret, visits, crowded>>

\* The repair looks at the status again under the lock.
LockPayslip(v) ==
  /\ Step(v, "FOR UPDATE") /\ ~ Signed /\ ~ RowLocked
  /\ StepDone(v)
  /\ UNCHANGED <<events, links, sealed, signedFile, original, verifying,
                 secret, visits, crowded>>

\* storage.write, over the file that is there.
WriteOriginal(v) ==
  /\ Step(v, "original.pdf") \/ Step(v, "repaired.pdf")
  /\ originalFile' = visit[v].name
  /\ StepDone(v)
  /\ UNCHANGED <<events, links, sealed, signedFile, originalHash, verifying,
                 secret, visits, crowded>>

\* UPDATE payroll_documents, by the id of the payslip and whatever its status;
\* of a repair, the commit.
RecordOriginal(v) ==
  /\ Step(v, "original_sha256") \/ Step(v, "repaired_sha256")
  /\ originalHash' = visit[v].name
  /\ StepDone(v)
  /\ UNCHANGED <<events, links, sealed, signedFile, originalFile, verifying,
                 secret, visits, crowded>>

\* An exception, the duplicate evidence among them, a repair that finds the
\* payslip signed, or the API dies.
VisitEnds(v) ==
  /\ visit[v].todo # <<>>
  /\ visit' = [visit EXCEPT ![v] = Away]
  /\ UNCHANGED <<events, links, sealed, signedFile, original, verifying,
                 secret, visits, crowded>>

LinkExpires ==
  /\ \E l \in DOMAIN links :
       links[l] = "LIVE" /\ links' = [links EXCEPT ![l] = "EXPIRED"]
  /\ UNCHANGED <<events, sealed, signedFile, original, visit, verifying,
                 secret, visits, crowded>>

\* A mishap: a file gets lost or damaged, or the secret is replaced.
Mishap ==
  /\ originalFile # Broken /\ signedFile # Broken /\ secret = 0
  /\ \/ originalFile' = Broken /\ UNCHANGED <<signedFile, secret>>
     \/ signedFile # NoFile /\ signedFile' = Broken
        /\ UNCHANGED <<originalFile, secret>>
     \/ secret' = 1 /\ UNCHANGED <<originalFile, signedFile>>
  /\ UNCHANGED <<events, links, sealed, originalHash, visit, verifying,
                 visits, crowded>>

\* chainIntegrity: there are events, and each names the one before it.
ChainIntegrity == events.stored > 0 /\ events.whole

\* verify: the row is one SELECT, files and events are read after it.
VerifyReads ==
  /\ verifying = NoFile
  /\ verifying' = [seal |-> sealed, original |-> originalHash]
  /\ UNCHANGED <<events, links, sealed, signedFile, original, visit,
                 secret, visits, crowded>>

\* evidenceDocumentLinksMatch: the evidence and the row name one original.
DocumentLinksMatch == verifying.seal.original = verifying.original

IntegrityOk ==
  /\ originalFile = verifying.original
  /\ verifying.seal.file # NoFile =>
       /\ signedFile = verifying.seal.file
       /\ verifying.seal.secret = secret
       /\ DocumentLinksMatch
       /\ ChainIntegrity

\* The verdict that is logged and answered.
ResultCode ==
  CASE ~ IntegrityOk -> "INTEGRITY_ALERT"
    [] IntegrityOk /\ verifying.seal.file # NoFile -> "VERIFIED_SIGNED"
    [] OTHER -> "VERIFIED_UNSIGNED"

VerifyEnds ==
  /\ verifying # NoFile
  /\ verifying' = NoFile
  /\ UNCHANGED <<events, links, sealed, signedFile, original, visit, secret,
                 visits, crowded>>

EvidenceNext ==
  \/ \E v \in Visitors :
       \/ CreateLink(v) \/ OpenLink(v) \/ VerifyIdentity(v)
       \/ SignFromPortal(v) \/ SignFromLink(v)
       \/ RewriteOriginal(v) \/ RepairOriginal(v)
       \/ AppendReads(v) \/ AppendInserts(v) \/ WriteSigned(v)
       \/ CommitSignature(v) \/ UseLink(v) \/ LockPayslip(v)
       \/ WriteOriginal(v) \/ RecordOriginal(v) \/ VisitEnds(v)
  \/ LinkExpires \/ Mishap \/ VerifyReads \/ VerifyEnds

EvidenceSpec == EvidenceInit /\ [][EvidenceNext]_evidenceVars

----------------------------------------------------------------------------
\* What an alert may be blamed on.
Excused ==
  \/ crowded \/ originalFile # originalHash \/ signedFile = Broken
  \/ verifying.original # originalHash
  \/ Signed /\ sealed.secret # secret

\* The public verification raises an alert only for a cause: requests for the
\* same payslip that overlapped, those that write its original among them; an
\* original that is not what its row says, because it was lost, or written
\* again and not recorded; one recorded while it was being verified; a signed
\* file lost; or a seal of another secret.  A signature made by one request at
\* a time, after rewritings, repairs, links, visits and attempts that stopped
\* anywhere, verifies from its commit on.
AlertHasCause ==
  verifying # NoFile /\ ResultCode = "INTEGRITY_ALERT" => Excused
=============================================================================
