---------------------------- MODULE Attachments ----------------------------
(***************************************************************************)
(* Files attached to one document (modules/attachment): the upload that    *)
(* stores an object and then a row, the replicas of the scan worker that   *)
(* read pending rows without claiming them, the download that serves what  *)
(* is CLEAN, and the soft delete.                                          *)
(*                                                                         *)
(* No transaction spans the object store, the scanner and the database, so *)
(* every call to one of them is a step, and any of them may fail.          *)
(***************************************************************************)
EXTENDS Naturals, FiniteSets

CONSTANTS
    Files,      \* attachment ids, numbered in the order of created_at
    Large,      \* the files longer than one part, uploaded in parts
    Refused,    \* the files whose head is refused: empty, or of a type not allowed
    Broken,     \* the files whose object cannot be read
    Content,    \* what the scanner makes of the whole of each file
    Scanners,   \* one scan worker per replica
    Readers,    \* download requests
    Batch,      \* BATCH: rows one pass takes
    MaxFaults   \* bound: failed calls, crashes and dropped requests

Verdicts == {"CLEAN", "INFECTED", "FAILED"}

ConstantsOK ==
    /\ Files \subseteq Nat
    /\ Batch \in Nat \ {0}
    /\ Content \in [Files -> Verdicts]

VARIABLES
    live,       \* whether the document is there to attach to and read from
    upload,     \* where each file's upload stands
    object,     \* what the store has under each file's reference
    row,        \* virus_scan_status, "none" before the row
    deleted,    \* the files with deleted_at set
    scanner,    \* each worker: where it stands, its batch, the reply it holds
    reader,     \* each download: where it stands and its file
    timeline,   \* ghost: the committed Attachment.* events, by file or download
    served,     \* ghost: the downloads that were given bytes
    faults

vars == <<live, upload, object, row, deleted, scanner, reader, timeline, served,
          faults>>

Idle == [at |-> "idle", batch |-> {}, reply |-> "none"]

Init ==
    /\ live = TRUE
    /\ upload = [f \in Files |-> "none"]
    /\ object = [f \in Files |-> "none"]
    /\ row = [f \in Files |-> "none"]
    /\ deleted = {}
    /\ scanner = [w \in Scanners |-> Idle]
    /\ reader \in [Readers -> [at : {"idle"}, file : Files]]
    /\ timeline = {}
    /\ served = {}
    /\ faults = 0

Fault == faults < MaxFaults /\ faults' = faults + 1

Event(kind, subject) == <<kind, subject>>

\* get_document answers 404 from here on.
DiscardDocument ==
    /\ live
    /\ live' = FALSE
    /\ UNCHANGED <<upload, object, row, deleted, scanner, reader, timeline,
                   served, faults>>

-----------------------------------------------------------------------------
(* Upload                                                                  *)

Uploading(f) == upload[f] \in {"body", "parts", "checked", "stored"}

\* may_upload, before a byte of the body is read.
BeginUpload(f) ==
    /\ upload[f] = "none" /\ live
    /\ upload' = [upload EXCEPT ![f] = "body"]
    /\ UNCHANGED <<live, object, row, deleted, scanner, reader, timeline, served,
                   faults>>

\* UploadedFile::write outgrows the buffer: the head is judged, and the parts
\* go to an upload that is not an object yet.
SendParts(f) ==
    /\ upload[f] = "body" /\ f \in Large
    /\ IF f \in Refused
         THEN upload' = [upload EXCEPT ![f] = "ended"] /\ UNCHANGED object
         ELSE /\ upload' = [upload EXCEPT ![f] = "parts"]
              /\ object' = [object EXCEPT ![f] = "parts"]
    /\ UNCHANGED <<live, row, deleted, scanner, reader, timeline, served, faults>>

\* upload, before the object: may_upload again, the head of a file that fitted
\* the buffer, the category.  A refusal drops the parts, which aborts them.
CheckUpload(f) ==
    /\ upload[f] = IF f \in Large THEN "parts" ELSE "body"
    /\ IF live /\ f \notin Refused
         THEN upload' = [upload EXCEPT ![f] = "checked"] /\ UNCHANGED object
         ELSE /\ upload' = [upload EXCEPT ![f] = "ended"]
              /\ object' = [object EXCEPT ![f] = "none"]
    /\ UNCHANGED <<live, row, deleted, scanner, reader, timeline, served, faults>>

StoreNothing(f) ==  \* the row is written as if the object were there
    /\ upload[f] = "checked"
    /\ upload' = [upload EXCEPT ![f] = "stored"]
    /\ UNCHANGED <<live, object, row, deleted, scanner, reader, timeline, served,
                   faults>>

\* ObjectStorage::put, or PartUpload::complete.
StoreObject(f) ==
    /\ upload[f] = "checked"
    /\ object' = [object EXCEPT ![f] = "whole"]
    /\ upload' = [upload EXCEPT ![f] = "stored"]
    /\ UNCHANGED <<live, row, deleted, scanner, reader, timeline, served, faults>>

\* The row and Attachment.Added, in one transaction.
InsertRow(f) ==
    /\ upload[f] = "stored"
    /\ row' = [row EXCEPT ![f] = "PENDING"]
    /\ timeline' = timeline \cup {Event("Added", f)}
    /\ upload' = [upload EXCEPT ![f] = "ended"]
    /\ UNCHANGED <<live, object, deleted, scanner, reader, served, faults>>

\* A call fails, or the client goes and its request is dropped: the guard of
\* the open parts aborts them.  An object that is whole stays without a row.
DropUpload(f) ==
    /\ Uploading(f) /\ Fault
    /\ upload' = [upload EXCEPT ![f] = "ended"]
    /\ object' = [object EXCEPT ![f] = IF @ = "parts" THEN "none" ELSE @]
    /\ UNCHANGED <<live, row, deleted, scanner, reader, timeline, served>>

\* The process is killed, or the abort fails: the parts stay, out of sight.
LoseUpload(f) ==
    /\ Uploading(f) /\ Fault
    /\ upload' = [upload EXCEPT ![f] = "ended"]
    /\ UNCHANGED <<live, object, row, deleted, scanner, reader, timeline, served>>

-----------------------------------------------------------------------------
(* The scan worker                                                         *)

Pending == {f \in Files : row[f] = "PENDING" /\ f \notin deleted}

\* ORDER BY created_at LIMIT Batch
Oldest(D) == {f \in D : Cardinality({g \in D : g < f}) < Batch}

\* What the worker works on: its batch in order, one file at a time.
First(w) == CHOOSE f \in scanner[w].batch : \A g \in scanner[w].batch : f <= g

Moved(w, at, reply) == [scanner EXCEPT ![w].at = at, ![w].reply = reply]

\* On to the next file of the batch, or to sleep until the next pass.
NextFile(w) ==
    LET rest == scanner[w].batch \ {First(w)}
    IN [scanner EXCEPT ![w] =
          IF rest = {} THEN Idle ELSE [at |-> "open", batch |-> rest, reply |-> "none"]]

WorkerOnly == UNCHANGED <<live, upload, object, deleted, reader, timeline, served>>

\* pending_scans: of every tenant, and no claim is taken.
TakeBatch(w) ==
    /\ scanner[w].at = "idle" /\ Pending # {}
    /\ scanner' = [scanner EXCEPT ![w] =
                     [at |-> "open", batch |-> Oldest(Pending), reply |-> "none"]]
    /\ WorkerOnly /\ UNCHANGED <<row, faults>>

OpenOrGiveUp(w) ==  \* the first object that cannot be read ends the pass
    /\ scanner[w].at = "open"
    /\ scanner' = IF First(w) \in Broken THEN [scanner EXCEPT ![w] = Idle]
                                         ELSE Moved(w, "sending", "none")
    /\ WorkerOnly /\ UNCHANGED <<row, faults>>

\* scan_one: an object that cannot be read leaves its row PENDING.
OpenObject(w) ==
    /\ scanner[w].at = "open"
    /\ scanner' = IF First(w) \in Broken THEN NextFile(w) ELSE Moved(w, "sending", "none")
    /\ WorkerOnly /\ UNCHANGED <<row, faults>>

\* converse and interpret: the whole file was sent and the final frame after
\* it.  A reply that is neither OK nor FOUND, such as a limit the scanner
\* reached, is FAILED whatever the file is.
ReadReply(w) ==
    /\ scanner[w].at = "sending"
    /\ \E reply \in {Content[First(w)], "FAILED"} : scanner' = Moved(w, "reply", reply)
    /\ WorkerOnly /\ UNCHANGED <<row, faults>>

SendThePartThereIs(w) ==  \* the final frame follows a read that failed
    /\ scanner[w].at = "sending" /\ Fault
    /\ scanner' = Moved(w, "reply", "CLEAN")
    /\ WorkerOnly /\ UNCHANGED row

\* The file stops mid-read, or the scanner does not answer in time: nothing is
\* known and nothing is written.
ScanFails(w) ==
    /\ scanner[w].at = "sending" /\ Fault
    /\ scanner' = NextFile(w)
    /\ WorkerOnly /\ UNCHANGED row

RecordOverAnything(w) ==  \* the statement compares the id only
    /\ scanner[w].at = "reply"
    /\ row' = [row EXCEPT ![First(w)] = scanner[w].reply]
    /\ scanner' = NextFile(w)
    /\ WorkerOnly /\ UNCHANGED faults

\* record_scan_result: over PENDING only.
RecordScanResult(w) ==
    /\ scanner[w].at = "reply"
    /\ row' = [row EXCEPT ![First(w)] =
                 IF First(w) \in Pending THEN scanner[w].reply ELSE @]
    /\ scanner' = NextFile(w)
    /\ WorkerOnly /\ UNCHANGED faults

\* The statement fails: the file stays pending.
RecordFails(w) ==
    /\ scanner[w].at = "reply" /\ Fault
    /\ scanner' = NextFile(w)
    /\ WorkerOnly /\ UNCHANGED row

CrashScanner(w) ==
    /\ scanner[w].at # "idle" /\ Fault
    /\ scanner' = [scanner EXCEPT ![w] = Idle]
    /\ WorkerOnly /\ UNCHANGED row

Scan(w) == TakeBatch(w) \/ OpenObject(w) \/ ReadReply(w) \/ RecordScanResult(w)

-----------------------------------------------------------------------------
(* Download and delete                                                     *)

ReaderAt(r, at) == reader' = [reader EXCEPT ![r].at = at]

\* download: the document, the row, and the gate.
FindStoredFile(r) ==
    /\ reader[r].at = "idle"
    /\ LET f == reader[r].file
       IN ReaderAt(r, IF live /\ row[f] = "CLEAN" /\ f \notin deleted
                        THEN "found" ELSE "refused")
    /\ UNCHANGED <<live, upload, object, row, deleted, scanner, timeline, served, faults>>

\* The store answers that the object is there; no byte has gone anywhere.
OpenForReader(r) ==
    /\ reader[r].at = "found"
    /\ ReaderAt(r, IF object[reader[r].file] = "whole" /\ reader[r].file \notin Broken
                     THEN "opened" ELSE "refused")
    /\ UNCHANGED <<live, upload, object, row, deleted, scanner, timeline, served, faults>>

RecordUnopened(r) ==  \* the event before the object, as it once was
    /\ reader[r].at \in {"found", "opened"}
    /\ timeline' = timeline \cup {Event("Downloaded", r)}
    /\ ReaderAt(r, IF reader[r].at = "opened" THEN "recorded" ELSE "found")
    /\ UNCHANGED <<live, upload, object, row, deleted, scanner, served, faults>>

\* Attachment.Downloaded, in a transaction of its own.
RecordDownload(r) ==
    /\ reader[r].at = "opened"
    /\ timeline' = timeline \cup {Event("Downloaded", r)}
    /\ ReaderAt(r, "recorded")
    /\ UNCHANGED <<live, upload, object, row, deleted, scanner, served, faults>>

Stream(r) ==
    /\ reader[r].at = "recorded"
    /\ served' = served \cup {r}
    /\ ReaderAt(r, "done")
    /\ UNCHANGED <<live, upload, object, row, deleted, scanner, timeline, faults>>

DropDownload(r) ==
    /\ reader[r].at \in {"found", "opened", "recorded"} /\ Fault
    /\ ReaderAt(r, "refused")
    /\ UNCHANGED <<live, upload, object, row, deleted, scanner, timeline, served>>

\* delete_attachment by its uploader: the row is locked, marked and recorded in
\* one transaction; the object stays.
DeleteAttachment(f) ==
    /\ live /\ row[f] # "none" /\ f \notin deleted
    /\ deleted' = deleted \cup {f}
    /\ timeline' = timeline \cup {Event("Deleted", f)}
    /\ UNCHANGED <<live, upload, object, row, scanner, reader, served, faults>>

-----------------------------------------------------------------------------
Next ==
    \/ DiscardDocument
    \/ \E f \in Files :
         \/ BeginUpload(f) \/ SendParts(f) \/ CheckUpload(f) \/ StoreObject(f)
         \/ InsertRow(f) \/ DropUpload(f) \/ LoseUpload(f) \/ DeleteAttachment(f)
    \/ \E w \in Scanners :
         Scan(w) \/ ScanFails(w) \/ RecordFails(w) \/ CrashScanner(w)
    \/ \E r \in Readers :
         \/ FindStoredFile(r) \/ OpenForReader(r) \/ RecordDownload(r) \/ Stream(r)
         \/ DropDownload(r)

Spec == Init /\ [][Next]_vars

\* The worker's loop never ends: run logs an error and goes on after a sleep.
FairSpec == Spec /\ \A w \in Scanners : WF_vars(Scan(w))

-----------------------------------------------------------------------------
(* Properties                                                              *)

TypeOK ==
    /\ live \in BOOLEAN
    /\ upload \in [Files -> {"none", "body", "parts", "checked", "stored", "ended"}]
    /\ object \in [Files -> {"none", "parts", "whole"}]
    /\ row \in [Files -> {"none", "PENDING"} \cup Verdicts]
    /\ deleted \subseteq Files
    /\ scanner \in [Scanners -> [at : {"idle", "open", "sending", "reply"},
                                 batch : SUBSET Files, reply : {"none"} \cup Verdicts]]
    /\ reader \in [Readers -> [at : {"idle", "found", "opened", "recorded", "done",
                                     "refused"}, file : Files]]
    /\ served \subseteq Readers
    /\ faults \in Nat

\* Only a file whose whole content the scanner cleared is ever served, whatever
\* fails in the middle of a scan (download's gate, and converse's final frame).
OnlyCleanIsServed ==
    \A r \in served : row[reader[r].file] = "CLEAN" /\ Content[reader[r].file] = "CLEAN"

\* A row always has its object, while an object may be left without a row: the
\* order of upload, the delete that keeps the bytes and the abort of open parts.
RowsHaveObjects == \A f \in Files : row[f] # "none" => object[f] = "whole"

\* The timeline says what happened: a file is recorded with its row and a
\* deletion with its mark, bytes leave only after their event, and an event
\* says that the object was there.
TimelineIsTrue ==
    /\ \A f \in Files : Event("Added", f) \in timeline <=> row[f] # "none"
    /\ \A f \in Files : Event("Deleted", f) \in timeline <=> f \in deleted
    /\ \A r \in served : Event("Downloaded", r) \in timeline
    /\ \A r \in Readers : Event("Downloaded", r) \in timeline =>
         /\ object[reader[r].file] = "whole" /\ reader[r].file \notin Broken
         /\ reader[r].at \in {"recorded", "done", "refused"}

\* A scan result moves a row once: no second scan, of another replica or of a
\* later pass, changes what the first decided (record_scan_result).
DecidedOnce ==
    [][\A f \in Files : row[f] \in Verdicts => row'[f] = row[f]]_vars

\* As long as fewer objects than a batch takes cannot be read, every file that
\* can be is decided or deleted: neither a dead worker nor an object that can
\* never be read holds up the files behind it for ever (pending_scans, pass).
EveryFileIsDecided ==
    \A f \in Files \ Broken :
        row[f] = "PENDING" ~> (row[f] # "PENDING" \/ f \in deleted)
=============================================================================
