-------------------------- MODULE BackgroundProofs ---------------------------
(***************************************************************************)
(* Proofs about Attachments and Mailer, the scan worker and the delivery   *)
(* worker of the process, for any files, notifications, workers, batches,  *)
(* channels and bounds.                                                    *)
(*                                                                         *)
(* Attachments: what is served was cleared, a row has its object, the      *)
(* timeline says what happened, and no scan result replaces another.  The  *)
(* inductive invariant follows one file through its upload and one reply   *)
(* through its worker: an object is whole from StoreObject on and is never *)
(* touched again once there is a row, and the verdict a worker holds is of *)
(* the file it will record it for.                                         *)
(*                                                                         *)
(* Mailer: nobody hears of an action that was rolled back, a status tells  *)
(* what the attempts were, and copies are paid for.  The count of copies   *)
(* is the one that needs an idea: a worker that has had its one chance to  *)
(* mail a notification, and has it still in its batch, pays for one copy;  *)
(* once the row is not PENDING nobody takes it again, and every worker     *)
(* without a chance left may pay.                                          *)
(***************************************************************************)
EXTENDS Attachments, Mailer, FiniteSetTheorems, WellFoundedInduction, NaturalsInduction,
        TLAPS

-----------------------------------------------------------------------------
(* The scan worker: Attachments                                            *)

ScannerType == [Scanners -> [at : {"idle", "open", "sending", "reply"},
                             batch : SUBSET Files, reply : {"none"} \cup Verdicts]]
UploadType == [Files -> {"none", "body", "parts", "checked", "stored", "ended"}]
ObjectType == [Files -> {"none", "parts", "whole"}]
RowType == [Files -> {"none", "PENDING"} \cup Verdicts]
ReaderType == [Readers -> [at : {"idle", "found", "opened", "recorded", "done",
                                 "refused"}, file : Files]]

\* An upload stores the whole object and then the row, and is over.
UploadInv ==
    \A f \in Files :
        /\ upload[f] = "stored" => object[f] = "whole"
        /\ row[f] # "none" => upload[f] = "ended" /\ object[f] = "whole"

\* A worker that is at something has a batch, and a reply it holds is the
\* scanner's word on the file at hand.
ScannerInv ==
    \A w \in Scanners :
        /\ scanner[w].at # "idle" => scanner[w].batch # {}
        /\ scanner[w].at = "reply" =>
             scanner[w].reply \in {Content[First(w)], "FAILED"}

\* A row says CLEAN of what the scanner cleared, and no more.
RowInv == \A f \in Files : row[f] = "CLEAN" => Content[f] = "CLEAN"

\* A reader past the gate reads a clean file, and past the store one that is
\* there; what was served is done.
ReaderInv ==
    /\ \A r \in Readers :
         /\ reader[r].at \in {"found", "opened", "recorded", "done"} =>
              row[reader[r].file] = "CLEAN"
         /\ reader[r].at \in {"opened", "recorded", "done"} =>
              reader[r].file \notin Broken
         /\ reader[r].at \in {"recorded", "done"} =>
              Event("Downloaded", r) \in timeline
    /\ \A r \in served : reader[r].at = "done"

DownloadedInv ==
    \A r \in Readers : Event("Downloaded", r) \in timeline =>
        /\ row[reader[r].file] # "none" /\ reader[r].file \notin Broken
        /\ reader[r].at \in {"recorded", "done", "refused"}

RecordedInv ==
    \A f \in Files :
        /\ Event("Added", f) \in timeline <=> row[f] # "none"
        /\ Event("Deleted", f) \in timeline <=> f \in deleted

IInv == /\ TypeOK /\ UploadInv /\ ScannerInv /\ RowInv
        /\ ReaderInv /\ DownloadedInv /\ RecordedInv

-----------------------------------------------------------------------------
(* The file at hand                                                        *)

LEMMA LeastExists ==
  ASSUME NEW S, S \subseteq Nat, S # {}
  PROVE  \E m \in S : \A n \in S : m <= n
<1> DEFINE R == {ss \in Nat \X Nat : ss[1] < ss[2]}
<1>1. IsWellFoundedOn(R, Nat)
  BY NatLessThanWellFounded DEF OpToRel
<1>2. PICK m \in S : \A n \in S : <<n, m>> \notin R
  BY <1>1, WFMin
<1>3. \A n \in S : m <= n
  <2> TAKE n \in S
  <2>1. m \in Nat /\ n \in Nat /\ <<n, m>> \in Nat \X Nat
    OBVIOUS
  <2>2. ~ (n < m)
    BY <1>2, <2>1
  <2> QED
    BY <2>1, <2>2
<1> QED
  BY <1>3

LEMMA FirstIsOfTheBatch ==
  ASSUME ConstantsOK, TypeOK, ScannerInv, NEW w \in Scanners, scanner[w].at # "idle"
  PROVE  First(w) \in scanner[w].batch /\ First(w) \in Files
<1>1. scanner[w].batch \subseteq Files /\ scanner[w].batch # {}
  BY DEF TypeOK, ScannerInv
<1>2. scanner[w].batch \subseteq Nat
  BY <1>1 DEF ConstantsOK
<1>3. \E m \in scanner[w].batch : \A n \in scanner[w].batch : m <= n
  BY <1>1, <1>2, LeastExists
<1> QED
  BY <1>1, <1>3 DEF First

\* Going on to the next file keeps the workers as they must be.
LEMMA OnToTheNext ==
  ASSUME TypeOK, ScannerInv, NEW w \in Scanners, scanner' = NextFile(w)
  PROVE  scanner' \in ScannerType /\ ScannerInv'
<1> DEFINE rest == scanner[w].batch \ {First(w)}
<1>1. scanner \in ScannerType
  BY DEF TypeOK, ScannerType
<1>2. rest \subseteq Files
  BY <1>1 DEF ScannerType
<1> DEFINE new == IF rest = {} THEN Idle ELSE [at |-> "open", batch |-> rest, reply |-> "none"]
<1>3. scanner' = [scanner EXCEPT ![w] = new]
  BY DEF NextFile
<1>4. /\ new \in [at : {"idle", "open", "sending", "reply"}, batch : SUBSET Files,
                  reply : {"none"} \cup Verdicts]
      /\ new.at # "idle" => new.batch # {}
      /\ new.at # "reply"
  BY <1>2 DEF Idle
<1> HIDE DEF new
<1>5. scanner' \in ScannerType
  BY <1>1, <1>3, <1>4 DEF ScannerType
<1>6. ASSUME NEW v \in Scanners
      PROVE  /\ scanner'[v].at # "idle" => scanner'[v].batch # {}
             /\ scanner'[v].at = "reply" =>
                  scanner'[v].reply \in {Content[First(v)'], "FAILED"}
  <2>1. CASE v = w
    BY <1>1, <1>3, <1>4, <2>1 DEF ScannerType
  <2>2. CASE v # w
    <3>1. scanner'[v] = scanner[v]
      BY <1>1, <1>3, <2>2 DEF ScannerType
    <3>2. First(v)' = First(v)
      BY <3>1 DEF First
    <3> QED
      BY <3>1, <3>2 DEF ScannerInv
  <2> QED
    BY <2>1, <2>2
<1> QED
  BY <1>5, <1>6 DEF ScannerInv

\* A step within a file keeps the batch.
LEMMA WithinAFile ==
  ASSUME TypeOK, ScannerInv, NEW w \in Scanners, scanner[w].at # "idle",
         NEW at \in {"sending", "reply"}, NEW reply \in {"none"} \cup Verdicts,
         at = "reply" => reply \in {Content[First(w)], "FAILED"},
         scanner' = Moved(w, at, reply)
  PROVE  scanner' \in ScannerType /\ ScannerInv'
<1>1. scanner \in ScannerType
  BY DEF TypeOK, ScannerType
<1>2. /\ scanner'[w].at = at /\ scanner'[w].reply = reply
      /\ scanner'[w].batch = scanner[w].batch
  BY <1>1 DEF Moved, ScannerType
<1>3. scanner' \in ScannerType
  BY <1>1 DEF Moved, ScannerType
<1>4. ASSUME NEW v \in Scanners, v # w PROVE scanner'[v] = scanner[v]
  BY <1>1, <1>4 DEF Moved, ScannerType
<1>5. ASSUME NEW v \in Scanners PROVE First(v)' = First(v)
  <2>1. scanner'[v].batch = scanner[v].batch
    BY <1>2, <1>4
  <2> QED
    BY <2>1 DEF First
<1>6. ASSUME NEW v \in Scanners
      PROVE  /\ scanner'[v].at # "idle" => scanner'[v].batch # {}
             /\ scanner'[v].at = "reply" =>
                  scanner'[v].reply \in {Content[First(v)'], "FAILED"}
  <2>1. CASE v = w
    BY <1>2, <1>5, <2>1 DEF ScannerInv
  <2>2. CASE v # w
    BY <1>4, <1>5, <2>2 DEF ScannerInv
  <2> QED
    BY <2>1, <2>2
<1> QED
  BY <1>3, <1>6 DEF ScannerInv

-----------------------------------------------------------------------------
(* What a step does not disturb                                            *)

LEMMA ScannersUnmoved ==
  ASSUME ScannerInv, UNCHANGED scanner
  PROVE  ScannerInv'
<1>1. ASSUME NEW w \in Scanners PROVE First(w)' = First(w)
  BY DEF First
<1> QED
  BY <1>1 DEF ScannerInv

\* Rows that only go forward and a timeline that says nothing new of a reader
\* leave the readers as they are.
LEMMA ReadersUnmoved ==
  ASSUME IInv, UNCHANGED <<reader, served>>,
         \A f \in Files : /\ row[f] = "CLEAN" => row'[f] = "CLEAN"
                          /\ row[f] # "none" => row'[f] # "none",
         \A r \in Readers :
           Event("Downloaded", r) \in timeline <=> Event("Downloaded", r) \in timeline'
  PROVE  ReaderInv' /\ DownloadedInv'
<1>1. \A r \in Readers : reader[r].file \in Files
  BY DEF IInv, TypeOK
<1>2. ReaderInv'
  BY <1>1 DEF IInv, ReaderInv, Event
<1>3. DownloadedInv'
  BY <1>1 DEF IInv, DownloadedInv, Event
<1> QED
  BY <1>2, <1>3

\* A step of an upload that writes no row.
LEMMA BeforeTheRow ==
  ASSUME IInv, UNCHANGED <<row, deleted, scanner, reader, timeline, served>>,
         live' \in BOOLEAN, faults' \in Nat, upload' \in UploadType, object' \in ObjectType,
         UploadInv'
  PROVE  IInv'
<1>1. TypeOK'
  BY DEF IInv, TypeOK, UploadType, ObjectType
<1>2. ScannerInv'
  BY ScannersUnmoved DEF IInv
<1>3. ReaderInv' /\ DownloadedInv'
  BY ReadersUnmoved
<1>4. RowInv' /\ RecordedInv'
  BY DEF IInv, RowInv, RecordedInv
<1> QED
  BY <1>1, <1>2, <1>3, <1>4 DEF IInv

\* A step of a worker.
LEMMA OfAWorker ==
  ASSUME IInv, WorkerOnly, scanner' \in ScannerType, ScannerInv', faults' \in Nat,
         UNCHANGED row
  PROVE  IInv'
<1>1. TypeOK'
  BY DEF IInv, TypeOK, WorkerOnly, ScannerType
<1>2. ReaderInv' /\ DownloadedInv'
  BY ReadersUnmoved DEF WorkerOnly
<1>3. RowInv' /\ RecordedInv' /\ UploadInv'
  BY DEF IInv, RowInv, RecordedInv, UploadInv, WorkerOnly
<1> QED
  BY <1>1, <1>2, <1>3 DEF IInv

\* A step of a download.
LEMMA OfAReader ==
  ASSUME IInv, UNCHANGED <<live, upload, object, row, deleted, scanner>>,
         faults' \in Nat, reader' \in ReaderType, served' \subseteq Readers,
         ReaderInv', DownloadedInv',
         \A f \in Files :
            /\ Event("Added", f) \in timeline' <=> Event("Added", f) \in timeline
            /\ Event("Deleted", f) \in timeline' <=> Event("Deleted", f) \in timeline
  PROVE  IInv'
<1>1. TypeOK'
  BY DEF IInv, TypeOK, ReaderType
<1>2. ScannerInv'
  BY ScannersUnmoved DEF IInv
<1>3. RowInv' /\ UploadInv'
  BY DEF IInv, RowInv, UploadInv
<1>4. RecordedInv'
  BY DEF IInv, RecordedInv, Event
<1> QED
  BY <1>1, <1>2, <1>3, <1>4 DEF IInv

-----------------------------------------------------------------------------
LEMMA InitInvariant == ASSUME ConstantsOK PROVE Init => IInv
<1> SUFFICES ASSUME Init PROVE IInv
  OBVIOUS
<1>1. TypeOK
  <2>1. Idle \in [at : {"idle", "open", "sending", "reply"}, batch : SUBSET Files,
                  reply : {"none"} \cup Verdicts]
    BY DEF Idle
  <2>2. scanner \in ScannerType
    BY <2>1 DEF Init, ScannerType
  <2>3. reader \in ReaderType
    <3>1. \A r \in Readers : reader[r] \in [at : {"idle", "found", "opened", "recorded",
                                                  "done", "refused"}, file : Files]
      BY DEF Init
    <3> QED
      BY <3>1 DEF Init, ReaderType
  <2> QED
    BY <2>2, <2>3 DEF Init, TypeOK, ScannerType, ReaderType
<1>2. ScannerInv
  BY DEF Init, ScannerInv, Idle
<1>3. \A r \in Readers : reader[r].at = "idle"
  BY DEF Init
<1>4. ReaderInv
  BY <1>3 DEF Init, ReaderInv
<1>5. UploadInv /\ RowInv /\ DownloadedInv /\ RecordedInv
  BY DEF Init, UploadInv, RowInv, DownloadedInv, RecordedInv
<1> QED
  BY <1>1, <1>2, <1>4, <1>5 DEF IInv

LEMMA UploadsKeepIt ==
  ASSUME ConstantsOK, IInv, NEW f \in Files,
         \/ BeginUpload(f) \/ SendParts(f) \/ CheckUpload(f) \/ StoreObject(f)
         \/ DropUpload(f) \/ LoseUpload(f)
  PROVE  IInv'
<1>0. /\ upload \in UploadType /\ object \in ObjectType /\ live \in BOOLEAN /\ faults \in Nat
      /\ UploadInv
  BY DEF IInv, TypeOK, UploadType, ObjectType
<1>1. CASE BeginUpload(f)
  <2>1. UploadInv' /\ upload' \in UploadType /\ object' \in ObjectType
    BY <1>0, <1>1 DEF BeginUpload, UploadInv, UploadType
  <2> QED
    BY <1>0, <1>1, <2>1, BeforeTheRow DEF BeginUpload
<1>2. CASE SendParts(f)
  <2>1. UploadInv' /\ upload' \in UploadType /\ object' \in ObjectType
    BY <1>0, <1>2 DEF SendParts, UploadInv, UploadType, ObjectType
  <2> QED
    BY <1>0, <1>2, <2>1, BeforeTheRow DEF SendParts
<1>3. CASE CheckUpload(f)
  <2>1. upload[f] \in {"parts", "body"}
    BY <1>3 DEF CheckUpload
  <2>2. UploadInv' /\ upload' \in UploadType /\ object' \in ObjectType
    BY <1>0, <1>3, <2>1 DEF CheckUpload, UploadInv, UploadType, ObjectType
  <2> QED
    BY <1>0, <1>3, <2>2, BeforeTheRow DEF CheckUpload
<1>4. CASE StoreObject(f)
  <2>1. UploadInv' /\ upload' \in UploadType /\ object' \in ObjectType
    BY <1>0, <1>4 DEF StoreObject, UploadInv, UploadType, ObjectType
  <2> QED
    BY <1>0, <1>4, <2>1, BeforeTheRow DEF StoreObject
<1>5. CASE DropUpload(f)
  <2>1. row[f] = "none"
    BY <1>0, <1>5 DEF DropUpload, Uploading, UploadInv
  <2>2. UploadInv' /\ upload' \in UploadType /\ object' \in ObjectType
    BY <1>0, <1>5, <2>1 DEF DropUpload, UploadInv, UploadType, ObjectType
  <2> QED
    BY <1>0, <1>5, <2>2, BeforeTheRow DEF DropUpload, Fault
<1>6. CASE LoseUpload(f)
  <2>1. row[f] = "none"
    BY <1>0, <1>6 DEF LoseUpload, Uploading, UploadInv
  <2>2. UploadInv' /\ upload' \in UploadType /\ object' \in ObjectType
    BY <1>0, <1>6, <2>1 DEF LoseUpload, UploadInv, UploadType, ObjectType
  <2> QED
    BY <1>0, <1>6, <2>2, BeforeTheRow DEF LoseUpload, Fault
<1> QED
  BY <1>1, <1>2, <1>3, <1>4, <1>5, <1>6

LEMMA RowsKeepIt ==
  ASSUME ConstantsOK, IInv, NEW f \in Files, InsertRow(f) \/ DeleteAttachment(f)
  PROVE  IInv'
<1>0. /\ upload \in UploadType /\ row \in RowType /\ UploadInv
      /\ TypeOK /\ RecordedInv /\ ScannerInv /\ RowInv
  BY DEF IInv, TypeOK, UploadType, RowType
<1>1. CASE InsertRow(f)
  <2>1. row[f] = "none" /\ object[f] = "whole"
    BY <1>0, <1>1 DEF InsertRow, UploadInv
  <2>2. /\ row' = [row EXCEPT ![f] = "PENDING"]
        /\ upload' = [upload EXCEPT ![f] = "ended"]
        /\ timeline' = timeline \cup {Event("Added", f)}
        /\ UNCHANGED <<live, object, deleted, scanner, reader, served, faults>>
    BY <1>1 DEF InsertRow
  <2>3. TypeOK'
    BY <1>0, <2>2 DEF TypeOK, UploadType, RowType
  <2>4. UploadInv' /\ RowInv'
    BY <1>0, <2>1, <2>2 DEF UploadInv, UploadType, RowType, RowInv
  <2>5. ReaderInv' /\ DownloadedInv'
    <3>1. \A g \in Files : /\ row[g] = "CLEAN" => row'[g] = "CLEAN"
                           /\ row[g] # "none" => row'[g] # "none"
      BY <1>0, <2>1, <2>2 DEF RowType
    <3>2. \A r \in Readers :
            Event("Downloaded", r) \in timeline <=> Event("Downloaded", r) \in timeline'
      BY <2>2 DEF Event
    <3> QED
      BY <2>2, <3>1, <3>2, ReadersUnmoved
  <2>6. RecordedInv'
    <3> SUFFICES ASSUME NEW g \in Files
                 PROVE  /\ Event("Added", g) \in timeline' <=> row'[g] # "none"
                        /\ Event("Deleted", g) \in timeline' <=> g \in deleted'
      BY DEF RecordedInv, Event
    <3>1. Event("Added", g) \in timeline' <=> Event("Added", g) \in timeline \/ g = f
      BY <2>2 DEF Event
    <3>2. row'[g] # "none" <=> row[g] # "none" \/ g = f
      BY <1>0, <2>2 DEF RowType
    <3>3. Event("Deleted", g) \in timeline' <=> Event("Deleted", g) \in timeline
      BY <2>2 DEF Event
    <3>4. deleted' = deleted
      BY <2>2
    <3> QED
      BY <1>0, <3>1, <3>2, <3>3, <3>4 DEF RecordedInv
  <2>7. ScannerInv'
    BY <1>0, <2>2, ScannersUnmoved
  <2> QED
    BY <2>3, <2>4, <2>5, <2>6, <2>7 DEF IInv
<1>2. CASE DeleteAttachment(f)
  <2>1. /\ deleted' = deleted \cup {f}
        /\ timeline' = timeline \cup {Event("Deleted", f)}
        /\ UNCHANGED <<live, upload, object, row, scanner, reader, served, faults>>
    BY <1>2 DEF DeleteAttachment
  <2>2. TypeOK' /\ UploadInv' /\ RowInv'
    BY <1>0, <2>1 DEF TypeOK, UploadInv, RowInv
  <2>3. ReaderInv' /\ DownloadedInv'
    <3>1. \A r \in Readers :
            Event("Downloaded", r) \in timeline <=> Event("Downloaded", r) \in timeline'
      BY <2>1 DEF Event
    <3> QED
      BY <2>1, <3>1, ReadersUnmoved
  <2>4. RecordedInv'
    <3> SUFFICES ASSUME NEW g \in Files
                 PROVE  /\ Event("Added", g) \in timeline' <=> row'[g] # "none"
                        /\ Event("Deleted", g) \in timeline' <=> g \in deleted'
      BY DEF RecordedInv, Event
    <3>1. Event("Deleted", g) \in timeline' <=> Event("Deleted", g) \in timeline \/ g = f
      BY <2>1 DEF Event
    <3>2. Event("Added", g) \in timeline' <=> Event("Added", g) \in timeline
      BY <2>1 DEF Event
    <3> QED
      BY <1>0, <2>1, <3>1, <3>2 DEF RecordedInv
  <2>5. ScannerInv'
    BY <1>0, <2>1, ScannersUnmoved
  <2> QED
    BY <2>2, <2>3, <2>4, <2>5 DEF IInv
<1> QED
  BY <1>1, <1>2

LEMMA ScansKeepIt ==
  ASSUME ConstantsOK, IInv, NEW w \in Scanners,
         Scan(w) \/ ScanFails(w) \/ RecordFails(w) \/ CrashScanner(w)
  PROVE  IInv'
<1>0. /\ TypeOK /\ ScannerInv /\ scanner \in ScannerType /\ faults \in Nat /\ row \in RowType
      /\ UploadInv /\ RowInv /\ RecordedInv
  BY DEF IInv, TypeOK, ScannerType, RowType
<1>1. CASE TakeBatch(w)
  <2> DEFINE new == [at |-> "open", batch |-> Oldest(Pending), reply |-> "none"]
  <2>1. Oldest(Pending) \subseteq Files
    BY DEF Oldest, Pending
  <2>2. Oldest(Pending) # {}
    <3>1. Pending \subseteq Files /\ Pending \subseteq Nat /\ Pending # {}
      BY <1>1 DEF TakeBatch, Pending, ConstantsOK
    <3>2. PICK m \in Pending : \A n \in Pending : m <= n
      BY <3>1, LeastExists
    <3>3. {g \in Pending : g < m} = {}
      <4>1. \A g \in Pending : g \in Nat /\ m \in Nat /\ m <= g
        BY <3>1, <3>2
      <4>2. \A g \in Pending : ~ (g < m)
        BY <4>1
      <4> QED
        BY <4>2
    <3>4. Cardinality({g \in Pending : g < m}) < Batch
      BY <3>3, FS_EmptySet DEF ConstantsOK
    <3> QED
      BY <3>4 DEF Oldest
  <2>3. scanner' = [scanner EXCEPT ![w] = new]
    BY <1>1 DEF TakeBatch
  <2>4. new \in [at : {"idle", "open", "sending", "reply"}, batch : SUBSET Files,
                 reply : {"none"} \cup Verdicts]
    BY <2>1
  <2>5. new.at = "open" /\ new.batch # {}
    BY <2>2
  <2> HIDE DEF new
  <2>6. scanner' \in ScannerType
    BY <1>0, <2>3, <2>4 DEF ScannerType
  <2>7. ScannerInv'
    <3> SUFFICES ASSUME NEW v \in Scanners
                 PROVE  /\ scanner'[v].at # "idle" => scanner'[v].batch # {}
                        /\ scanner'[v].at = "reply" =>
                             scanner'[v].reply \in {Content[First(v)'], "FAILED"}
      BY DEF ScannerInv
    <3>1. CASE v = w
      BY <1>0, <2>3, <2>5, <3>1 DEF ScannerType
    <3>2. CASE v # w
      <4>1. scanner'[v] = scanner[v]
        BY <1>0, <2>3, <3>2 DEF ScannerType
      <4>2. First(v)' = First(v)
        BY <4>1 DEF First
      <4> QED
        BY <1>0, <4>1, <4>2 DEF ScannerInv
    <3> QED
      BY <3>1, <3>2
  <2> QED
    BY <1>0, <1>1, <2>6, <2>7, OfAWorker DEF TakeBatch
<1>2. CASE OpenObject(w)
  <2>1. scanner[w].at # "idle"
    BY <1>2 DEF OpenObject
  <2>2. scanner' = NextFile(w) \/ scanner' = Moved(w, "sending", "none")
    BY <1>2 DEF OpenObject
  <2>3. scanner' \in ScannerType /\ ScannerInv'
    BY <1>0, <2>1, <2>2, OnToTheNext, WithinAFile
  <2> QED
    BY <1>0, <1>2, <2>3, OfAWorker DEF OpenObject
<1>3. CASE ReadReply(w)
  <2>1. scanner[w].at # "idle"
    BY <1>3 DEF ReadReply
  <2>2. PICK reply \in {Content[First(w)], "FAILED"} : scanner' = Moved(w, "reply", reply)
    BY <1>3 DEF ReadReply
  <2>3. First(w) \in Files
    BY <1>0, <2>1, FirstIsOfTheBatch
  <2>4. reply \in {"none"} \cup Verdicts
    BY <2>3 DEF ConstantsOK, Verdicts
  <2>5. scanner' \in ScannerType /\ ScannerInv'
    BY <1>0, <2>1, <2>2, <2>4, WithinAFile
  <2> QED
    BY <1>0, <1>3, <2>5, OfAWorker DEF ReadReply
<1>4. CASE ScanFails(w) \/ RecordFails(w)
  <2>1. scanner' = NextFile(w) /\ faults' \in Nat /\ WorkerOnly /\ UNCHANGED row
    BY <1>0, <1>4 DEF ScanFails, RecordFails, Fault
  <2>2. scanner' \in ScannerType /\ ScannerInv'
    BY <1>0, <2>1, OnToTheNext
  <2> QED
    BY <2>1, <2>2, OfAWorker
<1>5. CASE CrashScanner(w)
  <2>1. /\ scanner' = [scanner EXCEPT ![w] = Idle]
        /\ faults' \in Nat /\ WorkerOnly /\ UNCHANGED row
    BY <1>0, <1>5 DEF CrashScanner, Fault
  <2>2. Idle \in [at : {"idle", "open", "sending", "reply"}, batch : SUBSET Files,
                  reply : {"none"} \cup Verdicts] /\ Idle.at = "idle"
    BY DEF Idle
  <2>3. scanner' \in ScannerType
    BY <1>0, <2>1, <2>2 DEF ScannerType
  <2>4. ScannerInv'
    <3> SUFFICES ASSUME NEW v \in Scanners
                 PROVE  /\ scanner'[v].at # "idle" => scanner'[v].batch # {}
                        /\ scanner'[v].at = "reply" =>
                             scanner'[v].reply \in {Content[First(v)'], "FAILED"}
      BY DEF ScannerInv
    <3>1. CASE v = w
      BY <1>0, <2>1, <2>2, <3>1 DEF ScannerType
    <3>2. CASE v # w
      <4>1. scanner'[v] = scanner[v]
        BY <1>0, <2>1, <3>2 DEF ScannerType
      <4>2. First(v)' = First(v)
        BY <4>1 DEF First
      <4> QED
        BY <1>0, <4>1, <4>2 DEF ScannerInv
    <3> QED
      BY <3>1, <3>2
  <2> QED
    BY <2>1, <2>3, <2>4, OfAWorker
<1>6. CASE RecordScanResult(w)
  <2> DEFINE f == First(w)
  <2>1. scanner[w].at = "reply"
    BY <1>6 DEF RecordScanResult
  <2>2. /\ row' = [row EXCEPT ![f] = IF f \in Pending THEN scanner[w].reply ELSE @]
        /\ scanner' = NextFile(w) /\ WorkerOnly /\ faults' = faults
    BY <1>6 DEF RecordScanResult
  <2>3. f \in Files
    BY <1>0, <2>1, FirstIsOfTheBatch
  <2>4. scanner[w].reply \in {Content[f], "FAILED"}
    BY <1>0, <2>1 DEF ScannerInv
  <2>5. scanner[w].reply \in Verdicts
    BY <2>3, <2>4 DEF ConstantsOK, Verdicts
  <2>6. f \in Pending => row[f] = "PENDING"
    BY DEF Pending
  <2>7. scanner' \in ScannerType /\ ScannerInv'
    BY <1>0, <2>2, OnToTheNext
  <2> HIDE DEF f
  <2>8. row' \in RowType
    BY <1>0, <2>2, <2>3, <2>5 DEF RowType
  <2>9. \A g \in Files : /\ row[g] = "CLEAN" => row'[g] = "CLEAN"
                         /\ row'[g] # "none" <=> row[g] # "none"
                         /\ row'[g] = "CLEAN" => row[g] = "CLEAN" \/ Content[g] = "CLEAN"
    <3> TAKE g \in Files
    <3>1. CASE g = f
      BY <1>0, <2>2, <2>3, <2>4, <2>5, <2>6, <3>1 DEF RowType, Verdicts
    <3>2. CASE g # f
      BY <1>0, <2>2, <3>2 DEF RowType
    <3> QED
      BY <3>1, <3>2
  <2>10. TypeOK'
    BY <1>0, <2>2, <2>7, <2>8 DEF TypeOK, WorkerOnly, ScannerType, RowType
  <2>11. ReaderInv' /\ DownloadedInv'
    BY <2>2, <2>9, ReadersUnmoved DEF WorkerOnly
  <2>12. UploadInv' /\ RowInv'
    BY <1>0, <2>2, <2>9 DEF UploadInv, RowInv, WorkerOnly
  <2>13. RecordedInv'
    BY <1>0, <2>2, <2>9 DEF RecordedInv, WorkerOnly, Event
  <2> QED
    BY <2>7, <2>10, <2>11, <2>12, <2>13 DEF IInv
<1> QED
  BY <1>1, <1>2, <1>3, <1>4, <1>5, <1>6 DEF Scan

LEMMA ReadersKeepIt ==
  ASSUME ConstantsOK, IInv, NEW r \in Readers,
         \/ FindStoredFile(r) \/ OpenForReader(r) \/ RecordDownload(r) \/ Stream(r)
         \/ DropDownload(r)
  PROVE  IInv'
<1>0. /\ reader \in ReaderType /\ served \subseteq Readers /\ faults \in Nat
      /\ ReaderInv /\ DownloadedInv /\ UploadInv
  BY DEF IInv, TypeOK, ReaderType
<1> DEFINE Ats == {"idle", "found", "opened", "recorded", "done", "refused"}
\* Moving one reader moves no other, and leaves it its file.
<1>1. ASSUME NEW at \in Ats, ReaderAt(r, at)
      PROVE  /\ reader' \in ReaderType
             /\ reader'[r].at = at /\ reader'[r].file = reader[r].file
             /\ \A q \in Readers : q # r => reader'[q] = reader[q]
             /\ reader[r].file \in Files
  BY <1>0, <1>1 DEF ReaderAt, ReaderType
<1>2. CASE FindStoredFile(r)
  <2> DEFINE f == reader[r].file
  <2>1. PICK at \in {"found", "refused"} :
          /\ ReaderAt(r, at)
          /\ at = "found" => row[f] = "CLEAN"
    BY <1>2 DEF FindStoredFile
  <2>2. /\ UNCHANGED <<live, upload, object, row, deleted, scanner, timeline, served, faults>>
        /\ reader[r].at = "idle"
    BY <1>2 DEF FindStoredFile
  <2>3. /\ reader' \in ReaderType
        /\ reader'[r].at = at /\ reader'[r].file = f
        /\ \A q \in Readers : q # r => reader'[q] = reader[q]
    BY <1>1, <2>1
  <2> HIDE DEF f
  <2>4. ReaderInv'
    BY <1>0, <2>1, <2>2, <2>3 DEF ReaderInv, Event
  <2>5. DownloadedInv'
    BY <1>0, <2>1, <2>2, <2>3 DEF DownloadedInv, Event
  <2> QED
    BY <1>0, <2>2, <2>3, <2>4, <2>5, OfAReader
<1>3. CASE OpenForReader(r)
  <2> DEFINE f == reader[r].file
  <2>1. PICK at \in {"opened", "refused"} :
          /\ ReaderAt(r, at)
          /\ at = "opened" => f \notin Broken
    BY <1>3 DEF OpenForReader
  <2>2. /\ UNCHANGED <<live, upload, object, row, deleted, scanner, timeline, served, faults>>
        /\ reader[r].at = "found"
    BY <1>3 DEF OpenForReader
  <2>3. /\ reader' \in ReaderType
        /\ reader'[r].at = at /\ reader'[r].file = f
        /\ \A q \in Readers : q # r => reader'[q] = reader[q]
    BY <1>1, <2>1
  <2>f. f = reader[r].file
    OBVIOUS
  <2> HIDE DEF f
  <2>4. ReaderInv'
    BY <1>0, <2>1, <2>2, <2>3, <2>f DEF ReaderInv, Event
  <2>5. DownloadedInv'
    BY <1>0, <2>1, <2>2, <2>3, <2>f DEF DownloadedInv, Event
  <2> QED
    BY <1>0, <2>2, <2>3, <2>4, <2>5, OfAReader
<1>4. CASE RecordDownload(r)
  <2>2. /\ UNCHANGED <<live, upload, object, row, deleted, scanner, served, faults>>
        /\ reader[r].at = "opened" /\ ReaderAt(r, "recorded")
        /\ timeline' = timeline \cup {Event("Downloaded", r)}
    BY <1>4 DEF RecordDownload
  <2>3. /\ reader' \in ReaderType
        /\ reader'[r].at = "recorded" /\ reader'[r].file = reader[r].file
        /\ \A q \in Readers : q # r => reader'[q] = reader[q]
        /\ reader[r].file \in Files
    BY <1>1, <2>2
  <2>4. \A q \in Readers :
          Event("Downloaded", q) \in timeline' <=> Event("Downloaded", q) \in timeline \/ q = r
    BY <2>2 DEF Event
  <2>5. ReaderInv'
    <3>1. \A q \in served : q # r
      BY <1>0, <2>2 DEF ReaderInv
    <3> QED
      BY <1>0, <2>2, <2>3, <2>4, <3>1 DEF ReaderInv, Event
  <2>6. DownloadedInv'
    <3>1. row[reader[r].file] = "CLEAN" /\ reader[r].file \notin Broken
      BY <1>0, <2>2 DEF ReaderInv
    <3> QED
      BY <1>0, <2>2, <2>3, <2>4, <3>1 DEF DownloadedInv, Event
  <2>7. \A f \in Files :
            /\ Event("Added", f) \in timeline' <=> Event("Added", f) \in timeline
            /\ Event("Deleted", f) \in timeline' <=> Event("Deleted", f) \in timeline
    BY <2>2 DEF Event
  <2> QED
    BY <1>0, <2>2, <2>3, <2>5, <2>6, <2>7, OfAReader
<1>5. CASE Stream(r)
  <2>2. /\ UNCHANGED <<live, upload, object, row, deleted, scanner, timeline, faults>>
        /\ reader[r].at = "recorded" /\ ReaderAt(r, "done")
        /\ served' = served \cup {r}
    BY <1>5 DEF Stream
  <2>3. /\ reader' \in ReaderType
        /\ reader'[r].at = "done" /\ reader'[r].file = reader[r].file
        /\ \A q \in Readers : q # r => reader'[q] = reader[q]
    BY <1>1, <2>2
  <2>4. ReaderInv'
    BY <1>0, <2>2, <2>3 DEF ReaderInv, Event
  <2>5. DownloadedInv'
    BY <1>0, <2>2, <2>3 DEF DownloadedInv, Event
  <2> QED
    BY <1>0, <2>2, <2>3, <2>4, <2>5, OfAReader
<1>6. CASE DropDownload(r)
  <2>2. /\ UNCHANGED <<live, upload, object, row, deleted, scanner, timeline, served>>
        /\ reader[r].at \in {"found", "opened", "recorded"} /\ ReaderAt(r, "refused")
        /\ faults' \in Nat
    BY <1>0, <1>6 DEF DropDownload, Fault
  <2>3. /\ reader' \in ReaderType
        /\ reader'[r].at = "refused" /\ reader'[r].file = reader[r].file
        /\ \A q \in Readers : q # r => reader'[q] = reader[q]
    BY <1>1, <2>2
  <2>4. ReaderInv'
    <3>1. \A q \in served : q # r
      BY <1>0, <2>2 DEF ReaderInv
    <3> QED
      BY <1>0, <2>2, <2>3, <3>1 DEF ReaderInv, Event
  <2>5. DownloadedInv'
    BY <1>0, <2>2, <2>3 DEF DownloadedInv, Event
  <2> QED
    BY <1>0, <2>2, <2>3, <2>4, <2>5, OfAReader
<1> QED
  BY <1>2, <1>3, <1>4, <1>5, <1>6

LEMMA NextInvariant == ASSUME ConstantsOK PROVE IInv /\ [Next]_vars => IInv'
<1> SUFFICES ASSUME IInv, [Next]_vars PROVE IInv'
  OBVIOUS
<1>1. ASSUME DiscardDocument PROVE IInv'
  <2>1. TypeOK'
    BY <1>1 DEF IInv, TypeOK, DiscardDocument
  <2>2. ScannerInv'
    BY <1>1, ScannersUnmoved DEF IInv, DiscardDocument
  <2>3. ReaderInv' /\ DownloadedInv'
    BY <1>1, ReadersUnmoved DEF DiscardDocument
  <2>4. UploadInv' /\ RowInv' /\ RecordedInv'
    BY <1>1 DEF IInv, DiscardDocument, UploadInv, RowInv, RecordedInv
  <2> QED
    BY <2>1, <2>2, <2>3, <2>4 DEF IInv
<1>2. CASE UNCHANGED vars
  <2>1. TypeOK'
    BY <1>2 DEF IInv, TypeOK, vars
  <2>2. ScannerInv'
    BY <1>2, ScannersUnmoved DEF IInv, vars
  <2>3. ReaderInv' /\ DownloadedInv'
    BY <1>2, ReadersUnmoved DEF vars
  <2>4. UploadInv' /\ RowInv' /\ RecordedInv'
    BY <1>2 DEF IInv, vars, UploadInv, RowInv, RecordedInv
  <2> QED
    BY <2>1, <2>2, <2>3, <2>4 DEF IInv
<1> QED
  BY <1>1, <1>2, UploadsKeepIt, RowsKeepIt, ScansKeepIt, ReadersKeepIt DEF Next

(* The strengthened invariant holds through uploads, scans, downloads and  *)
(* deletions that overlap, fail or stop halfway.                           *)
THEOREM Invariance == ASSUME ConstantsOK PROVE Spec => []IInv
  BY InitInvariant, NextInvariant, PTL DEF Spec

(* Every variable of Attachments keeps its type.                           *)
THEOREM TypeCorrect == ASSUME ConstantsOK PROVE Spec => []TypeOK
<1>1. IInv => TypeOK
  BY DEF IInv
<1> QED
  BY <1>1, Invariance, PTL

(* Only what the scanner cleared is served, whatever fails in a scan       *)
(* (download's gate, and converse's final frame).                          *)
THEOREM CleanIsServed == ASSUME ConstantsOK PROVE Spec => []OnlyCleanIsServed
<1>1. IInv => OnlyCleanIsServed
  <2> SUFFICES ASSUME IInv, NEW r \in served
               PROVE  row[reader[r].file] = "CLEAN" /\ Content[reader[r].file] = "CLEAN"
    BY DEF OnlyCleanIsServed
  <2>1. r \in Readers /\ reader[r].file \in Files
    BY DEF IInv, TypeOK
  <2>2. row[reader[r].file] = "CLEAN"
    BY <2>1 DEF IInv, ReaderInv
  <2> QED
    BY <2>1, <2>2 DEF IInv, RowInv
<1> QED
  BY <1>1, Invariance, PTL

(* A row always has its object: upload stores the object first, and        *)
(* nothing takes it away.                                                  *)
THEOREM ObjectsBehindRows == ASSUME ConstantsOK PROVE Spec => []RowsHaveObjects
<1>1. IInv => RowsHaveObjects
  BY DEF IInv, UploadInv, RowsHaveObjects
<1> QED
  BY <1>1, Invariance, PTL

(* The timeline says what happened to files and who was given their bytes. *)
THEOREM TimelineTrue == ASSUME ConstantsOK PROVE Spec => []TimelineIsTrue
<1>1. IInv => TimelineIsTrue
  <2> SUFFICES ASSUME IInv PROVE TimelineIsTrue
    OBVIOUS
  <2>1. /\ \A f \in Files : Event("Added", f) \in timeline <=> row[f] # "none"
        /\ \A f \in Files : Event("Deleted", f) \in timeline <=> f \in deleted
    BY DEF IInv, RecordedInv
  <2>2. \A r \in served : Event("Downloaded", r) \in timeline
    <3>1. served \subseteq Readers
      BY DEF IInv, TypeOK
    <3> QED
      BY <3>1 DEF IInv, ReaderInv
  <2>3. ASSUME NEW r \in Readers, Event("Downloaded", r) \in timeline
        PROVE  /\ object[reader[r].file] = "whole" /\ reader[r].file \notin Broken
               /\ reader[r].at \in {"recorded", "done", "refused"}
    <3>1. reader[r].file \in Files
      BY DEF IInv, TypeOK
    <3>2. /\ row[reader[r].file] # "none" /\ reader[r].file \notin Broken
          /\ reader[r].at \in {"recorded", "done", "refused"}
      BY <2>3 DEF IInv, DownloadedInv
    <3> QED
      BY <3>1, <3>2 DEF IInv, UploadInv
  <2> QED
    BY <2>1, <2>2, <2>3 DEF TimelineIsTrue
<1> QED
  BY <1>1, Invariance, PTL

(* What a scan decided is not decided again, by another replica or a later *)
(* pass (record_scan_result, over PENDING only).                           *)
THEOREM DecidedForGood == ASSUME ConstantsOK PROVE Spec => DecidedOnce
<1> DEFINE Kept == \A f \in Files : row[f] \in Verdicts => row'[f] = row[f]
<1>1. ASSUME ConstantsOK, IInv, [Next]_vars PROVE [Kept]_vars
  <2>0. row \in RowType /\ UploadInv /\ TypeOK /\ ScannerInv
    BY <1>1 DEF IInv, TypeOK, RowType
  <2>1. CASE UNCHANGED row
    BY <2>1
  <2>2. ASSUME NEW f \in Files, InsertRow(f) PROVE Kept
    <3>1. row[f] = "none" /\ row' = [row EXCEPT ![f] = "PENDING"]
      BY <2>0, <2>2 DEF InsertRow, UploadInv
    <3> QED
      BY <2>0, <3>1 DEF RowType, Verdicts
  <2>3. ASSUME NEW w \in Scanners, RecordScanResult(w) PROVE Kept
    <3>1. row' = [row EXCEPT ![First(w)] =
                    IF First(w) \in Pending THEN scanner[w].reply ELSE @]
      BY <2>3 DEF RecordScanResult
    <3>2. First(w) \in Pending => row[First(w)] = "PENDING"
      BY DEF Pending
    <3> QED
      BY <2>0, <3>1, <3>2 DEF RowType, Verdicts
  <2>4. \/ UNCHANGED row
        \/ \E f \in Files : InsertRow(f)
        \/ \E w \in Scanners : RecordScanResult(w)
    BY <1>1 DEF Next, vars, DiscardDocument, BeginUpload, SendParts, CheckUpload, StoreObject,
         DropUpload, LoseUpload, DeleteAttachment, Scan, TakeBatch, OpenObject, ReadReply,
         ScanFails, RecordFails, CrashScanner, FindStoredFile, OpenForReader,
         RecordDownload, Stream, DropDownload
  <2> HIDE DEF Kept
  <2> QED
    BY <2>1, <2>2, <2>3, <2>4 DEF Kept
<1> QED
  BY <1>1, Invariance, PTL DEF Spec, DecidedOnce

-----------------------------------------------------------------------------
(* The delivery worker: Mailer                                             *)

PassType == [at : {"idle", "channels", "attempt", "log", "mark"},
             batch : SUBSET Notes, addressed : BOOLEAN, todo : SUBSET Channels,
             worked : BOOLEAN, tried : Channels \cup {"none"},
             outcome : {"none", "SENT", "FAILED"}]

\* A row is there as long as its action, and what a worker holds committed.
ActionInv ==
    /\ \A n \in Notes : action[n] = "none" => status[n] = "none"
    /\ \A w \in Senders : \A n \in sender[w].batch : action[n] = "committed"

\* What a worker knows where it stands.
PassInv ==
    \A w \in Senders :
        /\ sender[w].at = "idle" <=> sender[w].batch = {}
        /\ sender[w].at = "attempt" => sender[w].todo # {}
        /\ sender[w].at = "log" =>
             /\ "EMAIL" \in sender[w].todo => sender[w].tried = "EMAIL"
             /\ sender[w].outcome = "SENT" => copies[FirstNote(w)] > 0
             /\ sender[w].outcome # "none"
        /\ sender[w].at \in {"attempt", "log", "mark"} /\ ~sender[w].worked =>
             <<FirstNote(w), "FAILED">> \in logs
        /\ sender[w].at = "mark" /\ sender[w].worked =>
             copies[FirstNote(w)] > 0 \/ FirstNote(w) \in quiet

\* The workers that may still mail n, those that had their chance and hold it,
\* and all that have no chance.
MaySend(w, n) ==
    /\ n \in sender[w].batch
    /\ \/ n # FirstNote(w)
       \/ sender[w].at = "channels"
       \/ sender[w].at = "attempt" /\ "EMAIL" \in sender[w].todo
Holding(n) == {w \in Senders : n \in sender[w].batch /\ ~MaySend(w, n)}
Over(n) == {w \in Senders : ~MaySend(w, n)}
Paying(n) == IF status[n] = "PENDING" THEN Holding(n) ELSE Over(n)

CopiesInv == \A n \in Notes : copies[n] <= Cardinality(Paying(n)) + mailFaults

MailerIInv ==
    /\ MailerTypeOK /\ ActionInv /\ NobodyHearsOfARollback
    /\ PassInv /\ StatusTellsTheAttempts /\ CopiesInv

-----------------------------------------------------------------------------
(* The notification at hand, and counting                                  *)

LEMMA FirstNoteIsOfTheBatch ==
  ASSUME MailerConstantsOK, MailerTypeOK, PassInv, NEW w \in Senders, sender[w].at # "idle"
  PROVE  FirstNote(w) \in sender[w].batch /\ FirstNote(w) \in Notes
<1>1. sender[w].batch \subseteq Notes /\ sender[w].batch # {}
  BY DEF MailerTypeOK, PassInv
<1>2. sender[w].batch \subseteq Nat
  BY <1>1 DEF MailerConstantsOK
<1>3. \E m \in sender[w].batch : \A n \in sender[w].batch : m <= n
  BY <1>1, <1>2, LeastExists
<1> QED
  BY <1>1, <1>3 DEF FirstNote

\* Who pays is a finite set, and one that holds a notification pays for it.
LEMMA PayersAreFinite ==
  ASSUME MailerConstantsOK, NEW n
  PROVE  /\ IsFiniteSet(Holding(n)) /\ IsFiniteSet(Over(n))
         /\ IsFiniteSet(Holding(n)') /\ IsFiniteSet(Over(n)')
         /\ IsFiniteSet(Paying(n)) /\ IsFiniteSet(Paying(n)')
         /\ Cardinality(Paying(n)) \in Nat /\ Cardinality(Paying(n)') \in Nat
<1>1. IsFiniteSet(Senders)
  BY DEF MailerConstantsOK
<1>2. /\ Holding(n) \subseteq Senders /\ Over(n) \subseteq Senders
      /\ Holding(n)' \subseteq Senders /\ Over(n)' \subseteq Senders
  BY DEF Holding, Over
<1>3. /\ IsFiniteSet(Holding(n)) /\ IsFiniteSet(Over(n))
      /\ IsFiniteSet(Holding(n)') /\ IsFiniteSet(Over(n)')
  BY <1>1, <1>2, FS_Subset
<1>4. IsFiniteSet(Paying(n)) /\ IsFiniteSet(Paying(n)')
  BY <1>3 DEF Paying
<1> QED
  BY <1>3, <1>4, FS_CardinalityType

\* No more copies, no fewer payers.
LEMMA NobodyStopsPaying ==
  ASSUME MailerConstantsOK, NEW n \in Notes, copies[n] \in Nat, mailFaults \in Nat,
         copies[n] <= Cardinality(Paying(n)) + mailFaults,
         copies'[n] = copies[n], mailFaults' \in Nat, mailFaults <= mailFaults',
         Paying(n) \subseteq Paying(n)'
  PROVE  copies'[n] <= Cardinality(Paying(n)') + mailFaults'
<1>1. Cardinality(Paying(n)) <= Cardinality(Paying(n)')
  BY PayersAreFinite, FS_Subset
<1> QED
  BY <1>1, PayersAreFinite

\* One copy, one more payer.
LEMMA OneMorePays ==
  ASSUME MailerConstantsOK, NEW n \in Notes, NEW w \in Senders,
         copies[n] \in Nat, mailFaults \in Nat,
         copies[n] <= Cardinality(Paying(n)) + mailFaults,
         copies'[n] <= copies[n] + 1, copies'[n] \in Nat, mailFaults' = mailFaults,
         w \notin Paying(n), Paying(n) \cup {w} \subseteq Paying(n)'
  PROVE  copies'[n] <= Cardinality(Paying(n)') + mailFaults'
<1>1. Cardinality(Paying(n) \cup {w}) = Cardinality(Paying(n)) + 1
  BY PayersAreFinite, FS_AddElement
<1>2. Cardinality(Paying(n) \cup {w}) <= Cardinality(Paying(n)')
  BY PayersAreFinite, FS_Subset
<1> QED
  BY <1>1, <1>2, PayersAreFinite

\* A fault pays for the one that stops.
LEMMA AFaultPays ==
  ASSUME MailerConstantsOK, NEW n \in Notes, NEW w \in Senders,
         copies[n] \in Nat, mailFaults \in Nat,
         copies[n] <= Cardinality(Paying(n)) + mailFaults,
         copies'[n] = copies[n], mailFaults' = mailFaults + 1,
         Paying(n) \ {w} \subseteq Paying(n)'
  PROVE  copies'[n] <= Cardinality(Paying(n)') + mailFaults'
<1> DEFINE P == Paying(n)
<1>0. IsFiniteSet(P) /\ Cardinality(P) \in Nat
  BY PayersAreFinite
<1>p. IsFiniteSet(Paying(n)') /\ Cardinality(Paying(n)') \in Nat
  BY PayersAreFinite
<1>1. Cardinality(P \ {w}) = IF w \in P THEN Cardinality(P) - 1 ELSE Cardinality(P)
  <2> HIDE DEF P
  <2> QED
    BY <1>0, FS_RemoveElement
<1>2. Cardinality(P \ {w}) <= Cardinality(Paying(n)')
  BY <1>p, FS_Subset
<1>3. Cardinality(P) <= Cardinality(Paying(n)') + 1
  <2> HIDE DEF P
  <2> QED
    BY <1>0, <1>1, <1>2, <1>p
<1> QED
  BY <1>0, <1>3, <1>p

-----------------------------------------------------------------------------
LEMMA MailerInitInvariant == ASSUME MailerConstantsOK PROVE MailerInit => MailerIInv
<1> SUFFICES ASSUME MailerInit PROVE MailerIInv
  OBVIOUS
<1>1. Asleep \in PassType
  BY DEF Asleep, PassType
<1>2. MailerTypeOK
  BY <1>1 DEF MailerInit, MailerTypeOK, PassType, Channels
<1>3. ActionInv /\ PassInv
  BY DEF MailerInit, ActionInv, PassInv, Asleep
<1>4. NobodyHearsOfARollback /\ StatusTellsTheAttempts
  BY DEF MailerInit, NobodyHearsOfARollback, StatusTellsTheAttempts
<1>5. CopiesInv
  <2> SUFFICES ASSUME NEW n \in Notes PROVE copies[n] <= Cardinality(Paying(n)) + mailFaults
    BY DEF CopiesInv
  <2> QED
    BY PayersAreFinite DEF MailerInit
<1> QED
  BY <1>2, <1>3, <1>4, <1>5 DEF MailerIInv

\* What the workers hold stays while the action, the settings and the account
\* change.
LEMMA PassesUnmoved ==
  ASSUME UNCHANGED <<sender, copies, logs, quiet>>, PassInv
  PROVE  PassInv' /\ \A n : Holding(n)' = Holding(n) /\ Over(n)' = Over(n)
<1>1. \A w : FirstNote(w)' = FirstNote(w)
  <2> TAKE w
  <2>1. sender'[w].batch = sender[w].batch
    OBVIOUS
  <2> QED
    BY <2>1 DEF FirstNote
<1>2. PassInv'
  BY <1>1 DEF PassInv
<1>3. \A w, n : MaySend(w, n)' = MaySend(w, n)
  BY <1>1 DEF MaySend
<1>4. \A n : Holding(n)' = Holding(n) /\ Over(n)' = Over(n)
  BY <1>3 DEF Holding, Over
<1> QED
  BY <1>2, <1>4

LEMMA ActionsKeepIt ==
  ASSUME MailerConstantsOK, MailerIInv, NEW n \in Notes,
         Notify(n) \/ CommitAction(n) \/ RollBackAction(n)
  PROVE  MailerIInv'
<1>0. /\ MailerTypeOK /\ ActionInv /\ PassInv /\ CopiesInv
      /\ NobodyHearsOfARollback /\ StatusTellsTheAttempts
      /\ action \in [Notes -> {"none", "open", "committed"}]
      /\ status \in [Notes -> {"none", "PENDING", "SENT", "FAILED"}]
      /\ copies \in [Notes -> Nat] /\ mailFaults \in Nat
  BY DEF MailerIInv, MailerTypeOK
<1>1. /\ UNCHANGED <<channels, removed, sender, copies, logs, quiet, mailFaults, edits>>
      /\ action[n] # "committed"
      /\ \/ action' = [action EXCEPT ![n] = "open"]
              /\ status' = [status EXCEPT ![n] = "PENDING"]
         \/ action' = [action EXCEPT ![n] = "committed"] /\ status' = status
              /\ action[n] = "open"
         \/ action' = [action EXCEPT ![n] = "none"]
              /\ status' = [status EXCEPT ![n] = "none"]
  BY DEF Notify, CommitAction, RollBackAction, ActionsOnly
<1>2. MailerTypeOK'
  BY <1>0, <1>1 DEF MailerTypeOK
<1>3. ActionInv'
  <2>1. \A w \in Senders : n \notin sender[w].batch
    BY <1>0, <1>1 DEF ActionInv
  <2>2. \A w \in Senders : sender[w].batch \subseteq Notes
    BY <1>0 DEF MailerTypeOK
  <2>3. \A m \in Notes : action'[m] = "none" => status'[m] = "none"
    BY <1>0, <1>1 DEF ActionInv
  <2>4. \A w \in Senders : \A m \in sender'[w].batch : action'[m] = "committed"
    BY <1>0, <1>1, <2>1, <2>2 DEF ActionInv
  <2> QED
    BY <2>3, <2>4 DEF ActionInv
<1>4. NobodyHearsOfARollback'
  BY <1>0, <1>1 DEF NobodyHearsOfARollback
<1>5. StatusTellsTheAttempts'
  BY <1>0, <1>1 DEF StatusTellsTheAttempts
<1>6. PassInv'
  BY <1>0, <1>1, PassesUnmoved
<1>7. CopiesInv'
  <2> SUFFICES ASSUME NEW m \in Notes
               PROVE  copies'[m] <= Cardinality(Paying(m)') + mailFaults'
    BY DEF CopiesInv, Paying
  <2>1. CASE m = n
    <3>1. copies[n] = 0
      BY <1>0, <1>1 DEF NobodyHearsOfARollback
    <3> QED
      BY <1>0, <1>1, <2>1, <3>1, PayersAreFinite
  <2>2. CASE m # n
    <3>1. status'[m] = status[m]
      BY <1>0, <1>1, <2>2
    <3>2. Paying(m)' = Paying(m)
      BY <1>0, <1>1, <3>1, PassesUnmoved DEF Paying
    <3> QED
      BY <1>0, <1>1, <3>2 DEF CopiesInv
  <2> QED
    BY <2>1, <2>2
<1> QED
  BY <1>2, <1>3, <1>4, <1>5, <1>6, <1>7 DEF MailerIInv

LEMMA SettingsKeepIt ==
  ASSUME MailerConstantsOK, MailerIInv, SetChannels \/ RemoveRecipient \/ UNCHANGED mailerVars
  PROVE  MailerIInv'
<1>1. UNCHANGED <<action, status, sender, copies, logs, quiet, mailFaults>>
  BY DEF SetChannels, RemoveRecipient, mailerVars
<1>2. channels' \subseteq Channels /\ edits' \in Nat
  BY DEF MailerIInv, MailerTypeOK, SetChannels, RemoveRecipient, mailerVars
<1>r. removed' \in BOOLEAN
  <2>1. removed \in BOOLEAN
    BY DEF MailerIInv, MailerTypeOK
  <2> QED
    BY <2>1 DEF SetChannels, RemoveRecipient, mailerVars
<1>t. MailerTypeOK'
  BY <1>1, <1>2, <1>r DEF MailerIInv, MailerTypeOK
<1>3. ActionInv' /\ NobodyHearsOfARollback' /\ StatusTellsTheAttempts'
  BY <1>1 DEF MailerIInv, ActionInv, NobodyHearsOfARollback, StatusTellsTheAttempts
<1>4. PassInv'
  BY <1>1, PassesUnmoved DEF MailerIInv
<1>5. \A n : Paying(n)' = Paying(n)
  BY <1>1, PassesUnmoved DEF MailerIInv, Paying
<1>6. CopiesInv'
  BY <1>1, <1>5 DEF MailerIInv, CopiesInv
<1> QED
  BY <1>t, <1>3, <1>4, <1>6 DEF MailerIInv

-----------------------------------------------------------------------------
(* A pass                                                                  *)

\* The step of one worker: its record becomes `new`, and no other's changes.
Becomes(w, new) ==
    /\ sender' = [sender EXCEPT ![w] = new]
    /\ WorkersOnly

PassOf(w) ==
    /\ sender[w].at = "idle" <=> sender[w].batch = {}
    /\ sender[w].at = "attempt" => sender[w].todo # {}
    /\ sender[w].at = "log" =>
         /\ "EMAIL" \in sender[w].todo => sender[w].tried = "EMAIL"
         /\ sender[w].outcome = "SENT" => copies[FirstNote(w)] > 0
         /\ sender[w].outcome # "none"
    /\ sender[w].at \in {"attempt", "log", "mark"} /\ ~sender[w].worked =>
         <<FirstNote(w), "FAILED">> \in logs
    /\ sender[w].at = "mark" /\ sender[w].worked =>
         copies[FirstNote(w)] > 0 \/ FirstNote(w) \in quiet

\* What all steps of a worker have in common: the others stay as they are,
\* while copies, logs and quiet only grow.
LEMMA OfOneWorker ==
  ASSUME MailerConstantsOK, MailerIInv, NEW w \in Senders, NEW new \in PassType,
         Becomes(w, new),
         \A n \in new.batch : action[n] = "committed",
         copies' \in [Notes -> Nat], \A n \in Notes : copies[n] <= copies'[n],
         logs' \subseteq (Notes \X {"SENT", "FAILED"}), logs \subseteq logs',
         quiet' \subseteq Notes, quiet \subseteq quiet',
         status' \in [Notes -> {"none", "PENDING", "SENT", "FAILED"}],
         \A n \in Notes : action[n] = "none" => status'[n] = "none",
         mailFaults' \in Nat, PassOf(w)'
  PROVE  MailerTypeOK' /\ ActionInv' /\ PassInv'
<1>0. /\ MailerTypeOK /\ ActionInv /\ PassInv /\ sender \in [Senders -> PassType]
      /\ copies \in [Notes -> Nat]
  BY DEF MailerIInv, MailerTypeOK, PassType
<1>1. sender' \in [Senders -> PassType]
  BY <1>0 DEF Becomes
<1>2. MailerTypeOK'
  BY <1>0, <1>1 DEF MailerTypeOK, PassType, Becomes, WorkersOnly
<1>3. ASSUME NEW v \in Senders, v # w
      PROVE  sender'[v] = sender[v] /\ FirstNote(v)' = FirstNote(v)
  <2>1. sender'[v] = sender[v]
    BY <1>0, <1>3 DEF Becomes
  <2> QED
    BY <2>1 DEF FirstNote
<1>4. sender'[w] = new
  BY <1>0 DEF Becomes
<1>5. ActionInv'
  <2>1. action' = action
    BY DEF Becomes, WorkersOnly
  <2>2. \A v \in Senders : \A n \in sender'[v].batch : action'[n] = "committed"
    BY <1>0, <1>3, <1>4, <2>1 DEF ActionInv
  <2> QED
    BY <2>1, <2>2 DEF ActionInv
<1>6. PassInv'
  <2>1. ASSUME NEW v \in Senders, v # w PROVE PassOf(v)'
    <3>1. PassOf(v)
      BY <1>0 DEF PassInv, PassOf
    <3>2. sender[v].at # "idle" => FirstNote(v) \in Notes
      BY <1>0, FirstNoteIsOfTheBatch
    <3>3. sender[v].at # "idle" =>
             copies[FirstNote(v)] \in Nat /\ copies'[FirstNote(v)] \in Nat
                                   /\ copies[FirstNote(v)] <= copies'[FirstNote(v)]
      BY <1>0, <3>2
    <3> QED
      BY <1>3, <2>1, <3>1, <3>3 DEF PassOf
  <2>2. \A v \in Senders : PassOf(v)'
    BY <2>1
  <2> QED
    BY <2>2 DEF PassInv, PassOf
<1> QED
  BY <1>2, <1>5, <1>6

\* Who pays is judged worker by worker.
LEMMA OthersPayAsBefore ==
  ASSUME MailerIInv, NEW w \in Senders, NEW new \in PassType, Becomes(w, new), NEW n,
         NEW v \in Senders, v # w
  PROVE  /\ v \in Holding(n)' <=> v \in Holding(n)
         /\ v \in Over(n)' <=> v \in Over(n)
<1>1. sender'[v] = sender[v]
  BY DEF MailerIInv, MailerTypeOK, Becomes
<1>2. FirstNote(v)' = FirstNote(v)
  BY <1>1 DEF FirstNote
<1>3. MaySend(v, n)' <=> MaySend(v, n)
  BY <1>1, <1>2 DEF MaySend
<1> QED
  BY <1>1, <1>3 DEF Holding, Over

\* Nobody stops paying when the worker itself does not, and no copy is made.
LEMMA StillPaid ==
  ASSUME MailerConstantsOK, MailerIInv, NEW w \in Senders, NEW new \in PassType,
         Becomes(w, new),
         copies' = copies, mailFaults' = mailFaults, status' = status,
         \A n \in Notes : w \in Paying(n) => w \in Paying(n)'
  PROVE  CopiesInv'
<1> SUFFICES ASSUME NEW n \in Notes
             PROVE  copies'[n] <= Cardinality(Paying(n)') + mailFaults'
  BY DEF CopiesInv, Paying
<1>1. copies \in [Notes -> Nat] /\ mailFaults \in Nat /\ CopiesInv
  BY DEF MailerIInv, MailerTypeOK
<1>2. \A v \in Senders : v # w => (v \in Holding(n)' <=> v \in Holding(n))
                               /\ (v \in Over(n)' <=> v \in Over(n))
  BY OthersPayAsBefore
<1>3. /\ Paying(n) \subseteq Senders
      /\ \A v \in Senders : v # w => (v \in Paying(n)' <=> v \in Paying(n))
  BY <1>2 DEF Paying, Holding, Over
<1>4. Paying(n) \subseteq Paying(n)'
  BY <1>3
<1> QED
  BY <1>1, <1>4, NobodyStopsPaying DEF CopiesInv

\* The records a step builds.
Taken(B, a) == [Asleep EXCEPT !.at = "channels", !.batch = B, !.addressed = a]
Logged(p, at, t, b) == [p EXCEPT !.at = at, !.todo = t, !.tried = "none",
                                 !.outcome = "none", !.worked = b]

LEMMA TakenPass ==
  ASSUME NEW B \in SUBSET Notes, NEW a \in BOOLEAN
  PROVE  /\ Taken(B, a) \in PassType
         /\ Taken(B, a).at = "channels" /\ Taken(B, a).batch = B
<1>1. Asleep \in PassType
  BY DEF Asleep, PassType
<1> QED
  BY <1>1 DEF Taken, PassType

LEMMA LoggedPass ==
  ASSUME NEW p \in PassType, NEW at \in {"mark", "attempt"}, NEW t \in SUBSET Channels,
         NEW b \in BOOLEAN
  PROVE  /\ Logged(p, at, t, b) \in PassType
         /\ Logged(p, at, t, b).at = at /\ Logged(p, at, t, b).todo = t
         /\ Logged(p, at, t, b).batch = p.batch /\ Logged(p, at, t, b).worked = b
BY DEF PassType, Logged

LEMMA TakingKeepsIt ==
  ASSUME MailerConstantsOK, MailerIInv, NEW w \in Senders, TakeDeliveries(w)
  PROVE  MailerIInv'
<1>0. /\ MailerTypeOK /\ PassInv /\ ActionInv /\ sender \in [Senders -> PassType]
      /\ status \in [Notes -> {"none", "PENDING", "SENT", "FAILED"}]
      /\ action \in [Notes -> {"none", "open", "committed"}]
      /\ copies \in [Notes -> Nat] /\ mailFaults \in Nat /\ removed \in BOOLEAN
  BY DEF MailerIInv, MailerTypeOK, PassType
<1> DEFINE B == OldestNotes(PendingDeliveries)
           new == Taken(B, ~removed)
<1>1. /\ sender' = [sender EXCEPT ![w] = new] /\ sender[w].at = "idle"
      /\ PendingDeliveries # {}
      /\ WorkersOnly /\ UNCHANGED <<status, copies, logs, quiet, mailFaults>>
  BY DEF TakeDeliveries, Taken
<1>2. /\ B \subseteq PendingDeliveries /\ PendingDeliveries \subseteq Notes
      /\ \A n \in PendingDeliveries : status[n] = "PENDING" /\ action[n] # "open"
  BY DEF OldestNotes, PendingDeliveries, Visible
<1>3. B # {}
  <2>1. PendingDeliveries \subseteq Nat
    BY <1>2 DEF MailerConstantsOK
  <2>2. PICK m \in PendingDeliveries : \A n \in PendingDeliveries : m <= n
    BY <1>1, <2>1, LeastExists
  <2>3. {n \in PendingDeliveries : n < m} = {}
    <3>1. \A n \in PendingDeliveries : n \in Nat /\ m \in Nat /\ m <= n
      BY <2>1, <2>2
    <3>2. \A n \in PendingDeliveries : ~ (n < m)
      BY <3>1
    <3> QED
      BY <3>2
  <2>4. Cardinality({n \in PendingDeliveries : n < m}) < MailBatch
    BY <2>3, FS_EmptySet DEF MailerConstantsOK
  <2> QED
    BY <2>4 DEF OldestNotes
<1>4. \A n \in B : action[n] = "committed"
  BY <1>0, <1>2 DEF ActionInv
<1>5. new \in PassType /\ new.at = "channels" /\ new.batch = B
  <2> DEFINE a == ~removed
  <2>1. B \in SUBSET Notes /\ a \in BOOLEAN
    BY <1>2
  <2> HIDE DEF B, a
  <2> QED
    BY <2>1, TakenPass
<1> HIDE DEF new
<1>6. Becomes(w, new)
  BY <1>1 DEF Becomes
<1>7. sender'[w] = new
  BY <1>0, <1>1
<1>8. PassOf(w)'
  BY <1>3, <1>5, <1>7 DEF PassOf
<1>9. MailerTypeOK' /\ ActionInv' /\ PassInv'
  <2>1. \A n \in Notes : copies[n] <= copies'[n]
    BY <1>0, <1>1
  <2>2. \A n \in Notes : action[n] = "none" => status'[n] = "none"
    BY <1>0, <1>1 DEF ActionInv
  <2>3. logs' \subseteq (Notes \X {"SENT", "FAILED"}) /\ logs \subseteq logs'
        /\ quiet' \subseteq Notes /\ quiet \subseteq quiet'
    BY <1>0, <1>1 DEF MailerTypeOK
  <2> HIDE DEF B
  <2> QED
    BY <1>0, <1>1, <1>4, <1>5, <1>6, <1>8, <2>1, <2>2, <2>3, OfOneWorker
<1>10. CopiesInv'
  <2> SUFFICES ASSUME NEW n \in Notes, w \in Paying(n) PROVE w \in Paying(n)'
    BY <1>1, <1>5, <1>6, StillPaid
  <2>1. sender[w].batch = {}
    BY <1>0, <1>1 DEF PassInv
  <2>2. status[n] # "PENDING"
    BY <2>1 DEF Paying, Holding
  <2>3. n \notin sender'[w].batch
    BY <1>2, <1>5, <1>7, <2>2
  <2> QED
    BY <1>1, <2>2, <2>3 DEF Paying, Over, MaySend
<1>11. NobodyHearsOfARollback' /\ StatusTellsTheAttempts'
  BY <1>1 DEF MailerIInv, NobodyHearsOfARollback, StatusTellsTheAttempts, WorkersOnly
<1> QED
  BY <1>9, <1>10, <1>11 DEF MailerIInv

LEMMA ReadingKeepsIt ==
  ASSUME MailerConstantsOK, MailerIInv, NEW w \in Senders, ReadChannels(w)
  PROVE  MailerIInv'
<1>0. /\ MailerTypeOK /\ PassInv /\ ActionInv /\ sender \in [Senders -> PassType]
      /\ status \in [Notes -> {"none", "PENDING", "SENT", "FAILED"}]
      /\ copies \in [Notes -> Nat] /\ mailFaults \in Nat /\ channels \subseteq Channels
      /\ quiet \subseteq Notes
  BY DEF MailerIInv, MailerTypeOK, PassType
<1> DEFINE at == IF channels = {} THEN "mark" ELSE "attempt"
           new == [sender[w] EXCEPT !.at = at, !.todo = channels, !.worked = TRUE]
<1>1. /\ sender[w].at = "channels"
      /\ quiet' = IF channels = {} THEN quiet \cup {FirstNote(w)} ELSE quiet
      /\ WorkersOnly /\ UNCHANGED <<status, copies, logs, mailFaults>>
  BY DEF ReadChannels
<1>2. sender' = [sender EXCEPT ![w] = new]
  BY <1>0 DEF ReadChannels, PassType
<1>3. /\ new \in PassType /\ new.at = at /\ new.todo = channels /\ new.worked = TRUE
      /\ new.batch = sender[w].batch
  <2>1. sender[w] \in PassType
    BY <1>0
  <2> QED
    BY <1>0, <2>1 DEF PassType
<1> HIDE DEF new
<1>4. Becomes(w, new)
  BY <1>1, <1>2 DEF Becomes
<1>5. sender'[w] = new
  BY <1>0, <1>2
<1>6. FirstNote(w)' = FirstNote(w)
  BY <1>3, <1>5 DEF FirstNote
<1>7. FirstNote(w) \in sender[w].batch /\ FirstNote(w) \in Notes
  BY <1>0, <1>1, FirstNoteIsOfTheBatch
<1>8. PassOf(w)'
  BY <1>1, <1>3, <1>5, <1>6, <1>7 DEF PassOf
<1>9. MailerTypeOK' /\ ActionInv' /\ PassInv'
  <2>1. \A n \in Notes : copies[n] <= copies'[n]
    BY <1>0, <1>1
  <2>2. \A n \in Notes : action[n] = "none" => status'[n] = "none"
    BY <1>0, <1>1 DEF ActionInv
  <2>3. logs' \subseteq (Notes \X {"SENT", "FAILED"}) /\ logs \subseteq logs'
    BY <1>0, <1>1 DEF MailerTypeOK
  <2>4. quiet' \subseteq Notes /\ quiet \subseteq quiet'
    BY <1>0, <1>1, <1>7
  <2>5. \A n \in new.batch : action[n] = "committed"
    BY <1>0, <1>3 DEF ActionInv
  <2> QED
    BY <1>0, <1>1, <1>3, <1>4, <1>8, <2>1, <2>2, <2>3, <2>4, <2>5, OfOneWorker
<1>10. CopiesInv'
  <2> SUFFICES ASSUME NEW n \in Notes, w \in Paying(n) PROVE w \in Paying(n)'
    BY <1>1, <1>3, <1>4, StillPaid
  <2>1. ~ MaySend(w, n)
    BY DEF Paying, Holding, Over
  <2>2. n \notin sender[w].batch
    BY <1>1, <2>1 DEF MaySend
  <2>3. status[n] # "PENDING"
    BY <2>2 DEF Paying, Holding
  <2> QED
    BY <1>1, <1>3, <1>5, <2>2, <2>3 DEF Paying, Over, MaySend
<1>11. NobodyHearsOfARollback' /\ StatusTellsTheAttempts'
  BY <1>1 DEF MailerIInv, NobodyHearsOfARollback, StatusTellsTheAttempts, WorkersOnly
<1> QED
  BY <1>9, <1>10, <1>11 DEF MailerIInv

LEMMA AttemptingKeepsIt ==
  ASSUME MailerConstantsOK, MailerIInv, NEW w \in Senders, Attempt(w)
  PROVE  MailerIInv'
<1>0. /\ MailerTypeOK /\ PassInv /\ ActionInv /\ sender \in [Senders -> PassType]
      /\ status \in [Notes -> {"none", "PENDING", "SENT", "FAILED"}]
      /\ copies \in [Notes -> Nat] /\ mailFaults \in Nat
      /\ sender[w] \in PassType
  BY DEF MailerIInv, MailerTypeOK, PassType
<1> DEFINE c == NextChannel(sender[w].todo)
           f == FirstNote(w)
<1>1. sender[w].at = "attempt" /\ WorkersOnly /\ UNCHANGED <<status, logs, quiet, mailFaults>>
  BY DEF Attempt
<1>2. f \in sender[w].batch /\ f \in Notes
  BY <1>0, <1>1, FirstNoteIsOfTheBatch
<1>3. c \in sender[w].todo /\ ("EMAIL" \in sender[w].todo => c = "EMAIL")
  <2>1. sender[w].todo # {}
    BY <1>0, <1>1 DEF PassInv
  <2> QED
    BY <2>1 DEF NextChannel
<1> HIDE DEF c, f
<1>4. PICK taken \in BOOLEAN, ok \in BOOLEAN :
        /\ taken => c = "EMAIL"
        /\ ok => taken
        /\ copies' = [copies EXCEPT ![f] = IF taken THEN @ + 1 ELSE @]
        /\ sender' = [sender EXCEPT ![w].at = "log", ![w].tried = c,
                        ![w].outcome = IF ok THEN "SENT" ELSE "FAILED"]
  BY DEF Attempt, c, f
<1> DEFINE new == [sender[w] EXCEPT !.at = "log", !.tried = c,
                                    !.outcome = IF ok THEN "SENT" ELSE "FAILED"]
<1>5. sender' = [sender EXCEPT ![w] = new]
  BY <1>0, <1>4 DEF PassType
<1>6. /\ new \in PassType /\ new.at = "log" /\ new.tried = c
      /\ new.todo = sender[w].todo /\ new.batch = sender[w].batch
      /\ new.worked = sender[w].worked
      /\ new.outcome = IF ok THEN "SENT" ELSE "FAILED"
  <2>1. c \in Channels
    BY <1>0, <1>3 DEF PassType
  <2> QED
    BY <1>0, <2>1 DEF PassType
<1> HIDE DEF new
<1>7. Becomes(w, new)
  BY <1>1, <1>5 DEF Becomes
<1>8. sender'[w] = new
  BY <1>0, <1>5
<1>9. FirstNote(w)' = f
  BY <1>6, <1>8 DEF FirstNote, f
<1>10. /\ copies' \in [Notes -> Nat] /\ \A n \in Notes : copies[n] <= copies'[n]
       /\ copies'[f] = IF taken THEN copies[f] + 1 ELSE copies[f]
       /\ \A n \in Notes : n # f => copies'[n] = copies[n]
  BY <1>0, <1>2, <1>4
<1>11. PassOf(w)'
  <2>1. ok => copies'[f] > 0
    BY <1>0, <1>2, <1>4, <1>10
  <2>2. ~new.worked => <<f, "FAILED">> \in logs'
    BY <1>0, <1>1, <1>6 DEF PassInv, f
  <2> QED
    BY <1>2, <1>3, <1>6, <1>8, <1>9, <2>1, <2>2 DEF PassOf
<1>12. MailerTypeOK' /\ ActionInv' /\ PassInv'
  <2>2. \A n \in Notes : action[n] = "none" => status'[n] = "none"
    BY <1>0, <1>1 DEF ActionInv
  <2>3. /\ logs' \subseteq (Notes \X {"SENT", "FAILED"}) /\ logs \subseteq logs'
        /\ quiet' \subseteq Notes /\ quiet \subseteq quiet'
    BY <1>0, <1>1 DEF MailerTypeOK
  <2>5. \A n \in new.batch : action[n] = "committed"
    BY <1>0, <1>6 DEF ActionInv
  <2> QED
    BY <1>0, <1>1, <1>6, <1>7, <1>10, <1>11, <2>2, <2>3, <2>5, OfOneWorker
<1>13. CopiesInv'
  <2> SUFFICES ASSUME NEW n \in Notes
               PROVE  copies'[n] <= Cardinality(Paying(n)') + mailFaults'
    BY DEF CopiesInv, Paying
  <2>0. copies[n] <= Cardinality(Paying(n)) + mailFaults
    BY DEF MailerIInv, CopiesInv
  <2>1. \A v \in Senders : v # w => (v \in Holding(n)' <=> v \in Holding(n))
                                 /\ (v \in Over(n)' <=> v \in Over(n))
    BY <1>6, <1>7, OthersPayAsBefore
  <2>2. /\ Paying(n) \subseteq Senders
        /\ \A v \in Senders : v # w => (v \in Paying(n)' <=> v \in Paying(n))
    BY <1>1, <2>1 DEF Paying, Holding, Over
  <2>3. w \in Paying(n) => w \in Paying(n)'
    <3>1. MaySend(w, n)' => MaySend(w, n)
      BY <1>1, <1>6, <1>8, <1>9 DEF MaySend, f
    <3> QED
      BY <1>1, <1>6, <1>8, <3>1 DEF Paying, Holding, Over
  <2>4. Paying(n) \subseteq Paying(n)'
    BY <2>2, <2>3
  <2>5. CASE n = f /\ taken
    <3>1. MaySend(w, f)
      BY <1>1, <1>2, <1>3, <1>4, <2>5 DEF MaySend, f, c
    <3>2. ~ MaySend(w, n)'
      BY <1>6, <1>8, <1>9, <2>5 DEF MaySend
    <3>3. w \notin Paying(n)
      BY <2>5, <3>1 DEF Paying, Holding, Over
    <3>4. w \in Paying(n)'
      BY <1>2, <1>6, <1>8, <2>5, <3>2 DEF Paying, Holding, Over
    <3>5. copies'[n] = copies[n] + 1
      BY <1>10, <2>5
    <3> QED
      BY <1>0, <1>1, <1>10, <2>0, <2>4, <3>3, <3>4, <3>5, OneMorePays
  <2>6. CASE ~ (n = f /\ taken)
    <3>1. copies'[n] = copies[n]
      BY <1>10, <2>6
    <3> QED
      BY <1>0, <1>1, <2>0, <2>4, <3>1, NobodyStopsPaying
  <2> QED
    BY <2>5, <2>6
<1>14. NobodyHearsOfARollback'
  <2>1. action[f] = "committed" /\ action' = action
    BY <1>0, <1>1, <1>2 DEF ActionInv, WorkersOnly
  <2> QED
    BY <1>10, <2>1 DEF MailerIInv, NobodyHearsOfARollback
<1>15. StatusTellsTheAttempts'
  <2>1. \A n \in Notes : copies[n] > 0 => copies'[n] > 0
    BY <1>0, <1>10
  <2> QED
    BY <1>1, <2>1 DEF MailerIInv, StatusTellsTheAttempts
<1> QED
  BY <1>12, <1>13, <1>14, <1>15 DEF MailerIInv

LEMMA LoggingKeepsIt ==
  ASSUME MailerConstantsOK, MailerIInv, NEW w \in Senders, RecordAttempt(w)
  PROVE  MailerIInv'
<1>0. /\ MailerTypeOK /\ PassInv /\ ActionInv /\ sender \in [Senders -> PassType]
      /\ status \in [Notes -> {"none", "PENDING", "SENT", "FAILED"}]
      /\ copies \in [Notes -> Nat] /\ mailFaults \in Nat
      /\ sender[w] \in PassType
  BY DEF MailerIInv, MailerTypeOK, PassType
<1> DEFINE rest == sender[w].todo \ {sender[w].tried}
           at == IF rest = {} THEN "mark" ELSE "attempt"
           worked == sender[w].worked /\ sender[w].outcome = "SENT"
           new == Logged(sender[w], at, rest, worked)
           f == FirstNote(w)
<1>1. /\ sender[w].at = "log" /\ WorkersOnly /\ UNCHANGED <<status, copies, quiet, mailFaults>>
      /\ logs' = logs \cup {<<f, sender[w].outcome>>}
  BY DEF RecordAttempt
<1>2. f \in sender[w].batch /\ f \in Notes
  BY <1>0, <1>1, FirstNoteIsOfTheBatch
<1>3. sender[w].outcome \in {"SENT", "FAILED"}
  BY <1>0, <1>1 DEF PassInv, PassType
<1>4. sender' = [sender EXCEPT ![w] = new]
  BY <1>0 DEF RecordAttempt, PassType, Logged
<1>5. /\ new \in PassType /\ new.at = at /\ new.todo = rest
      /\ new.batch = sender[w].batch /\ new.worked = worked
  <2>1. rest \in SUBSET Channels
    BY <1>0 DEF PassType
  <2>2. worked \in BOOLEAN /\ at \in {"mark", "attempt"}
    OBVIOUS
  <2> HIDE DEF rest, worked, at
  <2> QED
    BY <1>0, <2>1, <2>2, LoggedPass
<1>6. new.worked = worked
  BY <1>5
<1> HIDE DEF new
<1>7. Becomes(w, new)
  BY <1>1, <1>4 DEF Becomes
<1>8. sender'[w] = new
  BY <1>0, <1>4
<1>9. FirstNote(w)' = f
  BY <1>5, <1>8 DEF FirstNote
<1>10. PassOf(w)'
  <2>1. worked => copies'[f] > 0
    BY <1>0, <1>1 DEF PassInv
  <2>2. ~worked => <<f, "FAILED">> \in logs'
    BY <1>0, <1>1, <1>3 DEF PassInv
  <2>3. new.at = "attempt" => new.todo # {}
    BY <1>5
  <2>4. new.at \in {"mark", "attempt"} /\ new.batch # {}
    BY <1>2, <1>5
  <2> HIDE DEF worked, f, rest, at
  <2> QED
    BY <1>6, <1>8, <1>9, <2>1, <2>2, <2>3, <2>4 DEF PassOf
<1>11. MailerTypeOK' /\ ActionInv' /\ PassInv'
  <2>1. \A n \in Notes : copies[n] <= copies'[n]
    BY <1>0, <1>1
  <2>2. \A n \in Notes : action[n] = "none" => status'[n] = "none"
    BY <1>0, <1>1 DEF ActionInv
  <2>3. logs' \subseteq (Notes \X {"SENT", "FAILED"}) /\ logs \subseteq logs'
    BY <1>0, <1>1, <1>2, <1>3 DEF MailerTypeOK
  <2>4. quiet' \subseteq Notes /\ quiet \subseteq quiet'
    BY <1>0, <1>1 DEF MailerTypeOK
  <2>5. \A n \in new.batch : action[n] = "committed"
    BY <1>0, <1>5 DEF ActionInv
  <2> HIDE DEF f
  <2> QED
    BY <1>0, <1>1, <1>5, <1>7, <1>10, <2>1, <2>2, <2>3, <2>4, <2>5, OfOneWorker
<1>12. CopiesInv'
  <2> SUFFICES ASSUME NEW n \in Notes, w \in Paying(n) PROVE w \in Paying(n)'
    BY <1>1, <1>5, <1>7, StillPaid
  <2>1. ~ MaySend(w, n)
    BY DEF Paying, Holding, Over
  <2>2. "EMAIL" \notin rest
    BY <1>0, <1>1 DEF PassInv
  <2>3. ~ MaySend(w, n)'
    BY <1>1, <1>5, <1>8, <1>9, <2>1, <2>2 DEF MaySend
  <2> QED
    BY <1>1, <1>5, <1>8, <2>3 DEF Paying, Holding, Over
<1>13. NobodyHearsOfARollback' /\ StatusTellsTheAttempts'
  BY <1>1 DEF MailerIInv, NobodyHearsOfARollback, StatusTellsTheAttempts, WorkersOnly
<1> QED
  BY <1>11, <1>12, <1>13 DEF MailerIInv

\* On to the next of the batch, or to sleep.
LEMMA NextOfTheBatch ==
  ASSUME MailerConstantsOK, MailerIInv, NEW w \in Senders, sender[w].at = "mark"
  PROVE  \E new \in PassType :
           /\ NextNote(w) = [sender EXCEPT ![w] = new]
           /\ new.batch = sender[w].batch \ {FirstNote(w)}
           /\ \/ new.at = "channels" /\ new.batch # {}
              \/ new.at = "idle" /\ new.batch = {}
<1> DEFINE rest == sender[w].batch \ {FirstNote(w)}
           more == Taken(rest, sender[w].addressed)
<1>1. sender[w] \in PassType /\ sender[w].addressed \in BOOLEAN /\ rest \in SUBSET Notes
  BY DEF MailerIInv, MailerTypeOK, PassType
<1>2. more \in PassType /\ more.at = "channels" /\ more.batch = rest
  <2> HIDE DEF rest
  <2> QED
    BY <1>1, TakenPass
<1>3. Asleep \in PassType /\ Asleep.at = "idle" /\ Asleep.batch = {}
  BY DEF Asleep, PassType
<1>4. NextNote(w) = [sender EXCEPT ![w] = IF rest = {} THEN Asleep ELSE more]
  BY DEF NextNote, Taken
<1> HIDE DEF more, rest
<1>5. CASE rest = {}
  BY <1>3, <1>4, <1>5 DEF rest
<1>6. CASE rest # {}
  BY <1>2, <1>4, <1>6 DEF rest
<1> QED
  BY <1>5, <1>6

LEMMA MarkingKeepsIt ==
  ASSUME MailerConstantsOK, MailerIInv, NEW w \in Senders, MarkDelivered(w)
  PROVE  MailerIInv'
<1>0. /\ MailerTypeOK /\ PassInv /\ ActionInv /\ sender \in [Senders -> PassType]
      /\ status \in [Notes -> {"none", "PENDING", "SENT", "FAILED"}]
      /\ copies \in [Notes -> Nat] /\ mailFaults \in Nat
      /\ CopiesInv /\ StatusTellsTheAttempts
  BY DEF MailerIInv, MailerTypeOK, PassType
<1> DEFINE f == FirstNote(w)
           s == IF status[f] # "PENDING" THEN status[f]
                ELSE IF sender[w].worked THEN "SENT" ELSE "FAILED"
<1>1. /\ sender[w].at = "mark" /\ WorkersOnly /\ UNCHANGED <<copies, logs, quiet, mailFaults>>
      /\ status' = [status EXCEPT ![f] = s]
      /\ sender' = NextNote(w)
  BY DEF MarkDelivered
<1>2. f \in sender[w].batch /\ f \in Notes
  BY <1>0, <1>1, FirstNoteIsOfTheBatch
<1>3. PICK new \in PassType :
        /\ sender' = [sender EXCEPT ![w] = new]
        /\ new.batch = sender[w].batch \ {f}
        /\ \/ new.at = "channels" /\ new.batch # {}
           \/ new.at = "idle" /\ new.batch = {}
  BY <1>1, NextOfTheBatch
<1>4. /\ s \in {"none", "PENDING", "SENT", "FAILED"} /\ s # "PENDING"
      /\ s = "SENT" => copies[f] > 0 \/ f \in quiet
      /\ s = "FAILED" => <<f, "FAILED">> \in logs
  <2>1. CASE status[f] # "PENDING"
    BY <1>0, <1>2, <2>1 DEF StatusTellsTheAttempts
  <2>2. CASE status[f] = "PENDING" /\ sender[w].worked
    <3>1. s = "SENT"
      BY <2>2
    <3>2. copies[f] > 0 \/ f \in quiet
      BY <1>0, <1>1, <2>2 DEF PassInv
    <3> HIDE DEF s
    <3> QED
      BY <3>1, <3>2
  <2>3. CASE status[f] = "PENDING" /\ ~sender[w].worked
    <3>1. s = "FAILED"
      BY <2>3
    <3>2. <<f, "FAILED">> \in logs
      BY <1>0, <1>1, <2>3 DEF PassInv
    <3> HIDE DEF s
    <3> QED
      BY <3>1, <3>2
  <2> QED
    BY <2>1, <2>2, <2>3
<1>a. action[f] = "committed" /\ action' = action
  BY <1>0, <1>1, <1>2 DEF ActionInv, WorkersOnly
<1> HIDE DEF s, f
<1>5. /\ status' \in [Notes -> {"none", "PENDING", "SENT", "FAILED"}]
      /\ status'[f] = s /\ \A n \in Notes : n # f => status'[n] = status[n]
  BY <1>0, <1>1, <1>2, <1>4
<1>6. Becomes(w, new)
  BY <1>1, <1>3 DEF Becomes
<1>7. sender'[w] = new
  BY <1>0, <1>3
<1>8. PassOf(w)'
  BY <1>3, <1>7 DEF PassOf
<1>9. MailerTypeOK' /\ ActionInv' /\ PassInv'
  <2>1. \A n \in Notes : copies[n] <= copies'[n] /\ copies' \in [Notes -> Nat]
    BY <1>0, <1>1
  <2>2. \A n \in Notes : action[n] = "none" => status'[n] = "none"
    BY <1>0, <1>5, <1>a DEF ActionInv
  <2>3. /\ logs' \subseteq (Notes \X {"SENT", "FAILED"}) /\ logs \subseteq logs'
        /\ quiet' \subseteq Notes /\ quiet \subseteq quiet'
    BY <1>0, <1>1 DEF MailerTypeOK
  <2>4. \A n \in new.batch : action[n] = "committed"
    BY <1>0, <1>3 DEF ActionInv
  <2> QED
    BY <1>0, <1>1, <1>5, <1>6, <1>8, <2>1, <2>2, <2>3, <2>4, OfOneWorker
<1>10. CopiesInv'
  <2> SUFFICES ASSUME NEW n \in Notes
               PROVE  copies'[n] <= Cardinality(Paying(n)') + mailFaults'
    BY DEF CopiesInv, Paying
  <2>1. \A v \in Senders : v # w => (v \in Holding(n)' <=> v \in Holding(n))
                                 /\ (v \in Over(n)' <=> v \in Over(n))
    BY <1>6, OthersPayAsBefore
  <2>2. MaySend(w, n)' => MaySend(w, n)
    BY <1>2, <1>3, <1>7 DEF MaySend, f
  <2>3. Over(n) \subseteq Over(n)' /\ Holding(n) \subseteq Over(n)
    BY <2>1, <2>2 DEF Over, Holding
  <2>4. w \in Holding(n) => n = f \/ w \in Holding(n)'
    BY <1>3, <1>7, <2>2 DEF Holding
  <2>5. Paying(n) \subseteq Paying(n)'
    <3>1. CASE n = f
      <4>1. Paying(n)' = Over(n)'
        BY <1>4, <1>5, <3>1 DEF Paying
      <4> QED
        BY <2>3, <4>1 DEF Paying
    <3>2. CASE n # f
      <4>1. status'[n] = status[n]
        BY <1>5, <3>2
      <4>2. Holding(n) \subseteq Holding(n)'
        BY <2>1, <2>4, <3>2 DEF Holding
      <4> QED
        BY <2>3, <4>1, <4>2 DEF Paying
    <3> QED
      BY <3>1, <3>2
  <2> QED
    BY <1>0, <1>1, <2>5, NobodyStopsPaying DEF CopiesInv
<1>11. NobodyHearsOfARollback'
  BY <1>1, <1>a DEF MailerIInv, NobodyHearsOfARollback
<1>12. StatusTellsTheAttempts'
  BY <1>0, <1>1, <1>4, <1>5 DEF StatusTellsTheAttempts
<1> QED
  BY <1>9, <1>10, <1>11, <1>12 DEF MailerIInv

LEMMA AbandoningKeepsIt ==
  ASSUME MailerConstantsOK, MailerIInv, NEW w \in Senders, Abandon(w)
  PROVE  MailerIInv'
<1>0. /\ MailerTypeOK /\ PassInv /\ ActionInv /\ sender \in [Senders -> PassType]
      /\ status \in [Notes -> {"none", "PENDING", "SENT", "FAILED"}]
      /\ copies \in [Notes -> Nat] /\ mailFaults \in Nat /\ CopiesInv
  BY DEF MailerIInv, MailerTypeOK, PassType
<1> DEFINE new == Asleep
<1>1. /\ WorkersOnly /\ UNCHANGED <<status, copies, logs, quiet>>
      /\ mailFaults' = mailFaults + 1 /\ sender' = [sender EXCEPT ![w] = new]
  BY DEF Abandon
<1>2. new \in PassType /\ new.at = "idle" /\ new.batch = {}
  BY DEF Asleep, PassType
<1> HIDE DEF new
<1>3. Becomes(w, new)
  BY <1>1 DEF Becomes
<1>4. sender'[w] = new
  BY <1>0, <1>1
<1>5. PassOf(w)'
  BY <1>2, <1>4 DEF PassOf
<1>6. MailerTypeOK' /\ ActionInv' /\ PassInv'
  <2>1. \A n \in Notes : copies[n] <= copies'[n] /\ copies' \in [Notes -> Nat]
    BY <1>0, <1>1
  <2>2. \A n \in Notes : action[n] = "none" => status'[n] = "none"
    BY <1>0, <1>1 DEF ActionInv
  <2>3. /\ logs' \subseteq (Notes \X {"SENT", "FAILED"}) /\ logs \subseteq logs'
        /\ quiet' \subseteq Notes /\ quiet \subseteq quiet'
    BY <1>0, <1>1 DEF MailerTypeOK
  <2>4. \A n \in new.batch : action[n] = "committed"
    BY <1>2
  <2>5. mailFaults' \in Nat
    BY <1>0, <1>1
  <2>6. status' \in [Notes -> {"none", "PENDING", "SENT", "FAILED"}]
    BY <1>0, <1>1
  <2> QED
    BY <1>0, <1>2, <1>3, <1>5, <2>1, <2>2, <2>3, <2>4, <2>5, <2>6, OfOneWorker
<1>7. CopiesInv'
  <2> SUFFICES ASSUME NEW n \in Notes
               PROVE  copies'[n] <= Cardinality(Paying(n)') + mailFaults'
    BY DEF CopiesInv, Paying
  <2>1. \A v \in Senders : v # w => (v \in Holding(n)' <=> v \in Holding(n))
                                 /\ (v \in Over(n)' <=> v \in Over(n))
    BY <1>2, <1>3, OthersPayAsBefore
  <2>2. Paying(n) \ {w} \subseteq Paying(n)'
    BY <1>1, <2>1 DEF Paying, Holding, Over
  <2> QED
    BY <1>0, <1>1, <2>2, AFaultPays DEF CopiesInv
<1>8. NobodyHearsOfARollback' /\ StatusTellsTheAttempts'
  BY <1>1 DEF MailerIInv, NobodyHearsOfARollback, StatusTellsTheAttempts, WorkersOnly
<1> QED
  BY <1>6, <1>7, <1>8 DEF MailerIInv

-----------------------------------------------------------------------------
LEMMA MailerNextInvariant ==
  ASSUME MailerConstantsOK
  PROVE  MailerIInv /\ [MailerNext]_mailerVars => MailerIInv'
<1> SUFFICES ASSUME MailerIInv, [MailerNext]_mailerVars PROVE MailerIInv'
  OBVIOUS
<1>1. CASE \E n \in Notes : Notify(n) \/ CommitAction(n) \/ RollBackAction(n)
  BY <1>1, ActionsKeepIt
<1>2. CASE SetChannels \/ RemoveRecipient \/ UNCHANGED mailerVars
  BY <1>2, SettingsKeepIt
<1>3. CASE \E w \in Senders : Pass(w)
  <2>1. PICK w \in Senders : Pass(w)
    BY <1>3
  <2>2. \/ TakeDeliveries(w) \/ ReadChannels(w) \/ Attempt(w)
        \/ RecordAttempt(w) \/ MarkDelivered(w)
    BY <2>1 DEF Pass
  <2> QED
    BY <2>2, TakingKeepsIt, ReadingKeepsIt, AttemptingKeepsIt, LoggingKeepsIt,
       MarkingKeepsIt
<1>4. CASE \E w \in Senders : Abandon(w)
  BY <1>4, AbandoningKeepsIt
<1> QED
  BY <1>1, <1>2, <1>3, <1>4 DEF MailerNext

\* The strengthened invariant holds in every reachable state of the workers.
THEOREM MailerInvariance == ASSUME MailerConstantsOK PROVE MailerSpec => []MailerIInv
<1>1. MailerInit => MailerIInv
  BY MailerInitInvariant
<1>2. MailerIInv /\ [MailerNext]_mailerVars => MailerIInv'
  BY MailerNextInvariant
<1> QED
  BY <1>1, <1>2, PTL DEF MailerSpec

\* Every variable keeps its type.
THEOREM MailerTypeCorrect == ASSUME MailerConstantsOK PROVE MailerSpec => []MailerTypeOK
<1>1. MailerIInv => MailerTypeOK
  BY DEF MailerIInv
<1> QED
  BY <1>1, MailerInvariance, PTL

\* No email tells of an action that was rolled back (notify), and the status of
\* a row tells what became of its attempts (deliver_one).
THEOREM MailTells == ASSUME MailerConstantsOK PROVE MailerSpec => []MailTellsTheTruth
<1>1. MailerIInv => MailTellsTheTruth
  BY DEF MailerIInv, MailTellsTheTruth
<1> QED
  BY <1>1, MailerInvariance, PTL

\* One copy for each replica, and one for each pass cut short
\* (pending_deliveries, mark_delivered).
THEOREM CopiesAreBounded == ASSUME MailerConstantsOK PROVE MailerSpec => []CopiesArePaidFor
<1>1. MailerIInv => CopiesArePaidFor
  <2> SUFFICES ASSUME MailerIInv, NEW n \in Notes
               PROVE  copies[n] <= Cardinality(Senders) + mailFaults
    BY DEF CopiesArePaidFor
  <2>1. /\ copies[n] \in Nat /\ mailFaults \in Nat
        /\ copies[n] <= Cardinality(Paying(n)) + mailFaults
    BY DEF MailerIInv, MailerTypeOK, CopiesInv
  <2>2. Paying(n) \subseteq Senders
    BY DEF Paying, Holding, Over
  <2>3. IsFiniteSet(Senders)
    BY DEF MailerConstantsOK
  <2>4. Cardinality(Paying(n)) <= Cardinality(Senders)
        /\ Cardinality(Paying(n)) \in Nat /\ Cardinality(Senders) \in Nat
    BY <2>2, <2>3, FS_Subset, FS_CardinalityType
  <2> QED
    BY <2>1, <2>4
<1> QED
  BY <1>1, MailerInvariance, PTL
=============================================================================
