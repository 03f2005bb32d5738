---------------------------- MODULE MarketImport ----------------------------
(***************************************************************************)
(* The import of the exchange's limits file into market_limits: on request *)
(* (src/backend/src/routes/data-import.ts, POST /import/ice) and           *)
(* nightly (src/backend/src/scheduled.ts, importICEData).                  *)
(*                                                                         *)
(*    [record the upload ->] look for the date -> DELETE -> batch INSERT   *)
(*                                              [-> settle the upload]     *)
(*                                                                         *)
(* The rows of one file are kept as one "copy": they are inserted by one   *)
(* batch, which D1 runs as a transaction, and deleted by one statement.    *)
(***************************************************************************)
EXTENDS Naturals, Sequences, FiniteSets

CONSTANTS
  Nightly,      \* the cron triggers that may run importICEData
  Requests,     \* the POST requests served at a time
  MaxDate,      \* bound on the files the exchange publishes
  MaxUploads,   \* bound on file_uploads
  MaxImportFailures \* bound on the statements that fail

Importers == Nightly \cup Requests

ASSUME ImportAssumption ==
  /\ Nightly \cap Requests = {}
  /\ MaxDate \in Nat /\ MaxUploads \in Nat /\ MaxImportFailures \in Nat

VARIABLES
  limits,     \* market_limits: the copies of files it holds
  published,  \* effective date of the file on the exchange's site (1, 2, ..)
  uploads,    \* file_uploads; the id of a record is its index
  importer,   \* [Importers -> the local variables]
  wiped,      \* history: an import ended between its DELETE and its INSERT
  together,   \* history: the pairs of uploads under way at the same time
  importFailures \* number of statements that failed

importVars ==
  <<limits, published, uploads, importer, wiped, together, importFailures>>

\* The copy that the migrations insert, of which those of 0002 were given their
\* exchange_id by 0025 and those of 0027 have none; and those of a file, whose
\* INSERT leaves exchange_id NULL.
Seeded == [date |-> 0, upload |-> 0]
Copy == [date : 0..MaxDate, upload : 0..MaxUploads]

UploadStatus == {"processing", "failed", "completed"}

Resting == [pc |-> "idle", date |-> 0, upload |-> 0]

Importing(i) == importer[i].pc # "idle"

ImportInit ==
  /\ limits = {Seeded}
  /\ published = 1
  /\ uploads = << >>
  /\ importer = [i \in Importers |-> Resting]
  /\ wiped = FALSE
  /\ together = {}
  /\ importFailures = 0

-----------------------------------------------------------------------------
Publish ==
  /\ published < MaxDate
  /\ published' = published + 1
  /\ UNCHANGED <<limits, uploads, importer, wiped, together, importFailures>>

\* What a downloaded file may turn out to be.
FileKinds == {"good", "undated", "no rows"}

AlreadyImported(date) == \E copy \in limits : copy.date = date

\* The request downloads the file and records the upload.
StartUpload(i) ==
  /\ i \in Requests /\ ~Importing(i) /\ Len(uploads) < MaxUploads
  /\ LET new == Len(uploads) + 1
     IN  /\ uploads' = Append(uploads, "processing")
         /\ importer' = [importer EXCEPT ![i] =
              [pc |-> "look", date |-> published, upload |-> new]]
         /\ together' = together \cup
              {{new, importer[j].upload} : j \in {j \in Requests : Importing(j)}}
  /\ UNCHANGED <<limits, published, wiped, importFailures>>

\* importICEData keeps no record of the upload.
StartNightly(i) ==
  /\ i \in Nightly /\ ~Importing(i)
  /\ importer' = [importer EXCEPT ![i] = [Resting EXCEPT !.pc = "look", !.date = published]]
  /\ UNCHANGED <<limits, published, uploads, wiped, together, importFailures>>

\* Where the file takes the import: one without a date or of a date that is
\* there already ends it (the upload stays "processing"), one without valid
\* rows is settled as failed, before anything is deleted.
AfterLook(kind) ==
  CASE kind = "undated" -> "idle"
    [] kind = "no rows" -> "reject"
    [] kind = "good"    -> "delete"

LookForDate(i) ==
  /\ importer[i].pc = "look"
  /\ \E kind \in FileKinds :
       importer' = [importer EXCEPT ![i] =
         LET pc == IF kind # "undated" /\ AlreadyImported(importer[i].date)
                   THEN "idle" ELSE AfterLook(kind)
         IN  IF pc = "idle" \/ (pc = "reject" /\ i \in Nightly) THEN Resting
             ELSE [@ EXCEPT !.pc = pc]]
  /\ UNCHANGED <<limits, published, uploads, wiped, together, importFailures>>

\* Mutant: only the rows of the file's own date are deleted.
Others(date) == {copy \in limits : copy.date # date}

Remaining(date) == {}

DeleteLimits(i) ==
  /\ importer[i].pc = "delete"
  /\ limits' = Remaining(importer[i].date)
  /\ importer' = [importer EXCEPT ![i].pc = "insert"]
  /\ UNCHANGED <<published, uploads, wiped, together, importFailures>>

\* Mutant: the rows of the file are not tested before the table is emptied, and
\* none of them can be inserted.
NoRows(i) == {}

Rows(i) == {[date |-> importer[i].date, upload |-> importer[i].upload]}

\* The request's batch.
InsertLimits(i) ==
  /\ i \in Requests /\ importer[i].pc = "insert"
  /\ limits' = limits \cup Rows(i)
  /\ importer' = [importer EXCEPT ![i].pc = "complete"]
  /\ wiped' = FALSE
  /\ UNCHANGED <<published, uploads, together, importFailures>>

\* The nightly batch names columns that market_limits does not have
\* (reportable_level_all_contract_months; no migration creates it), so
\* preparing its statement fails, and the error ends the trigger.
InsertNightly(i) ==
  /\ i \in Nightly /\ importer[i].pc = "insert"
  /\ importer' = [importer EXCEPT ![i] = Resting]
  /\ wiped' = TRUE
  /\ UNCHANGED <<limits, published, uploads, together, importFailures>>

\* After the calculations, the export and the alerts.
CompleteUpload(i) ==
  /\ importer[i].pc = "complete"
  /\ uploads' = [uploads EXCEPT ![importer[i].upload] = "completed"]
  /\ importer' = [importer EXCEPT ![i] = Resting]
  /\ UNCHANGED <<limits, published, wiped, together, importFailures>>

RejectUpload(i) ==
  /\ importer[i].pc = "reject"
  /\ uploads' = [uploads EXCEPT ![importer[i].upload] = "failed"]
  /\ importer' = [importer EXCEPT ![i] = Resting]
  /\ UNCHANGED <<limits, published, wiped, together, importFailures>>

\* A statement, the download or one of the calculations fails. A request goes
\* on to settle its upload as failed; that failing, it is not tried again.
FailImport(i) ==
  /\ Importing(i) /\ importFailures < MaxImportFailures
  /\ importFailures' = importFailures + 1
  /\ importer' = [importer EXCEPT ![i] =
       IF i \in Nightly \/ @.pc = "reject" THEN Resting ELSE [@ EXCEPT !.pc = "reject"]]
  /\ wiped' = (wiped \/ importer[i].pc = "insert")
  /\ UNCHANGED <<limits, published, uploads, together>>

ImportStep(i) ==
  \/ LookForDate(i) \/ DeleteLimits(i) \/ InsertNightly(i)
  \/ InsertLimits(i) \/ CompleteUpload(i) \/ RejectUpload(i)

ImportNext ==
  \/ Publish
  \/ \E i \in Importers :
       StartUpload(i) \/ StartNightly(i) \/ ImportStep(i) \/ FailImport(i)

ImportSpec == ImportInit /\ [][ImportNext]_importVars

-----------------------------------------------------------------------------
(* Properties.                                                             *)

ImportTypeOK ==
  /\ limits \subseteq Copy
  /\ published \in 1..MaxDate
  /\ uploads \in Seq(UploadStatus)
  /\ \A i \in Importers :
       /\ importer[i].pc \in {"idle", "look", "delete", "insert", "complete", "reject"}
       /\ importer[i].upload \in 0..Len(uploads)
       /\ importer[i].upload = 0 => i \in Nightly \/ ~Importing(i)
  /\ wiped \in BOOLEAN
  /\ importFailures \in 0..MaxImportFailures

\* market_limits is without rows only while some import is between its DELETE
\* and its INSERT, or after one ended there: a file that is refused never
\* costs the limits that were in force (data-import.ts checks the date and the
\* rows before it deletes).
EmptyExplained ==
  limits = {} => wiped \/ \E i \in Importers : importer[i].pc = "insert"

\* The limits of two imports are in force together, so that a commodity counts
\* twice in every join, only when both were under way at the same time: no
\* index stops it, only the DELETE of the later one.
CopiesOverlapped ==
  \A a, b \in limits : a # b => {a.upload, b.upload} \in together

\* scheduled.ts:93 calls the nightly import "same logic as the API endpoint",
\* which never leaves market_limits without rows unless a statement fails.
\* With no failure injected, and no import under way, the table must hold
\* limits: violated, the nightly INSERT names columns the table does not have.
NeverLeftEmpty ==
  importFailures = 0 /\ (\A i \in Importers : ~Importing(i)) => limits # {}
=============================================================================
