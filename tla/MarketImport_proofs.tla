------------------------- MODULE MarketImport_proofs -------------------------
(***************************************************************************)
(* What the table of limits may hold, for any number of imports and files. *)
(***************************************************************************)
EXTENDS MarketImport, SequenceTheorems, TLAPS

Local == [pc : {"idle", "look", "delete", "insert", "complete", "reject"},
          date : Nat, upload : Nat]

Types ==
  /\ importer \in [Importers -> Local]
  /\ published \in Nat

\* A step of importer i: only its own variables are set, and its upload is the
\* same unless it rests.
Sets(i, new) ==
  /\ new \in Local /\ importer' = [importer EXCEPT ![i] = new]
  /\ new.pc # "idle" => new.upload = importer[i].upload /\ Importing(i)

\* A resting importer has locals of the right type.
LEMMA RestingOK == Resting \in Local /\ Resting.pc = "idle"
BY DEF Resting, Local

\* A step that only moves the program counter of an import under way.
LEMMA PcSets ==
  ASSUME Types, NEW i \in Importers, Importing(i),
         NEW pc \in {"delete", "insert", "complete", "reject"},
         importer' = [importer EXCEPT ![i] = [importer[i] EXCEPT !.pc = pc]]
  PROVE  \E new : Sets(i, new) /\ new.pc = pc
<1> DEFINE l == importer[i]
           new == [l EXCEPT !.pc = pc]
<1>1. l \in Local
  BY DEF Types
<1>2. importer' = [importer EXCEPT ![i] = new]
  OBVIOUS
<1>3. new \in Local /\ new.pc = pc /\ new.upload = l.upload
  BY <1>1 DEF Local
<1>4. QED
  BY <1>2, <1>3 DEF Sets

\* A step that ends an import.
LEMMA RestSets ==
  ASSUME NEW i \in Importers, importer' = [importer EXCEPT ![i] = Resting]
  PROVE  Sets(i, Resting)
BY RestingOK DEF Sets

\* The statements after the first of an import.
LEMMA LookSets ==
  ASSUME Types, NEW i \in Importers, LookForDate(i)
  PROVE  \E new : Sets(i, new) /\ new.pc \in {"idle", "delete", "reject"}
<1>1. Importing(i)
  BY DEF LookForDate, Importing
<1>2. PICK kind \in FileKinds : importer' = [importer EXCEPT ![i] =
         LET pc == IF kind # "undated" /\ AlreadyImported(importer[i].date)
                   THEN "idle" ELSE AfterLook(kind)
         IN  IF pc = "idle" \/ (pc = "reject" /\ i \in Nightly) THEN Resting
             ELSE [@ EXCEPT !.pc = pc]]
  BY DEF LookForDate
<1> DEFINE pc == IF kind # "undated" /\ AlreadyImported(importer[i].date)
                 THEN "idle" ELSE AfterLook(kind)
<1>3. pc \in {"idle", "delete", "reject"}
  BY <1>2 DEF AfterLook, FileKinds
<1>4. \/ importer' = [importer EXCEPT ![i] = Resting]
      \/ pc # "idle" /\ importer' = [importer EXCEPT ![i] = [importer[i] EXCEPT !.pc = pc]]
  BY <1>2
<1> HIDE DEF pc
<1>5. CASE importer' = [importer EXCEPT ![i] = Resting]
  BY <1>5, RestSets, RestingOK
<1>6. CASE pc # "idle" /\ importer' = [importer EXCEPT ![i] = [importer[i] EXCEPT !.pc = pc]]
  <2>1. pc \in {"delete", "reject"}
    BY <1>3, <1>6
  <2>2. \E new : Sets(i, new) /\ new.pc = pc
    BY <1>1, <1>6, <2>1, PcSets
  <2>3. QED
    BY <2>1, <2>2
<1>7. QED
  BY <1>4, <1>5, <1>6

\* A failed import ends, or goes on to settle its upload as failed.
LEMMA FailSets ==
  ASSUME Types, NEW i \in Importers, FailImport(i)
  PROVE  \E new : Sets(i, new) /\ new.pc \in {"idle", "reject"}
<1>1. Importing(i)
  BY DEF FailImport
<1>2. \/ importer' = [importer EXCEPT ![i] = Resting]
      \/ importer' = [importer EXCEPT ![i] = [importer[i] EXCEPT !.pc = "reject"]]
  BY DEF FailImport
<1>3. CASE importer' = [importer EXCEPT ![i] = Resting]
  BY <1>3, RestSets, RestingOK
<1>4. CASE importer' = [importer EXCEPT ![i] = [importer[i] EXCEPT !.pc = "reject"]]
  <2>1. \E new : Sets(i, new) /\ new.pc = "reject"
    BY <1>1, <1>4, PcSets
  <2>2. QED
    BY <2>1
<1>5. QED
  BY <1>2, <1>3, <1>4

\* After the DELETE comes the INSERT.
LEMMA DeleteSets ==
  ASSUME Types, NEW i \in Importers, DeleteLimits(i)
  PROVE  \E new : Sets(i, new) /\ new.pc = "insert"
BY PcSets DEF DeleteLimits, Importing

\* After the batch the upload is settled as completed.
LEMMA InsertSets ==
  ASSUME Types, NEW i \in Importers, InsertLimits(i)
  PROVE  \E new : Sets(i, new) /\ new.pc = "complete"
BY PcSets DEF InsertLimits, Importing

\* The steps an import ends with.
LEMMA SettleSets ==
  ASSUME NEW i \in Importers, InsertNightly(i) \/ CompleteUpload(i) \/ RejectUpload(i)
  PROVE  Sets(i, Resting)
BY RestSets DEF InsertNightly, CompleteUpload, RejectUpload

-----------------------------------------------------------------------------
UploadsTyped == uploads \in Seq(UploadStatus)

\* The records of uploads are only added to and settled.
THEOREM UploadTypes == ImportSpec => []UploadsTyped
<1>1. ImportInit => UploadsTyped
  BY DEF ImportInit, UploadsTyped
<1>2. UploadsTyped /\ [ImportNext]_importVars => UploadsTyped'
  <2> SUFFICES ASSUME UploadsTyped, [ImportNext]_importVars PROVE UploadsTyped'
    OBVIOUS
  <2>1. ASSUME NEW u, NEW settled \in UploadStatus, uploads' = [uploads EXCEPT ![u] = settled]
        PROVE  UploadsTyped'
    <3>1. CASE u \in 1..Len(uploads)
      BY <2>1, <3>1, ExceptSeq DEF UploadsTyped
    <3>2. CASE u \notin 1..Len(uploads)
      <4>1. uploads' = uploads
        BY <2>1, <3>2 DEF UploadsTyped
      <4>2. QED
        BY <4>1 DEF UploadsTyped
    <3>3. QED
      BY <3>1, <3>2
  <2>2. ASSUME uploads' = Append(uploads, "processing") PROVE UploadsTyped'
    BY <2>2 DEF UploadsTyped, UploadStatus
  <2>3. CASE uploads' = uploads
    BY <2>3 DEF UploadsTyped
  <2>4. CASE Publish \/ UNCHANGED importVars
    BY <2>3, <2>4 DEF Publish, importVars
  <2>5. ASSUME NEW i \in Importers, StartUpload(i) PROVE UploadsTyped'
    BY <2>2, <2>5 DEF StartUpload
  <2>6. ASSUME NEW i \in Importers, CompleteUpload(i) \/ RejectUpload(i) PROVE UploadsTyped'
    BY <2>1, <2>6 DEF CompleteUpload, RejectUpload, UploadStatus
  <2>7. ASSUME NEW i \in Importers,
               \/ StartNightly(i) \/ LookForDate(i) \/ DeleteLimits(i) \/ InsertNightly(i)
               \/ InsertLimits(i) \/ FailImport(i)
        PROVE  UploadsTyped'
    BY <2>3, <2>7 DEF StartNightly, LookForDate, DeleteLimits, InsertNightly, InsertLimits,
                      FailImport
  <2>8. QED
    BY <2>4, <2>5, <2>6, <2>7 DEF ImportNext, ImportStep
<1>3. QED
  BY <1>1, <1>2, PTL DEF ImportSpec

\* The uploads of two requests under way are a pair of "together", and so are a
\* copy in force and the upload of a request that has emptied the table.
PairsKnown ==
  \A i, j \in Requests : i # j /\ Importing(i) /\ Importing(j) =>
    {importer[i].upload, importer[j].upload} \in together

InForceKnown ==
  \A i \in Requests : importer[i].pc = "insert" =>
    \A copy \in limits : {copy.upload, importer[i].upload} \in together

ImportInv == Types /\ EmptyExplained /\ PairsKnown /\ InForceKnown /\ CopiesOverlapped

\* Types and pairs outlive every step of an import under way.
LEMMA StepKeeps ==
  ASSUME ImportInv, NEW i \in Importers, NEW new, Sets(i, new), together' = together,
         published' = published
  PROVE  Types' /\ PairsKnown'
<1>1. Types'
  BY DEF Sets, Types, ImportInv
<1>2. importer'[i] = new /\ \A j \in Importers : j # i => importer'[j] = importer[j]
  BY DEF Sets, Types, ImportInv
<1>3. \A j \in Importers : Importing(j)' =>
        Importing(j) /\ importer'[j].upload = importer[j].upload
  BY <1>2 DEF Sets, Importing
<1>4. QED
  BY <1>1, <1>3 DEF PairsKnown, ImportInv, Importers

\* A step that changes no limits, and does not leave the table empty behind.
LEMMA LimitsKept ==
  ASSUME ImportInv, NEW i \in Importers, NEW new, Sets(i, new), new.pc # "insert",
         UNCHANGED <<limits, together, published>>,
         wiped => wiped', importer[i].pc = "insert" => wiped'
  PROVE  ImportInv'
<1>1. importer'[i] = new /\ \A j \in Importers : j # i => importer'[j] = importer[j]
  BY DEF Sets, Types, ImportInv
<1>2. EmptyExplained'
  BY <1>1 DEF EmptyExplained, ImportInv
<1>3. InForceKnown'
  BY <1>1 DEF InForceKnown, ImportInv, Importers
<1>4. CopiesOverlapped'
  BY DEF CopiesOverlapped, ImportInv
<1>5. QED
  BY <1>2, <1>3, <1>4, StepKeeps DEF ImportInv

\* The DELETE empties the table, and its import is the explanation.
LEMMA DeleteKeeps ==
  ASSUME ImportInv, NEW i \in Importers, DeleteLimits(i)
  PROVE  ImportInv'
<1>1. PICK new : Sets(i, new) /\ new.pc = "insert"
  BY DeleteSets DEF ImportInv
<1>2. limits' = {} /\ UNCHANGED <<together, published, wiped>>
  BY DEF DeleteLimits, Remaining
<1>3. importer'[i].pc = "insert"
  BY <1>1 DEF Sets, Types, ImportInv
<1>4. EmptyExplained' /\ InForceKnown' /\ CopiesOverlapped'
  BY <1>2, <1>3 DEF EmptyExplained, InForceKnown, CopiesOverlapped
<1>5. QED
  BY <1>1, <1>2, <1>4, StepKeeps DEF ImportInv

\* The batch of a request adds a copy that was under way together with any in force.
LEMMA InsertKeeps ==
  ASSUME ImportInv, NEW i \in Importers, InsertLimits(i)
  PROVE  ImportInv'
<1> DEFINE row == [date |-> importer[i].date, upload |-> importer[i].upload]
<1>1. PICK new : Sets(i, new) /\ new.pc = "complete"
  BY InsertSets DEF ImportInv
<1>2. /\ limits' = limits \cup {row} /\ row.upload = importer[i].upload
      /\ UNCHANGED <<together, published>>
  BY DEF InsertLimits, Rows
<1>3. i \in Requests /\ importer[i].pc = "insert"
  BY DEF InsertLimits
<1> HIDE DEF row
<1>4. importer'[i] = new /\ \A j \in Importers : j # i => importer'[j] = importer[j]
  BY <1>1 DEF Sets, Types, ImportInv
<1>5. EmptyExplained'
  BY <1>2 DEF EmptyExplained
<1>6. \A copy \in limits : {copy.upload, row.upload} \in together
  BY <1>2, <1>3 DEF InForceKnown, ImportInv
<1>7. InForceKnown'
  <2> SUFFICES ASSUME NEW j \in Requests, importer'[j].pc = "insert", NEW copy \in limits'
               PROVE  {copy.upload, importer'[j].upload} \in together'
    BY DEF InForceKnown
  <2>1. j # i /\ importer'[j] = importer[j]
    BY <1>1, <1>4 DEF Importers
  <2>2. {importer[i].upload, importer[j].upload} \in together
    BY <1>3, <2>1 DEF PairsKnown, Importing, ImportInv
  <2>3. CASE copy = row
    BY <1>2, <2>1, <2>2, <2>3
  <2>4. CASE copy \in limits
    BY <1>2, <2>1, <2>4 DEF InForceKnown, ImportInv
  <2>5. QED
    BY <1>2, <2>3, <2>4
<1>8. CopiesOverlapped'
  <2> SUFFICES ASSUME NEW a \in limits', NEW b \in limits', a # b
               PROVE  {a.upload, b.upload} \in together'
    BY DEF CopiesOverlapped
  <2>1. CASE a \in limits /\ b \in limits
    BY <1>2, <2>1 DEF CopiesOverlapped, ImportInv
  <2>2. CASE a \in limits /\ b = row
    BY <1>2, <1>6, <2>2
  <2>3. CASE a = row /\ b \in limits
    <3>1. {b.upload, row.upload} = {a.upload, b.upload}
      BY <2>3
    <3>2. QED
      BY <1>2, <1>6, <2>3, <3>1
  <2>4. QED
    BY <1>2, <2>1, <2>2, <2>3
<1>9. QED
  BY <1>1, <1>2, <1>5, <1>7, <1>8, StepKeeps DEF ImportInv

\* A new upload is together with those under way.
LEMMA StartKeeps ==
  ASSUME ImportInv, UploadsTyped, NEW i \in Importers, StartUpload(i)
  PROVE  ImportInv'
<1> DEFINE up == Len(uploads) + 1
           new == [pc |-> "look", date |-> published, upload |-> up]
           with == {{up, importer[j].upload} : j \in {j \in Requests : Importing(j)}}
<1>1. /\ importer' = [importer EXCEPT ![i] = new] /\ together' = together \cup with
      /\ UNCHANGED <<limits, published, wiped>> /\ ~Importing(i)
  BY DEF StartUpload
<1>2. new \in Local
  BY DEF ImportInv, Types, Local, UploadsTyped
<1>3. new.pc = "look" /\ new.upload = up
  OBVIOUS
<1> HIDE DEF new
<1>4. importer'[i] = new /\ \A j \in Importers : j # i => importer'[j] = importer[j]
  BY <1>1 DEF Types, ImportInv
<1>5. Types'
  BY <1>1, <1>2 DEF Types, ImportInv
<1>6. EmptyExplained' /\ InForceKnown' /\ CopiesOverlapped'
  <2>1. \A j \in Importers : importer'[j].pc = "insert" <=> importer[j].pc = "insert"
    BY <1>1, <1>3, <1>4 DEF Importing
  <2>2. QED
    BY <1>1, <1>3, <1>4, <2>1 DEF EmptyExplained, InForceKnown, CopiesOverlapped, ImportInv, Importers
<1>7. PairsKnown'
  <2> SUFFICES ASSUME NEW j \in Requests, NEW k \in Requests, j # k, Importing(j)', Importing(k)'
               PROVE  {importer'[j].upload, importer'[k].upload} \in together'
    BY DEF PairsKnown
  <2>1. CASE j # i /\ k # i
    BY <1>1, <1>4, <2>1 DEF PairsKnown, ImportInv, Importing, Importers
  <2>2. CASE j = i
    <3>1. Importing(k) /\ importer'[k] = importer[k] /\ importer'[j].upload = up
      BY <1>3, <1>4, <2>2 DEF Importing, Importers
    <3>2. QED
      BY <1>1, <3>1
  <2>3. CASE k = i
    <3>1. Importing(j) /\ importer'[j] = importer[j] /\ importer'[k].upload = up
      BY <1>3, <1>4, <2>3 DEF Importing, Importers
    <3>2. {up, importer[j].upload} \in together'
      BY <1>1, <3>1
    <3>3. {up, importer[j].upload} = {importer'[j].upload, importer'[k].upload}
      BY <3>1
    <3>4. QED
      BY <3>2, <3>3
  <2>4. QED
    BY <2>1, <2>2, <2>3
<1>8. QED
  BY <1>5, <1>6, <1>7 DEF ImportInv

\* The nightly import begins.
LEMMA NightlyKeeps ==
  ASSUME ImportInv, NEW i \in Importers, StartNightly(i)
  PROVE  ImportInv'
<1> DEFINE new == [Resting EXCEPT !.pc = "look", !.date = published]
<1>1. /\ importer' = [importer EXCEPT ![i] = new] /\ i \notin Requests
      /\ UNCHANGED <<limits, published, wiped, together>> /\ ~Importing(i)
  BY ImportAssumption DEF StartNightly
<1>2. [Resting EXCEPT !.pc = "look"] \in Local
  BY RestingOK DEF Local
<1>3. new \in Local
  BY <1>2 DEF Local, Types, ImportInv
<1>4. new.pc = "look"
  BY DEF Resting
<1> HIDE DEF new
<1>5. importer'[i] = new /\ \A j \in Importers : j # i => importer'[j] = importer[j]
  BY <1>1 DEF Types, ImportInv
<1>6. Types' /\ PairsKnown' /\ InForceKnown' /\ CopiesOverlapped'
  BY <1>1, <1>3, <1>5 DEF Types, PairsKnown, InForceKnown, CopiesOverlapped, Importing,
                          ImportInv, Importers
<1>7. EmptyExplained'
  BY <1>1, <1>5 DEF EmptyExplained, Importing, ImportInv
<1>8. QED
  BY <1>6, <1>7 DEF ImportInv

\* The steps that leave the table as it is.
LEMMA QuietKeeps ==
  ASSUME ImportInv, NEW i \in Importers,
         \/ LookForDate(i) \/ InsertNightly(i) \/ CompleteUpload(i) \/ RejectUpload(i)
         \/ FailImport(i)
  PROVE  ImportInv'
<1>1. CASE LookForDate(i)
  <2>1. \E new : Sets(i, new) /\ new.pc # "insert"
    BY <1>1, LookSets DEF ImportInv
  <2>2. QED
    BY <1>1, <2>1, LimitsKept DEF LookForDate
<1>2. CASE FailImport(i)
  <2>1. \E new : Sets(i, new) /\ new.pc # "insert"
    BY <1>2, FailSets DEF ImportInv
  <2>2. QED
    BY <1>2, <2>1, LimitsKept DEF FailImport
<1>3. CASE InsertNightly(i) \/ CompleteUpload(i) \/ RejectUpload(i)
  <2>1. Sets(i, Resting) /\ Resting.pc # "insert"
    BY <1>3, SettleSets, RestingOK
  <2>2. /\ UNCHANGED <<limits, together, published>>
        /\ wiped => wiped'
        /\ importer[i].pc = "insert" => wiped'
    BY <1>3 DEF InsertNightly, CompleteUpload, RejectUpload
  <2>3. QED
    BY <2>1, <2>2, LimitsKept
<1>4. QED
  BY <1>1, <1>2, <1>3

\* The invariant of the imports.
THEOREM ImportInvariant == ImportSpec => []ImportInv
<1>1. ImportInit => ImportInv
  BY RestingOK DEF ImportInit, ImportInv, Types, EmptyExplained, PairsKnown, InForceKnown,
                   CopiesOverlapped, Importing, Importers
<1>2. ImportInv /\ UploadsTyped /\ [ImportNext]_importVars => ImportInv'
  <2> SUFFICES ASSUME ImportInv, UploadsTyped, [ImportNext]_importVars PROVE ImportInv'
    OBVIOUS
  <2>1. CASE UNCHANGED importVars
    BY <2>1 DEF importVars, ImportInv, Types, EmptyExplained, PairsKnown, InForceKnown,
                CopiesOverlapped, Importing
  <2>2. CASE Publish
    BY <2>2 DEF Publish, ImportInv, Types, EmptyExplained, PairsKnown, InForceKnown,
                CopiesOverlapped, Importing
  <2>3. ASSUME NEW i \in Importers,
               StartUpload(i) \/ StartNightly(i) \/ ImportStep(i) \/ FailImport(i)
        PROVE  ImportInv'
    BY <2>3, StartKeeps, NightlyKeeps, DeleteKeeps, InsertKeeps, QuietKeeps DEF ImportStep
  <2>4. QED
    BY <2>1, <2>2, <2>3 DEF ImportNext
<1>3. QED
  BY <1>1, <1>2, UploadTypes, PTL DEF ImportSpec

\* EmptyExplained: only an import between its DELETE and its INSERT, or one that
\* ended there, leaves the table without limits.
THEOREM EmptyIsExplained == ImportSpec => []EmptyExplained
<1>1. ImportInv => EmptyExplained
  BY DEF ImportInv
<1>2. QED
  BY <1>1, ImportInvariant, PTL

\* CopiesOverlapped: the limits of two imports are in force together only if the
\* imports were under way together.
THEOREM CopiesHaveOverlapped == ImportSpec => []CopiesOverlapped
<1>1. ImportInv => CopiesOverlapped
  BY DEF ImportInv
<1>2. QED
  BY <1>1, ImportInvariant, PTL
=============================================================================
