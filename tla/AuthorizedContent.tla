-------------------------- MODULE AuthorizedContent ---------------------------
(***************************************************************************)
(* The full texts an administrator brings in under a licence:              *)
(* handleContentUpload and storeAuthorizedArticleContent of                *)
(* site/worker/runtime.mjs put a text into R2 and record it in             *)
(* article_contents, purgeExpiredArticleContent of content-retention.mjs   *)
(* takes it away when its right ends, and loadAuthorizedArticleContents    *)
(* chooses the texts of a day for its analysis.  The collector of          *)
(* authorized-body-collector.mjs stores what it fetched in the same table  *)
(* under the same key.  Uploads share no lock with the purge and the       *)
(* collector, and each changes the object and the row in two steps; the    *)
(* purge and the collector are stages of one scheduled run (Collection).   *)
(***************************************************************************)
EXTENDS Naturals, FiniteSets

CONSTANTS
  FullTexts,   \* texts: an article and the hash of a body; the same text has the same key
  TextArticle, \* the article of each text
  Uploaders,   \* uploads under way at once
  LastHour,    \* bound: hours
  ShutHour,    \* RAW_CONTENT_DELETE_AFTER: from the next hour on every text goes
  Endless,     \* no end of the right was given
  UploadCalls  \* bound: uploads and collections in all; the number of each stands for the id it makes up

ASSUME AuthorizedContentAssumption ==
  LastHour \in Nat /\ ShutHour \in Nat /\ Endless \in Nat /\ Endless > LastHour /\ UploadCalls \in Nat

VARIABLES
  licence,  \* article_contents, by text
  objects,  \* the texts R2 holds
  upload,   \* the uploads under way
  purge,    \* the purge under way
  collector, \* the collection of one text under way
  hour,
  uploads,  \* uploads and collections begun
  given,    \* history: the ids answered
  parted,   \* history: texts whose object and row were left apart
  doubled   \* history: texts first uploaded by two at once

contentVars == <<licence, objects, upload, purge, collector, hour, uploads, given, parted, doubled>>

Hours     == 0 .. LastHour
Rights    == (1 .. LastHour) \cup {ShutHour, Endless}
Licence   == [id : 0 .. UploadCalls, status : {"absent", "active", "expired"}, acquired : Hours, until : Rights]
Unrecorded == [id |-> 0, status |-> "absent", acquired |-> 0, until |-> Endless]
NoUpload  == [step |-> "idle", text |-> CHOOSE t \in FullTexts : TRUE, no |-> 0, known |-> 0, terms |-> Unrecorded]
NoPurge   == [step |-> "idle", todo |-> {}, current |-> {}]
NoCollect == [step |-> "idle", text |-> CHOOSE t \in FullTexts : TRUE, no |-> 0, at |-> 0]

ContentInit ==
  /\ licence = [t \in FullTexts |-> Unrecorded] /\ objects = {}
  /\ upload = [u \in Uploaders |-> NoUpload] /\ purge = NoPurge
  /\ collector = NoCollect /\ hour = 0 /\ uploads = 0 /\ given = {} /\ parted = {} /\ doubled = {}

----------------------------------------------------------------------------
(* handleContentUpload and storeAuthorizedArticleContent *)

\* The time of acquisition is the present unless the administrator gives another.
BeginUpload(u) ==
  /\ upload[u].step = "idle" /\ uploads < UploadCalls /\ uploads' = uploads + 1
  /\ \E t \in FullTexts, at \in 0 .. hour, until \in Rights :
       /\ until > at
       /\ upload' = [upload EXCEPT ![u] =
            [step |-> "look", text |-> t, no |-> uploads + 1, known |-> 0,
             terms |-> [id |-> uploads + 1, status |-> "active", acquired |-> at, until |-> until]]]
  /\ UNCHANGED <<licence, objects, purge, hour, given, parted, doubled, collector>>

\* The id of the row, if there is one.
LookUp(u) ==
  /\ upload[u].step = "look"
  /\ upload' = [upload EXCEPT ![u].step = "put", ![u].known = licence[upload[u].text].id]
  /\ UNCHANGED <<licence, objects, purge, hour, uploads, given, parted, doubled, collector>>

\* A put that is not known to have succeeded
PutInVain(t) ==
  \/ UNCHANGED <<objects, parted>>
  \/ t \notin objects /\ objects' = objects \cup {t} /\ parted' = parted \cup {t}

PutText(u) ==
  /\ upload[u].step = "put"
  /\ objects' = objects \cup {upload[u].text}
  /\ upload' = [upload EXCEPT ![u].step = "record"]
  /\ UNCHANGED <<licence, purge, hour, uploads, given, parted, doubled, collector>>

\* Fault: the row takes the id of the upload.
RecordedAnew(u) == upload[u].terms
\* ON CONFLICT(article_id, body_hash): the row keeps its id, everything else is the upload's.
Recorded(u) ==
  LET row == licence[upload[u].text]
  IN  [upload[u].terms EXCEPT !.id = IF row.status = "absent" THEN @ ELSE row.id]
IdAnswered(u) == IF upload[u].known = 0 THEN upload[u].no ELSE upload[u].known

RecordText(u) ==
  /\ upload[u].step = "record"
  /\ LET t == upload[u].text
     IN  /\ licence' = [licence EXCEPT ![t] = Recorded(u)]
         /\ given' = given \cup {<<t, IdAnswered(u)>>}
         /\ doubled' = IF upload[u].known = 0 /\ licence[t].status # "absent" THEN doubled \cup {t} ELSE doubled
         /\ parted' = IF purge.step = "mark" /\ t \in purge.current THEN parted \cup {t} ELSE parted
  /\ upload' = [upload EXCEPT ![u] = NoUpload]
  /\ UNCHANGED <<objects, purge, hour, uploads, collector>>

\* R2 or D1 refuses, its answer is lost or the worker is cut off: nothing is taken back.
UploadFails(u) ==
  /\ upload[u].step \in {"look", "put", "record"}
  /\ upload' = [upload EXCEPT ![u] = NoUpload]
  /\ LET t == upload[u].text
     IN  \/ upload[u].step = "look" /\ UNCHANGED <<licence, objects, parted>>
         \/ upload[u].step = "put" /\ PutInVain(t) /\ UNCHANGED licence
         \/ /\ upload[u].step = "record" /\ licence' \in {licence, [licence EXCEPT ![t] = Recorded(u)]}
            /\ parted' = parted \cup {t} /\ UNCHANGED objects
  /\ UNCHANGED <<purge, hour, uploads, given, doubled, collector>>

----------------------------------------------------------------------------
(* purgeExpiredArticleContent, over rows of this kind *)

RightEnded(t) == licence[t].status = "active" /\ (hour > ShutHour \/ licence[t].until <= hour)
\* Texts put and not recorded, by an upload or by the collector
Storing(t) == \E u \in Uploaders : upload[u].step = "record" /\ upload[u].text = t
Recording(t) == Storing(t) \/ (collector.step \in {"insert", "undo"} /\ collector.text = t)

SelectEnded ==
  /\ purge.step = "idle" /\ collector.step = "idle" /\ \E t \in FullTexts : RightEnded(t)
  /\ purge' = [step |-> "delete", todo |-> {t \in FullTexts : RightEnded(t)}, current |-> {}]
  /\ UNCHANGED <<licence, objects, upload, hour, uploads, given, parted, doubled, collector>>

\* The rows chosen are gone through, whatever became of them since.
Continued(todo) == IF todo = {} THEN NoPurge ELSE [step |-> "delete", todo |-> todo, current |-> {}]

\* The object goes first.  An upload that has put it and not recorded it loses it.
DeleteText ==
  /\ purge.step = "delete"
  /\ \E t \in purge.todo :
       /\ objects' = objects \ {t}
       /\ purge' = [step |-> "mark", todo |-> purge.todo \ {t}, current |-> {t}]
       /\ parted' = IF Recording(t) \/ ~RightEnded(t) THEN parted \cup {t} ELSE parted \ {t}
  /\ UNCHANGED <<licence, upload, hour, uploads, given, doubled, collector>>

Marked(row) == IF row.status = "active" THEN [row EXCEPT !.status = "expired"] ELSE row
\* A row renewed since it was chosen is marked all the same.
MarkExpired ==
  /\ purge.step = "mark"
  /\ \E t \in purge.current : licence' = [licence EXCEPT ![t] = Marked(@)]
  /\ purge' = Continued(purge.todo)
  /\ UNCHANGED <<objects, upload, hour, uploads, given, parted, doubled, collector>>

\* A text that fails keeps its row and comes again; the worker may also be cut off.
PurgeFails ==
  /\ purge.step # "idle"
  /\ \/ \E t \in purge.todo : purge.step = "delete" /\ purge' = Continued(purge.todo \ {t})
     \/ purge.step = "mark" /\ purge' = Continued(purge.todo)
     \/ purge' = NoPurge
  /\ UNCHANGED <<licence, objects, upload, hour, uploads, given, parted, doubled, collector>>

HourPasses ==
  /\ hour < LastHour /\ hour' = hour + 1
  /\ UNCHANGED <<licence, objects, upload, purge, uploads, given, parted, doubled, collector>>

----------------------------------------------------------------------------
(* collectAuthorizedArticleBodies, for one article: storeBody *)

Licensed(t) == licence[t].status = "active" /\ licence[t].until > hour
Rivals(t) == {s \in FullTexts : TextArticle[s] = TextArticle[t] /\ Licensed(s)}

\* An article without a text in use is fetched; the text may be one that was recorded.
BeginCollect ==
  /\ collector.step = "idle" /\ purge.step = "idle" /\ hour < ShutHour
  /\ uploads < UploadCalls /\ uploads' = uploads + 1
  /\ \E t \in FullTexts :
       Rivals(t) = {} /\ collector' = [step |-> "put", text |-> t, no |-> uploads + 1, at |-> hour]
  /\ UNCHANGED <<licence, objects, upload, purge, hour, given, parted, doubled>>

CollectPut ==
  /\ collector.step = "put" /\ hour < ShutHour
  /\ objects' = objects \cup {collector.text}
  /\ collector' = [collector EXCEPT !.step = "insert"]
  /\ UNCHANGED <<licence, upload, purge, hour, uploads, given, parted, doubled>>

CollectedRow(t) ==
  [id |-> IF licence[t].status = "absent" THEN collector.no ELSE licence[t].id,
   status |-> "active", acquired |-> collector.at, until |-> ShutHour]

CollectInsert ==
  /\ collector.step = "insert"
  /\ licence' = [licence EXCEPT ![collector.text] = CollectedRow(collector.text)]
  /\ collector' = NoCollect
  /\ UNCHANGED <<objects, upload, purge, hour, uploads, given, parted, doubled>>

\* The statement fails, or its answer is lost.
CollectRefused ==
  /\ collector.step = "insert"
  /\ licence' \in {licence, [licence EXCEPT ![collector.text] = CollectedRow(collector.text)]}
  /\ collector' = [collector EXCEPT !.step = "undo"]
  /\ UNCHANGED <<objects, upload, purge, hour, uploads, given, parted, doubled>>

\* The object is deleted, whosever it is: a row in use, or an upload about to write one,
\* is left without.
TakeBack ==
  /\ collector.step = "undo"
  /\ LET t == collector.text
     IN  /\ objects' = objects \ {t}
         /\ parted' = IF licence[t].status = "active" \/ Storing(t) THEN parted \cup {t} ELSE parted
  /\ collector' = NoCollect
  /\ UNCHANGED <<licence, upload, purge, hour, uploads, given, doubled>>

\* Nothing is fetched, R2 refuses, or the run is cut off.
CollectFails ==
  /\ collector.step # "idle" /\ collector' = NoCollect
  /\ \/ collector.step = "put" /\ PutInVain(collector.text)
     \/ collector.step # "put" /\ parted' = parted \cup {collector.text} /\ UNCHANGED objects
  /\ UNCHANGED <<licence, upload, purge, hour, uploads, given, doubled>>

----------------------------------------------------------------------------
(* loadAuthorizedArticleContents *)

LatestLicensed(t) == Licensed(t) /\ \A s \in Rivals(t) : licence[s].acquired <= licence[t].acquired

ContentNext ==
  \/ \E u \in Uploaders : BeginUpload(u) \/ LookUp(u) \/ PutText(u) \/ RecordText(u) \/ UploadFails(u)
  \/ SelectEnded \/ DeleteText \/ MarkExpired \/ PurgeFails \/ HourPasses
  \/ BeginCollect \/ CollectPut \/ CollectInsert \/ CollectRefused \/ TakeBack \/ CollectFails

----------------------------------------------------------------------------
(* Properties *)

ContentTypeOK ==
  /\ licence \in [FullTexts -> Licence] /\ objects \subseteq FullTexts
  /\ hour \in Hours /\ uploads \in 0 .. UploadCalls
  /\ purge.todo \subseteq FullTexts
  /\ collector.step \in {"idle", "put", "insert", "undo"}

\* A text whose right ended is gone, and one in use is there, unless an upload or a
\* collection was broken off after its put, an upload crossed the purge of the same text
\* or the collector took back what a row in use or an upload under way had need of.
TextsInStep == \A t \in FullTexts \ parted :
  /\ licence[t].status = "expired" /\ ~Recording(t) => t \notin objects
  /\ licence[t].status = "active" /\ ~RightEnded(t) => t \in objects

\* Until every text goes, the one an analysis chooses of an article is there to be read, but
\* for such a crossing.
ChosenIsHeld ==
  hour <= ShutHour => \A t \in FullTexts : LatestLicensed(t) => t \in objects \cup parted

\* The id an upload was answered with is that of the row, unless two uploads brought the
\* same text first.
IdsGiven == \A g \in given : g[1] \in doubled \/ g[2] = licence[g[1]].id

ContentInStep == TextsInStep /\ ChosenIsHeld /\ IdsGiven
=============================================================================
