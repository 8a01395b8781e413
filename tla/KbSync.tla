------------------------------- MODULE KbSync -------------------------------
(***************************************************************************)
(* How the knowledge base follows its directory of documents: the job      *)
(* kb_increment_sync (every 5 minutes) and the orphan part of the job      *)
(* vector_cleanup (daily), in platform/scheduler/jobs.                     *)
(*                                                                         *)
(* Four stores take part and no transaction spans them: the files, which   *)
(* people edit at any time; the docs table; the vectors in Qdrant, whose   *)
(* point id is the chunk's text; and the watermark in Redis.  A job may    *)
(* fail at every call.  Each job has a leader lock of its own, which       *)
(* neither keeps the two apart (both fire at 03:00) nor always excludes a  *)
(* second run (JobRuns): any two runs may overlap here.                    *)
(***************************************************************************)
EXTENDS Naturals

CONSTANTS
    Doc,          \* documents, by file stem
    TextsOf,      \* per document, the texts its file may hold: sets of chunks
    Sync,         \* runs of kb_increment_sync that may overlap
    Cleaner,      \* runs of vector_cleanup
    None,         \* no file, no row, no document, no watermark
    MaxClock      \* bound: edits of files

ASSUME TextAssumption == \A d \in Doc : None \notin TextsOf[d]
ASSUME ClockAssumption == MaxClock \in Nat

VARIABLES
    file,         \* the directory: text and mtime by document
    row,          \* the docs table
    exists,       \* whether there is a collection
    vec,          \* the collection: source_doc_id by point id
    watermark,    \* kb:sync:last_ts
    clock,        \* time of the last edit
    sync,         \* the runs of kb_increment_sync
    clean,        \* the runs of vector_cleanup
    damaged,      \* history: documents that something else may have taken points
                  \* from since a run alone last indexed them
    disturbed     \* history: those of them that a run has in work

vars == <<file, row, exists, vec, watermark, clock, sync, clean, damaged, disturbed>>

Time == 0 .. MaxClock
Text == UNION {TextsOf[d] : d \in Doc}
Chunk == UNION Text
File == [text : Text, mtime : Time]
Row == [hash : Text, mtime : Time, status : {"active", "deleted"}]
Idle == [pc |-> "idle"]
SyncRun == [pc : {"ensure", "scan", "next", "delete", "upsert", "commit", "unrow"},
            alone : BOOLEAN, ts : Time, rows : [Doc -> Row \cup {None}],
            index : SUBSET Doc, drop : SUBSET Doc,
            doc : Doc \cup {None}, text : Text \cup {None},
            left : SUBSET Chunk, mtime : Time]
CleanRun == [pc : {"active", "delete"}, docs : SUBSET Doc]

ASSUME NoneAssumption == None \notin Doc \cup File \cup Row

\* Every variable holds a value of the program's own shape.
TypeOK ==
    /\ file \in [Doc -> File \cup {None}]
    /\ row \in [Doc -> Row \cup {None}]
    /\ exists \in BOOLEAN
    /\ vec \in [Chunk -> Doc \cup {None}]
    /\ watermark \in Time \cup {None}
    /\ clock \in Time
    /\ sync \in [Sync -> SyncRun \cup {Idle}]
    /\ clean \in [Cleaner -> CleanRun \cup {Idle}]
    /\ damaged \subseteq Doc /\ disturbed \subseteq Doc

NoRows == [d \in Doc |-> None]

Init ==
    /\ file \in [Doc -> {None} \cup {[text |-> t, mtime |-> 0] : t \in Text}]
    /\ \A d \in Doc : file[d] # None => file[d].text \in TextsOf[d]
    /\ row = NoRows
    /\ exists \in BOOLEAN
    /\ vec = [c \in Chunk |-> None]
    /\ watermark = None
    /\ clock = 0
    /\ sync = [s \in Sync |-> Idle]
    /\ clean = [k \in Cleaner |-> Idle]
    /\ damaged = {} /\ disturbed = {}

Active(d) == row[d] # None /\ row[d].status = "active"

\* _delete_doc_vectors and _delete_orphan: by the payload, not by the point id.
WithoutVectors(d) == [c \in Chunk |-> IF vec[c] = d THEN None ELSE vec[c]]

InWork == {d \in Doc : \E s \in Sync : sync[s] # Idle /\ sync[s].doc = d}

\* A run that overlaps another may undo what that one does to a document.
DamagedBy(s, d) == IF sync[s].alone THEN damaged ELSE damaged \cup {d}

(***************************************************************************)
(* People edit the directory                                               *)
(***************************************************************************)
Edit(d) ==
    /\ clock < MaxClock
    /\ clock' = clock + 1
    /\ \E t \in TextsOf[d] \cup {None} :
        /\ (file[d] = None => t # None)
        /\ file' = [file EXCEPT ![d] = IF t = None THEN None
                                       ELSE [text |-> t, mtime |-> clock']]
    /\ UNCHANGED <<row, exists, vec, watermark, sync, clean, damaged, disturbed>>

(***************************************************************************)
(* kb_increment_sync                                                       *)
(***************************************************************************)
\* scan_ts is taken before the docs table is read.
BeginSync(s) ==
    /\ sync[s] = Idle
    /\ LET new == [pc |-> "ensure", alone |-> \A t \in Sync : sync[t] = Idle,
                   ts |-> clock, rows |-> row, index |-> {}, drop |-> {},
                   doc |-> None, text |-> None, left |-> {}, mtime |-> 0]
       IN  sync' = [t \in Sync |-> IF t = s THEN new
                                   ELSE IF sync[t] = Idle THEN Idle
                                   ELSE [sync[t] EXCEPT !.alone = FALSE]]
    /\ UNCHANGED <<file, row, exists, vec, watermark, clock, clean, damaged, disturbed>>

\* _ensure_collection: a collection that is gone is made anew, without points.
EnsureCollection(s) ==
    /\ sync[s].pc = "ensure"
    /\ exists' = TRUE
    /\ sync' = [sync EXCEPT ![s].pc = "scan"]
    /\ UNCHANGED <<file, row, vec, watermark, clock, clean, damaged, disturbed>>

\* scan_changes, for a document with a file.
MustIndex(d, r, last) ==
    \/ r = None
    \/ r.status = "deleted"
    \/ /\ last = None \/ file[d].mtime > last
       /\ file[d].mtime > r.mtime \/ file[d].text # r.hash

\* An unreachable Redis reads as "no watermark".
Scan(s) ==
    LET r == sync[s]
    IN  /\ r.pc = "scan"
        /\ \E last \in {watermark, None} :
             sync' = [sync EXCEPT
                 ![s].pc = "next",
                 ![s].rows = NoRows,
                 ![s].index = {d \in Doc : file[d] # None /\ MustIndex(d, r.rows[d], last)},
                 ![s].drop = {d \in Doc : /\ file[d] = None /\ r.rows[d] # None
                                          /\ r.rows[d].status = "active"}]
        /\ UNCHANGED <<file, row, exists, vec, watermark, clock, clean, damaged, disturbed>>

\* _index_doc reads the file first.
ReadText(s) ==
    /\ sync[s].pc = "next"
    /\ \E d \in sync[s].index :
        /\ file[d] # None
        /\ sync' = [sync EXCEPT ![s].pc = "delete", ![s].doc = d,
                                ![s].index = @ \ {d},
                                ![s].text = file[d].text, ![s].left = file[d].text]
    /\ UNCHANGED <<file, row, exists, vec, watermark, clock, clean, damaged, disturbed>>

DeleteVectors(s) ==
    /\ sync[s].pc = "delete" /\ exists
    /\ vec' = WithoutVectors(sync[s].doc)
    /\ sync' = [sync EXCEPT ![s].pc = "upsert"]
    /\ damaged' = DamagedBy(s, sync[s].doc)
    /\ disturbed' = disturbed \ {sync[s].doc}
    /\ UNCHANGED <<file, row, exists, watermark, clock, clean>>

\* _upsert_chunks, in batches of one.  A point of the same text that another
\* document had is that document's no more.
Upsert(s) ==
    /\ sync[s].pc = "upsert" /\ exists
    /\ \E c \in sync[s].left :
        /\ vec' = [vec EXCEPT ![c] = sync[s].doc]
        /\ sync' = [sync EXCEPT ![s].left = @ \ {c}]
        /\ LET robbed == {vec[c]} \ {None, sync[s].doc} IN
              /\ damaged' = DamagedBy(s, sync[s].doc) \cup robbed
              /\ disturbed' = disturbed \cup (robbed \cap InWork)
    /\ UNCHANGED <<file, row, exists, watermark, clock, clean>>

\* The mtime of the file as it is by now.
Stat(s) ==
    /\ sync[s].pc = "upsert" /\ sync[s].left = {}
    /\ file[sync[s].doc] # None
    /\ sync' = [sync EXCEPT ![s].pc = "commit", ![s].mtime = file[sync[s].doc].mtime]
    /\ UNCHANGED <<file, row, exists, vec, watermark, clock, clean, damaged, disturbed>>

CommitRow(s) ==
    /\ sync[s].pc = "commit"
    /\ row' = [row EXCEPT ![sync[s].doc] =
           [hash |-> sync[s].text, mtime |-> sync[s].mtime, status |-> "active"]]
    /\ sync' = [sync EXCEPT ![s].pc = "next", ![s].doc = None, ![s].text = None, ![s].mtime = 0]
    /\ damaged' = IF sync[s].alone /\ sync[s].doc \notin disturbed
                  THEN damaged \ {sync[s].doc} ELSE damaged \cup {sync[s].doc}
    /\ disturbed' = disturbed \ {sync[s].doc}
    /\ UNCHANGED <<file, exists, vec, watermark, clock, clean>>

\* _delete_doc, once every document to index is done.
DropVectors(s) ==
    /\ sync[s].pc = "next" /\ sync[s].index = {} /\ exists
    /\ \E d \in sync[s].drop :
        /\ vec' = WithoutVectors(d)
        /\ sync' = [sync EXCEPT ![s].pc = "unrow", ![s].doc = d, ![s].drop = @ \ {d}]
        /\ damaged' = DamagedBy(s, d)
    /\ UNCHANGED <<file, row, exists, watermark, clock, clean, disturbed>>

DropRow(s) ==
    /\ sync[s].pc = "unrow"
    /\ row' = [row EXCEPT ![sync[s].doc].status = "deleted"]
    /\ sync' = [sync EXCEPT ![s].pc = "next", ![s].doc = None]
    /\ damaged' = DamagedBy(s, sync[s].doc)
    /\ UNCHANGED <<file, exists, vec, watermark, clock, clean, disturbed>>

SyncDone(s) == sync[s].pc = "next" /\ sync[s].index = {} /\ sync[s].drop = {}

\* Changed form of FinishSync: the watermark is the time the run ends.
FinishSyncAtEnd(s) ==
    /\ SyncDone(s)
    /\ watermark' \in {clock, watermark}
    /\ sync' = [sync EXCEPT ![s] = Idle]
    /\ UNCHANGED <<file, row, exists, vec, clock, clean, damaged, disturbed>>

\* The watermark moves last; a lost SET is not noticed.
FinishSync(s) ==
    /\ SyncDone(s)
    /\ watermark' \in {sync[s].ts, watermark}
    /\ sync' = [sync EXCEPT ![s] = Idle]
    /\ UNCHANGED <<file, row, exists, vec, clock, clean, damaged, disturbed>>

\* A call raises, a file to read or the collection is gone, or the process stops: what was
\* written stays.
FailSync(s) ==
    /\ sync[s] # Idle
    /\ sync' = [sync EXCEPT ![s] = Idle]
    /\ disturbed' = disturbed \ {sync[s].doc}
    /\ UNCHANGED <<file, row, exists, vec, watermark, clock, clean, damaged>>

(***************************************************************************)
(* vector_cleanup                                                          *)
(***************************************************************************)
ScanVectors(k) ==
    /\ clean[k] = Idle /\ exists
    /\ clean' = [clean EXCEPT ![k] =
           [pc |-> "active", docs |-> {vec[c] : c \in Chunk} \ {None}]]
    /\ UNCHANGED <<file, row, exists, vec, watermark, clock, sync, damaged, disturbed>>

\* Changed form of ReadActive: orphans are the documents with a deleted row.
ReadDeleted(k) ==
    /\ clean[k].pc = "active"
    /\ clean' = [clean EXCEPT ![k].pc = "delete",
                              ![k].docs = {d \in @ : row[d] # None /\ ~Active(d)}]
    /\ UNCHANGED <<file, row, exists, vec, watermark, clock, sync, damaged, disturbed>>

ReadActive(k) ==
    /\ clean[k].pc = "active"
    /\ clean' = [clean EXCEPT ![k].pc = "delete", ![k].docs = {d \in @ : ~Active(d)}]
    /\ UNCHANGED <<file, row, exists, vec, watermark, clock, sync, damaged, disturbed>>

DeleteOrphan(k) ==
    /\ clean[k].pc = "delete" /\ exists
    /\ \E d \in clean[k].docs :
        /\ vec' = WithoutVectors(d)
        /\ clean' = [clean EXCEPT ![k].docs = @ \ {d}]
        /\ damaged' = IF Active(d) THEN damaged \cup {d} ELSE damaged
        /\ disturbed' = disturbed \cup ({d} \cap InWork)
    /\ UNCHANGED <<file, row, exists, watermark, clock, sync>>

CleanDone(k) == clean[k].pc = "delete" /\ clean[k].docs = {}

FinishClean(k) ==
    /\ CleanDone(k)
    /\ clean' = [clean EXCEPT ![k] = Idle]
    /\ UNCHANGED <<file, row, exists, vec, watermark, clock, sync, damaged, disturbed>>

FailClean(k) ==
    /\ clean[k] # Idle
    /\ clean' = [clean EXCEPT ![k] = Idle]
    /\ UNCHANGED <<file, row, exists, vec, watermark, clock, sync, damaged, disturbed>>

\* Redis loses its data.
LoseWatermark ==
    /\ watermark # None
    /\ watermark' = None
    /\ UNCHANGED <<file, row, exists, vec, clock, sync, clean, damaged, disturbed>>

\* Qdrant loses its data.
LoseCollection ==
    /\ exists /\ exists' = FALSE
    /\ vec' = [c \in Chunk |-> None]
    /\ damaged' = damaged \cup {d \in Doc : Active(d)}
    /\ disturbed' = InWork
    /\ UNCHANGED <<file, row, watermark, clock, sync, clean>>

-----------------------------------------------------------------------------
SyncStep(s) ==
    \/ BeginSync(s) \/ EnsureCollection(s) \/ Scan(s) \/ ReadText(s) \/ DeleteVectors(s) \/ Upsert(s)
    \/ Stat(s) \/ CommitRow(s) \/ DropVectors(s) \/ DropRow(s) \/ FinishSync(s)

CleanStep(k) ==
    ScanVectors(k) \/ ReadActive(k) \/ DeleteOrphan(k) \/ FinishClean(k)

Next ==
    \/ \E d \in Doc : Edit(d)
    \/ \E s \in Sync : SyncStep(s) \/ FailSync(s)
    \/ \E k \in Cleaner : CleanStep(k) \/ FailClean(k)
    \/ LoseWatermark \/ LoseCollection

\* Both jobs are started by cron for ever and every run ends.
Fairness ==
    /\ \A s \in Sync : WF_vars(SyncStep(s) \/ FailSync(s))
    /\ \A k \in Cleaner : WF_vars(CleanStep(k) \/ FailClean(k))

Spec == Init /\ [][Next]_vars /\ Fairness

(***************************************************************************)
(* Properties                                                              *)
(***************************************************************************)
Vectors(d) == {c \in Chunk : vec[c] = d}
Indexed(d) ==
    /\ Active(d) /\ row[d].hash = file[d].text
    /\ Vectors(d) = file[d].text

\* The watermark never passes a document that is not searchable as it stands: a
\* file whose last edit is not after it is registered and indexed, whatever
\* failed, was edited during a run or was lost in between.  Files at or before
\* the watermark are not looked at again, so this is what skipping them rests on.
\* It fails for nothing but a document that was robbed since it was indexed: by
\* a cleanup that found its row not yet active, by another document with the same
\* text, by two runs of the sync at once, or with the whole collection.
WatermarkIsSafe ==
    \A d \in Doc \ damaged :
        file[d] # None /\ watermark # None /\ file[d].mtime <= watermark => Indexed(d)

\* Once people stop editing, calls stop failing and the collection stays, it holds
\* the chunks of the files and nothing else, for good: the two jobs together
\* repair what interrupted runs have left.  What they do not repair, however often
\* they run, are the points a document was robbed of: that takes an edit of it.
Disturbance ==
    \/ \E d \in Doc : Edit(d)
    \/ \E s \in Sync : FailSync(s) /\ ~SyncDone(s)
    \/ \E k \in Cleaner : FailClean(k) /\ ~CleanDone(k)
    \/ LoseCollection
Converges ==
    <>[][~Disturbance]_vars =>
        <>[](\A d \in Doc : IF file[d] = None THEN ~Active(d) /\ Vectors(d) = {}
                             ELSE d \in damaged \/ Indexed(d))

(***************************************************************************)
(* What the documentation says, and overlapping jobs do not keep           *)
(***************************************************************************)
\* "Orphan vectors: the source_doc_id is no longer in the docs table (active)
\* -> delete": a document whose row is committed after the cleanup has read the
\* table loses the vectors it has just got, and stays active without them.  TLC
\* refutes it.
CleanupSparesActive ==
    [][\A k \in Cleaner, d \in Doc :
           clean[k] # Idle /\ d \in clean[k].docs /\ clean'[k] # Idle
               /\ d \notin clean'[k].docs /\ clean[k].pc = "delete" => ~Active(d)]_vars
=============================================================================
