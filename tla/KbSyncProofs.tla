---------------------------- MODULE KbSyncProofs ----------------------------
(***************************************************************************)
(* Proofs about KbSync for any documents, texts and number of runs of both *)
(* jobs, however they overlap.  The argument: what matters is not whether  *)
(* a document is indexed but whether its row claims so (Claimed).  A run   *)
(* that is alone only touches vectors of documents whose row claims        *)
(* nothing, editing a file takes the claim away at once, and whatever else *)
(* touches a document damages it.                                          *)
(***************************************************************************)
EXTENDS KbSync, TLAPS

\* A run works on a document from its reading to its row.
Working == {"delete", "upsert", "commit", "unrow"}

\* Rows stay, so what a run r has found in the table is still there; a run that
\* works on a document knows which, and with which text.
Knows(r) ==
    /\ \A d \in Doc : r.rows[d] # None => row[d] # None
    /\ \A d \in r.drop : row[d] # None
    /\ r.pc \in Working => r.doc \in Doc
    /\ r.pc \in {"delete", "upsert", "commit"} => r.text \in Text
    /\ r.pc = "unrow" => row[r.doc] # None

RunsKnow == \A s \in Sync : sync[s] # Idle => Knows(sync[s])

TInv == TypeOK /\ RunsKnow

\* The row of d says that the file, as it stands, is indexed.
Claimed(d) ==
    /\ file[d] # None /\ Active(d)
    /\ row[d].hash = file[d].text /\ row[d].mtime >= file[d].mtime

\* Nothing is later than the clock.
StoresOK ==
    /\ \A d \in Doc : file[d] # None => file[d].mtime <= clock
    /\ \A d \in Doc : row[d] # None => row[d].mtime <= clock
    /\ watermark # None => watermark <= clock

\* A claim is true, and up to the watermark every file has one, of all documents
\* that are not damaged.
ClaimsAreTrue == \A d \in Doc \ damaged : Claimed(d) => Vectors(d) = file[d].text
UpToWatermark == \A d \in Doc \ damaged :
    file[d] # None /\ watermark # None /\ file[d].mtime <= watermark => Claimed(d)

\* A run that is alone has no other beside it, and no watermark is ahead of it.
AloneOK(s) == sync[s].alone =>
    /\ \A t \in Sync : t # s => sync[t] = Idle
    /\ watermark # None => watermark <= sync[s].ts

\* What a run has found in the table and does not yet use is still so.
Read(s) == sync[s].pc \in {"ensure", "scan"} =>
    /\ sync[s].index = {} /\ sync[s].drop = {}
    /\ \A d \in Doc \ damaged : sync[s].rows[d] = row[d]

\* What a run has before it is claimed by no row, and each document is before it
\* once.
Before(s) ==
    /\ \A d \in (sync[s].index \cup sync[s].drop) \ damaged : ~Claimed(d)
    /\ sync[s].index \cap sync[s].drop = {}
    /\ sync[s].pc \in Working =>
         /\ ~Claimed(sync[s].doc) \/ sync[s].doc \in damaged
         /\ sync[s].doc \notin sync[s].index \cup sync[s].drop

\* The points of a document that a run alone has in work, and nothing disturbed,
\* are those of the text that was read, as far as they are upserted.  The text is
\* that of the file, if the file is not younger than the run.
InHand(s) == sync[s].pc \in {"delete", "upsert", "commit"} =>
    /\ sync[s].left \subseteq sync[s].text
    /\ sync[s].pc = "delete" => sync[s].left = sync[s].text
    /\ sync[s].pc = "commit" => sync[s].left = {} /\ sync[s].mtime <= clock
    /\ sync[s].pc # "delete" /\ sync[s].alone /\ sync[s].doc \notin disturbed =>
         Vectors(sync[s].doc) = sync[s].text \ sync[s].left
    /\ file[sync[s].doc] # None /\ file[sync[s].doc].mtime <= sync[s].ts =>
         /\ sync[s].text = file[sync[s].doc].text
         /\ sync[s].pc = "commit" => sync[s].mtime >= file[sync[s].doc].mtime

\* A file as old as the run is claimed, before the run, or in work.
Covers(s) == sync[s].pc \notin {"ensure", "scan"} =>
    \A d \in Doc \ damaged : file[d] # None /\ file[d].mtime <= sync[s].ts =>
        \/ Claimed(d)
        \/ d \in sync[s].index
        \/ sync[s].pc \in {"delete", "upsert", "commit"} /\ d = sync[s].doc

RunOK(s) ==
    /\ sync[s].ts <= clock
    /\ AloneOK(s) /\ Read(s) /\ Before(s) /\ InHand(s) /\ Covers(s)

RunsOK == \A s \in Sync : sync[s] # Idle => RunOK(s)

IInv == TInv /\ StoresOK /\ ClaimsAreTrue /\ UpToWatermark /\ RunsOK

(***************************************************************************)
(* Types                                                                   *)
(***************************************************************************)
\* A run that is not idle has all its fields.
LEMMA Busy ==
    ASSUME TypeOK, NEW s \in Sync
    PROVE  /\ sync[s] # Idle => sync[s] \in SyncRun /\ sync[s].pc # "idle"
           /\ sync[s].pc # "idle" => sync[s] \in SyncRun /\ sync[s] # Idle
BY DEF TypeOK, SyncRun, Idle

LEMMA BusyCleaner ==
    ASSUME TypeOK, NEW k \in Cleaner
    PROVE  /\ clean[k] # Idle => clean[k] \in CleanRun /\ clean[k].pc # "idle"
           /\ clean[k].pc # "idle" => clean[k] \in CleanRun /\ clean[k] # Idle
BY DEF TypeOK, CleanRun, Idle

LEMMA Chunks == \A t \in Text : t \in SUBSET Chunk
BY DEF Chunk

\* A step of run s, which writes at most the rows, the points and the watermark.
LEMMA SyncKeepsTypes ==
    ASSUME TInv, NEW s \in Sync, UNCHANGED <<file, clock, clean>>,
           sync' = [sync EXCEPT ![s] = sync'[s]], sync'[s] \in SyncRun \cup {Idle},
           row' \in [Doc -> Row \cup {None}], \A d \in Doc : row[d] # None => row'[d] # None,
           exists' \in BOOLEAN, vec' \in [Chunk -> Doc \cup {None}],
           watermark' \in Time \cup {None}, damaged' \subseteq Doc, disturbed' \subseteq Doc,
           sync'[s] # Idle => Knows(sync[s])'
    PROVE  TInv'
<1>1. TypeOK'
    BY DEF TInv, TypeOK
<1>2. ASSUME NEW t \in Sync, t # s, sync'[t] # Idle PROVE Knows(sync[t])'
    <2>1. sync'[t] = sync[t] /\ Knows(sync[t])
        BY <1>2 DEF TInv, TypeOK, RunsKnow
    <2>2. sync[t] \in SyncRun
        BY <2>1, <1>2, Busy DEF TInv
    <2>3. sync[t].drop \subseteq Doc /\ (sync[t].pc = "unrow" => sync[t].doc \in Doc)
        BY <2>1, <2>2 DEF SyncRun, Knows, Working
    <2> QED BY <2>1, <2>3 DEF Knows
<1>3. RunsKnow'
    BY <1>2 DEF RunsKnow
<1> QED BY <1>1, <1>3 DEF TInv

\* A step that leaves rows and runs of the sync alone.
LEMMA OtherKeepsTypes ==
    ASSUME TInv, UNCHANGED <<row, sync>>, TypeOK'
    PROVE  TInv'
BY DEF TInv, RunsKnow, Knows

LEMMA VectorsRemoved ==
    ASSUME TypeOK, NEW d \in Doc
    PROVE  WithoutVectors(d) \in [Chunk -> Doc \cup {None}]
BY DEF TypeOK, WithoutVectors

\* What the start of a run does to it and to the others.
LEMMA Begun ==
    ASSUME TInv, NEW s \in Sync, BeginSync(s)
    PROVE  /\ sync[s] = Idle /\ DOMAIN sync' = Sync
           /\ sync'[s] = [pc |-> "ensure", alone |-> \A t \in Sync : sync[t] = Idle,
                           ts |-> clock, rows |-> row, index |-> {}, drop |-> {},
                           doc |-> None, text |-> None, left |-> {}, mtime |-> 0]
           /\ sync'[s] \in SyncRun /\ sync'[s] # Idle
           /\ \A t \in Sync : t # s /\ sync[t] = Idle => sync'[t] = Idle
           /\ \A t \in Sync : t # s /\ sync[t] # Idle =>
                /\ sync'[t] = [sync[t] EXCEPT !.alone = FALSE]
                /\ sync'[t] \in SyncRun /\ sync'[t] # Idle
<1> DEFINE new == [pc |-> "ensure", alone |-> \A t \in Sync : sync[t] = Idle,
                   ts |-> clock, rows |-> row, index |-> {}, drop |-> {},
                   doc |-> None, text |-> None, left |-> {}, mtime |-> 0]
<1>1. sync[s] = Idle /\ sync' = [t \in Sync |-> IF t = s THEN new
                                              ELSE IF sync[t] = Idle THEN Idle
                                              ELSE [sync[t] EXCEPT !.alone = FALSE]]
    BY DEF BeginSync
<1>2. new \in SyncRun /\ new.pc # "idle"
    <2>1. 0 \in Time /\ (\A t \in Sync : sync[t] = Idle) \in BOOLEAN
        BY ClockAssumption DEF Time
    <2> QED BY <2>1 DEF TInv, TypeOK, SyncRun
<1>3. ASSUME NEW t \in Sync, sync[t] # Idle
      PROVE  [sync[t] EXCEPT !.alone = FALSE] \in SyncRun /\ [sync[t] EXCEPT !.alone = FALSE] # Idle
    <2>1. sync[t] \in SyncRun
        BY <1>3 DEF TInv, TypeOK
    <2>2. [sync[t] EXCEPT !.alone = FALSE] \in SyncRun
        BY <2>1 DEF SyncRun
    <2> QED BY <2>2 DEF SyncRun, Idle
<1>4. new # Idle
    BY <1>2 DEF Idle
<1> HIDE DEF new
<1>5. /\ DOMAIN sync' = Sync /\ sync'[s] = new
      /\ \A t \in Sync : t # s /\ sync[t] = Idle => sync'[t] = Idle
      /\ \A t \in Sync : t # s /\ sync[t] # Idle => sync'[t] = [sync[t] EXCEPT !.alone = FALSE]
    BY <1>1
<1> QED
    BY <1>1, <1>2, <1>3, <1>4, <1>5 DEF new

LEMMA BeginSyncTypes ==
    ASSUME TInv, NEW s \in Sync, BeginSync(s)
    PROVE  TInv'
<1>1. sync' \in [Sync -> SyncRun \cup {Idle}]
    <2>1. \A t \in Sync : sync'[t] \in SyncRun \cup {Idle}
        BY Begun
    <2>2. sync' = [t \in Sync |-> sync'[t]]
        BY DEF BeginSync
    <2> QED BY <2>1, <2>2
<1>2. TypeOK'
    BY <1>1 DEF BeginSync, TInv, TypeOK
<1>3. Knows(sync[s])'
    BY Begun DEF BeginSync, TInv, TypeOK, Knows, Working
<1>4. ASSUME NEW t \in Sync, t # s, sync'[t] # Idle PROVE Knows(sync[t])'
    <2>1. /\ sync[t] \in SyncRun /\ Knows(sync[t])
          /\ sync'[t] = [sync[t] EXCEPT !.alone = FALSE]
        BY <1>4, Begun DEF TInv, TypeOK, RunsKnow
    <2>2. /\ sync'[t].rows = sync[t].rows /\ sync'[t].drop = sync[t].drop
          /\ sync'[t].pc = sync[t].pc /\ sync'[t].doc = sync[t].doc /\ sync'[t].text = sync[t].text
        BY <2>1 DEF SyncRun
    <2> QED BY <2>1, <2>2 DEF BeginSync, Knows
<1> QED
    BY <1>2, <1>3, <1>4 DEF TInv, RunsKnow

LEMMA EnsureTypes ==
    ASSUME TInv, NEW s \in Sync, EnsureCollection(s)
    PROVE  TInv'
<1>1. sync[s] \in SyncRun /\ sync[s].pc = "ensure" /\ sync[s] # Idle /\ Knows(sync[s])
    BY Busy DEF EnsureCollection, TInv, RunsKnow
<1>2. /\ sync' = [sync EXCEPT ![s] = sync'[s]]
      /\ sync'[s] = [sync[s] EXCEPT !.pc = "scan"]
    BY DEF EnsureCollection, TInv, TypeOK
<1>3. sync'[s] \in SyncRun /\ Knows(sync[s])'
    BY <1>1, <1>2 DEF EnsureCollection, Knows, Working, SyncRun
<1> QED
    BY <1>2, <1>3, SyncKeepsTypes DEF EnsureCollection, TInv, TypeOK

LEMMA ScanTypes ==
    ASSUME TInv, NEW s \in Sync, Scan(s)
    PROVE  TInv'
<1>1. sync[s] \in SyncRun /\ sync[s].pc = "scan" /\ sync[s] # Idle /\ Knows(sync[s])
    BY Busy DEF Scan, TInv, RunsKnow
<1>2. /\ sync' = [sync EXCEPT ![s] = sync'[s]]
      /\ sync'[s] = [sync[s] EXCEPT !.pc = "next", !.rows = NoRows,
                                     !.index = sync'[s].index, !.drop = sync'[s].drop]
      /\ sync'[s].index \subseteq Doc
      /\ sync'[s].drop = {d \in Doc : /\ file[d] = None /\ sync[s].rows[d] # None
                                       /\ sync[s].rows[d].status = "active"}
    <2>1. PICK last \in {watermark, None} :
            sync' = [sync EXCEPT
                 ![s].pc = "next",
                 ![s].rows = NoRows,
                 ![s].index = {d \in Doc : file[d] # None /\ MustIndex(d, sync[s].rows[d], last)},
                 ![s].drop = {d \in Doc : /\ file[d] = None /\ sync[s].rows[d] # None
                                          /\ sync[s].rows[d].status = "active"}]
        BY DEF Scan
    <2>2. sync'[s] = [sync[s] EXCEPT
                 !.pc = "next",
                 !.rows = NoRows,
                 !.index = {d \in Doc : file[d] # None /\ MustIndex(d, sync[s].rows[d], last)},
                 !.drop = {d \in Doc : /\ file[d] = None /\ sync[s].rows[d] # None
                                       /\ sync[s].rows[d].status = "active"}]
        BY <2>1 DEF TInv, TypeOK
    <2>3. sync' = [sync EXCEPT ![s] = sync'[s]]
        BY <2>1, <2>2 DEF TInv, TypeOK
    <2> QED BY <1>1, <2>2, <2>3 DEF SyncRun
<1>3. NoRows \in [Doc -> Row \cup {None}]
    BY DEF NoRows
<1>4. sync'[s] \in SyncRun /\ sync'[s].pc = "next" /\ sync'[s].rows = NoRows
    BY <1>1, <1>2, <1>3 DEF SyncRun
<1>5. Knows(sync[s])'
    BY <1>1, <1>2, <1>4 DEF Scan, Knows, Working, NoRows
<1> QED
    BY <1>2, <1>4, <1>5, SyncKeepsTypes DEF Scan, TInv, TypeOK

LEMMA ReadTextTypes ==
    ASSUME TInv, NEW s \in Sync, ReadText(s)
    PROVE  TInv'
<1>1. sync[s] \in SyncRun /\ sync[s].pc = "next" /\ sync[s] # Idle /\ Knows(sync[s])
    BY Busy DEF ReadText, TInv, RunsKnow
<1>2. PICK d \in sync[s].index :
        /\ file[d] # None
        /\ sync' = [sync EXCEPT ![s].pc = "delete", ![s].doc = d, ![s].index = @ \ {d},
                                ![s].text = file[d].text, ![s].left = file[d].text]
    BY DEF ReadText
<1>3. d \in Doc /\ file[d].text \in Text /\ file[d].text \in SUBSET Chunk
    BY <1>1, <1>2, Chunks DEF TInv, TypeOK, SyncRun, File
<1>4. /\ sync' = [sync EXCEPT ![s] = sync'[s]]
      /\ sync'[s] = [sync[s] EXCEPT !.pc = "delete", !.doc = d, !.index = sync[s].index \ {d},
                                     !.text = file[d].text, !.left = file[d].text]
    BY <1>1, <1>2 DEF TInv, TypeOK
<1>5. sync'[s] \in SyncRun
    <2>1. sync[s].index \ {d} \in SUBSET Doc
        BY <1>1 DEF SyncRun
    <2> QED BY <1>1, <1>3, <1>4, <2>1 DEF SyncRun
<1>6. Knows(sync[s])'
    BY <1>1, <1>3, <1>4 DEF ReadText, Knows, Working, SyncRun
<1> QED
    BY <1>4, <1>5, <1>6, SyncKeepsTypes DEF ReadText, TInv, TypeOK

LEMMA DeleteVectorsTypes ==
    ASSUME TInv, NEW s \in Sync, DeleteVectors(s)
    PROVE  TInv'
<1>1. sync[s] \in SyncRun /\ sync[s].pc = "delete" /\ sync[s] # Idle /\ Knows(sync[s])
    BY Busy DEF DeleteVectors, TInv, RunsKnow
<1>2. /\ sync' = [sync EXCEPT ![s] = sync'[s]]
      /\ sync'[s] = [sync[s] EXCEPT !.pc = "upsert"]
    BY <1>1 DEF DeleteVectors, TInv, TypeOK
<1>3. sync'[s] \in SyncRun /\ Knows(sync[s])'
    BY <1>1, <1>2 DEF DeleteVectors, Knows, Working, SyncRun
<1>4. vec' \in [Chunk -> Doc \cup {None}]
    BY <1>1, VectorsRemoved DEF DeleteVectors, Knows, Working, TInv
<1> QED
    BY <1>1, <1>2, <1>3, <1>4, SyncKeepsTypes
       DEF DeleteVectors, DamagedBy, Knows, Working, TInv, TypeOK

LEMMA UpsertTypes ==
    ASSUME TInv, NEW s \in Sync, Upsert(s)
    PROVE  TInv'
<1>1. /\ sync[s] \in SyncRun /\ sync[s].pc = "upsert" /\ sync[s] # Idle /\ Knows(sync[s])
      /\ sync[s].doc \in Doc
    BY Busy DEF Upsert, TInv, RunsKnow, Knows, Working
<1>2. PICK c \in sync[s].left :
        /\ vec' = [vec EXCEPT ![c] = sync[s].doc]
        /\ sync' = [sync EXCEPT ![s].left = @ \ {c}]
        /\ damaged' = DamagedBy(s, sync[s].doc) \cup ({vec[c]} \ {None, sync[s].doc})
        /\ disturbed' = disturbed \cup (({vec[c]} \ {None, sync[s].doc}) \cap InWork)
    BY DEF Upsert
<1>3. /\ sync' = [sync EXCEPT ![s] = sync'[s]]
      /\ sync'[s] = [sync[s] EXCEPT !.left = sync[s].left \ {c}]
    BY <1>1, <1>2 DEF TInv, TypeOK
<1>4. sync'[s] \in SyncRun /\ Knows(sync[s])'
    BY <1>1, <1>3 DEF Upsert, Knows, Working, SyncRun
<1>5. vec' \in [Chunk -> Doc \cup {None}]
    BY <1>1, <1>2 DEF TInv, TypeOK
<1>6. damaged' \subseteq Doc /\ disturbed' \subseteq Doc
    <2>1. vec[c] \in Doc \cup {None}
        BY <1>1, <1>2 DEF SyncRun, TInv, TypeOK
    <2>2. {vec[c]} \ {None, sync[s].doc} \subseteq Doc
        BY <2>1
    <2> QED BY <1>1, <1>2, <2>2 DEF DamagedBy, InWork, TInv, TypeOK
<1> QED
    BY <1>3, <1>4, <1>5, <1>6, SyncKeepsTypes DEF Upsert, TInv, TypeOK

LEMMA StatTypes ==
    ASSUME TInv, NEW s \in Sync, Stat(s)
    PROVE  TInv'
<1>1. /\ sync[s] \in SyncRun /\ sync[s].pc = "upsert" /\ sync[s] # Idle /\ Knows(sync[s])
      /\ sync[s].doc \in Doc
    BY Busy DEF Stat, TInv, RunsKnow, Knows, Working
<1>2. file[sync[s].doc].mtime \in Time
    BY <1>1 DEF Stat, TInv, TypeOK, File
<1>3. /\ sync' = [sync EXCEPT ![s] = sync'[s]]
      /\ sync'[s] = [sync[s] EXCEPT !.pc = "commit", !.mtime = file[sync[s].doc].mtime]
    BY <1>1 DEF Stat, TInv, TypeOK
<1>4. sync'[s] \in SyncRun
    BY <1>1, <1>2, <1>3 DEF SyncRun
<1>5. Knows(sync[s])'
    <2>1. /\ sync'[s].pc = "commit" /\ sync'[s].doc = sync[s].doc /\ sync'[s].text = sync[s].text
          /\ sync'[s].rows = sync[s].rows /\ sync'[s].drop = sync[s].drop
        BY <1>1, <1>3 DEF SyncRun
    <2> QED BY <1>1, <2>1 DEF Stat, Knows, Working
<1> QED
    BY <1>3, <1>4, <1>5, SyncKeepsTypes DEF Stat, TInv, TypeOK

LEMMA CommitRowTypes ==
    ASSUME TInv, NEW s \in Sync, CommitRow(s)
    PROVE  TInv'
<1>1. /\ sync[s] \in SyncRun /\ sync[s].pc = "commit" /\ sync[s] # Idle /\ Knows(sync[s])
      /\ sync[s].doc \in Doc /\ sync[s].text \in Text
    BY Busy DEF CommitRow, TInv, RunsKnow, Knows, Working
<1> DEFINE new == [hash |-> sync[s].text, mtime |-> sync[s].mtime, status |-> "active"]
<1>2. new \in Row /\ new # None
    BY <1>1, NoneAssumption DEF Row, SyncRun
<1>3. row' = [row EXCEPT ![sync[s].doc] = new]
    BY DEF CommitRow
<1> HIDE DEF new
<1>4. row' \in [Doc -> Row \cup {None}] /\ \A d \in Doc : row[d] # None => row'[d] # None
    BY <1>1, <1>2, <1>3 DEF TInv, TypeOK
<1>5. /\ sync' = [sync EXCEPT ![s] = sync'[s]]
      /\ sync'[s] = [sync[s] EXCEPT !.pc = "next", !.doc = None, !.text = None, !.mtime = 0]
    BY <1>1 DEF CommitRow, TInv, TypeOK
<1>6. sync'[s] \in SyncRun
    <2>1. 0 \in Time
        BY ClockAssumption DEF Time
    <2> QED BY <1>1, <1>5, <2>1 DEF SyncRun
<1>7. Knows(sync[s])'
    BY <1>1, <1>4, <1>5 DEF Knows, Working, SyncRun
<1> QED
    BY <1>1, <1>4, <1>5, <1>6, <1>7, SyncKeepsTypes DEF CommitRow, TInv, TypeOK

LEMMA DropVectorsTypes ==
    ASSUME TInv, NEW s \in Sync, DropVectors(s)
    PROVE  TInv'
<1>1. sync[s] \in SyncRun /\ sync[s].pc = "next" /\ sync[s] # Idle /\ Knows(sync[s])
    BY Busy DEF DropVectors, TInv, RunsKnow
<1>2. PICK d \in sync[s].drop :
        /\ vec' = WithoutVectors(d)
        /\ sync' = [sync EXCEPT ![s].pc = "unrow", ![s].doc = d, ![s].drop = @ \ {d}]
        /\ damaged' = DamagedBy(s, d)
    BY DEF DropVectors
<1>3. d \in Doc /\ row[d] # None
    BY <1>1 DEF Knows, SyncRun
<1>4. /\ sync' = [sync EXCEPT ![s] = sync'[s]]
      /\ sync'[s] = [sync[s] EXCEPT !.pc = "unrow", !.doc = d, !.drop = sync[s].drop \ {d}]
    BY <1>1, <1>2 DEF TInv, TypeOK
<1>5. sync'[s] \in SyncRun
    BY <1>1, <1>3, <1>4 DEF SyncRun
<1>7. Knows(sync[s])'
    <2>1. /\ sync'[s].pc = "unrow" /\ sync'[s].doc = d
          /\ sync'[s].rows = sync[s].rows /\ sync'[s].drop = sync[s].drop \ {d}
        BY <1>1, <1>4 DEF SyncRun
    <2> QED BY <1>1, <1>3, <2>1 DEF DropVectors, Knows, Working
<1>6. vec' \in [Chunk -> Doc \cup {None}]
    BY <1>2, <1>3, VectorsRemoved DEF TInv
<1> QED
    BY <1>2, <1>3, <1>4, <1>5, <1>6, <1>7, SyncKeepsTypes
       DEF DropVectors, DamagedBy, TInv, TypeOK

LEMMA DropRowTypes ==
    ASSUME TInv, NEW s \in Sync, DropRow(s)
    PROVE  TInv'
<1>1. /\ sync[s] \in SyncRun /\ sync[s].pc = "unrow" /\ sync[s] # Idle /\ Knows(sync[s])
      /\ sync[s].doc \in Doc /\ row[sync[s].doc] # None
    BY Busy DEF DropRow, TInv, RunsKnow, Knows, Working
<1> DEFINE new == [row[sync[s].doc] EXCEPT !.status = "deleted"]
<1>2. new \in Row /\ new # None
    <2>1. row[sync[s].doc] \in Row
        BY <1>1 DEF TInv, TypeOK
    <2> QED BY <2>1, NoneAssumption DEF Row
<1>3. row' = [row EXCEPT ![sync[s].doc] = new]
    BY DEF DropRow
<1> HIDE DEF new
<1>4. row' \in [Doc -> Row \cup {None}] /\ \A d \in Doc : row[d] # None => row'[d] # None
    BY <1>1, <1>2, <1>3 DEF TInv, TypeOK
<1>5. /\ sync' = [sync EXCEPT ![s] = sync'[s]]
      /\ sync'[s] = [sync[s] EXCEPT !.pc = "next", !.doc = None]
    BY <1>1 DEF DropRow, TInv, TypeOK
<1>6. sync'[s] \in SyncRun
    BY <1>1, <1>5 DEF SyncRun
<1>7. Knows(sync[s])'
    BY <1>1, <1>4, <1>5 DEF Knows, Working, SyncRun
<1> QED
    BY <1>1, <1>4, <1>5, <1>6, <1>7, SyncKeepsTypes DEF DropRow, DamagedBy, TInv, TypeOK

LEMMA EndSyncTypes ==
    ASSUME TInv, NEW s \in Sync, FinishSync(s) \/ FailSync(s)
    PROVE  TInv'
<1>1. sync' = [sync EXCEPT ![s] = sync'[s]] /\ sync'[s] = Idle
    BY DEF FinishSync, FailSync, TInv, TypeOK
<1>2. watermark' \in Time \cup {None}
    <2>1. CASE FinishSync(s)
        <3>1. sync[s].ts \in Time
            BY <2>1, Busy DEF FinishSync, SyncDone, TInv, SyncRun
        <3> QED BY <2>1, <3>1 DEF FinishSync, TInv, TypeOK
    <2>2. CASE FailSync(s)
        BY <2>2 DEF FailSync, TInv, TypeOK
    <2> QED BY <2>1, <2>2
<1> QED
    BY <1>1, <1>2, SyncKeepsTypes DEF FinishSync, FailSync, TInv, TypeOK

\* The cleanup writes points and its own state.
LEMMA CleanerTypes ==
    ASSUME TInv, NEW k \in Cleaner, CleanStep(k) \/ FailClean(k)
    PROVE  TInv'
<1>1. CASE ScanVectors(k)
    <2>1. [pc |-> "active", docs |-> {vec[c] : c \in Chunk} \ {None}] \in CleanRun
        BY DEF TInv, TypeOK, CleanRun
    <2> QED BY <1>1, <2>1, OtherKeepsTypes DEF ScanVectors, TInv, TypeOK
<1>2. CASE ReadActive(k)
    <2>1. clean[k] \in CleanRun
        BY <1>2, BusyCleaner DEF ReadActive, TInv
    <2>2. [clean[k] EXCEPT !.pc = "delete", !.docs = {d \in clean[k].docs : ~Active(d)}] \in CleanRun
        BY <2>1 DEF CleanRun
    <2> QED BY <1>2, <2>1, <2>2, OtherKeepsTypes DEF ReadActive, TInv, TypeOK
<1>3. CASE DeleteOrphan(k)
    <2>1. clean[k] \in CleanRun
        BY <1>3, BusyCleaner DEF DeleteOrphan, TInv
    <2>2. PICK d \in clean[k].docs :
            /\ vec' = WithoutVectors(d) /\ clean' = [clean EXCEPT ![k].docs = @ \ {d}]
            /\ damaged' = IF Active(d) THEN damaged \cup {d} ELSE damaged
            /\ disturbed' = disturbed \cup ({d} \cap InWork)
        BY <1>3 DEF DeleteOrphan
    <2>3. [clean[k] EXCEPT !.docs = clean[k].docs \ {d}] \in CleanRun /\ d \in Doc
        BY <2>1 DEF CleanRun
    <2>4. /\ vec' \in [Chunk -> Doc \cup {None}]
          /\ damaged' \subseteq Doc /\ disturbed' \subseteq Doc
        BY <2>2, <2>3, VectorsRemoved DEF TInv, TypeOK
    <2> QED BY <1>3, <2>2, <2>3, <2>4, OtherKeepsTypes DEF DeleteOrphan, TInv, TypeOK
<1>4. CASE FinishClean(k) \/ FailClean(k)
    BY <1>4, OtherKeepsTypes DEF FinishClean, FailClean, TInv, TypeOK
<1> QED
    BY <1>1, <1>2, <1>3, <1>4 DEF CleanStep

LEMMA EditTypes ==
    ASSUME TInv, NEW d \in Doc, Edit(d)
    PROVE  TInv'
<1>1. clock' \in Time
    BY ClockAssumption DEF Edit, TInv, TypeOK, Time
<1>2. PICK t \in TextsOf[d] \cup {None} :
        file' = [file EXCEPT ![d] = IF t = None THEN None ELSE [text |-> t, mtime |-> clock']]
    BY DEF Edit
<1>3. t # None => [text |-> t, mtime |-> clock'] \in File
    BY <1>1 DEF File, Text
<1>4. file' \in [Doc -> File \cup {None}]
    BY <1>2, <1>3 DEF TInv, TypeOK
<1> QED
    BY <1>1, <1>4, OtherKeepsTypes DEF Edit, TInv, TypeOK

LEMMA InitTypes == Init => TInv
<1> SUFFICES ASSUME Init PROVE TInv
    OBVIOUS
<1>1. 0 \in Time
    BY ClockAssumption DEF Time
<1>2. file \in [Doc -> File \cup {None}]
    BY <1>1 DEF Init, File
<1> QED
    BY <1>1, <1>2 DEF Init, TInv, TypeOK, RunsKnow, NoRows

LEMMA NextTypes == TInv /\ [Next]_vars => TInv'
<1> SUFFICES ASSUME TInv, [Next]_vars PROVE TInv'
    OBVIOUS
<1>1. ASSUME NEW s \in Sync, SyncStep(s) \/ FailSync(s) PROVE TInv'
    BY <1>1, BeginSyncTypes, ScanTypes, ReadTextTypes, DeleteVectorsTypes, UpsertTypes, StatTypes,
       CommitRowTypes, DropVectorsTypes, DropRowTypes, EndSyncTypes, EnsureTypes DEF SyncStep
<1>2. ASSUME NEW k \in Cleaner, CleanStep(k) \/ FailClean(k) PROVE TInv'
    BY <1>2, CleanerTypes
<1>3. ASSUME NEW d \in Doc, Edit(d) PROVE TInv'
    BY <1>3, EditTypes
<1>4. CASE LoseWatermark \/ LoseCollection \/ UNCHANGED vars
    <2>1. TypeOK'
        BY <1>4 DEF LoseWatermark, LoseCollection, InWork, vars, TInv, TypeOK
    <2> QED BY <1>4, <2>1, OtherKeepsTypes DEF LoseWatermark, LoseCollection, vars
<1> QED
    BY <1>1, <1>2, <1>3, <1>4 DEF Next

\* Every reachable state of files, rows, points, watermark and runs is well
\* typed, however the runs overlap.
THEOREM TypeCorrect == Spec => []TypeOK
<1>1. TInv => TypeOK
    BY DEF TInv
<1> QED
    BY <1>1, InitTypes, NextTypes, PTL DEF Spec

(***************************************************************************)
(* The watermark                                                           *)
(***************************************************************************)
LEMMA Typed == IInv => TypeOK
BY DEF IInv, TInv

\* What an active run knows, in one place.
LEMMA Run ==
    ASSUME IInv, NEW s \in Sync, sync[s].pc # "idle"
    PROVE  /\ sync[s] # Idle /\ sync[s] \in SyncRun /\ RunOK(s) /\ Knows(sync[s])
           /\ sync[s].pc \in Working => sync[s].doc \in Doc
           /\ sync[s].index \subseteq Doc /\ sync[s].drop \subseteq Doc
BY Busy DEF IInv, TInv, RunsOK, RunsKnow, Knows, SyncRun

\* Beside a run that is not idle no other is alone, and what that one touches of
\* a document damages it: the others do not notice.
LEMMA OthersStay ==
    ASSUME IInv, NEW s \in Sync, NEW t \in Sync, t # s, sync[s] # Idle, sync[t] # Idle,
           sync'[t] = sync[t], UNCHANGED <<file, clock>>, damaged \subseteq damaged',
           \A e \in Doc \ damaged' : row'[e] = row[e]
    PROVE  RunOK(t)'
<1>1. /\ RunOK(t) /\ ~sync[t].alone
      /\ sync[t].index \subseteq Doc /\ sync[t].drop \subseteq Doc
      /\ sync[t].pc \in Working => sync[t].doc \in Doc
    BY Run, Typed, Busy DEF RunOK, AloneOK
<1>2. \A e \in Doc \ damaged' : Claimed(e)' <=> Claimed(e)
    BY DEF Claimed, Active
<1>3. AloneOK(t)' /\ Read(t)'
    BY <1>1 DEF RunOK, AloneOK, Read
<1>4. Before(t)'
    <2>1. ASSUME sync[t].pc \in Working
          PROVE  (\E e \in Doc : e = sync[t].doc /\ ~Claimed(e)') \/ sync[t].doc \in damaged'
        BY <2>1, <1>1, <1>2 DEF RunOK, Before
    <2>2. sync[t].pc \in Working => ~Claimed(sync[t].doc)' \/ sync[t].doc \in damaged'
        BY <2>1 DEF Claimed, Active
    <2>3. \A e \in (sync[t].index \cup sync[t].drop) \ damaged' : ~Claimed(e)'
        BY <1>1, <1>2 DEF RunOK, Before
    <2> QED BY <2>2, <2>3, <1>1 DEF RunOK, Before, Claimed, Active
<1>5. InHand(t)'
    BY <1>1 DEF RunOK, InHand
<1>6. Covers(t)'
    BY <1>1, <1>2 DEF RunOK, Covers
<1> QED BY <1>1, <1>3, <1>4, <1>5, <1>6 DEF RunOK

\* A step of one run.
LEMMA SyncKeeps ==
    ASSUME IInv, TInv', NEW s \in Sync, sync[s] # Idle, UNCHANGED <<file, clock>>,
           sync' = [sync EXCEPT ![s] = sync'[s]],
           StoresOK', ClaimsAreTrue', UpToWatermark', sync'[s] # Idle => RunOK(s)',
           ~sync[s].alone => /\ damaged \subseteq damaged'
                             /\ \A e \in Doc \ damaged' : row'[e] = row[e]
    PROVE  IInv'
<1>1. ASSUME NEW t \in Sync, t # s, sync'[t] # Idle PROVE RunOK(t)'
    <2>1. sync'[t] = sync[t]
        BY <1>1, Typed DEF TypeOK
    <2>2. RunOK(s)
        BY DEF IInv, RunsOK
    <2>3. ~sync[s].alone
        BY <1>1, <2>1, <2>2 DEF RunOK, AloneOK
    <2> QED BY <1>1, <2>1, <2>3, OthersStay
<1> QED BY <1>1 DEF IInv, RunsOK

\* A step that leaves files, rows and points alone.
LEMMA StoresStay ==
    ASSUME IInv, UNCHANGED <<file, row, vec, clock, damaged>>, watermark' \in {watermark, None}
    PROVE  /\ StoresOK' /\ ClaimsAreTrue' /\ UpToWatermark'
           /\ \A d \in Doc : Claimed(d)' <=> Claimed(d)
           /\ \A d \in Doc : Vectors(d)' = Vectors(d)
<1>1. \A d \in Doc : Claimed(d)' <=> Claimed(d)
    BY DEF Claimed, Active
<1>2. \A d \in Doc : Vectors(d)' = Vectors(d)
    BY DEF Vectors
<1>3. StoresOK'
    BY DEF IInv, StoresOK
<1>4. ClaimsAreTrue'
    BY <1>1, <1>2 DEF IInv, ClaimsAreTrue
<1>5. UpToWatermark'
    BY <1>1 DEF IInv, UpToWatermark
<1> QED BY <1>1, <1>2, <1>3, <1>4, <1>5

\* A step that writes points of a document that nothing is claimed of, and else
\* of documents it damages.
LEMMA PointsOf ==
    ASSUME IInv, NEW d \in Doc, ~Claimed(d) \/ d \in damaged', damaged \subseteq damaged',
           UNCHANGED <<file, row, clock, watermark>>,
           \A e \in Doc \ damaged' : e # d => Vectors(e)' = Vectors(e)
    PROVE  /\ StoresOK' /\ ClaimsAreTrue' /\ UpToWatermark'
           /\ \A e \in Doc : Claimed(e)' <=> Claimed(e)
<1>1. \A e \in Doc : Claimed(e)' <=> Claimed(e)
    BY DEF Claimed, Active
<1>2. StoresOK'
    BY DEF IInv, StoresOK
<1>3. ClaimsAreTrue'
    BY <1>1 DEF IInv, ClaimsAreTrue
<1>4. UpToWatermark'
    BY <1>1 DEF IInv, UpToWatermark
<1> QED BY <1>1, <1>2, <1>3, <1>4

\* Removing the points of a document leaves those of the others.
LEMMA Removal ==
    ASSUME NEW d \in Doc, vec' = WithoutVectors(d)
    PROVE  /\ Vectors(d)' = {}
           /\ \A e \in Doc : e # d => Vectors(e)' = Vectors(e)
<1>1. \A c \in Chunk : vec'[c] = IF vec[c] = d THEN None ELSE vec[c]
    BY DEF WithoutVectors
<1> QED
    BY <1>1, NoneAssumption DEF Vectors

\* A new run is alone only if there is no other, and then no watermark is ahead
\* of it; the others are alone no more.
LEMMA BeginSyncKeeps ==
    ASSUME IInv, NEW s \in Sync, BeginSync(s)
    PROVE  IInv'
<1>1. TInv /\ TInv' /\ UNCHANGED <<file, row, vec, watermark, clock, damaged, disturbed>>
    BY BeginSyncTypes DEF BeginSync, IInv
<1>2. /\ sync'[s].pc = "ensure" /\ sync'[s].ts = clock /\ sync'[s].rows = row
      /\ sync'[s].index = {} /\ sync'[s].drop = {}
      /\ sync'[s].alone => \A t \in Sync : sync'[t] # Idle => t = s
    <2> DEFINE q == \A t \in Sync : sync[t] = Idle
    <2>1. sync'[s] = [pc |-> "ensure", alone |-> q, ts |-> clock, rows |-> row,
                      index |-> {}, drop |-> {},
                      doc |-> None, text |-> None, left |-> {}, mtime |-> 0]
        BY <1>1, Begun
    <2> HIDE DEF q
    <2>2. /\ sync'[s].alone = q /\ sync'[s].pc = "ensure" /\ sync'[s].ts = clock
          /\ sync'[s].rows = row /\ sync'[s].index = {} /\ sync'[s].drop = {}
        BY <2>1
    <2>3. q => \A t \in Sync : t # s => sync'[t] = Idle
        BY <1>1, Begun DEF q
    <2> QED BY <2>2, <2>3
<1>3. clock \in Nat /\ (watermark # None => watermark <= clock)
    BY Typed, ClockAssumption DEF TypeOK, Time, IInv, StoresOK
<1>4. RunOK(s)'
    BY <1>1, <1>2, <1>3 DEF RunOK, AloneOK, Read, Before, InHand, Covers, Working
<1>5. /\ StoresOK' /\ ClaimsAreTrue' /\ UpToWatermark'
      /\ \A d \in Doc : Claimed(d)' <=> Claimed(d)
    BY <1>1, StoresStay
<1>6. ASSUME NEW t \in Sync, t # s, sync'[t] # Idle PROVE RunOK(t)'
    <2>1. sync[t] # Idle /\ sync'[t] = [sync[t] EXCEPT !.alone = FALSE]
        BY <1>1, <1>6, Begun
    <2>2. /\ sync[t] \in SyncRun /\ RunOK(t) /\ (sync[t].pc \in Working => sync[t].doc \in Doc)
          /\ sync[t].index \subseteq Doc /\ sync[t].drop \subseteq Doc
        BY <2>1, Run, Typed, Busy
    <2>3. /\ ~sync'[t].alone /\ sync'[t].pc = sync[t].pc /\ sync'[t].ts = sync[t].ts
          /\ sync'[t].rows = sync[t].rows /\ sync'[t].index = sync[t].index
          /\ sync'[t].drop = sync[t].drop /\ sync'[t].doc = sync[t].doc
          /\ sync'[t].text = sync[t].text /\ sync'[t].left = sync[t].left
          /\ sync'[t].mtime = sync[t].mtime
        BY <2>1, <2>2 DEF SyncRun
    <2>4. Before(t)'
        <3>1. sync[t].pc \in Working => ~Claimed(sync[t].doc)' \/ sync[t].doc \in damaged
            <4>1. ~Claimed(sync[t].doc) => ~Claimed(sync[t].doc)'
                BY <1>1, <2>3 DEF Claimed, Active
            <4> QED BY <4>1, <2>2 DEF RunOK, Before
        <3> QED BY <3>1, <2>2, <2>3, <1>1, <1>5 DEF RunOK, Before
    <2>5. AloneOK(t)' /\ Read(t)' /\ InHand(t)' /\ Covers(t)'
        BY <2>2, <2>3, <1>1, <1>5 DEF RunOK, AloneOK, Read, InHand, Covers
    <2> QED BY <2>2, <2>3, <2>4, <2>5, <1>1 DEF RunOK
<1> QED
    BY <1>1, <1>4, <1>5, <1>6 DEF IInv, RunsOK

LEMMA EnsureKeeps ==
    ASSUME IInv, NEW s \in Sync, EnsureCollection(s)
    PROVE  IInv'
<1>1. /\ TInv' /\ sync[s].pc = "ensure"
      /\ UNCHANGED <<file, row, vec, watermark, clock, damaged, disturbed>>
    BY EnsureTypes DEF EnsureCollection, IInv
<1>2. sync[s] # Idle /\ sync[s] \in SyncRun /\ RunOK(s)
    BY <1>1, Run
<1>3. /\ sync' = [sync EXCEPT ![s] = sync'[s]]
      /\ sync'[s] = [sync[s] EXCEPT !.pc = "scan"]
      /\ \A t \in Sync : t # s => sync'[t] = sync[t]
    BY Typed DEF EnsureCollection, TypeOK
<1>4. /\ sync'[s].pc = "scan" /\ sync'[s].ts = sync[s].ts /\ sync'[s].rows = sync[s].rows
      /\ sync'[s].index = sync[s].index /\ sync'[s].drop = sync[s].drop
      /\ sync'[s].alone = sync[s].alone
    BY <1>2, <1>3 DEF SyncRun
<1>5. StoresOK' /\ ClaimsAreTrue' /\ UpToWatermark'
    BY <1>1, StoresStay
<1>6. RunOK(s)'
    BY <1>1, <1>2, <1>3, <1>4
       DEF RunOK, AloneOK, Read, Before, InHand, Covers, Working
<1> QED
    BY <1>1, <1>2, <1>3, <1>5, <1>6, SyncKeeps

\* Whatever watermark a scan reads, the one that is set or none, what it leaves
\* out is claimed and what it takes is not.
LEMMA ScanSplits ==
    ASSUME IInv, NEW d \in Doc \ damaged, file[d] # None, NEW last \in {watermark, None}
    PROVE  MustIndex(d, row[d], last) <=> ~Claimed(d)
<1>1. CASE row[d] = None
    BY <1>1 DEF MustIndex, Claimed, Active
<1>2. CASE row[d] # None
    <2>1. row[d] \in Row /\ file[d] \in File
        BY <1>2, Typed DEF TypeOK
    <2>2. /\ row[d].mtime \in Nat /\ file[d].mtime \in Nat
          /\ row[d].status \in {"active", "deleted"}
        BY <2>1, ClockAssumption DEF Row, File, Time
    <2>3. last # None => last \in Nat
        BY Typed, ClockAssumption DEF TypeOK, Time
    <2>4. ASSUME last # None, file[d].mtime <= last PROVE Claimed(d)
        BY <2>4 DEF IInv, UpToWatermark
    <2> QED BY <1>2, <2>2, <2>3, <2>4 DEF MustIndex, Claimed, Active
<1> QED BY <1>1, <1>2

LEMMA ScanKeeps ==
    ASSUME IInv, NEW s \in Sync, Scan(s)
    PROVE  IInv'
<1>1. /\ TInv' /\ sync[s].pc = "scan"
      /\ UNCHANGED <<file, row, vec, watermark, clock, damaged, disturbed>>
    BY ScanTypes DEF Scan, IInv
<1>2. /\ sync[s] # Idle /\ sync[s] \in SyncRun /\ RunOK(s)
      /\ \A d \in Doc \ damaged : sync[s].rows[d] = row[d]
    BY <1>1, Run DEF RunOK, Read
<1>3. PICK last \in {watermark, None} :
        sync' = [sync EXCEPT
             ![s].pc = "next",
             ![s].rows = NoRows,
             ![s].index = {d \in Doc : file[d] # None /\ MustIndex(d, sync[s].rows[d], last)},
             ![s].drop = {d \in Doc : /\ file[d] = None /\ sync[s].rows[d] # None
                                      /\ sync[s].rows[d].status = "active"}]
    BY DEF Scan
<1>4. sync'[s] = [sync[s] EXCEPT
             !.pc = "next",
             !.rows = NoRows,
             !.index = {d \in Doc : file[d] # None /\ MustIndex(d, sync[s].rows[d], last)},
             !.drop = {d \in Doc : /\ file[d] = None /\ sync[s].rows[d] # None
                                   /\ sync[s].rows[d].status = "active"}]
    BY <1>3, Typed DEF TypeOK
<1>5. /\ sync' = [sync EXCEPT ![s] = sync'[s]]
      /\ \A t \in Sync : t # s => sync'[t] = sync[t]
    BY <1>3, <1>4, Typed DEF TypeOK
<1>6. /\ sync'[s].pc = "next" /\ sync'[s].ts = sync[s].ts /\ sync'[s].alone = sync[s].alone
      /\ sync'[s].index = {d \in Doc : file[d] # None /\ MustIndex(d, sync[s].rows[d], last)}
      /\ sync'[s].drop = {d \in Doc : /\ file[d] = None /\ sync[s].rows[d] # None
                                      /\ sync[s].rows[d].status = "active"}
    BY <1>2, <1>4 DEF SyncRun
<1>7. \A d \in Doc \ damaged :
        d \in sync'[s].index <=> file[d] # None /\ ~Claimed(d)
    BY <1>2, <1>6, ScanSplits
<1>8. /\ StoresOK' /\ ClaimsAreTrue' /\ UpToWatermark'
      /\ \A d \in Doc : Claimed(d)' <=> Claimed(d)
    BY <1>1, StoresStay
<1>9. RunOK(s)'
    <2>1. Before(s)'
        <3>1. \A d \in sync'[s].drop : d \in Doc /\ file[d] = None /\ ~Claimed(d)
            BY <1>6 DEF Claimed
        <3>2. \A d \in sync'[s].index : d \in Doc /\ file[d] # None
            BY <1>6
        <3> QED BY <3>1, <3>2, <1>1, <1>6, <1>7, <1>8 DEF Before, Working
    <2>2. InHand(s)' /\ Read(s)'
        BY <1>6 DEF InHand, Read
    <2>3. Covers(s)'
        BY <1>1, <1>7, <1>8 DEF Covers
    <2>4. AloneOK(s)'
        BY <1>1, <1>2, <1>5, <1>6 DEF RunOK, AloneOK
    <2> QED BY <2>1, <2>2, <2>3, <2>4, <1>1, <1>2, <1>6 DEF RunOK
<1> QED
    BY <1>1, <1>2, <1>5, <1>8, <1>9, SyncKeeps

LEMMA ReadTextKeeps ==
    ASSUME IInv, NEW s \in Sync, ReadText(s)
    PROVE  IInv'
<1>1. /\ TInv' /\ sync[s].pc = "next"
      /\ UNCHANGED <<file, row, vec, watermark, clock, damaged, disturbed>>
    BY ReadTextTypes DEF ReadText, IInv
<1>2. /\ sync[s] # Idle /\ sync[s] \in SyncRun /\ RunOK(s)
      /\ sync[s].index \subseteq Doc /\ sync[s].drop \subseteq Doc
    BY <1>1, Run
<1>3. PICK d \in sync[s].index :
        /\ file[d] # None
        /\ sync' = [sync EXCEPT ![s].pc = "delete", ![s].doc = d, ![s].index = @ \ {d},
                                ![s].text = file[d].text, ![s].left = file[d].text]
    BY DEF ReadText
<1>4. /\ sync' = [sync EXCEPT ![s] = sync'[s]]
      /\ sync'[s] = [sync[s] EXCEPT !.pc = "delete", !.doc = d, !.index = sync[s].index \ {d},
                                     !.text = file[d].text, !.left = file[d].text]
      /\ \A t \in Sync : t # s => sync'[t] = sync[t]
    BY <1>3, Typed DEF TypeOK
<1>5. /\ sync'[s].pc = "delete" /\ sync'[s].ts = sync[s].ts /\ sync'[s].doc = d
      /\ sync'[s].index = sync[s].index \ {d} /\ sync'[s].drop = sync[s].drop
      /\ sync'[s].text = file[d].text /\ sync'[s].left = file[d].text
      /\ sync'[s].alone = sync[s].alone
    BY <1>2, <1>4 DEF SyncRun
<1>6. /\ StoresOK' /\ ClaimsAreTrue' /\ UpToWatermark'
      /\ \A e \in Doc : Claimed(e)' <=> Claimed(e)
    BY <1>1, StoresStay
<1>7. RunOK(s)'
    <2>1. Before(s)'
        <3>1. (~Claimed(d)' \/ d \in damaged) /\ d \in Doc
            BY <1>2, <1>3, <1>5, <1>6 DEF RunOK, Before
        <3>2. \A e \in (sync'[s].index \cup sync'[s].drop) \ damaged : ~Claimed(e)'
            BY <1>2, <1>5, <1>6 DEF RunOK, Before
        <3>3. d \notin sync'[s].index \cup sync'[s].drop /\ sync'[s].index \cap sync'[s].drop = {}
            BY <1>2, <1>5 DEF RunOK, Before
        <3>4. ~Claimed(sync[s].doc)' \/ d \in damaged
            BY <3>1, <1>5 DEF Claimed, Active
        <3> QED BY <3>2, <3>3, <3>4, <1>1, <1>5 DEF Before
    <2>2. InHand(s)' /\ Read(s)'
        BY <1>1, <1>5 DEF InHand, Read
    <2>3. Covers(s)'
        BY <1>1, <1>2, <1>5, <1>6 DEF RunOK, Covers
    <2>4. AloneOK(s)'
        BY <1>1, <1>2, <1>4, <1>5 DEF RunOK, AloneOK
    <2> QED BY <2>1, <2>2, <2>3, <2>4, <1>1, <1>2, <1>5 DEF RunOK
<1> QED
    BY <1>1, <1>2, <1>4, <1>6, <1>7, SyncKeeps

\* The document in work, as a value.
LEMMA Work ==
    ASSUME IInv, NEW s \in Sync, sync[s].pc \in Working
    PROVE  \E d \in Doc :
             /\ d = sync[s].doc /\ (~Claimed(d) \/ d \in damaged)
             /\ d \notin sync[s].index \cup sync[s].drop
             /\ sync[s].pc \in {"upsert", "commit"} /\ sync[s].alone /\ d \notin disturbed =>
                  Vectors(d) = sync[s].text \ sync[s].left
             /\ sync[s].pc # "unrow" /\ file[d] # None /\ file[d].mtime <= sync[s].ts =>
                  /\ sync[s].text = file[d].text
                  /\ sync[s].pc = "commit" => sync[s].mtime >= file[d].mtime
<1>1. sync[s].doc \in Doc /\ Before(s) /\ InHand(s)
    BY Run DEF RunOK, Working
<1>2. PICK d \in Doc : d = sync[s].doc
    BY <1>1
<1>3. (~Claimed(d) \/ d \in damaged) /\ d \notin sync[s].index \cup sync[s].drop
    BY <1>1, <1>2 DEF Before
<1>4. sync[s].pc \in {"upsert", "commit"} /\ sync[s].alone /\ d \notin disturbed =>
        Vectors(d) = sync[s].text \ sync[s].left
    BY <1>1, <1>2 DEF InHand
<1>5. sync[s].pc # "unrow" /\ file[d] # None /\ file[d].mtime <= sync[s].ts =>
           /\ sync[s].text = file[d].text
           /\ sync[s].pc = "commit" => sync[s].mtime >= file[d].mtime
    BY <1>1, <1>2 DEF InHand, Working
<1> QED BY <1>2, <1>3, <1>4, <1>5

LEMMA DeleteVectorsKeeps ==
    ASSUME IInv, NEW s \in Sync, DeleteVectors(s)
    PROVE  IInv'
<1>1. /\ TInv' /\ sync[s].pc = "delete" /\ UNCHANGED <<file, row, watermark, clock>>
      /\ vec' = WithoutVectors(sync[s].doc) /\ damaged' = DamagedBy(s, sync[s].doc)
    BY DeleteVectorsTypes DEF DeleteVectors, IInv
<1>2. /\ sync[s] # Idle /\ sync[s] \in SyncRun /\ RunOK(s)
      /\ sync[s].index \subseteq Doc /\ sync[s].drop \subseteq Doc
    BY <1>1, Run
<1>3. PICK d \in Doc : /\ d = sync[s].doc /\ (~Claimed(d) \/ d \in damaged)
                       /\ d \notin sync[s].index \cup sync[s].drop
                       /\ file[d] # None /\ file[d].mtime <= sync[s].ts =>
                            sync[s].text = file[d].text
    BY <1>1, Work DEF Working
<1>4. /\ damaged \subseteq damaged' /\ (~sync[s].alone => damaged' = damaged \cup {d})
    BY <1>1, <1>3 DEF DamagedBy
<1>5. /\ Vectors(d)' = {}
      /\ \A e \in Doc : e # d => Vectors(e)' = Vectors(e)
    BY <1>1, <1>3, Removal
<1>6. /\ StoresOK' /\ ClaimsAreTrue' /\ UpToWatermark'
      /\ \A e \in Doc : Claimed(e)' <=> Claimed(e)
    BY <1>1, <1>3, <1>4, <1>5, PointsOf
<1>7. /\ sync' = [sync EXCEPT ![s] = sync'[s]]
      /\ sync'[s] = [sync[s] EXCEPT !.pc = "upsert"]
      /\ \A t \in Sync : t # s => sync'[t] = sync[t]
    BY Typed DEF DeleteVectors, TypeOK
<1>8. /\ sync'[s].pc = "upsert" /\ sync'[s].ts = sync[s].ts /\ sync'[s].doc = d
      /\ sync'[s].index = sync[s].index /\ sync'[s].drop = sync[s].drop
      /\ sync'[s].text = sync[s].text /\ sync'[s].left = sync[s].left
      /\ sync'[s].alone = sync[s].alone
    BY <1>2, <1>3, <1>7 DEF SyncRun
<1>9. RunOK(s)'
    <2>1. Before(s)'
        <3>1. ~Claimed(sync[s].doc)' \/ d \in damaged'
            BY <1>3, <1>4, <1>6, <1>8 DEF Claimed, Active
        <3>2. \A e \in (sync'[s].index \cup sync'[s].drop) \ damaged' : ~Claimed(e)'
            BY <1>2, <1>4, <1>6, <1>8 DEF RunOK, Before
        <3>3. d \notin sync'[s].index \cup sync'[s].drop /\ sync'[s].index \cap sync'[s].drop = {}
            BY <1>2, <1>3, <1>8 DEF RunOK, Before
        <3> QED BY <3>1, <3>2, <3>3, <1>8 DEF Before
    <2>2. InHand(s)'
        <3>1. Vectors(sync[s].doc)' = {}
            BY <1>5, <1>8 DEF Vectors
        <3>2. sync[s].left = sync[s].text
            BY <1>1, <1>2 DEF RunOK, InHand
        <3> QED BY <3>1, <3>2, <1>1, <1>3, <1>8 DEF InHand
    <2>3. Covers(s)'
        BY <1>1, <1>2, <1>3, <1>4, <1>6, <1>8 DEF RunOK, Covers
    <2>4. AloneOK(s)' /\ Read(s)'
        BY <1>1, <1>2, <1>7, <1>8 DEF RunOK, AloneOK, Read
    <2> QED BY <2>1, <2>2, <2>3, <2>4, <1>1, <1>2, <1>8 DEF RunOK
<1> QED
    BY <1>1, <1>2, <1>4, <1>6, <1>7, <1>9, SyncKeeps

LEMMA UpsertKeeps ==
    ASSUME IInv, NEW s \in Sync, Upsert(s)
    PROVE  IInv'
<1>1. TInv' /\ sync[s].pc = "upsert" /\ UNCHANGED <<file, row, watermark, clock>>
    BY UpsertTypes DEF Upsert, IInv
<1>2. /\ sync[s] # Idle /\ sync[s] \in SyncRun /\ RunOK(s)
      /\ sync[s].index \subseteq Doc /\ sync[s].drop \subseteq Doc
    BY <1>1, Run
<1>3. PICK d \in Doc : /\ d = sync[s].doc /\ (~Claimed(d) \/ d \in damaged)
                       /\ d \notin sync[s].index \cup sync[s].drop
                       /\ sync[s].alone /\ d \notin disturbed =>
                            Vectors(d) = sync[s].text \ sync[s].left
                       /\ file[d] # None /\ file[d].mtime <= sync[s].ts =>
                            sync[s].text = file[d].text
    BY <1>1, Work DEF Working
<1>4. PICK c \in sync[s].left :
        /\ vec' = [vec EXCEPT ![c] = d] /\ sync' = [sync EXCEPT ![s].left = @ \ {c}]
        /\ damaged' = DamagedBy(s, d) \cup ({vec[c]} \ {None, d})
        /\ disturbed' = disturbed \cup (({vec[c]} \ {None, d}) \cap InWork)
    BY <1>3 DEF Upsert
<1>5. /\ damaged \subseteq damaged' /\ (~sync[s].alone => d \in damaged')
      /\ vec[c] \in {None, d} \cup damaged' /\ (d \notin disturbed' => d \notin disturbed)
    BY <1>4 DEF DamagedBy
<1>6. c \in sync[s].text /\ c \in Chunk /\ sync[s].left \subseteq sync[s].text
    BY <1>1, <1>2 DEF SyncRun, RunOK, InHand
<1>7. \A x \in Chunk : vec'[x] = IF x = c THEN d ELSE vec[x]
    BY <1>4, <1>6, Typed DEF TypeOK
<1>8. \A e \in Doc \ damaged' : e # d => Vectors(e)' = Vectors(e)
    <2>1. \A e \in Doc \ damaged' : e # d => vec[c] # e
        BY <1>5, NoneAssumption
    <2> QED BY <1>7, <2>1 DEF Vectors
<1>9. sync[s].alone /\ d \notin disturbed' =>
        Vectors(d)' = sync[s].text \ (sync[s].left \ {c})
    <2>1. Vectors(d)' = Vectors(d) \cup {c}
        BY <1>6, <1>7 DEF Vectors
    <2> QED BY <1>3, <1>5, <1>6, <2>1
<1>10. /\ StoresOK' /\ ClaimsAreTrue' /\ UpToWatermark'
       /\ \A e \in Doc : Claimed(e)' <=> Claimed(e)
    BY <1>1, <1>3, <1>5, <1>8, PointsOf
<1>11. /\ sync' = [sync EXCEPT ![s] = sync'[s]]
       /\ sync'[s] = [sync[s] EXCEPT !.left = sync[s].left \ {c}]
       /\ \A t \in Sync : t # s => sync'[t] = sync[t]
    BY <1>4, Typed DEF TypeOK
<1>12. /\ sync'[s].pc = "upsert" /\ sync'[s].ts = sync[s].ts /\ sync'[s].doc = d
       /\ sync'[s].index = sync[s].index /\ sync'[s].drop = sync[s].drop
       /\ sync'[s].text = sync[s].text /\ sync'[s].left = sync[s].left \ {c}
       /\ sync'[s].alone = sync[s].alone
    BY <1>1, <1>2, <1>3, <1>11 DEF SyncRun
<1>13. RunOK(s)'
    <2>1. Before(s)'
        <3>1. ~Claimed(sync[s].doc)' \/ d \in damaged'
            BY <1>3, <1>5, <1>10, <1>12 DEF Claimed, Active
        <3>2. \A e \in (sync'[s].index \cup sync'[s].drop) \ damaged' : ~Claimed(e)'
            BY <1>2, <1>5, <1>10, <1>12 DEF RunOK, Before
        <3>3. d \notin sync'[s].index \cup sync'[s].drop /\ sync'[s].index \cap sync'[s].drop = {}
            BY <1>2, <1>3, <1>12 DEF RunOK, Before
        <3> QED BY <3>1, <3>2, <3>3, <1>12 DEF Before
    <2>2. InHand(s)'
        <3>1. sync[s].alone /\ d \notin disturbed' =>
                Vectors(sync[s].doc)' = sync'[s].text \ sync'[s].left
            BY <1>9, <1>12 DEF Vectors
        <3> QED BY <3>1, <1>1, <1>3, <1>6, <1>12 DEF InHand
    <2>3. Covers(s)'
        BY <1>1, <1>2, <1>3, <1>5, <1>10, <1>12 DEF RunOK, Covers
    <2>4. AloneOK(s)' /\ Read(s)'
        BY <1>1, <1>2, <1>11, <1>12 DEF RunOK, AloneOK, Read
    <2> QED BY <2>1, <2>2, <2>3, <2>4, <1>1, <1>2, <1>12 DEF RunOK
<1> QED
    BY <1>1, <1>2, <1>5, <1>10, <1>11, <1>13, SyncKeeps

LEMMA StatKeeps ==
    ASSUME IInv, NEW s \in Sync, Stat(s)
    PROVE  IInv'
<1>1. /\ TInv' /\ sync[s].pc = "upsert" /\ sync[s].left = {} /\ file[sync[s].doc] # None
      /\ UNCHANGED <<file, row, vec, watermark, clock, damaged, disturbed>>
    BY StatTypes DEF Stat, IInv
<1>2. /\ sync[s] # Idle /\ sync[s] \in SyncRun /\ RunOK(s)
      /\ sync[s].index \subseteq Doc /\ sync[s].drop \subseteq Doc
    BY <1>1, Run
<1>3. PICK d \in Doc : /\ d = sync[s].doc /\ (~Claimed(d) \/ d \in damaged)
                       /\ d \notin sync[s].index \cup sync[s].drop
                       /\ sync[s].alone /\ d \notin disturbed =>
                            Vectors(d) = sync[s].text \ sync[s].left
                       /\ file[d] # None /\ file[d].mtime <= sync[s].ts =>
                            sync[s].text = file[d].text
    BY <1>1, Work DEF Working
<1>4. /\ StoresOK' /\ ClaimsAreTrue' /\ UpToWatermark'
      /\ \A e \in Doc : Claimed(e)' <=> Claimed(e)
      /\ Vectors(d)' = Vectors(d)
    BY <1>1, StoresStay
<1>5. /\ sync' = [sync EXCEPT ![s] = sync'[s]]
      /\ sync'[s] = [sync[s] EXCEPT !.pc = "commit", !.mtime = file[d].mtime]
      /\ \A t \in Sync : t # s => sync'[t] = sync[t]
    BY <1>3, Typed DEF Stat, TypeOK
<1>6. /\ sync'[s].pc = "commit" /\ sync'[s].ts = sync[s].ts /\ sync'[s].doc = d
      /\ sync'[s].index = sync[s].index /\ sync'[s].drop = sync[s].drop
      /\ sync'[s].text = sync[s].text /\ sync'[s].left = sync[s].left
      /\ sync'[s].mtime = file[d].mtime /\ sync'[s].alone = sync[s].alone
    BY <1>2, <1>3, <1>5 DEF SyncRun
<1>7. file[d].mtime \in Nat /\ file[d].mtime <= clock
    <2>1. file[d] \in File /\ file[d].mtime <= clock
        BY <1>1, <1>3, Typed DEF TypeOK, IInv, StoresOK
    <2> QED BY <2>1, ClockAssumption DEF File, Time
<1>8. RunOK(s)'
    <2>1. Before(s)'
        <3>1. ~Claimed(sync[s].doc)' \/ d \in damaged
            BY <1>3, <1>4, <1>6 DEF Claimed, Active
        <3>2. \A e \in (sync'[s].index \cup sync'[s].drop) \ damaged : ~Claimed(e)'
            BY <1>2, <1>4, <1>6 DEF RunOK, Before
        <3>3. d \notin sync'[s].index \cup sync'[s].drop /\ sync'[s].index \cap sync'[s].drop = {}
            BY <1>2, <1>3, <1>6 DEF RunOK, Before
        <3> QED BY <3>1, <3>2, <3>3, <1>1, <1>6 DEF Before
    <2>2. InHand(s)'
        <3>1. sync[s].alone /\ d \notin disturbed =>
                Vectors(sync[s].doc)' = sync'[s].text \ sync'[s].left
            BY <1>3, <1>4, <1>6 DEF Vectors
        <3> QED BY <3>1, <1>1, <1>3, <1>6, <1>7 DEF InHand
    <2>3. Covers(s)'
        BY <1>1, <1>2, <1>3, <1>4, <1>6, <1>7 DEF RunOK, Covers
    <2>4. AloneOK(s)' /\ Read(s)'
        BY <1>1, <1>2, <1>5, <1>6 DEF RunOK, AloneOK, Read
    <2> QED BY <2>1, <2>2, <2>3, <2>4, <1>1, <1>2, <1>6 DEF RunOK
<1> QED
    BY <1>1, <1>2, <1>4, <1>5, <1>8, SyncKeeps

\* The row claims what the run has upserted, with the mtime the file has had
\* since: if it was edited in between, the claim is none.  A document that a run
\* alone has indexed undisturbed is damaged no more: no watermark is ahead of the
\* run, and what is not younger than the run is claimed now.
LEMMA CommitRowKeeps ==
    ASSUME IInv, NEW s \in Sync, CommitRow(s)
    PROVE  IInv'
<1>1. TInv' /\ sync[s].pc = "commit" /\ UNCHANGED <<file, vec, watermark, clock>>
    BY CommitRowTypes DEF CommitRow, IInv
<1>2. /\ sync[s] # Idle /\ sync[s] \in SyncRun /\ RunOK(s) /\ sync[s].text \in Text
      /\ sync[s].index \subseteq Doc /\ sync[s].drop \subseteq Doc
    BY <1>1, Run DEF Knows
<1>3. PICK d \in Doc : /\ d = sync[s].doc /\ (~Claimed(d) \/ d \in damaged)
                       /\ d \notin sync[s].index \cup sync[s].drop
                       /\ sync[s].alone /\ d \notin disturbed =>
                            Vectors(d) = sync[s].text \ sync[s].left
                       /\ file[d] # None /\ file[d].mtime <= sync[s].ts =>
                            sync[s].text = file[d].text /\ sync[s].mtime >= file[d].mtime
    BY <1>1, Work DEF Working
<1> DEFINE new == [hash |-> sync[s].text, mtime |-> sync[s].mtime, status |-> "active"]
           clears == sync[s].alone /\ d \notin disturbed
<1>4. /\ new.hash = sync[s].text /\ new.mtime = sync[s].mtime /\ new.status = "active"
      /\ new \in Row /\ new # None
    BY <1>2, NoneAssumption DEF Row, SyncRun
<1>5. /\ row' = [row EXCEPT ![d] = new]
      /\ damaged' = IF clears THEN damaged \ {d} ELSE damaged \cup {d}
    BY <1>3 DEF CommitRow
<1>6. clears => Vectors(d) = sync[s].text \ sync[s].left
    BY <1>3
<1>7. clears => sync[s].alone
    OBVIOUS
<1> HIDE DEF new, clears
<1>8. /\ row'[d] = new /\ (\A e \in Doc : e # d => row'[e] = row[e])
      /\ \A e \in Doc : e # d => (e \in damaged' <=> e \in damaged)
    BY <1>5, Typed DEF TypeOK
<1>9. /\ sync[s].left = {} /\ sync[s].mtime <= clock
    BY <1>1, <1>2, <1>3 DEF RunOK, InHand
<1>10. \A e \in Doc : e # d => (Claimed(e)' <=> Claimed(e))
    BY <1>1, <1>8 DEF Claimed, Active
<1>11. Claimed(d)' <=> /\ file[d] # None /\ sync[s].text = file[d].text
                       /\ sync[s].mtime >= file[d].mtime
    BY <1>1, <1>4, <1>8 DEF Claimed, Active
<1>12. \A e \in Doc : Vectors(e)' = Vectors(e)
    BY <1>1 DEF Vectors
<1>13. d \notin damaged' => clears
    BY <1>5
<1>14. StoresOK'
    BY <1>1, <1>4, <1>8, <1>9 DEF IInv, StoresOK
<1>15. ClaimsAreTrue'
    <2>1. d \notin damaged' /\ Claimed(d)' => Vectors(d)' = file[d].text
        BY <1>6, <1>9, <1>11, <1>12, <1>13
    <2> QED BY <2>1, <1>1, <1>8, <1>10, <1>12 DEF IInv, ClaimsAreTrue
<1>16. UpToWatermark'
    <2>1. ASSUME d \notin damaged', file[d] # None, watermark # None, file[d].mtime <= watermark
          PROVE  Claimed(d)'
        <3>1. watermark <= sync[s].ts
            BY <2>1, <1>2, <1>7, <1>13 DEF RunOK, AloneOK
        <3>2. file[d] \in File /\ watermark \in Nat /\ sync[s].ts \in Nat
            BY <2>1, <1>2, Typed, ClockAssumption DEF TypeOK, SyncRun, Time
        <3>3. file[d].mtime \in Nat
            BY <3>2, ClockAssumption DEF File, Time
        <3> QED BY <2>1, <3>1, <3>2, <3>3, <1>3, <1>11
    <2> QED BY <2>1, <1>1, <1>8, <1>10 DEF IInv, UpToWatermark
<1>17. /\ sync' = [sync EXCEPT ![s] = sync'[s]]
       /\ sync'[s] = [sync[s] EXCEPT !.pc = "next", !.doc = None, !.text = None, !.mtime = 0]
       /\ \A t \in Sync : t # s => sync'[t] = sync[t]
    BY Typed DEF CommitRow, TypeOK
<1>18. /\ sync'[s].pc = "next" /\ sync'[s].ts = sync[s].ts
       /\ sync'[s].index = sync[s].index /\ sync'[s].drop = sync[s].drop
       /\ sync'[s].alone = sync[s].alone
    BY <1>2, <1>17 DEF SyncRun
<1>19. RunOK(s)'
    <2>1. Before(s)'
        <3>1. \A e \in (sync[s].index \cup sync[s].drop) \ damaged' : ~Claimed(e)'
            BY <1>2, <1>3, <1>8, <1>10 DEF RunOK, Before
        <3> QED BY <3>1, <1>2, <1>18 DEF RunOK, Before, Working
    <2>2. InHand(s)' /\ Read(s)'
        BY <1>18 DEF InHand, Read
    <2>3. Covers(s)'
        <3>1. ASSUME NEW e \in Doc \ damaged', file[e] # None, file[e].mtime <= sync[s].ts, e # d
              PROVE  Claimed(e)' \/ e \in sync'[s].index
            BY <3>1, <1>1, <1>2, <1>3, <1>8, <1>10, <1>18 DEF RunOK, Covers
        <3>2. ASSUME file[d] # None, file[d].mtime <= sync[s].ts
              PROVE  Claimed(d)'
            BY <3>2, <1>3, <1>11
        <3> QED BY <3>1, <3>2, <1>1, <1>18 DEF Covers
    <2>4. AloneOK(s)'
        BY <1>1, <1>2, <1>17, <1>18 DEF RunOK, AloneOK
    <2> QED BY <2>1, <2>2, <2>3, <2>4, <1>1, <1>2, <1>18 DEF RunOK
<1>20. ~sync[s].alone => /\ damaged \subseteq damaged'
                         /\ \A e \in Doc \ damaged' : row'[e] = row[e]
    BY <1>5, <1>7, <1>8, <1>13
<1> QED
    BY <1>1, <1>2, <1>14, <1>15, <1>16, <1>17, <1>19, <1>20, SyncKeeps

LEMMA DropVectorsKeeps ==
    ASSUME IInv, NEW s \in Sync, DropVectors(s)
    PROVE  IInv'
<1>1. TInv' /\ sync[s].pc = "next" /\ UNCHANGED <<file, row, watermark, clock>>
    BY DropVectorsTypes DEF DropVectors, IInv
<1>2. /\ sync[s] # Idle /\ sync[s] \in SyncRun /\ RunOK(s)
      /\ sync[s].index \subseteq Doc /\ sync[s].drop \subseteq Doc
    BY <1>1, Run
<1>3. PICK d \in sync[s].drop :
        /\ vec' = WithoutVectors(d)
        /\ sync' = [sync EXCEPT ![s].pc = "unrow", ![s].doc = d, ![s].drop = @ \ {d}]
        /\ damaged' = DamagedBy(s, d)
    BY DEF DropVectors
<1>4. /\ d \in Doc /\ (~Claimed(d) \/ d \in damaged) /\ d \notin sync[s].index
      /\ damaged \subseteq damaged'
    BY <1>2, <1>3 DEF RunOK, Before, DamagedBy
<1>5. \A e \in Doc : e # d => Vectors(e)' = Vectors(e)
    BY <1>3, <1>4, Removal
<1>6. /\ StoresOK' /\ ClaimsAreTrue' /\ UpToWatermark'
      /\ \A e \in Doc : Claimed(e)' <=> Claimed(e)
    BY <1>1, <1>4, <1>5, PointsOf
<1>7. /\ sync' = [sync EXCEPT ![s] = sync'[s]]
      /\ sync'[s] = [sync[s] EXCEPT !.pc = "unrow", !.doc = d, !.drop = sync[s].drop \ {d}]
      /\ \A t \in Sync : t # s => sync'[t] = sync[t]
    BY <1>3, Typed DEF TypeOK
<1>8. /\ sync'[s].pc = "unrow" /\ sync'[s].ts = sync[s].ts /\ sync'[s].doc = d
      /\ sync'[s].index = sync[s].index /\ sync'[s].drop = sync[s].drop \ {d}
      /\ sync'[s].alone = sync[s].alone
    BY <1>2, <1>7 DEF SyncRun
<1>9. RunOK(s)'
    <2>1. Before(s)'
        <3>1. ~Claimed(sync[s].doc)' \/ d \in damaged'
            BY <1>4, <1>6, <1>8 DEF Claimed, Active
        <3>2. \A e \in (sync'[s].index \cup sync'[s].drop) \ damaged' : ~Claimed(e)'
            BY <1>2, <1>4, <1>6, <1>8 DEF RunOK, Before
        <3>3. d \notin sync'[s].index \cup sync'[s].drop /\ sync'[s].index \cap sync'[s].drop = {}
            BY <1>2, <1>4, <1>8 DEF RunOK, Before
        <3> QED BY <3>1, <3>2, <3>3, <1>8 DEF Before
    <2>2. InHand(s)' /\ Read(s)'
        BY <1>8 DEF InHand, Read
    <2>3. Covers(s)'
        BY <1>1, <1>2, <1>4, <1>6, <1>8 DEF RunOK, Covers
    <2>4. AloneOK(s)'
        BY <1>1, <1>2, <1>7, <1>8 DEF RunOK, AloneOK
    <2> QED BY <2>1, <2>2, <2>3, <2>4, <1>1, <1>2, <1>8 DEF RunOK
<1> QED
    BY <1>1, <1>2, <1>4, <1>6, <1>7, <1>9, SyncKeeps

LEMMA DropRowKeeps ==
    ASSUME IInv, NEW s \in Sync, DropRow(s)
    PROVE  IInv'
<1>1. TInv' /\ sync[s].pc = "unrow" /\ UNCHANGED <<file, vec, watermark, clock, disturbed>>
    BY DropRowTypes DEF DropRow, IInv
<1>2. /\ sync[s] # Idle /\ sync[s] \in SyncRun /\ RunOK(s) /\ Knows(sync[s])
      /\ sync[s].index \subseteq Doc /\ sync[s].drop \subseteq Doc
    BY <1>1, Run
<1>3. PICK d \in Doc : /\ d = sync[s].doc /\ (~Claimed(d) \/ d \in damaged)
                       /\ d \notin sync[s].index \cup sync[s].drop
    BY <1>1, Work DEF Working
<1>4. /\ row[d] \in Row /\ row' = [row EXCEPT ![d] = [row[d] EXCEPT !.status = "deleted"]]
      /\ damaged' = DamagedBy(s, d)
    BY <1>1, <1>2, <1>3, Typed DEF DropRow, TypeOK, Knows
<1>5. /\ row'[d].status = "deleted" /\ row'[d].mtime = row[d].mtime
      /\ \A e \in Doc : e # d => row'[e] = row[e]
    BY <1>4, Typed DEF TypeOK, Row
<1>6. /\ damaged \subseteq damaged' /\ (~sync[s].alone => d \in damaged')
      /\ \A e \in Doc \ damaged' : e \notin damaged
    BY <1>4 DEF DamagedBy
<1>7. \A e \in Doc \ damaged' : Claimed(e)' <=> Claimed(e)
    BY <1>1, <1>3, <1>5, <1>6 DEF Claimed, Active
<1>8. \A e \in Doc : Vectors(e)' = Vectors(e)
    BY <1>1 DEF Vectors
<1>9. StoresOK'
    BY <1>1, <1>2, <1>3, <1>5, NoneAssumption DEF IInv, StoresOK, Knows
<1>10. ClaimsAreTrue' /\ UpToWatermark'
    BY <1>1, <1>6, <1>7, <1>8 DEF IInv, ClaimsAreTrue, UpToWatermark
<1>11. /\ sync' = [sync EXCEPT ![s] = sync'[s]]
       /\ sync'[s] = [sync[s] EXCEPT !.pc = "next", !.doc = None]
       /\ \A t \in Sync : t # s => sync'[t] = sync[t]
    BY Typed DEF DropRow, TypeOK
<1>12. /\ sync'[s].pc = "next" /\ sync'[s].ts = sync[s].ts
       /\ sync'[s].index = sync[s].index /\ sync'[s].drop = sync[s].drop
       /\ sync'[s].alone = sync[s].alone
    BY <1>2, <1>11 DEF SyncRun
<1>13. RunOK(s)'
    <2>1. Before(s)'
        <3>1. \A e \in (sync[s].index \cup sync[s].drop) \ damaged' : ~Claimed(e)'
            BY <1>2, <1>6, <1>7 DEF RunOK, Before
        <3> QED BY <3>1, <1>2, <1>12 DEF RunOK, Before, Working
    <2>2. InHand(s)' /\ Read(s)'
        BY <1>12 DEF InHand, Read
    <2>3. Covers(s)'
        BY <1>1, <1>2, <1>6, <1>7, <1>12 DEF RunOK, Covers
    <2>4. AloneOK(s)'
        BY <1>1, <1>2, <1>11, <1>12 DEF RunOK, AloneOK
    <2> QED BY <2>1, <2>2, <2>3, <2>4, <1>1, <1>2, <1>12 DEF RunOK
<1>14. ~sync[s].alone => \A e \in Doc \ damaged' : row'[e] = row[e]
    BY <1>5, <1>6
<1> QED
    BY <1>1, <1>2, <1>6, <1>9, <1>10, <1>11, <1>13, <1>14, SyncKeeps

\* The watermark moves to the start of a run that has nothing left: all that is
\* as old is claimed, or damaged.
LEMMA FinishSyncKeeps ==
    ASSUME IInv, NEW s \in Sync, FinishSync(s)
    PROVE  IInv'
<1>1. /\ TInv' /\ sync[s].pc = "next" /\ sync[s].index = {}
      /\ UNCHANGED <<file, row, vec, clock, damaged, disturbed>>
      /\ watermark' \in {sync[s].ts, watermark}
    BY EndSyncTypes DEF FinishSync, SyncDone, IInv
<1>2. sync[s] # Idle /\ sync[s] \in SyncRun /\ RunOK(s)
    BY <1>1, Run
<1>3. sync' = [sync EXCEPT ![s] = sync'[s]] /\ sync'[s] = Idle
    BY Typed DEF FinishSync, TypeOK
<1>4. \A d \in Doc : (Claimed(d)' <=> Claimed(d)) /\ Vectors(d)' = Vectors(d)
    BY <1>1 DEF Claimed, Active, Vectors
<1>5. StoresOK'
    BY <1>1, <1>2 DEF IInv, StoresOK, RunOK
<1>6. ClaimsAreTrue'
    BY <1>1, <1>4 DEF IInv, ClaimsAreTrue
<1>7. UpToWatermark'
    <2>1. CASE watermark' = watermark
        BY <2>1, <1>1, <1>4 DEF IInv, UpToWatermark
    <2>2. CASE watermark' = sync[s].ts
        BY <2>2, <1>1, <1>2, <1>4 DEF RunOK, Covers, UpToWatermark
    <2> QED BY <2>1, <2>2, <1>1
<1> QED
    BY <1>1, <1>2, <1>3, <1>5, <1>6, <1>7, SyncKeeps

LEMMA FailSyncKeeps ==
    ASSUME IInv, NEW s \in Sync, FailSync(s)
    PROVE  IInv'
<1>1. /\ TInv' /\ sync[s] # Idle
      /\ UNCHANGED <<file, row, vec, watermark, clock, damaged>>
    BY EndSyncTypes DEF FailSync, IInv
<1>2. sync' = [sync EXCEPT ![s] = sync'[s]] /\ sync'[s] = Idle
    BY Typed DEF FailSync, TypeOK
<1>3. StoresOK' /\ ClaimsAreTrue' /\ UpToWatermark'
    BY <1>1, StoresStay
<1> QED
    BY <1>1, <1>2, <1>3, SyncKeeps

\* What is not of the sync leaves rows and runs alone.  If it touches points, it
\* damages a document whose row claims something, and disturbs one in work.
LEMMA OutsideKeeps ==
    ASSUME IInv, TInv', UNCHANGED <<file, row, clock, sync>>, watermark' \in {watermark, None},
           damaged \subseteq damaged', disturbed \cap InWork \subseteq disturbed',
           \A d \in Doc : \/ Vectors(d)' = Vectors(d)
                          \/ /\ Claimed(d) => d \in damaged'
                             /\ d \in InWork => d \in disturbed'
    PROVE  IInv'
<1>1. \A d \in Doc : Claimed(d)' <=> Claimed(d)
    BY DEF Claimed, Active
<1>2. StoresOK'
    BY DEF IInv, StoresOK
<1>3. ClaimsAreTrue'
    BY <1>1 DEF IInv, ClaimsAreTrue
<1>4. UpToWatermark'
    BY <1>1 DEF IInv, UpToWatermark
<1>5. ASSUME NEW s \in Sync, sync[s] # Idle PROVE RunOK(s)'
    <2>1. /\ RunOK(s) /\ sync[s].index \subseteq Doc /\ sync[s].drop \subseteq Doc
          /\ sync[s].pc \in Working => sync[s].doc \in Doc
        BY <1>5, Run, Typed, Busy
    <2>2. AloneOK(s)' /\ Read(s)'
        BY <2>1 DEF RunOK, AloneOK, Read
    <2>3. Before(s)'
        <3>1. ~Claimed(sync[s].doc) => ~Claimed(sync[s].doc)'
            BY DEF Claimed, Active
        <3> QED BY <3>1, <2>1, <1>1 DEF RunOK, Before
    <2>4. InHand(s)'
        <3>1. ASSUME sync[s].pc \in {"delete", "upsert", "commit"}, sync[s].doc \notin disturbed'
              PROVE  sync[s].doc \notin disturbed /\ Vectors(sync[s].doc)' = Vectors(sync[s].doc)
            <4>1. PICK d \in Doc : d = sync[s].doc /\ d \in InWork
                BY <3>1, <2>1, <1>5 DEF Working, InWork
            <4>2. d \notin disturbed /\ Vectors(d)' = Vectors(d)
                BY <3>1, <4>1
            <4>3. Vectors(sync[s].doc)' = {c \in Chunk : vec'[c] = d}
                BY <4>1 DEF Vectors
            <4> QED BY <4>1, <4>2, <4>3 DEF Vectors
        <3> QED BY <3>1, <2>1 DEF RunOK, InHand
    <2>5. Covers(s)'
        BY <2>1, <1>1 DEF RunOK, Covers
    <2> QED BY <2>1, <2>2, <2>3, <2>4, <2>5 DEF RunOK
<1> QED
    BY <1>2, <1>3, <1>4, <1>5 DEF IInv, RunsOK

\* A cleanup may delete the points of a document that has its row back: then it
\* damages it.
LEMMA DeleteOrphanKeeps ==
    ASSUME IInv, NEW k \in Cleaner, DeleteOrphan(k)
    PROVE  IInv'
<1>1. TInv' /\ UNCHANGED <<file, row, watermark, clock, sync>>
    BY CleanerTypes DEF IInv, CleanStep, DeleteOrphan
<1>2. clean[k] \in CleanRun
    BY Typed, BusyCleaner DEF DeleteOrphan
<1>3. PICK d \in clean[k].docs :
        /\ vec' = WithoutVectors(d)
        /\ damaged' = IF Active(d) THEN damaged \cup {d} ELSE damaged
        /\ disturbed' = disturbed \cup ({d} \cap InWork)
    BY DEF DeleteOrphan
<1>4. d \in Doc
    BY <1>2, <1>3 DEF CleanRun
<1>5. \A e \in Doc : e # d => Vectors(e)' = Vectors(e)
    BY <1>3, <1>4, Removal
<1>6. damaged \subseteq damaged' /\ (Claimed(d) => d \in damaged')
    BY <1>3 DEF Claimed
<1> QED
    BY <1>1, <1>3, <1>5, <1>6, OutsideKeeps

LEMMA CleanerKeeps ==
    ASSUME IInv, NEW k \in Cleaner, CleanStep(k) \/ FailClean(k)
    PROVE  IInv'
<1>1. CASE ScanVectors(k) \/ ReadActive(k) \/ FinishClean(k) \/ FailClean(k)
    <2>1. UNCHANGED <<file, row, vec, watermark, clock, sync, damaged, disturbed>>
        BY <1>1 DEF ScanVectors, ReadActive, FinishClean, FailClean
    <2>2. \A d \in Doc : Vectors(d)' = Vectors(d)
        BY <2>1 DEF Vectors
    <2>3. TInv'
        BY CleanerTypes DEF IInv
    <2> QED BY <2>1, <2>2, <2>3, OutsideKeeps
<1> QED
    BY <1>1, DeleteOrphanKeeps DEF CleanStep

\* What Redis and Qdrant lose.
LEMMA LossKeeps ==
    ASSUME IInv, LoseWatermark \/ LoseCollection \/ UNCHANGED vars
    PROVE  IInv'
<1>1. TInv'
    BY NextTypes DEF IInv, Next
<1>2. CASE LoseCollection
    <2>1. /\ UNCHANGED <<file, row, watermark, clock, sync>>
          /\ damaged \subseteq damaged' /\ disturbed' = InWork
          /\ \A d \in Doc : Claimed(d) => d \in damaged'
        BY <1>2 DEF LoseCollection, Claimed
    <2> QED BY <1>1, <2>1, OutsideKeeps
<1>3. CASE LoseWatermark \/ UNCHANGED vars
    <2>1. /\ UNCHANGED <<file, row, vec, clock, sync, damaged, disturbed>>
          /\ watermark' \in {watermark, None}
        BY <1>3 DEF LoseWatermark, vars
    <2>2. \A d \in Doc : Vectors(d)' = Vectors(d)
        BY <2>1 DEF Vectors
    <2> QED BY <1>1, <2>1, <2>2, OutsideKeeps
<1> QED
    BY <1>2, <1>3

\* An edit is later than every row, every run and the watermark, so nothing that
\* was claimed of the file is claimed of its new text.
LEMMA EditKeeps ==
    ASSUME IInv, NEW d \in Doc, Edit(d)
    PROVE  IInv'
<1>1. /\ TInv' /\ clock' = clock + 1
      /\ UNCHANGED <<row, vec, watermark, sync, damaged, disturbed>>
    BY EditTypes DEF Edit, IInv
<1>2. PICK t \in TextsOf[d] \cup {None} :
        file' = [file EXCEPT ![d] = IF t = None THEN None ELSE [text |-> t, mtime |-> clock']]
    BY DEF Edit
<1>3. /\ file'[d] # None => file'[d].mtime = clock + 1
      /\ \A e \in Doc : e # d => file'[e] = file[e]
    BY <1>1, <1>2, Typed DEF TypeOK
<1>4. /\ clock \in Nat
      /\ \A e \in Doc : file[e] # None => file[e].mtime \in Nat
      /\ \A e \in Doc : row[e] # None => row[e].mtime \in Nat
      /\ watermark # None => watermark \in Nat
    BY Typed, ClockAssumption DEF TypeOK, Time, File, Row
<1>5. ~Claimed(d)'
    BY <1>1, <1>3, <1>4 DEF Claimed, Active, IInv, StoresOK
<1>6. \A e \in Doc : e # d => (Claimed(e)' <=> Claimed(e))
    BY <1>1, <1>3 DEF Claimed, Active
<1>7. \A e \in Doc : Vectors(e)' = Vectors(e)
    BY <1>1 DEF Vectors
<1>8. StoresOK'
    BY <1>1, <1>3, <1>4 DEF IInv, StoresOK
<1>9. ClaimsAreTrue'
    BY <1>1, <1>3, <1>5, <1>6, <1>7 DEF IInv, ClaimsAreTrue
<1>10. UpToWatermark'
    <2>1. ASSUME NEW e \in Doc \ damaged, e # d, file'[e] # None, watermark' # None,
                 file'[e].mtime <= watermark'
          PROVE  Claimed(e)'
        BY <2>1, <1>1, <1>3, <1>6 DEF IInv, UpToWatermark
    <2>2. ~(file'[d] # None /\ watermark' # None /\ file'[d].mtime <= watermark')
        BY <1>1, <1>3, <1>4 DEF IInv, StoresOK
    <2> QED BY <2>1, <2>2, <1>1 DEF UpToWatermark
<1>11. RunsOK'
    <2> SUFFICES ASSUME NEW s \in Sync, sync[s] # Idle PROVE RunOK(s)'
        BY <1>1 DEF RunsOK
    <2>1. RunOK(s) /\ sync[s] \in SyncRun /\ (sync[s].pc \in Working => sync[s].doc \in Doc)
        BY Typed, Busy, Run DEF IInv, RunsOK
    <2>2. /\ sync[s].ts \in Nat /\ sync[s].mtime \in Nat
          /\ sync[s].index \subseteq Doc /\ sync[s].drop \subseteq Doc
        BY <2>1, ClockAssumption DEF SyncRun, Time
    <2>3. Before(s)'
        <3>1. \A e \in (sync[s].index \cup sync[s].drop) \ damaged : ~Claimed(e)'
            BY <2>1, <2>2, <1>5, <1>6 DEF RunOK, Before
        <3>2. ASSUME sync[s].pc \in Working
              PROVE  ~Claimed(sync[s].doc)' \/ sync[s].doc \in damaged
            <4>1. PICK e \in Doc : e = sync[s].doc /\ (~Claimed(e) \/ e \in damaged)
                BY <3>2, Work
            <4>2. ~Claimed(e)' \/ e \in damaged
                BY <4>1, <1>5, <1>6
            <4> QED BY <4>1, <4>2, <1>1 DEF Claimed, Active
        <3> QED BY <3>1, <3>2, <2>1, <1>1 DEF RunOK, Before
    <2>4. InHand(s)'
        <3>1. Vectors(sync[s].doc)' = Vectors(sync[s].doc)
            BY <1>1 DEF Vectors
        <3>2. sync[s].pc \in {"delete", "upsert", "commit"} => sync[s].doc \in Doc
            BY <2>1 DEF Working
        <3> QED BY <3>1, <3>2, <2>1, <2>2, <1>1, <1>3, <1>4 DEF RunOK, InHand
    <2>5. Covers(s)'
        <3>1. ASSUME NEW e \in Doc, file'[e] # None, file'[e].mtime <= sync[s].ts
              PROVE  e # d
            BY <3>1, <2>1, <2>2, <1>3, <1>4 DEF RunOK
        <3> QED BY <3>1, <2>1, <1>1, <1>3, <1>6 DEF RunOK, Covers
    <2>6. AloneOK(s)' /\ Read(s)'
        BY <2>1, <1>1 DEF RunOK, AloneOK, Read
    <2> QED BY <2>1, <2>2, <2>3, <2>4, <2>5, <2>6, <1>1, <1>4 DEF RunOK
<1> QED
    BY <1>1, <1>8, <1>9, <1>10, <1>11 DEF IInv

LEMMA InitIInv == Init => IInv
<1> SUFFICES ASSUME Init PROVE IInv
    OBVIOUS
<1>1. 0 \in Time
    BY ClockAssumption DEF Time
<1>2. \A d \in Doc : file[d] # None => file[d].mtime = 0
    BY DEF Init
<1>3. StoresOK
    BY <1>2 DEF Init, StoresOK, NoRows
<1>4. ClaimsAreTrue /\ UpToWatermark
    BY DEF Init, ClaimsAreTrue, UpToWatermark, Claimed, Active, NoRows
<1>5. RunsOK
    BY DEF Init, RunsOK
<1> QED
    BY <1>3, <1>4, <1>5, InitTypes DEF IInv

LEMMA NextKeeps ==
    ASSUME IInv, [Next]_vars
    PROVE  IInv'
<1>1. ASSUME NEW s \in Sync, SyncStep(s) \/ FailSync(s) PROVE IInv'
    BY <1>1, BeginSyncKeeps, EnsureKeeps, ScanKeeps, ReadTextKeeps, DeleteVectorsKeeps,
       UpsertKeeps, StatKeeps, CommitRowKeeps, DropVectorsKeeps, DropRowKeeps, FinishSyncKeeps,
       FailSyncKeeps DEF SyncStep
<1>2. ASSUME NEW k \in Cleaner, CleanStep(k) \/ FailClean(k) PROVE IInv'
    BY <1>2, CleanerKeeps
<1>3. ASSUME NEW d \in Doc, Edit(d) PROVE IInv'
    BY <1>3, EditKeeps
<1> QED
    BY <1>1, <1>2, <1>3, LossKeeps DEF Next

\* Whatever fails, overlaps, is lost or edited, a file the watermark has passed is
\* registered and searchable as it stands, but for documents that were robbed of
\* points since a run alone last indexed them.
THEOREM WatermarkSafe == Spec => []WatermarkIsSafe
<1>1. IInv => WatermarkIsSafe
    BY DEF IInv, ClaimsAreTrue, UpToWatermark, WatermarkIsSafe, Indexed, Claimed
<1>2. IInv /\ [Next]_vars => IInv'
    BY NextKeeps
<1> QED
    BY <1>1, <1>2, InitIInv, PTL DEF Spec
=============================================================================
