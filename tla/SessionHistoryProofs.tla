------------------------ MODULE SessionHistoryProofs ------------------------
(***************************************************************************)
(* Theorems about SessionHistory, for every set of sessions, every set of  *)
(* operations and faults, and every bound:                                 *)
(*                                                                         *)
(*   TypeCorrect   the state is well typed, the files included;            *)
(*   Kept          a stop never deletes what a write saved;                *)
(*   Removed       a session announced as removed is gone for good.        *)
(*                                                                         *)
(* One inductive invariant, Inv, serves all three.  Beside the types it    *)
(* says which transitions have a record (Present), what a saved record is  *)
(* (Saved), what the writes that are still to be done are about (Due), and *)
(* that a session that is gone, or not yet there, is nowhere (Nowhere).    *)
(***************************************************************************)
EXTENDS SessionHistory, TLAPS

-----------------------------------------------------------------------------
(***************************************************************************)
(* The inductive invariant.                                                *)
(***************************************************************************)
\* A transition in progress has the record it works on, except that a delete
\* has discarded it by the time the agent is being closed.
PresentAt(s) ==
    /\ s \in live => rec[s] # None
    /\ stage[s] \in {"starting", "resuming", "settling"} => rec[s] # None
    /\ stage[s] = "closing" => (rec[s] = None <=> ending[s].kind = "delete")

Present == \A s \in Sessions : PresentAt(s)

\* While the daemon is down nothing is in the middle of anything.
AtRest ==
    up = "down" =>
        /\ live = {} /\ writes = <<>>
        /\ \A s \in Sessions : stage[s] \in {"unborn", "free"}

\* A throwaway is never saved, and what is on disk is known to be.
SavedAt(s, r) ==
    /\ r.persisted => ~r.ephemeral
    /\ meta[s] # None => r.persisted

Saved == \A s \in Sessions : rec[s] # None => SavedAt(s, rec[s])

Nothing(s) == rec[s] = None /\ meta[s] = None /\ file[s] = Whole(<<>>)

Nowhere ==
    \A s \in Sessions :
        /\ stage[s] = "unborn" => Nothing(s)
        /\ s \in gone => Nothing(s) /\ stage[s] = "free"

\* A write is about a record that is there, or removes one that is not; the
\* announcement of a removal comes right behind the removal.
DueWrite(i) ==
    LET w == writes[i]
        s == w.session
    IN
    /\ w.kind = "meta" => rec[s] # None /\ rec[s].persisted
    /\ w.kind \in {"append", "rewrite"} => rec[s] # None
    /\ w.kind \in {"delete", "removed"} => rec[s] = None /\ stage[s] = "free"
    /\ w.kind = "removed" =>
          IF i = 1 THEN Nothing(s) ELSE writes[i - 1] = Write("delete", s, None)

Due == \A i \in DOMAIN writes : DueWrite(i)

Inv == TypeOK /\ Present /\ AtRest /\ Saved /\ Nowhere /\ Due

-----------------------------------------------------------------------------
(***************************************************************************)
(* The operators that steps are made of.                                   *)
(***************************************************************************)
Blocks == [rec : Records, out : Seq(DiskWrites)]

\* A block of session s leaves a record that is no saved throwaway, and
\* writes of s alone, its metadata only once it is saved.
Fit(s, b) ==
    /\ b \in Blocks
    /\ SavedAt(s, b.rec)
    /\ \A i \in DOMAIN b.out :
          /\ b.out[i].session = s
          /\ b.out[i].kind \in {"meta", "append", "rewrite"}
          /\ b.out[i].kind = "meta" => b.rec.persisted

LEMMA StoredType ==
    ASSUME NEW r \in Records
    PROVE  Stored(r) \in Metas
BY DEF Stored, Records, Metas

LEMMA RestoredType ==
    ASSUME NEW m \in Metas
    PROVE  Restored(m) \in Records /\ Restored(m).persisted /\ ~Restored(m).ephemeral
BY DEF Restored, Records, Metas

LEMMA ReleasedType ==
    ASSUME NEW r \in Records
    PROVE  /\ Released(r) \in Records
           /\ Released(r).persisted = r.persisted
           /\ Released(r).ephemeral = r.ephemeral
BY DEF Released, Records

LEMMA LoadedType ==
    ASSUME TypeOK, NEW s \in Sessions, NEW r \in Records
    PROVE  Loaded(s, r) \in Seq(Events)
BY DEF TypeOK, DiskOK, Loaded, ReadBack, Records

LEMMA ReadType ==
    ASSUME TypeOK, NEW s \in Sessions, NEW r \in Records
    PROVE  /\ Read(s, r) \in Records
           /\ Read(s, r).persisted = r.persisted
           /\ Read(s, r).ephemeral = r.ephemeral
BY LoadedType DEF Read, Records

LEMMA SliceType ==
    ASSUME NEW lines \in Seq(Events), NEW n \in Nat
    PROVE  Slice(lines, n) \in Seq(Events)
BY DEF Slice

LEMMA NewRecordType ==
    ASSUME NEW named \in BOOLEAN, NEW ephemeral \in BOOLEAN
    PROVE  NewRecord(named, ephemeral) \in Records /\ ~NewRecord(named, ephemeral).persisted
BY DEF NewRecord, Records

LEMMA BlockFit ==
    ASSUME NEW s \in Sessions, NEW r \in Records, SavedAt(s, r)
    PROVE  Fit(s, Block(r))
BY DEF Fit, Block, Blocks

LEMMA AddedFit ==
    ASSUME NEW s \in Sessions, NEW b, Fit(s, b), NEW w \in DiskWrites,
           w.session = s, w.kind \in {"meta", "append", "rewrite"},
           NEW c \in Blocks, c.out = Append(b.out, w),
           c.rec.persisted => ~c.rec.ephemeral,
           b.rec.persisted \/ w.kind = "meta" => c.rec.persisted
    PROVE  Fit(s, c)
<1>1. b.out \in Seq(DiskWrites)
  BY DEF Fit, Blocks
<1>2. \A i \in DOMAIN c.out : c.out[i] = IF i = Len(b.out) + 1 THEN w ELSE b.out[i]
  BY <1>1
<1>3. \A i \in DOMAIN c.out : i # Len(b.out) + 1 => i \in DOMAIN b.out
  BY <1>1
<1> QED BY <1>1, <1>2, <1>3 DEF Fit, SavedAt

LEMMA WroteFit ==
    ASSUME NEW s \in Sessions, NEW b, Fit(s, b), NEW w \in DiskWrites,
           w.session = s, w.kind = "append"
    PROVE  Fit(s, [b EXCEPT !.out = Append(@, w)])
<1> DEFINE c == [b EXCEPT !.out = Append(@, w)]
<1>1. c \in Blocks /\ c.out = Append(b.out, w) /\ c.rec = b.rec
  BY DEF Fit, Blocks
<1> QED BY <1>1, AddedFit DEF Fit, SavedAt

LEMMA PersistedFit ==
    ASSUME NEW s \in Sessions, NEW b, Fit(s, b)
    PROVE  Fit(s, Persisted(s, b))
<1>1. CASE ~Keeps(b.rec)
  BY <1>1 DEF Persisted
<1>2. CASE Keeps(b.rec)
  <2> DEFINE r == [b.rec EXCEPT !.persisted = TRUE]
             w == Write("meta", s, Stored(b.rec))
             c == [rec |-> r, out |-> Append(b.out, w)]
  <2>1. b.rec \in Records /\ r \in Records /\ r.persisted /\ ~r.ephemeral
    BY <1>2 DEF Fit, Blocks, Records, Keeps
  <2>2. w \in DiskWrites /\ w.session = s /\ w.kind = "meta"
    BY <2>1, StoredType DEF Write, DiskWrites
  <2>3. b.out \in Seq(DiskWrites)
    BY DEF Fit, Blocks
  <2>4. c \in Blocks
    BY <2>1, <2>2, <2>3 DEF Blocks
  <2>5. Fit(s, c)
    BY <2>1, <2>2, <2>4, AddedFit
  <2>6. Persisted(s, b) = c
    BY <1>2 DEF Persisted
  <2> QED BY <2>5, <2>6
<1> QED BY <1>1, <1>2

LEMMA ChangedFit ==
    ASSUME NEW s \in Sessions, NEW b, Fit(s, b), NEW r \in Records,
           r.persisted = b.rec.persisted, r.ephemeral = b.rec.ephemeral
    PROVE  Fit(s, [b EXCEPT !.rec = r])
BY DEF Fit, Blocks, SavedAt

LEMMA EmittedFit ==
    ASSUME TypeOK, NEW s \in Sessions, NEW b, Fit(s, b), NEW e \in Events
    PROVE  Fit(s, Emitted(s, b, e))
<1> DEFINE r == [Read(s, b.rec) EXCEPT !.transcript = Append(@, e)]
           p == Persisted(s, [b EXCEPT !.rec = r])
           w == Write("append", s, e)
<1>1. b.rec \in Records
  BY DEF Fit, Blocks
<1>2. r \in Records /\ r.persisted = b.rec.persisted /\ r.ephemeral = b.rec.ephemeral
  <2>1. Read(s, b.rec).transcript \in Seq(Events)
    BY <1>1, LoadedType DEF Read, Records
  <2>2. Append(Read(s, b.rec).transcript, e) \in Seq(Events)
    BY <2>1
  <2>3. /\ Read(s, b.rec) \in Records
        /\ Read(s, b.rec).persisted = b.rec.persisted
        /\ Read(s, b.rec).ephemeral = b.rec.ephemeral
    BY <1>1, ReadType
  <2> QED BY <2>2, <2>3 DEF Records
<1>3. Fit(s, p)
  BY <1>2, ChangedFit, PersistedFit
<1>4. w \in DiskWrites /\ w.session = s /\ w.kind = "append"
  BY DEF Write, DiskWrites
<1>5. Fit(s, [p EXCEPT !.out = Append(@, w)])
  BY <1>3, <1>4, WroteFit
<1> QED BY <1>3, <1>5 DEF Emitted

LEMMA EmittedIfFit ==
    ASSUME TypeOK, NEW s \in Sessions, NEW b, Fit(s, b), NEW e \in Events, NEW c
    PROVE  Fit(s, EmittedIf(c, s, b, e))
BY EmittedFit DEF EmittedIf

LEMMA MarkedFit ==
    ASSUME NEW s \in Sessions, NEW b, Fit(s, b), NEW marker \in {"none", "open", "owed"}
    PROVE  Fit(s, Marked(s, b, marker))
<1> DEFINE r == [b.rec EXCEPT !.openTurn = marker]
<1>1. r \in Records /\ r.persisted = b.rec.persisted /\ r.ephemeral = b.rec.ephemeral
  BY DEF Fit, Blocks, Records
<1>2. [b EXCEPT !.rec.openTurn = marker] = [b EXCEPT !.rec = r]
  BY DEF Fit, Blocks
<1> QED BY <1>1, <1>2, ChangedFit, PersistedFit DEF Marked

-----------------------------------------------------------------------------
(***************************************************************************)
(* What the actions have in common.                                        *)
(***************************************************************************)
\* A step that touches only session s, which is there and neither gone nor
\* down, and no file.
OnlyOf(s) ==
    /\ up # "down" /\ up' = up
    /\ s \notin gone
    /\ stage'[s] # "unborn"
    /\ \A z \in Sessions \ {s} : stage'[z] = stage[z] /\ ending'[z] = ending[z]
    /\ live' \subseteq live \cup {s}
    /\ UNCHANGED <<meta, file, gone>>

RecordsOK == rec \in [Sessions -> Records \cup {None}] /\ writes \in Seq(DiskWrites)

\* The parts of Inv beside the types of what the step does not share.
Core == RecordsOK /\ Present /\ AtRest /\ Saved /\ Nowhere /\ Due

\* The code of a step that leaves a record and its writes.
LEMMA DoCore ==
    ASSUME Inv, NEW s \in Sessions, NEW b, Fit(s, b), Do(s, b), OnlyOf(s),
           stage'[s] = "closing" => ending'[s].kind # "delete"
    PROVE  Core' /\ rec'[s] = b.rec /\ rec'[s] # None
<1>1. /\ rec' \in [Sessions -> Records \cup {None}] /\ writes' \in Seq(DiskWrites)
      /\ rec'[s] = b.rec /\ rec'[s] # None
      /\ \A z \in Sessions \ {s} : rec'[z] = rec[z]
  BY NoneAssumption DEF Inv, TypeOK, MemoryOK, Fit, Blocks, Do
<1>2. Present'
  BY <1>1 DEF Inv, Present, PresentAt, OnlyOf
<1>3. AtRest'
  BY DEF AtRest, OnlyOf
<1>4. Saved'
  BY <1>1 DEF Inv, Saved, SavedAt, Fit, OnlyOf
<1>5. Nowhere'
  BY <1>1 DEF Inv, Nowhere, Nothing, OnlyOf
<1>6. Due'
  <2> SUFFICES ASSUME NEW i \in DOMAIN writes' PROVE DueWrite(i)'
    BY DEF Due
  <2>1. /\ writes'[i].session = s
        /\ writes'[i].kind \in {"meta", "append", "rewrite"}
        /\ writes'[i].kind = "meta" => b.rec.persisted
    BY DEF Do, Fit
  <2> QED BY <1>1, <2>1 DEF DueWrite
<1> QED BY <1>1, <1>2, <1>3, <1>4, <1>5, <1>6 DEF Core, RecordsOK

\* One that writes nothing, and leaves the record as saved as it was, or
\* discards it.
LEMMA QuietCore ==
    ASSUME Inv, NEW s \in Sessions, OnlyOf(s),
           writes = <<>>, writes' = <<>>,
           NEW r \in Records \cup {None}, rec' = [rec EXCEPT ![s] = r],
           r # None => SavedAt(s, r), PresentAt(s)'
    PROVE  Core'
<1>1. /\ rec' \in [Sessions -> Records \cup {None}] /\ rec'[s] = r
      /\ \A z \in Sessions \ {s} : rec'[z] = rec[z]
  BY DEF Inv, TypeOK, MemoryOK
<1>2. Present'
  <2> SUFFICES ASSUME NEW z \in Sessions PROVE PresentAt(z)'
    BY DEF Present
  <2>1. CASE z = s
    BY <2>1
  <2>2. CASE z # s
    BY <1>1, <2>2 DEF Inv, Present, PresentAt, OnlyOf
  <2> QED BY <2>1, <2>2
<1>3. AtRest'
  BY DEF AtRest, OnlyOf
<1>4. Saved'
  BY <1>1 DEF Inv, Saved, SavedAt, OnlyOf
<1>5. Nowhere'
  BY <1>1 DEF Inv, Nowhere, Nothing, OnlyOf
<1>6. Due'
  BY DEF Due
<1> QED BY <1>1, <1>2, <1>3, <1>4, <1>5, <1>6 DEF Core, RecordsOK

\* A record that is there is a saved one, and its session is there.
LEMMA ThereIs ==
    ASSUME Inv, NEW s \in Sessions, rec[s] # None
    PROVE  /\ rec[s] \in Records /\ SavedAt(s, rec[s])
           /\ stage[s] # "unborn" /\ s \notin gone
           /\ Fit(s, Block(rec[s]))
<1>1. rec[s] \in Records /\ SavedAt(s, rec[s])
  BY DEF Inv, TypeOK, MemoryOK, Saved
<1>2. stage[s] # "unborn" /\ s \notin gone
  BY DEF Inv, Nowhere, Nothing
<1> QED BY <1>1, <1>2, BlockFit

-----------------------------------------------------------------------------
(***************************************************************************)
(* One lemma per action.                                                   *)
(***************************************************************************)
LEMMA CreateInv ==
    ASSUME Inv, NEW s \in Sessions, NEW named \in BOOLEAN, NEW ephemeral \in BOOLEAN,
           Create(s, named, ephemeral)
    PROVE  Inv'
<1> DEFINE r == NewRecord(named, ephemeral)
           b == Persisted(s, Block(r))
<1>1. stage[s] = "unborn" /\ meta[s] = None /\ s \notin gone
  BY DEF Create, Inv, Nowhere, Nothing
<1>2. Fit(s, b)
  BY <1>1, NewRecordType, BlockFit, PersistedFit DEF SavedAt
<1>3. Fit(s, Emitted(s, b, "notice"))
  BY <1>2, EmittedFit DEF Inv, Events
<1>4. OnlyOf(s) /\ stage'[s] # "closing"
  BY <1>1 DEF Create, OnlyOf, Runs, disk, Inv, TypeOK, MemoryOK
<1>5. PICK c : Fit(s, c) /\ Do(s, c)
  BY <1>2, <1>3 DEF Create
<1>6. Core'
  BY <1>4, <1>5, DoCore
<1>7. TypeOK'
  BY <1>6 DEF Create, Core, RecordsOK, Inv, TypeOK, MemoryOK, DiskOK, KnowledgeOK,
              disk, knowledge
<1> QED BY <1>6, <1>7 DEF Core, Inv

\* A record that a backend's id is entered in, or not.
LEMMA EnteredFits ==
    ASSUME NEW s, NEW q \in Records, SavedAt(s, q), NEW id \in Nat \cup {None}
    PROVE  /\ [q EXCEPT !.acp = id] \in Records /\ SavedAt(s, [q EXCEPT !.acp = id])
           /\ q.acp \in Nat \cup {None}
  BY DEF Records, SavedAt

LEMMA StartedInv ==
    ASSUME Inv, NEW s \in Sessions, NEW warned \in BOOLEAN, Started(s, warned)
    PROVE  Inv'
<1> DEFINE r == [rec[s] EXCEPT !.acp = epoch[s]]
           b == EmittedIf(warned, s, Block(r), "notice")
<1>1. rec[s] # None
  BY DEF Started, Inv, Present, PresentAt
<1>2. r \in Records /\ SavedAt(s, r)
  <2>1. rec[s] \in Records /\ SavedAt(s, rec[s]) /\ epoch[s] \in Nat
    BY <1>1, ThereIs DEF Inv, TypeOK, DiskOK
  <2> QED BY <2>1, EnteredFits
<1>3. Fit(s, Persisted(s, b))
  BY <1>2, BlockFit, EmittedIfFit, PersistedFit DEF Inv, Events
<1>4. OnlyOf(s)
  BY <1>1, ThereIs DEF Started, OnlyOf, Runs, disk, Inv, TypeOK, MemoryOK
<1>5. Core'
  BY <1>3, <1>4, DoCore DEF Started
<1>6. TypeOK'
  BY <1>5 DEF Started, Core, RecordsOK, Inv, TypeOK, MemoryOK, DiskOK, KnowledgeOK, disk
<1> QED BY <1>5, <1>6 DEF Core, Inv

LEMMA OwedFit ==
    ASSUME TypeOK, NEW s \in Sessions, NEW b, Fit(s, b), NEW owes \in BOOLEAN
    PROVE  Fit(s, [b EXCEPT !.rec = Owed(Read(s, b.rec), owes)])
<1> DEFINE r == Owed(Read(s, b.rec), owes)
<1>1. b.rec \in Records
  BY DEF Fit, Blocks
<1>2. r \in Records /\ r.persisted = b.rec.persisted /\ r.ephemeral = b.rec.ephemeral
  BY <1>1, ReadType DEF Owed, Records
<1> QED BY <1>2, ChangedFit

LEMMA ResumedInv ==
    ASSUME Inv, NEW s \in Sessions, NEW loaded \in BOOLEAN, NEW warned \in BOOLEAN,
           Resumed(s, loaded, warned)
    PROVE  Inv'
<1> DEFINE r == [rec[s] EXCEPT !.acp = IF loaded THEN @ ELSE epoch[s]]
           b == Persisted(s, EmittedIf(warned, s, Block(r), "notice"))
           owes == Owes(s, loaded)
           shown == [b EXCEPT !.rec = Owed(Read(s, b.rec), owes)]
<1>1. rec[s] # None
  BY DEF Resumed, Inv, Present, PresentAt
<1>2. r \in Records /\ SavedAt(s, r)
  <2>1. rec[s] \in Records /\ SavedAt(s, rec[s]) /\ epoch[s] \in Nat
    BY <1>1, ThereIs DEF Inv, TypeOK, DiskOK
  <2> QED BY <2>1, EnteredFits
<1>3. Fit(s, b)
  BY <1>2, BlockFit, EmittedIfFit, PersistedFit DEF Inv, Events
<1>4. Fit(s, shown)
  BY <1>3, OwedFit DEF Inv, Owes
<1>5. Fit(s, EmittedIf(owes, s, shown, "notice"))
  BY <1>4, EmittedIfFit DEF Inv, Events
<1>6. OnlyOf(s)
  BY <1>1, ThereIs DEF Resumed, OnlyOf, Runs, disk, Inv, TypeOK, MemoryOK
<1>7. Core'
  BY <1>5, <1>6, DoCore DEF Resumed
<1>8. TypeOK'
  BY <1>7 DEF Resumed, Core, RecordsOK, Inv, TypeOK, MemoryOK, DiskOK, KnowledgeOK, disk
<1> QED BY <1>7, <1>8 DEF Core, Inv

LEMMA WaitsInv ==
    ASSUME Inv, NEW s \in Sessions, Waits(s)
    PROVE  Inv'
<1>1. rec[s] # None
  BY DEF Waits, Free
<1>2. Fit(s, Emitted(s, Block(rec[s]), "notice"))
  BY <1>1, ThereIs, EmittedFit DEF Inv, Events
<1>3. OnlyOf(s) /\ stage'[s] # "closing"
  BY <1>1, ThereIs DEF Waits, Free, OnlyOf, Runs, disk
<1>4. Core'
  BY <1>2, <1>3, DoCore DEF Waits
<1>5. TypeOK'
  BY <1>4 DEF Waits, Core, RecordsOK, Inv, TypeOK, MemoryOK, DiskOK, KnowledgeOK,
              disk, knowledge
<1> QED BY <1>4, <1>5 DEF Core, Inv

LEMMA ResumeInv ==
    ASSUME Inv, NEW s \in Sessions, Resume(s)
    PROVE  Inv'
<1>1. PICK r \in Records \cup {None} :
           r = rec[s] /\ r # None /\ SavedAt(s, r) /\ rec' = [rec EXCEPT ![s] = r]
  BY ThereIs DEF Resume, Free, Inv, TypeOK, MemoryOK
<1>2. OnlyOf(s) /\ stage'[s] = "resuming" /\ writes = <<>> /\ writes' = <<>>
  BY <1>1, ThereIs DEF Resume, Free, OnlyOf, Runs, disk, Inv, TypeOK, MemoryOK
<1>3. PresentAt(s)'
  BY <1>1, <1>2 DEF PresentAt, Resume
<1>4. Core'
  BY <1>1, <1>2, <1>3, QuietCore
<1>5. TypeOK'
  BY <1>4 DEF Resume, Core, RecordsOK, Inv, TypeOK, MemoryOK, DiskOK, KnowledgeOK,
              disk, knowledge
<1> QED BY <1>4, <1>5 DEF Core, Inv

LEMMA ResumeFailsInv ==
    ASSUME Inv, NEW s \in Sessions, ResumeFails(s)
    PROVE  Inv'
<1> DEFINE r == [rec[s] EXCEPT !.acp = None]
<1>1. rec[s] # None
  BY DEF ResumeFails, Inv, Present, PresentAt
<1>2. r \in Records /\ r # None /\ SavedAt(s, r) /\ rec' = [rec EXCEPT ![s] = r]
  <2>1. r \in Records /\ SavedAt(s, r)
    BY <1>1, ThereIs DEF Records, SavedAt
  <2>2. rec' = [rec EXCEPT ![s] = r]
    BY DEF ResumeFails
  <2> QED BY <2>1, <2>2, NoneAssumption
<1>3. OnlyOf(s) /\ stage'[s] = "free" /\ writes = <<>> /\ writes' = <<>>
  BY <1>1, ThereIs DEF ResumeFails, OnlyOf, Runs, disk, Inv, TypeOK, MemoryOK
<1>4. PresentAt(s)'
  BY <1>2, <1>3 DEF PresentAt, ResumeFails, Inv, TypeOK, MemoryOK
<1>5. Core'
  BY <1>2, <1>3, <1>4, QuietCore
<1>6. TypeOK'
  BY <1>5 DEF ResumeFails, Core, RecordsOK, Inv, TypeOK, MemoryOK, DiskOK, KnowledgeOK,
              disk, knowledge
<1> QED BY <1>5, <1>6 DEF Core, Inv

\* The record is discarded, and what is on disk is to be removed.
LEMMA RemovalCore ==
    ASSUME Inv, NEW s \in Sessions, OnlyOf(s), rec' = [rec EXCEPT ![s] = None],
           writes' = Removal(s), stage'[s] = "free", s \notin live'
    PROVE  Core'
<1>1. /\ rec' \in [Sessions -> Records \cup {None}] /\ rec'[s] = None
      /\ \A z \in Sessions \ {s} : rec'[z] = rec[z]
  BY DEF Inv, TypeOK, MemoryOK
<1>2. writes' \in Seq(DiskWrites)
  BY DEF Removal, Write, DiskWrites
<1>3. Present'
  BY <1>1 DEF Inv, Present, PresentAt, OnlyOf
<1>4. AtRest'
  BY DEF AtRest, OnlyOf
<1>5. Saved'
  BY <1>1 DEF Inv, Saved, SavedAt, OnlyOf
<1>6. Nowhere'
  BY <1>1 DEF Inv, Nowhere, Nothing, OnlyOf
<1>7. Due'
  <2> SUFFICES ASSUME NEW i \in DOMAIN writes' PROVE DueWrite(i)'
    BY DEF Due
  <2>1. \/ i = 1 /\ writes'[i] = Write("delete", s, None)
        \/ /\ i = 2 /\ writes'[i] = Write("removed", s, None)
           /\ writes'[i - 1] = Write("delete", s, None)
    BY DEF Removal
  <2> QED BY <1>1, <2>1 DEF DueWrite, Write
<1> QED BY <1>1, <1>2, <1>3, <1>4, <1>5, <1>6, <1>7 DEF Core, RecordsOK

LEMMA StartFailsInv ==
    ASSUME Inv, NEW s \in Sessions, StartFails(s)
    PROVE  Inv'
<1>1. rec[s] # None
  BY DEF StartFails, Inv, Present, PresentAt
<1>2. OnlyOf(s) /\ stage'[s] = "free" /\ s \notin live'
  BY <1>1, ThereIs DEF StartFails, OnlyOf, Runs, disk, Inv, TypeOK, MemoryOK
<1>3. Core'
  BY <1>2, RemovalCore DEF StartFails
<1>4. TypeOK'
  BY <1>3 DEF StartFails, Core, RecordsOK, Inv, TypeOK, MemoryOK, DiskOK, KnowledgeOK,
              disk, knowledge
<1> QED BY <1>3, <1>4 DEF Core, Inv

\* Nothing changes that the invariant is about, beside its types.
LEMMA SameCore ==
    ASSUME Inv, UNCHANGED <<up, rec, live, stage, ending, meta, file, gone, writes>>
    PROVE  Core'
<1>1. RecordsOK' /\ AtRest'
  BY DEF Inv, TypeOK, MemoryOK, DiskOK, RecordsOK, AtRest
<1>2. Present'
  BY DEF Inv, Present, PresentAt
<1>3. Saved' /\ Nowhere'
  BY DEF Inv, Saved, SavedAt, Nowhere, Nothing
<1>4. Due'
  BY DEF Inv, Due, DueWrite, Nothing
<1> QED BY <1>1, <1>2, <1>3, <1>4 DEF Core

LEMMA ToldFit ==
    ASSUME Inv, NEW s \in Sessions, rec[s] # None
    PROVE  Fit(s, Collected(Told(s)))
<1> DEFINE r == [rec[s] EXCEPT !.oriented = TRUE]
           b == Told(s)
           c == [b.rec EXCEPT !.openTurn = IF b.rec.openTurn = "owed"
                                           THEN "open" ELSE b.rec.openTurn,
                              !.pending = FALSE]
<1>1. r \in Records /\ SavedAt(s, r)
  BY ThereIs DEF Records, SavedAt
<1>2. Fit(s, b)
  BY <1>1, ThereIs, BlockFit, PersistedFit DEF Told
<1>3. c \in Records /\ c.persisted = b.rec.persisted /\ c.ephemeral = b.rec.ephemeral
  BY <1>2 DEF Fit, Blocks, Records
<1>4. Collected(b) = [b EXCEPT !.rec = c]
  BY <1>2 DEF Collected, Fit, Blocks, Records
<1>5. Fit(s, [b EXCEPT !.rec = c])
  BY <1>2, <1>3, ChangedFit
<1> QED BY <1>4, <1>5

LEMMA BeginTurnInv ==
    ASSUME Inv, NEW s \in Sessions, BeginTurn(s)
    PROVE  Inv'
<1> DEFINE r == rec[s]
           told == Collected(Told(s))
           oriented == EmittedIf(~r.oriented, s, told, "orientation")
           newsed == EmittedIf(r.openTurn = "owed", s, oriented, "news")
           b == Marked(s, Emitted(s, newsed, "user"), "open")
<1>1. rec[s] # None
  BY DEF BeginTurn, Free
<1>2. Fit(s, oriented)
  BY <1>1, ToldFit, EmittedIfFit DEF Inv, Events, Messages, FromUser
<1>3. Fit(s, newsed)
  BY <1>2, EmittedIfFit DEF Inv, Events, Messages, FromUser
<1>4. Fit(s, b)
  BY <1>3, EmittedFit, MarkedFit DEF Inv, Events, Messages, FromUser
<1>5. OnlyOf(s) /\ stage'[s] # "closing"
  BY <1>1, ThereIs DEF BeginTurn, Free, OnlyOf, Runs, disk
<1>6. Do(s, b)
  BY DEF BeginTurn
<1>7. Core'
  BY <1>4, <1>5, <1>6, DoCore
<1>8. carried' \in [Sessions -> SUBSET {"news", "context"}]
  BY DEF BeginTurn, Inv, TypeOK, KnowledgeOK
<1>9. turn' \in [Sessions -> {"none", "begun", "running", "cancelled"}] /\ handled' \subseteq Sessions
  BY DEF BeginTurn, Inv, TypeOK, MemoryOK
<1>10. TypeOK'
  BY <1>7, <1>8, <1>9 DEF BeginTurn, Core, RecordsOK, Inv, TypeOK, MemoryOK, DiskOK,
                          KnowledgeOK, disk
<1> QED BY <1>7, <1>10 DEF Core, Inv

LEMMA RefusedInv ==
    ASSUME Inv, NEW s \in Sessions, Refused(s)
    PROVE  Inv'
<1>1. rec[s] # None
  BY DEF Refused, Free
<1>2. Fit(s, Emitted(s, Collected(Told(s)), "notice"))
  BY <1>1, ToldFit, EmittedFit DEF Inv, Events
<1>3. OnlyOf(s) /\ stage'[s] # "closing"
  BY <1>1, ThereIs DEF Refused, Free, OnlyOf, Runs, disk
<1>4. Core'
  BY <1>2, <1>3, DoCore DEF Refused
<1>5. TypeOK'
  BY <1>4 DEF Refused, Core, RecordsOK, Inv, TypeOK, MemoryOK, DiskOK, KnowledgeOK,
              disk, knowledge
<1> QED BY <1>4, <1>5 DEF Core, Inv

LEMMA PromptInv ==
    ASSUME Inv, NEW s \in Sessions, Prompt(s)
    PROVE  Inv'
<1>1. Core'
  BY SameCore DEF Prompt, disk
<1>2. TypeOK'
  BY <1>1 DEF Prompt, Core, RecordsOK, Inv, TypeOK, MemoryOK, DiskOK, KnowledgeOK, disk
<1> QED BY <1>1, <1>2 DEF Core, Inv

\* What a turn leaves, of a session that may have been removed under it.
LEMMA KnownCore ==
    ASSUME Inv, NEW s \in Sessions, NEW b, rec[s] # None => Fit(s, b),
           Runs, DoIfKnown(s, b), UNCHANGED <<up, live, stage, ending, meta, file, gone>>
    PROVE  Core'
<1>1. CASE rec[s] = None
  BY <1>1, SameCore DEF DoIfKnown
<1>2. CASE rec[s] # None
  <2>1. OnlyOf(s)
    BY <1>2, ThereIs DEF OnlyOf, Runs
  <2>2. stage'[s] = "closing" => ending'[s].kind # "delete"
    BY <1>2 DEF Inv, Present, PresentAt
  <2> QED BY <1>2, <2>1, <2>2, DoCore DEF DoIfKnown
<1> QED BY <1>1, <1>2

LEMMA TurnEventInv ==
    ASSUME Inv, NEW s \in Sessions, NEW e \in {"agent", "notice"}, TurnEvent(s, e)
    PROVE  Inv'
<1>1. rec[s] # None => Fit(s, Emitted(s, Block(rec[s]), e))
  BY ThereIs, EmittedFit DEF Inv, Events, Messages
<1>2. Core'
  BY <1>1, KnownCore DEF TurnEvent, disk
<1>3. TypeOK'
  BY <1>2 DEF TurnEvent, Core, RecordsOK, Inv, TypeOK, MemoryOK, DiskOK, KnowledgeOK,
              disk, knowledge
<1> QED BY <1>2, <1>3 DEF Core, Inv

LEMMA TurnEndsInv ==
    ASSUME Inv, NEW s \in Sessions, NEW failed \in BOOLEAN, TurnEnds(s, failed)
    PROVE  Inv'
<1> DEFINE b == Marked(s, EmittedIf(failed, s, Block(rec[s]), "notice"), "none")
<1>1. rec[s] # None => Fit(s, b)
  BY ThereIs, EmittedIfFit, MarkedFit DEF Inv, Events
<1>2. Core'
  BY <1>1, KnownCore DEF TurnEnds, disk
<1>3. carried' \in [Sessions -> SUBSET {"news", "context"}]
  BY DEF TurnEnds, Inv, TypeOK, KnowledgeOK
<1>4. TypeOK'
  BY <1>2, <1>3 DEF TurnEnds, Core, RecordsOK, Inv, TypeOK, MemoryOK, DiskOK,
                    KnowledgeOK, disk
<1> QED BY <1>2, <1>4 DEF Core, Inv

\* The agent is given up, and with a delete the record.
LEMMA GiveUpInv ==
    ASSUME Inv, NEW s \in Sessions, NEW kind \in {"none", "stop", "delete", "revert"},
           NEW at \in Nat, Runs, rec[s] # None, GiveUp(s, kind, at)
    PROVE  Inv'
<1> DEFINE r == IF kind = "delete" THEN None ELSE Released(rec[s])
           kept == IF kind = "revert" THEN Slice(Loaded(s, rec[s]), at) ELSE <<>>
<1>1. r \in Records \cup {None} /\ (r # None => SavedAt(s, r))
  BY ThereIs, ReleasedType DEF SavedAt
<1>2. kind # "delete" => r # None
  BY ThereIs, ReleasedType, NoneAssumption
<1>3. rec' = [rec EXCEPT ![s] = r] /\ ending' = [ending EXCEPT ![s] =
                                           [kind |-> kind, at |-> at, kept |-> kept]]
  BY DEF GiveUp
<1>4. kept \in Seq(Events)
  BY ThereIs, LoadedType, SliceType DEF Inv
<1>5. /\ OnlyOf(s) /\ stage'[s] = "closing" /\ s \notin live'
      /\ writes = <<>> /\ writes' = <<>>
  BY ThereIs DEF GiveUp, OnlyOf, Runs, disk, Inv, TypeOK, MemoryOK
<1>6. PresentAt(s)'
  <2>1. rec'[s] = r /\ ending'[s].kind = kind
    BY <1>3 DEF Inv, TypeOK, MemoryOK
  <2> QED BY <1>2, <1>5, <2>1 DEF PresentAt
<1>7. Core'
  BY <1>1, <1>3, <1>5, <1>6, QuietCore
<1>8. ending' \in [Sessions -> [kind : {"none", "stop", "delete", "revert"},
                                at : Nat, kept : Seq(Events)]]
  BY <1>3, <1>4 DEF Inv, TypeOK, MemoryOK
<1>9. TypeOK'
  BY <1>7, <1>8 DEF GiveUp, Core, RecordsOK, Inv, TypeOK, MemoryOK, DiskOK,
                    KnowledgeOK, disk
<1> QED BY <1>7, <1>9 DEF Core, Inv

LEMMA SettleInv ==
    ASSUME Inv, NEW s \in Sessions, NEW kind \in {"none", "stop", "delete", "revert"},
           NEW at \in Nat, Runs, rec[s] # None, Settle(s, kind, at)
    PROVE  Inv'
<1>1. Fit(s, Emitted(s, Block(rec[s]), "notice"))
  BY ThereIs, EmittedFit DEF Inv, Events
<1>2. OnlyOf(s) /\ stage'[s] = "settling"
  BY ThereIs DEF Settle, OnlyOf, Runs, disk, Inv, TypeOK, MemoryOK
<1>3. Core'
  BY <1>1, <1>2, DoCore DEF Settle
<1>4. ending' \in [Sessions -> [kind : {"none", "stop", "delete", "revert"},
                                at : Nat, kept : Seq(Events)]]
  BY DEF Settle, Inv, TypeOK, MemoryOK
<1>5. TypeOK'
  BY <1>3, <1>4 DEF Settle, Core, RecordsOK, Inv, TypeOK, MemoryOK, DiskOK,
                    KnowledgeOK, disk, knowledge
<1> QED BY <1>3, <1>5 DEF Core, Inv

LEMMA EndInv ==
    ASSUME Inv, NEW s \in Sessions, NEW kind \in {"none", "stop", "delete", "revert"},
           NEW at \in Nat, End(s, kind, at)
    PROVE  Inv'
BY GiveUpInv, SettleInv DEF End, Free

LEMMA StopInv ==
    ASSUME Inv, NEW s \in Sessions, Stop(s)
    PROVE  Inv'
<1> DEFINE kind == IF Keeps(rec[s]) THEN "stop" ELSE "delete"
<1>1. kind \in {"none", "stop", "delete", "revert"} /\ End(s, kind, 0)
  BY DEF Stop
<1> HIDE DEF kind
<1> QED BY <1>1, EndInv

LEMMA RevertInv ==
    ASSUME Inv, NEW s \in Sessions, Revert(s)
    PROVE  Inv'
<1>1. Loaded(s, rec[s]) \in Seq(Events)
  BY ThereIs, LoadedType DEF Revert, Free, Inv
<1>2. PICK i \in DOMAIN Loaded(s, rec[s]) : End(s, "revert", i - 1)
  BY DEF Revert
<1>3. i - 1 \in Nat
  BY <1>1
<1> QED BY <1>2, <1>3, EndInv

LEMMA SettledInv ==
    ASSUME Inv, NEW s \in Sessions, Settled(s)
    PROVE  Inv'
<1>1. rec[s] # None
  BY DEF Settled, Inv, Present, PresentAt
<1>2. ending[s].kind \in {"none", "stop", "delete", "revert"} /\ ending[s].at \in Nat
  BY DEF Inv, TypeOK, MemoryOK
<1> QED BY <1>1, <1>2, GiveUpInv DEF Settled

LEMMA ClosedInv ==
    ASSUME Inv, NEW s \in Sessions, Closed(s)
    PROVE  Inv'
<1> DEFINE kind == ending[s].kind
           kept == ending[s].kept
<1>1. /\ stage[s] = "closing" /\ s \notin gone /\ (rec[s] = None <=> kind = "delete")
      /\ (rec[s] = None => s \notin live)
  BY DEF Closed, Inv, Nowhere, Present, PresentAt
<1>2. OnlyOf(s) /\ stage'[s] = "free" /\ live' = live
  BY <1>1 DEF Closed, OnlyOf, Runs, disk, Inv, TypeOK, MemoryOK
<1>3. kept \in Seq(Events)
  BY DEF Inv, TypeOK, MemoryOK
<1>4. Core'
  <2>1. CASE kind = "delete" /\ writes' = Removal(s) /\ UNCHANGED rec
    <3>1. rec' = [rec EXCEPT ![s] = None]
      BY <1>1, <2>1 DEF Inv, TypeOK, MemoryOK
    <3> QED BY <1>1, <1>2, <2>1, <3>1, RemovalCore
  <2>2. CASE kind = "stop" /\ Do(s, Persisted(s, Block(rec[s])))
    <3>1. Fit(s, Persisted(s, Block(rec[s])))
      BY <1>1, <2>2, ThereIs, PersistedFit
    <3> QED BY <1>2, <2>2, <3>1, DoCore
  <2>3. CASE /\ kind = "revert"
             /\ LET b == Block(Reverted(rec[s], kept)) IN
                Do(s, IF rec[s].persisted
                      THEN Persisted(s, [b EXCEPT !.out = <<Write("rewrite", s, kept)>>])
                      ELSE b)
    <3> DEFINE r == Reverted(rec[s], kept)
               w == Write("rewrite", s, kept)
               b == Block(r)
               c == [b EXCEPT !.out = <<w>>]
    <3>1. rec[s] \in Records /\ SavedAt(s, rec[s])
      BY <1>1, <2>3, ThereIs
    <3>2. /\ r \in Records /\ SavedAt(s, r)
          /\ r.persisted = rec[s].persisted /\ r.ephemeral = rec[s].ephemeral
      BY <1>3, <3>1 DEF Reverted, Records, SavedAt
    <3>3. Fit(s, b)
      BY <3>2, BlockFit
    <3>4. w \in DiskWrites /\ w.session = s /\ w.kind = "rewrite"
      BY <1>3 DEF Write, DiskWrites
    <3>5. /\ c \in Blocks /\ c.out = Append(b.out, w) /\ c.rec = b.rec
      <4>1. c = [rec |-> r, out |-> <<w>>] /\ b = [rec |-> r, out |-> <<>>]
        BY DEF Block
      <4>2. <<w>> \in Seq(DiskWrites) /\ <<w>> = Append(<<>>, w)
        BY <3>4
      <4> HIDE DEF r, w, b, c
      <4> QED BY <3>2, <4>1, <4>2 DEF Blocks
    <3>6. Fit(s, c)
      BY SMTT(30), <3>3, <3>4, <3>5, AddedFit DEF Fit, SavedAt
    <3>7. Fit(s, IF rec[s].persisted THEN Persisted(s, c) ELSE b)
      BY <3>3, <3>6, PersistedFit
    <3> QED BY <1>2, <2>3, <3>7, DoCore
  <2> QED BY <2>1, <2>2, <2>3 DEF Closed
<1>5. ending' \in [Sessions -> [kind : {"none", "stop", "delete", "revert"},
                                at : Nat, kept : Seq(Events)]]
  BY DEF Closed, NoEnding, Inv, TypeOK, MemoryOK
<1>6. TypeOK'
  BY <1>4, <1>5 DEF Closed, Core, RecordsOK, Inv, TypeOK, MemoryOK, DiskOK,
                    KnowledgeOK, disk, knowledge
<1> QED BY <1>4, <1>6 DEF Core, Inv

LEMMA RenameInv ==
    ASSUME Inv, NEW s \in Sessions, Rename(s)
    PROVE  Inv'
<1> DEFINE r == [rec[s] EXCEPT !.named = TRUE]
<1>1. rec[s] # None
  BY DEF Rename, Free
<1>2. r \in Records /\ SavedAt(s, r)
  BY <1>1, ThereIs DEF Records, SavedAt
<1>3. Fit(s, Persisted(s, Block(r)))
  BY <1>2, BlockFit, PersistedFit
<1>4. OnlyOf(s) /\ stage'[s] # "closing"
  BY <1>1, ThereIs DEF Rename, Free, OnlyOf, Runs, disk
<1>5. Core'
  BY <1>3, <1>4, DoCore DEF Rename
<1>6. TypeOK'
  BY <1>5 DEF Rename, Core, RecordsOK, Inv, TypeOK, MemoryOK, DiskOK, KnowledgeOK,
              disk, knowledge
<1> QED BY <1>5, <1>6 DEF Core, Inv

LEMMA ReadTranscriptInv ==
    ASSUME Inv, NEW s \in Sessions, ReadTranscript(s)
    PROVE  Inv'
<1> DEFINE r == Read(s, rec[s])
<1>1. rec[s] # None
  BY DEF ReadTranscript
<1>2. r \in Records /\ r # None /\ SavedAt(s, r) /\ rec' = [rec EXCEPT ![s] = r]
  <2>1. r \in Records /\ SavedAt(s, r)
    BY <1>1, ThereIs, ReadType DEF SavedAt, Inv
  <2>2. rec' = [rec EXCEPT ![s] = r]
    BY DEF ReadTranscript
  <2> QED BY <2>1, <2>2, NoneAssumption
<1>3. OnlyOf(s) /\ writes = <<>> /\ writes' = <<>>
  BY <1>1, ThereIs DEF ReadTranscript, OnlyOf, Runs, disk
<1>4. PresentAt(s)'
  <2>1. rec'[s] # None
    BY <1>2 DEF Inv, TypeOK, MemoryOK
  <2> QED BY <1>1, <2>1 DEF ReadTranscript, PresentAt, Inv, Present
<1>5. Core'
  BY <1>2, <1>3, <1>4, QuietCore
<1>6. TypeOK'
  BY <1>5 DEF ReadTranscript, Core, RecordsOK, Inv, TypeOK, MemoryOK, DiskOK,
              KnowledgeOK, disk, knowledge
<1> QED BY <1>5, <1>6 DEF Core, Inv

\* A fork leaves two records: the one it reads, and the new one it writes.
LEMMA ForkInv ==
    ASSUME Inv, NEW s \in Sessions, NEW n \in Sessions, Fork(s, n)
    PROVE  Inv'
<1>1. rec[s] # None /\ rec[n] = None /\ meta[n] = None /\ n \notin gone /\ n # s
  BY DEF Fork, Free, Inv, Nowhere, Nothing
<1>2. rec[s] \in Records /\ SavedAt(s, rec[s]) /\ Loaded(s, rec[s]) \in Seq(Events)
  BY <1>1, ThereIs, LoadedType DEF Inv
<1>3. PICK r : /\ r \in Records /\ r.persisted /\ ~r.ephemeral
               /\ r.transcript \in Seq(Events)
               /\ rec' = [rec EXCEPT ![s] = Read(s, rec[s]), ![n] = r]
               /\ writes' = <<Write("meta", n, Stored(r)), Write("rewrite", n, r.transcript)>>
  <2>1. PICK at \in 0 .. Len(Loaded(s, rec[s])) :
          LET fork == [NewRecord(TRUE, FALSE) EXCEPT
                         !.persisted = TRUE, !.oriented = rec[s].oriented,
                         !.transcript = Slice(Loaded(s, rec[s]), at)]
          IN  /\ rec' = [rec EXCEPT ![s] = Read(s, rec[s]), ![n] = fork]
              /\ writes' = <<Write("meta", n, Stored(fork)),
                             Write("rewrite", n, fork.transcript)>>
    BY DEF Fork, Forked
  <2> DEFINE lines == Slice(Loaded(s, rec[s]), at)
             fork == [NewRecord(TRUE, FALSE) EXCEPT
                        !.persisted = TRUE, !.oriented = rec[s].oriented,
                        !.transcript = lines]
  <2>2. lines \in Seq(Events)
    BY <1>2, SliceType
  <2>3. /\ fork \in Records /\ fork.persisted /\ ~fork.ephemeral
        /\ fork.transcript \in Seq(Events)
    BY <1>2, <2>2 DEF NewRecord, Records
  <2> QED BY <2>1, <2>3
<1>4. /\ rec' \in [Sessions -> Records \cup {None}]
      /\ rec'[n] = r /\ rec'[s] = Read(s, rec[s]) /\ rec'[n] # None /\ rec'[s] # None
      /\ \A z \in Sessions \ {s, n} : rec'[z] = rec[z]
  <2>1. Read(s, rec[s]) \in Records
    BY <1>2, ReadType DEF Inv
  <2> QED BY <1>1, <1>3, <2>1, NoneAssumption DEF Inv, TypeOK, MemoryOK
<1>5. writes' \in Seq(DiskWrites)
  <2>1. Stored(r) \in Metas /\ r.transcript \in Seq(Events)
    BY <1>3, StoredType
  <2> QED BY <1>3, <2>1 DEF Write, DiskWrites
<1>6. stage' \in [Sessions -> {"unborn", "free", "starting", "resuming",
                              "settling", "closing"}]
      /\ stage'[n] = "free" /\ \A z \in Sessions \ {n} : stage'[z] = stage[z]
  BY DEF Fork, Inv, TypeOK, MemoryOK
<1>7. Core'
  <2>1. Present'
    BY <1>1, <1>4, <1>6 DEF Inv, Present, PresentAt, Fork
  <2>2. AtRest'
    BY DEF AtRest, Fork, Free, Runs
  <2>3. Saved'
    <3>1. /\ Read(s, rec[s]).persisted = rec[s].persisted
          /\ Read(s, rec[s]).ephemeral = rec[s].ephemeral
      BY <1>2, ReadType DEF Inv
    <3> QED BY <1>1, <1>2, <1>3, <1>4, <3>1 DEF Inv, Saved, SavedAt, Fork, disk
  <2>4. Nowhere'
    BY <1>1, <1>4, <1>6 DEF Inv, Nowhere, Nothing, Fork, Free, disk
  <2>5. Due'
    <3> SUFFICES ASSUME NEW i \in DOMAIN writes' PROVE DueWrite(i)'
      BY DEF Due
    <3>1. writes'[i].session = n /\ writes'[i].kind \in {"meta", "rewrite"}
      BY <1>3 DEF Write
    <3> QED BY <1>3, <1>4, <3>1 DEF DueWrite
  <2> QED BY <1>4, <1>5, <2>1, <2>2, <2>3, <2>4, <2>5 DEF Core, RecordsOK
<1>8. TypeOK'
  BY <1>6, <1>7 DEF Fork, Core, RecordsOK, Inv, TypeOK, MemoryOK, DiskOK, KnowledgeOK,
                    disk, knowledge
<1> QED BY <1>7, <1>8 DEF Core, Inv

\* The next of the writes is done.
LEMMA FlushInv ==
    ASSUME Inv, Flush
    PROVE  Inv'
<1> DEFINE w == Head(writes)
           s == w.session
<1>1. /\ w \in DiskWrites /\ w = writes[1] /\ 1 \in DOMAIN writes /\ s \in Sessions
      /\ writes' = Tail(writes) /\ writes' \in Seq(DiskWrites)
      /\ \A i \in DOMAIN writes' : i \in Nat \ {0} /\ i + 1 \in DOMAIN writes
                                   /\ writes'[i] = writes[i + 1]
  <2>1. writes \in Seq(DiskWrites) /\ writes # <<>>
    BY DEF Flush, Inv, TypeOK, DiskOK
  <2>2. w \in DiskWrites /\ w = writes[1] /\ 1 \in DOMAIN writes
    BY <2>1
  <2>3. s \in Sessions
    BY <2>2 DEF DiskWrites
  <2>4. writes' = Tail(writes)
    BY DEF Flush
  <2> QED BY <2>1, <2>2, <2>3, <2>4
<1>2. DueWrite(1)
  BY <1>1 DEF Inv, Due
<1>3. UNCHANGED <<up, rec, live, stage, ending>>
  BY DEF Flush, memory
\* What the write leaves of its session on disk, and that it leaves the rest.
<1>4. /\ \A z \in Sessions \ {s} : meta'[z] = meta[z] /\ file'[z] = file[z]
      /\ w.kind \in {"append", "rewrite", "removed"} => meta' = meta
      /\ w.kind \in {"meta", "removed"} => file' = file
      /\ w.kind = "delete" => meta'[s] = None /\ file'[s] = Whole(<<>>)
      /\ gone' = IF w.kind = "removed" THEN gone \cup {s} ELSE gone
  BY <1>1 DEF Flush, Inv, TypeOK, DiskOK
<1>5. w.kind \in {"delete", "removed"} => rec[s] = None /\ stage[s] = "free"
  BY <1>1, <1>2 DEF DueWrite
<1>6. w.kind \in {"meta", "append", "rewrite"} =>
         rec[s] # None /\ stage[s] # "unborn" /\ s \notin gone
  BY <1>1, <1>2, ThereIs DEF DueWrite
<1>7. w.kind = "meta" => rec[s].persisted
  BY <1>1, <1>2 DEF DueWrite
<1>8. w.kind = "removed" => Nothing(s)
  BY <1>1, <1>2 DEF DueWrite
<1>9. w.kind \in {"meta", "append", "rewrite", "delete", "removed"}
  BY <1>1 DEF DiskWrites
<1> HIDE DEF w, s
<1>10. RecordsOK'
  BY <1>1, <1>3 DEF RecordsOK, Inv, TypeOK, MemoryOK
<1>11. Present' /\ AtRest'
  BY <1>1, <1>3 DEF Inv, Present, PresentAt, AtRest, Flush
<1>12. Saved'
  <2> SUFFICES ASSUME NEW z \in Sessions, rec[z] # None PROVE SavedAt(z, rec[z])'
    BY <1>3 DEF Saved
  <2>1. SavedAt(z, rec[z])
    BY DEF Inv, Saved
  <2>2. CASE z # s
    BY <1>3, <1>4, <2>1, <2>2 DEF SavedAt
  <2>3. CASE z = s
    BY <1>3, <1>4, <1>5, <1>7, <1>9, <2>1, <2>3 DEF SavedAt
  <2> QED BY <2>2, <2>3
<1>13. \A z \in Sessions : Nothing(z) /\ (z = s => stage[s] = "unborn" \/ s \in gone \/ w.kind = "removed")
          => Nothing(z)'
  BY <1>3, <1>4, <1>6, <1>9 DEF Nothing
<1>14. Nowhere'
  <2> SUFFICES ASSUME NEW z \in Sessions
               PROVE  /\ stage[z] = "unborn" => Nothing(z)'
                      /\ z \in gone' => Nothing(z)' /\ stage[z] = "free"
    BY <1>3 DEF Nowhere
  <2>1. /\ stage[z] = "unborn" => Nothing(z)
        /\ z \in gone => Nothing(z) /\ stage[z] = "free"
    BY DEF Inv, Nowhere
  <2> QED BY <1>4, <1>5, <1>8, <1>13, <2>1
<1>15. Due'
  <2> SUFFICES ASSUME NEW i \in DOMAIN writes' PROVE DueWrite(i)'
    BY DEF Due
  <2>1. DueWrite(i + 1)
    BY <1>1 DEF Inv, Due
  <2>2. i \in Nat \ {0} /\ writes'[i] = writes[i + 1] /\ i + 1 # 1 /\ (i + 1) - 1 = i
    BY <1>1
  <2>3. i # 1 => writes'[i - 1] = writes[i]
    <3>1. writes \in Seq(DiskWrites) /\ writes # <<>> /\ writes' = Tail(writes)
      BY <1>1 DEF Inv, TypeOK, DiskOK, Flush
    <3> QED BY <2>2, <3>1
  <2>4. i = 1 /\ writes[2].kind = "removed" =>
          LET z == writes[2].session IN meta'[z] = None /\ file'[z] = Whole(<<>>)
    <3> SUFFICES ASSUME i = 1, writes[2].kind = "removed"
                 PROVE  LET z == writes[2].session IN meta'[z] = None /\ file'[z] = Whole(<<>>)
      OBVIOUS
    <3>1. writes[1] = Write("delete", writes[2].session, None)
      BY <2>1, <2>2 DEF DueWrite
    <3>2. w.kind = "delete" /\ s = writes[2].session
      BY <1>1, <3>1 DEF Write, s
    <3> QED BY <1>4, <3>2
  <2> QED BY <1>3, <2>1, <2>2, <2>3, <2>4 DEF DueWrite, Nothing
<1>16. Core'
  BY <1>10, <1>11, <1>12, <1>14, <1>15 DEF Core
<1>17. /\ meta' \in [Sessions -> Metas \cup {None}]
       /\ file' \in [Sessions -> [lines : Seq(Events), tail : {"clean", "torn", "swallowed"}]]
       /\ epoch' \in [Sessions -> Nat] /\ gone' \subseteq Sessions
  <2>1. /\ w.kind = "meta" => w.value \in Metas
        /\ w.kind = "append" => w.value \in Events
        /\ w.kind = "rewrite" => w.value \in Seq(Events)
    BY <1>1 DEF DiskWrites
  <2>2. meta' \in [Sessions -> Metas \cup {None}]
    BY <2>1 DEF Flush, w, s, Inv, TypeOK, DiskOK
  <2>3. \A f \in [lines : Seq(Events), tail : {"clean", "torn", "swallowed"}], e \in Events :
           Appended(f, e) \in [lines : Seq(Events), tail : {"clean", "torn", "swallowed"}]
    BY SMTT(30) DEF Appended
  <2>4. \A lines \in Seq(Events) :
           Whole(lines) \in [lines : Seq(Events), tail : {"clean", "torn", "swallowed"}]
    BY DEF Whole
  <2>5. file' = CASE w.kind = "append" -> [file EXCEPT ![s] = Appended(file[s], w.value)]
                  [] w.kind = "rewrite" -> [file EXCEPT ![s] = Whole(w.value)]
                  [] w.kind = "delete" -> [file EXCEPT ![s] = Whole(<<>>)]
                  [] OTHER -> file
    BY DEF Flush, w, s
  <2>6. file' \in [Sessions -> [lines : Seq(Events), tail : {"clean", "torn", "swallowed"}]]
    <3> DEFINE Files == [lines : Seq(Events), tail : {"clean", "torn", "swallowed"}]
    <3>1. file \in [Sessions -> Files] /\ s \in Sessions
      BY <1>1 DEF s, Inv, TypeOK, DiskOK
    <3>2. CASE w.kind = "append"
      <4>1. Appended(file[s], w.value) \in Files
        BY <2>1, <2>3, <3>1, <3>2
      <4> QED BY <2>5, <3>1, <3>2, <4>1
    <3>3. CASE w.kind = "rewrite"
      BY <2>1, <2>4, <2>5, <3>1, <3>3
    <3>4. CASE w.kind = "delete"
      <4>1. Whole(<<>>) \in Files
        BY DEF Whole
      <4> QED BY <2>5, <3>1, <3>4, <4>1
    <3>5. CASE w.kind \in {"meta", "removed"}
      BY <2>5, <3>1, <3>5
    <3> QED BY <1>9, <3>2, <3>3, <3>4, <3>5
  <2>7. epoch' \in [Sessions -> Nat] /\ gone' \subseteq Sessions
    BY <1>1, <1>4 DEF Flush, w, s, Inv, TypeOK, DiskOK
  <2> QED BY <2>2, <2>6, <2>7
<1>18. TypeOK'
  BY <1>16, <1>17 DEF Flush, Core, RecordsOK, Inv, TypeOK, MemoryOK, DiskOK, KnowledgeOK,
                      memory, knowledge
<1> QED BY <1>16, <1>18 DEF Core, Inv

\* The memory is gone.  What is left on disk of a session that is there may
\* be anything that is well typed.
LEMMA ForgottenInv ==
    ASSUME Inv, Forgotten,
           meta' \in [Sessions -> Metas \cup {None}],
           file' \in [Sessions -> [lines : Seq(Events), tail : {"clean", "torn", "swallowed"}]],
           cut' \subseteq Sessions \X {"crash", "shutdown"},
           \A s \in Sessions :
              Nothing(s) /\ (stage[s] = "unborn" \/ s \in gone)
                 => meta'[s] = None /\ file'[s] = Whole(<<>>)
    PROVE  Inv'
<1>1. /\ \A s \in Sessions :
            /\ rec'[s] = None
            /\ stage'[s] = IF stage[s] = "unborn" THEN "unborn" ELSE "free"
      /\ live' = {} /\ writes' = <<>> /\ gone' = gone
  BY DEF Forgotten
<1>2. TypeOK'
  <2>1. MemoryOK'
    BY DEF Forgotten, NoEnding, Inv, TypeOK, MemoryOK
  <2>2. DiskOK'
    <3>1. <<>> \in Seq(DiskWrites)
      OBVIOUS
    <3> QED BY <3>1 DEF Forgotten, Inv, TypeOK, DiskOK
  <2>3. KnowledgeOK'
    BY DEF Forgotten, Inv, TypeOK, KnowledgeOK
  <2> QED BY <2>1, <2>2, <2>3 DEF TypeOK
<1>3. Present' /\ AtRest'
  BY <1>1 DEF Present, PresentAt, AtRest
<1>4. Saved' /\ Due'
  BY <1>1 DEF Saved, Due
<1>5. Nowhere'
  BY <1>1 DEF Nowhere, Nothing, Inv
<1> QED BY <1>2, <1>3, <1>4, <1>5 DEF Inv

LEMMA CutOffType ==
    ASSUME TypeOK, NEW how \in {"crash", "shutdown"}
    PROVE  cut \cup CutOff(how) \subseteq Sessions \X {"crash", "shutdown"}
BY DEF TypeOK, KnowledgeOK, CutOff

\* A kill damages the files of a session that is there, or of one that is
\* being removed.
LEMMA CrashInv ==
    ASSUME Inv, Crash
    PROVE  Inv'
<1> DEFINE w == Head(writes)
           s == w.session
           Files == [lines : Seq(Events), tail : {"clean", "torn", "swallowed"}]
<1>1. meta \in [Sessions -> Metas \cup {None}] /\ file \in [Sessions -> Files]
  BY DEF Inv, TypeOK, DiskOK
<1>2. writes # <<>> => s \in Sessions /\ DueWrite(1) /\ w = writes[1]
  <2>1. writes \in Seq(DiskWrites)
    BY DEF Inv, TypeOK, DiskOK
  <2>2. writes # <<>> => w \in DiskWrites /\ w = writes[1] /\ 1 \in DOMAIN writes
    BY <2>1
  <2> QED BY <2>2 DEF DiskWrites, Inv, Due
<1>3. Whole(<<>>) \in Files
  BY DEF Whole
<1>4. CASE UNCHANGED <<meta, file>>
  BY <1>1, <1>4, CutOffType, ForgottenInv DEF Crash, Inv, Nothing
<1>5. CASE /\ writes # <<>> /\ w.kind = "append"
           /\ file' = [file EXCEPT ![s].tail = "torn"] /\ UNCHANGED meta
  <2>1. file' \in [Sessions -> Files] /\ \A z \in Sessions \ {s} : file'[z] = file[z]
    BY <1>1, <1>2, <1>5
  <2>2. s \in Sessions /\ rec[s] # None
    BY <1>2, <1>5 DEF DueWrite
  <2> HIDE DEF s
  <2> QED BY <1>1, <1>5, <2>1, <2>2, CutOffType, ForgottenInv DEF Crash, Inv, Nothing
<1>6. CASE writes # <<>> /\ meta' = [meta EXCEPT ![s] = None] /\ UNCHANGED file
  BY <1>1, <1>2, <1>6, CutOffType, ForgottenInv DEF Crash, Inv, Nothing
<1>7. CASE writes # <<>> /\ file' = [file EXCEPT ![s] = Whole(<<>>)] /\ UNCHANGED meta
  BY <1>1, <1>2, <1>3, <1>7, CutOffType, ForgottenInv DEF Crash, Inv, Nothing
<1> QED BY <1>4, <1>5, <1>6, <1>7 DEF Crash, Killed

LEMMA ShutdownInv ==
    ASSUME Inv, Shutdown
    PROVE  Inv'
<1>1. /\ up' = "stopping" /\ live' = {}
      /\ UNCHANGED <<rec, stage, ending, meta, file, gone, writes>>
  BY DEF Shutdown, disk
<1>2. Present' /\ AtRest'
  BY <1>1 DEF Inv, Present, PresentAt, AtRest
<1>3. Saved' /\ Nowhere'
  BY <1>1 DEF Inv, Saved, SavedAt, Nowhere, Nothing
<1>4. Due'
  BY <1>1 DEF Inv, Due, DueWrite, Nothing
<1>5. TypeOK'
  BY <1>1, CutOffType DEF Shutdown, Inv, TypeOK, MemoryOK, DiskOK, KnowledgeOK, disk
<1> QED BY <1>2, <1>3, <1>4, <1>5 DEF Inv

LEMMA ExitInv ==
    ASSUME Inv, Exit
    PROVE  Inv'
BY ForgottenInv DEF Exit, Inv, TypeOK, DiskOK, KnowledgeOK, Nothing

\* What is restored is what is on disk, and known to be.
LEMMA RestartInv ==
    ASSUME Inv, Restart
    PROVE  Inv'
<1>1. /\ live = {} /\ writes = <<>> /\ \A s \in Sessions : stage[s] \in {"unborn", "free"}
      /\ UNCHANGED <<live, stage, ending, meta, file, gone, writes>>
  BY DEF Restart, Inv, AtRest, disk
<1>2. /\ rec' \in [Sessions -> Records \cup {None}]
      /\ \A s \in Sessions :
            IF meta[s] = None THEN rec'[s] = None
            ELSE rec'[s].persisted /\ ~rec'[s].ephemeral
  BY RestoredType DEF Restart, Inv, TypeOK, DiskOK
<1>3. Present' /\ AtRest'
  BY <1>1 DEF Present, PresentAt, AtRest, Restart
<1>4. Saved'
  BY <1>1, <1>2 DEF Saved, SavedAt
<1>5. Nowhere'
  BY <1>1, <1>2 DEF Inv, Nowhere, Nothing
<1>6. Due'
  BY <1>1 DEF Due
<1>7. TypeOK'
  BY <1>2 DEF Restart, Inv, TypeOK, MemoryOK, DiskOK, KnowledgeOK, disk, knowledge
<1> QED BY <1>3, <1>4, <1>5, <1>6, <1>7 DEF Inv

-----------------------------------------------------------------------------
(***************************************************************************)
(* The theorems.                                                           *)
(***************************************************************************)
LEMMA InitInv == Init => Inv
<1> SUFFICES ASSUME Init PROVE Inv
  OBVIOUS
<1>1. TypeOK
  <2>1. MemoryOK
    BY DEF Init, NoEnding, MemoryOK
  <2>2. DiskOK
    BY DEF Init, DiskOK, Whole
  <2>3. KnowledgeOK
    BY DEF Init, KnowledgeOK
  <2> QED BY <2>1, <2>2, <2>3 DEF TypeOK
<1>2. Present /\ AtRest /\ Saved /\ Nowhere /\ Due
  BY DEF Init, Present, PresentAt, AtRest, Saved, Nowhere, Nothing, Due
<1> QED BY <1>1, <1>2 DEF Inv

LEMMA NextInv == Inv /\ [Next]_vars => Inv'
<1> SUFFICES ASSUME Inv, [Next]_vars PROVE Inv'
  OBVIOUS
<1>1. CASE UNCHANGED vars
  <2>1. Core'
    BY <1>1, SameCore DEF vars, memory, disk
  <2>2. TypeOK'
    BY <1>1, <2>1 DEF vars, memory, disk, knowledge, Core, RecordsOK, Inv, TypeOK,
                      MemoryOK, DiskOK, KnowledgeOK
  <2> QED BY <2>1, <2>2 DEF Core, Inv
<1>2. ASSUME NEW s \in Sessions,
             \/ \E named, ephemeral \in BOOLEAN : Create(s, named, ephemeral)
             \/ \E warned \in BOOLEAN : Started(s, warned)
             \/ StartFails(s)
             \/ Resume(s) \/ Waits(s) \/ ResumeFails(s)
             \/ \E loaded, warned \in BOOLEAN : Resumed(s, loaded, warned)
      PROVE  Inv'
  BY <1>2, CreateInv, StartedInv, StartFailsInv, ResumeInv, WaitsInv, ResumeFailsInv,
     ResumedInv
<1>3. ASSUME NEW s \in Sessions,
             \/ BeginTurn(s) \/ Refused(s) \/ Prompt(s)
             \/ \E e \in {"agent", "notice"} : TurnEvent(s, e)
             \/ \E failed \in BOOLEAN : TurnEnds(s, failed)
      PROVE  Inv'
  BY <1>3, BeginTurnInv, RefusedInv, PromptInv, TurnEventInv, TurnEndsInv
<1>4. ASSUME NEW s \in Sessions,
             \/ Stop(s) \/ Delete(s) \/ Revert(s) \/ Settled(s) \/ Closed(s)
      PROVE  Inv'
  <2>1. Delete(s) => End(s, "delete", 0)
    BY DEF Delete
  <2> QED BY <1>4, <2>1, StopInv, EndInv, RevertInv, SettledInv, ClosedInv
<1>5. ASSUME NEW s \in Sessions,
             Rename(s) \/ ReadTranscript(s) \/ \E n \in Sessions : Fork(s, n)
      PROVE  Inv'
  BY <1>5, RenameInv, ReadTranscriptInv, ForkInv
<1>6. CASE Flush \/ Crash \/ Shutdown \/ Exit \/ Restart
  BY <1>6, FlushInv, CrashInv, ShutdownInv, ExitInv, RestartInv
<1> QED BY <1>1, <1>2, <1>3, <1>4, <1>5, <1>6 DEF Next

THEOREM InvariantHolds == Spec => []Inv
BY InitInv, NextInv, PTL DEF Spec

\* The types: what steps, torn files and restarts make of the records, the
\* transcripts and the metadata is always well formed.
THEOREM TypeCorrect == Spec => []TypeOK
<1>1. Inv => TypeOK
  BY DEF Inv
<1> QED BY <1>1, InvariantHolds, PTL

\* A session whose metadata is on disk is one that a stop keeps, although its
\* cache may have been dropped, or not yet read since the daemon started.
THEOREM Kept == Spec => []StopKeepsWhatIsSaved
<1>1. Inv => StopKeepsWhatIsSaved
  BY DEF Inv, Saved, SavedAt, StopKeepsWhatIsSaved, Keeps
<1> QED BY <1>1, InvariantHolds, PTL

\* A removal that has been announced is final: no late event of a turn, no
\* write still due and no restart brings any of the session back.
THEOREM Removed == Spec => []RemovedStaysRemoved
<1>1. Inv => RemovedStaysRemoved
  BY DEF Inv, TypeOK, DiskOK, Nowhere, Nothing, RemovedStaysRemoved
<1> QED BY <1>1, InvariantHolds, PTL

=============================================================================
