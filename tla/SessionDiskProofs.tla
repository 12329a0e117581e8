--------------------------- MODULE SessionDiskProofs ---------------------------
(***************************************************************************)
(* More theorems about SessionHistory, for every set of sessions, every    *)
(* set of operations and every bound:                                      *)
(*                                                                         *)
(*   MetadataCurrent     meta.toml is what the daemon knows;               *)
(*   SaidKept            no message is in memory only;                     *)
(*   InterruptedTold     a turn that a crash cut off is reported;          *)
(*   ConversationKnown   a prompted agent knows what came before;          *)
(*   HistoryCurrent      and has the history that is in the transcript.    *)
(*                                                                         *)
(* The first two need what is true in the middle of a step, while some of  *)
(* its writes are still due: OnDisk says of every record that the files, as*)
(* they will be once the writes are done, hold it.  `Path` follows a       *)
(* session's files through the writes, and each operator that steps are    *)
(* made of is shown to leave a block whose path ends well.  The others rest*)
(* on Known, which says where a turn can be, what marks it leaves on disk  *)
(* and in every write due, what the agent of a live session has been told, *)
(* and which of the backend's ids belong to the history that is on disk.   *)
(***************************************************************************)
EXTENDS SessionHistoryProofs

Files == [lines : Seq(Events), tail : {"clean", "torn", "swallowed"}]
Disks == [meta : Metas \cup {None}, file : Files]

-----------------------------------------------------------------------------
(***************************************************************************)
(* The disk once the writes still due are done.                            *)
(***************************************************************************)
DiskOf(s) == [meta |-> meta[s], file |-> file[s]]

\* What a write makes of its session's files.
Written(w, d) ==
    [meta |-> IF w.kind = "meta" THEN w.value ELSE IF w.kind = "delete" THEN None ELSE d.meta,
     file |-> IF w.kind = "append" THEN Appended(d.file, w.value)
              ELSE IF w.kind = "rewrite" THEN Whole(w.value)
              ELSE IF w.kind = "delete" THEN Whole(<<>>)
              ELSE d.file]

WrittenOf(s, w, d) == IF w.session = s THEN Written(w, d) ELSE d

\* p[i] is what is on disk of s after i of the writes, and d before them.
Path(s, d, out, p) ==
    /\ p \in [0 .. Len(out) -> Disks] /\ p[0] = d
    /\ \A i \in 1 .. Len(out) : p[i] = WrittenOf(s, out[i], p[i - 1])

Ends(s, out, d) == \E p : Path(s, DiskOf(s), out, p) /\ p[Len(out)] = d

LEMMA DiskType ==
    ASSUME TypeOK, NEW s \in Sessions
    PROVE  DiskOf(s) \in Disks
BY DEF TypeOK, DiskOK, DiskOf, Disks, Files

LEMMA WrittenType ==
    ASSUME NEW w \in DiskWrites, NEW d \in Disks
    PROVE  Written(w, d) \in Disks
<1>1. d.meta \in Metas \cup {None} /\ d.file \in Files
  BY DEF Disks
<1>2. /\ w.kind = "meta" => w.value \in Metas
      /\ w.kind = "append" => w.value \in Events
      /\ w.kind = "rewrite" => w.value \in Seq(Events)
  BY DEF DiskWrites
<1>3. \A f \in Files, e \in Events : Appended(f, e) \in Files
  BY SMTT(30) DEF Appended, Files
<1>4. \A lines \in Seq(Events) : Whole(lines) \in Files
  BY DEF Whole, Files
<1>5. Whole(<<>>) \in Files
  BY DEF Whole, Files
<1> DEFINE m == IF w.kind = "meta" THEN w.value ELSE IF w.kind = "delete" THEN None ELSE d.meta
           f == IF w.kind = "append" THEN Appended(d.file, w.value)
                ELSE IF w.kind = "rewrite" THEN Whole(w.value)
                ELSE IF w.kind = "delete" THEN Whole(<<>>)
                ELSE d.file
<1>6. m \in Metas \cup {None}
  BY <1>1, <1>2
<1>7. f \in Files
  BY <1>1, <1>2, <1>3, <1>4, <1>5
<1>8. Written(w, d) = [meta |-> m, file |-> f]
  BY DEF Written
<1> HIDE DEF m, f
<1> QED  BY <1>6, <1>7, <1>8 DEF Disks

LEMMA WrittenOfType ==
    ASSUME NEW s, NEW w \in DiskWrites, NEW d \in Disks
    PROVE  WrittenOf(s, w, d) \in Disks
BY WrittenType DEF WrittenOf

\* With nothing to write, the disk is what it is.
LEMMA EndsEmpty ==
    ASSUME NEW s, NEW d, DiskOf(s) \in Disks
    PROVE  Ends(s, <<>>, d) <=> d = DiskOf(s)
<1>1. ASSUME Ends(s, <<>>, d) PROVE d = DiskOf(s)
  BY <1>1 DEF Ends, Path
<1>2. ASSUME d = DiskOf(s) PROVE Ends(s, <<>>, d)
  <2>1. Path(s, DiskOf(s), <<>>, [i \in 0 .. 0 |-> d])
    BY <1>2 DEF Path
  <2> QED  BY <2>1 DEF Ends
<1> QED  BY <1>1, <1>2

\* One write more.
LEMMA EndsAppend ==
    ASSUME NEW s, NEW out \in Seq(DiskWrites), NEW w \in DiskWrites, NEW d, Ends(s, out, d)
    PROVE  Ends(s, Append(out, w), WrittenOf(s, w, d)) /\ d \in Disks
<1>1. PICK p : Path(s, DiskOf(s), out, p) /\ p[Len(out)] = d
  BY DEF Ends
<1>2. Len(out) \in Nat /\ Len(Append(out, w)) = Len(out) + 1
  OBVIOUS
<1>3. d \in Disks
  BY <1>1, <1>2 DEF Path
<1>4. WrittenOf(s, w, d) \in Disks
  BY <1>3, WrittenOfType
<1> DEFINE n == Len(out)
           q == [i \in 0 .. n + 1 |-> IF i = n + 1 THEN WrittenOf(s, w, d) ELSE p[i]]
<1>5. q \in [0 .. n + 1 -> Disks] /\ q[0] = DiskOf(s) /\ q[n + 1] = WrittenOf(s, w, d)
  BY <1>1, <1>2, <1>4 DEF Path
<1>6. ASSUME NEW i \in 1 .. n + 1
      PROVE  q[i] = WrittenOf(s, Append(out, w)[i], q[i - 1])
  <2>1. CASE i = n + 1
    <3>1. Append(out, w)[i] = w /\ q[i - 1] = d
      BY <1>1, <1>2, <2>1
    <3> QED  BY <1>5, <2>1, <3>1
  <2>2. CASE i # n + 1
    <3>1. i \in 1 .. n /\ i - 1 \in 0 .. n /\ i - 1 # n + 1 /\ Append(out, w)[i] = out[i]
      BY <1>2, <2>2
    <3>2. q[i] = p[i] /\ q[i - 1] = p[i - 1]
      BY <1>2, <2>2, <3>1
    <3> QED  BY <1>1, <3>1, <3>2 DEF Path
  <2> QED  BY <2>1, <2>2
<1>7. Path(s, DiskOf(s), Append(out, w), q) /\ q[Len(Append(out, w))] = WrittenOf(s, w, d)
  BY <1>2, <1>5, <1>6 DEF Path
<1> QED  BY <1>3, <1>7 DEF Ends

\* Writes about other sessions.
LEMMA EndsOther ==
    ASSUME NEW s, DiskOf(s) \in Disks, NEW out \in Seq(DiskWrites),
           \A i \in DOMAIN out : out[i].session # s
    PROVE  Ends(s, out, DiskOf(s))
<1>1. Path(s, DiskOf(s), out, [i \in 0 .. Len(out) |-> DiskOf(s)])
  BY DEF Path, WrittenOf
<1> QED  BY <1>1 DEF Ends

\* The first write is done.
LEMMA EndsTail ==
    ASSUME NEW s, NEW d, writes \in Seq(DiskWrites), writes # <<>>, Ends(s, writes, d),
           writes' = Tail(writes), DiskOf(s)' = WrittenOf(s, Head(writes), DiskOf(s))
    PROVE  Ends(s, writes, d)'
<1>1. PICK p : Path(s, DiskOf(s), writes, p) /\ p[Len(writes)] = d
  BY DEF Ends
<1> DEFINE n == Len(writes')
           q == [i \in 0 .. n |-> p[i + 1]]
<1>2. Len(writes) \in Nat /\ n \in Nat /\ Len(writes) = n + 1 /\ Head(writes) = writes[1]
      /\ \A i \in 1 .. n : writes'[i] = writes[i + 1]
  OBVIOUS
<1>3. q \in [0 .. n -> Disks] /\ q[n] = d
  BY <1>1, <1>2 DEF Path
<1>4. q[0] = DiskOf(s)'
  <2>1. p[1] = WrittenOf(s, writes[1], p[0]) /\ q[0] = p[1]
    BY <1>1, <1>2 DEF Path
  <2> QED  BY <1>1, <1>2, <2>1 DEF Path
<1>5. ASSUME NEW i \in 1 .. n
      PROVE  q[i] = WrittenOf(s, writes'[i], q[i - 1])
  <2>1. p[i + 1] = WrittenOf(s, writes[i + 1], p[(i + 1) - 1])
    BY <1>1, <1>2 DEF Path
  <2>2. q[i] = p[i + 1] /\ q[i - 1] = p[i] /\ (i + 1) - 1 = i
    BY <1>2
  <2> QED  BY <1>2, <2>1, <2>2
<1>6. Path(s, DiskOf(s)', writes', q)
  BY <1>3, <1>4, <1>5 DEF Path
<1> QED  BY <1>3, <1>6 DEF Ends

-----------------------------------------------------------------------------
(***************************************************************************)
(* What the disk has of a record.                                          *)
(***************************************************************************)
\* The file is the end of what was said; what it lacks are notices.
Tells(lines, said) ==
    /\ Len(lines) <= Len(said)
    /\ \A i \in 1 .. Len(lines) : lines[i] = said[Len(said) - Len(lines) + i]
    /\ \A i \in 1 .. Len(said) - Len(lines) : said[i] \notin Messages

\* The transcript of record r is in d; while nothing of it is saved, nothing was said.
Holds(r, d) ==
    /\ ~r.ephemeral /\ Spoken(r) => r.persisted
    /\ r.persisted => ~r.ephemeral
    /\ ~r.persisted => d.file = Whole(<<>>)
    /\ r.persisted /\ r.transcript # None /\ d.file.tail # "swallowed"
          => Tells(d.file.lines, r.transcript)

\* And so is its metadata.
Agrees(m, r) ==
    /\ m # None
    /\ m.named = r.named /\ m.oriented = r.oriented
    /\ m.turnOpen = (r.openTurn # "none")

Current(r, d) ==
    /\ Keeps(r) => r.persisted
    /\ r.persisted => Agrees(d.meta, r)

\* A step that is not over yet may have changed what it has still to write.
DraftOf(s, b, d) ==
    /\ Ends(s, b.out, d) /\ d \in Disks /\ Holds(b.rec, d)
    /\ b.rec.transcript = None => d.file = file[s]

Drafted(s, b) == \E d : DraftOf(s, b, d)
Held(s, b) == \E d : DraftOf(s, b, d) /\ Current(b.rec, d)

HeldAt(s) == \E d \in Disks : Ends(s, writes, d) /\ Holds(rec[s], d) /\ Current(rec[s], d)

LEMMA TellsNothing ==
    ASSUME NEW r \in Records, r.transcript # None, ~Spoken(r)
    PROVE  Tells(<<>>, r.transcript)
BY DEF Tells, Spoken, Records

LEMMA TellsItself ==
    ASSUME NEW lines \in Seq(Events)
    PROVE  Tells(lines, lines)
BY DEF Tells

LEMMA TellsMore ==
    ASSUME NEW lines \in Seq(Events), NEW said \in Seq(Events), NEW e \in Events,
           Tells(lines, said)
    PROVE  Tells(Append(lines, e), Append(said, e))
<1> DEFINE n == Len(lines)
           m == Len(said)
<1>1. n \in Nat /\ m \in Nat /\ n <= m /\ Len(Append(lines, e)) = n + 1
      /\ Len(Append(said, e)) = m + 1
  BY DEF Tells
<1>2. ASSUME NEW i \in 1 .. n + 1
      PROVE  Append(lines, e)[i] = Append(said, e)[(m + 1) - (n + 1) + i]
  <2>1. CASE i = n + 1
    <3>1. (m + 1) - (n + 1) + i = m + 1
      BY <1>1, <2>1
    <3> QED  BY <1>1, <2>1, <3>1
  <2>2. CASE i # n + 1
    <3>1. i \in 1 .. n /\ (m + 1) - (n + 1) + i = m - n + i /\ m - n + i \in 1 .. m
      BY <1>1, <2>2
    <3>2. Append(lines, e)[i] = lines[i] /\ Append(said, e)[m - n + i] = said[m - n + i]
      BY <1>1, <3>1
    <3> QED  BY <3>1, <3>2 DEF Tells
  <2> QED  BY <2>1, <2>2
<1>3. ASSUME NEW i \in 1 .. (m + 1) - (n + 1)
      PROVE  Append(said, e)[i] \notin Messages
  <2>1. i \in 1 .. m - n /\ i \in 1 .. m
    BY <1>1
  <2> QED  BY <2>1 DEF Tells
<1>4. n + 1 <= m + 1
  BY <1>1
<1> QED  BY <1>1, <1>2, <1>3, <1>4 DEF Tells

LEMMA TellsIsSuffix ==
    ASSUME NEW lines \in Seq(Events), NEW said \in Seq(Events), Tells(lines, said)
    PROVE  /\ IsSuffix(lines, said)
           /\ \A i \in 1 .. Len(said) - Len(lines) : said[i] \notin Messages
<1> DEFINE n == Len(lines)
           m == Len(said)
<1>1. n \in Nat /\ m \in Nat /\ n <= m
  BY DEF Tells
<1>2. Reverse(lines) \in Seq(Events) /\ Len(Reverse(lines)) = n
  BY DEF Reverse
<1>3. Reverse(said) \in Seq(Events) /\ Len(Reverse(said)) = m
  BY DEF Reverse
<1>4. ASSUME NEW i \in 1 .. n
      PROVE  Reverse(lines)[i] = Reverse(said)[i]
  <2>1. Reverse(lines)[i] = lines[(n - i) + 1] /\ Reverse(said)[i] = said[(m - i) + 1]
    BY <1>1 DEF Reverse
  <2>2. (n - i) + 1 \in 1 .. n /\ m - n + ((n - i) + 1) = (m - i) + 1
    BY <1>1
  <2> QED  BY <2>1, <2>2 DEF Tells
<1>5. SubSeq(Reverse(lines), 1, n) = SubSeq(Reverse(said), 1, n)
  BY <1>1, <1>2, <1>3, <1>4
<1> QED  BY <1>1, <1>2, <1>3, <1>5 DEF IsSuffix, IsPrefix, Tells

-----------------------------------------------------------------------------
(***************************************************************************)
(* The operators that steps are made of.                                   *)
(***************************************************************************)
LEMMA BlockHeld ==
    ASSUME TypeOK, NEW s \in Sessions, NEW r \in Records, Holds(r, DiskOf(s))
    PROVE  /\ Drafted(s, Block(r))
           /\ Current(r, DiskOf(s)) => Held(s, Block(r))
<1>1. Ends(s, <<>>, DiskOf(s)) /\ DiskOf(s) \in Disks
  BY DiskType, EndsEmpty
<1>2. DraftOf(s, Block(r), DiskOf(s))
  BY <1>1 DEF DraftOf, Block, DiskOf
<1> QED  BY <1>2 DEF Drafted, Held, Block

LEMMA ChangedDraft ==
    ASSUME NEW s \in Sessions, NEW b, Fit(s, b), NEW d, DraftOf(s, b, d), NEW r,
           r.persisted = b.rec.persisted, r.ephemeral = b.rec.ephemeral,
           r.transcript = b.rec.transcript
    PROVE  DraftOf(s, [b EXCEPT !.rec = r], d)
<1>1. [b EXCEPT !.rec = r].out = b.out /\ [b EXCEPT !.rec = r].rec = r
  BY DEF Fit, Blocks
<1>2. Holds(r, d)
  BY DEF DraftOf, Holds, Spoken
<1> QED  BY <1>1, <1>2 DEF DraftOf

LEMMA ChangedDrafted ==
    ASSUME NEW s \in Sessions, NEW b, Fit(s, b), Drafted(s, b), NEW r,
           r.persisted = b.rec.persisted, r.ephemeral = b.rec.ephemeral,
           r.transcript = b.rec.transcript
    PROVE  Drafted(s, [b EXCEPT !.rec = r])
BY ChangedDraft DEF Drafted

\* What changes is not in the metadata that count.
LEMMA ChangedHeld ==
    ASSUME NEW s \in Sessions, NEW b, Fit(s, b), Held(s, b), NEW r,
           r.persisted = b.rec.persisted, r.ephemeral = b.rec.ephemeral,
           r.transcript = b.rec.transcript, r.named = b.rec.named,
           r.oriented = b.rec.oriented,
           (r.openTurn = "none") = (b.rec.openTurn = "none")
    PROVE  Held(s, [b EXCEPT !.rec = r])
<1>1. PICK d : DraftOf(s, b, d) /\ Current(b.rec, d)
  BY DEF Held
<1>2. Current(r, d)
  BY <1>1 DEF Current, Agrees, Keeps, Spoken
<1>3. [b EXCEPT !.rec = r].rec = r
  BY DEF Fit, Blocks
<1> QED  BY <1>1, <1>2, <1>3, ChangedDraft DEF Held

\* _persist_meta.
LEMMA PersistedHeld ==
    ASSUME NEW s \in Sessions, NEW b, Fit(s, b), Drafted(s, b)
    PROVE  Held(s, Persisted(s, b))
<1>1. PICK d : DraftOf(s, b, d)
  BY DEF Drafted
<1>2. b.rec \in Records /\ b.out \in Seq(DiskWrites) /\ d \in Disks
  BY <1>1 DEF Fit, Blocks, DraftOf
<1>3. CASE ~Keeps(b.rec)
  <2>1. ~b.rec.persisted
    BY <1>1, <1>3 DEF DraftOf, Holds, Keeps
  <2> QED  BY <1>1, <1>3, <2>1 DEF Held, Persisted, Current
<1>4. CASE Keeps(b.rec)
  <2> DEFINE r == [b.rec EXCEPT !.persisted = TRUE]
             w == Write("meta", s, Stored(b.rec))
             c == [rec |-> r, out |-> Append(b.out, w)]
             e == WrittenOf(s, w, d)
  <2>1. w \in DiskWrites
    BY <1>2, StoredType DEF Write, DiskWrites
  <2>2. Ends(s, c.out, e) /\ e \in Disks
    BY <1>1, <1>2, <2>1, EndsAppend, WrittenOfType DEF DraftOf
  <2>3. e.meta = Stored(b.rec) /\ e.file = d.file
    BY DEF WrittenOf, Written, Write
  <2>4. /\ r.persisted /\ ~r.ephemeral /\ r.transcript = b.rec.transcript
        /\ r.named = b.rec.named /\ r.oriented = b.rec.oriented
        /\ r.openTurn = b.rec.openTurn /\ r \in Records
    BY <1>2, <1>4 DEF Records, Keeps
  <2>5. ASSUME r.transcript # None, d.file.tail # "swallowed"
        PROVE  Tells(d.file.lines, r.transcript)
    <3>1. CASE b.rec.persisted
      BY <1>1, <2>4, <2>5, <3>1 DEF DraftOf, Holds
    <3>2. CASE ~b.rec.persisted
      <4>1. ~Spoken(b.rec) /\ d.file = Whole(<<>>)
        BY <1>1, <1>4, <3>2 DEF DraftOf, Holds, Keeps
      <4>2. Tells(<<>>, b.rec.transcript)
        BY <1>2, <2>4, <2>5, <4>1, TellsNothing
      <4> QED  BY <2>4, <4>1, <4>2 DEF Whole
    <3> QED  BY <3>1, <3>2
  <2>6. Holds(r, e)
    BY <2>3, <2>4, <2>5 DEF Holds
  <2>7. Current(r, e)
    <3>1. Stored(b.rec) # None
      BY <1>2, StoredType, NoneAssumption
    <3>2. /\ Stored(b.rec).named = r.named /\ Stored(b.rec).oriented = r.oriented
          /\ Stored(b.rec).turnOpen = (r.openTurn # "none")
      BY <2>4 DEF Stored
    <3> QED  BY <2>3, <2>4, <3>1, <3>2 DEF Current, Agrees
  <2>8. c.rec.transcript = None => e.file = file[s]
    BY <1>1, <2>3, <2>4 DEF DraftOf
  <2>9. Persisted(s, b) = c
    BY <1>4 DEF Persisted
  <2> HIDE DEF r, e
  <2>10. DraftOf(s, c, e)
    BY <2>2, <2>6, <2>8 DEF DraftOf
  <2> QED  BY <2>7, <2>9, <2>10 DEF Held
<1> QED  BY <1>3, <1>4

\* _ensure_transcript: what is read is what is on disk.
LEMMA ReadDraft ==
    ASSUME TypeOK, NEW s \in Sessions, NEW b, Fit(s, b), NEW d, DraftOf(s, b, d), NEW r,
           r.transcript = Loaded(s, b.rec),
           r.persisted = b.rec.persisted, r.ephemeral = b.rec.ephemeral
    PROVE  /\ Loaded(s, b.rec) \in Seq(Events) /\ d.file.lines \in Seq(Events)
           /\ d.file.tail # "swallowed" /\ ~r.ephemeral /\ (r.persisted \/ ~Spoken(b.rec))
                 => Tells(d.file.lines, r.transcript)
<1>1. b.rec \in Records /\ Loaded(s, b.rec) \in Seq(Events) /\ d.file.lines \in Seq(Events)
  BY LoadedType DEF Fit, Blocks, DraftOf, Disks, Files
<1>2. CASE b.rec.transcript = None
  <2>1. r.transcript = d.file.lines
    BY <1>2 DEF DraftOf, Loaded, ReadBack
  <2> QED  BY <1>1, <2>1, TellsItself
<1>3. CASE b.rec.transcript # None /\ r.persisted
  BY <1>1, <1>3 DEF DraftOf, Holds, Loaded
<1>4. CASE b.rec.transcript # None /\ ~r.persisted
  <2>1. d.file = Whole(<<>>)
    BY <1>4 DEF DraftOf, Holds
  <2>2. ASSUME ~Spoken(b.rec)
        PROVE  Tells(<<>>, r.transcript)
    BY <1>1, <1>4, <2>2, TellsNothing DEF Loaded
  <2> QED  BY <1>1, <1>4, <2>1, <2>2 DEF Whole
<1> QED  BY <1>1, <1>2, <1>3, <1>4

\* _emit.
LEMMA EmittedHeld ==
    ASSUME TypeOK, NEW s \in Sessions, NEW b, Fit(s, b), Drafted(s, b), NEW e \in Events
    PROVE  Held(s, Emitted(s, b, e))
<1> DEFINE q == Read(s, b.rec)
           r == [q EXCEPT !.transcript = Append(@, e)]
           c == [b EXCEPT !.rec = r]
<1>1. PICK d : DraftOf(s, b, d)
  BY DEF Drafted
<1>2. /\ b.rec \in Records /\ b.out \in Seq(DiskWrites) /\ d \in Disks
      /\ b = [rec |-> b.rec, out |-> b.out]
  BY <1>1 DEF Fit, Blocks, DraftOf
<1>3. /\ q \in Records /\ q.transcript = Loaded(s, b.rec)
      /\ q.persisted = b.rec.persisted /\ q.ephemeral = b.rec.ephemeral
      /\ Loaded(s, b.rec) \in Seq(Events)
  BY <1>2, ReadType, LoadedType DEF Read, Records
<1>4. /\ r \in Records /\ r.transcript = Append(q.transcript, e) /\ r.transcript # None
      /\ r.persisted = b.rec.persisted /\ r.ephemeral = b.rec.ephemeral
  <2>1. Append(q.transcript, e) \in Seq(Events)
    BY <1>3
  <2> QED  BY <1>3, <2>1, NoneAssumption DEF Records
<1> HIDE DEF q, r
<1>5. c = [rec |-> r, out |-> b.out] /\ c.rec = r /\ c.out = b.out
  BY DEF Fit, Blocks
<1> HIDE DEF c
<1>6. CASE ~Keeps(r)
  <2>1. Emitted(s, b, e) = c
    BY <1>5, <1>6 DEF Emitted, Persisted, q, r, c
  <2>2. ~r.persisted /\ (r.ephemeral \/ ~Spoken(r))
    BY <1>1, <1>4, <1>6 DEF DraftOf, Holds, Keeps
  <2>3. DraftOf(s, c, d)
    BY <1>1, <1>4, <1>5, <2>2 DEF DraftOf, Holds
  <2> QED  BY <1>5, <1>6, <2>1, <2>2, <2>3 DEF Held, Current
<1>7. CASE Keeps(r)
  <2> DEFINE o == [r EXCEPT !.persisted = TRUE]
             w == Write("meta", s, Stored(r))
             v == Write("append", s, e)
             d1 == WrittenOf(s, w, d)
             d2 == WrittenOf(s, v, d1)
             out1 == Append(b.out, w)
             out2 == Append(out1, v)
  <2>1. w \in DiskWrites /\ v \in DiskWrites
    BY <1>4, StoredType DEF Write, DiskWrites
  <2>2. Ends(s, out1, d1) /\ d1 \in Disks /\ out1 \in Seq(DiskWrites)
    BY <1>1, <1>2, <2>1, EndsAppend, WrittenOfType DEF DraftOf
  <2>3. Ends(s, out2, d2) /\ d2 \in Disks
    BY <2>1, <2>2, EndsAppend, WrittenOfType
  <2>4. d2.meta = Stored(r) /\ d2.file = Appended(d.file, e)
    BY DEF WrittenOf, Written, Write
  <2>5. Emitted(s, b, e) = [rec |-> o, out |-> out2]
    <3>1. Persisted(s, c) = [rec |-> o, out |-> out1]
      BY <1>5, <1>7 DEF Persisted
    <3>2. Emitted(s, b, e) = [Persisted(s, c) EXCEPT !.out = Append(@, v)]
      BY <1>7 DEF Emitted, q, r, c
    <3> DEFINE p == Persisted(s, c)
    <3> HIDE DEF o, out1, v, p
    <3>3. p = [rec |-> o, out |-> out1] /\ Emitted(s, b, e) = [p EXCEPT !.out = Append(@, v)]
      BY <3>1, <3>2 DEF p
    <3> QED  BY <3>3
  <2>6. /\ o \in Records /\ o.persisted /\ ~o.ephemeral /\ o.transcript = r.transcript
        /\ o.named = r.named /\ o.oriented = r.oriented /\ o.openTurn = r.openTurn
    BY <1>4, <1>7 DEF Records, Keeps
  <2>7. ASSUME d2.file.tail # "swallowed"
        PROVE  Tells(d2.file.lines, o.transcript)
    <3>1. d.file \in Files
      BY <1>2 DEF Disks
    <3>2. /\ d.file.tail # "swallowed" /\ d.file.lines \in Seq(Events)
          /\ d2.file.lines = Append(d.file.lines, e)
      BY <2>4, <2>7, <3>1 DEF Appended, Files
    <3>3. ~q.ephemeral /\ (q.persisted \/ ~Spoken(b.rec))
      BY <1>1, <1>3, <1>4, <1>7 DEF Keeps, DraftOf, Holds
    <3>4. Tells(d.file.lines, q.transcript)
      BY <1>1, <1>3, <3>2, <3>3, ReadDraft
    <3> QED  BY <1>3, <1>4, <2>6, <3>2, <3>4, TellsMore
  <2>8. Holds(o, d2)
    BY <2>6, <2>7 DEF Holds
  <2>9. Current(o, d2)
    <3>1. Stored(r) # None
      BY <1>4, StoredType, NoneAssumption
    <3>2. /\ Stored(r).named = o.named /\ Stored(r).oriented = o.oriented
          /\ Stored(r).turnOpen = (o.openTurn # "none")
      BY <2>6 DEF Stored
    <3> QED  BY <2>4, <3>1, <3>2 DEF Current, Agrees
  <2>10. o.transcript # None
    BY <1>4, <2>6
  <2> HIDE DEF o, d2, out2
  <2>11. DraftOf(s, [rec |-> o, out |-> out2], d2)
    BY <2>3, <2>8, <2>10 DEF DraftOf
  <2> QED  BY <2>5, <2>9, <2>11 DEF Held
<1> QED  BY <1>6, <1>7

LEMMA EmittedIfHeld ==
    ASSUME TypeOK, NEW s \in Sessions, NEW b, Fit(s, b), NEW e \in Events, NEW c
    PROVE  /\ Held(s, b) => Held(s, EmittedIf(c, s, b, e))
           /\ Drafted(s, b) => Drafted(s, EmittedIf(c, s, b, e))
<1>1. Held(s, b) => Drafted(s, b)
  BY DEF Held, Drafted
<1>2. Drafted(s, b) => Held(s, Emitted(s, b, e))
  BY EmittedHeld
<1>3. Held(s, Emitted(s, b, e)) => Drafted(s, Emitted(s, b, e))
  BY DEF Held, Drafted
<1> QED  BY <1>1, <1>2, <1>3 DEF EmittedIf

\* _emit of turn_started and turn_ended.
LEMMA MarkedHeld ==
    ASSUME NEW s \in Sessions, NEW b, Fit(s, b), Drafted(s, b),
           NEW marker \in {"none", "open", "owed"}
    PROVE  Held(s, Marked(s, b, marker))
<1> DEFINE r == [b.rec EXCEPT !.openTurn = marker]
<1>1. /\ r \in Records /\ r.persisted = b.rec.persisted /\ r.ephemeral = b.rec.ephemeral
      /\ r.transcript = b.rec.transcript
  BY DEF Fit, Blocks, Records
<1>2. [b EXCEPT !.rec.openTurn = marker] = [b EXCEPT !.rec = r]
  BY DEF Fit, Blocks
<1> QED  BY <1>1, <1>2, ChangedFit, ChangedDrafted, PersistedHeld DEF Marked

\* Reading the transcript, and owing it to the agent.
LEMMA OwedHeld ==
    ASSUME TypeOK, NEW s \in Sessions, NEW b, Fit(s, b), Held(s, b), NEW r,
           r = Read(s, b.rec) \/ \E owes \in BOOLEAN : r = Owed(Read(s, b.rec), owes)
    PROVE  Held(s, [b EXCEPT !.rec = r])
<1>1. PICK d : DraftOf(s, b, d) /\ Current(b.rec, d)
  BY DEF Held
<1>2. b.rec \in Records
  BY DEF Fit, Blocks
<1>3. /\ r.transcript = Loaded(s, b.rec)
      /\ r.persisted = b.rec.persisted /\ r.ephemeral = b.rec.ephemeral
      /\ r.named = b.rec.named /\ r.oriented = b.rec.oriented
      /\ r.openTurn = b.rec.openTurn
  BY <1>2 DEF Read, Owed, Records
<1>4. r.persisted => ~r.ephemeral
  BY <1>1, <1>3 DEF DraftOf, Holds
<1>5. /\ Loaded(s, b.rec) \in Seq(Events) /\ d.file.lines \in Seq(Events)
      /\ d.file.tail # "swallowed" /\ ~r.ephemeral /\ (r.persisted \/ ~Spoken(b.rec))
                 => Tells(d.file.lines, r.transcript)
  BY <1>1, <1>3, ReadDraft
<1>6. Spoken(r) /\ ~r.ephemeral => r.persisted
  <2> SUFFICES ASSUME ~r.persisted, ~r.ephemeral PROVE ~Spoken(r)
    OBVIOUS
  <2>1. d.file = Whole(<<>>) /\ ~Spoken(b.rec)
    BY <1>1, <1>3 DEF DraftOf, Holds
  <2>2. CASE b.rec.transcript = None
    <3>1. Loaded(s, b.rec) = <<>>
      BY <1>1, <2>1, <2>2 DEF DraftOf, Loaded, ReadBack, Whole
    <3> QED  BY <1>3, <3>1 DEF Spoken
  <2>3. CASE b.rec.transcript # None
    BY <1>3, <2>1, <2>3 DEF Loaded, Spoken
  <2> QED  BY <2>2, <2>3
<1>7. Holds(r, d)
  BY <1>1, <1>3, <1>4, <1>5, <1>6 DEF Holds, DraftOf
<1>8. Current(r, d)
  BY <1>1, <1>3, <1>6 DEF Current, Agrees, Keeps
<1>9. [b EXCEPT !.rec = r].out = b.out /\ [b EXCEPT !.rec = r].rec = r
  BY DEF Fit, Blocks
<1>10. r.transcript # None \/ b.rec.transcript = None
  BY <1>2, <1>3 DEF Loaded
<1>11. DraftOf(s, [b EXCEPT !.rec = r], d)
  BY <1>1, <1>3, <1>7, <1>9, <1>10 DEF DraftOf
<1> QED  BY <1>8, <1>9, <1>11 DEF Held

-----------------------------------------------------------------------------
(***************************************************************************)
(* What every step preserves.                                              *)
(***************************************************************************)
\* What a revert of an unsaved session is about to keep was never said.
KeptAt(s) ==
    /\ stage[s] = "closing" /\ ending[s].kind = "revert"
    /\ ~rec[s].persisted /\ ~rec[s].ephemeral
    => \A i \in DOMAIN ending[s].kept : ending[s].kept[i] \notin Messages

OnDisk == \A s \in Sessions : rec[s] # None => HeldAt(s) /\ KeptAt(s)

\* The code of a step begins with what is on disk.
LEMMA StartHeld ==
    ASSUME Inv, OnDisk, NEW s \in Sessions, rec[s] # None, writes = <<>>
    PROVE  Holds(rec[s], DiskOf(s)) /\ Current(rec[s], DiskOf(s))
<1>1. PICK d \in Disks : Ends(s, <<>>, d) /\ Holds(rec[s], d) /\ Current(rec[s], d)
  BY DEF OnDisk, HeldAt
<1>2. d = DiskOf(s)
  BY <1>1, DiskType, EndsEmpty DEF Inv
<1> QED  BY <1>1, <1>2

LEMMA StartBlock ==
    ASSUME Inv, OnDisk, NEW s \in Sessions, rec[s] # None, writes = <<>>,
           NEW r \in Records, r.persisted = rec[s].persisted,
           r.ephemeral = rec[s].ephemeral, r.transcript = rec[s].transcript
    PROVE  /\ Drafted(s, Block(r))
           /\ r.named = rec[s].named /\ r.oriented = rec[s].oriented
              /\ r.openTurn = rec[s].openTurn => Held(s, Block(r))
<1>1. Holds(rec[s], DiskOf(s)) /\ Current(rec[s], DiskOf(s))
  BY StartHeld
<1>2. Holds(r, DiskOf(s))
  BY <1>1 DEF Holds, Spoken
<1>3. ASSUME r.named = rec[s].named, r.oriented = rec[s].oriented,
             r.openTurn = rec[s].openTurn
      PROVE  Current(r, DiskOf(s))
  <2>1. Keeps(r) <=> Keeps(rec[s])
    BY <1>3 DEF Keeps, Spoken
  <2>2. Agrees(DiskOf(s).meta, rec[s]) => Agrees(DiskOf(s).meta, r)
    BY <1>3 DEF Agrees
  <2> QED  BY <1>1, <2>1, <2>2 DEF Current
<1> QED  BY <1>2, <1>3, BlockHeld DEF Inv

\* A step that changes nothing on disk or in the record of a session.
LEMMA OtherHeld ==
    ASSUME Inv, OnDisk, NEW z \in Sessions, rec[z] # None, writes = <<>>,
           rec'[z] = rec[z], writes' \in Seq(DiskWrites),
           \A i \in DOMAIN writes' : writes'[i].session # z,
           UNCHANGED <<meta, file>>
    PROVE  HeldAt(z)'
<1>1. Holds(rec[z], DiskOf(z)) /\ Current(rec[z], DiskOf(z)) /\ DiskOf(z) \in Disks
  BY StartHeld, DiskType DEF Inv
<1>2. Ends(z, writes', DiskOf(z))
  BY <1>1, EndsOther
<1>3. Ends(z, writes, DiskOf(z))'
  BY <1>2 DEF Ends, Path, DiskOf
<1> QED  BY <1>1, <1>3 DEF HeldAt, DiskOf, Holds, Current, Agrees

LEMMA SameHeld ==
    ASSUME OnDisk, NEW z \in Sessions, rec'[z] = rec[z], rec[z] # None,
           UNCHANGED <<meta, file, writes>>
    PROVE  HeldAt(z)'
<1>1. PICK d \in Disks : Ends(z, writes, d) /\ Holds(rec[z], d) /\ Current(rec[z], d)
  BY DEF OnDisk, HeldAt
<1>2. Ends(z, writes, d)'
  BY <1>1 DEF Ends, Path, DiskOf
<1> QED  BY <1>1, <1>2 DEF HeldAt

\* The code of a step is over.
LEMMA DoHeld ==
    ASSUME Inv, Inv', OnDisk, NEW s \in Sessions, NEW b, Fit(s, b), Held(s, b), Do(s, b),
           writes = <<>>, UNCHANGED <<meta, file>>
    PROVE  \A z \in Sessions : rec'[z] # None => HeldAt(z)'
<1> SUFFICES ASSUME NEW z \in Sessions, rec'[z] # None PROVE HeldAt(z)'
  OBVIOUS
<1>1. /\ writes' = b.out /\ writes' \in Seq(DiskWrites)
      /\ \A i \in DOMAIN writes' : writes'[i].session = s
      /\ rec' = [rec EXCEPT ![s] = b.rec]
  BY DEF Do, Fit, Blocks
<1>2. CASE z # s
  <2>1. rec'[z] = rec[z]
    BY <1>1, <1>2 DEF Inv, TypeOK, MemoryOK
  <2> QED  BY <1>1, <1>2, <2>1, OtherHeld
<1>3. CASE z = s
  <2>1. rec'[z] = b.rec
    BY <1>1, <1>3 DEF Inv, TypeOK, MemoryOK
  <2>2. PICK d : DraftOf(s, b, d) /\ Current(b.rec, d)
    BY DEF Held
  <2>3. Ends(s, b.out, d) /\ d \in Disks /\ Holds(b.rec, d)
    BY <2>2 DEF DraftOf
  <2>4. Ends(s, writes, d)'
    BY <1>1, <2>3 DEF Ends, Path, DiskOf
  <2> QED  BY <1>3, <2>1, <2>2, <2>3, <2>4 DEF HeldAt
<1> QED  BY <1>2, <1>3

\* A revert that is under way stays as it is.
LEMMA SameKept ==
    ASSUME OnDisk, NEW z \in Sessions, rec[z] # None,
           stage'[z] = "closing" => /\ UNCHANGED <<stage[z], ending[z]>>
                                    /\ rec'[z].ephemeral = rec[z].ephemeral
                                    /\ rec[z].persisted => rec'[z].persisted
    PROVE  KeptAt(z)'
BY DEF OnDisk, KeptAt

\* A step of s alone.
LEMMA DoOnDisk ==
    ASSUME Inv, Inv', OnDisk, NEW s \in Sessions, NEW b, Fit(s, b), Held(s, b), Do(s, b),
           writes = <<>>, UNCHANGED <<meta, file>>,
           \A z \in Sessions \ {s} : UNCHANGED <<stage[z], ending[z]>>,
           KeptAt(s)'
    PROVE  OnDisk'
<1>1. \A z \in Sessions : rec'[z] # None => HeldAt(z)'
  BY DoHeld
<1>2. ASSUME NEW z \in Sessions \ {s}, rec'[z] # None PROVE KeptAt(z)'
  <2>1. rec'[z] = rec[z]
    BY DEF Do, Inv, TypeOK, MemoryOK
  <2> QED  BY <1>2, <2>1, SameKept
<1> QED  BY <1>1, <1>2 DEF OnDisk

\* A step that saves nothing of s, and either leaves its record or removes it.
LEMMA RemovedOnDisk ==
    ASSUME Inv, Inv', OnDisk, NEW s \in Sessions, rec' = [rec EXCEPT ![s] = None],
           writes = <<>>, \A i \in DOMAIN writes' : writes'[i].session = s,
           UNCHANGED <<meta, file>>,
           \A z \in Sessions \ {s} : UNCHANGED <<stage[z], ending[z]>>
    PROVE  OnDisk'
<1> SUFFICES ASSUME NEW z \in Sessions, rec'[z] # None PROVE HeldAt(z)' /\ KeptAt(z)'
  BY DEF OnDisk
<1>1. z # s /\ rec'[z] = rec[z]
  BY DEF Inv, TypeOK, MemoryOK
<1>2. writes' \in Seq(DiskWrites)
  BY DEF Inv, TypeOK, DiskOK
<1> QED  BY <1>1, <1>2, OtherHeld, SameKept

LEMMA SameOnDisk ==
    ASSUME OnDisk, UNCHANGED <<rec, meta, file, writes>>,
           \A z \in Sessions : stage'[z] = "closing" => UNCHANGED <<stage[z], ending[z]>>
    PROVE  OnDisk'
<1> SUFFICES ASSUME NEW z \in Sessions, rec'[z] # None PROVE HeldAt(z)' /\ KeptAt(z)'
  BY DEF OnDisk
<1> QED  BY SameHeld, SameKept

\* What the operators leave of the rest of the record.
Same(r, q) ==
    /\ q.named = r.named /\ q.ephemeral = r.ephemeral /\ q.oriented = r.oriented
    /\ q.acp = r.acp /\ q.pending = r.pending
    /\ r.persisted => q.persisted

\* A block, and the metadata it writes, have the backend's id, and the mark of
\* an open turn if one is to be left.
Bears(b, id, mark) ==
    /\ b.rec.acp = id /\ (mark # "none" => b.rec.openTurn # "none")
    /\ \A i \in DOMAIN b.out : b.out[i].kind = "meta" =>
          b.out[i].value.acp = id /\ (mark # "none" => b.out[i].value.turnOpen)

\* And it rewrites no transcript.
Plain(b) == \A i \in DOMAIN b.out : b.out[i].kind # "rewrite"

LEMMA AddedBears ==
    ASSUME NEW out \in Seq(DiskWrites), NEW w \in DiskWrites, NEW r, NEW q,
           NEW id, NEW mark, w.kind # "rewrite",
           w.kind = "meta" => w.value.acp = id /\ (mark # "none" => w.value.turnOpen),
           q.acp = id, mark # "none" => q.openTurn # "none",
           Bears([rec |-> r, out |-> out], id, mark)
    PROVE  Bears([rec |-> q, out |-> Append(out, w)], id, mark)
<1> SUFFICES ASSUME NEW i \in 1 .. Len(out) + 1
             PROVE  LET v == Append(out, w)[i] IN
                    v.kind = "meta" => v.value.acp = id /\ (mark # "none" => v.value.turnOpen)
  BY DEF Bears
<1>1. CASE i = Len(out) + 1
  BY <1>1
<1>2. CASE i # Len(out) + 1
  <2>1. i \in DOMAIN out /\ Append(out, w)[i] = out[i]
    BY <1>2
  <2> QED  BY <2>1 DEF Bears
<1> QED  BY <1>1, <1>2

LEMMA AddedPlain ==
    ASSUME NEW out \in Seq(DiskWrites), NEW w \in DiskWrites, NEW r, NEW q,
           w.kind # "rewrite", Plain([rec |-> r, out |-> out])
    PROVE  Plain([rec |-> q, out |-> Append(out, w)])
<1> SUFFICES ASSUME NEW i \in 1 .. Len(out) + 1
             PROVE  Append(out, w)[i].kind # "rewrite"
  BY DEF Plain
<1>1. CASE i = Len(out) + 1
  BY <1>1
<1>2. CASE i # Len(out) + 1
  <2>1. i \in DOMAIN out /\ Append(out, w)[i] = out[i]
    BY <1>2
  <2> QED  BY <2>1 DEF Plain
<1> QED  BY <1>1, <1>2

LEMMA PersistedSame ==
    ASSUME NEW s \in Sessions, NEW b, Fit(s, b)
    PROVE  /\ Same(b.rec, Persisted(s, b).rec)
           /\ Persisted(s, b).rec.openTurn = b.rec.openTurn
           /\ \A id, mark : Bears(b, id, mark) => Bears(Persisted(s, b), id, mark)
           /\ Plain(b) => Plain(Persisted(s, b))
<1>1. b.rec \in Records /\ b.out \in Seq(DiskWrites) /\ b = [rec |-> b.rec, out |-> b.out]
  BY DEF Fit, Blocks
<1>2. CASE ~Keeps(b.rec)
  BY <1>2 DEF Persisted, Same
<1>3. CASE Keeps(b.rec)
  <2> DEFINE r == [b.rec EXCEPT !.persisted = TRUE]
             w == Write("meta", s, Stored(b.rec))
  <2>1. Persisted(s, b) = [rec |-> r, out |-> Append(b.out, w)]
    BY <1>3 DEF Persisted
  <2>2. Same(b.rec, r) /\ r.openTurn = b.rec.openTurn /\ r.acp = b.rec.acp
    BY <1>1 DEF Same, Records
  <2>3. w \in DiskWrites /\ w.kind = "meta" /\ w.value = Stored(b.rec)
    BY <1>1, StoredType DEF Write, DiskWrites
  <2>4. Stored(b.rec).acp = b.rec.acp /\ Stored(b.rec).turnOpen = (b.rec.openTurn # "none")
    BY DEF Stored
  <2> HIDE DEF r, w
  <2>5. ASSUME NEW id, NEW mark, Bears(b, id, mark)
        PROVE  Bears([rec |-> r, out |-> Append(b.out, w)], id, mark)
    <3>1. b.rec.acp = id /\ (mark # "none" => b.rec.openTurn # "none")
      BY <2>5 DEF Bears
    <3> QED  BY <1>1, <2>2, <2>3, <2>4, <2>5, <3>1, AddedBears
  <2>6. Plain(b) => Plain([rec |-> r, out |-> Append(b.out, w)])
    BY <1>1, <2>3, AddedPlain
  <2> DEFINE a == [rec |-> r, out |-> Append(b.out, w)]
  <2>7. a.rec = r
    OBVIOUS
  <2> HIDE DEF a
  <2> QED  BY <2>1, <2>2, <2>5, <2>6, <2>7 DEF a
<1> QED  BY <1>2, <1>3

LEMMA EmittedSame ==
    ASSUME TypeOK, NEW s \in Sessions, NEW b, Fit(s, b), NEW e \in Events
    PROVE  /\ Same(b.rec, Emitted(s, b, e).rec)
           /\ Emitted(s, b, e).rec.openTurn = b.rec.openTurn
           /\ \A id, mark : Bears(b, id, mark) => Bears(Emitted(s, b, e), id, mark)
           /\ Plain(b) => Plain(Emitted(s, b, e))
<1> DEFINE q == Read(s, b.rec)
           r == [q EXCEPT !.transcript = Append(@, e)]
           c == [b EXCEPT !.rec = r]
           p == Persisted(s, c)
           v == Write("append", s, e)
<1>1. b.rec \in Records /\ b.out \in Seq(DiskWrites) /\ b = [rec |-> b.rec, out |-> b.out]
  BY DEF Fit, Blocks
<1>2. /\ q \in Records /\ q.transcript \in Seq(Events)
      /\ Same(b.rec, q) /\ q.openTurn = b.rec.openTurn
      /\ q.persisted = b.rec.persisted
  BY <1>1, ReadType, LoadedType DEF Read, Records, Same
<1> HIDE DEF q
<1>3. /\ r \in Records /\ Same(b.rec, r) /\ r.openTurn = b.rec.openTurn
      /\ r.persisted = b.rec.persisted
  <2>1. Append(q.transcript, e) \in Seq(Events)
    BY <1>2
  <2> QED  BY <1>2, <2>1 DEF Records, Same
<1> HIDE DEF r
<1>4. c = [rec |-> r, out |-> b.out] /\ c.rec = r /\ c.out = b.out
  BY DEF Fit, Blocks
<1>5. Fit(s, c)
  BY <1>3, ChangedFit DEF Same
<1>6. /\ \A id, mark : Bears(b, id, mark) => Bears(c, id, mark)
      /\ Plain(b) => Plain(c)
  BY <1>3, <1>4 DEF Bears, Plain, Same
<1> HIDE DEF c
<1>7. /\ Same(r, p.rec) /\ p.rec.openTurn = r.openTurn
      /\ \A id, mark : Bears(c, id, mark) => Bears(p, id, mark)
      /\ Plain(c) => Plain(p)
  BY <1>4, <1>5, PersistedSame
<1>8. Fit(s, p)
  BY <1>5, PersistedFit
<1>9. p = [rec |-> p.rec, out |-> p.out] /\ p.out \in Seq(DiskWrites)
  BY <1>8 DEF Fit, Blocks
<1>10. Emitted(s, b, e) = IF Keeps(r) THEN [p EXCEPT !.out = Append(@, v)] ELSE p
  BY DEF Emitted, c, r, q
<1>11. v \in DiskWrites /\ v.kind = "append"
  BY DEF Write, DiskWrites
<1> HIDE DEF p, v
<1>12. [p EXCEPT !.out = Append(@, v)] = [rec |-> p.rec, out |-> Append(p.out, v)]
  <2>1. \A r1, o1, o2 : [[rec |-> r1, out |-> o1] EXCEPT !.out = o2] = [rec |-> r1, out |-> o2]
    OBVIOUS
  <2>2. [[rec |-> p.rec, out |-> p.out] EXCEPT !.out = Append(p.out, v)]
           = [rec |-> p.rec, out |-> Append(p.out, v)]
    BY <2>1, Zenon
  <2> QED  BY <1>9, <2>2, Zenon
<1> DEFINE a == [rec |-> p.rec, out |-> Append(p.out, v)]
<1>13. ASSUME NEW id, NEW mark, Bears(p, id, mark) PROVE Bears(a, id, mark)
  <2>1. p.rec.acp = id /\ (mark # "none" => p.rec.openTurn # "none")
    BY <1>13 DEF Bears
  <2> QED  BY <1>9, <1>11, <1>13, <2>1, AddedBears
<1>14. Plain(p) => Plain(a)
  BY <1>9, <1>11, AddedPlain
<1>15. a.rec = p.rec
  OBVIOUS
<1> HIDE DEF a
<1>16. Emitted(s, b, e) = a \/ Emitted(s, b, e) = p
  BY <1>10, <1>12 DEF a
<1>17. Same(b.rec, p.rec) /\ p.rec.openTurn = b.rec.openTurn
  BY <1>3, <1>7 DEF Same
<1> QED  BY <1>6, <1>7, <1>13, <1>14, <1>15, <1>16, <1>17

LEMMA EmittedIfSame ==
    ASSUME TypeOK, NEW s \in Sessions, NEW b, Fit(s, b), NEW e \in Events, NEW c
    PROVE  /\ Same(b.rec, EmittedIf(c, s, b, e).rec)
           /\ EmittedIf(c, s, b, e).rec.openTurn = b.rec.openTurn
           /\ \A id, mark : Bears(b, id, mark) => Bears(EmittedIf(c, s, b, e), id, mark)
           /\ Plain(b) => Plain(EmittedIf(c, s, b, e))
<1>1. CASE c
  BY <1>1, EmittedSame DEF EmittedIf
<1>2. CASE ~c
  BY <1>2 DEF EmittedIf, Same
<1> QED  BY <1>1, <1>2

LEMMA MarkedSame ==
    ASSUME NEW s \in Sessions, NEW b, Fit(s, b), NEW marker \in {"none", "open", "owed"}
    PROVE  /\ Same(b.rec, Marked(s, b, marker).rec)
           /\ Marked(s, b, marker).rec.openTurn = marker
           /\ \A id, mark : Bears(b, id, mark) /\ (mark # "none" => marker # "none")
                               => Bears(Marked(s, b, marker), id, mark)
           /\ Plain(b) => Plain(Marked(s, b, marker))
<1> DEFINE r == [b.rec EXCEPT !.openTurn = marker]
           c == [b EXCEPT !.rec = r]
<1>1. /\ r \in Records /\ r.persisted = b.rec.persisted /\ r.ephemeral = b.rec.ephemeral
      /\ Same(b.rec, r) /\ r.openTurn = marker
  BY DEF Fit, Blocks, Records, Same
<1>2. Marked(s, b, marker) = Persisted(s, c) /\ c.rec = r /\ c.out = b.out
  BY DEF Fit, Blocks, Marked
<1> HIDE DEF r, c
<1>3. Fit(s, c)
  BY <1>1, ChangedFit DEF c
<1>4. /\ \A id, mark : Bears(b, id, mark) /\ (mark # "none" => marker # "none") => Bears(c, id, mark)
      /\ Plain(b) => Plain(c)
  BY <1>1, <1>2 DEF Bears, Plain, Same
<1> QED  BY <1>1, <1>2, <1>3, <1>4, PersistedSame DEF Same

\* The block a step begins with.
LEMMA BlockBears ==
    ASSUME NEW r
    PROVE  /\ Block(r).rec = r /\ Plain(Block(r))
           /\ \A mark : (mark # "none" => r.openTurn # "none") => Bears(Block(r), r.acp, mark)
BY DEF Block, Plain, Bears

-----------------------------------------------------------------------------
(***************************************************************************)
(* The disk: one lemma per action.                                         *)
(***************************************************************************)
LEMMA CreateOnDisk ==
    ASSUME Inv, Inv', OnDisk, NEW s \in Sessions, NEW named \in BOOLEAN,
           NEW ephemeral \in BOOLEAN, Create(s, named, ephemeral)
    PROVE  OnDisk'
<1> DEFINE r == NewRecord(named, ephemeral)
           b == Persisted(s, Block(r))
<1>1. stage[s] = "unborn" /\ Nothing(s)
  BY DEF Create, Inv, Nowhere
<1>2. /\ r \in Records /\ SavedAt(s, r) /\ ~r.persisted
      /\ r.transcript = None
  BY <1>1, NewRecordType DEF SavedAt, Nothing, NewRecord
<1>3. Holds(r, DiskOf(s))
  BY <1>1, <1>2 DEF Holds, Spoken, DiskOf, Nothing
<1>4. Fit(s, b) /\ Held(s, b)
  BY <1>2, <1>3, BlockFit, PersistedFit, BlockHeld, PersistedHeld DEF Inv
<1>5. Fit(s, Emitted(s, b, "notice")) /\ Held(s, Emitted(s, b, "notice"))
  BY <1>4, EmittedFit, EmittedHeld DEF Held, Drafted, Inv, Events
<1>6. PICK c : Fit(s, c) /\ Held(s, c) /\ Do(s, c)
  BY <1>4, <1>5 DEF Create
<1>7. /\ \A z \in Sessions \ {s} : UNCHANGED <<stage[z], ending[z]>>
      /\ stage'[s] # "closing" /\ writes = <<>> /\ UNCHANGED <<meta, file>>
  BY DEF Create, Runs, disk, Inv, TypeOK, MemoryOK
<1>8. KeptAt(s)'
  BY <1>7 DEF KeptAt
<1> QED  BY <1>6, <1>7, <1>8, DoOnDisk

\* A record that a backend's id is entered in, or not.
LEMMA EnteredHeld ==
    ASSUME Inv, OnDisk, NEW s \in Sessions, rec[s] # None, writes = <<>>,
           NEW id \in Nat \cup {None}
    PROVE  /\ [rec[s] EXCEPT !.acp = id] \in Records
           /\ Fit(s, Block([rec[s] EXCEPT !.acp = id]))
           /\ Held(s, Block([rec[s] EXCEPT !.acp = id]))
<1> DEFINE r == [rec[s] EXCEPT !.acp = id]
<1>1. rec[s] \in Records /\ SavedAt(s, rec[s])
  BY ThereIs
<1>2. r \in Records /\ SavedAt(s, r)
  BY <1>1, EnteredFits
<1>3. /\ r.persisted = rec[s].persisted /\ r.ephemeral = rec[s].ephemeral
      /\ r.transcript = rec[s].transcript /\ r.named = rec[s].named
      /\ r.oriented = rec[s].oriented /\ r.openTurn = rec[s].openTurn
  BY <1>1 DEF Records
<1> HIDE DEF r
<1>4. Fit(s, Block(r)) /\ Held(s, Block(r))
  BY <1>2, <1>3, BlockFit, StartBlock
<1> QED  BY <1>2, <1>4 DEF r

LEMMA StartedOnDisk ==
    ASSUME Inv, Inv', OnDisk, NEW s \in Sessions, NEW warned \in BOOLEAN, Started(s, warned)
    PROVE  OnDisk'
<1> DEFINE r == [rec[s] EXCEPT !.acp = epoch[s]]
           b == EmittedIf(warned, s, Block(r), "notice")
<1>1. rec[s] # None /\ epoch[s] \in Nat /\ writes = <<>>
  BY DEF Started, Runs, Inv, Present, PresentAt, TypeOK, DiskOK
<1>2. Fit(s, Block(r)) /\ Held(s, Block(r))
  BY <1>1, EnteredHeld
<1>3. Fit(s, b) /\ Held(s, b)
  BY <1>2, EmittedIfFit, EmittedIfHeld DEF Inv, Events
<1>4. Fit(s, Persisted(s, b)) /\ Held(s, Persisted(s, b))
  BY <1>3, PersistedFit, PersistedHeld DEF Held, Drafted
<1>5. /\ \A z \in Sessions \ {s} : UNCHANGED <<stage[z], ending[z]>>
      /\ stage'[s] # "closing" /\ UNCHANGED <<meta, file>>
  BY DEF Started, disk, Inv, TypeOK, MemoryOK
<1>6. KeptAt(s)' /\ Do(s, Persisted(s, b))
  BY <1>5 DEF KeptAt, Started
<1> QED  BY <1>1, <1>4, <1>5, <1>6, DoOnDisk

LEMMA StartFailsOnDisk ==
    ASSUME Inv, Inv', OnDisk, NEW s \in Sessions, StartFails(s)
    PROVE  OnDisk'
<1>1. /\ \A z \in Sessions \ {s} : UNCHANGED <<stage[z], ending[z]>>
      /\ UNCHANGED <<meta, file>> /\ writes = <<>>
      /\ rec' = [rec EXCEPT ![s] = None]
  BY DEF StartFails, Runs, disk, Inv, TypeOK, MemoryOK
<1>2. \A i \in DOMAIN writes' : writes'[i].session = s
  BY DEF StartFails, Removal, Write
<1> QED  BY <1>1, <1>2, RemovedOnDisk

LEMMA ResumeOnDisk ==
    ASSUME Inv, OnDisk, NEW s \in Sessions, Resume(s)
    PROVE  OnDisk'
<1>1. \A z \in Sessions : stage'[z] = "closing" => UNCHANGED <<stage[z], ending[z]>>
  BY DEF Resume, Inv, TypeOK, MemoryOK
<1> QED  BY <1>1, SameOnDisk DEF Resume, disk

LEMMA WaitsOnDisk ==
    ASSUME Inv, Inv', OnDisk, NEW s \in Sessions, Waits(s)
    PROVE  OnDisk'
<1>1. rec[s] # None /\ writes = <<>> /\ stage[s] = "free"
  BY DEF Waits, Free, Runs
<1>2. Fit(s, Block(rec[s])) /\ Held(s, Block(rec[s]))
  BY <1>1, ThereIs, StartBlock
<1>3. Fit(s, Emitted(s, Block(rec[s]), "notice")) /\ Held(s, Emitted(s, Block(rec[s]), "notice"))
  BY <1>2, EmittedFit, EmittedHeld DEF Held, Drafted, Inv, Events
<1>4. UNCHANGED <<stage, ending, meta, file>> /\ KeptAt(s)'
  BY <1>1 DEF Waits, disk, KeptAt
<1> QED  BY <1>1, <1>3, <1>4, DoOnDisk DEF Waits

LEMMA ResumedOnDisk ==
    ASSUME Inv, Inv', OnDisk, NEW s \in Sessions, NEW loaded \in BOOLEAN,
           NEW warned \in BOOLEAN, Resumed(s, loaded, warned)
    PROVE  OnDisk'
<1> DEFINE id == IF loaded THEN rec[s].acp ELSE epoch[s]
           r == [rec[s] EXCEPT !.acp = id]
           noted == EmittedIf(warned, s, Block(r), "notice")
           b == Persisted(s, noted)
           owes == Owes(s, loaded)
           shown == [b EXCEPT !.rec = Owed(Read(s, b.rec), owes)]
<1>1. rec[s] # None /\ id \in Nat \cup {None} /\ writes = <<>>
  <2>1. rec[s] # None /\ epoch[s] \in Nat /\ writes = <<>>
    BY DEF Resumed, Runs, Inv, Present, PresentAt, TypeOK, DiskOK
  <2>2. rec[s].acp \in Nat \cup {None}
    BY <2>1, ThereIs DEF Records
  <2> QED  BY <2>1, <2>2
<1>2. Do(s, EmittedIf(owes, s, shown, "notice")) /\ owes \in BOOLEAN
  BY DEF Resumed, Owes
<1> HIDE DEF id
<1>3. Fit(s, Block(r)) /\ Held(s, Block(r))
  BY <1>1, EnteredHeld
<1>4. Fit(s, noted) /\ Held(s, noted)
  BY <1>3, EmittedIfFit, EmittedIfHeld DEF Inv, Events
<1>5. Fit(s, b) /\ Held(s, b)
  BY <1>4, PersistedFit, PersistedHeld DEF Held, Drafted
<1> HIDE DEF b, owes
<1>6. Fit(s, shown) /\ Held(s, shown)
  BY <1>2, <1>5, OwedFit, OwedHeld DEF Inv
<1> HIDE DEF shown
<1>7. /\ Fit(s, EmittedIf(owes, s, shown, "notice"))
      /\ Held(s, EmittedIf(owes, s, shown, "notice"))
  BY <1>6, EmittedIfFit, EmittedIfHeld DEF Inv, Events
<1>8. /\ \A z \in Sessions \ {s} : UNCHANGED <<stage[z], ending[z]>>
      /\ stage'[s] # "closing" /\ UNCHANGED <<meta, file>>
  BY DEF Resumed, disk, Inv, TypeOK, MemoryOK
<1>9. KeptAt(s)'
  BY <1>8 DEF KeptAt
<1> QED  BY <1>1, <1>2, <1>7, <1>8, <1>9, DoOnDisk

LEMMA ResumeFailsOnDisk ==
    ASSUME Inv, Inv', OnDisk, NEW s \in Sessions, ResumeFails(s)
    PROVE  OnDisk'
<1> DEFINE r == [rec[s] EXCEPT !.acp = None]
<1>1. rec[s] # None /\ writes = <<>> /\ writes' = <<>>
  BY DEF ResumeFails, Runs, Inv, Present, PresentAt
<1>2. Fit(s, Block(r)) /\ Held(s, Block(r))
  BY <1>1, EnteredHeld
<1>3. Do(s, Block(r))
  BY <1>1 DEF Do, Block, ResumeFails
<1>4. /\ \A z \in Sessions \ {s} : UNCHANGED <<stage[z], ending[z]>>
      /\ stage'[s] # "closing" /\ UNCHANGED <<meta, file>>
  BY DEF ResumeFails, disk, Inv, TypeOK, MemoryOK
<1>5. KeptAt(s)'
  BY <1>4 DEF KeptAt
<1> QED  BY <1>1, <1>2, <1>3, <1>4, <1>5, DoOnDisk

\* What is owed to a session that is about to be prompted.
LEMMA ToldHeld ==
    ASSUME Inv, OnDisk, NEW s \in Sessions, rec[s] # None, writes = <<>>
    PROVE  Fit(s, Collected(Told(s))) /\ Held(s, Collected(Told(s)))
<1> DEFINE r == [rec[s] EXCEPT !.oriented = TRUE]
           b == Told(s)
           c == [b.rec EXCEPT !.openTurn = IF b.rec.openTurn = "owed"
                                           THEN "open" ELSE b.rec.openTurn,
                              !.pending = FALSE]
<1>1. rec[s] \in Records /\ SavedAt(s, rec[s]) /\ Fit(s, Block(rec[s]))
  BY ThereIs
<1>2. /\ r \in Records /\ SavedAt(s, r)
      /\ r.persisted = rec[s].persisted /\ r.ephemeral = rec[s].ephemeral
      /\ r.transcript = rec[s].transcript
  BY <1>1 DEF Records, SavedAt
<1>3. Fit(s, Block(r)) /\ Drafted(s, Block(r)) /\ Held(s, Block(rec[s]))
  BY <1>1, <1>2, BlockFit, StartBlock
<1>4. Fit(s, b) /\ Held(s, b)
  BY <1>1, <1>3, PersistedFit, PersistedHeld DEF Told
<1>5. b.rec \in Records
  BY <1>4 DEF Fit, Blocks
<1>6. /\ c.persisted = b.rec.persisted /\ c.ephemeral = b.rec.ephemeral
      /\ c.transcript = b.rec.transcript /\ c.named = b.rec.named
      /\ c.oriented = b.rec.oriented
      /\ (c.openTurn = "none") = (b.rec.openTurn = "none")
  BY <1>5 DEF Records
<1>7. Collected(b) = [b EXCEPT !.rec = c]
  BY <1>4 DEF Collected, Fit, Blocks, Records
<1> HIDE DEF b, c
<1>8. Held(s, [b EXCEPT !.rec = c])
  BY <1>4, <1>6, ChangedHeld
<1> QED  BY <1>7, <1>8, ToldFit DEF b

LEMMA BeginTurnOnDisk ==
    ASSUME Inv, Inv', OnDisk, NEW s \in Sessions, BeginTurn(s)
    PROVE  OnDisk'
<1> DEFINE r == rec[s]
           told == Collected(Told(s))
           oriented == EmittedIf(~r.oriented, s, told, "orientation")
           newsed == EmittedIf(r.openTurn = "owed", s, oriented, "news")
           said == Emitted(s, newsed, "user")
           b == Marked(s, said, "open")
<1>1. rec[s] # None /\ writes = <<>> /\ stage[s] = "free"
  BY DEF BeginTurn, Free, Runs
<1>2. Fit(s, told) /\ Held(s, told)
  BY <1>1, ToldHeld
<1>3. Fit(s, oriented) /\ Held(s, oriented)
  BY <1>2, EmittedIfFit, EmittedIfHeld DEF Inv, Events, Messages, FromUser
<1>4. Fit(s, newsed) /\ Held(s, newsed)
  BY <1>3, EmittedIfFit, EmittedIfHeld DEF Inv, Events, Messages, FromUser
<1>5. Fit(s, said) /\ Held(s, said)
  BY <1>4, EmittedFit, EmittedHeld DEF Held, Drafted, Inv, Events, Messages, FromUser
<1>6. Fit(s, b) /\ Held(s, b)
  BY <1>5, MarkedFit, MarkedHeld DEF Held, Drafted
<1>7. Do(s, b)
  BY DEF BeginTurn
<1>8. UNCHANGED <<stage, ending, meta, file>> /\ KeptAt(s)'
  BY <1>1 DEF BeginTurn, disk, KeptAt
<1> QED  BY <1>1, <1>6, <1>7, <1>8, DoOnDisk

LEMMA RefusedOnDisk ==
    ASSUME Inv, Inv', OnDisk, NEW s \in Sessions, Refused(s)
    PROVE  OnDisk'
<1> DEFINE b == Emitted(s, Collected(Told(s)), "notice")
<1>1. rec[s] # None /\ writes = <<>> /\ stage[s] = "free"
  BY DEF Refused, Free, Runs
<1>2. Fit(s, b) /\ Held(s, b)
  BY <1>1, ToldHeld, EmittedFit, EmittedHeld DEF Held, Drafted, Inv, Events
<1>3. UNCHANGED <<stage, ending, meta, file>> /\ KeptAt(s)' /\ Do(s, b)
  BY <1>1 DEF Refused, disk, KeptAt
<1> QED  BY <1>1, <1>2, <1>3, DoOnDisk

\* What a turn leaves, of a session that may have been removed under it, or
\* be closing.
LEMMA KnownOnDisk ==
    ASSUME Inv, Inv', OnDisk, NEW s \in Sessions, writes = <<>>, NEW b,
           rec[s] # None => Fit(s, b) /\ Held(s, b) /\ Same(rec[s], b.rec),
           DoIfKnown(s, b), UNCHANGED <<stage, ending, meta, file>>
    PROVE  OnDisk'
<1>1. CASE rec[s] = None
  BY <1>1, SameOnDisk DEF DoIfKnown
<1>2. CASE rec[s] # None
  <2>1. rec'[s] = b.rec /\ Do(s, b)
    BY <1>2 DEF DoIfKnown, Do, Inv, TypeOK, MemoryOK
  <2>2. KeptAt(s)'
    BY <1>2, <2>1, SameKept DEF Same
  <2> QED  BY <1>2, <2>1, <2>2, DoOnDisk
<1> QED  BY <1>1, <1>2

LEMMA TurnEventOnDisk ==
    ASSUME Inv, Inv', OnDisk, NEW s \in Sessions, NEW e \in {"agent", "notice"},
           TurnEvent(s, e)
    PROVE  OnDisk'
<1> DEFINE b == Emitted(s, Block(rec[s]), e)
<1>1. writes = <<>> /\ e \in Events
  BY DEF TurnEvent, Runs, Events, Messages
<1>2. ASSUME rec[s] # None
      PROVE  Fit(s, b) /\ Held(s, b) /\ Same(rec[s], b.rec)
  <2>1. Fit(s, Block(rec[s])) /\ Drafted(s, Block(rec[s])) /\ Block(rec[s]).rec = rec[s]
    BY <1>1, <1>2, ThereIs, StartBlock DEF Block
  <2> QED  BY <1>1, <2>1, EmittedFit, EmittedHeld, EmittedSame DEF Inv
<1> QED  BY <1>1, <1>2, KnownOnDisk DEF TurnEvent, disk

LEMMA TurnEndsOnDisk ==
    ASSUME Inv, Inv', OnDisk, NEW s \in Sessions, NEW failed \in BOOLEAN,
           TurnEnds(s, failed)
    PROVE  OnDisk'
<1> DEFINE c == EmittedIf(failed, s, Block(rec[s]), "notice")
           b == Marked(s, c, "none")
<1>1. writes = <<>>
  BY DEF TurnEnds, Runs
<1>2. ASSUME rec[s] # None
      PROVE  Fit(s, b) /\ Held(s, b) /\ Same(rec[s], b.rec)
  <2>1. Fit(s, Block(rec[s])) /\ Drafted(s, Block(rec[s])) /\ Block(rec[s]).rec = rec[s]
    BY <1>1, <1>2, ThereIs, StartBlock DEF Block
  <2>2. Fit(s, c) /\ Drafted(s, c) /\ Same(rec[s], c.rec)
    BY <2>1, EmittedIfFit, EmittedIfHeld, EmittedIfSame DEF Inv, Events
  <2>3. Fit(s, b) /\ Held(s, b) /\ Same(c.rec, b.rec)
    BY <2>2, MarkedFit, MarkedHeld, MarkedSame
  <2> QED  BY <2>2, <2>3 DEF Same
<1>3. DoIfKnown(s, b) /\ UNCHANGED <<stage, ending, meta, file>>
  BY DEF TurnEnds, disk
<1> QED  BY <1>1, <1>2, <1>3, KnownOnDisk

\* The agent is given up: the record goes with a delete, its cache otherwise.
LEMMA GiveUpOnDisk ==
    ASSUME Inv, Inv', OnDisk, NEW s \in Sessions,
           NEW kind \in {"none", "stop", "delete", "revert"}, NEW at \in Nat,
           Runs, rec[s] # None, GiveUp(s, kind, at)
    PROVE  OnDisk'
<1> DEFINE r == Released(rec[s])
           lines == Loaded(s, rec[s])
<1>1. writes = <<>> /\ writes' = <<>> /\ rec[s] \in Records /\ SavedAt(s, rec[s])
  BY ThereIs DEF GiveUp, Runs, disk
<1>2. /\ \A z \in Sessions \ {s} : UNCHANGED <<stage[z], ending[z]>>
      /\ UNCHANGED <<meta, file>>
  BY DEF GiveUp, disk, Inv, TypeOK, MemoryOK
<1>3. CASE kind = "delete"
  <2>1. rec' = [rec EXCEPT ![s] = None]
    BY <1>3 DEF GiveUp
  <2>2. \A i \in DOMAIN writes' : writes'[i].session = s
    BY <1>1
  <2> QED  BY <1>1, <1>2, <2>1, <2>2, RemovedOnDisk
<1>4. CASE kind # "delete"
  <2>1. /\ r \in Records /\ SavedAt(s, r)
        /\ r.persisted = rec[s].persisted /\ r.ephemeral = rec[s].ephemeral
        /\ r.transcript = None /\ r.named = rec[s].named
        /\ r.oriented = rec[s].oriented /\ r.openTurn = rec[s].openTurn
    BY <1>1 DEF Released, Records, SavedAt
  <2>2. Holds(rec[s], DiskOf(s)) /\ Current(rec[s], DiskOf(s))
    BY <1>1, StartHeld
  <2>3. Holds(r, DiskOf(s))
    BY <2>1, <2>2 DEF Holds, Spoken
  <2>4. Current(r, DiskOf(s))
    <3>1. Keeps(r) => Keeps(rec[s])
      BY <2>1 DEF Keeps, Spoken
    <3>2. Agrees(DiskOf(s).meta, rec[s]) => Agrees(DiskOf(s).meta, r)
      BY <2>1 DEF Agrees
    <3> QED  BY <2>1, <2>2, <3>1, <3>2 DEF Current
  <2> HIDE DEF r
  <2>5. Fit(s, Block(r)) /\ Held(s, Block(r))
    BY <2>1, <2>3, <2>4, BlockFit, BlockHeld DEF Inv
  <2>6. Do(s, Block(r))
    BY <1>1, <1>4 DEF Do, Block, GiveUp, r
  <2>7. rec'[s] = r /\ ending'[s] = [kind |-> kind, at |-> at,
                       kept |-> IF kind = "revert" THEN Slice(lines, at) ELSE <<>>]
    BY <1>4 DEF GiveUp, r, Inv, TypeOK, MemoryOK
  <2>8. KeptAt(s)'
    <3> SUFFICES ASSUME kind = "revert", ~rec[s].persisted, ~rec[s].ephemeral,
                        NEW i \in DOMAIN Slice(lines, at)
                 PROVE  Slice(lines, at)[i] \notin Messages
      BY <2>1, <2>7 DEF KeptAt
    <3>1. lines \in Seq(Events)
      BY <1>1, LoadedType DEF Inv
    <3>2. i \in DOMAIN lines /\ Slice(lines, at)[i] = lines[i]
      BY <3>1 DEF Slice
    <3>3. ~Spoken(rec[s]) /\ file[s] = Whole(<<>>)
      BY <2>2 DEF Holds, DiskOf
    <3>4. CASE rec[s].transcript = None
      BY <3>2, <3>3, <3>4 DEF Loaded, ReadBack, Whole
    <3>5. CASE rec[s].transcript # None
      BY <3>2, <3>3, <3>5 DEF Loaded, Spoken
    <3> QED  BY <3>4, <3>5
  <2> QED  BY <1>1, <1>2, <2>5, <2>6, <2>8, DoOnDisk
<1> QED  BY <1>3, <1>4

LEMMA SettleOnDisk ==
    ASSUME Inv, Inv', OnDisk, NEW s \in Sessions,
           NEW kind \in {"none", "stop", "delete", "revert"}, NEW at \in Nat,
           Runs, rec[s] # None, Settle(s, kind, at)
    PROVE  OnDisk'
<1> DEFINE b == Emitted(s, Block(rec[s]), "notice")
<1>1. writes = <<>>
  BY DEF Runs
<1>2. Fit(s, Block(rec[s])) /\ Drafted(s, Block(rec[s]))
  BY <1>1, ThereIs, StartBlock
<1>3. Fit(s, b) /\ Held(s, b)
  BY <1>2, EmittedFit, EmittedHeld DEF Inv, Events
<1>4. /\ \A z \in Sessions \ {s} : UNCHANGED <<stage[z], ending[z]>>
      /\ stage'[s] # "closing" /\ UNCHANGED <<meta, file>> /\ Do(s, b)
  BY DEF Settle, disk, Inv, TypeOK, MemoryOK
<1>5. KeptAt(s)'
  BY <1>4 DEF KeptAt
<1> QED  BY <1>1, <1>3, <1>4, <1>5, DoOnDisk

LEMMA EndOnDisk ==
    ASSUME Inv, Inv', OnDisk, NEW s \in Sessions,
           NEW kind \in {"none", "stop", "delete", "revert"}, NEW at \in Nat,
           End(s, kind, at)
    PROVE  OnDisk'
BY GiveUpOnDisk, SettleOnDisk DEF End, Free

LEMMA StopOnDisk ==
    ASSUME Inv, Inv', OnDisk, NEW s \in Sessions, Stop(s)
    PROVE  OnDisk'
<1> DEFINE kind == IF Keeps(rec[s]) THEN "stop" ELSE "delete"
<1>1. kind \in {"none", "stop", "delete", "revert"} /\ End(s, kind, 0)
  BY DEF Stop
<1> HIDE DEF kind
<1> QED  BY <1>1, EndOnDisk

LEMMA RevertOnDisk ==
    ASSUME Inv, Inv', OnDisk, NEW s \in Sessions, Revert(s)
    PROVE  OnDisk'
<1>1. Loaded(s, rec[s]) \in Seq(Events)
  BY ThereIs, LoadedType DEF Revert, Free, Inv
<1>2. PICK i \in DOMAIN Loaded(s, rec[s]) : End(s, "revert", i - 1)
  BY DEF Revert
<1>3. i - 1 \in Nat
  BY <1>1
<1> QED  BY <1>2, <1>3, EndOnDisk

LEMMA SettledOnDisk ==
    ASSUME Inv, Inv', OnDisk, NEW s \in Sessions, Settled(s)
    PROVE  OnDisk'
<1>1. rec[s] # None
  BY DEF Settled, Inv, Present, PresentAt
<1>2. ending[s].kind \in {"none", "stop", "delete", "revert"} /\ ending[s].at \in Nat
  BY DEF Inv, TypeOK, MemoryOK
<1> QED  BY <1>1, <1>2, GiveUpOnDisk DEF Settled

\* The transcript that a revert keeps, where there is nothing on disk.
LEMMA RevertedUnsaved ==
    ASSUME Inv, OnDisk, NEW s \in Sessions, rec[s] # None, ~rec[s].persisted,
           writes = <<>>, stage[s] = "closing", ending[s].kind = "revert"
    PROVE  LET b == Block(Reverted(rec[s], ending[s].kept)) IN Fit(s, b) /\ Held(s, b)
<1> DEFINE r == Reverted(rec[s], ending[s].kept)
<1>1. rec[s] \in Records /\ SavedAt(s, rec[s]) /\ ending[s].kept \in Seq(Events)
  BY ThereIs DEF Inv, TypeOK, MemoryOK
<1>2. /\ r \in Records /\ SavedAt(s, r) /\ ~r.persisted
      /\ r.transcript = ending[s].kept /\ r.ephemeral = rec[s].ephemeral
      /\ r.named = rec[s].named
  BY <1>1 DEF Reverted, Records, SavedAt
<1>3. Holds(rec[s], DiskOf(s)) /\ Current(rec[s], DiskOf(s)) /\ KeptAt(s)
  BY StartHeld DEF OnDisk
<1>4. ~r.ephemeral => ~Spoken(r)
  BY <1>2, <1>3 DEF KeptAt, Spoken
<1>5. Holds(r, DiskOf(s)) /\ Current(r, DiskOf(s))
  BY <1>2, <1>3, <1>4 DEF Holds, Current, Keeps
<1> HIDE DEF r
<1>6. Fit(s, Block(r)) /\ Held(s, Block(r))
  BY <1>2, <1>5, BlockFit, BlockHeld DEF Inv
<1> QED  BY <1>6 DEF r

\* And where it is rewritten.
LEMMA RevertedSaved ==
    ASSUME Inv, OnDisk, NEW s \in Sessions, rec[s] # None, rec[s].persisted,
           writes = <<>>, stage[s] = "closing", ending[s].kind = "revert"
    PROVE  LET b == [Block(Reverted(rec[s], ending[s].kept)) EXCEPT
                       !.out = <<Write("rewrite", s, ending[s].kept)>>]
           IN  Fit(s, b) /\ Drafted(s, b)
<1> DEFINE kept == ending[s].kept
           r == Reverted(rec[s], kept)
           w == Write("rewrite", s, kept)
           d == WrittenOf(s, w, DiskOf(s))
           b == [rec |-> r, out |-> <<w>>]
<1>1. rec[s] \in Records /\ SavedAt(s, rec[s]) /\ kept \in Seq(Events)
  BY ThereIs DEF Inv, TypeOK, MemoryOK
<1>2. /\ r \in Records /\ SavedAt(s, r) /\ r.persisted /\ ~r.ephemeral
      /\ r.transcript = kept
  BY <1>1 DEF Reverted, Records, SavedAt
<1>3. w \in DiskWrites /\ w.session = s /\ w.kind = "rewrite" /\ w.value = kept
  BY <1>1 DEF Write, DiskWrites
<1>4. DiskOf(s) \in Disks /\ Ends(s, <<>>, DiskOf(s)) /\ <<>> \in Seq(DiskWrites)
  BY DiskType, EndsEmpty DEF Inv
<1>5. Ends(s, Append(<<>>, w), d) /\ d \in Disks
  BY <1>3, <1>4, EndsAppend, WrittenOfType
<1>6. d.file = Whole(kept)
  BY <1>3 DEF WrittenOf, Written
<1>7. [Block(r) EXCEPT !.out = <<w>>] = b
  BY DEF Block
<1> HIDE DEF kept, r, w, d
<1>8. Append(<<>>, w) = <<w>> /\ <<w>> \in Seq(DiskWrites)
  BY <1>3
<1>9. Holds(r, d)
  BY <1>1, <1>2, <1>6, TellsItself DEF Holds, Whole
<1>10. r.transcript # None
  BY <1>1, <1>2, NoneAssumption
<1>11. DraftOf(s, b, d)
  BY <1>5, <1>8, <1>9, <1>10 DEF DraftOf
<1>12. Fit(s, b)
  BY <1>2, <1>3, <1>8 DEF Fit, Blocks
<1> QED  BY <1>7, <1>11, <1>12 DEF Drafted, r, w, kept

LEMMA ClosedOnDisk ==
    ASSUME Inv, Inv', OnDisk, NEW s \in Sessions, Closed(s)
    PROVE  OnDisk'
<1> DEFINE kind == ending[s].kind
           kept == ending[s].kept
<1>1. /\ stage[s] = "closing" /\ (rec[s] = None <=> kind = "delete") /\ writes = <<>>
      /\ stage'[s] # "closing" /\ UNCHANGED <<meta, file>>
      /\ \A z \in Sessions \ {s} : UNCHANGED <<stage[z], ending[z]>>
  BY DEF Closed, Runs, disk, Inv, Present, PresentAt, TypeOK, MemoryOK
<1>2. KeptAt(s)'
  BY <1>1 DEF KeptAt
<1>3. CASE kind = "delete" /\ writes' = Removal(s) /\ UNCHANGED rec
  <2>1. rec' = [rec EXCEPT ![s] = None]
    BY <1>1, <1>3 DEF Inv, TypeOK, MemoryOK
  <2>2. \A i \in DOMAIN writes' : writes'[i].session = s
    BY <1>3 DEF Removal, Write
  <2> QED  BY <1>1, <2>1, <2>2, RemovedOnDisk
<1>4. CASE kind = "stop" /\ Do(s, Persisted(s, Block(rec[s])))
  <2>1. Fit(s, Block(rec[s])) /\ Drafted(s, Block(rec[s]))
    BY <1>1, <1>4, ThereIs, StartBlock
  <2>2. Fit(s, Persisted(s, Block(rec[s]))) /\ Held(s, Persisted(s, Block(rec[s])))
    BY <2>1, PersistedFit, PersistedHeld
  <2> QED  BY <1>1, <1>2, <1>4, <2>2, DoOnDisk
<1>5. CASE /\ kind = "revert"
           /\ LET b == Block(Reverted(rec[s], kept)) IN
              Do(s, IF rec[s].persisted
                    THEN Persisted(s, [b EXCEPT !.out = <<Write("rewrite", s, kept)>>])
                    ELSE b)
  <2> DEFINE b == Block(Reverted(rec[s], kept))
             c == [b EXCEPT !.out = <<Write("rewrite", s, kept)>>]
  <2>1. CASE rec[s].persisted
    <3>1. Fit(s, c) /\ Drafted(s, c)
      BY <1>1, <1>5, <2>1, RevertedSaved
    <3>2. Fit(s, Persisted(s, c)) /\ Held(s, Persisted(s, c))
      BY <3>1, PersistedFit, PersistedHeld
    <3> QED  BY <1>1, <1>2, <1>5, <2>1, <3>2, DoOnDisk
  <2>2. CASE ~rec[s].persisted
    <3>1. Fit(s, b) /\ Held(s, b)
      BY <1>1, <1>5, <2>2, RevertedUnsaved
    <3> QED  BY <1>1, <1>2, <1>5, <2>2, <3>1, DoOnDisk
  <2> QED  BY <2>1, <2>2
<1> QED  BY <1>3, <1>4, <1>5 DEF Closed

LEMMA RenameOnDisk ==
    ASSUME Inv, Inv', OnDisk, NEW s \in Sessions, Rename(s)
    PROVE  OnDisk'
<1> DEFINE r == [rec[s] EXCEPT !.named = TRUE]
           b == Persisted(s, Block(r))
<1>1. rec[s] # None /\ writes = <<>> /\ stage[s] = "free"
  BY DEF Rename, Free, Runs
<1>2. /\ r \in Records /\ SavedAt(s, r) /\ r.persisted = rec[s].persisted
      /\ r.ephemeral = rec[s].ephemeral /\ r.transcript = rec[s].transcript
  BY <1>1, ThereIs DEF Records, SavedAt
<1>3. Fit(s, Block(r)) /\ Drafted(s, Block(r))
  BY <1>1, <1>2, BlockFit, StartBlock
<1>4. Fit(s, b) /\ Held(s, b)
  BY <1>3, PersistedFit, PersistedHeld
<1>5. UNCHANGED <<stage, ending, meta, file>> /\ KeptAt(s)' /\ Do(s, b)
  BY <1>1 DEF Rename, disk, KeptAt
<1> QED  BY <1>1, <1>4, <1>5, DoOnDisk

\* What a record is once its transcript has been read.
LEMMA ReadHeld ==
    ASSUME Inv, OnDisk, NEW s \in Sessions, rec[s] # None, writes = <<>>
    PROVE  LET b == Block(Read(s, rec[s])) IN
           Fit(s, b) /\ Held(s, b) /\ Same(rec[s], b.rec)
<1> DEFINE r == Read(s, rec[s])
           b == Block(rec[s])
<1>1. Fit(s, b) /\ Held(s, b) /\ rec[s] \in Records /\ SavedAt(s, rec[s]) /\ b.rec = rec[s]
  BY ThereIs, StartBlock DEF Block
<1>2. /\ r \in Records /\ r.persisted = rec[s].persisted
      /\ r.ephemeral = rec[s].ephemeral /\ Same(rec[s], r)
  BY <1>1, ReadType DEF Inv, Read, Records, Same
<1>3. Held(s, [b EXCEPT !.rec = r]) /\ Fit(s, [b EXCEPT !.rec = r])
  BY <1>1, <1>2, OwedHeld, ChangedFit DEF Inv
<1>4. [b EXCEPT !.rec = r] = Block(r) /\ Block(r).rec = r
  BY DEF Block
<1> QED  BY <1>2, <1>3, <1>4

LEMMA ReadTranscriptOnDisk ==
    ASSUME Inv, Inv', OnDisk, NEW s \in Sessions, ReadTranscript(s)
    PROVE  OnDisk'
<1> DEFINE b == Block(Read(s, rec[s]))
<1>1. /\ rec[s] # None /\ writes = <<>> /\ writes' = <<>>
      /\ rec' = [rec EXCEPT ![s] = Read(s, rec[s])]
      /\ UNCHANGED <<stage, ending, meta, file>>
  BY DEF ReadTranscript, Runs, disk
<1>2. Fit(s, b) /\ Held(s, b) /\ Same(rec[s], b.rec)
  BY <1>1, ReadHeld
<1>3. DoIfKnown(s, b)
  BY <1>1 DEF DoIfKnown, Do, Block
<1> QED  BY <1>1, <1>2, <1>3, KnownOnDisk

\* The record that a fork leaves, and what it writes of it.
LEMMA ForkLeaves ==
    ASSUME Inv, NEW s \in Sessions, NEW n \in Sessions, Fork(s, n)
    PROVE  \E r \in Records :
              /\ r.persisted /\ ~r.ephemeral /\ r.acp = None /\ r.openTurn = "none"
              /\ r.transcript \in Seq(Events)
              /\ rec' = [rec EXCEPT ![s] = Read(s, rec[s]), ![n] = r]
              /\ writes' = <<Write("meta", n, Stored(r)), Write("rewrite", n, r.transcript)>>
<1>1. rec[s] # None
  BY DEF Fork, Free
<1>2. rec[s] \in Records /\ Loaded(s, rec[s]) \in Seq(Events)
  BY <1>1, ThereIs, LoadedType DEF Inv
<1>3. PICK at \in 0 .. Len(Loaded(s, rec[s])) :
        LET fork == [NewRecord(TRUE, FALSE) EXCEPT
                       !.persisted = TRUE, !.oriented = rec[s].oriented,
                       !.transcript = Slice(Loaded(s, rec[s]), at)]
        IN  /\ rec' = [rec EXCEPT ![s] = Read(s, rec[s]), ![n] = fork]
            /\ writes' = <<Write("meta", n, Stored(fork)),
                           Write("rewrite", n, fork.transcript)>>
  BY DEF Fork, Forked
<1> DEFINE lines == Slice(Loaded(s, rec[s]), at)
           fork == [NewRecord(TRUE, FALSE) EXCEPT
                      !.persisted = TRUE, !.oriented = rec[s].oriented,
                      !.transcript = lines]
<1>4. lines \in Seq(Events)
  BY <1>2, SliceType
<1>5. /\ fork \in Records /\ fork.persisted /\ ~fork.ephemeral
      /\ fork.acp = None /\ fork.openTurn = "none" /\ fork.transcript \in Seq(Events)
  BY <1>2, <1>4 DEF NewRecord, Records
<1> QED  BY <1>3, <1>5

\* The new session is on disk, and of the old one nothing has changed.
LEMMA ForkOnDisk ==
    ASSUME Inv, Inv', OnDisk, NEW s \in Sessions, NEW n \in Sessions, Fork(s, n)
    PROVE  OnDisk'
<1> DEFINE q == Read(s, rec[s])
<1>1. /\ rec[s] # None /\ rec[n] = None /\ n # s /\ writes = <<>>
      /\ UNCHANGED <<ending, meta, file>>
      /\ stage'[n] = "free" /\ \A z \in Sessions \ {n} : stage'[z] = stage[z]
  BY DEF Fork, Free, Runs, disk, Inv, Nowhere, Nothing, TypeOK, MemoryOK
<1>2. rec[s] \in Records /\ Loaded(s, rec[s]) \in Seq(Events)
  BY <1>1, ThereIs, LoadedType DEF Inv
<1>3. PICK r : /\ r \in Records /\ r.persisted /\ ~r.ephemeral
               /\ r.transcript \in Seq(Events)
               /\ rec' = [rec EXCEPT ![s] = q, ![n] = r]
               /\ writes' = <<Write("meta", n, Stored(r)), Write("rewrite", n, r.transcript)>>
  BY ForkLeaves
<1>4. /\ rec'[n] = r /\ rec'[s] = q
      /\ \A z \in Sessions \ {s, n} : rec'[z] = rec[z]
  BY <1>1, <1>3 DEF Inv, TypeOK, MemoryOK
<1> DEFINE w == Write("meta", n, Stored(r))
           v == Write("rewrite", n, r.transcript)
<1>5. /\ w \in DiskWrites /\ v \in DiskWrites /\ w.session = n /\ v.session = n
      /\ w.kind = "meta" /\ w.value = Stored(r)
      /\ v.kind = "rewrite" /\ v.value = r.transcript
  BY <1>3, StoredType DEF Write, DiskWrites
<1> HIDE DEF w, v
<1>6. /\ writes' = <<w, v>> /\ writes' \in Seq(DiskWrites)
      /\ \A i \in DOMAIN writes' : writes'[i].session = n
      /\ writes' = Append(Append(<<>>, w), v) /\ Append(<<>>, w) \in Seq(DiskWrites)
  BY <1>3, <1>5 DEF w, v
<1>7. HeldAt(n)'
  <2> DEFINE d0 == DiskOf(n)
             d1 == WrittenOf(n, w, d0)
             d2 == WrittenOf(n, v, d1)
  <2>1. d0 \in Disks /\ Ends(n, <<>>, d0) /\ <<>> \in Seq(DiskWrites)
    BY DiskType, EndsEmpty DEF Inv
  <2>2. Ends(n, Append(<<>>, w), d1) /\ d1 \in Disks
    BY <1>5, <2>1, EndsAppend, WrittenOfType
  <2>3. Ends(n, writes', d2) /\ d2 \in Disks
    BY <1>5, <1>6, <2>2, EndsAppend, WrittenOfType
  <2>4. d2.meta = Stored(r) /\ d2.file = Whole(r.transcript)
    BY <1>5 DEF WrittenOf, Written
  <2> HIDE DEF d0, d1, d2
  <2>5. Holds(r, d2)
    BY <1>3, <2>4, TellsItself DEF Holds, Whole
  <2>6. Current(r, d2)
    <3>1. Stored(r) # None
      BY <1>3, StoredType, NoneAssumption
    <3>2. /\ Stored(r).named = r.named /\ Stored(r).oriented = r.oriented
          /\ Stored(r).turnOpen = (r.openTurn # "none")
      BY DEF Stored
    <3> QED  BY <1>3, <2>4, <3>1, <3>2 DEF Current, Agrees
  <2>7. PICK d \in Disks : Ends(n, writes', d) /\ Holds(r, d) /\ Current(r, d)
    BY <2>3, <2>5, <2>6
  <2>8. Ends(n, writes, d)'
    BY <1>1, <2>7 DEF Ends, Path, DiskOf
  <2> QED  BY <1>4, <2>7, <2>8 DEF HeldAt
<1>8. HeldAt(s)'
  <2> DEFINE b == Block(q)
  <2>1. PICK d : DraftOf(s, b, d) /\ Current(q, d) /\ Holds(q, d)
    BY <1>1, ReadHeld DEF Held, Block, DraftOf
  <2>2. d = DiskOf(s) /\ DiskOf(s) \in Disks
    BY <2>1, DiskType, EndsEmpty DEF DraftOf, Block, Inv
  <2>3. Ends(s, writes', DiskOf(s))
    BY <1>1, <1>6, <2>2, EndsOther
  <2>4. Ends(s, writes, d)'
    BY <1>1, <2>2, <2>3 DEF Ends, Path, DiskOf
  <2> QED  BY <1>4, <2>1, <2>2, <2>4 DEF HeldAt
<1>9. ASSUME NEW z \in Sessions \ {s, n}, rec'[z] # None PROVE HeldAt(z)'
  BY <1>1, <1>4, <1>6, <1>9, OtherHeld
<1>10. ASSUME NEW z \in Sessions, rec'[z] # None PROVE KeptAt(z)'
  <2>1. CASE z = n
    BY <1>1, <2>1 DEF KeptAt
  <2>2. CASE z # n
    <3>1. rec[z] # None /\ Same(rec[z], rec'[z])
      <4>1. CASE z = s
        BY <1>1, <1>4, <4>1, ReadHeld DEF Block
      <4>2. CASE z # s
        <5>1. rec'[z] = rec[z]
          BY <1>4, <2>2, <4>2
        <5> QED  BY <1>10, <5>1 DEF Same
      <4> QED  BY <4>1, <4>2
    <3> QED  BY <1>1, <2>2, <3>1, SameKept DEF Same
  <2> QED  BY <2>1, <2>2
<1> QED  BY <1>7, <1>8, <1>9, <1>10 DEF OnDisk

\* The next of the writes is done.
LEMMA FlushedDisk ==
    ASSUME Inv, Flush, NEW z \in Sessions
    PROVE  DiskOf(z)' = WrittenOf(z, Head(writes), DiskOf(z))
<1> DEFINE w == Head(writes)
           s == w.session
<1>1. w \in DiskWrites /\ s \in Sessions
  <2>1. writes \in Seq(DiskWrites) /\ writes # <<>>
    BY DEF Flush, Inv, TypeOK, DiskOK
  <2>2. w \in DiskWrites
    BY <2>1
  <2> QED  BY <2>2 DEF DiskWrites
<1>2. meta \in [Sessions -> Metas \cup {None}] /\ file \in [Sessions -> Files]
  BY DEF Inv, TypeOK, DiskOK, Files
<1>3. /\ meta' = CASE w.kind = "meta" -> [meta EXCEPT ![s] = w.value]
                   [] w.kind = "delete" -> [meta EXCEPT ![s] = None]
                   [] OTHER -> meta
      /\ file' = CASE w.kind = "append" -> [file EXCEPT ![s] = Appended(file[s], w.value)]
                   [] w.kind = "rewrite" -> [file EXCEPT ![s] = Whole(w.value)]
                   [] w.kind = "delete" -> [file EXCEPT ![s] = Whole(<<>>)]
                   [] OTHER -> file
  BY DEF Flush
<1> HIDE DEF w, s
<1>4. meta'[z] = IF z = s THEN Written(w, DiskOf(z)).meta ELSE meta[z]
  BY <1>1, <1>2, <1>3 DEF Written, DiskOf
<1>5. file'[z] = IF z = s THEN Written(w, DiskOf(z)).file ELSE file[z]
  <2>1. CASE w.kind = "append"
    BY <1>1, <1>2, <1>3, <2>1 DEF Written, DiskOf
  <2>2. CASE w.kind = "rewrite"
    BY <1>1, <1>2, <1>3, <2>2 DEF Written, DiskOf
  <2>3. CASE w.kind = "delete"
    BY <1>1, <1>2, <1>3, <2>3 DEF Written, DiskOf
  <2>4. CASE w.kind \notin {"append", "rewrite", "delete"}
    BY <1>1, <1>2, <1>3, <2>4 DEF Written, DiskOf
  <2> QED  BY <2>1, <2>2, <2>3, <2>4
<1>6. Written(w, DiskOf(z)) = [meta |-> Written(w, DiskOf(z)).meta,
                               file |-> Written(w, DiskOf(z)).file]
  BY DEF Written
<1> QED  BY <1>4, <1>5, <1>6 DEF WrittenOf, DiskOf, w, s

LEMMA FlushOnDisk ==
    ASSUME Inv, OnDisk, Flush
    PROVE  OnDisk'
<1>1. /\ UNCHANGED <<rec, stage, ending>> /\ writes # <<>> /\ writes' = Tail(writes)
      /\ writes \in Seq(DiskWrites)
  BY DEF Flush, memory, Inv, TypeOK, DiskOK
<1> SUFFICES ASSUME NEW z \in Sessions, rec[z] # None PROVE HeldAt(z)' /\ KeptAt(z)'
  BY <1>1 DEF OnDisk
<1>2. PICK d \in Disks : Ends(z, writes, d) /\ Holds(rec[z], d) /\ Current(rec[z], d)
  BY DEF OnDisk, HeldAt
<1>3. Ends(z, writes, d)'
  BY <1>1, <1>2, FlushedDisk, EndsTail
<1>4. HeldAt(z)'
  BY <1>1, <1>2, <1>3 DEF HeldAt
<1> QED  BY <1>1, <1>4, SameKept

\* What is restored is what is on disk.
LEMMA RestartOnDisk ==
    ASSUME Inv, OnDisk, Restart
    PROVE  OnDisk'
<1>1. /\ writes = <<>> /\ \A z \in Sessions : stage[z] \in {"unborn", "free"}
      /\ UNCHANGED <<stage, meta, file, writes>>
  BY DEF Restart, Inv, AtRest, disk
<1> SUFFICES ASSUME NEW z \in Sessions, rec'[z] # None PROVE HeldAt(z)' /\ KeptAt(z)'
  BY DEF OnDisk
<1>2. /\ meta[z] \in Metas /\ meta[z] # None /\ rec'[z] = Restored(meta[z])
  BY DEF Restart, Inv, TypeOK, DiskOK
<1>3. DiskOf(z) \in Disks /\ Ends(z, <<>>, DiskOf(z))
  BY DiskType, EndsEmpty DEF Inv
<1>4. Holds(Restored(meta[z]), DiskOf(z)) /\ Current(Restored(meta[z]), DiskOf(z))
  BY <1>2 DEF Restored, Holds, Current, Agrees, Spoken, DiskOf, Metas
<1>5. Ends(z, writes, DiskOf(z))'
  BY <1>1, <1>3 DEF Ends, Path, DiskOf
<1>6. HeldAt(z)'
  BY <1>1, <1>2, <1>3, <1>4, <1>5 DEF HeldAt, DiskOf
<1> QED  BY <1>1, <1>6 DEF KeptAt

LEMMA InitOnDisk == Init => OnDisk
BY DEF Init, OnDisk

LEMMA NextOnDisk == Inv /\ Inv' /\ OnDisk /\ [Next]_vars => OnDisk'
<1> SUFFICES ASSUME Inv, Inv', OnDisk, [Next]_vars PROVE OnDisk'
  OBVIOUS
<1>1. CASE UNCHANGED vars
  BY <1>1, SameOnDisk DEF vars, memory, disk
<1>2. ASSUME NEW s \in Sessions,
             \/ \E named, ephemeral \in BOOLEAN : Create(s, named, ephemeral)
             \/ \E warned \in BOOLEAN : Started(s, warned)
             \/ StartFails(s)
             \/ Resume(s) \/ Waits(s) \/ ResumeFails(s)
             \/ \E loaded, warned \in BOOLEAN : Resumed(s, loaded, warned)
      PROVE  OnDisk'
  BY <1>2, CreateOnDisk, StartedOnDisk, StartFailsOnDisk, ResumeOnDisk, WaitsOnDisk,
     ResumeFailsOnDisk, ResumedOnDisk
<1>3. ASSUME NEW s \in Sessions,
             \/ BeginTurn(s) \/ Refused(s)
             \/ \E e \in {"agent", "notice"} : TurnEvent(s, e)
             \/ \E failed \in BOOLEAN : TurnEnds(s, failed)
      PROVE  OnDisk'
  BY <1>3, BeginTurnOnDisk, RefusedOnDisk, TurnEventOnDisk, TurnEndsOnDisk
<1>4. ASSUME NEW s \in Sessions, Prompt(s) PROVE OnDisk'
  BY <1>4, SameOnDisk DEF Prompt, disk
<1>5. ASSUME NEW s \in Sessions,
             \/ Stop(s) \/ Delete(s) \/ Revert(s) \/ Settled(s) \/ Closed(s)
      PROVE  OnDisk'
  <2>1. Delete(s) => End(s, "delete", 0)
    BY DEF Delete
  <2> QED  BY <1>5, <2>1, StopOnDisk, EndOnDisk, RevertOnDisk, SettledOnDisk, ClosedOnDisk
<1>6. ASSUME NEW s \in Sessions,
             Rename(s) \/ ReadTranscript(s) \/ \E n \in Sessions : Fork(s, n)
      PROVE  OnDisk'
  BY <1>6, RenameOnDisk, ReadTranscriptOnDisk, ForkOnDisk
<1>7. CASE Flush \/ Restart
  BY <1>7, FlushOnDisk, RestartOnDisk
<1>8. CASE Crash \/ Exit
  BY <1>8 DEF Crash, Exit, Forgotten, OnDisk
<1>9. CASE Shutdown
  BY <1>9, SameOnDisk DEF Shutdown, disk
<1> QED  BY <1>1, <1>2, <1>3, <1>4, <1>5, <1>6, <1>7, <1>8, <1>9 DEF Next

LEMMA OnDiskHolds == Spec => [](Inv /\ OnDisk)
<1>1. Init => Inv /\ OnDisk
  BY InitInv, InitOnDisk
<1>2. Inv /\ OnDisk /\ [Next]_vars => Inv' /\ OnDisk'
  BY NextInv, NextOnDisk
<1> QED  BY <1>1, <1>2, PTL DEF Spec

\* The metadata a restart would read is what the daemon knows, whenever the
\* event loop takes its next step.
THEOREM MetadataCurrent == Spec => []MetaCurrent
<1>1. Inv /\ OnDisk => MetaCurrent
  <2> SUFFICES ASSUME Inv, OnDisk, NEW s \in Sessions, Runs, rec[s] # None, Keeps(rec[s])
               PROVE  Agrees(meta[s], rec[s])
    BY DEF MetaCurrent, Agrees
  <2> QED  BY StartHeld DEF Runs, Current, DiskOf
<1> QED  BY <1>1, OnDiskHolds, PTL

\* No message of a conversation is in memory only: dropping the cache, which
\* every stop, revert and restart does, loses nothing.
THEOREM SaidKept == Spec => []SaidIsOnDisk
<1>1. Inv /\ OnDisk => SaidIsOnDisk
  <2> SUFFICES ASSUME Inv, OnDisk, NEW s \in Sessions, Runs, Cached(s),
                      file[s].tail # "swallowed"
               PROVE  /\ IsSuffix(file[s].lines, rec[s].transcript)
                      /\ \A i \in 1 .. Len(rec[s].transcript) - Len(file[s].lines) :
                            rec[s].transcript[i] \notin Messages
    BY DEF SaidIsOnDisk
  <2>1. Holds(rec[s], DiskOf(s)) /\ Current(rec[s], DiskOf(s))
    BY StartHeld DEF Cached, Runs
  <2>2. Tells(file[s].lines, rec[s].transcript)
    BY <2>1 DEF Cached, Holds, Current, DiskOf
  <2>3. file[s].lines \in Seq(Events) /\ rec[s].transcript \in Seq(Events)
    BY ThereIs DEF Cached, Records, Inv, TypeOK, DiskOK
  <2> QED  BY <2>2, <2>3, TellsIsSuffix
<1> QED  BY <1>1, OnDiskHolds, PTL

-----------------------------------------------------------------------------
(***************************************************************************)
(* Turns, marks, contexts and ids.                                         *)
(***************************************************************************)
\* Where a turn can be.
TurnAt(s) ==
    /\ turn[s] = "begun" => rec[s] # None
    /\ s \in handled => turn[s] # "none"
    /\ stage[s] \in {"unborn", "starting", "resuming"} => turn[s] = "none"
    /\ up = "down" => turn[s] = "none"
    /\ stage[s] = "closing" => s \notin live
    /\ up = "stopping" => s \notin live
    /\ turn[s] # "none" => s \in live \/ stage[s] = "closing" \/ up = "stopping"

\* On disk, now or after any of the writes, a turn of s is open.
MarkLeft(s) ==
    /\ meta[s] # None => meta[s].turnOpen
    /\ \A i \in DOMAIN writes :
          writes[i].kind = "meta" /\ writes[i].session = s => writes[i].value.turnOpen

\* A turn that runs has left its mark, and one that a crash has cut off is
\* owed until the prompt that tells of it.
MarkedAt(s) ==
    /\ turn[s] # "none" /\ rec[s] # None => rec[s].openTurn = "open"
    /\ turn[s] = "running" => MarkLeft(s)
    /\ turn[s] \in {"running", "cancelled"} => <<s, "crash">> \notin cut
    /\ <<s, "crash">> \in cut =>
          /\ stage[s] # "unborn" /\ MarkLeft(s)
          /\ rec[s] # None => \/ rec[s].openTurn = "owed"
                              \/ turn[s] = "begun" /\ "news" \in carried[s]

\* The agent knows the conversation, is being told, or is to be told.
ContextAt(s) ==
    "prompt" \notin Faults /\ s \in live /\ stage[s] \notin {"starting", "resuming"}
    => \/ s \in context
       \/ turn[s] = "none" /\ rec[s].pending
       \/ turn[s] # "none" /\ "context" \in carried[s]

\* An id is that of the history that is there, and that is not to be rewritten.
Timely(s, id) ==
    id # None => /\ id = epoch[s]
                 /\ \A i \in DOMAIN writes :
                       ~(writes[i].session = s /\ writes[i].kind = "rewrite")

\* So are those in memory, and on disk once the writes are done.
IdAt(s) ==
    "crash" \notin Faults =>
    /\ rec[s] # None => Timely(s, rec[s].acp)
    /\ \A i \in DOMAIN writes :
          writes[i].session = s /\ writes[i].kind = "meta" => Timely(s, writes[i].value.acp)
    /\ meta[s] # None => \/ Timely(s, meta[s].acp)
                         \/ \E i \in DOMAIN writes :
                               writes[i].session = s /\ writes[i].kind = "meta"
    /\ s \in live /\ stage[s] \notin {"starting", "resuming"} => rec[s].acp # None

KnownAt(s) == TurnAt(s) /\ MarkedAt(s) /\ ContextAt(s) /\ IdAt(s)

Known == \A s \in Sessions : KnownAt(s)

\* A step about s alone.
Around(s) ==
    /\ writes = <<>> /\ \A i \in DOMAIN writes' : writes'[i].session = s
    /\ UNCHANGED <<up, meta, epoch>>
    /\ \A z \in Sessions \ {s} :
          /\ UNCHANGED <<rec[z], turn[z], stage[z], carried[z]>>
          /\ z \in live' <=> z \in live
          /\ z \in context' <=> z \in context
          /\ z \in handled' <=> z \in handled
          /\ <<z, "crash">> \in cut' <=> <<z, "crash">> \in cut

LEMMA AroundKnown ==
    ASSUME Known, NEW s \in Sessions, Around(s), KnownAt(s)'
    PROVE  Known'
<1> SUFFICES ASSUME NEW z \in Sessions, z # s PROVE KnownAt(z)'
  BY DEF Known
<1>1. KnownAt(z) /\ writes = <<>> /\ UNCHANGED <<up, meta[z], epoch[z]>>
  BY DEF Known, Around
<1>2. /\ UNCHANGED <<rec[z], turn[z], stage[z], carried[z]>>
      /\ z \in live' <=> z \in live
      /\ z \in context' <=> z \in context
      /\ z \in handled' <=> z \in handled
      /\ <<z, "crash">> \in cut' <=> <<z, "crash">> \in cut
  BY DEF Around
<1>3. \A i \in DOMAIN writes' : writes'[i].session # z
  BY DEF Around
<1>4. TurnAt(z)'
  BY <1>1, <1>2 DEF KnownAt, TurnAt
<1>5. MarkedAt(z)'
  BY <1>1, <1>2, <1>3 DEF KnownAt, MarkedAt, MarkLeft
<1>6. ContextAt(z)'
  BY <1>1, <1>2 DEF KnownAt, ContextAt
<1>7. IdAt(z)'
  BY <1>1, <1>2, <1>3 DEF KnownAt, IdAt, Timely
<1> QED  BY <1>4, <1>5, <1>6, <1>7 DEF KnownAt

\* The code of a step that leaves the marks of s as they are.
LEMMA SameMarked ==
    ASSUME Inv, Known, NEW s \in Sessions, rec[s] # None, rec'[s] # None, writes = <<>>,
           NEW b, rec'[s] = b.rec, writes' = b.out,
           NEW id, Bears(b, id, rec[s].openTurn),
           b.rec.openTurn = rec[s].openTurn,
           meta'[s] = meta[s], cut' = cut, carried'[s] = carried[s], stage'[s] # "unborn",
           turn'[s] = turn[s] \/ (turn[s] = "running" /\ turn'[s] = "cancelled")
    PROVE  MarkedAt(s)'
<1>1. MarkedAt(s)
  BY DEF Known, KnownAt
<1>2. MarkLeft(s) /\ rec[s].openTurn # "none" => MarkLeft(s)'
  BY DEF MarkLeft, Bears
<1> QED  BY <1>1, <1>2 DEF MarkedAt

\* And the ids.
LEMMA PlainId ==
    ASSUME Inv, Known, NEW s \in Sessions, writes = <<>>,
           NEW b, rec'[s] = b.rec, writes' = b.out, Plain(b),
           NEW id, NEW mark, Bears(b, id, mark), id = None \/ id = epoch[s],
           meta'[s] = meta[s], epoch' = epoch,
           s \in live' /\ stage'[s] \notin {"starting", "resuming"} => id # None
    PROVE  IdAt(s)'
<1>1. IdAt(s)
  BY DEF Known, KnownAt
<1>2. b.rec.acp = id /\ \A i \in DOMAIN b.out : b.out[i].kind = "meta" => b.out[i].value.acp = id
  BY DEF Bears
<1>3. \A x : x = None \/ x = epoch[s] => Timely(s, x)'
  BY DEF Plain, Timely
<1>4. meta[s] # None /\ "crash" \notin Faults => meta[s].acp = None \/ meta[s].acp = epoch[s]
  BY <1>1 DEF IdAt, Timely
<1> QED  BY <1>2, <1>3, <1>4 DEF IdAt

\* A record that is there knows no id, or that of the history on disk.
LEMMA KnownId ==
    ASSUME Inv, Known, NEW s \in Sessions, rec[s] # None, "crash" \notin Faults
    PROVE  rec[s].acp = None \/ rec[s].acp = epoch[s]
BY DEF Known, KnownAt, IdAt, Timely

\* The code of a step of s that does not change the marks or the id.
LEMMA SameKnown ==
    ASSUME Inv, Known, NEW s \in Sessions, rec[s] # None,
           NEW b, Fit(s, b), Do(s, b), Around(s),
           Plain(b), Bears(b, rec[s].acp, rec[s].openTurn),
           b.rec.openTurn = rec[s].openTurn,
           cut' = cut, carried'[s] = carried[s], stage'[s] # "unborn",
           turn'[s] = turn[s] \/ (turn[s] = "running" /\ turn'[s] = "cancelled"),
           TurnAt(s)', ContextAt(s)',
           s \in live' /\ stage'[s] \notin {"starting", "resuming"}
              => s \in live /\ stage[s] \notin {"starting", "resuming"}
    PROVE  Known'
<1>1. rec'[s] = b.rec /\ writes' = b.out /\ rec'[s] # None
  <2>1. b.rec \in Records
    BY DEF Fit, Blocks
  <2> QED  BY <2>1, NoneAssumption DEF Do, Inv, TypeOK, MemoryOK
<1>2. writes = <<>> /\ meta'[s] = meta[s] /\ epoch' = epoch
  BY DEF Around
<1>3. MarkedAt(s)'
  BY <1>1, <1>2, SameMarked
<1>4. IdAt(s)'
  <2>1. CASE "crash" \in Faults
    BY <2>1 DEF IdAt
  <2>2. CASE "crash" \notin Faults
    <3>1. rec[s].acp = None \/ rec[s].acp = epoch[s]
      BY <2>2, KnownId
    <3>2. s \in live /\ stage[s] \notin {"starting", "resuming"} => rec[s].acp # None
      BY <2>2 DEF Known, KnownAt, IdAt
    <3> QED  BY <1>1, <1>2, <3>1, <3>2, PlainId
  <2> QED  BY <2>1, <2>2
<1>5. KnownAt(s)'
  BY <1>3, <1>4 DEF KnownAt
<1> QED  BY <1>5, AroundKnown

LEMMA DoLeaves ==
    ASSUME Inv, NEW s \in Sessions, NEW b, Fit(s, b), Do(s, b)
    PROVE  /\ rec'[s] = b.rec /\ rec'[s] # None /\ writes' = b.out
           /\ \A i \in DOMAIN writes' : writes'[i].session = s
           /\ \A z \in Sessions \ {s} : rec'[z] = rec[z]
<1>1. b.rec \in Records
  BY DEF Fit, Blocks
<1> QED  BY <1>1, NoneAssumption DEF Do, Fit, Inv, TypeOK, MemoryOK

-----------------------------------------------------------------------------
(***************************************************************************)
(* The same: one lemma per action.                                         *)
(***************************************************************************)
LEMMA CreateKnown ==
    ASSUME Inv, Known, NEW s \in Sessions, NEW named \in BOOLEAN,
           NEW ephemeral \in BOOLEAN, Create(s, named, ephemeral)
    PROVE  Known'
<1> DEFINE r == NewRecord(named, ephemeral)
           b == Persisted(s, Block(r))
           e == Emitted(s, b, "notice")
<1>1. /\ stage[s] = "unborn" /\ Nothing(s) /\ s \notin live /\ turn[s] = "none"
      /\ <<s, "crash">> \notin cut /\ s \notin handled /\ writes = <<>> /\ up = "up"
  BY DEF Create, Runs, Inv, Nowhere, Nothing, Present, PresentAt, Known, KnownAt,
         TurnAt, MarkedAt
<1>2. r \in Records /\ SavedAt(s, r) /\ r.acp = None
  BY <1>1, NewRecordType DEF SavedAt, Nothing, NewRecord
<1> HIDE DEF r
<1>3. Fit(s, Block(r)) /\ Plain(Block(r)) /\ Bears(Block(r), None, "none")
  BY <1>2, BlockFit, BlockBears
<1>4. Fit(s, b) /\ Plain(b) /\ Bears(b, None, "none")
  BY <1>3, PersistedFit, PersistedSame
<1> HIDE DEF b
<1>5. Fit(s, e) /\ Plain(e) /\ Bears(e, None, "none")
  BY <1>4, EmittedFit, EmittedSame DEF Inv, Events
<1>6. PICK c : Fit(s, c) /\ Plain(c) /\ Bears(c, None, "none") /\ Do(s, c)
  BY <1>4, <1>5 DEF Create, b, r
<1>7. /\ rec'[s] = c.rec /\ rec'[s] # None /\ writes' = c.out
      /\ \A i \in DOMAIN writes' : writes'[i].session = s
      /\ \A z \in Sessions \ {s} : rec'[z] = rec[z]
  BY <1>6, DoLeaves
<1>8. /\ Around(s) /\ stage'[s] \in {"starting", "free"} /\ turn' = turn /\ cut' = cut
      /\ up' = up /\ handled' = handled /\ epoch' = epoch /\ meta' = meta
      /\ s \in live' => stage'[s] = "starting"
  BY <1>1, <1>7 DEF Create, Around, disk, knowledge, Inv, TypeOK, MemoryOK
<1>9. TurnAt(s)' /\ MarkedAt(s)' /\ ContextAt(s)'
  BY <1>1, <1>8 DEF TurnAt, MarkedAt, ContextAt
<1>10. IdAt(s)'
  BY <1>1, <1>6, <1>7, <1>8, PlainId
<1> QED  BY <1>8, <1>9, <1>10, AroundKnown DEF KnownAt

LEMMA StartedKnown ==
    ASSUME Inv, Known, NEW s \in Sessions, NEW warned \in BOOLEAN, Started(s, warned)
    PROVE  Known'
<1> DEFINE r == [rec[s] EXCEPT !.acp = epoch[s]]
           c == EmittedIf(warned, s, Block(r), "notice")
           b == Persisted(s, c)
<1>1. /\ rec[s] # None /\ epoch[s] \in Nat /\ writes = <<>> /\ turn[s] = "none"
      /\ s \in live /\ up # "down" /\ up # "stopping"
  BY DEF Started, Runs, Inv, Present, PresentAt, TypeOK, DiskOK, MemoryOK, Known,
         KnownAt, TurnAt
<1>2. rec[s] \in Records /\ SavedAt(s, rec[s])
  BY <1>1, ThereIs
<1>3. r \in Records /\ SavedAt(s, r) /\ r.acp = epoch[s] /\ r.openTurn = rec[s].openTurn
  BY <1>1, <1>2, EnteredFits DEF Records
<1> HIDE DEF r
<1>4. /\ Fit(s, Block(r)) /\ Plain(Block(r)) /\ Bears(Block(r), epoch[s], rec[s].openTurn)
      /\ Block(r).rec.openTurn = rec[s].openTurn
  BY <1>3, BlockFit, BlockBears
<1>5. Fit(s, c) /\ Plain(c) /\ Bears(c, epoch[s], rec[s].openTurn) /\ c.rec.openTurn = rec[s].openTurn
  BY <1>4, EmittedIfFit, EmittedIfSame DEF Inv, Events
<1> HIDE DEF c
<1>6. Fit(s, b) /\ Plain(b) /\ Bears(b, epoch[s], rec[s].openTurn) /\ b.rec.openTurn = rec[s].openTurn
  BY <1>5, PersistedFit, PersistedSame
<1>7. Do(s, b)
  BY DEF Started, b, c, r
<1> HIDE DEF b
<1>8. /\ rec'[s] = b.rec /\ rec'[s] # None /\ writes' = b.out
      /\ \A i \in DOMAIN writes' : writes'[i].session = s
      /\ \A z \in Sessions \ {s} : rec'[z] = rec[z]
  BY <1>6, <1>7, DoLeaves
<1>9. /\ Around(s) /\ stage'[s] = "free" /\ turn' = turn /\ cut' = cut
      /\ up' = up /\ handled' = handled /\ epoch' = epoch /\ meta' = meta
      /\ s \in context' /\ carried' = carried
  BY <1>1, <1>8 DEF Started, Around, disk, Inv, TypeOK, MemoryOK
<1>10. TurnAt(s)' /\ ContextAt(s)'
  BY <1>1, <1>9 DEF TurnAt, ContextAt, Known, KnownAt
<1>11. MarkedAt(s)'
  <2>1. meta'[s] = meta[s] /\ cut' = cut /\ carried'[s] = carried[s] /\ stage'[s] # "unborn"
        /\ turn'[s] = turn[s]
    BY <1>9
  <2> QED  BY <1>1, <1>6, <1>8, <2>1, SameMarked
<1>12. IdAt(s)'
  <2>1. epoch[s] # None
    BY <1>1, NoneAssumption
  <2> QED  BY <1>1, <1>6, <1>8, <1>9, <2>1, PlainId
<1> QED  BY <1>9, <1>10, <1>11, <1>12, AroundKnown DEF KnownAt

LEMMA StartFailsKnown ==
    ASSUME Inv, Known, NEW s \in Sessions, StartFails(s)
    PROVE  Known'
<1>1. /\ rec[s] # None /\ writes = <<>> /\ turn[s] = "none" /\ up # "down"
      /\ rec'[s] = None /\ s \notin live' /\ meta' = meta /\ turn' = turn
      /\ stage'[s] = "free" /\ handled' = handled /\ cut' = cut /\ epoch' = epoch /\ up' = up
  BY DEF StartFails, Runs, disk, knowledge, Inv, Present, PresentAt, TypeOK, MemoryOK,
         Known, KnownAt, TurnAt
<1>2. \A i \in DOMAIN writes' : writes'[i].session = s /\ writes'[i].kind \in {"delete", "removed"}
  BY DEF StartFails, Removal, Write
<1>3. Around(s)
  BY <1>1, <1>2 DEF StartFails, Around, disk, knowledge, Inv, TypeOK, MemoryOK
<1>4. TurnAt(s)' /\ ContextAt(s)'
  BY <1>1 DEF TurnAt, ContextAt, Known, KnownAt
<1>5. MarkedAt(s)'
  BY <1>1, <1>2 DEF MarkedAt, MarkLeft, Known, KnownAt
<1>6. IdAt(s)'
  BY <1>1, <1>2 DEF IdAt, Timely, Known, KnownAt
<1> QED  BY <1>3, <1>4, <1>5, <1>6, AroundKnown DEF KnownAt

LEMMA ResumeKnown ==
    ASSUME Inv, Known, NEW s \in Sessions, Resume(s)
    PROVE  Known'
<1>1. /\ rec[s] # None /\ rec' = rec /\ writes = <<>> /\ writes' = <<>> /\ meta' = meta
      /\ turn[s] = "none" /\ turn' = turn /\ stage[s] = "free" /\ stage'[s] = "resuming"
      /\ handled' = handled /\ cut' = cut /\ epoch' = epoch /\ up = "up" /\ up' = up
      /\ carried' = carried
  BY DEF Resume, Free, Runs, disk, knowledge, Inv, TypeOK, MemoryOK, Known, KnownAt, TurnAt
<1>2. Around(s)
  BY <1>1 DEF Resume, Around, disk, knowledge, Inv, TypeOK, MemoryOK
<1>3. TurnAt(s)' /\ ContextAt(s)'
  BY <1>1 DEF TurnAt, ContextAt, Known, KnownAt
<1>4. MarkedAt(s)'
  BY <1>1 DEF MarkedAt, MarkLeft, Known, KnownAt
<1>5. IdAt(s)'
  BY <1>1 DEF IdAt, Timely, Known, KnownAt
<1> QED  BY <1>2, <1>3, <1>4, <1>5, AroundKnown DEF KnownAt

LEMMA WaitsKnown ==
    ASSUME Inv, Inv', Known, NEW s \in Sessions, Waits(s)
    PROVE  Known'
<1> DEFINE b == Emitted(s, Block(rec[s]), "notice")
<1>1. /\ rec[s] # None /\ writes = <<>> /\ UNCHANGED <<up, live, stage, turn, handled>>
      /\ s \notin live /\ UNCHANGED <<meta, epoch, carried, context, cut>>
      /\ Do(s, b) /\ stage[s] = "free"
  BY DEF Waits, Free, Runs, disk, knowledge
<1>2. Fit(s, Block(rec[s])) /\ Plain(Block(rec[s])) /\ Bears(Block(rec[s]), rec[s].acp, rec[s].openTurn)
      /\ Block(rec[s]).rec = rec[s]
  BY <1>1, ThereIs, BlockBears
<1>3. /\ Fit(s, b) /\ Plain(b) /\ Bears(b, rec[s].acp, rec[s].openTurn)
      /\ b.rec.openTurn = rec[s].openTurn
  BY <1>2, EmittedFit, EmittedSame DEF Inv, Events
<1> HIDE DEF b
<1>4. Around(s) /\ rec'[s] # None
  BY <1>1, <1>3, DoLeaves DEF Around
<1>5. TurnAt(s)' /\ ContextAt(s)'
  BY <1>1, <1>4 DEF TurnAt, ContextAt, Known, KnownAt
<1>6. cut' = cut /\ carried'[s] = carried[s] /\ stage'[s] # "unborn" /\ turn'[s] = turn[s]
  BY <1>1
<1> QED  BY <1>1, <1>3, <1>4, <1>5, <1>6, SameKnown

LEMMA ResumedKnown ==
    ASSUME Inv, Known, NEW s \in Sessions, NEW loaded \in BOOLEAN,
           NEW warned \in BOOLEAN, Resumed(s, loaded, warned)
    PROVE  Known'
<1> DEFINE id == IF loaded THEN rec[s].acp ELSE epoch[s]
           r == [rec[s] EXCEPT !.acp = id]
           noted == EmittedIf(warned, s, Block(r), "notice")
           c == Persisted(s, noted)
           owes == Owes(s, loaded)
           q == Owed(Read(s, c.rec), owes)
           shown == [c EXCEPT !.rec = q]
           b == EmittedIf(owes, s, shown, "notice")
<1>1. /\ rec[s] # None /\ epoch[s] \in Nat /\ writes = <<>> /\ turn[s] = "none"
      /\ s \in live /\ up # "down" /\ up # "stopping" /\ (loaded => rec[s].acp # None)
  BY DEF Resumed, Runs, Inv, Present, PresentAt, TypeOK, DiskOK, MemoryOK, Known,
         KnownAt, TurnAt
<1>2. rec[s] \in Records /\ SavedAt(s, rec[s]) /\ rec[s].acp \in Nat \cup {None}
  BY <1>1, ThereIs DEF Records
<1>3. /\ id \in Nat \cup {None} /\ id # None
      /\ "crash" \notin Faults => id = epoch[s]
  <2>1. epoch[s] # None
    BY <1>1, NoneAssumption
  <2>2. "crash" \notin Faults => rec[s].acp = None \/ rec[s].acp = epoch[s]
    BY <1>1, KnownId
  <2> QED  BY <1>1, <1>2, <2>1, <2>2
<1>4. Do(s, b) /\ owes \in BOOLEAN
  BY DEF Resumed, Owes
<1> HIDE DEF id
<1>5. r \in Records /\ SavedAt(s, r) /\ r.acp = id /\ r.openTurn = rec[s].openTurn
  BY <1>2, <1>3, EnteredFits DEF Records
<1> HIDE DEF r
<1>6. /\ Fit(s, Block(r)) /\ Plain(Block(r)) /\ Bears(Block(r), id, rec[s].openTurn)
      /\ Block(r).rec.openTurn = rec[s].openTurn
  BY <1>5, BlockFit, BlockBears
<1>7. Fit(s, noted) /\ Plain(noted) /\ Bears(noted, id, rec[s].openTurn) /\ noted.rec.openTurn = rec[s].openTurn
  BY <1>6, EmittedIfFit, EmittedIfSame DEF Inv, Events
<1> HIDE DEF noted
<1>8. Fit(s, c) /\ Plain(c) /\ Bears(c, id, rec[s].openTurn) /\ c.rec.openTurn = rec[s].openTurn
  BY <1>7, PersistedFit, PersistedSame
<1> HIDE DEF c, owes
<1>9. /\ q.openTurn = c.rec.openTurn /\ q.acp = c.rec.acp /\ q.pending = (c.rec.pending \/ owes)
  <2>1. c.rec \in Records
    BY <1>8 DEF Fit, Blocks
  <2> QED  BY <2>1 DEF Owed, Read, Records
<1>10. Fit(s, shown)
  BY <1>4, <1>8, OwedFit DEF Inv
<1>11. shown.rec = q /\ shown.out = c.out
  BY <1>8 DEF Fit, Blocks
<1> HIDE DEF q, shown
<1>12. /\ Plain(shown) /\ Bears(shown, id, rec[s].openTurn) /\ shown.rec.openTurn = rec[s].openTurn
       /\ owes => shown.rec.pending
  BY <1>8, <1>9, <1>11 DEF Plain, Bears
<1>13. /\ Fit(s, b) /\ Plain(b) /\ Bears(b, id, rec[s].openTurn) /\ b.rec.openTurn = rec[s].openTurn
       /\ owes => b.rec.pending
  <2>1. TypeOK /\ "notice" \in Events
    BY DEF Inv, Events
  <2>2. Fit(s, b)
    BY <1>10, <2>1, EmittedIfFit
  <2>3. /\ Same(shown.rec, b.rec) /\ b.rec.openTurn = shown.rec.openTurn /\ Plain(b)
        /\ Bears(b, id, rec[s].openTurn)
    BY <1>10, <1>12, <2>1, EmittedIfSame
  <2> QED  BY <1>12, <2>2, <2>3 DEF Same
<1> HIDE DEF b
<1>14. /\ rec'[s] = b.rec /\ rec'[s] # None /\ writes' = b.out
       /\ \A i \in DOMAIN writes' : writes'[i].session = s
       /\ \A z \in Sessions \ {s} : rec'[z] = rec[z]
  BY <1>4, <1>13, DoLeaves
<1>15. /\ Around(s) /\ stage'[s] = "free" /\ turn' = turn /\ cut' = cut
       /\ up' = up /\ handled' = handled /\ epoch' = epoch /\ meta' = meta
       /\ (s \in context' \/ owes) /\ carried' = carried
  BY <1>1, <1>14 DEF Resumed, Around, disk, Inv, TypeOK, MemoryOK, owes, Owes
<1>16. TurnAt(s)' /\ ContextAt(s)'
  BY <1>1, <1>13, <1>14, <1>15 DEF TurnAt, ContextAt, Known, KnownAt
<1>17. MarkedAt(s)'
  <2>1. meta'[s] = meta[s] /\ cut' = cut /\ carried'[s] = carried[s] /\ stage'[s] # "unborn"
        /\ turn'[s] = turn[s]
    BY <1>15
  <2> QED  BY <1>1, <1>13, <1>14, <2>1, SameMarked
<1>18. IdAt(s)'
  <2>1. CASE "crash" \in Faults
    BY <2>1 DEF IdAt
  <2>2. CASE "crash" \notin Faults
    BY <1>1, <1>3, <1>13, <1>14, <1>15, <2>2, PlainId
  <2> QED  BY <2>1, <2>2
<1> QED  BY <1>15, <1>16, <1>17, <1>18, AroundKnown DEF KnownAt

LEMMA ResumeFailsKnown ==
    ASSUME Inv, Known, NEW s \in Sessions, ResumeFails(s)
    PROVE  Known'
<1> DEFINE r == [rec[s] EXCEPT !.acp = None]
<1>1. /\ rec[s] # None /\ writes = <<>> /\ writes' = <<>> /\ turn[s] = "none" /\ up # "down"
      /\ UNCHANGED <<up, turn, handled, meta, epoch, carried, cut>>
      /\ s \notin live' /\ stage'[s] = "free" /\ rec' = [rec EXCEPT ![s] = r]
  BY DEF ResumeFails, Runs, disk, knowledge, Inv, Present, PresentAt, TypeOK, MemoryOK,
         Known, KnownAt, TurnAt
<1>2. rec[s] \in Records /\ SavedAt(s, rec[s])
  BY <1>1, ThereIs
<1>3. r \in Records /\ SavedAt(s, r) /\ r.acp = None /\ r.openTurn = rec[s].openTurn
  BY <1>2, EnteredFits DEF Records
<1> HIDE DEF r
<1>4. /\ Fit(s, Block(r)) /\ Plain(Block(r)) /\ Bears(Block(r), None, rec[s].openTurn)
      /\ Block(r).rec = r /\ Do(s, Block(r)) /\ Block(r).out = <<>>
  BY <1>1, <1>3, BlockFit, BlockBears DEF Do, Block
<1>5. rec'[s] = r /\ rec'[s] # None /\ \A z \in Sessions \ {s} : rec'[z] = rec[z]
  BY <1>4, DoLeaves
<1>6. Around(s)
  BY <1>1, <1>5 DEF ResumeFails, Around, disk, knowledge, Inv, TypeOK, MemoryOK
<1>7. TurnAt(s)' /\ ContextAt(s)'
  BY <1>1, <1>5 DEF TurnAt, ContextAt, Known, KnownAt
<1>8. MarkedAt(s)'
  <2>1. Bears(Block(r), None, rec[s].openTurn) /\ Block(r).rec.openTurn = rec[s].openTurn
    BY <1>3, <1>4
  <2>2. rec'[s] = Block(r).rec /\ writes' = Block(r).out
    BY <1>1, <1>4, <1>5
  <2>3. meta'[s] = meta[s] /\ cut' = cut /\ carried'[s] = carried[s] /\ stage'[s] # "unborn"
    BY <1>1
  <2>4. turn'[s] = turn[s] /\ rec[s] # None /\ rec'[s] # None /\ writes = <<>>
    BY <1>1, <1>5
  <2> QED  BY <2>1, <2>2, <2>3, <2>4, SameMarked
<1>9. IdAt(s)'
  BY <1>1, <1>4, <1>5, PlainId
<1> QED  BY <1>6, <1>7, <1>8, <1>9, AroundKnown DEF KnownAt

LEMMA ToldBears ==
    ASSUME Inv, NEW s \in Sessions, rec[s] # None
    PROVE  LET b == Collected(Told(s)) IN
           /\ Fit(s, b) /\ Plain(b) /\ Bears(b, rec[s].acp, rec[s].openTurn)
           /\ b.rec.openTurn = IF rec[s].openTurn = "owed" THEN "open" ELSE rec[s].openTurn
<1> DEFINE r == [rec[s] EXCEPT !.oriented = TRUE]
           b == Told(s)
           c == [b.rec EXCEPT !.openTurn = IF b.rec.openTurn = "owed"
                                           THEN "open" ELSE b.rec.openTurn,
                              !.pending = FALSE]
<1>1. rec[s] \in Records /\ SavedAt(s, rec[s]) /\ Fit(s, Block(rec[s]))
  BY ThereIs
<1>2. /\ r \in Records /\ SavedAt(s, r) /\ r.acp = rec[s].acp
      /\ r.openTurn = rec[s].openTurn
  BY <1>1 DEF Records, SavedAt
<1> HIDE DEF r
<1>3. /\ Fit(s, Block(r)) /\ Plain(Block(r)) /\ Bears(Block(r), rec[s].acp, rec[s].openTurn)
      /\ Block(r).rec = r
  BY <1>2, BlockFit, BlockBears
<1>4. /\ Plain(Block(rec[s])) /\ Bears(Block(rec[s]), rec[s].acp, rec[s].openTurn)
      /\ Block(rec[s]).rec = rec[s]
  BY BlockBears
<1>5. /\ Fit(s, b) /\ Plain(b) /\ Bears(b, rec[s].acp, rec[s].openTurn)
      /\ b.rec.openTurn = rec[s].openTurn
  <2>1. CASE rec[s].oriented
    BY <1>1, <1>4, <2>1 DEF Told
  <2>2. CASE ~rec[s].oriented
    <3>1. b = Persisted(s, Block(r))
      BY <2>2 DEF Told, r
    <3> QED  BY <1>2, <1>3, <3>1, PersistedFit, PersistedSame
  <2> QED  BY <2>1, <2>2
<1>6. /\ c.acp = b.rec.acp
      /\ c.openTurn = IF b.rec.openTurn = "owed" THEN "open" ELSE b.rec.openTurn
  BY <1>5 DEF Fit, Blocks, Records
<1>7. Collected(b) = [b EXCEPT !.rec = c]
  BY <1>5 DEF Collected, Fit, Blocks, Records
<1> HIDE DEF b, c
<1>8. [b EXCEPT !.rec = c].rec = c /\ [b EXCEPT !.rec = c].out = b.out
  BY <1>5 DEF Fit, Blocks
<1>9. /\ Plain(Collected(b)) /\ Bears(Collected(b), rec[s].acp, rec[s].openTurn)
      /\ Collected(b).rec = c
  BY <1>5, <1>6, <1>7, <1>8 DEF Plain, Bears
<1> QED  BY <1>5, <1>6, <1>9, ToldFit DEF b

LEMMA BeginTurnKnown ==
    ASSUME Inv, Known, NEW s \in Sessions, BeginTurn(s)
    PROVE  Known'
<1> DEFINE r == rec[s]
           told == Collected(Told(s))
           oriented == EmittedIf(~r.oriented, s, told, "orientation")
           newsed == EmittedIf(r.openTurn = "owed", s, oriented, "news")
           said == Emitted(s, newsed, "user")
           b == Marked(s, said, "open")
<1>1. /\ rec[s] # None /\ writes = <<>> /\ stage[s] = "free" /\ s \in live /\ up = "up"
      /\ turn[s] = "none" /\ turn' = [turn EXCEPT ![s] = "begun"]
      /\ UNCHANGED <<up, live, stage, meta, epoch, context, cut>>
      /\ handled' \in {handled \cup {s}, handled \ {s}}
  BY DEF BeginTurn, Free, Runs, disk
<1>2. \A x \in {"news", "context"} :
         x \in carried'[s] <=> \/ x = "news" /\ rec[s].openTurn = "owed"
                               \/ x = "context" /\ rec[s].pending
  BY DEF BeginTurn, Inv, TypeOK, KnowledgeOK
<1>3. Fit(s, told) /\ Plain(told) /\ Bears(told, r.acp, r.openTurn)
  BY <1>1, ToldBears
<1> HIDE DEF told
<1>4. Fit(s, oriented) /\ Plain(oriented) /\ Bears(oriented, r.acp, r.openTurn)
  BY <1>3, EmittedIfFit, EmittedIfSame DEF Inv, Events, Messages, FromUser
<1> HIDE DEF oriented
<1>5. Fit(s, newsed) /\ Plain(newsed) /\ Bears(newsed, r.acp, r.openTurn)
  BY <1>4, EmittedIfFit, EmittedIfSame DEF Inv, Events, Messages, FromUser
<1> HIDE DEF newsed
<1>6. Fit(s, said) /\ Plain(said) /\ Bears(said, r.acp, r.openTurn)
  BY <1>5, EmittedFit, EmittedSame DEF Inv, Events, Messages, FromUser
<1> HIDE DEF said
<1>7. Fit(s, b) /\ Plain(b) /\ Bears(b, r.acp, r.openTurn) /\ b.rec.openTurn = "open"
  BY <1>6, MarkedFit, MarkedSame
<1>8. Do(s, b)
  BY DEF BeginTurn, b, said, newsed, oriented, told
<1> HIDE DEF b
<1>9. /\ rec'[s] = b.rec /\ rec'[s] # None /\ writes' = b.out
      /\ \A i \in DOMAIN writes' : writes'[i].session = s
      /\ \A z \in Sessions \ {s} : rec'[z] = rec[z]
  BY <1>7, <1>8, DoLeaves
<1>10. Around(s) /\ turn'[s] = "begun"
  BY <1>1, <1>9 DEF BeginTurn, Around, Inv, TypeOK, MemoryOK, KnowledgeOK
<1>11. TurnAt(s)'
  BY <1>1, <1>9, <1>10 DEF TurnAt
<1>12. ContextAt(s)'
  BY <1>1, <1>2, <1>10 DEF ContextAt, Known, KnownAt
<1>13. MarkedAt(s)'
  <2>1. MarkedAt(s)
    BY DEF Known, KnownAt
  <2>2. MarkLeft(s) /\ r.openTurn # "none" => MarkLeft(s)'
    BY <1>1, <1>7, <1>9 DEF MarkLeft, Bears
  <2>3. <<s, "crash">> \in cut => r.openTurn = "owed" /\ "news" \in carried'[s] /\ MarkLeft(s)
    BY <1>1, <1>2, <2>1 DEF MarkedAt
  <2> QED  BY <1>1, <1>7, <1>9, <1>10, <2>2, <2>3 DEF MarkedAt
<1>14. IdAt(s)'
  <2>1. CASE "crash" \in Faults
    BY <2>1 DEF IdAt
  <2>2. CASE "crash" \notin Faults
    <3>1. (r.acp = None \/ r.acp = epoch[s]) /\ r.acp # None
      BY <1>1, <2>2, KnownId DEF Known, KnownAt, IdAt
    <3> HIDE DEF r
    <3> QED  BY <1>1, <1>7, <1>9, <3>1, PlainId
  <2> QED  BY <2>1, <2>2
<1> QED  BY <1>10, <1>11, <1>12, <1>13, <1>14, AroundKnown DEF KnownAt

LEMMA RefusedKnown ==
    ASSUME Inv, Known, NEW s \in Sessions, Refused(s)
    PROVE  Known'
<1> DEFINE told == Collected(Told(s))
           b == Emitted(s, told, "notice")
<1>1. /\ rec[s] # None /\ writes = <<>> /\ stage[s] = "free" /\ turn[s] = "running"
      /\ UNCHANGED <<up, live, stage, turn, handled, meta, epoch, carried, context, cut>>
      /\ Do(s, b)
  BY DEF Refused, Free, Runs, disk, knowledge
<1>2. rec[s].openTurn = "open"
  BY <1>1 DEF Known, KnownAt, MarkedAt
<1>3. /\ Fit(s, told) /\ Plain(told) /\ Bears(told, rec[s].acp, rec[s].openTurn)
      /\ told.rec.openTurn = rec[s].openTurn
  BY <1>1, <1>2, ToldBears
<1> HIDE DEF told
<1>4. /\ Fit(s, b) /\ Plain(b) /\ Bears(b, rec[s].acp, rec[s].openTurn)
      /\ b.rec.openTurn = rec[s].openTurn
  BY <1>3, EmittedFit, EmittedSame DEF Inv, Events
<1> HIDE DEF b
<1>5. Around(s) /\ rec'[s] # None
  BY <1>1, <1>4, DoLeaves DEF Around
<1>6. TurnAt(s)' /\ ContextAt(s)'
  BY <1>1, <1>5 DEF TurnAt, ContextAt, Known, KnownAt
<1>7. cut' = cut /\ carried'[s] = carried[s] /\ stage'[s] # "unborn" /\ turn'[s] = turn[s]
  BY <1>1
<1> QED  BY <1>1, <1>4, <1>5, <1>6, <1>7, SameKnown

\* A prompt goes out with the mark of its turn on disk, and with the news if
\* they are owed.
LEMMA PromptKnown ==
    ASSUME Inv, OnDisk, Known, NEW s \in Sessions, Prompt(s)
    PROVE  Known'
<1>1. /\ writes = <<>> /\ writes' = <<>> /\ turn[s] = "begun" /\ turn' = [turn EXCEPT ![s] = "running"]
      /\ UNCHANGED <<up, rec, live, stage, handled, meta, epoch, carried, context>>
      /\ cut' = IF "news" \in carried[s] THEN {c \in cut : c[1] # s} ELSE cut
      /\ up # "down"
  BY DEF Prompt, disk
<1>2. TurnAt(s) /\ MarkedAt(s) /\ ContextAt(s) /\ IdAt(s)
  BY DEF Known, KnownAt
<1>3. rec[s] # None /\ rec[s].openTurn = "open"
  BY <1>1, <1>2 DEF TurnAt, MarkedAt
<1>4. meta[s] # None => meta[s].turnOpen
  <2> SUFFICES ASSUME meta[s] # None PROVE meta[s].turnOpen
    OBVIOUS
  <2>1. rec[s].persisted
    BY <1>3 DEF Inv, Saved, SavedAt
  <2>2. Current(rec[s], DiskOf(s))
    BY <1>1, <1>3, StartHeld
  <2> QED  BY <1>3, <2>1, <2>2 DEF Current, Agrees, DiskOf
<1>5. turn'[s] = "running" /\ <<s, "crash">> \notin cut'
  <2>1. <<s, "crash">> \in cut => "news" \in carried[s]
    BY <1>1, <1>2, <1>3 DEF MarkedAt
  <2> QED  BY <1>1, <2>1 DEF Inv, TypeOK, MemoryOK
<1>6. ASSUME NEW z \in Sessions \ {s} PROVE <<z, "crash">> \in cut' <=> <<z, "crash">> \in cut
  BY <1>1
<1>7. Around(s)
  BY <1>1, <1>6 DEF Around, Inv, TypeOK, MemoryOK
<1>8. TurnAt(s)' /\ ContextAt(s)'
  BY <1>1, <1>2, <1>3, <1>5 DEF TurnAt, ContextAt
<1>9. MarkedAt(s)'
  BY <1>1, <1>3, <1>4, <1>5 DEF MarkedAt, MarkLeft
<1>10. IdAt(s)'
  BY <1>1, <1>2 DEF IdAt, Timely
<1> QED  BY <1>7, <1>8, <1>9, <1>10, AroundKnown DEF KnownAt

\* Nothing changes that this is about.
LEMMA UnchangedKnown ==
    ASSUME Known, UNCHANGED <<up, rec, live, stage, turn, handled, meta, epoch, writes,
                              carried, context, cut>>
    PROVE  Known'
<1> SUFFICES ASSUME NEW s \in Sessions PROVE KnownAt(s)'
  BY DEF Known
<1>1. KnownAt(s)
  BY DEF Known
<1>2. TurnAt(s)' /\ MarkedAt(s)' /\ ContextAt(s)'
  BY <1>1 DEF KnownAt, TurnAt, MarkedAt, MarkLeft, ContextAt
<1>3. IdAt(s)'
  BY <1>1 DEF KnownAt, IdAt, Timely
<1> QED  BY <1>2, <1>3 DEF KnownAt

LEMMA TurnEventKnown ==
    ASSUME Inv, Known, NEW s \in Sessions, NEW e \in {"agent", "notice"}, TurnEvent(s, e)
    PROVE  Known'
<1> DEFINE b == Emitted(s, Block(rec[s]), e)
<1>1. /\ writes = <<>> /\ e \in Events /\ turn[s] = "running" /\ DoIfKnown(s, b)
      /\ UNCHANGED <<up, live, stage, turn, handled, meta, epoch, carried, context, cut>>
  BY DEF TurnEvent, Runs, disk, knowledge, Events, Messages
<1>2. CASE rec[s] = None
  BY <1>1, <1>2, UnchangedKnown DEF DoIfKnown
<1>3. CASE rec[s] # None
  <2>1. /\ Fit(s, Block(rec[s])) /\ Plain(Block(rec[s])) /\ Block(rec[s]).rec = rec[s]
        /\ Bears(Block(rec[s]), rec[s].acp, rec[s].openTurn)
    BY <1>3, ThereIs, BlockBears
  <2>2. /\ Fit(s, b) /\ Plain(b) /\ Bears(b, rec[s].acp, rec[s].openTurn)
        /\ b.rec.openTurn = rec[s].openTurn
    BY <1>1, <2>1, EmittedFit, EmittedSame DEF Inv
  <2>3. Do(s, b)
    BY <1>1, <1>3 DEF DoIfKnown
  <2> HIDE DEF b
  <2>4. Around(s) /\ rec'[s] # None
    BY <1>1, <2>2, <2>3, DoLeaves DEF Around
  <2>5. TurnAt(s)' /\ ContextAt(s)'
    BY <1>1, <2>4 DEF TurnAt, ContextAt, Known, KnownAt
  <2>6. cut' = cut /\ carried'[s] = carried[s] /\ stage'[s] # "unborn" /\ turn'[s] = turn[s]
    BY <1>1, <1>3, ThereIs
  <2> QED  BY <1>1, <1>3, <2>2, <2>3, <2>4, <2>5, <2>6, SameKnown
<1> QED  BY <1>2, <1>3

LEMMA TurnEndsKnown ==
    ASSUME Inv, Known, NEW s \in Sessions, NEW failed \in BOOLEAN, TurnEnds(s, failed)
    PROVE  Known'
<1> DEFINE c == EmittedIf(failed, s, Block(rec[s]), "notice")
           b == Marked(s, c, "none")
<1>1. /\ writes = <<>> /\ turn[s] \in {"running", "cancelled"} /\ DoIfKnown(s, b)
      /\ UNCHANGED <<up, live, stage, meta, epoch, cut>>
      /\ turn' = [turn EXCEPT ![s] = "none"] /\ turn'[s] = "none" /\ handled' = handled \ {s}
      /\ <<s, "crash">> \notin cut
  BY DEF TurnEnds, Runs, disk, Known, KnownAt, MarkedAt, Inv, TypeOK, MemoryOK
<1>2. /\ rec[s] # None <=> rec'[s] # None
      /\ \A i \in DOMAIN writes' : writes'[i].session = s
      /\ \A z \in Sessions \ {s} : rec'[z] = rec[z]
      /\ IdAt(s)'
  <2>1. CASE rec[s] = None
    <3>1. UNCHANGED <<rec, writes>>
      BY <1>1, <2>1 DEF DoIfKnown
    <3>2. IdAt(s)'
      BY <1>1, <3>1 DEF IdAt, Timely, Known, KnownAt
    <3> QED  BY <1>1, <3>1, <3>2
  <2>2. CASE rec[s] # None
    <3>1. /\ Fit(s, Block(rec[s])) /\ Plain(Block(rec[s]))
          /\ Bears(Block(rec[s]), rec[s].acp, "none")
      BY <2>2, ThereIs, BlockBears
    <3>2. Fit(s, c) /\ Plain(c) /\ Bears(c, rec[s].acp, "none")
      BY <3>1, EmittedIfFit, EmittedIfSame DEF Inv, Events
    <3> HIDE DEF c
    <3>3. Fit(s, b) /\ Plain(b) /\ Bears(b, rec[s].acp, "none")
      BY <3>2, MarkedFit, MarkedSame
    <3>4. Do(s, b)
      BY <1>1, <2>2 DEF DoIfKnown
    <3> HIDE DEF b
    <3>5. /\ rec'[s] = b.rec /\ rec'[s] # None /\ writes' = b.out
          /\ \A i \in DOMAIN writes' : writes'[i].session = s
          /\ \A z \in Sessions \ {s} : rec'[z] = rec[z]
      BY <3>3, <3>4, DoLeaves
    <3>6. IdAt(s)'
      <4>1. CASE "crash" \in Faults
        BY <4>1 DEF IdAt
      <4>2. CASE "crash" \notin Faults
        <5>1. /\ rec[s].acp = None \/ rec[s].acp = epoch[s]
              /\ s \in live /\ stage[s] \notin {"starting", "resuming"} => rec[s].acp # None
          BY <2>2, <4>2, KnownId DEF Known, KnownAt, IdAt
        <5>2. meta'[s] = meta[s] /\ epoch' = epoch
              /\ (s \in live' /\ stage'[s] \notin {"starting", "resuming"} => rec[s].acp # None)
          BY <1>1, <5>1
        <5> QED  BY <1>1, <3>3, <3>5, <5>1, <5>2, PlainId
      <4> QED  BY <4>1, <4>2
    <3> QED  BY <2>2, <3>5, <3>6
  <2> QED  BY <2>1, <2>2
<1>3. Around(s)
  BY <1>1, <1>2 DEF TurnEnds, Around, Inv, TypeOK, MemoryOK, KnowledgeOK
<1>4. TurnAt(s)' /\ MarkedAt(s)'
  BY <1>1 DEF TurnAt, MarkedAt, Known, KnownAt
<1>5. ContextAt(s)'
  <2> SUFFICES ASSUME "prompt" \notin Faults, s \in live,
                      stage[s] \notin {"starting", "resuming"}
               PROVE  s \in context'
    BY <1>1 DEF ContextAt
  <2>1. ~failed
    BY DEF TurnEnds
  <2>2. s \in context \/ "context" \in carried[s]
    BY <1>1 DEF Known, KnownAt, ContextAt
  <2> QED  BY <2>1, <2>2 DEF TurnEnds
<1> QED  BY <1>2, <1>3, <1>4, <1>5, AroundKnown DEF KnownAt

LEMMA GiveUpKnown ==
    ASSUME Inv, Known, NEW s \in Sessions,
           NEW kind \in {"none", "stop", "delete", "revert"}, NEW at \in Nat,
           Runs, rec[s] # None, stage[s] \in {"free", "settling"}, GiveUp(s, kind, at)
    PROVE  Known'
<1> DEFINE r == Released(rec[s])
<1>1. /\ writes = <<>> /\ writes' = <<>> /\ turn[s] # "begun" /\ up # "down"
      /\ UNCHANGED <<up, turn, handled, meta, epoch, carried, cut>>
      /\ s \notin live' /\ stage'[s] = "closing"
      /\ \A z \in Sessions \ {s} :
            /\ UNCHANGED <<rec[z], stage[z]>>
            /\ z \in live' <=> z \in live
            /\ z \in context' <=> z \in context
  BY DEF GiveUp, Runs, disk, Inv, TypeOK, MemoryOK
<1>2. Around(s)
  BY <1>1 DEF Around
<1>3. TurnAt(s)' /\ ContextAt(s)'
  BY <1>1 DEF TurnAt, ContextAt, Known, KnownAt
<1>4. CASE kind = "delete"
  <2>1. rec'[s] = None
    BY <1>4 DEF GiveUp, Inv, TypeOK, MemoryOK
  <2>2. MarkedAt(s)' /\ IdAt(s)'
    BY <1>1, <2>1 DEF MarkedAt, MarkLeft, IdAt, Timely, Known, KnownAt
  <2> QED  BY <1>2, <1>3, <2>2, AroundKnown DEF KnownAt
<1>5. CASE kind # "delete"
  <2>1. rec[s] \in Records /\ SavedAt(s, rec[s])
    BY ThereIs
  <2>2. /\ r \in Records /\ SavedAt(s, r) /\ r.acp = rec[s].acp
        /\ r.openTurn = rec[s].openTurn
    BY <2>1 DEF Released, Records, SavedAt
  <2>3. rec' = [rec EXCEPT ![s] = r]
    BY <1>5 DEF GiveUp
  <2> HIDE DEF r
  <2>4. /\ Fit(s, Block(r)) /\ Plain(Block(r)) /\ Bears(Block(r), rec[s].acp, rec[s].openTurn)
        /\ Block(r).rec = r /\ Do(s, Block(r)) /\ Block(r).rec.openTurn = rec[s].openTurn
    BY <1>1, <2>2, <2>3, BlockFit, BlockBears DEF Do, Block
  <2>5. cut' = cut /\ carried'[s] = carried[s] /\ stage'[s] # "unborn" /\ turn'[s] = turn[s]
    BY <1>1
  <2> QED  BY <1>1, <1>2, <1>3, <2>4, <2>5, SameKnown
<1> QED  BY <1>4, <1>5

LEMMA SettleKnown ==
    ASSUME Inv, Known, NEW s \in Sessions, NEW kind, NEW at, Runs, up = "up", rec[s] # None,
           stage[s] = "free", s \in handled, Settle(s, kind, at)
    PROVE  Known'
<1> DEFINE b == Emitted(s, Block(rec[s]), "notice")
<1>1. /\ writes = <<>> /\ turn'[s] = "cancelled" /\ stage'[s] = "settling" /\ s \notin handled'
      /\ UNCHANGED <<up, live, meta, epoch, carried, context, cut>> /\ Do(s, b)
      /\ \A z \in Sessions \ {s} :
            UNCHANGED <<turn[z], stage[z]>> /\ (z \in handled' <=> z \in handled)
  BY DEF Settle, Runs, disk, knowledge, Inv, TypeOK, MemoryOK
<1>2. turn[s] = "running" \/ turn[s] = "cancelled"
  BY DEF Runs, Known, KnownAt, TurnAt, Inv, TypeOK, MemoryOK
<1>3. /\ Fit(s, Block(rec[s])) /\ Plain(Block(rec[s])) /\ Block(rec[s]).rec = rec[s]
      /\ Bears(Block(rec[s]), rec[s].acp, rec[s].openTurn)
  BY ThereIs, BlockBears
<1>4. /\ Fit(s, b) /\ Plain(b) /\ Bears(b, rec[s].acp, rec[s].openTurn)
      /\ b.rec.openTurn = rec[s].openTurn
  BY <1>3, EmittedFit, EmittedSame DEF Inv, Events
<1> HIDE DEF b
<1>5. Around(s) /\ rec'[s] # None
  BY <1>1, <1>4, DoLeaves DEF Around
<1>6. TurnAt(s)' /\ ContextAt(s)'
  BY <1>1, <1>2, <1>5 DEF TurnAt, ContextAt, Known, KnownAt
<1>7. /\ cut' = cut /\ carried'[s] = carried[s] /\ stage'[s] # "unborn"
      /\ turn'[s] = turn[s] \/ (turn[s] = "running" /\ turn'[s] = "cancelled")
  BY <1>1, <1>2
<1> QED  BY <1>1, <1>4, <1>5, <1>6, <1>7, SameKnown

LEMMA EndKnown ==
    ASSUME Inv, Known, NEW s \in Sessions,
           NEW kind \in {"none", "stop", "delete", "revert"}, NEW at \in Nat,
           End(s, kind, at)
    PROVE  Known'
BY GiveUpKnown, SettleKnown DEF End, Free

LEMMA StopKnown ==
    ASSUME Inv, Known, NEW s \in Sessions, Stop(s)
    PROVE  Known'
<1> DEFINE kind == IF Keeps(rec[s]) THEN "stop" ELSE "delete"
<1>1. kind \in {"none", "stop", "delete", "revert"} /\ End(s, kind, 0)
  BY DEF Stop
<1> HIDE DEF kind
<1> QED  BY <1>1, EndKnown

LEMMA RevertKnown ==
    ASSUME Inv, Known, NEW s \in Sessions, Revert(s)
    PROVE  Known'
<1>1. Loaded(s, rec[s]) \in Seq(Events)
  BY ThereIs, LoadedType DEF Revert, Free, Inv
<1>2. PICK i \in DOMAIN Loaded(s, rec[s]) : End(s, "revert", i - 1)
  BY DEF Revert
<1>3. i - 1 \in Nat
  BY <1>1
<1> QED  BY <1>2, <1>3, EndKnown

LEMMA SettledKnown ==
    ASSUME Inv, Known, NEW s \in Sessions, Settled(s)
    PROVE  Known'
<1>1. rec[s] # None
  BY DEF Settled, Inv, Present, PresentAt
<1>2. ending[s].kind \in {"none", "stop", "delete", "revert"} /\ ending[s].at \in Nat
  BY DEF Inv, TypeOK, MemoryOK
<1> QED  BY <1>1, <1>2, GiveUpKnown DEF Settled

\* A saved transcript is rewritten, and then the metadata, without an id.
LEMMA RewrittenBears ==
    ASSUME Inv, NEW s \in Sessions, rec[s] # None, rec[s].persisted,
           NEW kept \in Seq(Events)
    PROVE  LET c == [Block(Reverted(rec[s], kept)) EXCEPT !.out = <<Write("rewrite", s, kept)>>]
               b == Persisted(s, c)
           IN  /\ Fit(s, b) /\ Bears(b, None, rec[s].openTurn)
               /\ b.rec.openTurn = rec[s].openTurn
               /\ \E i \in DOMAIN b.out : b.out[i].kind = "meta" /\ b.out[i].session = s
<1> DEFINE r == Reverted(rec[s], kept)
           w == Write("rewrite", s, kept)
           v == Write("meta", s, Stored(r))
           c == [rec |-> r, out |-> <<w>>]
           b == Persisted(s, c)
<1>1. rec[s] \in Records /\ SavedAt(s, rec[s])
  BY ThereIs
<1>2. /\ r \in Records /\ SavedAt(s, r) /\ r.persisted /\ ~r.ephemeral
      /\ r.acp = None /\ r.openTurn = rec[s].openTurn
  BY <1>1 DEF Reverted, Records, SavedAt
<1>3. w \in DiskWrites /\ w.session = s /\ w.kind = "rewrite"
  BY DEF Write, DiskWrites
<1>4. [Block(r) EXCEPT !.out = <<w>>] = c
  BY DEF Block
<1>5. v.kind = "meta" /\ v.session = s
  BY DEF Write
<1>6. b = [rec |-> [r EXCEPT !.persisted = TRUE], out |-> Append(<<w>>, v)]
  BY <1>2 DEF Persisted, Keeps
<1> HIDE DEF r, w, v
<1>7. c \in Blocks /\ Fit(s, c) /\ Bears(c, None, rec[s].openTurn) /\ c.rec = r
  BY <1>2, <1>3 DEF Fit, Blocks, Bears
<1>8. /\ Fit(s, b) /\ Bears(b, None, rec[s].openTurn)
      /\ b.rec.openTurn = rec[s].openTurn
  BY <1>2, <1>7, PersistedFit, PersistedSame
<1>9. 2 \in DOMAIN Append(<<w>>, v) /\ Append(<<w>>, v)[2] = v
  OBVIOUS
<1> QED  BY <1>4, <1>5, <1>6, <1>8, <1>9 DEF r, w

LEMMA ClosedKnown ==
    ASSUME Inv, Known, NEW s \in Sessions, Closed(s)
    PROVE  Known'
<1> DEFINE kind == ending[s].kind
           kept == ending[s].kept
<1>1. /\ (rec[s] = None <=> kind = "delete") /\ writes = <<>> /\ turn[s] = "none" /\ up # "down"
      /\ UNCHANGED <<up, live, turn, handled, meta, epoch, carried, context, cut>>
      /\ s \notin live /\ stage[s] = "closing" /\ stage'[s] = "free"
      /\ \A z \in Sessions \ {s} : UNCHANGED stage[z]
  BY DEF Closed, Runs, disk, knowledge, Inv, Present, PresentAt, TypeOK, MemoryOK,
         Known, KnownAt, TurnAt
<1>2. kept \in Seq(Events)
  BY DEF Inv, TypeOK, MemoryOK
<1>3. TurnAt(s)' /\ ContextAt(s)'
  BY <1>1 DEF TurnAt, ContextAt, Known, KnownAt
<1>4. CASE kind = "delete" /\ writes' = Removal(s) /\ UNCHANGED rec
  <2>1. \A i \in DOMAIN writes' : writes'[i].session = s /\ writes'[i].kind \in {"delete", "removed"}
    BY <1>4 DEF Removal, Write
  <2>2. Around(s) /\ rec'[s] = None
    BY <1>1, <1>4, <2>1 DEF Around
  <2>3. MarkedAt(s)' /\ IdAt(s)'
    BY <1>1, <2>1, <2>2 DEF MarkedAt, MarkLeft, IdAt, Timely, Known, KnownAt
  <2> QED  BY <1>3, <2>2, <2>3, AroundKnown DEF KnownAt
<1>5. CASE kind = "stop" /\ Do(s, Persisted(s, Block(rec[s])))
  <2> DEFINE b == Persisted(s, Block(rec[s]))
  <2>1. /\ Fit(s, Block(rec[s])) /\ Plain(Block(rec[s])) /\ Block(rec[s]).rec = rec[s]
        /\ Bears(Block(rec[s]), rec[s].acp, rec[s].openTurn)
    BY <1>1, <1>5, ThereIs, BlockBears
  <2>2. /\ Fit(s, b) /\ Plain(b) /\ Bears(b, rec[s].acp, rec[s].openTurn)
        /\ b.rec.openTurn = rec[s].openTurn /\ Do(s, b)
    BY <1>5, <2>1, PersistedFit, PersistedSame
  <2> HIDE DEF b
  <2>3. Around(s) /\ rec[s] # None
    BY <1>1, <1>5, <2>2, DoLeaves DEF Around
  <2>4. cut' = cut /\ carried'[s] = carried[s] /\ stage'[s] # "unborn" /\ turn'[s] = turn[s]
    BY <1>1
  <2> QED  BY <1>1, <1>3, <2>2, <2>3, <2>4, SameKnown
<1>6. CASE /\ kind = "revert"
           /\ LET b == Block(Reverted(rec[s], kept)) IN
              Do(s, IF rec[s].persisted
                    THEN Persisted(s, [b EXCEPT !.out = <<Write("rewrite", s, kept)>>])
                    ELSE b)
  <2>1. rec[s] # None
    BY <1>1, <1>6
  <2>2. PICK b : /\ Fit(s, b) /\ Do(s, b) /\ Bears(b, None, rec[s].openTurn)
                 /\ b.rec.openTurn = rec[s].openTurn
                 /\ \/ Plain(b)
                    \/ \E i \in DOMAIN b.out : b.out[i].kind = "meta" /\ b.out[i].session = s
    <3>1. CASE rec[s].persisted
      BY <1>2, <1>6, <2>1, <3>1, RewrittenBears
    <3>2. CASE ~rec[s].persisted
      <4> DEFINE r == Reverted(rec[s], kept)
      <4>1. rec[s] \in Records /\ SavedAt(s, rec[s])
        BY <2>1, ThereIs
      <4>2. r \in Records /\ SavedAt(s, r) /\ r.acp = None /\ r.openTurn = rec[s].openTurn
        BY <1>2, <4>1 DEF Reverted, Records, SavedAt
      <4>3. Do(s, Block(r))
        BY <1>6, <3>2
      <4> HIDE DEF r
      <4>4. /\ Fit(s, Block(r)) /\ Bears(Block(r), None, rec[s].openTurn)
            /\ Block(r).rec.openTurn = rec[s].openTurn /\ Plain(Block(r))
        BY <4>2, BlockFit, BlockBears
      <4> QED  BY <4>3, <4>4
    <3> QED  BY <3>1, <3>2
  <2>3. /\ rec'[s] = b.rec /\ rec'[s] # None /\ writes' = b.out
        /\ \A i \in DOMAIN writes' : writes'[i].session = s
        /\ \A z \in Sessions \ {s} : rec'[z] = rec[z]
    BY <2>2, DoLeaves
  <2>4. Around(s)
    BY <1>1, <2>3 DEF Around
  <2>5. MarkedAt(s)'
    <3>1. meta'[s] = meta[s] /\ cut' = cut /\ carried'[s] = carried[s] /\ stage'[s] # "unborn"
          /\ turn'[s] = turn[s]
      BY <1>1
    <3> QED  BY <1>1, <2>1, <2>2, <2>3, <3>1, SameMarked
  <2>6. IdAt(s)'
    <3>1. CASE Plain(b)
      BY <1>1, <2>2, <2>3, <3>1, PlainId
    <3>2. CASE \E i \in DOMAIN b.out : b.out[i].kind = "meta" /\ b.out[i].session = s
      <4>1. rec'[s].acp = None /\ \A i \in DOMAIN writes' : writes'[i].kind = "meta" => writes'[i].value.acp = None
        BY <2>2, <2>3 DEF Bears
      <4>2. \E i \in DOMAIN writes' : writes'[i].session = s /\ writes'[i].kind = "meta"
        BY <2>3, <3>2
      <4> QED  BY <1>1, <4>1, <4>2 DEF IdAt, Timely
    <3> QED  BY <2>2, <3>1, <3>2
  <2> QED  BY <1>3, <2>4, <2>5, <2>6, AroundKnown DEF KnownAt
<1> QED  BY <1>4, <1>5, <1>6 DEF Closed

LEMMA RenameKnown ==
    ASSUME Inv, Known, NEW s \in Sessions, Rename(s)
    PROVE  Known'
<1> DEFINE r == [rec[s] EXCEPT !.named = TRUE]
           b == Persisted(s, Block(r))
<1>1. /\ rec[s] # None /\ writes = <<>> /\ stage[s] = "free" /\ Do(s, b)
      /\ UNCHANGED <<up, live, stage, turn, handled, meta, epoch, carried, context, cut>>
  BY DEF Rename, Free, Runs, disk, knowledge
<1>2. /\ r \in Records /\ SavedAt(s, r) /\ r.acp = rec[s].acp /\ r.openTurn = rec[s].openTurn
      /\ r.pending = rec[s].pending
  BY <1>1, ThereIs DEF Records, SavedAt
<1> HIDE DEF r
<1>3. /\ Fit(s, Block(r)) /\ Plain(Block(r)) /\ Bears(Block(r), rec[s].acp, rec[s].openTurn)
      /\ Block(r).rec = r
  BY <1>2, BlockFit, BlockBears
<1>4. /\ Fit(s, b) /\ Plain(b) /\ Bears(b, rec[s].acp, rec[s].openTurn)
      /\ b.rec.openTurn = rec[s].openTurn /\ b.rec.pending = rec[s].pending
  BY <1>2, <1>3, PersistedFit, PersistedSame DEF Same
<1> HIDE DEF b
<1>5. Around(s) /\ rec'[s] # None /\ rec'[s].pending = rec[s].pending
  BY <1>1, <1>4, DoLeaves DEF Around
<1>6. TurnAt(s)' /\ ContextAt(s)'
  BY <1>1, <1>5 DEF TurnAt, ContextAt, Known, KnownAt
<1>7. cut' = cut /\ carried'[s] = carried[s] /\ stage'[s] # "unborn" /\ turn'[s] = turn[s]
  BY <1>1
<1> QED  BY <1>1, <1>4, <1>5, <1>6, <1>7, SameKnown

LEMMA ReadTranscriptKnown ==
    ASSUME Inv, Known, NEW s \in Sessions, ReadTranscript(s)
    PROVE  Known'
<1> DEFINE r == Read(s, rec[s])
<1>1. /\ rec[s] # None /\ writes = <<>> /\ writes' = <<>> /\ rec' = [rec EXCEPT ![s] = r]
      /\ UNCHANGED <<up, live, stage, turn, handled, meta, epoch, carried, context, cut>>
      /\ stage[s] # "unborn"
  BY ThereIs DEF ReadTranscript, Runs, disk, knowledge
<1>2. /\ r \in Records /\ SavedAt(s, r) /\ r.acp = rec[s].acp /\ r.openTurn = rec[s].openTurn
      /\ r.pending = rec[s].pending
  <2>1. rec[s] \in Records /\ SavedAt(s, rec[s])
    BY <1>1, ThereIs
  <2>2. r \in Records /\ SavedAt(s, r)
    BY <2>1, ReadType DEF SavedAt, Inv
  <2> QED  BY <2>1, <2>2 DEF Read, Records
<1> HIDE DEF r
<1>3. /\ Fit(s, Block(r)) /\ Plain(Block(r)) /\ Bears(Block(r), rec[s].acp, rec[s].openTurn)
      /\ Block(r).rec = r /\ Do(s, Block(r)) /\ Block(r).rec.openTurn = rec[s].openTurn
  BY <1>1, <1>2, BlockFit, BlockBears DEF Do, Block
<1>4. Around(s) /\ rec'[s] = r
  BY <1>1, <1>3, DoLeaves DEF Around
<1>5. TurnAt(s)' /\ ContextAt(s)'
  <2>1. rec'[s] # None
    BY <1>3, DoLeaves
  <2> QED  BY <1>1, <1>2, <1>4, <2>1 DEF TurnAt, ContextAt, Known, KnownAt
<1>6. cut' = cut /\ carried'[s] = carried[s] /\ stage'[s] # "unborn" /\ turn'[s] = turn[s]
  BY <1>1
<1> QED  BY <1>1, <1>3, <1>4, <1>5, <1>6, SameKnown

LEMMA ForkKnown ==
    ASSUME Inv, Known, NEW s \in Sessions, NEW n \in Sessions, Fork(s, n)
    PROVE  Known'
<1>1. /\ rec[s] # None /\ Nothing(n) /\ n # s /\ writes = <<>> /\ up = "up"
      /\ stage[n] = "unborn" /\ n \notin live /\ turn[n] = "none" /\ n \notin handled
      /\ <<n, "crash">> \notin cut
      /\ UNCHANGED <<up, live, turn, handled, meta, epoch, carried, context, cut>>
      /\ stage'[n] = "free" /\ \A z \in Sessions \ {n} : stage'[z] = stage[z]
  BY DEF Fork, Free, Runs, disk, knowledge, Inv, Present, PresentAt, Nowhere, Nothing,
         TypeOK, MemoryOK, Known, KnownAt, TurnAt, MarkedAt
<1>2. PICK r \in Records :
         /\ r.acp = None /\ r.openTurn = "none"
         /\ rec' = [rec EXCEPT ![s] = Read(s, rec[s]), ![n] = r]
         /\ writes' = <<Write("meta", n, Stored(r)), Write("rewrite", n, r.transcript)>>
  BY ForkLeaves
<1>3. rec[s] \in Records /\ Read(s, rec[s]) \in Records
  BY <1>1, ThereIs, ReadType DEF Inv
<1>4. /\ Read(s, rec[s]).acp = rec[s].acp /\ Read(s, rec[s]).openTurn = rec[s].openTurn
      /\ Read(s, rec[s]).pending = rec[s].pending
  BY <1>3 DEF Read, Records
<1>5. /\ \A i \in DOMAIN writes' :
            /\ writes'[i].session = n
            /\ writes'[i].kind = "meta" => writes'[i].value.acp = None
      /\ rec'[n].acp = None
  BY <1>1, <1>2 DEF Write, Stored, Inv, TypeOK, MemoryOK
<1>6. ASSUME NEW z \in Sessions, z # n
      PROVE  /\ rec'[z] = None <=> rec[z] = None
             /\ rec[z] # None => /\ rec'[z].acp = rec[z].acp
                                 /\ rec'[z].openTurn = rec[z].openTurn
                                 /\ rec'[z].pending = rec[z].pending
  <2>1. CASE z = s
    BY <1>1, <1>2, <1>3, <1>4, <2>1, NoneAssumption DEF Inv, TypeOK, MemoryOK
  <2>2. CASE z # s
    BY <1>2, <1>6, <2>2 DEF Inv, TypeOK, MemoryOK
  <2> QED  BY <2>1, <2>2
<1>7. KnownAt(n)'
  <2>1. TurnAt(n)' /\ MarkedAt(n)' /\ ContextAt(n)'
    BY <1>1 DEF TurnAt, MarkedAt, ContextAt
  <2>2. IdAt(n)'
    BY <1>1, <1>5 DEF IdAt, Timely, Nothing
  <2> QED  BY <2>1, <2>2 DEF KnownAt
<1>8. ASSUME NEW z \in Sessions, z # n PROVE KnownAt(z)'
  <2>1. KnownAt(z)
    BY DEF Known
  <2>2. TurnAt(z)'
    BY <1>1, <1>6, <1>8, <2>1 DEF KnownAt, TurnAt
  <2>3. MarkLeft(z) => MarkLeft(z)'
    BY <1>1, <1>5, <1>8 DEF MarkLeft
  <2>4. MarkedAt(z)'
    BY <1>1, <1>6, <1>8, <2>1, <2>3 DEF KnownAt, MarkedAt
  <2>5. ContextAt(z)'
    <3>1. z \in live => rec[z] # None
      BY DEF Inv, Present, PresentAt
    <3> QED  BY <1>1, <1>6, <1>8, <2>1, <3>1 DEF KnownAt, ContextAt
  <2>6. IdAt(z)'
    <3>1. z \in live => rec[z] # None
      BY DEF Inv, Present, PresentAt
    <3>2. \A x : Timely(z, x) => Timely(z, x)'
      BY <1>1, <1>5, <1>8 DEF Timely
    <3> QED  BY <1>1, <1>5, <1>6, <1>8, <2>1, <3>1, <3>2 DEF KnownAt, IdAt
  <2> QED  BY <2>2, <2>4, <2>5, <2>6 DEF KnownAt
<1> QED  BY <1>7, <1>8 DEF Known

LEMMA FlushKnown ==
    ASSUME Inv, Known, Flush
    PROVE  Known'
<1> DEFINE w == Head(writes)
           s == w.session
<1>1. /\ w = writes[1] /\ 1 \in DOMAIN writes /\ s \in Sessions
      /\ \A i \in DOMAIN writes' : i + 1 \in DOMAIN writes /\ writes'[i] = writes[i + 1]
      /\ \A i \in DOMAIN writes : i # 1 => i - 1 \in DOMAIN writes' /\ writes'[i - 1] = writes[i]
  <2>1. writes \in Seq(DiskWrites) /\ writes # <<>> /\ writes' = Tail(writes)
    BY DEF Flush, Inv, TypeOK, DiskOK
  <2>2. w \in DiskWrites /\ w = writes[1]
    BY <2>1
  <2>3. s \in Sessions
    BY <2>2 DEF DiskWrites
  <2>4. ASSUME NEW i \in DOMAIN writes, i # 1
        PROVE  i - 1 \in DOMAIN writes' /\ writes'[i - 1] = writes[i]
    BY <2>1, <2>4
  <2> QED  BY <2>1, <2>2, <2>3, <2>4
<1>2. /\ UNCHANGED <<up, rec, live, stage, turn, handled, carried, context, cut>>
      /\ \A z \in Sessions : meta'[z] = IF w.kind = "meta" /\ z = s THEN w.value
                                        ELSE IF w.kind = "delete" /\ z = s THEN None
                                        ELSE meta[z]
      /\ \A z \in Sessions : ~(w.kind = "rewrite" /\ z = s) => epoch'[z] = epoch[z]
  BY <1>1 DEF Flush, memory, knowledge, Inv, TypeOK, DiskOK
<1> HIDE DEF w, s
<1> SUFFICES ASSUME NEW z \in Sessions PROVE KnownAt(z)'
  BY DEF Known
<1>3. KnownAt(z)
  BY DEF Known
<1>4. MarkLeft(z) => MarkLeft(z)'
  BY <1>1, <1>2 DEF MarkLeft, s
<1>5. TurnAt(z)' /\ MarkedAt(z)' /\ ContextAt(z)'
  BY <1>2, <1>3, <1>4 DEF KnownAt, TurnAt, MarkedAt, ContextAt
<1>6. \A x : Timely(z, x) => Timely(z, x)'
  <2> SUFFICES ASSUME NEW x, Timely(z, x), x # None PROVE Timely(z, x)'
    BY DEF Timely
  <2>1. ~(w.kind = "rewrite" /\ z = s)
    BY <1>1 DEF Timely, s
  <2> QED  BY <1>1, <1>2, <2>1 DEF Timely
<1>7. IdAt(z)'
  <2> SUFFICES ASSUME "crash" \notin Faults PROVE IdAt(z)'
    BY DEF IdAt
  <2>1. /\ rec[z] # None => Timely(z, rec[z].acp)
        /\ \A i \in DOMAIN writes :
              writes[i].session = z /\ writes[i].kind = "meta" => Timely(z, writes[i].value.acp)
        /\ z \in live /\ stage[z] \notin {"starting", "resuming"} => rec[z].acp # None
    BY <1>3 DEF KnownAt, IdAt
  <2>2. (\A i \in DOMAIN writes :
            writes[i].session = z /\ writes[i].kind = "meta" => Timely(z, writes[i].value.acp))'
    BY <1>1, <1>6, <2>1
  <2>3. (meta[z] # None => \/ Timely(z, meta[z].acp)
                           \/ \E i \in DOMAIN writes :
                                 writes[i].session = z /\ writes[i].kind = "meta")'
    <3>1. CASE w.kind = "meta" /\ z = s
      <4>1. Timely(z, w.value.acp)
        BY <1>1, <2>1, <3>1 DEF s
      <4> QED  BY <1>2, <1>6, <3>1, <4>1
    <3>2. CASE ~(w.kind = "meta" /\ z = s) /\ meta'[z] # None
      <4>1. meta'[z] = meta[z]
        BY <1>2, <3>2
      <4>2. CASE Timely(z, meta[z].acp)
        BY <1>6, <4>1, <4>2
      <4>3. CASE \E i \in DOMAIN writes : writes[i].session = z /\ writes[i].kind = "meta"
        <5>1. PICK i \in DOMAIN writes : writes[i].session = z /\ writes[i].kind = "meta"
          BY <4>3
        <5>2. i # 1
          BY <1>1, <3>2, <5>1 DEF s
        <5> QED  BY <1>1, <5>1, <5>2
      <4> QED  BY <1>3, <3>2, <4>1, <4>2, <4>3 DEF KnownAt, IdAt
    <3> QED  BY <3>1, <3>2
  <2> QED  BY <1>2, <1>6, <2>1, <2>2, <2>3 DEF IdAt
<1> QED  BY <1>5, <1>7 DEF KnownAt

\* The turns that a crash cuts off have left their marks.
LEMMA CrashKnown ==
    ASSUME Inv, Known, Crash
    PROVE  Known'
<1> SUFFICES ASSUME NEW s \in Sessions PROVE KnownAt(s)'
  BY DEF Known
<1>1. TurnAt(s) /\ MarkedAt(s)
  BY DEF Known, KnownAt
<1>2. /\ up' = "down" /\ rec'[s] = None /\ live' = {} /\ handled' = {} /\ writes' = <<>>
      /\ turn'[s] = "none" /\ stage'[s] = IF stage[s] = "unborn" THEN "unborn" ELSE "free"
      /\ cut' = cut \cup CutOff("crash") /\ "crash" \in Faults
  BY DEF Crash, Forgotten
<1>3. meta'[s] # None => meta'[s] = meta[s]
  BY DEF Crash, Killed, Inv, TypeOK, DiskOK
<1>4. <<s, "crash">> \in cut' => stage[s] # "unborn" /\ MarkLeft(s)
  <2>1. <<s, "crash">> \in CutOff("crash") => turn[s] = "running" /\ rec[s] # None
    BY DEF CutOff
  <2> QED  BY <1>1, <1>2, <2>1, ThereIs DEF MarkedAt
<1>5. TurnAt(s)' /\ ContextAt(s)' /\ IdAt(s)'
  BY <1>2 DEF TurnAt, ContextAt, IdAt
<1>6. MarkedAt(s)'
  BY <1>2, <1>3, <1>4 DEF MarkedAt, MarkLeft
<1> QED  BY <1>5, <1>6 DEF KnownAt

LEMMA ExitKnown ==
    ASSUME Inv, Known, Exit
    PROVE  Known'
<1> SUFFICES ASSUME NEW s \in Sessions PROVE KnownAt(s)'
  BY DEF Known
<1>1. TurnAt(s) /\ MarkedAt(s) /\ IdAt(s)
  BY DEF Known, KnownAt
<1>2. /\ up' = "down" /\ rec'[s] = None /\ live' = {} /\ handled' = {}
      /\ writes = <<>> /\ writes' = <<>> /\ UNCHANGED <<meta, cut, epoch>>
      /\ turn'[s] = "none" /\ stage'[s] = IF stage[s] = "unborn" THEN "unborn" ELSE "free"
  BY DEF Exit, Forgotten, Runs
<1>3. TurnAt(s)' /\ ContextAt(s)'
  BY <1>2 DEF TurnAt, ContextAt
<1>4. MarkedAt(s)'
  BY <1>1, <1>2 DEF MarkedAt, MarkLeft
<1>5. IdAt(s)'
  BY <1>1, <1>2 DEF IdAt, Timely
<1> QED  BY <1>3, <1>4, <1>5 DEF KnownAt

LEMMA ShutdownKnown ==
    ASSUME Known, Shutdown
    PROVE  Known'
<1> SUFFICES ASSUME NEW s \in Sessions PROVE KnownAt(s)'
  BY DEF Known
<1>1. KnownAt(s)
  BY DEF Known
<1>2. /\ up' = "stopping" /\ live' = {} /\ up = "up"
      /\ UNCHANGED <<rec, stage, turn, handled, meta, epoch, writes, carried>>
      /\ <<s, "crash">> \in cut' <=> <<s, "crash">> \in cut
  BY DEF Shutdown, disk, CutOff
<1>3. TurnAt(s)' /\ MarkedAt(s)' /\ ContextAt(s)'
  BY <1>1, <1>2 DEF KnownAt, TurnAt, MarkedAt, MarkLeft, ContextAt
<1>4. IdAt(s)'
  BY <1>1, <1>2 DEF KnownAt, IdAt, Timely
<1> QED  BY <1>3, <1>4 DEF KnownAt

\* A mark on disk is a turn that the session is owed the news of.
LEMMA RestartKnown ==
    ASSUME Inv, Known, Restart
    PROVE  Known'
<1> SUFFICES ASSUME NEW s \in Sessions PROVE KnownAt(s)'
  BY DEF Known
<1>1. TurnAt(s) /\ MarkedAt(s) /\ IdAt(s)
  BY DEF Known, KnownAt
<1>2. /\ up = "down" /\ up' = "up" /\ live = {} /\ writes = <<>>
      /\ rec'[s] = IF meta[s] = None THEN None ELSE Restored(meta[s])
      /\ UNCHANGED <<live, stage, turn, handled, meta, epoch, writes, carried, cut>>
  BY DEF Restart, Inv, AtRest, disk, knowledge
<1>3. turn[s] = "none" /\ s \notin handled
  BY <1>1, <1>2 DEF TurnAt
<1>4. rec'[s] # None => /\ meta[s] # None /\ rec'[s].acp = meta[s].acp
                        /\ meta[s].turnOpen => rec'[s].openTurn = "owed"
  BY <1>2 DEF Restored
<1>5. TurnAt(s)' /\ ContextAt(s)'
  BY <1>2, <1>3 DEF TurnAt, ContextAt
<1>6. MarkedAt(s)'
  BY <1>1, <1>2, <1>3, <1>4 DEF MarkedAt, MarkLeft
<1>7. IdAt(s)'
  BY <1>1, <1>2, <1>4 DEF IdAt, Timely
<1> QED  BY <1>5, <1>6, <1>7 DEF KnownAt

LEMMA InitKnown == Init => Known
<1> SUFFICES ASSUME Init, NEW s \in Sessions PROVE KnownAt(s)
  BY DEF Known
<1>1. TurnAt(s) /\ MarkedAt(s) /\ ContextAt(s)
  BY DEF Init, TurnAt, MarkedAt, ContextAt
<1>2. IdAt(s)
  BY DEF Init, IdAt, Timely
<1> QED  BY <1>1, <1>2 DEF KnownAt

LEMMA NextKnown == Inv /\ Inv' /\ OnDisk /\ Known /\ [Next]_vars => Known'
<1> SUFFICES ASSUME Inv, Inv', OnDisk, Known, [Next]_vars PROVE Known'
  OBVIOUS
<1>1. CASE UNCHANGED vars
  BY <1>1, UnchangedKnown DEF vars, memory, disk, knowledge
<1>2. ASSUME NEW s \in Sessions,
             \/ \E named, ephemeral \in BOOLEAN : Create(s, named, ephemeral)
             \/ \E warned \in BOOLEAN : Started(s, warned)
             \/ StartFails(s)
             \/ Resume(s) \/ Waits(s) \/ ResumeFails(s)
             \/ \E loaded, warned \in BOOLEAN : Resumed(s, loaded, warned)
      PROVE  Known'
  BY <1>2, CreateKnown, StartedKnown, StartFailsKnown, ResumeKnown, WaitsKnown,
     ResumeFailsKnown, ResumedKnown
<1>3. ASSUME NEW s \in Sessions,
             \/ BeginTurn(s) \/ Refused(s) \/ Prompt(s)
             \/ \E e \in {"agent", "notice"} : TurnEvent(s, e)
             \/ \E failed \in BOOLEAN : TurnEnds(s, failed)
      PROVE  Known'
  BY <1>3, BeginTurnKnown, RefusedKnown, PromptKnown, TurnEventKnown, TurnEndsKnown
<1>4. ASSUME NEW s \in Sessions,
             \/ Stop(s) \/ Delete(s) \/ Revert(s) \/ Settled(s) \/ Closed(s)
      PROVE  Known'
  <2>1. Delete(s) => End(s, "delete", 0)
    BY DEF Delete
  <2> QED  BY <1>4, <2>1, StopKnown, EndKnown, RevertKnown, SettledKnown, ClosedKnown
<1>5. ASSUME NEW s \in Sessions,
             Rename(s) \/ ReadTranscript(s) \/ \E n \in Sessions : Fork(s, n)
      PROVE  Known'
  BY <1>5, RenameKnown, ReadTranscriptKnown, ForkKnown
<1>6. CASE Flush \/ Crash \/ Shutdown \/ Exit \/ Restart
  BY <1>6, FlushKnown, CrashKnown, ShutdownKnown, ExitKnown, RestartKnown
<1> QED  BY <1>1, <1>2, <1>3, <1>4, <1>5, <1>6 DEF Next

LEMMA KnownHolds == Spec => [](Inv /\ Known)
<1>1. Init => Inv /\ OnDisk /\ Known
  BY InitInv, InitOnDisk, InitKnown
<1>2. Inv /\ OnDisk /\ Known /\ [Next]_vars => Inv' /\ OnDisk' /\ Known'
  BY NextInv, NextOnDisk, NextKnown
<1> QED  BY <1>1, <1>2, PTL DEF Spec

\* A turn that a crash cut off is reported to its session before anything else
\* is sent to it, wherever the daemon died and however often it dies again.
THEOREM InterruptedTold == Spec => []InterruptedIsTold
<1>1. Known => InterruptedIsTold
  BY DEF Known, KnownAt, MarkedAt, InterruptedIsTold
<1> QED  BY <1>1, KnownHolds, PTL

\* No prompt goes to an agent that does not know the conversation and is not
\* told it, as long as no prompt fails while its agent lives.
THEOREM ConversationKnown ==
    ASSUME "prompt" \notin Faults
    PROVE  Spec => []AgentKnowsConversation
<1>1. Inv /\ Known => AgentKnowsConversation
  <2> SUFFICES ASSUME Inv, Known, NEW s \in live, turn[s] = "running"
               PROVE  s \in context \/ "context" \in carried[s]
    BY DEF AgentKnowsConversation
  <2>1. s \in Sessions
    BY DEF Inv, TypeOK, MemoryOK
  <2> QED  BY <2>1 DEF Known, KnownAt, TurnAt, ContextAt
<1> QED  BY <1>1, KnownHolds, PTL

\* A live session goes on with the history its transcript has, not with one
\* that a revert has rewritten, as long as nothing kills the daemon.
THEOREM HistoryCurrent ==
    ASSUME "crash" \notin Faults
    PROVE  Spec => []HistoryIsCurrent
<1>1. Inv /\ Known => HistoryIsCurrent
  <2> SUFFICES ASSUME Inv, Known, NEW s \in live, stage[s] = "free"
               PROVE  rec[s].acp = epoch[s]
    BY DEF HistoryIsCurrent
  <2>1. s \in Sessions /\ rec[s] # None
    BY DEF Inv, TypeOK, MemoryOK, Present, PresentAt
  <2> QED  BY <2>1 DEF Known, KnownAt, IdAt, Timely
<1> QED  BY <1>1, KnownHolds, PTL

=============================================================================
