--------------------------- MODULE CatalogProofs ---------------------------
(***************************************************************************)
(* What persist makes durable, for any hashes and inodes and any number of *)
(* goroutines whose persists nothing keeps from clashing.  A persist that  *)
(* meets no other saves what it took; one that meets another may lose the  *)
(* other's mutations, or leave a file that cannot be read.                 *)
(***************************************************************************)
EXTENDS Catalog, TLAPS

\* A writer has an inode open while it writes, no other time; the temporary file is never the
\* catalog.
OpenOK ==
  /\ \A w \in Writer : /\ writer[w].pc = "write" => writer[w].ino \in Inode
                       /\ writer[w].pc # "write" => writer[w].ino = None
  /\ tmp # None => tmp # file

\* A persist that has met no other is the only one: the temporary file is its own, unreadable until
\* the write is done and what it took from then on.
LoneOK ==
  /\ ~clash => \A w \in Persisting : w = lone
  /\ lone # None =>
       /\ lone \in Persisting /\ \A w \in Persisting : w = lone
       /\ writer[lone].snap = taken
       /\ writer[lone].pc = "write" => tmp # None /\ writer[lone].ino = tmp /\ ~content[tmp].json
       /\ writer[lone].pc = "rename" => tmp # None /\ content[tmp] = Whole(taken)

\* Somebody is about to save what the file does not have.
Coming == \E w \in Writer : writer[w].pc = "snapshot"
PendingOK ==
  /\ lone # None /\ taken # entries => Coming
  /\ ~clash /\ ~failed /\ saved # entries => Coming \/ lone # None

\* Unless persists have clashed, the file is what was last saved.
SavedOK == ~clash => OnDisk = saved

\* An untouched hash is everywhere what it was when last saved: in memory, in every snapshot, and in
\* what the catalog and a temporary file in use hold.
Keeps(list) == \A h \in Hash \ touched : list[h] = saved[h]
UntouchedOK ==
  /\ Keeps(entries)
  /\ \A w \in Persisting : Keeps(writer[w].snap)
  /\ file # None /\ content[file].json => Keeps(content[file].list)
  /\ tmp # None /\ content[tmp].json /\ (\E w \in Writer : writer[w].pc \in {"write", "rename"})
       => Keeps(content[tmp].list)

\* The inductive invariant.
CatalogInv == TypeOK /\ OpenOK /\ LoneOK /\ PendingOK /\ SavedOK /\ UntouchedOK

-----------------------------------------------------------------------------
(* Types *)

LEMMA Blanks ==
  /\ NoEntry \in Entry
  /\ Nothing \in [Hash -> Entry]
  /\ Garbled \in ContentRec
  /\ Idle \in WriterRec
BY CatalogAssumption DEF NoEntry, Entry, Nothing, Garbled, Idle, WriterRec, ContentRec

LEMMA WholeType ==
  ASSUME NEW e \in [Hash -> Entry]
  PROVE  Whole(e) \in ContentRec
BY DEF Whole, ContentRec

\* What a restart loads is a catalog.
LEMMA OnDiskType ==
  TypeOK => OnDisk \in [Hash -> Entry]
BY Blanks DEF TypeOK, OnDisk, Readable, ContentRec

\* Every mutation stores an entry.
LEMMA MutateCases ==
  ASSUME TypeOK, NEW w \in Writer, NEW h \in Hash,
         \/ Remove(w, h)
         \/ \E m \in Modes : Upsert(w, h, m)
         \/ \E b \in Pins : SetPinned(w, h, b)
  PROVE  \E e \in Entry : Mutate(w, h, e)
<1>1. entries[h] \in Entry
  BY DEF TypeOK
<1>2. CASE Remove(w, h)
  BY <1>2, Blanks DEF Remove
<1>3. CASE \E m \in Modes : Upsert(w, h, m)
  <2>1. PICK m \in Modes : Upsert(w, h, m)
    BY <1>3
  <2>2. [known |-> TRUE, pinned |-> entries[h].pinned,
         mode |-> IF m = "" THEN entries[h].mode ELSE m] \in Entry
    BY <1>1 DEF Entry
  <2> QED BY <2>1, <2>2 DEF Upsert
<1>4. CASE \E b \in Pins : SetPinned(w, h, b)
  <2>1. PICK b \in Pins : SetPinned(w, h, b)
    BY <1>4
  <2>2. [entries[h] EXCEPT !.known = TRUE, !.pinned = b] \in Entry
    BY <1>1, CatalogAssumption DEF Entry
  <2> QED BY <2>1, <2>2 DEF SetPinned
<1> QED BY <1>2, <1>3, <1>4

-----------------------------------------------------------------------------
(* Steps *)

\* A mutation touches its hash, and its writer is on its way to save it.
LEMMA MutateStep ==
  ASSUME CatalogInv, NEW w \in Writer, NEW h \in Hash, NEW e \in Entry, Mutate(w, h, e)
  PROVE  CatalogInv'
<1> USE DEF CatalogInv
<1>1. /\ writer[w].pc = "idle" /\ writer'[w].pc = "snapshot" /\ writer'[w].ino = writer[w].ino
      /\ writer' \in [Writer -> WriterRec] /\ \A v \in Writer \ {w} : writer'[v] = writer[v]
  <2>1. [writer[w] EXCEPT !.pc = "snapshot"] \in WriterRec
    BY DEF TypeOK, WriterRec
  <2>2. writer' = [writer EXCEPT ![w] = [writer[w] EXCEPT !.pc = "snapshot"]]
    BY DEF Mutate, TypeOK
  <2> QED BY <2>1, <2>2 DEF Mutate, TypeOK, WriterRec
<1>2. /\ UNCHANGED <<content, tmp, file, lone, taken, saved, clash, failed>>
      /\ touched' = touched \cup {h} /\ entries' \in [Hash -> Entry]
      /\ \A g \in Hash \ {h} : entries'[g] = entries[g]
  BY DEF Mutate, TypeOK, fsVars, loneVars
<1>3. Persisting' = Persisting /\ Coming' /\ OnDisk' = OnDisk
      /\ \A v \in Persisting : writer'[v] = writer[v] /\ v \in Writer
  BY <1>1, <1>2 DEF Persisting, Coming, OnDisk, Readable
<1>4. TypeOK'
  BY <1>1, <1>2 DEF TypeOK
<1>5. OpenOK'
  BY <1>1, <1>2 DEF OpenOK
<1>6. LoneOK'
  BY <1>2, <1>3 DEF LoneOK
<1>7. PendingOK' /\ SavedOK'
  BY <1>2, <1>3 DEF PendingOK, SavedOK
<1>8. UntouchedOK'
  <2>1. ASSUME NEW list, Keeps(list)
        PROVE  Keeps(list)'
    BY <1>2, <2>1 DEF Keeps
  <2>2. Keeps(entries)'
    BY <1>2 DEF UntouchedOK, Keeps
  <2>3. (\E v \in Writer : writer'[v].pc \in {"write", "rename"})
          => \E v \in Writer : writer[v].pc \in {"write", "rename"}
    BY <1>1
  <2> QED BY <1>2, <1>3, <2>2, <2>3 DEF UntouchedOK, Keeps
<1> QED BY <1>4, <1>5, <1>6, <1>7, <1>8

\* A snapshot is taken of what memory holds, alone or beside others.
LEMMA SnapshotStep ==
  ASSUME CatalogInv, NEW w \in Writer, Snapshot(w)
  PROVE  CatalogInv'
<1> USE DEF CatalogInv
<1>1. /\ writer[w].pc = "snapshot" /\ writer'[w].pc = "open" /\ writer'[w].snap = entries
      /\ writer'[w].ino = writer[w].ino
      /\ writer' \in [Writer -> WriterRec] /\ \A v \in Writer \ {w} : writer'[v] = writer[v]
  <2>1. [writer[w] EXCEPT !.pc = "open", !.snap = entries] \in WriterRec
    BY DEF TypeOK, WriterRec
  <2>2. writer' = [writer EXCEPT ![w] = [writer[w] EXCEPT !.pc = "open", !.snap = entries]]
    BY DEF Snapshot, TypeOK
  <2> QED BY <2>1, <2>2 DEF Snapshot, TypeOK, WriterRec
<1>2. UNCHANGED <<entries, content, tmp, file, saved, touched, failed>>
  BY DEF Snapshot, Starts, fsVars
<1>3. Persisting' = Persisting \cup {w} /\ w \notin Persisting /\ OnDisk' = OnDisk
  BY <1>1, <1>2 DEF Persisting, OnDisk, Readable
<1>4. IF Persisting = {} THEN lone' = w /\ taken' = entries /\ clash' = clash
                         ELSE lone' = None /\ taken' = Nothing /\ clash' = TRUE
  BY DEF Snapshot, Starts, TypeOK
<1>5. TypeOK'
  BY <1>1, <1>2, <1>4, Blanks DEF TypeOK
<1>6. OpenOK'
  BY <1>1, <1>2 DEF OpenOK
<1>7. LoneOK'
  BY <1>1, <1>3, <1>4 DEF LoneOK
<1>8. PendingOK'
  BY <1>2, <1>4, CatalogAssumption DEF PendingOK
<1>9. SavedOK'
  BY <1>2, <1>3, <1>4 DEF SavedOK
<1>10. UntouchedOK'
  <2>1. (\E v \in Writer : writer'[v].pc \in {"write", "rename"})
          => \E v \in Writer : writer[v].pc \in {"write", "rename"}
    BY <1>1
  <2>2. \A v \in Persisting' : Keeps(writer'[v].snap)
    BY <1>1, <1>3 DEF UntouchedOK, Persisting
  <2> QED BY <1>2, <2>1, <2>2 DEF UntouchedOK, Keeps
<1> QED BY <1>5, <1>6, <1>7, <1>8, <1>9, <1>10

\* Opening truncates the temporary file, whoever else has it open.
LEMMA OpenStep ==
  ASSUME CatalogInv, NEW w \in Writer, OpenTmp(w)
  PROVE  CatalogInv'
<1> USE DEF CatalogInv
<1>1. PICK i \in IF tmp = None THEN Unused ELSE {tmp} :
        /\ writer[w].pc = "open"
        /\ content' = [content EXCEPT ![i] = Garbled]
        /\ tmp' = i
        /\ writer' = [writer EXCEPT ![w].pc = "write", ![w].ino = i]
        /\ UNCHANGED <<entries, file, histVars>>
  BY DEF OpenTmp
<1>2. i \in Inode /\ i # file /\ i # None
  BY <1>1, CatalogAssumption DEF Unused, OpenOK, TypeOK
<1>3. /\ writer'[w].pc = "write" /\ writer'[w].snap = writer[w].snap /\ writer'[w].ino = i
      /\ writer' \in [Writer -> WriterRec] /\ \A v \in Writer \ {w} : writer'[v] = writer[v]
  <2>1. [writer[w] EXCEPT !.pc = "write", !.ino = i] \in WriterRec
    BY <1>2 DEF TypeOK, WriterRec
  <2>2. writer' = [writer EXCEPT ![w] = [writer[w] EXCEPT !.pc = "write", !.ino = i]]
    BY <1>1 DEF TypeOK
  <2> QED BY <2>1, <2>2 DEF TypeOK, WriterRec
<1>4. /\ content' \in [Inode -> ContentRec] /\ ~content'[i].json
      /\ \A j \in Inode \ {i} : content'[j] = content[j]
  BY <1>1, <1>2, Blanks DEF TypeOK, Garbled
<1>5. UNCHANGED <<entries, file, saved, touched, lone, taken, clash, failed>>
  BY <1>1 DEF histVars
<1>6. Persisting' = Persisting /\ w \in Persisting /\ OnDisk' = OnDisk
  <2>1. Persisting' = Persisting /\ w \in Persisting
    BY <1>1, <1>3 DEF Persisting
  <2>2. OnDisk' = OnDisk
    BY <1>2, <1>4, <1>5 DEF OnDisk, Readable, TypeOK
  <2> QED BY <2>1, <2>2
<1>7. TypeOK'
  BY <1>1, <1>2, <1>3, <1>4, <1>5 DEF TypeOK
<1>8. OpenOK'
  BY <1>1, <1>2, <1>3, <1>5 DEF OpenOK
<1>9. LoneOK'
  BY <1>1, <1>2, <1>3, <1>4, <1>5, <1>6 DEF LoneOK
<1>10. PendingOK' /\ SavedOK'
  <2>1. Coming' <=> Coming
    BY <1>1, <1>3 DEF Coming
  <2> QED BY <1>5, <1>6, <2>1 DEF PendingOK, SavedOK
<1>11. UntouchedOK'
  <2>1. \A v \in Persisting' : Keeps(writer'[v].snap)
    BY <1>3, <1>6 DEF UntouchedOK, Persisting
  <2>2. file # None => content'[file] = content[file]
    BY <1>2, <1>4 DEF TypeOK
  <2>3. tmp' = i /\ ~content'[tmp'].json
    BY <1>1, <1>4
  <2>4. Keeps(entries)' /\ (\A v \in Persisting : Keeps(writer[v].snap))'
    BY <1>5, <2>1 DEF UntouchedOK, Keeps
  <2>5. (file # None /\ content[file].json => Keeps(content[file].list))'
    BY <1>5, <2>2 DEF UntouchedOK, Keeps
  <2> QED BY <2>3, <2>4, <2>5 DEF UntouchedOK
<1> QED BY <1>7, <1>8, <1>9, <1>10, <1>11

\* A write goes to the inode the writer has open, whatever is called by it now.
LEMMA WriteStep ==
  ASSUME CatalogInv, NEW w \in Writer, Write(w)
  PROVE  CatalogInv'
<1> USE DEF CatalogInv
<1> DEFINE i == writer[w].ino
<1>1. writer[w].pc = "write" /\ i \in Inode /\ w \in Persisting
  BY DEF Write, OpenOK, Persisting
<1>2. PICK r \in {Whole(writer[w].snap)} \cup (IF content[i].json THEN {Garbled} ELSE {}) :
        content' = [content EXCEPT ![i] = r]
  BY DEF Write
<1>3. /\ r \in ContentRec /\ content' \in [Inode -> ContentRec] /\ content'[i] = r
      /\ \A j \in Inode \ {i} : content'[j] = content[j]
      /\ r = Whole(writer[w].snap) \/ (content[i].json /\ ~r.json)
  <2>1. writer[w].snap \in [Hash -> Entry]
    BY DEF TypeOK, WriterRec
  <2>2. r = Whole(writer[w].snap) \/ (content[i].json /\ r = Garbled)
    BY <1>2
  <2>3. r \in ContentRec /\ ~Garbled.json
    BY <2>1, <2>2, Blanks, WholeType DEF Garbled
  <2>4. /\ content' \in [Inode -> ContentRec] /\ content'[i] = r
        /\ \A j \in Inode \ {i} : content'[j] = content[j]
    BY <1>1, <1>2, <2>3 DEF TypeOK
  <2> QED BY <2>2, <2>3, <2>4
<1>4. /\ writer'[w].pc = "rename" /\ writer'[w].snap = writer[w].snap /\ writer'[w].ino = None
      /\ writer' \in [Writer -> WriterRec] /\ \A v \in Writer \ {w} : writer'[v] = writer[v]
  <2>1. [writer[w] EXCEPT !.pc = "rename", !.ino = None] \in WriterRec
    BY DEF TypeOK, WriterRec
  <2>2. writer' = [writer EXCEPT ![w] = [writer[w] EXCEPT !.pc = "rename", !.ino = None]]
    BY DEF Write, TypeOK
  <2> QED BY <2>1, <2>2 DEF TypeOK, WriterRec
<1>5. UNCHANGED <<entries, tmp, file, saved, touched, lone, taken, clash, failed>>
  BY DEF Write, histVars
<1>6. Persisting' = Persisting /\ (Coming' <=> Coming)
  BY <1>1, <1>4 DEF Persisting, Coming
<1>7. CatalogInv /\ lone = w => /\ i = tmp /\ ~content[tmp].json
                                /\ content'[tmp] = Whole(taken)
  BY <1>1, <1>3, CatalogAssumption DEF LoneOK
<1>8. TypeOK'
  BY <1>3, <1>4, <1>5 DEF TypeOK
<1>9. OpenOK'
  BY <1>4, <1>5 DEF OpenOK
<1>10. LoneOK'
  BY <1>1, <1>4, <1>5, <1>6, <1>7 DEF LoneOK
<1>11. PendingOK'
  BY <1>5, <1>6 DEF PendingOK
<1>12. SavedOK'
  <2>1. SUFFICES ASSUME ~clash
                 PROVE  OnDisk' = saved
    BY <1>5 DEF SavedOK
  <2>2. lone = w /\ i = tmp /\ tmp # None /\ tmp # file
    BY <1>1, <1>7, <2>1, CatalogAssumption DEF LoneOK, OpenOK
  <2>3. OnDisk' = OnDisk
    BY <1>3, <1>5, <2>2 DEF OnDisk, Readable, TypeOK
  <2> QED BY <2>1, <2>3 DEF SavedOK
<1>13. UntouchedOK'
  <2>1. \A v \in Persisting' : Keeps(writer'[v].snap)
    BY <1>4, <1>6 DEF UntouchedOK, Persisting
  <2>2. ASSUME NEW j \in Inode, content'[j].json, content[j].json => Keeps(content[j].list)
        PROVE  Keeps(content'[j].list)
    BY <1>1, <1>3, <2>2 DEF UntouchedOK, Whole
  <2>3. \E v \in Writer : writer[v].pc \in {"write", "rename"}
    BY <1>1
  <2>4. Keeps(entries) /\ (file # None => file \in Inode) /\ (tmp # None => tmp \in Inode)
    BY DEF UntouchedOK, TypeOK
  <2> QED BY <1>5, <2>1, <2>2, <2>3, <2>4 DEF UntouchedOK, Keeps
<1> QED BY <1>8, <1>9, <1>10, <1>11, <1>12, <1>13

\* A persist that fails leaves the catalog alone; its mutation waits for the next.
LEMMA WriteFailsStep ==
  ASSUME CatalogInv, NEW w \in Writer, WriteFails(w)
  PROVE  CatalogInv'
<1> USE DEF CatalogInv
<1> DEFINE i == writer[w].ino
<1>1. writer[w].pc = "write" /\ i \in Inode /\ w \in Persisting
  BY DEF WriteFails, OpenOK, Persisting
<1>2. /\ content' \in [Inode -> ContentRec] /\ ~content'[i].json
      /\ \A j \in Inode \ {i} : content'[j] = content[j]
  BY <1>1, Blanks DEF WriteFails, TypeOK, Garbled
<1>3. /\ writer'[w] = Idle /\ writer' \in [Writer -> WriterRec]
      /\ \A v \in Writer \ {w} : writer'[v] = writer[v]
  BY Blanks DEF WriteFails, TypeOK
<1>4. UNCHANGED <<entries, tmp, file, saved, touched, clash>>
  BY DEF WriteFails, Fails
<1>5. IF lone = w THEN lone' = None /\ taken' = Nothing /\ failed' = TRUE
                  ELSE UNCHANGED <<lone, taken, failed>>
  BY DEF WriteFails, Fails, loneVars
<1>6. Persisting' = Persisting \ {w} /\ (Coming' <=> Coming)
  BY <1>1, <1>3 DEF Persisting, Coming, Idle
<1>7. TypeOK'
  BY <1>2, <1>3, <1>4, <1>5, Blanks DEF TypeOK
<1>8. OpenOK'
  BY <1>3, <1>4 DEF OpenOK, Idle
<1>9. LoneOK'
  BY <1>1, <1>4, <1>5, <1>6 DEF LoneOK
<1>10. PendingOK'
  BY <1>1, <1>4, <1>5, <1>6, CatalogAssumption DEF PendingOK, LoneOK
<1>11. SavedOK'
  <2>1. SUFFICES ASSUME ~clash
                 PROVE  OnDisk' = saved
    BY <1>4 DEF SavedOK
  <2>2. i = tmp /\ tmp # None /\ tmp # file
    BY <1>1, <2>1, CatalogAssumption DEF LoneOK, OpenOK
  <2>3. OnDisk' = OnDisk
    BY <1>2, <1>4, <2>2 DEF OnDisk, Readable, TypeOK
  <2> QED BY <2>1, <2>3 DEF SavedOK
<1>12. UntouchedOK'
  <2>1. \A v \in Persisting' : Keeps(writer'[v].snap)
    BY <1>3, <1>6 DEF UntouchedOK, Persisting
  <2>2. ASSUME NEW j \in Inode, content'[j].json, content[j].json => Keeps(content[j].list)
        PROVE  Keeps(content'[j].list)
    BY <1>2, <2>2
  <2>3. \E v \in Writer : writer[v].pc \in {"write", "rename"}
    BY <1>1
  <2>4. Keeps(entries) /\ (file # None => file \in Inode) /\ (tmp # None => tmp \in Inode)
    BY DEF UntouchedOK, TypeOK
  <2> QED BY <1>4, <2>1, <2>2, <2>3, <2>4 DEF UntouchedOK, Keeps
<1> QED BY <1>7, <1>8, <1>9, <1>10, <1>11, <1>12

\* The rename makes the temporary file the catalog: its own, when it has met no other persist.
LEMMA RenameStep ==
  ASSUME CatalogInv, NEW w \in Writer, Rename(w)
  PROVE  CatalogInv'
<1> USE DEF CatalogInv
<1>1. /\ writer[w].pc = "rename" /\ tmp # None /\ tmp \in Inode /\ w \in Persisting
      /\ file' = tmp /\ tmp' = None
      /\ UNCHANGED <<entries, content>>
  BY DEF Rename, Persisting, TypeOK
<1>2. /\ writer'[w] = Idle /\ writer' \in [Writer -> WriterRec]
      /\ \A v \in Writer \ {w} : writer'[v] = writer[v]
  BY Blanks DEF Rename, TypeOK
<1>3. Persisting' = Persisting \ {w} /\ (Coming' <=> Coming)
  BY <1>1, <1>2 DEF Persisting, Coming, Idle
<1>4. OpenOK'
  BY <1>1, <1>2 DEF OpenOK, Idle
<1>5. CASE lone = w
  <2>1. /\ saved' = taken /\ touched' = {h \in Hash : entries[h] # taken[h]}
        /\ lone' = None /\ taken' = Nothing /\ clash' = FALSE /\ failed' = FALSE
    BY <1>5 DEF Rename, Saves
  <2>2. /\ content[tmp] = Whole(taken) /\ Persisting' = {}
        /\ (taken # entries => Coming)
    BY <1>1, <1>3, <1>5, CatalogAssumption DEF LoneOK, PendingOK
  <2>3. TypeOK'
    BY <1>1, <1>2, <2>1, Blanks DEF TypeOK
  <2>4. LoneOK' /\ PendingOK'
    BY <1>1, <1>3, <2>1, <2>2 DEF LoneOK, PendingOK
  <2>5. OnDisk' = taken
    BY <1>1, <2>2 DEF OnDisk, Readable, Whole
  <2>6. SavedOK'
    BY <2>1, <2>5 DEF SavedOK
  <2>7. UntouchedOK'
    BY <1>1, <2>1, <2>2 DEF UntouchedOK, Keeps, Whole
  <2> QED BY <1>4, <2>3, <2>4, <2>6, <2>7
<1>6. CASE lone # w
  <2>1. UNCHANGED <<saved, touched, lone, taken, clash, failed>>
    BY <1>6 DEF Rename, Saves, histVars
  <2>2. clash /\ lone = None
    BY <1>1, <1>6 DEF LoneOK
  <2>3. TypeOK'
    BY <1>1, <1>2, <2>1 DEF TypeOK
  <2>4. LoneOK' /\ PendingOK' /\ SavedOK'
    BY <2>1, <2>2 DEF LoneOK, PendingOK, SavedOK
  <2>5. \A v \in Persisting' : Keeps(writer'[v].snap)
    BY <1>2, <1>3 DEF UntouchedOK, Persisting
  <2>6. UntouchedOK'
    BY <1>1, <2>1, <2>5 DEF UntouchedOK, Keeps
  <2> QED BY <1>4, <2>3, <2>4, <2>6
<1> QED BY <1>5, <1>6

\* A rename that fails changes no file.
LEMMA RenameFailsStep ==
  ASSUME CatalogInv, NEW w \in Writer, RenameFails(w)
  PROVE  CatalogInv'
<1> USE DEF CatalogInv
<1>1. /\ writer[w].pc = "rename" /\ w \in Persisting
      /\ UNCHANGED <<entries, content, tmp, file, saved, touched, clash>>
  BY DEF RenameFails, Fails, Persisting, fsVars
<1>2. /\ writer'[w] = Idle /\ writer' \in [Writer -> WriterRec]
      /\ \A v \in Writer \ {w} : writer'[v] = writer[v]
  BY Blanks DEF RenameFails, TypeOK
<1>3. IF lone = w THEN lone' = None /\ taken' = Nothing /\ failed' = TRUE
                  ELSE UNCHANGED <<lone, taken, failed>>
  BY DEF RenameFails, Fails, loneVars
<1>4. /\ Persisting' = Persisting \ {w} /\ (Coming' <=> Coming) /\ OnDisk' = OnDisk
  BY <1>1, <1>2 DEF Persisting, Coming, Idle, OnDisk, Readable
<1>5. TypeOK'
  BY <1>1, <1>2, <1>3, Blanks DEF TypeOK
<1>6. OpenOK'
  BY <1>1, <1>2 DEF OpenOK, Idle
<1>7. LoneOK'
  BY <1>1, <1>3, <1>4 DEF LoneOK
<1>8. PendingOK'
  BY <1>1, <1>3, <1>4, CatalogAssumption DEF PendingOK, LoneOK
<1>9. SavedOK'
  BY <1>1, <1>4 DEF SavedOK
<1>10. UntouchedOK'
  <2>1. \A v \in Persisting' : Keeps(writer'[v].snap)
    BY <1>2, <1>4 DEF UntouchedOK, Persisting
  <2>2. \E v \in Writer : writer[v].pc \in {"write", "rename"}
    BY <1>1
  <2> QED BY <1>1, <2>1, <2>2 DEF UntouchedOK, Keeps
<1> QED BY <1>5, <1>6, <1>7, <1>8, <1>9, <1>10

\* A crash at any step leaves the files as they are and memory with what the catalog holds.
LEMMA RestartStep ==
  ASSUME CatalogInv, Restart
  PROVE  CatalogInv'
<1> USE DEF CatalogInv
<1>1. OnDisk' = OnDisk /\ entries' = OnDisk /\ saved' = OnDisk
  BY DEF Restart, fsVars, OnDisk, Readable
<1>2. \A w \in Writer : writer'[w] = Idle
  BY DEF Restart
<1>3. /\ UNCHANGED <<content, tmp, file>> /\ touched' = {} /\ lone' = None
      /\ taken' = Nothing /\ clash' = FALSE /\ failed' = FALSE
  BY DEF Restart, fsVars
<1>4. Persisting' = {}
  BY <1>2 DEF Persisting, Idle
<1>5. TypeOK'
  BY <1>1, <1>3, Blanks, OnDiskType DEF TypeOK, Restart
<1>6. OpenOK' /\ LoneOK'
  BY <1>2, <1>3, <1>4 DEF OpenOK, LoneOK, Idle
<1>7. PendingOK' /\ SavedOK'
  BY <1>1, <1>3 DEF PendingOK, SavedOK
<1>8. UntouchedOK'
  <2>1. file # None /\ content[file].json => content[file].list = OnDisk
    BY DEF OnDisk, Readable
  <2>2. ~ \E w \in Writer : writer'[w].pc \in {"write", "rename"}
    BY <1>2 DEF Idle
  <2> QED BY <1>1, <1>3, <1>4, <2>1, <2>2 DEF UntouchedOK, Keeps
<1> QED BY <1>5, <1>6, <1>7, <1>8

-----------------------------------------------------------------------------
(* The invariant *)

LEMMA InitInv ==
  Init => CatalogInv
<1> SUFFICES ASSUME Init
             PROVE  CatalogInv
  OBVIOUS
<1>1. TypeOK
  BY Blanks DEF Init, TypeOK
<1>2. Persisting = {} /\ \A w \in Writer : writer[w].pc = "idle" /\ writer[w].ino = None
  BY DEF Init, Idle, Persisting
<1>3. OpenOK /\ LoneOK
  BY <1>2 DEF Init, OpenOK, LoneOK
<1>4. PendingOK /\ SavedOK
  BY DEF Init, PendingOK, SavedOK, OnDisk, Readable
<1>5. UntouchedOK
  BY <1>2 DEF Init, UntouchedOK, Keeps
<1> QED BY <1>1, <1>3, <1>4, <1>5 DEF CatalogInv

LEMMA StepInv ==
  CatalogInv /\ [Next]_vars => CatalogInv'
<1> SUFFICES ASSUME CatalogInv, [Next]_vars
             PROVE  CatalogInv'
  OBVIOUS
<1>1. CASE Restart
  BY <1>1, RestartStep
<1>2. ASSUME NEW w \in Writer, Persist(w)
      PROVE  CatalogInv'
  BY <1>2, SnapshotStep, OpenStep, WriteStep, WriteFailsStep, RenameStep, RenameFailsStep
     DEF Persist
<1>3. ASSUME NEW w \in Writer, NEW h \in Hash,
             \/ Remove(w, h)
             \/ \E m \in Modes : Upsert(w, h, m)
             \/ \E b \in Pins : SetPinned(w, h, b)
      PROVE  CatalogInv'
  <2>1. TypeOK
    BY DEF CatalogInv
  <2>2. PICK e \in Entry : Mutate(w, h, e)
    BY <1>3, <2>1, MutateCases
  <2> QED BY <2>2, MutateStep
<1>4. CASE UNCHANGED vars
  <2>1. UNCHANGED <<entries, writer, content, tmp, file, saved, touched, lone, taken, clash, failed>>
    BY <1>4 DEF vars
  <2>2. TypeOK' /\ OpenOK'
    BY <2>1 DEF CatalogInv, TypeOK, OpenOK
  <2>3. LoneOK' /\ PendingOK' /\ SavedOK' /\ UntouchedOK'
    BY <2>1 DEF CatalogInv, LoneOK, PendingOK, SavedOK, UntouchedOK, Persisting, Coming, OnDisk,
                Readable, Keeps
  <2> QED BY <2>2, <2>3 DEF CatalogInv
<1> QED BY <1>1, <1>2, <1>3, <1>4 DEF Next

LEMMA AlwaysInv ==
  Spec => []CatalogInv
BY InitInv, StepInv, PTL DEF Spec

-----------------------------------------------------------------------------
(* Theorems *)

\* Whatever crashes, failures and clashes came before, once a persist has run alone and has not
\* failed the file holds what memory holds whenever no mutation is under way (persist).
THEOREM QuietCatalogIsDurable ==
  Spec => []QuietIsDurable
<1>1. CatalogInv => QuietIsDurable
  <2> SUFFICES ASSUME CatalogInv, \A w \in Writer : writer[w].pc = "idle", ~clash, ~failed
               PROVE  OnDisk = entries
    BY DEF QuietIsDurable
  <2>1. lone = None /\ ~Coming
    BY DEF CatalogInv, LoneOK, Persisting, Coming
  <2> QED BY <2>1 DEF CatalogInv, PendingOK, SavedOK
<1> QED BY <1>1, AlwaysInv, PTL

\* A crash at any step undoes no mutation that a persist had saved, if none has clashed since; and
\* however many persists clash on the temporary file, a file that can be read after a crash has
\* every entry that nobody has mutated since it was last saved (NewPersistent against persist).
THEOREM CrashUndoesNothing ==
  Spec => CrashKeepsSaved
<1>1. CatalogInv /\ [Next]_vars =>
        [Restart => /\ ~clash => entries' = saved
                    /\ Readable => \A h \in Hash \ touched : entries'[h] = saved[h]]_vars
  <2> SUFFICES ASSUME CatalogInv, Restart
               PROVE  /\ ~clash => entries' = saved
                      /\ Readable => \A h \in Hash \ touched : entries'[h] = saved[h]
    OBVIOUS
  <2>1. ~clash => entries' = saved
    BY DEF CatalogInv, SavedOK, Restart
  <2>2. Readable => \A h \in Hash \ touched : entries'[h] = saved[h]
    BY DEF CatalogInv, UntouchedOK, Keeps, Restart, Readable, OnDisk
  <2> QED BY <2>1, <2>2
<1> QED BY <1>1, AlwaysInv, PTL DEF Spec, CrashKeepsSaved
=============================================================================
