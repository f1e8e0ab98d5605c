------------------------------ MODULE Catalog ------------------------------
(***************************************************************************)
(* The persisted catalog (catalog/catalog.go): the entries map under its   *)
(* lock, and persist, which every mutation calls after it has released     *)
(* that lock: snapshot, write a temporary file, rename it over             *)
(* catalog.json.  The process may die between any two steps and loads the  *)
(* file when it starts again.                                              *)
(*                                                                         *)
(* The file system is external.  A file is an inode: os.WriteFile opens    *)
(* and truncates whatever inode the temporary name has, a rename moves the *)
(* name, and a writer that still has the inode open goes on writing to it. *)
(* Entries keep the fields the lifecycle depends on, pin and mode.         *)
(*                                                                         *)
(* Nothing serialises persist: mutations of several handlers write the     *)
(* same temporary file at the same time.  The history variables say what   *)
(* such a clash may cost.                                                  *)
(***************************************************************************)
EXTENDS Integers, FiniteSets

CONSTANTS
  Hash,       \* infohashes
  Writer,     \* goroutines that mutate the catalog
  Inode,      \* pool of inodes; one is reused once it has no name and nobody has it open
  Modes,      \* the download modes that are asked for ...
  Pins,       \* ... and the pin states
  None

ASSUME CatalogAssumption ==
  /\ None \notin Inode /\ None \notin Writer
  /\ "" \in Modes /\ Modes \subseteq {"", "stream", "disk"}
  /\ Pins \subseteq BOOLEAN

VARIABLES
  entries,    \* Catalog.entries
  writer,     \* the goroutines
  content,    \* inode -> what it holds
  tmp,        \* the inode called catalog.json.tmp
  file,       \* the inode called catalog.json
  saved,      \* history: the entries as last saved by a persist that ran alone
  touched,    \* history: the hashes mutated since
  lone,       \* history: whose persist is running and has met no other
  taken,      \* history: the entries when lone took its snapshot
  clash,      \* history: whether persists have met and none has run alone since
  failed      \* history: whether the last to run alone has failed

vars == <<entries, writer, content, tmp, file, saved, touched, lone, taken, clash, failed>>
fsVars == <<content, tmp, file>>
loneVars == <<lone, taken>>
histVars == <<saved, touched, lone, taken, clash, failed>>

Entry   == [known : BOOLEAN, pinned : BOOLEAN, mode : Modes]
NoEntry == [known |-> FALSE, pinned |-> FALSE, mode |-> ""]
Nothing == [h \in Hash |-> NoEntry]

\* An empty file and a mixture of two snapshots are both no JSON list.
Garbled  == [json |-> FALSE, list |-> Nothing]
Whole(e) == [json |-> TRUE, list |-> e]

Idle == [pc |-> "idle", snap |-> Nothing, ino |-> None]

WriterRec  == [pc : {"idle", "snapshot", "open", "write", "rename"},
               snap : [Hash -> Entry], ino : Inode \cup {None}]
ContentRec == [json : BOOLEAN, list : [Hash -> Entry]]

TypeOK ==
  /\ entries \in [Hash -> Entry]
  /\ writer \in [Writer -> WriterRec]
  /\ content \in [Inode -> ContentRec]
  /\ tmp \in Inode \cup {None}
  /\ file \in Inode \cup {None}
  /\ saved \in [Hash -> Entry]
  /\ touched \in SUBSET Hash
  /\ lone \in Writer \cup {None}
  /\ taken \in [Hash -> Entry]
  /\ clash \in BOOLEAN
  /\ failed \in BOOLEAN

-----------------------------------------------------------------------------
(* Mutations, under the lock *)

Mutate(w, h, e) ==
  /\ writer[w].pc = "idle"
  /\ entries' = [entries EXCEPT ![h] = e]
  /\ writer' = [writer EXCEPT ![w].pc = "snapshot"]
  /\ touched' = touched \cup {h}
  /\ UNCHANGED <<fsVars, loneVars, saved, clash, failed>>

\* A non-empty mode overwrites; the pin stays.
Upsert(w, h, mode) ==
  Mutate(w, h, [known |-> TRUE, pinned |-> entries[h].pinned,
                mode |-> IF mode = "" THEN entries[h].mode ELSE mode])

SetPinned(w, h, pinned) == Mutate(w, h, [entries[h] EXCEPT !.known = TRUE, !.pinned = pinned])

\* Mutant: a removal that is not written out.
RemoveUnsaved(w, h) ==
  /\ writer[w].pc = "idle"
  /\ entries' = [entries EXCEPT ![h] = NoEntry]
  /\ touched' = touched \cup {h}
  /\ UNCHANGED <<writer, fsVars, loneVars, saved, clash, failed>>

Remove(w, h) == Mutate(w, h, NoEntry)

-----------------------------------------------------------------------------
(* persist, without the lock *)

Persisting == {w \in Writer : writer[w].pc \in {"open", "write", "rename"}}

\* History: w starts to persist, alone or into somebody else's persist.
Starts(w) ==
  /\ lone' = IF Persisting = {} THEN w ELSE None
  /\ taken' = IF Persisting = {} THEN entries ELSE Nothing
  /\ clash' = (clash \/ Persisting # {})
  /\ UNCHANGED <<saved, touched, failed>>

\* History: w's persist ends without having saved anything ...
Fails(w) ==
  /\ IF lone = w THEN lone' = None /\ taken' = Nothing /\ failed' = TRUE
     ELSE UNCHANGED <<loneVars, failed>>
  /\ UNCHANGED <<saved, touched, clash>>

\* ... or having saved what it took, if it ran alone.
Saves(w) ==
  IF lone = w
  THEN /\ saved' = taken /\ touched' = {h \in Hash : entries[h] # taken[h]}
       /\ lone' = None /\ taken' = Nothing
       /\ clash' = FALSE /\ failed' = FALSE
  ELSE UNCHANGED histVars

Snapshot(w) ==
  /\ writer[w].pc = "snapshot"
  /\ writer' = [writer EXCEPT ![w].pc = "open", ![w].snap = entries]
  /\ Starts(w)
  /\ UNCHANGED <<entries, fsVars>>

Unused == {i \in Inode : i \notin {tmp, file} /\ \A w \in Writer : writer[w].ino # i}

\* Mutant: the old file is removed before the new one is written.
OpenTmpRemoveFirst(w) ==
  \E i \in IF tmp = None THEN Unused ELSE {tmp} :
    /\ writer[w].pc = "open"
    /\ content' = [content EXCEPT ![i] = Garbled]
    /\ tmp' = i
    /\ file' = None
    /\ writer' = [writer EXCEPT ![w].pc = "write", ![w].ino = i]
    /\ UNCHANGED <<entries, histVars>>

\* os.WriteFile opens the temporary name and truncates what it finds there ...
OpenTmp(w) ==
  \E i \in IF tmp = None THEN Unused ELSE {tmp} :
    /\ writer[w].pc = "open"
    /\ content' = [content EXCEPT ![i] = Garbled]
    /\ tmp' = i
    /\ writer' = [writer EXCEPT ![w].pc = "write", ![w].ino = i]
    /\ UNCHANGED <<entries, file, histVars>>

\* ... then writes from offset 0: over another writer's bytes that may leave a mixture.
Write(w) ==
  LET i == writer[w].ino IN
  /\ writer[w].pc = "write"
  /\ \E r \in {Whole(writer[w].snap)} \cup (IF content[i].json THEN {Garbled} ELSE {}) :
       content' = [content EXCEPT ![i] = r]
  /\ writer' = [writer EXCEPT ![w].pc = "rename", ![w].ino = None]
  /\ UNCHANGED <<entries, tmp, file, histVars>>

\* The write fails part way: persist gives up and the mutation returns.
WriteFails(w) ==
  /\ writer[w].pc = "write"
  /\ content' = [content EXCEPT ![writer[w].ino] = Garbled]
  /\ writer' = [writer EXCEPT ![w] = Idle]
  /\ Fails(w)
  /\ UNCHANGED <<entries, tmp, file>>

Rename(w) ==
  /\ writer[w].pc = "rename" /\ tmp # None
  /\ file' = tmp
  /\ tmp' = None
  /\ writer' = [writer EXCEPT ![w] = Idle]
  /\ Saves(w)
  /\ UNCHANGED <<entries, content>>

\* The rename's error is ignored: another writer has moved the source, or the file system refuses.
RenameFails(w) ==
  /\ writer[w].pc = "rename"
  /\ writer' = [writer EXCEPT ![w] = Idle]
  /\ Fails(w)
  /\ UNCHANGED <<entries, fsVars>>

-----------------------------------------------------------------------------

\* What NewPersistent makes of the file: nothing, if it is missing or no JSON list.
Readable == file # None /\ content[file].json
OnDisk == IF Readable THEN content[file].list ELSE Nothing

\* The process dies, at any point, and starts again.
Restart ==
  /\ entries' = OnDisk
  /\ saved' = OnDisk /\ touched' = {}
  /\ lone' = None /\ taken' = Nothing
  /\ clash' = FALSE /\ failed' = FALSE
  /\ writer' = [w \in Writer |-> Idle]
  /\ UNCHANGED fsVars

Init ==
  /\ entries = Nothing
  /\ writer = [w \in Writer |-> Idle]
  /\ content = [i \in Inode |-> Garbled]
  /\ tmp = None /\ file = None
  /\ saved = Nothing /\ touched = {}
  /\ lone = None /\ taken = Nothing
  /\ clash = FALSE /\ failed = FALSE

Persist(w) ==
  Snapshot(w) \/ OpenTmp(w) \/ Write(w) \/ WriteFails(w) \/ Rename(w) \/ RenameFails(w)

Next ==
  \/ Restart
  \/ \E w \in Writer :
       \/ Persist(w)
       \/ \E h \in Hash :
            \/ Remove(w, h)
            \/ \E m \in Modes : Upsert(w, h, m)
            \/ \E b \in Pins : SetPinned(w, h, b)

Spec == Init /\ [][Next]_vars

-----------------------------------------------------------------------------
(* Properties *)

\* When no mutation is under way, the file holds what memory holds, whatever crashes, failed writes,
\* leftover temporary files and clashing persists came before: all it takes is one persist that has
\* run alone since the last clash, and has not failed (persist "on every mutation").
QuietIsDurable ==
  (\A w \in Writer : writer[w].pc = "idle") /\ ~clash /\ ~failed => OnDisk = entries

\* A crash, at any step, undoes nothing that has been saved, unless persists have clashed since:
\* what comes back is the catalog as it was then.  Persists that clash lose only each other's
\* mutations, or the whole file: a file that can be read has every entry as it was last saved, but
\* those mutated since (NewPersistent against the snapshots and the shared temporary file of persist).
CrashKeepsSaved ==
  [][Restart => /\ ~clash => entries' = saved
                /\ Readable => \A h \in Hash \ touched : entries'[h] = saved[h]]_vars
=============================================================================
