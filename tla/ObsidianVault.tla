----------------------------- MODULE ObsidianVault -----------------------------
(***************************************************************************)
(* The literature notes of the Obsidian vault (obsidian/*.py). The program *)
(* creates notes for a list of papers, previews a section of one and, when *)
(* approved, puts it into a marked region of the note; the reader edits,   *)
(* renames and breaks the same files at any time.                          *)
(***************************************************************************)
EXTENDS Integers, Sequences, FiniteSets

CONSTANTS
    VaultFiles,     \* the file names of notes, in sorted order
    PaperLists,     \* what a collection may list: sequences of [key, file], file "none" if it has no name
    Sections,       \* reading sections; "marked" has the marker text in it
    Edits,          \* the bits of text the reader may add, each once
    MaxVaultSteps,  \* bound on the operations started
    MaxSeconds      \* bound on the clock
Files == {VaultFiles[i] : i \in DOMAIN VaultFiles}
ASSUME VaultConstants ==
    /\ VaultFiles \in Seq(STRING) /\ "none" \notin Files /\ MaxSeconds \in Nat
    /\ PaperLists \subseteq Seq([key : STRING, file : Files \cup {"none"}])

VARIABLES
    notes,          \* file |-> its note, or NoNote
    vaultJob,       \* the operation under way
    preview,        \* the preview file: the section it proposes, or "none"
    renames,        \* the renames the last migration plan recommends
    backups,        \* <<file, second>> |-> the copy of the note, or NoNote
    seconds,        \* the clock that names backups
    vaultStarted,   \* operations so far
    vaultEdited,    \* what the reader has written
    vaultForsaken   \* what was lost in the ways the design accepts
vaultVars == <<notes, vaultJob, preview, renames, backups, seconds, vaultStarted, vaultEdited, vaultForsaken>>

\* readable: the frontmatter parses. regions: how many marked regions the text has. text: the
\* reader's edits, of which those in inside are in the marked region.
NoNote == [key |-> "none"]
Idle == [op |-> "idle"]
Exists(file) == notes[file] # NoNote
FreshNote(key) == [key |-> key, readable |-> TRUE, text |-> {}, inside |-> {}, section |-> "none", regions |-> 0]
Truncated == [key |-> "none", readable |-> FALSE, text |-> {}, inside |-> {}, section |-> "none", regions |-> 0]
TextOf(note) == IF note = NoNote THEN {} ELSE note.text

\* The first note, in sorted order, whose frontmatter parses and has the key.
HasKey(file, key) == Exists(file) /\ notes[file].readable /\ notes[file].key = key
NoteWith(key) ==
    LET found == {i \in DOMAIN VaultFiles : HasKey(VaultFiles[i], key)}
    IN  IF found = {} THEN "none" ELSE VaultFiles[CHOOSE i \in found : \A j \in found : i <= j]
KeysIndexed == {key \in {notes[file].key : file \in Files} : NoteWith(key) # "none"}

VaultInit ==
    /\ notes = [file \in Files |-> NoNote] /\ vaultJob = Idle /\ preview = "none" /\ renames = {}
    /\ backups = [at \in Files \X (0..MaxSeconds) |-> NoNote] /\ seconds = 0 /\ vaultStarted = 0
    /\ vaultEdited = {} /\ vaultForsaken = {}

Starts(job) ==
    /\ vaultJob = Idle /\ vaultStarted < MaxVaultSteps
    /\ vaultJob' = job /\ vaultStarted' = vaultStarted + 1

---------------------------------------------------------------------------
(* Creating notes *)

\* The index of keys is made once, before the first note is written.
WriterStarts ==
    /\ \E papers \in PaperLists, overwrite \in BOOLEAN :
        Starts([op |-> "write", papers |-> papers, overwrite |-> overwrite, indexed |-> KeysIndexed])
    /\ UNCHANGED <<notes, preview, renames, backups, seconds, vaultEdited, vaultForsaken>>

\* A paper whose name or key has a note is skipped, and one without a name fails on its own.
Skips(job, paper) ==
    \/ paper.file = "none"
    \/ ~job.overwrite /\ (Exists(paper.file) \/ paper.key \in job.indexed)
WriterWrites ==
    /\ vaultJob.op = "write" /\ vaultJob.papers # <<>>
    /\ LET paper == Head(vaultJob.papers) IN
        IF Skips(vaultJob, paper) THEN UNCHANGED <<notes, vaultForsaken>>
        ELSE /\ notes' = [notes EXCEPT ![paper.file] = FreshNote(paper.key)]
             /\ vaultForsaken' = IF vaultJob.overwrite THEN vaultForsaken \cup TextOf(notes[paper.file])
                                 ELSE vaultForsaken
    /\ vaultJob' = IF Len(vaultJob.papers) = 1 THEN Idle ELSE [vaultJob EXCEPT !.papers = Tail(@)]
    /\ UNCHANGED <<preview, renames, backups, seconds, vaultStarted, vaultEdited>>

\* A plan for the names of the notes: what to rename, where nothing is in the way.
PlanAction(paper) ==
    LET current == NoteWith(paper.key)
    IN  CASE paper.file = "none" -> "citation_key_missing"
          [] paper.file # "none" /\ current = paper.file -> "already_ok"
          [] paper.file # "none" /\ current # paper.file /\ Exists(paper.file) -> "conflict"
          [] paper.file # "none" /\ current # "none" /\ ~Exists(paper.file) -> "rename_recommended"
          [] paper.file # "none" /\ current = "none" /\ ~Exists(paper.file) -> "missing_note"
PlanMigration ==
    /\ \E papers \in PaperLists :
        renames' = {[from |-> NoteWith(papers[i].key), to |-> papers[i].file] :
                        i \in {j \in DOMAIN papers : PlanAction(papers[j]) = "rename_recommended"}}
    /\ Starts(Idle)
    /\ UNCHANGED <<notes, preview, backups, seconds, vaultEdited, vaultForsaken>>

---------------------------------------------------------------------------
(* Previewing and applying a section *)

PreviewUpdate ==
    /\ \E section \in Sections, key \in {notes[file].key : file \in Files} :
        preview' = IF NoteWith(key) = "none" THEN preview ELSE section
    /\ Starts(Idle)
    /\ UNCHANGED <<notes, renames, backups, seconds, vaultEdited, vaultForsaken>>

\* The text with the section in its marked region. What was in the region is replaced; a text
\* whose markers do not make one region is refused.
Replaceable(note) == note.readable /\ note.regions <= 1
WithSection(note, section) ==
    [note EXCEPT !.section = section, !.text = @ \ note.inside, !.inside = {}, !.regions = IF section = "marked" THEN 2 ELSE 1]

\* The target is the path the caller names, whatever note the preview was made for. A dry run
\* stops here, and so does a target that cannot be read or replaced.
ApplyReads ==
    /\ preview # "none"
    /\ \E target \in Files, approved \in BOOLEAN :
        /\ Exists(target)
        /\ IF approved /\ Replaceable(notes[target])
           THEN Starts([op |-> "backup", target |-> target, read |-> notes[target], second |-> seconds])
           ELSE Starts(Idle)
    /\ UNCHANGED <<notes, preview, renames, backups, seconds, vaultEdited, vaultForsaken>>

\* Mutant: the copy is made from the text that was read.
BackupOfRead(job) == job.read
Backup(job) == notes[job.target]

\* The copy is named by the second the operation looked at the clock: an earlier one of the
\* same note in the same second is overwritten.
ApplyBacksUp ==
    /\ vaultJob.op = "backup" /\ Exists(vaultJob.target)
    /\ LET at == <<vaultJob.target, vaultJob.second>> IN
        /\ backups' = [backups EXCEPT ![at] = Backup(vaultJob)]
        /\ vaultForsaken' = vaultForsaken \cup TextOf(backups[at])
    /\ vaultJob' = [vaultJob EXCEPT !.op = "apply"]
    /\ UNCHANGED <<notes, preview, renames, seconds, vaultStarted, vaultEdited>>
BackupFails ==
    /\ vaultJob.op = "backup" /\ ~Exists(vaultJob.target)
    /\ vaultJob' = Idle
    /\ UNCHANGED <<notes, preview, renames, backups, seconds, vaultStarted, vaultEdited, vaultForsaken>>

\* What is written was made of the text read before, and recreates a note renamed meanwhile.
ApplyWrites ==
    /\ vaultJob.op = "apply"
    /\ notes' = [notes EXCEPT ![vaultJob.target] = WithSection(vaultJob.read, preview)]
    /\ vaultJob' = Idle
    /\ UNCHANGED <<preview, renames, backups, seconds, vaultStarted, vaultEdited, vaultForsaken>>

\* An operation may die between its writes, and in the write of a note, which is not atomic.
Writing ==
    CASE vaultJob.op = "apply" -> {vaultJob.target}
      [] vaultJob.op = "write" -> IF Skips(vaultJob, Head(vaultJob.papers)) THEN {} ELSE {Head(vaultJob.papers).file}
      [] vaultJob.op = "backup" -> {}
VaultDies ==
    /\ vaultJob # Idle /\ vaultJob' = Idle
    /\ notes' = [file \in Files |-> IF file \in Writing THEN Truncated ELSE notes[file]]
    /\ vaultForsaken' = IF vaultJob.op = "write" THEN vaultForsaken \cup UNION {TextOf(notes[file]) : file \in Writing}
                        ELSE vaultForsaken
    /\ UNCHANGED <<preview, renames, backups, seconds, vaultStarted, vaultEdited>>

---------------------------------------------------------------------------
(* The reader, and the clock *)

\* What is saved between the copy of a note and the write that follows it is overwritten.
Overwrites(file) == vaultJob.op = "apply" /\ vaultJob.target = file
ReaderEdits ==
    /\ \E file \in Files, edit \in Edits \ vaultEdited, inside \in BOOLEAN :
        /\ Exists(file) /\ (inside => notes[file].regions = 1)
        /\ notes' = [notes EXCEPT ![file].text = @ \cup {edit}, ![file].inside = IF inside THEN @ \cup {edit} ELSE @]
        /\ vaultEdited' = vaultEdited \cup {edit}
        /\ vaultForsaken' = IF Overwrites(file) THEN vaultForsaken \cup {edit} ELSE vaultForsaken
    /\ UNCHANGED <<vaultJob, preview, renames, backups, seconds, vaultStarted>>
ReaderRenames ==
    /\ \E rename \in renames :
        /\ Exists(rename.from) /\ ~Exists(rename.to)
        /\ notes' = [notes EXCEPT ![rename.to] = notes[rename.from], ![rename.from] = NoNote]
        /\ renames' = renames \ {rename}
        /\ vaultForsaken' = IF Overwrites(rename.to) THEN vaultForsaken \cup TextOf(notes[rename.from]) ELSE vaultForsaken
    /\ UNCHANGED <<vaultJob, preview, backups, seconds, vaultStarted, vaultEdited>>
ReaderBreaks ==
    /\ \E file \in Files : Exists(file) /\ notes[file].readable /\ notes' = [notes EXCEPT ![file].readable = FALSE]
    /\ UNCHANGED <<vaultJob, preview, renames, backups, seconds, vaultStarted, vaultEdited, vaultForsaken>>
SecondPasses ==
    /\ seconds < MaxSeconds /\ seconds' = seconds + 1
    /\ UNCHANGED <<notes, vaultJob, preview, renames, backups, vaultStarted, vaultEdited, vaultForsaken>>

VaultNext ==
    \/ WriterStarts \/ WriterWrites \/ PlanMigration \/ PreviewUpdate
    \/ ApplyReads \/ ApplyBacksUp \/ BackupFails \/ ApplyWrites \/ VaultDies
    \/ ReaderEdits \/ ReaderRenames \/ ReaderBreaks \/ SecondPasses

---------------------------------------------------------------------------
(* Properties *)

\* Whatever the reader wrote is in a note or in a backup, through every creation, renaming,
\* update made of a stale text, and death in the middle of a write: unless an overwrite was
\* asked for, the text was saved between the backup and the write of an update, or its only
\* copy was in a backup that another of the same second replaced.
ReaderTextSurvives ==
    vaultEdited \subseteq
        (UNION {TextOf(notes[file]) : file \in Files}) \cup (UNION {TextOf(backups[at]) : at \in DOMAIN backups})
            \cup vaultForsaken
=============================================================================
