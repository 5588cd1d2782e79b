----------------------------- MODULE FileTools ------------------------------
(***************************************************************************)
(* Calls of fs.write_text and fs.read_text (tools/impl/fs.py) on one file, *)
(* from several processes: workers, or children of the sandbox.  A step of *)
(* a writer is one system call of atomic_write_bytes (fs_safety.py), each  *)
(* of which may fail.  A process may be killed anywhere, and the machine   *)
(* may lose power: then what was not synced may be lost, the data of a     *)
(* file and the renames in its directory independently of each other.      *)
(***************************************************************************)
EXTENDS Integers, Sequences

CONSTANTS
    FileWriters,   \* calls of fs.write_text
    WriteCalls,    \* their arguments: inside, encodes, fits, dry_run, create_parents
    FileReaders    \* calls of fs.read_text

Whole == 2         \* blocks of a text: 0 and 1 are an empty and a torn file
OldFile == "original"  \* the file as it was, if there was one

\* A call is none of the other things a reader may be at.
ASSUME FileWritersNamed ==
    FileWriters \cap {OldFile, "run", "open", "NOT_FOUND", "TOOL_ERROR"} = {}

VARIABLES
    existed,       \* whether the file was there
    parent,        \* whether its directory is there
    write_call,
    write_at,      \* where a writer is
    target_mode,   \* the mode it will give its file
    blocks,        \* blocks[w]: what is in the temporary file of w, or in what became of it
    synced,        \* how much of that is on disk
    temps,         \* the temporary names in the directory
    renamed,       \* the writers whose file has replaced the target, in that order
    on_disk,       \* how many of these renames are on disk
    flushed,       \* writers whose sync of the directory succeeded
    outcome,       \* the ToolResult of a writer
    reading,       \* where a reader is, and what it has read
    power          \* FALSE after a loss of power

file_vars == <<existed, parent, write_call, write_at, target_mode, blocks, synced, temps, renamed,
               on_disk, flushed, outcome, reading, power>>

TargetFile == IF renamed = <<>> THEN OldFile ELSE renamed[Len(renamed)]
TargetExists == existed \/ renamed # <<>>
DefaultMode == "default"
ModeOf(x) == IF x = OldFile THEN "as_it_was" ELSE target_mode[x]

FileInit ==
    /\ existed \in BOOLEAN /\ parent \in BOOLEAN /\ (existed => parent)
    /\ write_call \in [FileWriters -> WriteCalls]
    /\ write_at = [w \in FileWriters |-> "run"]
    /\ target_mode = [w \in FileWriters |-> DefaultMode]
    /\ blocks = [w \in FileWriters |-> 0] /\ synced = blocks
    /\ temps = {} /\ renamed = <<>> /\ on_disk = 0 /\ flushed = {}
    /\ outcome = [w \in FileWriters |-> "none"]
    /\ reading = [r \in FileReaders |-> "run"]
    /\ power = TRUE

WriterAt(w, where) == power /\ write_at[w] = where
GoTo(w, where) == write_at' = [write_at EXCEPT ![w] = where]
Answers(w, code) == GoTo(w, "returned") /\ outcome' = [outcome EXCEPT ![w] = code]

-----------------------------------------------------------------------------
(* fs.write_text *)

\* run() up to the write: nothing is touched.
write_text_run(w) ==
    LET c == write_call[w] IN
    /\ WriterAt(w, "run")
    /\ CASE ~c.inside -> Answers(w, "WORKSPACE_VIOLATION")
         [] c.inside /\ ~c.encodes -> Answers(w, "ENCODE_ERROR")
         [] c.inside /\ c.encodes /\ ~c.fits -> Answers(w, "BODY_TOO_LARGE")
         [] c.inside /\ c.encodes /\ c.fits ->
              IF c.dry_run THEN Answers(w, "OK") ELSE GoTo(w, "prepare") /\ UNCHANGED outcome
    /\ UNCHANGED <<existed, parent, write_call, target_mode, blocks, synced, temps, renamed,
                   on_disk, flushed, reading, power>>

\* _prepare_atomic_write_parent: mkdir, then the directory must be there.
prepare_atomic_write_parent(w) ==
    /\ WriterAt(w, "prepare")
    /\ \/ /\ parent \/ write_call[w].create_parents
          /\ parent' = TRUE /\ GoTo(w, "open") /\ UNCHANGED outcome
       \/ /\ parent' \in {parent, parent \/ write_call[w].create_parents}
          /\ Answers(w, "TOOL_ERROR")
    /\ UNCHANGED <<existed, write_call, target_mode, blocks, synced, temps, renamed, on_disk,
                   flushed, reading, power>>

\* The mode of the file that is there now, and a temporary file of a new name.
open_temp(w) ==
    /\ WriterAt(w, "open")
    /\ target_mode' = [target_mode EXCEPT ![w] = IF TargetExists THEN ModeOf(TargetFile) ELSE DefaultMode]
    /\ temps' = temps \cup {w} /\ GoTo(w, "write")
    /\ UNCHANGED <<existed, parent, write_call, blocks, synced, renamed, on_disk, flushed, outcome,
                   reading, power>>

write_block(w) ==
    /\ WriterAt(w, "write") /\ blocks[w] < Whole
    /\ blocks' = [blocks EXCEPT ![w] = @ + 1]
    /\ UNCHANGED <<existed, parent, write_call, write_at, target_mode, synced, temps, renamed,
                   on_disk, flushed, outcome, reading, power>>

\* Mutant: the data is left to the system.
fsync_temp_Skipped(w) ==
    /\ WriterAt(w, "write") /\ blocks[w] = Whole /\ GoTo(w, "replace")
    /\ UNCHANGED <<existed, parent, write_call, target_mode, blocks, synced, temps, renamed, on_disk,
                   flushed, outcome, reading, power>>

\* fsync of the file; fchmod
fsync_temp(w) ==
    /\ WriterAt(w, "write") /\ blocks[w] = Whole
    /\ synced' = [synced EXCEPT ![w] = blocks[w]] /\ GoTo(w, "replace")
    /\ UNCHANGED <<existed, parent, write_call, target_mode, blocks, temps, renamed, on_disk,
                   flushed, outcome, reading, power>>

replace(w) ==
    /\ WriterAt(w, "replace")
    /\ renamed' = Append(renamed, w) /\ temps' = temps \ {w} /\ GoTo(w, "sync_directory")
    /\ UNCHANGED <<existed, parent, write_call, target_mode, blocks, synced, on_disk, flushed,
                   outcome, reading, power>>

\* _fsync_directory: an error is suppressed.
fsync_directory(w) ==
    /\ WriterAt(w, "sync_directory")
    /\ \/ on_disk' = Len(renamed) /\ flushed' = flushed \cup {w}
       \/ UNCHANGED <<on_disk, flushed>>
    /\ Answers(w, "OK")
    /\ UNCHANGED <<existed, parent, write_call, target_mode, blocks, synced, temps, renamed, reading,
                   power>>

\* Any of the calls before the rename fails, the rename included: the finally block.
WriteFails(w) ==
    /\ \E where \in {"open", "write", "replace"} : WriterAt(w, where)
    /\ GoTo(w, "cleanup")
    /\ UNCHANGED <<existed, parent, write_call, target_mode, blocks, synced, temps, renamed, on_disk,
                   flushed, outcome, reading, power>>

\* unlink; an error is suppressed.
unlink_temp(w) ==
    /\ WriterAt(w, "cleanup")
    /\ temps' \in {temps, temps \ {w}} /\ Answers(w, "TOOL_ERROR")
    /\ UNCHANGED <<existed, parent, write_call, target_mode, blocks, synced, renamed, on_disk,
                   flushed, reading, power>>

-----------------------------------------------------------------------------
(* fs.read_text *)

read_text_exists(r) ==
    /\ power /\ reading[r] = "run"
    /\ reading' = [reading EXCEPT ![r] = IF TargetExists THEN "open" ELSE "NOT_FOUND"]
    /\ UNCHANGED <<existed, parent, write_call, write_at, target_mode, blocks, synced, temps, renamed,
                   on_disk, flushed, outcome, power>>

\* open and read, or an OSError; a rename afterwards does not change what is read.
read_text_open(r) ==
    /\ power /\ reading[r] = "open"
    /\ reading' \in {[reading EXCEPT ![r] = TargetFile], [reading EXCEPT ![r] = "TOOL_ERROR"]}
    /\ UNCHANGED <<existed, parent, write_call, write_at, target_mode, blocks, synced, temps, renamed,
                   on_disk, flushed, outcome, power>>

-----------------------------------------------------------------------------
(* Faults *)

Killed(w) ==
    /\ power /\ write_at[w] \notin {"run", "returned", "killed"}
    /\ GoTo(w, "killed")
    /\ UNCHANGED <<existed, parent, write_call, target_mode, blocks, synced, temps, renamed, on_disk,
                   flushed, outcome, reading, power>>

\* What was not synced is lost from some point on.
PowerLoss ==
    /\ power /\ power' = FALSE
    /\ \E n \in on_disk..Len(renamed) :
         /\ renamed' = SubSeq(renamed, 1, n)
         /\ temps' = temps \cup {renamed[i] : i \in n+1..Len(renamed)}
    /\ blocks' \in {b \in [FileWriters -> 0..Whole] :
                      \A w \in FileWriters : synced[w] <= b[w] /\ b[w] <= blocks[w]}
    /\ UNCHANGED <<existed, parent, write_call, write_at, target_mode, synced, on_disk, flushed,
                   outcome, reading>>

FileNext ==
    \/ \E w \in FileWriters :
         \/ write_text_run(w) \/ prepare_atomic_write_parent(w) \/ open_temp(w) \/ write_block(w)
         \/ fsync_temp(w) \/ replace(w) \/ fsync_directory(w) \/ WriteFails(w) \/ unlink_temp(w)
         \/ Killed(w)
    \/ \E r \in FileReaders : read_text_exists(r) \/ read_text_open(r)
    \/ PowerLoss

FileSpec == FileInit /\ [][FileNext]_file_vars

-----------------------------------------------------------------------------
(* Properties *)

IsRenamed(w) == \E i \in DOMAIN renamed : renamed[i] = w

\* "Atomically write bytes within the workspace (temp file + replace)": whoever fails, is
\* killed or loses power, the file is the old one or the whole text of one call, keeps its
\* mode, and is never read torn; a call that failed has not written it; a call that succeeded
\* and could sync the directory is only undone by a later one; what a live process leaves
\* behind is one name that it could not remove.
WritesAreAtomic ==
    /\ TargetFile # OldFile => blocks[TargetFile] = Whole
    /\ \A r \in FileReaders : reading[r] \in FileWriters => blocks[reading[r]] = Whole
    /\ existed => ModeOf(TargetFile) = "as_it_was"
    /\ \A w \in FileWriters : outcome[w] \notin {"none", "OK"} => ~IsRenamed(w)
    /\ \A w \in flushed : IsRenamed(w)
    /\ \A w \in FileWriters : power /\ outcome[w] = "OK" /\ ~write_call[w].dry_run => IsRenamed(w)
    /\ \A w \in temps : power => outcome[w] # "OK"
    /\ \A w \in FileWriters : write_call[w].dry_run => w \notin temps /\ ~IsRenamed(w)

-----------------------------------------------------------------------------
(* The inductive invariant behind WritesAreAtomic                            *)

FileTypeOK ==
    /\ write_at \in [FileWriters -> {"run", "prepare", "open", "write", "replace", "sync_directory",
                                      "cleanup", "returned", "killed"}]
    /\ blocks \in [FileWriters -> 0..Whole] /\ synced \in [FileWriters -> 0..Whole]
    /\ renamed \in Seq(FileWriters) /\ on_disk \in 0..Len(renamed)
    /\ temps \subseteq FileWriters /\ flushed \subseteq FileWriters
    /\ DOMAIN target_mode = FileWriters /\ DOMAIN outcome = FileWriters
    /\ DOMAIN reading = FileReaders

\* What a writer that has got so far has done, and has not.
WriterInv(w) ==
    /\ synced[w] <= blocks[w]
    /\ IsRenamed(w) \/ write_at[w] = "replace" => synced[w] = Whole
    /\ IsRenamed(w) => write_at[w] \in {"sync_directory", "returned", "killed"}
    /\ existed /\ (IsRenamed(w) \/ write_at[w] \in {"write", "replace"}) => target_mode[w] = "as_it_was"
    /\ outcome[w] # "none" => write_at[w] = "returned"
    /\ outcome[w] \notin {"none", "OK"} => ~IsRenamed(w)
    /\ w \in flushed => \E i \in 1..on_disk : renamed[i] = w
    /\ write_call[w].dry_run => write_at[w] \in {"run", "returned"} /\ w \notin temps /\ ~IsRenamed(w)
    /\ power => /\ write_at[w] = "sync_directory" => IsRenamed(w)
                /\ outcome[w] = "OK" /\ ~write_call[w].dry_run => IsRenamed(w)
                /\ w \in temps => /\ write_at[w] \notin {"run", "prepare", "open", "sync_directory"}
                                  /\ outcome[w] # "OK"

FileInv ==
    /\ FileTypeOK
    /\ \A w \in FileWriters : WriterInv(w)
    /\ \A r \in FileReaders : reading[r] \in FileWriters => synced[reading[r]] = Whole
=============================================================================
