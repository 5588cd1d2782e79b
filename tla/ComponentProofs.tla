-------------------------- MODULE ComponentProofs ---------------------------
(***************************************************************************)
(* Proofs about the components around the executor: what a tool call does  *)
(* outside the database (the tools that write files, the sandbox and its   *)
(* child), the process around them, the two rows that overlapping          *)
(* transactions read, compute on and write back (the ledger row of an      *)
(* idempotency key, the suppression row of an event signature), and the    *)
(* rows of a run.                                                          *)
(***************************************************************************)
EXTENDS FileTools, ToolSandbox, ProcessLifecycle, IdempotencyLedger, EventSuppression,
        Storage, FiniteSetTheorems, TLAPS

\* Most steps are first-order; those that count or expand records cite SMT.
USE Zenon

----------------------------------------------------------------------------
(* fs.write_text: what a writer has done                                     *)

WriterPlaces == {"run", "prepare", "open", "write", "replace", "sync_directory", "cleanup",
                 "returned", "killed"}

\* A step of w leaves the other writers alone.
LEMMA OtherWriters ==
    ASSUME FileInv, NEW w \in FileWriters, FileTypeOK', WriterInv(w)',
           UNCHANGED <<existed, write_call, power, reading>>,
           \A d \in FileWriters \ {w} :
               /\ write_at'[d] = write_at[d] /\ blocks'[d] = blocks[d] /\ synced'[d] = synced[d]
               /\ target_mode'[d] = target_mode[d] /\ outcome'[d] = outcome[d]
               /\ (d \in temps' <=> d \in temps) /\ (d \in flushed' <=> d \in flushed)
               /\ (IsRenamed(d)' <=> IsRenamed(d))
               /\ (\E i \in 1..on_disk : renamed[i] = d) => \E i \in 1..on_disk' : renamed'[i] = d,
           synced[w] = Whole => synced'[w] = Whole
    PROVE  FileInv'
<1>1. ASSUME NEW d \in FileWriters \ {w} PROVE WriterInv(d)'
  BY <1>1, SMT DEF FileInv, WriterInv
<1>2. \A r \in FileReaders : reading'[r] \in FileWriters => synced'[reading'[r]] = Whole
  BY DEF FileInv
<1>. QED BY <1>1, <1>2 DEF FileInv

LEMMA FileStart == FileInit => FileInv
<1>. SUFFICES ASSUME FileInit PROVE FileInv
  OBVIOUS
<1>1. renamed = <<>> /\ DOMAIN renamed = {} /\ Len(renamed) = 0 /\ \A w : ~IsRenamed(w)
  BY SMT DEF FileInit, IsRenamed
<1>2. /\ write_at = [w \in FileWriters |-> "run"] /\ blocks = [w \in FileWriters |-> 0]
      /\ synced = [w \in FileWriters |-> 0] /\ outcome = [w \in FileWriters |-> "none"]
      /\ reading = [r \in FileReaders |-> "run"] /\ temps = {} /\ flushed = {} /\ on_disk = 0
      /\ DOMAIN target_mode = FileWriters
  BY DEF FileInit
<1>3. FileTypeOK
  BY <1>1, <1>2, SMT DEF FileTypeOK, Whole
<1>4. ASSUME NEW w \in FileWriters PROVE WriterInv(w)
  <2>1. /\ write_at[w] = "run" /\ blocks[w] = 0 /\ synced[w] = 0 /\ outcome[w] = "none"
        /\ w \notin temps /\ w \notin flushed /\ ~IsRenamed(w)
    BY <1>1, <1>2
  <2>. QED BY <2>1, SMT DEF WriterInv
<1>5. \A r \in FileReaders : reading[r] \notin FileWriters
  BY <1>2, FileWritersNamed
<1>. QED BY <1>3, <1>4, <1>5 DEF FileInv

\* A step of w without a rename or a sync of the directory: where it goes, its outcome, its
\* mode, the blocks written and synced.
WriterDoes(w, where, code, mode, n, m) ==
    /\ FileTypeOK'
    /\ UNCHANGED <<existed, write_call, power, reading, renamed, on_disk, flushed>>
    /\ \A d \in FileWriters \ {w} :
        /\ write_at'[d] = write_at[d] /\ blocks'[d] = blocks[d] /\ synced'[d] = synced[d]
        /\ target_mode'[d] = target_mode[d] /\ outcome'[d] = outcome[d] /\ (d \in temps' <=> d \in temps)
    /\ write_at'[w] = where /\ outcome'[w] = code /\ target_mode'[w] = mode
    /\ blocks'[w] = n /\ synced'[w] = m

\* When such a step is one that a writer may do.
WriterMay(w, where, code, mode, n, m) ==
    /\ m >= synced[w] /\ m <= n
    /\ where = "replace" => m = Whole
    /\ IsRenamed(w) => where \in {"returned", "killed"} /\ mode = target_mode[w] /\ code \in {"none", "OK"}
    /\ existed /\ where \in {"write", "replace"} => mode = "as_it_was"
    /\ code # "none" => where = "returned"
    /\ write_call[w].dry_run => where = "returned" /\ w \notin temps'
    /\ where # "sync_directory"
    /\ power /\ code = "OK" /\ ~write_call[w].dry_run => IsRenamed(w)
    /\ power /\ w \in temps' => where \notin {"run", "prepare", "open"} /\ code # "OK"

LEMMA WriterStep ==
    ASSUME FileInv, NEW w \in FileWriters, NEW where, NEW code, NEW mode, NEW n, NEW m,
           WriterDoes(w, where, code, mode, n, m), WriterMay(w, where, code, mode, n, m)
    PROVE  FileInv'
<1>1. FileTypeOK'
  BY DEF WriterDoes
<1>2. \A d : IsRenamed(d)' <=> IsRenamed(d)
  BY DEF IsRenamed, WriterDoes
<1>3. /\ write_at'[w] = where /\ outcome'[w] = code /\ target_mode'[w] = mode
      /\ blocks'[w] = n /\ synced'[w] = m
      /\ UNCHANGED <<existed, write_call, power, reading, renamed, on_disk, flushed>>
  BY DEF WriterDoes
<1>4. synced[w] \in 0..Whole /\ m \in 0..Whole /\ WriterInv(w)
  BY <1>1, <1>3 DEF FileInv, FileTypeOK
<1>5. IsRenamed(w) => m = Whole
  BY <1>4, SMT DEF WriterInv, WriterMay, Whole
<1>6. WriterInv(w)'
  BY <1>2, <1>3, <1>4, <1>5 DEF WriterInv, WriterMay
<1>7. synced[w] = Whole => synced'[w] = Whole
  BY <1>3, <1>4, SMT DEF WriterMay, Whole
<1>8. \A d \in FileWriters \ {w} :
        /\ write_at'[d] = write_at[d] /\ blocks'[d] = blocks[d] /\ synced'[d] = synced[d]
        /\ target_mode'[d] = target_mode[d] /\ outcome'[d] = outcome[d] /\ (d \in temps' <=> d \in temps)
  BY DEF WriterDoes
<1>. QED BY <1>1, <1>2, <1>3, <1>6, <1>7, <1>8, OtherWriters

\* What a writer at a place before the rename has not done yet.
LEMMA NotRenamedYet ==
    ASSUME FileInv, NEW w \in FileWriters,
           write_at[w] \in {"run", "prepare", "open", "write", "replace", "cleanup"}
    PROVE  /\ ~IsRenamed(w) /\ outcome[w] = "none"
           /\ (write_at[w] # "run" => ~write_call[w].dry_run)
           /\ synced[w] \in 0..Whole /\ blocks[w] \in 0..Whole /\ synced[w] <= blocks[w]
           /\ (existed /\ write_at[w] \in {"write", "replace"} => target_mode[w] = "as_it_was")
           /\ (power /\ write_at[w] \in {"run", "prepare", "open"} => w \notin temps)
           /\ (write_call[w].dry_run => w \notin temps)
BY DEF FileInv, FileTypeOK, WriterInv

LEMMA RunKeepsFiles ==
    ASSUME FileInv, NEW w \in FileWriters, write_text_run(w) PROVE FileInv'
<1>1. /\ power /\ write_at[w] = "run"
      /\ UNCHANGED <<existed, parent, write_call, target_mode, blocks, synced, temps, renamed,
                     on_disk, flushed, reading, power>>
  BY DEF write_text_run, WriterAt
<1>2. \/ \E code \in {"WORKSPACE_VIOLATION", "ENCODE_ERROR", "BODY_TOO_LARGE"} : Answers(w, code)
      \/ write_call[w].dry_run /\ Answers(w, "OK")
      \/ ~write_call[w].dry_run /\ GoTo(w, "prepare") /\ UNCHANGED outcome
  BY DEF write_text_run
<1>3. ASSUME NEW code, Answers(w, code), code # "none", code = "OK" => write_call[w].dry_run
      PROVE  FileInv'
  <2>1. WriterDoes(w, "returned", code, target_mode[w], blocks[w], synced[w])
    BY <1>1, <1>3, NotRenamedYet DEF WriterDoes, Answers, GoTo, FileInv, FileTypeOK
  <2>m. WriterMay(w, "returned", code, target_mode[w], blocks[w], synced[w])
    BY <1>1, <1>3, NotRenamedYet, SMT DEF WriterMay
  <2>. QED BY <2>1, <2>m, WriterStep
<1>4. CASE ~write_call[w].dry_run /\ GoTo(w, "prepare") /\ UNCHANGED outcome
  <2>1. WriterDoes(w, "prepare", "none", target_mode[w], blocks[w], synced[w])
    BY <1>1, <1>4, NotRenamedYet DEF WriterDoes, GoTo, FileInv, FileTypeOK
  <2>m. WriterMay(w, "prepare", "none", target_mode[w], blocks[w], synced[w])
    BY <1>1, <1>4, NotRenamedYet, SMT DEF WriterMay
  <2>. QED BY <2>1, <2>m, WriterStep
<1>. QED BY <1>2, <1>3, <1>4

LEMMA PrepareKeepsFiles ==
    ASSUME FileInv, NEW w \in FileWriters, prepare_atomic_write_parent(w) PROVE FileInv'
<1>1. /\ power /\ write_at[w] = "prepare"
      /\ UNCHANGED <<existed, write_call, target_mode, blocks, synced, temps, renamed, on_disk,
                     flushed, reading, power>>
  BY DEF prepare_atomic_write_parent, WriterAt
<1>2. CASE GoTo(w, "open") /\ UNCHANGED outcome
  <2>1. WriterDoes(w, "open", "none", target_mode[w], blocks[w], synced[w])
    BY <1>1, <1>2, NotRenamedYet DEF WriterDoes, GoTo, FileInv, FileTypeOK
  <2>m. WriterMay(w, "open", "none", target_mode[w], blocks[w], synced[w])
    BY <1>1, <1>2, NotRenamedYet, SMT DEF WriterMay
  <2>. QED BY <2>1, <2>m, WriterStep
<1>3. CASE Answers(w, "TOOL_ERROR")
  <2>1. WriterDoes(w, "returned", "TOOL_ERROR", target_mode[w], blocks[w], synced[w])
    BY <1>1, <1>3, NotRenamedYet DEF WriterDoes, Answers, GoTo, FileInv, FileTypeOK
  <2>m. WriterMay(w, "returned", "TOOL_ERROR", target_mode[w], blocks[w], synced[w])
    BY <1>1, <1>3, NotRenamedYet, SMT DEF WriterMay
  <2>. QED BY <2>1, <2>m, WriterStep
<1>. QED BY <1>2, <1>3 DEF prepare_atomic_write_parent

\* A file that was there has its mode, whoever replaced it.
LEMMA ModeIsKept == FileInv /\ existed => ModeOf(TargetFile) = "as_it_was"
<1>. SUFFICES ASSUME FileInv, existed, renamed # <<>> PROVE target_mode[renamed[Len(renamed)]] = "as_it_was"
  BY FileWritersNamed DEF ModeOf, TargetFile
<1>1. Len(renamed) \in DOMAIN renamed /\ renamed[Len(renamed)] \in FileWriters
  BY SMT DEF FileInv, FileTypeOK
<1>2. IsRenamed(renamed[Len(renamed)]) /\ renamed[Len(renamed)] \in FileWriters
  BY <1>1 DEF IsRenamed
<1>. QED BY <1>2 DEF FileInv, WriterInv

LEMMA OpenKeepsFiles ==
    ASSUME FileInv, NEW w \in FileWriters, open_temp(w) PROVE FileInv'
<1>1. /\ power /\ write_at[w] = "open" /\ GoTo(w, "write") /\ temps' = temps \cup {w}
      /\ UNCHANGED <<existed, write_call, blocks, synced, renamed, on_disk, flushed, outcome,
                     reading, power>>
  BY DEF open_temp, WriterAt
<1>2. PICK mode : target_mode' = [target_mode EXCEPT ![w] = mode] /\ (existed => mode = "as_it_was")
  BY ModeIsKept DEF open_temp, TargetExists
<1>3. WriterDoes(w, "write", "none", mode, blocks[w], synced[w])
  BY <1>1, <1>2, NotRenamedYet DEF WriterDoes, GoTo, FileInv, FileTypeOK
<1>m. WriterMay(w, "write", "none", mode, blocks[w], synced[w])
  BY <1>1, <1>2, NotRenamedYet, SMT DEF WriterMay
<1>. QED BY <1>3, <1>m, WriterStep

LEMMA BlockKeepsFiles ==
    ASSUME FileInv, NEW w \in FileWriters, write_block(w) PROVE FileInv'
<1>1. /\ power /\ write_at[w] = "write" /\ blocks[w] < Whole /\ blocks' = [blocks EXCEPT ![w] = @ + 1]
      /\ UNCHANGED <<existed, write_call, write_at, target_mode, synced, temps, renamed,
                     on_disk, flushed, outcome, reading, power>>
  BY DEF write_block, WriterAt
<1>2. blocks[w] + 1 \in 0..Whole /\ synced[w] <= blocks[w] + 1 /\ synced[w] >= synced[w]
  BY <1>1, NotRenamedYet, SMT DEF Whole
<1>3. WriterDoes(w, "write", "none", target_mode[w], blocks[w] + 1, synced[w])
  BY <1>1, <1>2, NotRenamedYet DEF WriterDoes, FileInv, FileTypeOK
<1>m. WriterMay(w, "write", "none", target_mode[w], blocks[w] + 1, synced[w])
  BY <1>1, <1>2, NotRenamedYet DEF WriterMay
<1>. QED BY <1>3, <1>m, WriterStep

LEMMA SyncKeepsFiles ==
    ASSUME FileInv, NEW w \in FileWriters, fsync_temp(w) PROVE FileInv'
<1>1. /\ power /\ write_at[w] = "write" /\ blocks[w] = Whole /\ GoTo(w, "replace")
      /\ synced' = [synced EXCEPT ![w] = blocks[w]]
      /\ UNCHANGED <<existed, write_call, target_mode, blocks, temps, renamed, on_disk,
                     flushed, outcome, reading, power>>
  BY DEF fsync_temp, WriterAt
<1>2. Whole >= synced[w] /\ Whole <= Whole
  BY NotRenamedYet, <1>1, SMT DEF Whole
<1>3. WriterDoes(w, "replace", "none", target_mode[w], Whole, Whole)
  BY <1>1, NotRenamedYet DEF WriterDoes, GoTo, FileInv, FileTypeOK
<1>m. WriterMay(w, "replace", "none", target_mode[w], Whole, Whole)
  BY <1>1, <1>2, NotRenamedYet DEF WriterMay
<1>. QED BY <1>3, <1>m, WriterStep

LEMMA FailureKeepsFiles ==
    ASSUME FileInv, NEW w \in FileWriters, WriteFails(w) \/ unlink_temp(w) \/ Killed(w)
    PROVE  FileInv'
<1>0. UNCHANGED <<existed, write_call, target_mode, blocks, synced, renamed, on_disk, flushed,
                  reading, power>>
  BY DEF WriteFails, unlink_temp, Killed
<1>a. synced[w] >= synced[w] /\ synced[w] <= blocks[w]
  BY SMT DEF FileInv, FileTypeOK, WriterInv
<1>1. CASE WriteFails(w)
  <2>1. power /\ write_at[w] \in {"open", "write", "replace"} /\ GoTo(w, "cleanup") /\ UNCHANGED <<temps, outcome>>
    BY <1>1 DEF WriteFails, WriterAt
  <2>2. WriterDoes(w, "cleanup", "none", target_mode[w], blocks[w], synced[w])
    BY <1>0, <1>a, <2>1, NotRenamedYet DEF WriterDoes, GoTo, FileInv, FileTypeOK
  <2>m. WriterMay(w, "cleanup", "none", target_mode[w], blocks[w], synced[w])
    BY <1>0, <1>a, <2>1, NotRenamedYet DEF WriterMay
  <2>. QED BY <2>2, <2>m, WriterStep
<1>2. CASE unlink_temp(w)
  <2>1. power /\ write_at[w] = "cleanup" /\ Answers(w, "TOOL_ERROR") /\ temps' \in {temps, temps \ {w}}
    BY <1>2 DEF unlink_temp, WriterAt
  <2>2. WriterDoes(w, "returned", "TOOL_ERROR", target_mode[w], blocks[w], synced[w])
    BY <1>0, <1>a, <2>1, NotRenamedYet DEF WriterDoes, Answers, GoTo, FileInv, FileTypeOK
  <2>m. WriterMay(w, "returned", "TOOL_ERROR", target_mode[w], blocks[w], synced[w])
    BY <1>0, <1>a, <2>1, NotRenamedYet DEF WriterMay
  <2>. QED BY <2>2, <2>m, WriterStep
<1>3. CASE Killed(w)
  <2>1. power /\ write_at[w] \notin {"run", "returned", "killed"} /\ GoTo(w, "killed") /\ UNCHANGED <<temps, outcome>>
    BY <1>3 DEF Killed
  <2>2. outcome[w] = "none" /\ ~write_call[w].dry_run
    BY <2>1 DEF FileInv, WriterInv
  <2>3. WriterDoes(w, "killed", "none", target_mode[w], blocks[w], synced[w])
    BY <1>0, <1>a, <2>1, <2>2 DEF WriterDoes, GoTo, FileInv, FileTypeOK
  <2>m. WriterMay(w, "killed", "none", target_mode[w], blocks[w], synced[w])
    BY <1>0, <1>a, <2>1, <2>2 DEF WriterMay
  <2>. QED BY <2>3, <2>m, WriterStep
<1>. QED BY <1>1, <1>2, <1>3

LEMMA ReplaceKeepsFiles ==
    ASSUME FileInv, NEW w \in FileWriters, replace(w) PROVE FileInv'
<1>1. /\ power /\ write_at[w] = "replace" /\ GoTo(w, "sync_directory")
      /\ renamed' = Append(renamed, w) /\ temps' = temps \ {w}
      /\ UNCHANGED <<existed, write_call, target_mode, blocks, synced, on_disk, flushed, outcome,
                     reading, power>>
  BY DEF replace, WriterAt
<1>2. /\ renamed \in Seq(FileWriters) /\ Len(renamed) \in Nat /\ on_disk \in 0..Len(renamed)
      /\ renamed' \in Seq(FileWriters) /\ Len(renamed') = Len(renamed) + 1
      /\ DOMAIN renamed = 1..Len(renamed) /\ DOMAIN renamed' = 1..(Len(renamed) + 1)
      /\ \A i \in 1..Len(renamed) : renamed'[i] = renamed[i]
      /\ renamed'[Len(renamed) + 1] = w
  BY <1>1, SMT DEF FileInv, FileTypeOK
<1>3. FileTypeOK'
  BY <1>1, <1>2, SMT DEF FileInv, FileTypeOK, GoTo
<1>4. IsRenamed(w)'
  BY <1>2, SMT DEF IsRenamed
<1>5. ASSUME NEW d \in FileWriters \ {w} PROVE IsRenamed(d)' <=> IsRenamed(d)
  <2>1. ASSUME NEW i \in DOMAIN renamed', renamed'[i] = d PROVE i \in DOMAIN renamed /\ renamed[i] = d
    <3>1. i # Len(renamed) + 1
      BY <1>2, <2>1
    <3>2. i \in 1..Len(renamed)
      BY <1>2, <3>1, SMT
    <3>. QED BY <1>2, <2>1, <3>2
  <2>2. ASSUME NEW i \in DOMAIN renamed PROVE i \in DOMAIN renamed' /\ renamed'[i] = renamed[i]
    BY <1>2, SMT
  <2>. QED BY <2>1, <2>2 DEF IsRenamed
<1>6. \A i \in 1..on_disk : renamed'[i] = renamed[i]
  BY <1>2, SMT
<1>7. /\ ~IsRenamed(w) /\ outcome[w] = "none" /\ ~write_call[w].dry_run /\ synced[w] = Whole
      /\ (existed => target_mode[w] = "as_it_was") /\ w \notin flushed /\ synced[w] <= blocks[w]
  <2>1. WriterInv(w)
    BY DEF FileInv
  <2>2. ~IsRenamed(w)
    BY <1>1, <2>1 DEF WriterInv
  <2>3. \A i \in 1..on_disk : i \in DOMAIN renamed
    BY <1>2, SMT
  <2>4. w \notin flushed
    BY <2>1, <2>2, <2>3 DEF WriterInv, IsRenamed
  <2>. QED BY <1>1, <2>1, <2>2, <2>4 DEF WriterInv
<1>8. WriterInv(w)'
  BY <1>1, <1>4, <1>7 DEF WriterInv, GoTo, FileInv, FileTypeOK
<1>9. \A d \in FileWriters \ {w} : write_at'[d] = write_at[d] /\ (d \in temps' <=> d \in temps)
  BY <1>1 DEF GoTo, FileInv, FileTypeOK
<1>. QED BY <1>1, <1>3, <1>5, <1>6, <1>8, <1>9, OtherWriters

LEMMA DirectoryKeepsFiles ==
    ASSUME FileInv, NEW w \in FileWriters, fsync_directory(w) PROVE FileInv'
<1>1. /\ power /\ write_at[w] = "sync_directory" /\ Answers(w, "OK")
      /\ UNCHANGED <<existed, write_call, target_mode, blocks, synced, temps, renamed, reading, power>>
      /\ \/ on_disk' = Len(renamed) /\ flushed' = flushed \cup {w}
         \/ UNCHANGED <<on_disk, flushed>>
  BY DEF fsync_directory, WriterAt
<1>2. Len(renamed) \in Nat /\ on_disk \in 0..Len(renamed) /\ DOMAIN renamed = 1..Len(renamed)
  BY SMT DEF FileInv, FileTypeOK
<1>3. on_disk' \in 0..Len(renamed) /\ \A i \in 1..on_disk : i \in 1..on_disk'
  BY <1>1, <1>2, SMT
<1>4. FileTypeOK'
  BY <1>1, <1>3 DEF FileInv, FileTypeOK, Answers, GoTo
<1>5. \A d : IsRenamed(d)' <=> IsRenamed(d)
  BY <1>1 DEF IsRenamed
<1>6. write_at'[w] = "returned" /\ outcome'[w] = "OK"
  BY <1>1 DEF FileInv, FileTypeOK, Answers, GoTo
<1>7. /\ IsRenamed(w) /\ ~write_call[w].dry_run /\ w \notin temps /\ synced[w] = Whole
      /\ (existed => target_mode[w] = "as_it_was") /\ synced[w] <= blocks[w]
      /\ (w \in flushed => \E i \in 1..on_disk : renamed[i] = w)
  BY <1>1 DEF FileInv, WriterInv
<1>8. w \in flushed' => \E i \in 1..on_disk' : renamed'[i] = w
  <2>1. CASE on_disk' = Len(renamed)
    BY <1>1, <1>2, <1>7, <2>1 DEF IsRenamed
  <2>2. CASE UNCHANGED <<on_disk, flushed>>
    BY <1>1, <1>7, <2>2
  <2>. QED BY <1>1, <2>1, <2>2
<1>9. WriterInv(w)'
  BY <1>1, <1>5, <1>6, <1>7, <1>8 DEF WriterInv
<1>10. \A d \in FileWriters \ {w} : /\ write_at'[d] = write_at[d] /\ outcome'[d] = outcome[d]
                                    /\ (d \in flushed' <=> d \in flushed)
  BY <1>1 DEF FileInv, FileTypeOK, Answers, GoTo
<1>. QED BY <1>1, <1>3, <1>4, <1>5, <1>9, <1>10, OtherWriters

LEMMA ReadKeepsFiles ==
    ASSUME FileInv, NEW r \in FileReaders, read_text_exists(r) \/ read_text_open(r) PROVE FileInv'
<1>1. UNCHANGED <<existed, write_call, write_at, target_mode, blocks, synced, temps, renamed,
                  on_disk, flushed, outcome, power>>
  BY DEF read_text_exists, read_text_open
<1>2. \A w : IsRenamed(w)' <=> IsRenamed(w)
  BY <1>1 DEF IsRenamed
<1>3. \A w \in FileWriters : WriterInv(w)'
  BY <1>1, <1>2 DEF FileInv, WriterInv
<1>4. TargetFile \in FileWriters => synced[TargetFile] = Whole
  <2>. SUFFICES ASSUME renamed # <<>> PROVE synced[renamed[Len(renamed)]] = Whole
    BY FileWritersNamed DEF TargetFile
  <2>1. Len(renamed) \in DOMAIN renamed /\ renamed[Len(renamed)] \in FileWriters
    BY SMT DEF FileInv, FileTypeOK
  <2>2. IsRenamed(renamed[Len(renamed)]) /\ renamed[Len(renamed)] \in FileWriters
    BY <2>1 DEF IsRenamed
  <2>. QED BY <2>2 DEF FileInv, WriterInv
<1>5. PICK x : reading' = [reading EXCEPT ![r] = x] /\ x \in {"open", "NOT_FOUND", "TOOL_ERROR", TargetFile}
  BY DEF read_text_exists, read_text_open
<1>6. x \in FileWriters => synced[x] = Whole
  BY <1>4, <1>5, FileWritersNamed
<1>7. FileTypeOK'
  BY <1>1, <1>5 DEF FileInv, FileTypeOK
<1>8. \A q \in FileReaders : reading'[q] \in FileWriters => synced'[reading'[q]] = Whole
  BY <1>1, <1>5, <1>6 DEF FileInv, FileTypeOK
<1>. QED BY <1>3, <1>7, <1>8 DEF FileInv

\* What is on disk is whole.
LEMMA LossKeepsFiles == FileInv /\ PowerLoss => FileInv'
<1>. SUFFICES ASSUME FileInv, PowerLoss PROVE FileInv'
  OBVIOUS
<1>1. /\ power' = FALSE
      /\ UNCHANGED <<existed, write_call, write_at, target_mode, synced, on_disk, flushed,
                     outcome, reading>>
      /\ blocks' \in [FileWriters -> 0..Whole]
      /\ \A w \in FileWriters : synced[w] <= blocks'[w]
  BY DEF PowerLoss
<1>2. PICK n \in on_disk..Len(renamed) :
        /\ renamed' = SubSeq(renamed, 1, n)
        /\ temps' = temps \cup {renamed[i] : i \in n+1..Len(renamed)}
  BY DEF PowerLoss
<1>3. /\ renamed \in Seq(FileWriters) /\ Len(renamed) \in Nat /\ on_disk \in 0..Len(renamed)
      /\ DOMAIN renamed = 1..Len(renamed)
  BY SMT DEF FileInv, FileTypeOK
<1>4. n \in 0..Len(renamed) /\ \A i \in 1..n : i \in DOMAIN renamed /\ renamed[i] \in FileWriters
  BY <1>3, SMT
<1>5. /\ renamed' \in Seq(FileWriters) /\ Len(renamed') = n /\ DOMAIN renamed' = 1..n
      /\ \A i \in 1..n : renamed'[i] = renamed[i]
  <2>1. /\ SubSeq(renamed, 1, n) \in Seq(FileWriters)
        /\ Len(SubSeq(renamed, 1, n)) = IF 1 <= n THEN n - 1 + 1 ELSE 0
        /\ \A i \in 1..(n - 1 + 1) : SubSeq(renamed, 1, n)[i] = renamed[1 + i - 1]
    BY <1>3, <1>4, SMT
  <2>2. n \in Nat
    BY <1>3, <1>4, SMT
  <2>3. \A i \in 1..n : 1 + i - 1 = i
    BY <2>2, SMT
  <2>4. n - 1 + 1 = n /\ (IF 1 <= n THEN n - 1 + 1 ELSE 0) = n
    BY <2>2, SMT
  <2>. QED BY <1>2, <2>1, <2>2, <2>3, <2>4, SMT
<1>6. on_disk' \in 0..Len(renamed') /\ \A i \in 1..on_disk : i \in 1..n
  BY <1>1, <1>3, <1>4, <1>5, SMT
<1>7. \A w : IsRenamed(w)' => IsRenamed(w)
  BY <1>4, <1>5 DEF IsRenamed
<1>8. \A w \in temps' : w \in temps \/ IsRenamed(w)
  <2>1. \A i \in n+1..Len(renamed) : i \in DOMAIN renamed
    BY <1>3, <1>4, SMT
  <2>. QED BY <1>2, <2>1 DEF IsRenamed
<1>9. temps' \subseteq FileWriters
  BY <1>3, <1>8, SMT DEF FileInv, FileTypeOK, IsRenamed
<1>10. FileTypeOK'
  BY <1>1, <1>5, <1>6, <1>9 DEF FileInv, FileTypeOK
<1>11. ASSUME NEW w \in FileWriters PROVE WriterInv(w)'
  <2>1. WriterInv(w)
    BY DEF FileInv
  <2>2. w \in flushed => \E i \in 1..on_disk : renamed'[i] = w
    BY <1>5, <1>6, <2>1 DEF WriterInv
  <2>. QED BY <1>1, <1>7, <1>8, <2>1, <2>2 DEF WriterInv
<1>. QED BY <1>1, <1>10, <1>11 DEF FileInv

LEMMA FileStep == FileInv /\ [FileNext]_file_vars => FileInv'
<1>. SUFFICES ASSUME FileInv, [FileNext]_file_vars PROVE FileInv'
  OBVIOUS
<1>1. CASE UNCHANGED file_vars
  <2>1. \A w : IsRenamed(w)' <=> IsRenamed(w)
    BY <1>1 DEF IsRenamed, file_vars
  <2>2. FileTypeOK'
    BY <1>1 DEF FileInv, FileTypeOK, file_vars
  <2>3. \A w \in FileWriters : WriterInv(w)'
    BY <1>1, <2>1 DEF FileInv, WriterInv, file_vars
  <2>. QED BY <1>1, <2>2, <2>3 DEF FileInv, file_vars
<1>. QED BY <1>1, RunKeepsFiles, PrepareKeepsFiles, OpenKeepsFiles, BlockKeepsFiles, SyncKeepsFiles,
            ReplaceKeepsFiles, DirectoryKeepsFiles, FailureKeepsFiles, ReadKeepsFiles, LossKeepsFiles
         DEF FileNext

LEMMA AtomicFromInv == FileInv => WritesAreAtomic
<1>. SUFFICES ASSUME FileInv PROVE WritesAreAtomic
  OBVIOUS
<1>2. \A w \in FileWriters : synced[w] = Whole => blocks[w] = Whole
  <2>1. \A w \in FileWriters : synced[w] <= blocks[w] /\ blocks[w] \in 0..Whole
    BY DEF FileInv, FileTypeOK, WriterInv
  <2>. QED BY <2>1, SMT DEF Whole
<1>3. TargetFile # OldFile => TargetFile \in FileWriters /\ IsRenamed(TargetFile)
  <2>. SUFFICES ASSUME renamed # <<>> PROVE renamed[Len(renamed)] \in FileWriters /\ IsRenamed(renamed[Len(renamed)])
    BY DEF TargetFile
  <2>1. Len(renamed) \in DOMAIN renamed /\ renamed[Len(renamed)] \in FileWriters
    BY SMT DEF FileInv, FileTypeOK
  <2>. QED BY <2>1 DEF IsRenamed
<1>4. TargetFile # OldFile => blocks[TargetFile] = Whole
  BY <1>2, <1>3 DEF FileInv, WriterInv
<1>5. \A r \in FileReaders : reading[r] \in FileWriters => blocks[reading[r]] = Whole
  BY <1>2 DEF FileInv
<1>6. existed => ModeOf(TargetFile) = "as_it_was"
  BY ModeIsKept
<1>7. \A w \in FileWriters : outcome[w] \notin {"none", "OK"} => ~IsRenamed(w)
  BY DEF FileInv, WriterInv
<1>8. \A w \in flushed : IsRenamed(w)
  <2>1. /\ flushed \subseteq FileWriters /\ \A i \in 1..on_disk : i \in DOMAIN renamed
    <3>1. flushed \subseteq FileWriters /\ on_disk \in 0..Len(renamed) /\ DOMAIN renamed = 1..Len(renamed)
          /\ Len(renamed) \in Nat
      BY SMT DEF FileInv, FileTypeOK
    <3>. QED BY <3>1, SMT
  <2>. QED BY <2>1 DEF FileInv, WriterInv, IsRenamed
<1>9. \A w \in FileWriters : power /\ outcome[w] = "OK" /\ ~write_call[w].dry_run => IsRenamed(w)
  BY DEF FileInv, WriterInv
<1>10. \A w \in temps : power => outcome[w] # "OK"
  BY DEF FileInv, FileTypeOK, WriterInv
<1>11. \A w \in FileWriters : write_call[w].dry_run => w \notin temps /\ ~IsRenamed(w)
  BY DEF FileInv, WriterInv
<1>. QED BY <1>4, <1>5, <1>6, <1>7, <1>8, <1>9, <1>10, <1>11 DEF WritesAreAtomic

\* atomic_write_bytes of fs_safety.py is atomic for any number of writers and readers: whoever
\* fails, is killed or loses power, the file is the old one or one whole text with its mode.
THEOREM FileWritesAreAtomic == FileSpec => []WritesAreAtomic
BY FileStart, FileStep, AtomicFromInv, PTL DEF FileSpec

-----------------------------------------------------------------------------
(* The life of a process *)

LEMMA ProcessStart == ProcessInit => ProcessInv
<1>. SUFFICES ASSUME ProcessInit PROVE ProcessInv
  OBVIOUS
<1>1. given \subseteq Resources
  BY GivenAssumption DEF ProcessInit
<1>. QED BY <1>1 DEF ProcessInit, ProcessInv, ProcessTypeOK, AllEnded, RunEnds, RunSteps, PlanningTriggers,
                     Resources, BothOpenAt

LEMMA BuildKeepsOrder == ASSUME ProcessInv, build PROVE ProcessInv'
<1>1. /\ main \in {"build_engine", "build_queue", "build_rest"}
      /\ UNCHANGED <<given, in_loop, handlers, runner, background>>
  BY DEF build, BuildEngine, build_queue, BuildNext
<1>2. AllEnded' /\ \A t \in PlanningTriggers : background[t] \notin {"waiting", "planning"}
  BY <1>1 DEF ProcessInv, AllEnded, TriggerRuns, PlanningTriggers
<1>3. CASE BuildEngine
  BY <1>1, <1>2, <1>3, SMT DEF BuildEngine, ProcessInv, ProcessTypeOK, Resources, BothOpenAt
<1>4. ASSUME NEW x \in Resources, NEW before \in {"build_queue", "build_rest"}, NEW after,
             BuildNext(x, before, after),
             <<x, before, after>> \in {<<"queue", "build_queue", "build_rest">>, <<"engine", "build_rest", "ready">>}
      PROVE  ProcessInv'
  <2>1. main = before /\ resource["engine"] = "open" /\ (before = "build_rest" => resource["queue"] = "open")
    BY <1>4 DEF BuildNext, ProcessInv
  <2>2. CASE main' = after /\ resource' = [resource EXCEPT ![x] = "open"] /\ UNCHANGED cleanup
    <3>1. /\ resource' \in [Resources -> {"none", "open", "closed", "failed"}]
          /\ \A y \in Resources : resource[y] = "open" => resource'[y] = "open"
          /\ resource'[x] = "open"
      BY <1>4, <2>2 DEF ProcessInv, ProcessTypeOK
    <3>2. (after = "ready" => \A y \in Resources : resource'[y] = "open") /\ resource'["engine"] = "open"
          /\ (after = "build_rest" => resource'["queue"] = "open") /\ after \in {"ready", "build_rest"}
      BY <1>4, <2>1, <3>1 DEF Resources
    <3>3. \A y \in given : resource'[y] = "open"
      BY <1>1, <3>1 DEF ProcessInv, ProcessTypeOK
    <3>. QED BY <1>1, <1>2, <2>2, <3>1, <3>2, <3>3 DEF ProcessInv, ProcessTypeOK, BothOpenAt
  <2>3. CASE /\ main' = "failed" /\ UNCHANGED resource
             /\ cleanup' = {y \in Resources \ given : resource[y] = "open"}
    BY <1>1, <1>2, <2>3 DEF ProcessInv, ProcessTypeOK, BothOpenAt
  <2>. QED BY <1>4, <2>2, <2>3 DEF BuildNext
<1>5. "queue" \in Resources /\ "engine" \in Resources
  BY DEF Resources
<1>. QED BY <1>3, <1>4, <1>5 DEF build, build_queue

LEMMA CleanupKeepsOrder == ASSUME ProcessInv, CleanupStep \/ BuildRaised PROVE ProcessInv'
<1>1. main = "failed" /\ UNCHANGED <<given, in_loop, handlers, runner, background>>
  BY DEF CleanupStep, BuildRaised
<1>2. AllEnded' /\ \A t \in PlanningTriggers : background[t] \notin {"waiting", "planning"}
  BY <1>1 DEF ProcessInv, AllEnded, TriggerRuns, PlanningTriggers
<1>3. CASE CleanupStep
  <2>0. cleanup # {} /\ cleanup \subseteq Resources \ given
    BY <1>3 DEF CleanupStep, ProcessInv, ProcessTypeOK
  <2>1. CloseFirst(cleanup) \in cleanup /\ CloseFirst(cleanup) \in Resources \ given
    BY <2>0 DEF CloseFirst, Resources
  <2>2. PICK end \in {"closed", "failed"} : resource' = [resource EXCEPT ![CloseFirst(cleanup)] = end]
    BY <1>3 DEF CleanupStep
  <2>3. /\ resource' \in [Resources -> {"none", "open", "closed", "failed"}]
        /\ \A y \in given : resource'[y] = "open"
        /\ \A y \in Resources \ given : resource'[y] = "open" => resource[y] = "open" /\ y # CloseFirst(cleanup)
    BY <2>1, <2>2 DEF ProcessInv, ProcessTypeOK
  <2>4. main' = "failed" /\ cleanup' = cleanup \ {CloseFirst(cleanup)}
    BY <1>1, <1>3 DEF CleanupStep
  <2>. QED BY <1>1, <1>2, <2>3, <2>4 DEF ProcessInv, ProcessTypeOK, BothOpenAt
<1>4. CASE BuildRaised
  BY <1>1, <1>2, <1>4, SMT DEF BuildRaised, ProcessInv, ProcessTypeOK, Resources, BothOpenAt
<1>. QED BY <1>3, <1>4

\* A runner moves under the main coroutine: nothing is opened or closed.
LEMMA RunnerKeepsOrder ==
    ASSUME ProcessInv, NEW r \in Runners,
           run_start(r) \/ run_loop(r) \/ dequeue_or_stop(r) \/ handle_lease(r) \/ CancelHits(r)
             \/ OrphanEnds(r) \/ run_finally(r)
    PROVE  ProcessInv'
<1>. USE DEF OnlyRunners, Go, RunSteps, RunEnds
<1>1. UNCHANGED <<given, main, in_loop, resource, cleanup, background>>
  BY DEF run_start, run_loop, dequeue_or_stop, handle_lease, CancelHits, OrphanEnds, run_finally
<1>2. 1 \in Runners /\ runner \in [Runners -> {"start"} \cup RunSteps \cup RunEnds]
      /\ (handlers => runner[1] \in RunSteps) /\ handlers \in BOOLEAN
  BY RunnersAssumption DEF ProcessInv, ProcessTypeOK
<1>3. /\ runner' \in [Runners -> {"start"} \cup RunSteps \cup RunEnds]
      /\ (handlers' => runner'[1] \in RunSteps) /\ handlers' \in BOOLEAN
      /\ \A q \in Runners : runner[q] \in RunEnds => runner'[q] = runner[q]
  <2>1. CASE run_start(r)
    BY <1>2, <2>1 DEF run_start, install_shutdown_handlers
  <2>2. CASE run_loop(r)
    BY <1>2, <2>2 DEF run_loop
  <2>3. CASE dequeue_or_stop(r)
    BY <1>2, <2>3 DEF dequeue_or_stop, DequeueAnswers
  <2>4. CASE handle_lease(r)
    BY <1>2, <2>4 DEF handle_lease
  <2>5. CASE CancelHits(r)
    BY <1>2, <2>5 DEF CancelHits
  <2>6. CASE OrphanEnds(r)
    BY <1>2, <2>6 DEF OrphanEnds
  <2>7. CASE run_finally(r)
    BY <1>2, <2>7 DEF run_finally, cleanup_signal_handlers, Outcome
  <2>. QED BY <2>1, <2>2, <2>3, <2>4, <2>5, <2>6, <2>7
<1>4. main' \notin {"run", "drain"} => AllEnded'
  BY <1>1, <1>3 DEF ProcessInv, AllEnded
<1>. QED BY <1>1, <1>3, <1>4, SMT DEF ProcessInv, ProcessTypeOK

LEMMA MainKeepsOrder ==
    ASSUME ProcessInv,
           start_worker \/ Signal \/ GatherEnds \/ GatherAll \/ Interrupt \/ start_api \/ run_command
             \/ StopServing
    PROVE  ProcessInv'
<1>1. UNCHANGED <<given, in_loop, resource, cleanup, handlers>>
  BY DEF start_worker, Signal, GatherEnds, GatherAll, Interrupt, start_api, run_command, StopServing
<1>2. CASE start_worker
  <2>1. ~handlers
    BY <1>2, RunnersAssumption DEF start_worker, ProcessInv, AllEnded, RunSteps, RunEnds
  <2>2. main = "ready" /\ background' = background /\ main' \in {"run", "close_debouncer"}
        /\ runner' \in [Runners -> {"start"} \cup RunSteps \cup RunEnds]
        /\ (main' # "run" => runner' = runner)
    BY <1>2 DEF start_worker, ProcessInv, ProcessTypeOK
  <2>. QED BY <1>1, <2>1, <2>2 DEF ProcessInv, ProcessTypeOK, AllEnded, PlanningTriggers, TriggerRuns, BothOpenAt
<1>3. CASE Signal \/ GatherEnds \/ GatherAll \/ Interrupt \/ run_command \/ StopServing
  <2>1. UNCHANGED <<runner, background>>
    BY <1>3 DEF Signal, GatherEnds, GatherAll, Interrupt, run_command, StopServing
  <2>2. \/ main' = main
        \/ main = "run" /\ main' = "drain"
        \/ main = "drain" /\ AllEnded /\ main' = "close_debouncer"
        \/ main \in {"ready", "command"} /\ main' \in {"command", "close_debouncer"}
        \/ main = "serve" /\ main' = "close_debouncer"
        \/ main \in {"close_queue", "close_engine"} /\ main' = "aborted"
    BY <1>3 DEF Signal, GatherEnds, GatherAll, Interrupt, run_command, StopServing
  <2>3. main' \notin {"run", "drain"} => AllEnded'
    BY <2>1, <2>2 DEF ProcessInv, AllEnded
  <2>4. ASSUME NEW t \in PlanningTriggers, background'[t] \in {"waiting", "planning"}
        PROVE  main' \in TriggerRuns[t]
    <3>1. main \in TriggerRuns[t]
      BY <2>1, <2>4 DEF ProcessInv
    <3>2. /\ TriggerRuns[t] \subseteq {"serve", "close_debouncer", "close_ticker"}
          /\ "close_debouncer" \in TriggerRuns[t]
      BY SMT DEF PlanningTriggers, TriggerRuns
    <3>. QED BY <2>2, <3>1, <3>2
  <2>. QED BY <1>1, <2>1, <2>2, <2>3, <2>4 DEF ProcessInv, ProcessTypeOK, BothOpenAt
<1>4. CASE start_api
  <2>1. main = "ready" /\ runner' = runner /\ main' \in {"serve", "close_debouncer"}
        /\ background' \in [PlanningTriggers -> {"none", "waiting", "planning", "closed"}]
        /\ (main' # "serve" => background' = background)
    BY <1>4 DEF start_api, ProcessInv, ProcessTypeOK
  <2>. QED BY <1>1, <2>1, SMT DEF ProcessInv, ProcessTypeOK, AllEnded, PlanningTriggers, TriggerRuns, BothOpenAt
<1>. QED BY <1>2, <1>3, <1>4

LEMMA CloseKeepsOrder ==
    ASSUME ProcessInv, aclose \/ \E t \in PlanningTriggers : PlanningCycle(t) PROVE ProcessInv'
<1>. USE DEF PlanningTriggers
<1>1. UNCHANGED <<given, in_loop, cleanup, handlers, runner>>
  BY DEF aclose, CloseTrigger, close_resource, PlanningCycle
<1>2. main' \notin {"run", "drain"} => AllEnded'
  BY <1>1 DEF ProcessInv, AllEnded, aclose, CloseTrigger, close_resource, PlanningCycle
<1>3. ASSUME NEW t \in PlanningTriggers, PlanningCycle(t) PROVE ProcessInv'
  BY <1>1, <1>2, <1>3, SMT DEF PlanningCycle, ProcessInv, ProcessTypeOK
<1>4. CASE CloseTrigger("debouncer", "close_debouncer", "close_ticker")
  BY <1>1, <1>2, <1>4, SMT DEF CloseTrigger, ProcessInv, ProcessTypeOK, TriggerRuns, BothOpenAt
<1>5. CASE CloseTrigger("ticker", "close_ticker", "close_queue")
  BY <1>1, <1>2, <1>5, SMT DEF CloseTrigger, ProcessInv, ProcessTypeOK, TriggerRuns, BothOpenAt
<1>6. ASSUME NEW x \in Resources, NEW before, NEW after, close_resource(x, before, after)
      PROVE  /\ main = before /\ main' = after /\ background' = background
             /\ resource' \in [Resources -> {"none", "open", "closed", "failed"}]
             /\ \A y \in given \cup (Resources \ {x}) : resource'[y] = resource[y]
             /\ x \in given \/ resource'[x] \in {"closed", "failed"}
  BY <1>6 DEF close_resource, ProcessInv, ProcessTypeOK
<1>7. "queue" \in Resources /\ "engine" \in Resources /\ \A x \in Resources : x \in {"queue", "engine"}
  BY DEF Resources
<1>8. CASE close_resource("queue", "close_queue", "close_engine")
  <2>1. /\ main = "close_queue" /\ main' = "close_engine" /\ background' = background
        /\ resource' \in [Resources -> {"none", "open", "closed", "failed"}]
        /\ \A y \in given : resource'[y] = resource[y]
        /\ "queue" \in given \/ resource'["queue"] \in {"closed", "failed"}
    BY <1>6, <1>7, <1>8
  <2>2. \A t \in PlanningTriggers : background[t] \notin {"waiting", "planning"}
    BY <2>1 DEF ProcessInv, TriggerRuns
  <2>. QED BY <1>1, <1>2, <2>1, <2>2 DEF ProcessInv, ProcessTypeOK, BothOpenAt
<1>9. CASE close_resource("engine", "close_engine", "closed")
  <2>1. /\ main = "close_engine" /\ main' = "closed" /\ background' = background
        /\ resource' \in [Resources -> {"none", "open", "closed", "failed"}]
        /\ \A y \in given : resource'[y] = resource[y]
        /\ "engine" \in given \/ resource'["engine"] \in {"closed", "failed"}
        /\ resource'["queue"] = resource["queue"]
    BY <1>6, <1>7, <1>9
  <2>2. \A t \in PlanningTriggers : background[t] \notin {"waiting", "planning"}
    BY <2>1 DEF ProcessInv, TriggerRuns
  <2>3. \A y \in Resources \ given : resource'[y] \in {"closed", "failed"}
    BY <1>7, <2>1 DEF ProcessInv
  <2>. QED BY <1>1, <1>2, <2>1, <2>2, <2>3, SMT DEF ProcessInv, ProcessTypeOK, BothOpenAt
<1>. QED BY <1>3, <1>4, <1>5, <1>8, <1>9 DEF aclose

LEMMA ProcessStep == ProcessInv /\ [ProcessNext]_process_vars => ProcessInv'
<1>. SUFFICES ASSUME ProcessInv, [ProcessNext]_process_vars PROVE ProcessInv'
  OBVIOUS
<1>1. CASE UNCHANGED process_vars
  <2>1. UNCHANGED <<given, main, in_loop, resource, cleanup, handlers, runner, background>>
    BY <1>1 DEF process_vars
  <2>2. ProcessTypeOK' /\ (AllEnded' <=> AllEnded)
    BY <2>1 DEF ProcessInv, ProcessTypeOK, AllEnded
  <2>. QED BY <2>1, <2>2 DEF ProcessInv
<1>. QED BY <1>1, BuildKeepsOrder, CleanupKeepsOrder, RunnerKeepsOrder, MainKeepsOrder, CloseKeepsOrder
         DEF ProcessNext

LEMMA OrderFromInv == ProcessInv => ShutdownIsOrderly
<1>. SUFFICES ASSUME ProcessInv PROVE ShutdownIsOrderly
  OBVIOUS
<1>1. InUse => main \in BothOpenAt
  BY DEF InUse, ProcessInv, AllEnded, RunEnds, PlanningTriggers, TriggerRuns, BothOpenAt
<1>2. AllEnded => ~handlers
  BY RunnersAssumption DEF ProcessInv, AllEnded, RunEnds, RunSteps
<1>. QED BY <1>1, <1>2 DEF ProcessInv, ShutdownIsOrderly, Resources

\* AppContainer.aclose, _run_worker and the lifespan of the API, for any number of worker loops:
\* no queue or engine is closed under a loop or a trigger that uses it, and in the end all that
\* the container opened is closed and nothing that it was given.
THEOREM ProcessesShutDownInOrder == ProcessSpec => []ShutdownIsOrderly
BY ProcessStart, ProcessStep, OrderFromInv, PTL DEF ProcessSpec

-----------------------------------------------------------------------------
(* The sandbox *)

LEMMA LimitsAreNat ==
    ASSUME SandboxTypeOK
    PROVE  /\ OutputLimit \in Nat
           /\ StreamLimit["stdout"] \in Nat /\ StreamLimit["stderr"] \in Nat
BY SandboxAssumption, SMT DEF SandboxTypeOK, OutputLimit, StreamLimit, Least

LEMMA LimitsAreKept ==
    ASSUME UNCHANGED <<host, request>>
    PROVE  OutputLimit' = OutputLimit /\ StreamLimit' = StreamLimit
           /\ should_sandbox(request.tool)' = should_sandbox(request.tool)
BY DEF OutputLimit, StreamLimit, Least, should_sandbox

LEMMA SandboxStart == SandboxInit => SandboxInv
<1>. SUFFICES ASSUME SandboxInit PROVE SandboxInv
  OBVIOUS
<1>1. PICK s \in SandboxScenarios :
        /\ validate_profile_guardrails(s.settings)
        /\ host = [settings |-> s.settings, installed |-> s.installed]
        /\ request = s.call
  BY DEF SandboxInit
<1>2. /\ host.settings = s.settings /\ request = s.call /\ host_at = "run_tool" /\ child.at = "none"
      /\ printed = [stdout |-> 0, stderr |-> 0] /\ received = printed /\ answer = "none"
  BY <1>1 DEF SandboxInit, NoChild
<1>a. IsChild(child)
  BY DEF SandboxInit, NoChild, IsChild
<1>3. printed \in [Streams -> Nat] /\ \A x \in Streams : received[x] = 0
  BY <1>2, SMT DEF Streams
<1>4. SandboxTypeOK
  BY <1>1, <1>2, <1>a, <1>3, ScenariosAssumption DEF SandboxTypeOK
<1>. QED BY <1>1, <1>2, <1>3, <1>4 DEF SandboxInv, ReturnsWhenChildEnded, ChildAgreesWithHost

\* The host returns with a verdict that is no success, or with the child's own.
LEMMA HostReturnKeeps ==
    ASSUME SandboxInv, NEW code, NEW bytes \in Nat, HostReturns(code, bytes), UNCHANGED child,
           child.at \in {"none", "exited"},
           code = "OK" /\ should_sandbox(request.tool) =>
             answer = "OK" /\ received = printed /\ \A s \in Streams : received[s] <= StreamLimit[s]
    PROVE  SandboxInv'
<1>1. /\ host_at' = "returned" /\ verdict' = [code |-> code, bytes |-> Least(bytes, OutputLimit)]
      /\ UNCHANGED <<host, request, failure, printed, answer, received, child>>
  BY DEF HostReturns, sanitize_result
<1>2. verdict'.code = code /\ verdict'.bytes <= OutputLimit
  BY <1>1, LimitsAreNat, SMT DEF Least, SandboxInv
<1>3. OutputLimit' = OutputLimit /\ StreamLimit' = StreamLimit
      /\ should_sandbox(request.tool)' = should_sandbox(request.tool)
  BY <1>1, LimitsAreKept
<1>4. DOMAIN received = Streams
  BY DEF SandboxInv, SandboxTypeOK
<1>5. ReturnsWhenChildEnded'
  BY <1>1, <1>2, <1>3, <1>4 DEF ReturnsWhenChildEnded
<1>6. child'.at # "none" =>
         \E tools \in build_builtin_registry(host.settings, host.installed)' : request'.tool \in tools
  BY <1>1 DEF SandboxInv, build_builtin_registry, load_entrypoints
<1>. QED BY <1>1, <1>5, <1>6 DEF SandboxInv, SandboxTypeOK, ChildAgreesWithHost

\* The settings the child is sent lead it to the registry of the host.
LEMMA ChildFindsTheTools ==
    ASSUME NEW s, s = [f \in SettingsFields |-> s[f]], NEW installed
    PROVE  LET p == sandbox_settings_payload(s) IN
           /\ validate_profile_guardrails(s) => validate_profile_guardrails(p)
           /\ build_builtin_registry(p, installed) = build_builtin_registry(s, installed)
<1>. DEFINE p == sandbox_settings_payload(s)
<1>1. /\ p.profile = s.profile /\ p.dry_run = s.dry_run /\ p.queue_backend = "inmemory"
      /\ p.allow_side_effects_in_prod = s.allow_side_effects_in_prod
      /\ p.allow_unsupported_tools = s.allow_unsupported_tools
      /\ p.enable_tool_entrypoints = s.enable_tool_entrypoints
      /\ p.trusted_tool_packages = s.trusted_tool_packages
      /\ p.blocked_tool_packages = s.blocked_tool_packages
  BY DEF sandbox_settings_payload, SettingsFields
<1>. HIDE DEF p
<1>2. Trusted(p) = Trusted(s) /\ Blocked(p) = Blocked(s)
  BY <1>1 DEF Trusted, Blocked
<1>3. \A e : /\ EntrypointRefused(p, e) <=> EntrypointRefused(s, e)
             /\ validate_plugin_tool(p, e) <=> validate_plugin_tool(s, e)
  BY <1>1, <1>2 DEF EntrypointRefused, validate_plugin_tool
<1>4. Considered(p, installed) = Considered(s, installed)
  BY <1>3 DEF Considered
<1>5. build_builtin_registry(p, installed) = build_builtin_registry(s, installed)
  BY <1>1, <1>2, <1>3, <1>4 DEF build_builtin_registry, load_entrypoints
<1>6. validate_profile_guardrails(s) => validate_profile_guardrails(p)
  BY <1>1 DEF validate_profile_guardrails
<1>. QED BY <1>5, <1>6 DEF p

LEMMA ToolsAreKept ==
    ASSUME UNCHANGED <<host, request>>
    PROVE  /\ build_builtin_registry(host.settings, host.installed)'
                = build_builtin_registry(host.settings, host.installed)
           /\ validate_profile_guardrails(host.settings)' <=> validate_profile_guardrails(host.settings)
BY DEF build_builtin_registry, load_entrypoints, Considered, EntrypointRefused, Trusted, Blocked,
       validate_plugin_tool, validate_profile_guardrails

\* The host goes on: to the backend, from spawning to waiting, and to the killing of the child.
LEMMA HostGoesOn ==
    ASSUME SandboxInv, UNCHANGED <<host, request, printed, answer, verdict>>,
           NEW at, host_at' = at, at # "returned", IsChild(child'),
           received' \in [Streams -> Nat],
           at \in {"in_process", "spawn"} => child'.at = "none",
           at \in {"drain", "wait", "kill", "reap"} => child'.at # "none",
           at # "run_tool",
           at = "in_process" => ~should_sandbox(request.tool),
           at = "reap" => child'.at \in {"killed", "exited"},
           at \in {"kill", "reap"} => failure' # "OK",
           at \in {"spawn", "drain"} => \A s \in Streams : received'[s] = 0,
           at = "wait" => \A s \in Streams : received'[s] <= StreamLimit[s],
           at = "spawn" \/ child'.at # "none" =>
             \E tools \in build_builtin_registry(host.settings, host.installed) : request.tool \in tools
    PROVE  SandboxInv'
<1>1. StreamLimit' = StreamLimit /\ should_sandbox(request.tool)' = should_sandbox(request.tool)
  BY LimitsAreKept
<1>2. SandboxTypeOK'
  BY DEF SandboxInv, SandboxTypeOK
<1>3. ReturnsWhenChildEnded' /\ ChildAgreesWithHost'
  BY DEF ReturnsWhenChildEnded, ChildAgreesWithHost, SandboxInv
<1>. QED BY <1>1, <1>2, <1>3, ToolsAreKept DEF SandboxInv

LEMMA ChildGoesOn ==
    ASSUME SandboxInv, ChildOnly, IsChild(child'), child.at \in {"booting", "running", "answered", "killed"},
           child'.at \in {"booting", "running", "answered", "exited"}, printed' \in [Streams -> Nat],
           child.at = "killed" => child'.at = "exited",
           answer' \notin {"UNKNOWN_TOOL", "SANDBOX_PROTOCOL_ERROR"}
    PROVE  SandboxInv'
<1>1. host_at \notin {"run_tool", "in_process", "spawn", "returned"}
  BY DEF SandboxInv, ReturnsWhenChildEnded
<1>2. UNCHANGED <<host, request, host_at, failure, received, verdict>>
  BY DEF ChildOnly
<1>3. StreamLimit' = StreamLimit
  BY <1>2, LimitsAreKept
<1>4. SandboxTypeOK'
  BY <1>2 DEF SandboxInv, SandboxTypeOK
<1>5. ReturnsWhenChildEnded' /\ ChildAgreesWithHost'
  BY <1>1, <1>2 DEF ReturnsWhenChildEnded, ChildAgreesWithHost
<1>. QED BY <1>1, <1>2, <1>3, <1>4, <1>5, ToolsAreKept DEF SandboxInv

LEMMA HostStepKeeps ==
    ASSUME SandboxInv,
           run_tool_in_host \/ InProcess \/ Spawn \/ SpawnFails \/ Drained \/ DrainFails \/ TimeoutExpires
             \/ KillChild \/ KillRaises \/ Reap \/ interpret
    PROVE  SandboxInv'
<1>a. IsChild(child)
  BY DEF SandboxInv, SandboxTypeOK
<1>b. IsChild(child')
  BY <1>a DEF IsChild, run_tool_in_host, InProcess, Spawn, NoChild, SpawnFails, Drained, DrainFails,
              TimeoutExpires, Failing, KillChild, KillRaises, Reap, interpret
<1>0. received \in [Streams -> Nat] /\ "stdout" \in Streams /\ IsChild(child')
  BY <1>b DEF SandboxInv, SandboxTypeOK, Streams
<1>1. CASE run_tool_in_host
  <2>1. child.at = "none" /\ child' = child /\ \A s \in Streams : received[s] = 0
    BY <1>1 DEF run_tool_in_host, SandboxInv
  <2>2. PICK tools \in build_builtin_registry(host.settings, host.installed) :
          \/ \E code \in {"UNKNOWN_TOOL", "INVALID_ARGS", "SANDBOX_REQUEST_TOO_LARGE"} : HostReturns(code, 0)
          \/ /\ request.tool \in tools
             /\ host_at' = IF should_sandbox(request.tool) THEN "spawn" ELSE "in_process"
             /\ UNCHANGED <<host, request, failure, printed, answer, received, verdict>>
    BY <1>1 DEF run_tool_in_host
  <2>3. ASSUME NEW code \in {"UNKNOWN_TOOL", "INVALID_ARGS", "SANDBOX_REQUEST_TOO_LARGE"}, HostReturns(code, 0)
        PROVE  SandboxInv'
    BY <2>1, <2>3, HostReturnKeeps
  <2>4. CASE /\ request.tool \in tools
             /\ host_at' = IF should_sandbox(request.tool) THEN "spawn" ELSE "in_process"
             /\ UNCHANGED <<host, request, failure, printed, answer, received, verdict>>
    BY <1>0, <2>1, <2>4, HostGoesOn, SMT
  <2>. QED BY <2>2, <2>3, <2>4
<1>2. CASE InProcess
  <2>1. PICK code \in ToolCodes : \E bytes \in RawOutputs : HostReturns(code, bytes)
    BY <1>2 DEF InProcess
  <2>2. PICK bytes \in RawOutputs : HostReturns(code, bytes)
    BY <2>1
  <2>3. child.at = "none" /\ child' = child /\ ~should_sandbox(request.tool) /\ bytes \in Nat
    BY <1>2, SandboxAssumption DEF InProcess, SandboxInv
  <2>. QED BY <2>2, <2>3, HostReturnKeeps
<1>3. CASE Spawn
  <2>1. /\ host_at = "spawn" /\ host_at' = "drain" /\ child'.at = "booting"
        /\ UNCHANGED <<host, request, failure, printed, answer, received, verdict>>
    BY <1>3 DEF Spawn, NoChild
  <2>2. /\ \A s \in Streams : received[s] = 0
        /\ \E tools \in build_builtin_registry(host.settings, host.installed) : request.tool \in tools
    BY <2>1 DEF SandboxInv
  <2>. QED BY <1>0, <2>1, <2>2, HostGoesOn, SMT
<1>4. CASE SpawnFails
  <2>1. child.at = "none" /\ child' = child /\ HostReturns("SANDBOX_SPAWN_FAILED", 0)
    BY <1>4 DEF SpawnFails, SandboxInv
  <2>. QED BY <2>1, HostReturnKeeps
<1>5. CASE Drained
  <2>1. /\ host_at = "drain" /\ host_at' = "wait"
        /\ UNCHANGED <<host, request, failure, child, printed, answer, received, verdict>>
    BY <1>5 DEF Drained
  <2>2. \A s \in Streams : received[s] <= StreamLimit[s]
    BY <2>1, LimitsAreNat, SMT DEF SandboxInv, Streams
  <2>3. /\ child.at # "none"
        /\ \E tools \in build_builtin_registry(host.settings, host.installed) : request.tool \in tools
    BY <2>1 DEF SandboxInv
  <2>. QED BY <1>0, <2>1, <2>2, <2>3, HostGoesOn, SMT
<1>6. CASE DrainFails \/ TimeoutExpires
  <2>1. /\ host_at \in {"drain", "wait"} /\ host_at' = "kill" /\ failure' # "OK"
        /\ UNCHANGED <<host, request, child, printed, answer, received, verdict>>
    BY <1>6 DEF DrainFails, TimeoutExpires, Failing
  <2>2. /\ child.at # "none"
        /\ \E tools \in build_builtin_registry(host.settings, host.installed) : request.tool \in tools
    BY <2>1 DEF SandboxInv
  <2>. QED BY <1>0, <2>1, <2>2, HostGoesOn, SMT
<1>7. CASE KillChild
  <2>1. /\ host_at = "kill" /\ host_at' = "reap"
        /\ UNCHANGED <<host, request, failure, printed, answer, received, verdict>>
    BY <1>7 DEF KillChild
  <2>2. /\ child.at # "none" /\ failure # "OK"
        /\ \E tools \in build_builtin_registry(host.settings, host.installed) : request.tool \in tools
    BY <2>1 DEF SandboxInv
  <2>3. child'.at \in {"killed", "exited"}
    BY <1>7, <1>a DEF KillChild, ChildEnded, IsChild
  <2>. QED BY <1>0, <2>1, <2>2, <2>3, HostGoesOn, SMT
<1>8. CASE KillRaises
  <2>1. child.at = "exited" /\ child' = child /\ HostReturns("TOOL_ERROR", 0)
    BY <1>8 DEF KillRaises, ChildEnded
  <2>. QED BY <2>1, HostReturnKeeps
<1>9. CASE Reap
  <2>1. child.at = "exited" /\ child' = child /\ HostReturns(failure, 0) /\ failure # "OK"
    BY <1>9 DEF Reap, ChildEnded, SandboxInv
  <2>. QED BY <2>1, HostReturnKeeps
<1>10. CASE interpret
  <2>1. /\ child.at = "exited" /\ child' = child /\ received = printed
        /\ \A s \in Streams : received[s] <= StreamLimit[s]
    BY <1>10 DEF interpret, ChildEnded, SandboxInv
  <2>2. received.stdout \in Nat
    BY <1>0
  <2>3. \/ HostReturns("SANDBOX_NONZERO_EXIT", 0)
        \/ HostReturns("SANDBOX_PROTOCOL_ERROR", 0)
        \/ HostReturns(answer, received.stdout)
    BY <1>10 DEF interpret
  <2>. QED BY <2>1, <2>2, <2>3, HostReturnKeeps
<1>. QED BY <1>1, <1>2, <1>3, <1>4, <1>5, <1>6, <1>7, <1>8, <1>9, <1>10

LEMMA ReadingKeeps ==
    ASSUME SandboxInv, NEW s \in Streams, read_stream_limited(s) PROVE SandboxInv'
<1>1. PICK n \in (received[s] + 1)..printed[s] :
        /\ received' = [received EXCEPT ![s] = n]
        /\ IF n > StreamLimit[s] THEN Failing("SANDBOX_OUTPUT_TOO_LARGE")
           ELSE UNCHANGED <<host, request, host_at, failure, child, printed, answer, verdict>>
  BY DEF read_stream_limited
<1>2. /\ host_at = "wait" /\ child.at # "none" /\ \A x \in Streams : received[x] <= StreamLimit[x]
      /\ \E tools \in build_builtin_registry(host.settings, host.installed) : request.tool \in tools
      /\ received \in [Streams -> Nat] /\ printed \in [Streams -> Nat] /\ IsChild(child)
  BY DEF read_stream_limited, SandboxInv, SandboxTypeOK
<1>3. n \in Nat /\ StreamLimit[s] \in Nat
  BY <1>2, LimitsAreNat, SMT DEF SandboxInv, Streams
<1>4. /\ received' \in [Streams -> Nat] /\ received'[s] = n
      /\ \A x \in Streams \ {s} : received'[x] = received[x]
  BY <1>1, <1>2, <1>3
<1>5. CASE n > StreamLimit[s]
  <2>1. /\ host_at' = "kill" /\ failure' = "SANDBOX_OUTPUT_TOO_LARGE"
        /\ UNCHANGED <<host, request, child, printed, answer, verdict>>
    BY <1>1, <1>5 DEF Failing
  <2>. QED BY <1>2, <1>4, <2>1, HostGoesOn, SMT
<1>6. CASE ~(n > StreamLimit[s])
  <2>1. UNCHANGED <<host, request, host_at, failure, child, printed, answer, verdict>>
    BY <1>1, <1>6
  <2>2. \A x \in Streams : received'[x] <= StreamLimit[x]
    BY <1>2, <1>3, <1>4, <1>6, SMT
  <2>. QED BY <1>2, <1>4, <2>1, <2>2, HostGoesOn, SMT
<1>. QED BY <1>5, <1>6

LEMMA ChildStepKeeps ==
    ASSUME SandboxInv,
           \/ ConsumeInput \/ HandleRequest \/ ToolFinishes \/ ChildExits \/ ChildCrashes \/ ChildDies
           \/ \E s \in Streams : ChildPrints(s)
    PROVE  SandboxInv'
<1>0. /\ printed \in [Streams -> Nat] /\ answer \notin {"UNKNOWN_TOOL", "SANDBOX_PROTOCOL_ERROR"}
      /\ IsChild(child)
  BY DEF SandboxInv, SandboxTypeOK, ChildAgreesWithHost
<1>s. IsChild(child')
  BY <1>0 DEF IsChild, ConsumeInput, HandleRequest, ToolFinishes, ChildExits, ChildCrashes, ChildDies, ChildPrints
<1>a. ASSUME NEW code, NEW bytes \in Nat, Answer(code, bytes)
      PROVE  answer' = code /\ printed' \in [Streams -> Nat]
  <2>1. PICK w \in Wrappings : printed' = [printed EXCEPT !.stdout = @ + Least(bytes, OutputLimit) + w]
    BY <1>a DEF Answer
  <2>2. Least(bytes, OutputLimit) \in Nat /\ w \in Nat
    BY LimitsAreNat, SandboxAssumption DEF SandboxInv, Least
  <2>. QED BY <1>0, <1>a, <2>1, <2>2, SMT DEF Answer, Streams
<1>1. CASE ConsumeInput
  <2>1. /\ child.at = "booting" /\ child'.at = "booting" /\ ChildOnly /\ UNCHANGED <<printed, answer>>
    BY <1>0, <1>1 DEF ConsumeInput, IsChild
  <2>. QED BY <1>0, <2>1, <1>s, ChildGoesOn
<1>2. CASE HandleRequest
  <2>1. child.at = "booting" /\ ChildOnly
    BY <1>2 DEF HandleRequest, IsChild
  <2>2. run_request(sandbox_settings_payload(host.settings), host.installed) = "none"
    <3>1. /\ host.settings = [f \in SettingsFields |-> host.settings[f]]
          /\ validate_profile_guardrails(host.settings)
          /\ \E tools \in build_builtin_registry(host.settings, host.installed) : request.tool \in tools
      BY <2>1 DEF SandboxInv, SandboxTypeOK
    <3>. QED BY <3>1, ChildFindsTheTools DEF run_request
  <2>3. child'.at = "running" /\ UNCHANGED <<printed, answer>>
    BY <1>0, <1>2, <2>2 DEF HandleRequest, IsChild
  <2>. QED BY <1>0, <2>1, <2>3, <1>s, ChildGoesOn
<1>3. CASE ToolFinishes
  <2>1. child.at = "running" /\ child'.at = "answered" /\ ChildOnly
    BY <1>0, <1>3 DEF ToolFinishes, IsChild
  <2>2. PICK code \in ToolCodes : \E bytes \in RawOutputs : Answer(code, bytes)
    BY <1>3 DEF ToolFinishes, IsChild
  <2>3. answer' \in ToolCodes /\ printed' \in [Streams -> Nat]
    BY <1>a, <2>2, SandboxAssumption
  <2>. QED BY <2>1, <2>3, <1>s, ChildGoesOn DEF ToolCodes
<1>4. CASE ChildExits \/ ChildDies
  <2>1. /\ child.at \in {"answered", "killed"} /\ child'.at = "exited" /\ ChildOnly
        /\ UNCHANGED <<printed, answer>>
    BY <1>0, <1>4 DEF ChildExits, ChildDies, IsChild
  <2>. QED BY <1>0, <2>1, <1>s, ChildGoesOn
<1>5. CASE ChildCrashes
  <2>1. /\ child.at \in {"booting", "running", "answered"} /\ child'.at = "exited" /\ ChildOnly
        /\ answer' \in {answer, "cut"}
    BY <1>0, <1>5 DEF ChildCrashes, IsChild
  <2>2. printed' \in [Streams -> Nat]
    BY <1>0, <1>5, SMT DEF ChildCrashes, Streams
  <2>. QED BY <1>0, <2>1, <2>2, <1>s, ChildGoesOn
<1>6. ASSUME NEW s \in Streams, ChildPrints(s) PROVE SandboxInv'
  <2>1. /\ child.at \in {"running", "answered"} /\ child' = child /\ ChildOnly
        /\ answer' \in {answer, "cut"} /\ printed' = [printed EXCEPT ![s] = @ + 1]
    BY <1>6 DEF ChildPrints
  <2>2. printed' \in [Streams -> Nat]
    BY <1>0, <2>1, SMT
  <2>. QED BY <1>0, <2>1, <2>2, <1>s, ChildGoesOn
<1>. QED BY <1>1, <1>2, <1>3, <1>4, <1>5, <1>6

LEMMA SandboxStep == SandboxInv /\ [SandboxNext]_sandbox_vars => SandboxInv'
<1>. SUFFICES ASSUME SandboxInv, [SandboxNext]_sandbox_vars PROVE SandboxInv'
  OBVIOUS
<1>1. CASE UNCHANGED sandbox_vars
  <2>1. UNCHANGED <<host, request, host_at, failure, child, printed, answer, received, verdict>>
    BY <1>1 DEF sandbox_vars
  <2>2. OutputLimit' = OutputLimit /\ StreamLimit' = StreamLimit
        /\ should_sandbox(request.tool)' = should_sandbox(request.tool)
    BY <2>1, LimitsAreKept
  <2>3. ReturnsWhenChildEnded' /\ ChildAgreesWithHost'
    BY <2>1, <2>2 DEF SandboxInv, ReturnsWhenChildEnded, ChildAgreesWithHost
  <2>. QED BY <2>1, <2>2, <2>3, ToolsAreKept DEF SandboxInv, SandboxTypeOK
<1>2. ASSUME NEW s \in {"stdout", "stderr"}, read_stream_limited(s) \/ ChildPrints(s) PROVE SandboxInv'
  BY <1>2, ReadingKeeps, ChildStepKeeps DEF Streams
<1>. QED BY <1>1, <1>2, HostStepKeeps, ChildStepKeeps DEF SandboxNext

\* SubprocessSandboxBackend.execute, whatever the tools, the sizes and the limits are: run_tool
\* returns only after its child has ended, and no success that the child did not report whole.
THEOREM HostOutlivesChild == SandboxSpec => []ReturnsWhenChildEnded
BY SandboxStart, SandboxStep, PTL DEF SandboxSpec, SandboxInv

\* _sandbox_settings_payload sends all that load_entrypoints reads: whatever is installed, the
\* child resolves each tool that the host has resolved.
THEOREM ChildResolvesTheTool == SandboxSpec => []ChildAgreesWithHost
BY SandboxStart, SandboxStep, PTL DEF SandboxSpec, SandboxInv

-----------------------------------------------------------------------------
(* The idempotency ledger *)

OneRun == \A v, w \in Writers : run_of[v] = run_of[w]

\* What an attempt records: the status follows from the result.
LedgerRecords == {r \in [tool : LedgerTools, status : {"succeeded", "failed"}, result : LedgerResults] :
                     r.status = Status(r.result)}

\* Where a unit of work holds the packet of its run
LockedAt == {"select", "insert", "again", "update", "commit"}

\* A row as the columns of several units of work may have left it, or none
LedgerRows == [tool : LedgerTools \cup {"none"}, status : {"succeeded", "failed", "none"},
               result : LedgerResults \cup {"none"}]
LedgerUnits == [at : {"idle", "audit"} \cup LockedAt, new : LedgerRows, seen : LedgerRows, written : LedgerRows]

LedgerTypeOK ==
    /\ unit \in [Writers -> LedgerUnits]
    /\ DOMAIN packet_lock = {run_of[w] : w \in Writers}
    /\ row_lock \in Writers \cup {"free"}
    /\ recorded \in BOOLEAN
    /\ row \in LedgerRows
    /\ \A w \in Writers : unit[w].at # "idle" => unit[w].new \in LedgerRecords

\* The packet of the run is held from the audit entry to the end of the unit of work, and the
\* row from its write on.
LedgerLocks ==
    /\ \A w \in Writers : unit[w].at \in LockedAt => packet_lock[run_of[w]] = w
    /\ row_lock # "free" => unit[row_lock].at = "commit"

\* What a unit of work has decided from the row it has read is still so when it writes.
LedgerFresh ==
    /\ row \in LedgerRecords \cup {NoLedgerRow}
    /\ recorded => row.status = "succeeded"
    /\ \A w \in Writers :
         /\ unit[w].at = "insert" => row = NoLedgerRow
         /\ unit[w].at = "update" => /\ row # NoLedgerRow /\ unit[w].seen = row
                                     /\ should_write_existing(row, unit[w].new)
         /\ row_lock = w => /\ unit[w].written = unit[w].new
                            /\ row.status = "succeeded" => unit[w].new.status = "succeeded"

LedgerInv == LedgerTypeOK /\ LedgerLocks /\ (OneRun => LedgerFresh)

LEMMA LedgerInitInv == LedgerInit => LedgerInv
  <1> SUFFICES ASSUME LedgerInit PROVE LedgerInv
    OBVIOUS
  <1>1. NoLedgerRow \in LedgerRows /\ Idle \in LedgerUnits /\ Idle.at = "idle"
    BY DEF NoLedgerRow, LedgerRows, Idle, LedgerUnits
  <1>2. LedgerTypeOK
    BY <1>1 DEF LedgerInit, LedgerTypeOK
  <1>3. LedgerLocks
    BY <1>1 DEF LedgerInit, LedgerLocks, LockedAt
  <1>4. LedgerFresh
    BY <1>1, LedgerAssumption DEF LedgerInit, LedgerFresh
  <1> QED
    BY <1>2, <1>3, <1>4 DEF LedgerInv

\* An attempt starts its unit of work with what it has to record.
LEMMA ExecuteResult ==
    ASSUME LedgerTypeOK, NEW w \in Writers, Execute(w)
    PROVE  /\ unit' \in [Writers -> LedgerUnits]
           /\ unit'[w].at = "audit" /\ unit'[w].new \in LedgerRecords
           /\ \A v \in Writers \ {w} : unit'[v] = unit[v]
  <1>1. PICK tool \in LedgerTools, got \in LedgerResults :
          unit' = [unit EXCEPT ![w] = [Idle EXCEPT !.at = "audit",
                     !.new = [tool |-> tool, status |-> Status(got), result |-> got]]]
    BY DEF Execute
  <1> DEFINE new == [tool |-> tool, status |-> Status(got), result |-> got]
             begun == [Idle EXCEPT !.at = "audit", !.new = new]
  <1>2. new \in LedgerRecords /\ new \in LedgerRows
    BY DEF LedgerRecords, LedgerRows, Status
  <1>3. Idle \in LedgerUnits
    BY DEF Idle, LedgerUnits, NoLedgerRow, LedgerRows
  <1> HIDE DEF new
  <1>4. begun \in LedgerUnits /\ begun.at = "audit" /\ begun.new = new
    BY <1>2, <1>3 DEF LedgerUnits
  <1>5. unit' = [unit EXCEPT ![w] = begun]
    BY <1>1 DEF new
  <1> HIDE DEF begun
  <1> QED
    BY <1>2, <1>4, <1>5 DEF LedgerTypeOK

\* The flush merges what the unit of work has changed into the row.
LEMMA UpdateResult ==
    ASSUME LedgerTypeOK, NEW w \in Writers, Update(w)
    PROVE  /\ unit' \in [Writers -> LedgerUnits]
           /\ unit'[w].at = "commit" /\ unit'[w].new = unit[w].new
           /\ unit[w].seen = row => unit'[w].written = unit[w].new
           /\ \A v \in Writers \ {w} : unit'[v] = unit[v]
  <1> DEFINE written == [c \in DOMAIN row |->
               IF unit[w].new[c] # unit[w].seen[c] THEN unit[w].new[c] ELSE row[c]]
             flushed_unit == [unit[w] EXCEPT !.at = "commit", !.written = written]
  <1>1. written \in LedgerRows /\ (unit[w].seen = row => written = unit[w].new)
    BY DEF LedgerTypeOK, LedgerUnits, LedgerRows
  <1>2. unit' = [unit EXCEPT ![w] = flushed_unit]
    BY DEF Update
  <1> HIDE DEF written
  <1>3. /\ flushed_unit \in LedgerUnits /\ flushed_unit.at = "commit"
        /\ flushed_unit.new = unit[w].new /\ flushed_unit.written = written
    BY <1>1 DEF LedgerTypeOK, LedgerUnits, LockedAt
  <1> HIDE DEF flushed_unit
  <1> QED
    BY <1>1, <1>2, <1>3 DEF LedgerTypeOK

\* Every step leaves rows, units and locks well formed.
LEMMA LedgerTypeStep ==
    ASSUME LedgerTypeOK, NEW w \in Writers,
           \/ Execute(w) \/ AppendAudit(w) \/ SelectRow(w, "select") \/ Insert(w) \/ SelectAgain(w)
           \/ Update(w) \/ Commit(w) \/ RollBack(w)
    PROVE  LedgerTypeOK'
  <1> USE DEF LedgerTypeOK, LedgerUnits, LockedAt
  <1>0. NoLedgerRow \in LedgerRows /\ LedgerRecords \subseteq LedgerRows /\ Idle \in LedgerUnits
    BY DEF NoLedgerRow, LedgerRows, LedgerRecords, Idle
  <1>1. CASE Execute(w)
    <2>1. UNCHANGED <<run_of, row, packet_lock, row_lock, recorded>>
      BY <1>1 DEF Execute
    <2> QED
      BY <1>1, <2>1, ExecuteResult
  <1>2. CASE AppendAudit(w)
    BY <1>2 DEF AppendAudit
  <1>3. CASE SelectRow(w, "select") \/ SelectAgain(w)
    BY <1>3, SMT DEF SelectRow, SelectAgain
  <1>4. CASE Insert(w)
    BY <1>4, SMT DEF Insert
  <1>5. CASE Update(w)
    <2>1. row_lock' = w /\ UNCHANGED <<run_of, row, packet_lock, recorded>> /\ unit[w].at = "update"
      BY <1>5 DEF Update
    <2> QED
      BY <1>5, <2>1, UpdateResult, SMT
  <1>6. CASE Commit(w)
    BY <1>0, <1>6 DEF Commit, Unlocked, Idle
  <1>7. CASE RollBack(w)
    BY <1>0, <1>7, SMT DEF RollBack, Unlocked, Idle
  <1> QED
    BY <1>1, <1>2, <1>3, <1>4, <1>5, <1>6, <1>7

\* Whoever is past its audit entry holds the packet of its run, and whoever has written the row
\* is about to commit.
LEMMA LedgerLocksStep ==
    ASSUME LedgerTypeOK, LedgerLocks, NEW w \in Writers,
           \/ Execute(w) \/ AppendAudit(w) \/ SelectRow(w, "select") \/ Insert(w) \/ SelectAgain(w)
           \/ Update(w) \/ Commit(w) \/ RollBack(w)
    PROVE  LedgerLocks'
  <1> USE LedgerAssumption DEF LedgerTypeOK, LedgerUnits, LedgerLocks, LockedAt
  <1>1. CASE Execute(w)
    <2>1. unit'[w].at = "audit" /\ \A v \in Writers \ {w} : unit'[v] = unit[v]
      BY <1>1, ExecuteResult
    <2>2. unit[w].at = "idle" /\ UNCHANGED <<run_of, packet_lock, row_lock>>
      BY <1>1 DEF Execute
    <2> QED
      BY <2>1, <2>2
  <1>2. CASE AppendAudit(w)
    BY <1>2, SMT DEF AppendAudit
  <1>3. CASE SelectRow(w, "select") \/ SelectAgain(w)
    <2>1. unit[w].at \in {"select", "again"} /\ unit'[w].at \in LockedAt
            /\ \A v \in Writers \ {w} : unit'[v] = unit[v]
      BY <1>3, SMT DEF SelectRow, SelectAgain
    <2>2. UNCHANGED <<run_of, packet_lock, row_lock>>
      BY <1>3 DEF SelectRow, SelectAgain
    <2> QED
      BY <2>1, <2>2
  <1>4. CASE Insert(w)
    BY <1>4, SMT DEF Insert
  <1>5. CASE Update(w)
    <2>1. unit[w].at = "update" /\ unit'[w].at = "commit" /\ \A v \in Writers \ {w} : unit'[v] = unit[v]
      BY <1>5 DEF Update
    <2>2. row_lock' = w /\ UNCHANGED <<run_of, packet_lock>>
      BY <1>5 DEF Update
    <2> QED
      BY <2>1, <2>2
  <1>6. CASE Commit(w) \/ RollBack(w)
    <2>1. unit'[w].at = "idle" /\ \A v \in Writers \ {w} : unit'[v] = unit[v]
      BY <1>6, SMT DEF Commit, RollBack, Idle
    <2>2. Unlocked(w) /\ UNCHANGED run_of
      BY <1>6 DEF Commit, RollBack
    <2>3. \A v \in Writers \ {w} : packet_lock[run_of[v]] = v => packet_lock'[run_of[v]] = v
      BY <2>2 DEF Unlocked
    <2> QED
      BY <2>1, <2>2, <2>3 DEF Unlocked
  <1> QED
    BY <1>1, <1>2, <1>3, <1>4, <1>5, <1>6

\* With one run, nobody else is between its audit entry and its commit.
LEMMA LedgerFreshStep ==
    ASSUME LedgerTypeOK, LedgerLocks, OneRun, LedgerFresh, NEW w \in Writers,
           \/ Execute(w) \/ AppendAudit(w) \/ SelectRow(w, "select") \/ Insert(w) \/ SelectAgain(w)
           \/ Update(w) \/ Commit(w) \/ RollBack(w)
    PROVE  LedgerFresh'
  <1>0. unit[w].at \in LockedAt => \A v \in Writers \ {w} : unit[v].at \notin LockedAt /\ row_lock # v
    BY LedgerAssumption DEF LedgerLocks, OneRun, LockedAt
  <1>1. CASE Execute(w)
    <2>1. /\ unit'[w].at = "audit" /\ unit[w].at = "idle" /\ \A v \in Writers \ {w} : unit'[v] = unit[v]
          /\ UNCHANGED <<row, row_lock, recorded>>
      BY <1>1, ExecuteResult DEF Execute
    <2> QED
      BY <2>1, LedgerAssumption DEF LedgerFresh, LedgerLocks
  <1>2. CASE AppendAudit(w)
    <2>1. /\ unit'[w].at = "select" /\ unit[w].at = "audit" /\ \A v \in Writers \ {w} : unit'[v] = unit[v]
          /\ UNCHANGED <<row, row_lock, recorded>>
      BY <1>2 DEF AppendAudit, LedgerTypeOK, LedgerUnits
    <2> QED
      BY <2>1, LedgerAssumption DEF LedgerFresh, LedgerLocks
  <1>3. CASE SelectRow(w, "select") \/ SelectAgain(w)
    <2>1. /\ unit[w].at \in LockedAt \ {"commit"} /\ \A v \in Writers \ {w} : unit'[v] = unit[v]
          /\ unit'[w].seen = row /\ unit'[w].new = unit[w].new
          /\ UNCHANGED <<row, row_lock, recorded>>
      BY <1>3 DEF SelectRow, SelectAgain, LedgerTypeOK, LedgerUnits, LockedAt
    <2>2. /\ unit'[w].at = "insert" => row = NoLedgerRow
          /\ unit'[w].at = "update" => row # NoLedgerRow /\ should_write_existing(row, unit[w].new)
      BY <1>3 DEF SelectRow, SelectAgain, LedgerTypeOK, LedgerUnits
    <2>3. row_lock # w
      BY <2>1, LedgerAssumption DEF LedgerLocks
    <2> QED
      BY <2>1, <2>2, <2>3 DEF LedgerFresh
  <1>4. CASE Insert(w)
    <2>1. /\ unit[w].at = "insert" /\ row = NoLedgerRow /\ \A v \in Writers \ {w} : unit'[v] = unit[v]
          /\ unit'[w].at = "commit" /\ unit'[w].written = unit[w].new /\ unit'[w].new = unit[w].new
          /\ row_lock' = w /\ UNCHANGED <<row, recorded>>
      BY <1>4, SMT DEF Insert, LedgerFresh, LedgerTypeOK, LedgerUnits
    <2> QED
      BY <1>0, <2>1 DEF LedgerFresh, NoLedgerRow, LockedAt
  <1>5. CASE Update(w)
    <2>1. /\ unit[w].at = "update" /\ row_lock' = w /\ UNCHANGED <<row, recorded>>
          /\ unit[w].seen = row /\ should_write_existing(row, unit[w].new)
      BY <1>5 DEF Update, LedgerFresh
    <2>2. /\ unit'[w].at = "commit" /\ unit'[w].new = unit[w].new /\ unit'[w].written = unit[w].new
          /\ \A v \in Writers \ {w} : unit'[v] = unit[v]
      BY <1>5, <2>1, UpdateResult
    <2> QED
      BY <1>0, <2>1, <2>2 DEF LedgerFresh, should_write_existing, LockedAt
  <1>6. CASE Commit(w)
    <2>1. /\ unit[w].at = "commit" /\ unit'[w].at = "idle" /\ \A v \in Writers \ {w} : unit'[v] = unit[v]
          /\ row' = (IF row_lock = w THEN unit[w].written ELSE row)
          /\ recorded' = (recorded \/ (row_lock = w /\ unit[w].new.status = "succeeded"))
          /\ row_lock' = (IF row_lock = w THEN "free" ELSE row_lock)
      BY <1>6 DEF Commit, Unlocked, Idle, LedgerTypeOK, LedgerUnits
    <2>2. unit[w].new \in LedgerRecords
      BY <2>1 DEF LedgerTypeOK
    <2>3. row_lock' = "free"
      BY <1>0, <2>1 DEF LedgerTypeOK, LockedAt
    <2>4. row' \in LedgerRecords \cup {NoLedgerRow}
      BY <2>1, <2>2 DEF LedgerFresh
    <2>5. recorded' => row'.status = "succeeded"
      BY <2>1 DEF LedgerFresh, LedgerTypeOK
    <2> QED
      BY <1>0, <2>1, <2>3, <2>4, <2>5, LedgerAssumption, SMTT(60) DEF LedgerFresh, LockedAt
  <1>7. CASE RollBack(w)
    <2>1. /\ unit'[w].at = "idle" /\ \A v \in Writers \ {w} : unit'[v] = unit[v]
          /\ UNCHANGED <<row, recorded>>
          /\ row_lock' = (IF row_lock = w THEN "free" ELSE row_lock)
      BY <1>7 DEF RollBack, Unlocked, Idle, LedgerTypeOK, LedgerUnits
    <2> QED
      BY <2>1, LedgerAssumption DEF LedgerFresh
  <1> QED
    BY <1>1, <1>2, <1>3, <1>4, <1>5, <1>6, <1>7

\* _should_write_existing decides on the row that a session has read, statements before it
\* writes.  For any number of executors, tools and results: executors of one run never lose a
\* success that is committed, and never leave one that has a failed result.
THEOREM LedgerServesSuccesses == LedgerSpec => []LedgerKeepsSuccess
  <1>1. LedgerInit => LedgerInv
    BY LedgerInitInv
  <1>2. LedgerInv /\ [LedgerNext]_ledger_vars => LedgerInv'
    <2> SUFFICES ASSUME LedgerInv, [LedgerNext]_ledger_vars PROVE LedgerInv'
      OBVIOUS
    <2>1. CASE UNCHANGED ledger_vars
      BY <2>1 DEF ledger_vars, LedgerInv, LedgerTypeOK, LedgerLocks, LedgerFresh, OneRun
    <2>2. CASE LedgerNext
      <3>1. PICK w \in Writers :
               \/ Execute(w) \/ AppendAudit(w) \/ SelectRow(w, "select") \/ Insert(w) \/ SelectAgain(w)
               \/ Update(w) \/ Commit(w) \/ RollBack(w)
        BY <2>2 DEF LedgerNext
      <3>2. OneRun' => OneRun
        BY <3>1 DEF OneRun, Execute, AppendAudit, SelectRow, Insert, SelectAgain, Update, Commit, RollBack
      <3> QED
        BY <3>1, <3>2, LedgerTypeStep, LedgerLocksStep, LedgerFreshStep DEF LedgerInv
    <2> QED
      BY <2>1, <2>2
  <1>3. LedgerInv => LedgerKeepsSuccess
    BY SMTT(60) DEF LedgerInv, LedgerFresh, LedgerTypeOK, OneRun, LedgerKeepsSuccess, get_success, LedgerRecords, NoLedgerRow,
           Status
  <1> QED
    BY <1>1, <1>2, <1>3, PTL DEF LedgerSpec

-----------------------------------------------------------------------------
(* Event suppression *)

SuppressionRows ==
    [start : Nat, count : Nat, until : Nat, created : Nat, updated : Nat, expires : Nat, cleared : Nat]

SuppressionTypeOK ==
    /\ suppression \in SuppressionRows \cup {NoRow}
    /\ began \in [Transactions -> Nat]
    /\ seen \in [Transactions -> SuppressionRows \cup {NoRow}]
    /\ tripped \in Nat /\ now \in Nat
    /\ DOMAIN txn = Transactions
    /\ \A x \in Operators : txn[x] = "read" => seen[x] # NoRow

\* The row ends in time, and so does every row that a transaction has read.
EndsInTime(r) == r # NoRow /\ r.until # Never => r.until <= tripped + TtlMs
SuppressionInv ==
    /\ SuppressionTypeOK
    /\ EndsInTime(suppression)
    /\ \A x \in Transactions : EndsInTime(seen[x])

\* An event that is not suppressed writes a row that is not, or one that lasts for TtlMs.
LEMMA CountedRow ==
    ASSUME NEW r \in SuppressionRows \cup {NoRow}, NEW t \in Nat
    PROVE  Counted(r, t) \in SuppressionRows /\ Counted(r, t).until \in {Never, t + TtlMs}
  <1> DEFINE old == Existing(r, t)
             fresh == old = NoRow \/ (old # NoRow /\ t - old.start >= WindowMs)
             start == IF fresh THEN t ELSE old.start
             count == IF fresh THEN 1 ELSE old.count + 1
             trips == count > Threshold
  <1>1. old = NoRow \/ old \in SuppressionRows
    BY DEF Existing
  <1>2. old = NoRow => fresh
    OBVIOUS
  <1> HIDE DEF old, fresh
  <1>3. start \in Nat /\ count \in Nat
    BY <1>1, <1>2, SMT DEF SuppressionRows
  <1>4. (IF fresh THEN t ELSE old.created) \in Nat /\ (IF old = NoRow THEN Never ELSE old.cleared) \in Nat
    BY <1>1, <1>2 DEF SuppressionRows, Never
  <1> HIDE DEF start, count
  <1>5. (IF trips THEN t + TtlMs ELSE start + WindowMs) \in Nat /\ (IF trips THEN t + TtlMs ELSE Never) \in Nat
    BY <1>3, SuppressionConstants, SMT DEF Never
  <1> HIDE DEF trips
  <1>6. Counted(r, t) = [start |-> start, count |-> count, updated |-> t,
             until |-> IF trips THEN t + TtlMs ELSE Never,
             expires |-> IF trips THEN t + TtlMs ELSE start + WindowMs,
             created |-> IF fresh THEN t ELSE old.created,
             cleared |-> IF old = NoRow THEN Never ELSE old.cleared]
    BY DEF Counted, old, fresh, start, count, trips
  <1> QED
    BY <1>3, <1>4, <1>5, <1>6, SMT DEF SuppressionRows

\* A suppressed event only counts: its row keeps the end that was read.
LEMMA ObservedRow ==
    ASSUME NEW r \in SuppressionRows \cup {NoRow}, NEW t \in Nat
    PROVE  /\ Observed(r, t) \in SuppressionRows
           /\ Suppressed(r, t) => r # NoRow /\ Observed(r, t).until = r.until
           /\ ~Suppressed(r, t) => Observed(r, t).until \in {Never, t + TtlMs}
  <1>1. CASE Suppressed(r, t)
    <2>1. r \in SuppressionRows
      BY <1>1 DEF Suppressed
    <2> DEFINE n == r.count + 1
    <2>2. n \in Nat
      BY <2>1, SMT DEF SuppressionRows
    <2>3. Observed(r, t) = [r EXCEPT !.count = n, !.updated = t]
      BY <1>1 DEF Observed
    <2> HIDE DEF n
    <2>4. [r EXCEPT !.count = n, !.updated = t] \in SuppressionRows
            /\ [r EXCEPT !.count = n, !.updated = t].until = r.until
      BY <2>1, <2>2 DEF SuppressionRows
    <2> QED
      BY <1>1, <2>3, <2>4 DEF Suppressed
  <1>2. CASE ~Suppressed(r, t)
    BY <1>2, CountedRow DEF Observed
  <1> QED
    BY <1>1, <1>2

\* clear ends the suppression.
LEMMA ClearedRow ==
    ASSUME NEW r \in SuppressionRows, NEW t \in Nat
    PROVE  Cleared(r, t) \in SuppressionRows /\ Cleared(r, t).until = Never
  <1> DEFINE over == [r EXCEPT !.start = t, !.count = 0, !.until = Never]
             expiry == t + WindowMs
  <1>1. over \in SuppressionRows /\ over.until = Never
    BY DEF SuppressionRows, Never
  <1>2. expiry \in Nat
    BY SuppressionConstants, SMT
  <1>3. Cleared(r, t) = [over EXCEPT !.cleared = t, !.updated = t, !.expires = expiry]
    BY DEF Cleared
  <1> HIDE DEF over, expiry
  <1> QED
    BY <1>1, <1>2, <1>3 DEF SuppressionRows

\* An UPDATE writes the end that the transaction has changed, or leaves the one in the table.
LEMMA ChangedRow ==
    ASSUME SuppressionTypeOK, NEW x \in Transactions, NEW new \in SuppressionRows, suppression # NoRow
    PROVE  /\ Changed(x, new) \in SuppressionRows
           /\ Changed(x, new).until = (IF new.until # seen[x].until THEN new.until ELSE suppression.until)
  <1>1. suppression \in SuppressionRows
    BY DEF SuppressionTypeOK
  <1> DEFINE old == seen[x]
  <1>2. Changed(x, new) = [c \in Columns |-> IF new[c] # old[c] THEN new[c] ELSE suppression[c]]
    BY DEF Changed
  <1> HIDE DEF old
  <1>3. Changed(x, new) \in SuppressionRows /\ Changed(x, new).until = IF new.until # old.until THEN new.until ELSE suppression.until
    BY <1>1, <1>2 DEF Columns, SuppressionRows
  <1> QED
    BY <1>3 DEF old

\* A transaction that writes leaves a row that ends in time, when what it writes does.
LEMMA UpsertInv ==
    ASSUME SuppressionInv, NEW x \in Transactions, NEW new \in SuppressionRows,
           NEW replaces \in BOOLEAN, NEW written, written # "read", upsert(x, new, replaces, written), Forget(x), now' = now,
           tripped' \in Nat, tripped <= tripped',
           \/ new.until \in Nat /\ (new.until # Never => new.until <= tripped' + TtlMs)
           \/ ~replaces /\ new.until = seen[x].until
    PROVE  SuppressionInv'
  <1> USE SuppressionConstants
  <1>0. /\ seen' = [seen EXCEPT ![x] = NoRow] /\ began' = [began EXCEPT ![x] = 1]
        /\ DOMAIN txn' = Transactions /\ \A y \in Transactions \ {x} : txn'[y] = txn[y]
        /\ txn'[x] # "read"
    BY DEF Forget, upsert, SuppressionInv, SuppressionTypeOK
  <1>1. \A r \in SuppressionRows \cup {NoRow} : EndsInTime(r) => EndsInTime(r)'
    BY SMT DEF EndsInTime, SuppressionInv, SuppressionTypeOK, SuppressionRows
  <1>2. suppression' \in SuppressionRows \cup {NoRow} /\ EndsInTime(suppression)'
    <2>1. CASE replaces /\ suppression' = new
      BY <2>1 DEF EndsInTime
    <2>2. CASE ~replaces /\ suppression # NoRow /\ suppression' = Changed(x, new)
      <3>1. /\ suppression' \in SuppressionRows
            /\ suppression'.until = (IF new.until # seen[x].until THEN new.until ELSE suppression.until)
        BY <2>2, ChangedRow DEF SuppressionInv
      <3>2. suppression.until # Never => suppression.until <= tripped' + TtlMs
        BY <2>2, SMT DEF SuppressionInv, SuppressionTypeOK, EndsInTime, SuppressionRows
      <3> QED
        BY <3>1, <3>2 DEF EndsInTime
    <2>3. CASE UNCHANGED suppression
      BY <1>1, <2>3 DEF SuppressionInv, SuppressionTypeOK, EndsInTime
    <2> QED
      BY <2>1, <2>2, <2>3 DEF upsert
  <1>3. \A y \in Transactions : EndsInTime(seen[y])'
    BY <1>0, <1>1 DEF SuppressionInv, SuppressionTypeOK, EndsInTime
  <1>4. SuppressionTypeOK'
    BY <1>0, <1>2 DEF SuppressionInv, SuppressionTypeOK, Transactions
  <1> QED
    BY <1>2, <1>3, <1>4 DEF SuppressionInv

LEMMA SuppressionStep == SuppressionInv /\ [SuppressionNext]_suppression_vars => SuppressionInv'
  <1> SUFFICES ASSUME SuppressionInv, [SuppressionNext]_suppression_vars PROVE SuppressionInv'
    OBVIOUS
  <1> USE DEF SuppressionInv, SuppressionTypeOK
  <1>1. ASSUME NEW x \in Transactions, BeginTransaction(x) PROVE SuppressionInv'
    BY <1>1 DEF BeginTransaction, Transactions, EndsInTime
  <1>2. ASSUME NEW x \in Transactions, ReadRow(x) PROVE SuppressionInv'
    <2>1. /\ seen' = [seen EXCEPT ![x] = suppression] /\ DOMAIN txn' = Transactions
          /\ \A y \in Transactions \ {x} : txn'[y] = txn[y]
          /\ UNCHANGED <<suppression, began, tripped, now>>
      BY <1>2 DEF ReadRow
    <2>2. x \in Operators /\ txn'[x] = "read" => suppression # NoRow
      BY <1>2 DEF ReadRow, is_active_suppression
    <2> QED
      BY <2>1, <2>2 DEF Transactions, EndsInTime
  <1>3. ASSUME NEW x \in Transactions, observe(x) PROVE SuppressionInv'
    <2> DEFINE t == began[x]
               new == Observed(seen[x], t)
               trips == ~Suppressed(seen[x], t) /\ new.until # Never
               replaces == ~Suppressed(seen[x], t) /\ Existing(seen[x], t) = NoRow
               written == IF new.until # Never THEN "suppressed" ELSE "passed"
    <2>1. /\ upsert(x, new, replaces, written) /\ Forget(x) /\ now' = now
          /\ tripped' = IF trips /\ t > tripped THEN t ELSE tripped
      BY <1>3 DEF observe
    <2>2. t \in Nat /\ new \in SuppressionRows
      BY ObservedRow
    <2>3. /\ Suppressed(seen[x], t) => new.until = seen[x].until
          /\ ~Suppressed(seen[x], t) => new.until \in {Never, t + TtlMs}
      BY <2>2, ObservedRow
    <2>4. replaces => ~Suppressed(seen[x], t)
      OBVIOUS
    <2>5. written # "read" /\ replaces \in BOOLEAN
      OBVIOUS
    <2> HIDE DEF t, new, replaces, written
    <2>6. /\ tripped' \in Nat /\ tripped <= tripped'
          /\ \/ new.until \in Nat /\ (new.until # Never => new.until <= tripped' + TtlMs)
             \/ ~replaces /\ new.until = seen[x].until
      BY <2>1, <2>2, <2>3, <2>4, SuppressionConstants, SMT DEF Never
    <2> QED
      BY <2>1, <2>2, <2>5, <2>6, UpsertInv
  <1>4. ASSUME NEW x \in Transactions, clear(x) PROVE SuppressionInv'
    <2> DEFINE new == Cleared(seen[x], began[x])
    <2>1. upsert(x, new, FALSE, "cleared") /\ Forget(x) /\ UNCHANGED <<tripped, now>>
      BY <1>4 DEF clear
    <2>2. seen[x] \in SuppressionRows /\ began[x] \in Nat
      BY <1>4 DEF clear
    <2>3. new \in SuppressionRows /\ new.until = Never
      BY <2>2, ClearedRow
    <2> HIDE DEF new
    <2>4. new.until \in Nat /\ (new.until # Never => new.until <= tripped' + TtlMs)
      BY <2>3, SMT DEF Never
    <2>5. tripped' \in Nat /\ tripped <= tripped' /\ now' = now
      BY <2>1, SMT
    <2> QED
      BY <2>1, <2>3, <2>4, <2>5, UpsertInv
  <1>5. CASE SuppressionClock
    BY <1>5, SMT DEF SuppressionClock, EndsInTime
  <1>6. CASE UNCHANGED suppression_vars
    BY <1>6 DEF suppression_vars, EndsInTime
  <1> QED
    BY <1>1, <1>2, <1>3, <1>4, <1>5, <1>6 DEF SuppressionNext

\* DbEventSuppressor.observe and clear compute on a row that others may change before they
\* write.  For any number of events and operators, any window, threshold and duration: a
\* suppression ends TtlMs after an event that has passed the threshold.
THEOREM SuppressionsEnd == SuppressionSpec => []SuppressionEnds
  <1>1. SuppressionInit => SuppressionInv
    BY SMT DEF SuppressionInit, SuppressionInv, SuppressionTypeOK, EndsInTime, Transactions
  <1>2. SuppressionInv => SuppressionEnds
    BY DEF SuppressionInv, EndsInTime, SuppressionEnds
  <1> QED
    BY <1>1, <1>2, SuppressionStep, PTL DEF SuppressionSpec

----------------------------------------------------------------------------
(* The rows of a run *)

TaskFields ==
    {"status", "attempts", "created", "started", "completed",
     "tool", "tool_created", "tool_started", "tool_completed"}
IsTaskRow(s) == DOMAIN s = TaskFields

LEMMA NewRecordFacts ==
    ASSUME NEW t \in Int
    PROVE  IsTaskRow(NewRecord(t)) /\ task_from_row_dict(NewRecord(t))
<1>1. IsTaskRow(NewRecord(t))
  BY SMT DEF NewRecord, NewToolCall, IsTaskRow, TaskFields
<1>2. task_from_row_dict(NewRecord(t))
  BY MaxAttemptsPositive, SMTT(60) DEF NewRecord, NewToolCall, task_from_row_dict, tool_call_from_row_dict,
       ToolCall_validate_timestamps, Task_validate_timestamps, Task_validate_attempt_limits, OrderedTimes, NoStamp
<1> QED BY <1>1, <1>2

\* Only the timestamps and the attempts decide whether a row loads.
LEMMA StatusDoesNotMatter ==
    ASSUME NEW s, IsTaskRow(s), task_from_row_dict(s), NEW st
    PROVE  IsTaskRow([s EXCEPT !.status = st]) /\ task_from_row_dict([s EXCEPT !.status = st])
<1> DEFINE r == [s EXCEPT !.status = st]
<1>1. DOMAIN r = DOMAIN s /\ \A f \in DOMAIN s : f # "status" => r[f] = s[f]
  OBVIOUS
<1>2. /\ r.attempts = s.attempts /\ r.created = s.created /\ r.started = s.started /\ r.completed = s.completed
      /\ r.tool_created = s.tool_created /\ r.tool_started = s.tool_started /\ r.tool_completed = s.tool_completed
  BY <1>1, SMT DEF IsTaskRow, TaskFields
<1> HIDE DEF r
<1>3. task_from_row_dict(r)
  BY <1>2 DEF task_from_row_dict, tool_call_from_row_dict, ToolCall_validate_timestamps,
       Task_validate_timestamps, Task_validate_attempt_limits
<1> QED BY <1>1, <1>3 DEF IsTaskRow, r

\* The domain operations keep the fields of a record.
LEMMA TransitionsKeepFields ==
    ASSUME NEW s, IsTaskRow(s), NEW tool, NEW target
    PROVE  /\ \A r \in transition_task(s, target) : IsTaskRow(r)
           /\ \A r \in TransitionBoth(s, tool, target) : IsTaskRow(r)
<1>1. ASSUME NEW q, IsTaskRow(q) PROVE \A r \in transition_task(q, target) : IsTaskRow(r)
  BY <1>1 DEF transition_task, Moved, IsTaskRow
<1>2. IsTaskRow([s EXCEPT !.tool = tool])
  BY DEF IsTaskRow
<1> QED BY <1>1, <1>2 DEF TransitionBoth

LEMMA RunningKeepsFields ==
    ASSUME NEW s, IsTaskRow(s), NEW t
    PROVE  \A r \in Running(s, t) : IsTaskRow(r)
<1> DEFINE q == [s EXCEPT !.started = t, !.completed = NoStamp, !.tool_started = t, !.tool_completed = NoStamp]
<1>1. IsTaskRow(q)
  BY DEF IsTaskRow
<1> HIDE DEF q
<1>2. \A r \in start_execution(q) : IsTaskRow(r)
  BY <1>1, TransitionsKeepFields DEF start_execution
<1>3. \A r \in started_at(s, t) : IsTaskRow(r)
  BY <1>2 DEF started_at, Transitioned, q
<1> QED BY <1>3 DEF Running

LEMMA CompletedKeepsFields ==
    ASSUME NEW s, IsTaskRow(s), NEW t
    PROVE  IsTaskRow(Completed(s, t))
BY DEF Completed, IsTaskRow

LEMMA OutcomeKeepsFields ==
    ASSUME NEW s, IsTaskRow(s), NEW t
    PROVE  /\ \A disposition : \A r \in apply_state_transition(s, disposition, t) : IsTaskRow(r)
           /\ \A r \in canceled(s, t) : IsTaskRow(r)
           /\ \A r \in queued(s) : IsTaskRow(r)
<1>0. ASSUME NEW q, IsTaskRow(q)
      PROVE  /\ \A r \in Transitioned(complete_succeeded(Completed(q, t))) : IsTaskRow(r)
             /\ \A r \in Transitioned(complete_failed(Completed(q, t))) : IsTaskRow(r)
             /\ \A r \in Transitioned(complete_denied(Completed(q, t))) : IsTaskRow(r)
             /\ \A r \in Transitioned(complete_canceled(Completed(q, t))) : IsTaskRow(r)
  BY <1>0, CompletedKeepsFields, TransitionsKeepFields
     DEF Transitioned, complete_succeeded, complete_failed, complete_denied, complete_canceled
<1>1. \A r \in canceled(s, t) : IsTaskRow(r)
  BY <1>0 DEF canceled
<1>2. \A r \in queued(s) : IsTaskRow(r)
  BY TransitionsKeepFields DEF queued, Transitioned
<1>3. \A r \in waiting(s) : IsTaskRow(r)
  BY TransitionsKeepFields DEF waiting, Transitioned, mark_waiting_approval
<1>4. \A q \in Running(s, t) : IsTaskRow(q)
  BY RunningKeepsFields
<1>5. ASSUME NEW disposition, NEW r \in apply_state_transition(s, disposition, t) PROVE IsTaskRow(r)
  <2>1. CASE disposition = "waiting_approval"
    <3>1. r \in waiting(s)
      BY <1>5, <2>1 DEF apply_state_transition
    <3> QED BY <1>3, <3>1
  <2>2. CASE disposition = "denied"
    <3>1. r \in Transitioned(IF s.tool = "PENDING" THEN complete_denied(Completed(s, t))
                                                   ELSE complete_canceled(Completed(s, t)))
      BY <1>5, <2>2 DEF apply_state_transition
    <3> QED BY <1>0, <3>1
  <2>3. CASE disposition = "succeeded"
    <3>1. \E q \in Running(s, t) : r \in Transitioned(complete_succeeded(Completed(q, t)))
      BY <1>5, <2>3 DEF apply_state_transition
    <3> QED BY <1>0, <1>4, <3>1
  <2>4. CASE disposition \notin {"waiting_approval", "denied", "succeeded"}
    <3>1. \E q \in Running(s, t) : r \in Transitioned(complete_failed(Completed(q, t)))
      BY <1>5, <2>4 DEF apply_state_transition
    <3> QED BY <1>0, <1>4, <3>1
  <2> QED BY <2>1, <2>2, <2>3, <2>4
<1> QED BY <1>1, <1>2, <1>5

----------------------------------------------------------------------------
PacketFields ==
    {"created", "started", "completed", "snapshot", "tool_results", "recorded", "policy_decisions"}
IsPacket(p) ==
    DOMAIN p = PacketFields /\ p.created \in Int /\ p.recorded \in Int /\ p.completed \in Int

LEMMA NewPacketFacts ==
    ASSUME NEW statuses, NEW t \in Int
    PROVE  IsPacket(NewPacket(statuses, t)) /\ RunPacket_validate(NewPacket(statuses, t))
           /\ NewPacket(statuses, t).policy_decisions = 0
<1>1. IsPacket(NewPacket(statuses, t))
  BY SMT DEF NewPacket, IsPacket, PacketFields, NoStamp
<1>2. RunPacket_validate(NewPacket(statuses, t)) /\ NewPacket(statuses, t).policy_decisions = 0
  BY SMT DEF NewPacket, RunPacket_validate, OrderedTimes, NoStamp
<1> QED BY <1>1, <1>2

LEMMA UpdatesKeepPacket ==
    ASSUME NEW p, IsPacket(p), NEW changed, NEW t \in Int
    PROVE  IsPacket(apply_task_updates(p, changed, t))
<1>2. NoStamp \in Int
  BY SMT DEF NoStamp
<1> DEFINE r == apply_task_updates(p, changed, t)
<1>3. \E x, y : \E z \in {t, NoStamp} : r = [p EXCEPT !.snapshot = x, !.started = y, !.completed = z]
  <2> DEFINE statuses == [d \in DOMAIN p.snapshot |->
                            IF d \in DOMAIN changed THEN changed[d].status ELSE p.snapshot[d]]
             starts == {changed[d].started : d \in DOMAIN changed} \ {NoStamp}
             over == \A d \in DOMAIN statuses : statuses[d] \in TerminalTaskStatuses
             first == IF p.started = NoStamp /\ starts # {} THEN Min(starts) ELSE p.started
             last == IF over THEN t ELSE NoStamp
  <2>1. r = [p EXCEPT !.snapshot = statuses, !.started = first, !.completed = last]
    BY DEF apply_task_updates
  <2>2. last \in {t, NoStamp}
    OBVIOUS
  <2> HIDE DEF statuses, first, last
  <2> QED BY <2>1, <2>2
<1> HIDE DEF r
<1>4. DOMAIN r = DOMAIN p /\ r.created = p.created /\ r.recorded = p.recorded /\ r.completed \in {t, NoStamp}
  <2>1. PICK x, y : \E z \in {t, NoStamp} : r = [p EXCEPT !.snapshot = x, !.started = y, !.completed = z]
    BY <1>3
  <2>2. PICK z \in {t, NoStamp} : r = [p EXCEPT !.snapshot = x, !.started = y, !.completed = z]
    BY <2>1
  <2> QED BY <2>2, SMT DEF IsPacket, PacketFields
<1> QED BY <1>2, <1>4 DEF IsPacket, r

LEMMA RecordsKeepPacket ==
    ASSUME NEW p, IsPacket(p), NEW t \in Int
    PROVE  IsPacket(with_policy_decision_added(with_tool_result_added(p, t)))
<1> DEFINE q == with_tool_result_added(p, t)
<1>2. IsPacket(q)
  <2> DEFINE x == p.tool_results + 1
             y == IF t > p.recorded THEN t ELSE p.recorded
  <2>1. q = [p EXCEPT !.tool_results = x, !.recorded = y]
    BY DEF with_tool_result_added
  <2>2. y \in Int
    BY DEF IsPacket
  <2> HIDE DEF x, y, q
  <2>3. DOMAIN q = DOMAIN p /\ q.created = p.created /\ q.recorded = y /\ q.completed = p.completed
    BY <2>1, SMT DEF IsPacket, PacketFields
  <2> QED BY <2>2, <2>3 DEF IsPacket
<1> HIDE DEF q
<1>3. \A x : LET r == [q EXCEPT !.policy_decisions = x] IN
        DOMAIN r = DOMAIN q /\ r.created = q.created /\ r.recorded = q.recorded /\ r.completed = q.completed
  BY <1>2, SMT DEF IsPacket, PacketFields
<1>4. IsPacket(with_policy_decision_added(q))
  BY <1>2, <1>3 DEF with_policy_decision_added, IsPacket
<1> QED BY <1>4 DEF q

\* memory_item_from_run_packet: an item loads, and is not the absence of one.
LEMMA ItemFacts ==
    ASSUME NEW p, IsPacket(p), NEW id
    PROVE  LET m == memory_item_from_run_packet(p, id) IN
           /\ ~Absent(m) /\ m.memory_id = id /\ m.updated \in Int /\ m.created \in Int /\ m.updated >= m.created
           /\ DOMAIN m = {"memory_id", "memory_version", "created", "updated"}
<1> DEFINE m == memory_item_from_run_packet(p, id)
           S == {p.created, p.recorded} \cup ({p.completed} \ {NoStamp})
<1>1. p.created \in Int /\ p.recorded \in Int /\ p.completed \in Int
  BY DEF IsPacket
<1>2. \E x \in S : \A y \in S : x >= y
  <2>1. CASE p.completed = NoStamp
    BY <1>1, <2>1, SMT
  <2>2. CASE p.completed # NoStamp
    BY <1>1, <2>2, SMT
  <2> QED BY <2>1, <2>2
<1>3. Max(S) \in S /\ \A y \in S : Max(S) >= y
  BY <1>2 DEF Max
<1>4. Max(S) \in Int /\ Max(S) >= p.created
  BY <1>1, <1>3
<1>5. m = [memory_id |-> id, memory_version |-> MEMORY_SUMMARY_VERSION, created |-> p.created, updated |-> Max(S)]
  BY DEF memory_item_from_run_packet
<1> HIDE DEF m, S
<1>6. /\ m.memory_id = id /\ m.updated = Max(S) /\ m.created = p.created
      /\ DOMAIN m = {"memory_id", "memory_version", "created", "updated"}
  BY <1>5, SMT
<1>7. ~Absent(m)
  <2>1. DOMAIN NoRecord = {"absent"}
    BY SMT DEF NoRecord
  <2>2. "memory_id" \notin {"absent"} /\ "memory_id" \in DOMAIN m
    BY <1>6
  <2> QED BY <2>1, <2>2 DEF Absent
<1> QED BY <1>1, <1>4, <1>6, <1>7 DEF m

\* uuid4: the new id is neither that of the row nor one that the pass has selected.
LEMMA FreshId ==
    /\ ~Absent(memory_row) => uuid4 # memory_row.memory_id
    /\ pass.stage = "pruning" => uuid4 # pass.picked
<1> DEFINE stored == IF Absent(memory_row) THEN {} ELSE {memory_row.memory_id}
           selected == IF pass.stage = "pruning" THEN {pass.picked} ELSE {}
           S == (0..2) \ (stored \cup selected)
<1>1. \E a, b : stored \subseteq {a} /\ selected \subseteq {b}
  OBVIOUS
<1> HIDE DEF stored, selected
<1>2. \E x \in S : \A y \in S : x <= y
  BY <1>1, SMT
<1>3. Min(S) \in S
  BY <1>2 DEF Min
<1>4. uuid4 = Min(S)
  BY DEF uuid4, stored, selected
<1> QED BY <1>3, <1>4 DEF stored, selected

----------------------------------------------------------------------------
\* Rows that load
RowsOK(rows) ==
    DOMAIN rows = StoredTasks /\ \A t \in StoredTasks : IsTaskRow(rows[t]) /\ task_from_row_dict(rows[t])
ApprovalsOK(rows) ==
    DOMAIN rows = StoredTasks /\ \A t \in StoredTasks : ~Absent(rows[t]) => approval_from_row_dict(rows[t])
PacketOK(p) == IsPacket(p) /\ row_to_packet(p)
MemoryOK(m) == ~Absent(m) => memory_item_from_row_dict(m)

\* A worker that enqueues a dependent may have to write back the row that it has read.
HeldOK(h) ==
    /\ h.phase \in {"loaded", "running"} => IsTaskRow(h.copy)
    /\ h.phase = "enqueuing" => IsTaskRow(h.copy) /\ task_from_row_dict(h.copy)
    /\ h.phase \in {"dependents", "enqueuing"} => h.at \in Int
HoldingsOK(h) == DOMAIN h = StoreWorkers /\ \A w \in StoreWorkers : HeldOK(h[w])

\* The item with the selected id is the old one: an item that replaces it has another id.
PassOK(m, p) ==
    /\ p.stage = "refreshing" => IsPacket(p.picked)
    /\ p.stage = "pruning" /\ ~Absent(m) => (m.memory_id = p.picked => m.updated < p.at - Retention)

StorageInductive ==
    /\ store_time \in Nat
    /\ RowsOK(task_rows) /\ ApprovalsOK(approval_rows) /\ PacketOK(packet_row) /\ MemoryOK(memory_row)
    /\ HoldingsOK(held) /\ PassOK(memory_row, pass)

\* What FreshMemoryKept says of a step
KeepsFresh == ~Absent(memory_row) /\ Absent(memory_row') => memory_row.updated < pass.at - Retention

LEMMA ClockIsInt ==
    ASSUME store_time \in Nat, NEW n \in StoreWorkers \cup {"planner", "api", "maintenance"}
    PROVE  Clock(n) \in Int
<1>1. ClockSkew[n] \in Nat
  BY StorageAssumption
<1> QED BY <1>1, SMT DEF Clock

LEMMA UpdatedRow ==
    ASSUME NEW rows, RowsOK(rows), NEW t, NEW s, IsTaskRow(s), task_from_row_dict(s)
    PROVE  RowsOK([rows EXCEPT ![t] = s])
BY DEF RowsOK

LEMMA UpdatedHolding ==
    ASSUME NEW h, HoldingsOK(h), NEW w, NEW v, HeldOK(v)
    PROVE  HoldingsOK([h EXCEPT ![w] = v])
BY DEF HoldingsOK

LEMMA HoldingShapes ==
    /\ HeldOK(Free)
    /\ \A t, s : IsTaskRow(s) => HeldOK([phase |-> "loaded", task |-> t, copy |-> s])
    /\ \A t, s : IsTaskRow(s) => HeldOK([phase |-> "running", task |-> t, copy |-> s])
    /\ \A t, i : i \in Int => HeldOK([phase |-> "dependents", task |-> t, at |-> i])
    /\ \A t, i, d, s : i \in Int /\ IsTaskRow(s) /\ task_from_row_dict(s) =>
         HeldOK([phase |-> "enqueuing", task |-> t, at |-> i, dependent |-> d, copy |-> s])
<1>1. HeldOK(Free)
  BY SMT DEF HeldOK, Free
<1>2. ASSUME NEW t, NEW s, IsTaskRow(s)
      PROVE  HeldOK([phase |-> "loaded", task |-> t, copy |-> s]) /\ HeldOK([phase |-> "running", task |-> t, copy |-> s])
  BY <1>2, SMT DEF HeldOK
<1>3. ASSUME NEW t, NEW i \in Int PROVE HeldOK([phase |-> "dependents", task |-> t, at |-> i])
  BY <1>3, SMT DEF HeldOK
<1>4. ASSUME NEW t, NEW i \in Int, NEW d, NEW s, IsTaskRow(s), task_from_row_dict(s)
      PROVE  HeldOK([phase |-> "enqueuing", task |-> t, at |-> i, dependent |-> d, copy |-> s])
  BY <1>4, SMT DEF HeldOK
<1> QED BY <1>1, <1>2, <1>3, <1>4

LEMMA UpdateTaskFacts ==
    ASSUME NEW stored, NEW S, NEW s \in update_task(stored, S)
    PROVE  s \in S /\ task_from_row_dict(s)
BY DEF update_task

LEMMA AuditIsPacket ==
    ASSUME IsPacket(packet_row), NEW t, NEW s, NEW i \in Int
    PROVE  IsPacket(append_audit(t, s, i))
BY UpdatesKeepPacket, RecordsKeepPacket DEF append_audit

LEMMA UpsertKeeps ==
    ASSUME NEW p, IsPacket(p), upsert_memory(p)
    PROVE  MemoryOK(memory_row') /\ KeepsFresh /\ (pass' = pass /\ PassOK(memory_row, pass) => PassOK(memory_row', pass'))
<1>1. memory_row' = memory_item_from_run_packet(p, uuid4)
  BY DEF upsert_memory
<1>2. /\ ~Absent(memory_row') /\ memory_row'.memory_id = uuid4
      /\ memory_row'.updated >= memory_row'.created
  BY <1>1, ItemFacts
<1>3. MemoryOK(memory_row')
  BY <1>2 DEF MemoryOK, memory_item_from_row_dict, MemoryItem_validate_timestamp_order
<1>4. KeepsFresh
  BY <1>2 DEF KeepsFresh
<1>5. ASSUME pass' = pass, PassOK(memory_row, pass) PROVE PassOK(memory_row', pass')
  BY <1>2, <1>5, FreshId DEF PassOK
<1> QED BY <1>3, <1>4, <1>5

LEMMA CreatePacketKeeps ==
    ASSUME NEW p, IsPacket(p), create_packet(p), pass' = pass, PassOK(memory_row, pass)
    PROVE  PacketOK(packet_row') /\ MemoryOK(memory_row') /\ KeepsFresh /\ PassOK(memory_row', pass')
BY UpsertKeeps DEF create_packet, PacketOK, row_to_packet

LEMMA UnchangedKeepsFresh == memory_row' = memory_row => KeepsFresh
BY DEF KeepsFresh

LEMMA OutcomeRowsOK ==
    ASSUME RowsOK(task_rows), IsPacket(packet_row), NEW t, NEW s, IsTaskRow(s), task_from_row_dict(s),
           NEW disposition, NEW i \in Int, NEW c \in OutcomeRows(t, s, disposition, i)
    PROVE  RowsOK(c.tasks) /\ IsPacket(c.packet)
<1> DEFINE rows == [task_rows EXCEPT ![t] = s]
           blocked == IF FinalFailure(s, disposition) THEN blocked_after(rows, t) ELSE {}
           Dropped(d) == update_task(rows[d], canceled(rows[d], i))
           cut == [d \in blocked |-> CHOOSE r \in Dropped(d) : TRUE]
           audited == append_audit(t, s, i)
           tasks == [d \in StoredTasks |-> IF d \in blocked THEN cut[d] ELSE rows[d]]
           packet == IF blocked = {} THEN audited ELSE apply_task_updates(audited, cut, i)
<1>1. c = [tasks |-> tasks, packet |-> packet] /\ \A d \in blocked : Dropped(d) # {}
  BY DEF OutcomeRows
<1>2. RowsOK(rows)
  BY UpdatedRow
<1>3. IsPacket(audited)
  BY AuditIsPacket
<1> HIDE DEF rows, audited, blocked
<1>4. ASSUME NEW d \in StoredTasks, d \in blocked
      PROVE  IsTaskRow(cut[d]) /\ task_from_row_dict(cut[d])
  <2>1. cut[d] \in Dropped(d)
    BY <1>1, <1>4
  <2>2. IsTaskRow(rows[d])
    BY <1>2 DEF RowsOK
  <2> QED BY <2>1, <2>2, UpdateTaskFacts, OutcomeKeepsFields
<1>5. IsPacket(packet)
  BY <1>3, UpdatesKeepPacket
<1> HIDE DEF cut, packet
<1>6. RowsOK(tasks)
  BY <1>2, <1>4 DEF RowsOK
<1> HIDE DEF tasks
<1>7. c.tasks = tasks /\ c.packet = packet
  BY <1>1, SMT
<1> QED BY <1>5, <1>6, <1>7

----------------------------------------------------------------------------
(* Every action keeps the rows loadable and the fresh memory items. *)

StorageGood == StorageInductive' /\ KeepsFresh

LEMMA LoadTaskKeeps ==
    ASSUME StorageInductive, NEW w \in StoreWorkers, NEW t \in StoredTasks, LoadTask(w, t)
    PROVE  StorageGood
<1>1. UNCHANGED <<store_time, task_rows, approval_rows, packet_row, memory_row, pass>>
  BY DEF LoadTask
<1>2. HoldingsOK(held')
  <2>1. HoldingsOK(held) /\ IsTaskRow(task_rows[t]) /\ Clock(w) \in Int
    BY ClockIsInt DEF StorageInductive, RowsOK
  <2>2. PICK v : HeldOK(v) /\ held' = [held EXCEPT ![w] = v]
    BY <2>1, HoldingShapes DEF LoadTask
  <2> QED BY <2>1, <2>2, UpdatedHolding
<1> QED BY <1>1, <1>2, UnchangedKeepsFresh DEF StorageInductive, StorageGood

LEMMA ReleaseKeeps ==
    ASSUME HoldingsOK(held), NEW w, Release(w)
    PROVE  HoldingsOK(held')
BY UpdatedHolding, HoldingShapes DEF Release

LEMMA DelayedKeeps ==
    ASSUME StorageInductive, NEW w \in StoreWorkers, Delayed(w)
    PROVE  StorageGood
<1> DEFINE p == append_audit(held[w].task, held[w].copy, Clock(w))
<1>1. UNCHANGED <<store_time, task_rows, approval_rows, pass>> /\ Release(w)
  BY DEF Delayed, Ended
<1>2. IsPacket(p)
  BY ClockIsInt, AuditIsPacket DEF StorageInductive, PacketOK
<1>3. create_packet(p) \/ UNCHANGED <<packet_row, memory_row>>
  BY DEF Delayed
<1> HIDE DEF p
<1>4. HoldingsOK(held')
  BY <1>1, ReleaseKeeps DEF StorageInductive
<1>5. CASE create_packet(p)
  <2>1. PacketOK(packet_row') /\ MemoryOK(memory_row') /\ KeepsFresh /\ PassOK(memory_row', pass')
    BY <1>1, <1>2, <1>5, CreatePacketKeeps DEF StorageInductive
  <2> QED BY <1>1, <1>4, <2>1 DEF StorageInductive, StorageGood
<1>6. CASE UNCHANGED <<packet_row, memory_row>>
  BY <1>1, <1>4, <1>6, UnchangedKeepsFresh DEF StorageInductive, StorageGood
<1> QED BY <1>3, <1>5, <1>6

LEMMA PersistStartedKeeps ==
    ASSUME StorageInductive, NEW w \in StoreWorkers, persist_started(w)
    PROVE  StorageGood
<1> DEFINE t == held[w].task
           S == update_task(task_rows[t], Running(held[w].copy, Clock(w)))
<1>1. UNCHANGED <<store_time, approval_rows, packet_row, memory_row, pass>>
  BY DEF persist_started
<1>2. IsTaskRow(held[w].copy)
  BY DEF persist_started, Holding, StorageInductive, HoldingsOK, HeldOK
<1>3. \A s \in S : IsTaskRow(s) /\ task_from_row_dict(s)
  BY <1>2, UpdateTaskFacts, RunningKeepsFields
<1>4. RowsOK(task_rows) /\ HoldingsOK(held)
  BY DEF StorageInductive
<1>5. \/ \E s \in S : /\ task_rows' = [task_rows EXCEPT ![t] = s]
                      /\ held' = [held EXCEPT ![w] = [phase |-> "running", task |-> t, copy |-> s]]
      \/ Release(w) /\ UNCHANGED task_rows
  BY DEF persist_started
<1> HIDE DEF S
<1>6. RowsOK(task_rows') /\ HoldingsOK(held')
  <2>1. ASSUME NEW s \in S, task_rows' = [task_rows EXCEPT ![t] = s],
               held' = [held EXCEPT ![w] = [phase |-> "running", task |-> t, copy |-> s]]
        PROVE  RowsOK(task_rows') /\ HoldingsOK(held')
    <3>1. RowsOK(task_rows')
      BY <1>3, <1>4, <2>1, UpdatedRow
    <3>2. HeldOK([phase |-> "running", task |-> t, copy |-> s])
      BY <1>3, <2>1, HoldingShapes
    <3> QED BY <1>4, <2>1, <3>1, <3>2, UpdatedHolding
  <2>2. ASSUME Release(w), UNCHANGED task_rows PROVE RowsOK(task_rows') /\ HoldingsOK(held')
    BY <1>4, <2>2, ReleaseKeeps
  <2> QED BY <1>5, <2>1, <2>2
<1> QED BY <1>1, <1>6, UnchangedKeepsFresh DEF StorageInductive, StorageGood

LEMMA NewApprovalLoads ==
    ASSUME NEW i
    PROVE  approval_from_row_dict(NewApproval(i))
BY SMT DEF NewApproval, approval_from_row_dict, Approval_validate_decision_fields

LEMMA PersistOutcomeKeeps ==
    ASSUME StorageInductive, NEW w \in StoreWorkers, persist_outcome(w)
    PROVE  StorageGood
<1> DEFINE t == held[w].task
           i == Clock(w)
           S(disposition) == update_task(task_rows[t], apply_state_transition(held[w].copy, disposition, i))
           Commits(disposition) == UNION {OutcomeRows(t, s, disposition, i) : s \in S(disposition)}
<1>1. UNCHANGED <<store_time, pass>> /\ i \in Int /\ RowsOK(task_rows) /\ HoldingsOK(held) /\ IsPacket(packet_row)
  BY ClockIsInt DEF persist_outcome, StorageInductive, PacketOK
<1>2. IsTaskRow(held[w].copy)
  BY DEF persist_outcome, StorageInductive, HoldingsOK, HeldOK
<1>3. PICK disposition :
         /\ approval_rows' = IF disposition = "waiting_approval"
                             THEN [approval_rows EXCEPT ![t] = create_pending_approval(t, i)]
                             ELSE approval_rows
         /\ \/ \E c \in Commits(disposition) :
                 /\ task_rows' = c.tasks
                 /\ create_packet(c.packet)
                 /\ IF disposition = "succeeded"
                    THEN held' = [held EXCEPT ![w] = [phase |-> "dependents", task |-> t, at |-> i]]
                    ELSE Release(w)
            \/ Release(w) /\ UNCHANGED <<task_rows, packet_row, memory_row>>
  BY DEF persist_outcome
<1>4. \A s \in S(disposition) : IsTaskRow(s) /\ task_from_row_dict(s)
  BY <1>2, UpdateTaskFacts, OutcomeKeepsFields
<1>5. \A c \in Commits(disposition) : RowsOK(c.tasks) /\ IsPacket(c.packet)
  <2>1. \A c \in Commits(disposition) : \E s \in S(disposition) : c \in OutcomeRows(t, s, disposition, i)
    OBVIOUS
  <2> HIDE DEF S, Commits
  <2> QED BY <1>1, <1>4, <2>1, OutcomeRowsOK
<1> HIDE DEF S, Commits, i
<1>6. ApprovalsOK(approval_rows')
  <2>1. ApprovalsOK(approval_rows)
    BY DEF StorageInductive
  <2>2. ASSUME NEW x \in StoredTasks PROVE ~Absent(approval_rows'[x]) => approval_from_row_dict(approval_rows'[x])
    <3>1. approval_rows'[x] = approval_rows[x] \/ (x = t /\ approval_rows'[x] = create_pending_approval(x, i))
      BY <1>3, <2>1 DEF ApprovalsOK
    <3>2. create_pending_approval(x, i) \in {NewApproval(i), approval_rows[x]}
      BY DEF create_pending_approval
    <3> QED BY <2>1, <3>1, <3>2, NewApprovalLoads DEF ApprovalsOK
  <2>3. DOMAIN approval_rows' = StoredTasks
    BY <1>3, <2>1 DEF ApprovalsOK
  <2> QED BY <2>2, <2>3 DEF ApprovalsOK
<1>7. ASSUME NEW c \in Commits(disposition), task_rows' = c.tasks, create_packet(c.packet),
             IF disposition = "succeeded"
             THEN held' = [held EXCEPT ![w] = [phase |-> "dependents", task |-> t, at |-> i]]
             ELSE Release(w)
      PROVE  StorageGood
  <2>1. PacketOK(packet_row') /\ MemoryOK(memory_row') /\ KeepsFresh /\ PassOK(memory_row', pass')
    BY <1>1, <1>5, <1>7, CreatePacketKeeps DEF StorageInductive
  <2>2. HeldOK([phase |-> "dependents", task |-> t, at |-> i])
    BY <1>1, HoldingShapes
  <2>3. HoldingsOK(held')
    <3>1. CASE disposition = "succeeded"
      <4>1. held' = [held EXCEPT ![w] = [phase |-> "dependents", task |-> t, at |-> i]]
        BY <1>7, <3>1
      <4> QED BY <1>1, <2>2, <4>1, UpdatedHolding
    <3>2. CASE disposition # "succeeded"
      BY <1>1, <1>7, <3>2, ReleaseKeeps
    <3> QED BY <3>1, <3>2
  <2>4. RowsOK(task_rows')
    BY <1>5, <1>7
  <2> QED BY <1>1, <1>6, <2>1, <2>3, <2>4 DEF StorageInductive, StorageGood
<1>8. ASSUME Release(w), UNCHANGED <<task_rows, packet_row, memory_row>> PROVE StorageGood
  <2>1. HoldingsOK(held')
    BY <1>1, <1>8, ReleaseKeeps
  <2> QED BY <1>1, <1>6, <1>8, <2>1, UnchangedKeepsFresh DEF StorageInductive, StorageGood
<1> QED BY <1>3, <1>7, <1>8

LEMMA WriteDependentKeeps ==
    ASSUME StorageInductive, NEW w, NEW d, NEW s, IsTaskRow(s), task_from_row_dict(s), held[w].at \in Int,
           WriteDependent(w, d, s), pass' = pass
    PROVE  /\ RowsOK(task_rows') /\ PacketOK(packet_row') /\ MemoryOK(memory_row') /\ KeepsFresh
           /\ PassOK(memory_row', pass')
<1> DEFINE p == apply_task_updates(packet_row, [x \in {d} |-> s], held[w].at)
<1>1. RowsOK(task_rows')
  BY UpdatedRow DEF WriteDependent, StorageInductive
<1>2. IsPacket(p) /\ create_packet(p)
  BY UpdatesKeepPacket DEF WriteDependent, StorageInductive, PacketOK
<1> HIDE DEF p
<1> QED BY <1>1, <1>2, CreatePacketKeeps DEF StorageInductive

LEMMA QueueDependentKeeps ==
    ASSUME StorageInductive, NEW w \in StoreWorkers, queue_ready_dependent(w)
    PROVE  StorageGood
<1> DEFINE v(d) == [phase |-> "enqueuing", task |-> held[w].task, at |-> held[w].at, dependent |-> d,
                    copy |-> task_rows[d]]
<1>1. UNCHANGED <<store_time, approval_rows, pass>> /\ HoldingsOK(held) /\ RowsOK(task_rows)
  BY DEF queue_ready_dependent, StorageInductive
<1>2. held[w].at \in Int
  BY DEF queue_ready_dependent, Holding, StorageInductive, HoldingsOK, HeldOK
<1>3. \/ \E d \in StoredTasks : \E s \in update_task(task_rows[d], queued(task_rows[d])) :
           WriteDependent(w, d, s) /\ held' = [held EXCEPT ![w] = v(d)]
      \/ Release(w) /\ UNCHANGED <<task_rows, packet_row, memory_row>>
  BY DEF queue_ready_dependent
<1>4. ASSUME NEW d \in StoredTasks, NEW s \in update_task(task_rows[d], queued(task_rows[d])),
             WriteDependent(w, d, s), held' = [held EXCEPT ![w] = v(d)]
      PROVE  StorageGood
  <2>1. IsTaskRow(task_rows[d]) /\ task_from_row_dict(task_rows[d])
    BY <1>1 DEF RowsOK
  <2>2. IsTaskRow(s) /\ task_from_row_dict(s)
    BY <2>1, <1>4, UpdateTaskFacts, OutcomeKeepsFields
  <2>3. HeldOK(v(d))
    BY <1>2, <2>1, HoldingShapes
  <2> HIDE DEF v
  <2>4. HoldingsOK(held')
    BY <1>1, <1>4, <2>3, UpdatedHolding
  <2>5. /\ RowsOK(task_rows') /\ PacketOK(packet_row') /\ MemoryOK(memory_row') /\ KeepsFresh
        /\ PassOK(memory_row', pass')
    BY <1>1, <1>2, <1>4, <2>2, WriteDependentKeeps
  <2> QED BY <1>1, <2>4, <2>5 DEF StorageInductive, StorageGood
<1>5. ASSUME Release(w), UNCHANGED <<task_rows, packet_row, memory_row>> PROVE StorageGood
  <2>1. HoldingsOK(held')
    BY <1>1, <1>5, ReleaseKeeps
  <2> QED BY <1>1, <1>5, <2>1, UnchangedKeepsFresh DEF StorageInductive, StorageGood
<1> HIDE DEF v
<1> QED BY <1>3, <1>4, <1>5

LEMMA EnqueueDependentKeeps ==
    ASSUME StorageInductive, NEW w \in StoreWorkers, enqueue_dependent(w)
    PROVE  StorageGood
<1>1. UNCHANGED <<store_time, approval_rows, pass>> /\ HoldingsOK(held)
  BY DEF enqueue_dependent, StorageInductive
<1>2. held[w].at \in Int /\ IsTaskRow(held[w].copy) /\ task_from_row_dict(held[w].copy)
  BY DEF enqueue_dependent, Holding, StorageInductive, HoldingsOK, HeldOK
<1>3. CASE /\ held' = [held EXCEPT ![w] = [phase |-> "dependents", task |-> held[w].task, at |-> held[w].at]]
           /\ UNCHANGED <<task_rows, packet_row, memory_row>>
  <2>1. HeldOK([phase |-> "dependents", task |-> held[w].task, at |-> held[w].at])
    BY <1>2, HoldingShapes
  <2>2. HoldingsOK(held')
    BY <1>1, <1>3, <2>1, UpdatedHolding
  <2> QED BY <1>1, <1>3, <2>2, UnchangedKeepsFresh DEF StorageInductive, StorageGood
<1>4. CASE WriteDependent(w, held[w].dependent, held[w].copy) /\ Release(w)
  <2>1. HoldingsOK(held')
    BY <1>1, <1>4, ReleaseKeeps
  <2>2. /\ RowsOK(task_rows') /\ PacketOK(packet_row') /\ MemoryOK(memory_row') /\ KeepsFresh
        /\ PassOK(memory_row', pass')
    BY <1>1, <1>2, <1>4, WriteDependentKeeps
  <2> QED BY <1>1, <2>1, <2>2 DEF StorageInductive, StorageGood
<1> QED BY <1>3, <1>4 DEF enqueue_dependent

LEMMA DecidedKeeps ==
    ASSUME ApprovalsOK(approval_rows), NEW t \in StoredTasks, NEW status, ~Absent(approval_rows[t]), Decided(t, status)
    PROVE  ApprovalsOK(approval_rows')
<1>1. PICK a \in (IF approval_rows[t].status = "PENDING"
                  THEN update_status(approval_rows[t], status, Clock("api")) ELSE {approval_rows[t]}) :
         approval_rows' = [approval_rows EXCEPT ![t] = a]
  BY DEF Decided
<1>2. \A b \in update_status(approval_rows[t], status, Clock("api")) : approval_from_row_dict(b)
  BY DEF update_status
<1>3. approval_from_row_dict(a)
  BY <1>1, <1>2 DEF ApprovalsOK
<1> QED BY <1>1, <1>3 DEF ApprovalsOK

LEMMA ApproveKeeps ==
    ASSUME StorageInductive, NEW t \in StoredTasks, ApproveTask(t)
    PROVE  StorageGood
<1>1. UNCHANGED <<store_time, packet_row, memory_row, held, pass>>
  BY DEF ApproveTask
<1>2. ApprovalsOK(approval_rows')
  BY DecidedKeeps DEF ApproveTask, StorageInductive
<1>3. RowsOK(task_rows) /\ IsTaskRow(task_rows[t])
  BY DEF StorageInductive, RowsOK
<1>4. \A s \in update_task(task_rows[t], queued(task_rows[t])) : IsTaskRow(s) /\ task_from_row_dict(s)
  BY <1>3, UpdateTaskFacts, OutcomeKeepsFields
<1>5. CASE UNCHANGED task_rows
  BY <1>1, <1>2, <1>5, UnchangedKeepsFresh DEF StorageInductive, StorageGood
<1>6. CASE \E s \in update_task(task_rows[t], queued(task_rows[t])) : task_rows' = [task_rows EXCEPT ![t] = s]
  <2>1. RowsOK(task_rows')
    <3>1. PICK s \in update_task(task_rows[t], queued(task_rows[t])) : task_rows' = [task_rows EXCEPT ![t] = s]
      BY <1>6
    <3> QED BY <1>3, <1>4, <3>1, UpdatedRow
  <2> QED BY <1>1, <1>2, <2>1, UnchangedKeepsFresh DEF StorageInductive, StorageGood
<1> QED BY <1>5, <1>6 DEF ApproveTask

LEMMA DenyKeeps ==
    ASSUME StorageInductive, NEW t \in StoredTasks, DenyTask(t)
    PROVE  StorageGood
<1> DEFINE S == update_task(task_rows[t], apply_state_transition(task_rows[t], "denied", Clock("api")))
<1>1. UNCHANGED <<store_time, packet_row, memory_row, held, pass>>
  BY DEF DenyTask
<1>2. ApprovalsOK(approval_rows')
  BY DecidedKeeps DEF DenyTask, StorageInductive
<1>3. RowsOK(task_rows) /\ IsTaskRow(task_rows[t])
  BY DEF StorageInductive, RowsOK
<1>4. \A s \in S : IsTaskRow(s) /\ task_from_row_dict(s)
  BY <1>3, UpdateTaskFacts, OutcomeKeepsFields
<1>5. UNCHANGED task_rows \/ \E s \in S : task_rows' = [task_rows EXCEPT ![t] = s]
  BY DEF DenyTask
<1> HIDE DEF S
<1>6. RowsOK(task_rows')
  <2>1. ASSUME NEW s \in S, task_rows' = [task_rows EXCEPT ![t] = s] PROVE RowsOK(task_rows')
    BY <1>3, <1>4, <2>1, UpdatedRow
  <2> QED BY <1>3, <1>5, <2>1
<1> QED BY <1>1, <1>2, <1>6, UnchangedKeepsFresh DEF StorageInductive, StorageGood

----------------------------------------------------------------------------
LEMMA StageFacts ==
    /\ \A s, i : [stage |-> s, at |-> i].stage = s
    /\ \A s, i, x : LET p == [stage |-> s, at |-> i, picked |-> x] IN p.stage = s /\ p.at = i /\ p.picked = x
    /\ NoPass.stage = "idle"
BY SMT DEF NoPass

\* The stages that select nothing, or whose selection is not looked at
LEMMA OtherStages ==
    ASSUME NEW m, NEW p, p.stage \notin {"refreshing", "pruning"}
    PROVE  PassOK(m, p)
BY DEF PassOK

\* A step of the pass that writes nothing
LEMMA PassOnly ==
    ASSUME StorageInductive, RowsUnchanged, memory_row' = memory_row, PassOK(memory_row, pass')
    PROVE  StorageGood
BY UnchangedKeepsFresh DEF StorageInductive, StorageGood, RowsUnchanged

LEMMA MaintenanceKeeps == StorageInductive /\ MaintenanceStep => StorageGood
<1> SUFFICES ASSUME StorageInductive, MaintenanceStep PROVE StorageGood
  OBVIOUS
<1>1. CASE run_once
  <2>1. pass'.stage = "refresh"
    BY <1>1, StageFacts DEF run_once
  <2> QED BY <1>1, <2>1, OtherStages, PassOnly DEF run_once
<1>2. CASE list_for_memory_refresh_before
  <2>1. PassOK(memory_row, pass')
    <3>1. CASE Select("refreshing", packet_row)
      BY <3>1, StageFacts DEF Select, PassOK, StorageInductive, PacketOK
    <3>2. CASE GoStage("prune")
      BY <3>2, StageFacts, OtherStages DEF GoStage
    <3> QED BY <1>2, <3>1, <3>2 DEF list_for_memory_refresh_before
  <2> QED BY <1>2, <2>1, PassOnly DEF list_for_memory_refresh_before
<1>3. CASE refresh_memory_from_run_packets
  <2>1. RowsUnchanged /\ upsert_memory(pass.picked) /\ pass'.stage = "prune"
    BY <1>3, StageFacts DEF refresh_memory_from_run_packets, GoStage
  <2>2. IsPacket(pass.picked)
    BY <1>3 DEF refresh_memory_from_run_packets, AtStage, StorageInductive, PassOK
  <2>3. MemoryOK(memory_row') /\ KeepsFresh /\ PassOK(memory_row', pass')
    BY <2>1, <2>2, UpsertKeeps, OtherStages
  <2> QED BY <2>1, <2>3 DEF RowsUnchanged, StorageInductive, StorageGood
<1>4. CASE select_older_than
  <2>1. PassOK(memory_row, pass')
    <3>1. CASE memory_row.updated < pass.at - Retention /\ Select("pruning", memory_row.memory_id)
      <4>1. pass'.stage = "pruning" /\ pass'.at = pass.at /\ pass'.picked = memory_row.memory_id
        BY <3>1, StageFacts DEF Select
      <4> QED BY <3>1, <4>1 DEF PassOK
    <3>2. CASE GoStage("archive")
      BY <3>2, StageFacts, OtherStages DEF GoStage
    <3> QED BY <1>4, <3>1, <3>2 DEF select_older_than
  <2> QED BY <1>4, <2>1, PassOnly DEF select_older_than
<1>5. CASE delete_older_than
  <2>1. RowsUnchanged /\ pass'.stage = "archive" /\ pass.stage = "pruning"
    BY <1>5, StageFacts DEF delete_older_than, GoStage, AtStage
  <2>2. PassOK(memory_row', pass')
    BY <2>1, OtherStages
  <2>3. memory_row' = memory_row \/ (Absent(memory_row') /\ ~Absent(memory_row) /\ memory_row.memory_id = pass.picked)
    BY <1>5 DEF delete_older_than, Absent
  <2>4. MemoryOK(memory_row')
    BY <2>3 DEF StorageInductive, MemoryOK
  <2>5. KeepsFresh
    BY <2>1, <2>3 DEF KeepsFresh, StorageInductive, PassOK
  <2> QED BY <2>1, <2>2, <2>4, <2>5 DEF RowsUnchanged, StorageInductive, StorageGood
<1>6. CASE select_terminal_before
  <2>1. RowsUnchanged /\ memory_row' = memory_row
    BY <1>6 DEF select_terminal_before
  <2>2. pass' = NoPass \/ \E batch : Select("archiving", batch)
    BY <1>6 DEF select_terminal_before
  <2>3. pass'.stage \in {"idle", "archiving"}
    <3>1. ASSUME NEW batch, Select("archiving", batch) PROVE pass'.stage = "archiving"
      BY <3>1, StageFacts DEF Select
    <3> QED BY <2>2, <3>1, StageFacts
  <2> QED BY <2>1, <2>3, OtherStages, PassOnly
<1>7. CASE archive_terminal_before
  <2>1. UNCHANGED <<store_time, approval_rows, packet_row, memory_row, held>> /\ pass'.stage = "idle"
    BY <1>7, StageFacts DEF archive_terminal_before
  <2>2. RowsOK(task_rows')
    <3>1. RowsOK(task_rows)
      BY DEF StorageInductive
    <3>2. task_rows' = [t \in StoredTasks |-> IF t \in pass.picked THEN [task_rows[t] EXCEPT !.status = "ARCHIVED"]
                                              ELSE task_rows[t]]
      BY <1>7 DEF archive_terminal_before
    <3>3. ASSUME NEW t \in StoredTasks PROVE IsTaskRow(task_rows'[t]) /\ task_from_row_dict(task_rows'[t])
      <4>1. IsTaskRow(task_rows[t]) /\ task_from_row_dict(task_rows[t])
        BY <3>1 DEF RowsOK
      <4> QED BY <3>2, <4>1, StatusDoesNotMatter
    <3> QED BY <3>2, <3>3 DEF RowsOK
  <2>3. PassOK(memory_row', pass')
    BY <2>1, OtherStages
  <2> QED BY <2>1, <2>2, <2>3, UnchangedKeepsFresh DEF StorageInductive, StorageGood
<1>8. CASE MaintenanceFails
  <2>1. pass'.stage = "idle"
    BY <1>8, StageFacts DEF MaintenanceFails
  <2> QED BY <1>8, <2>1, OtherStages, PassOnly DEF MaintenanceFails
<1> QED BY <1>1, <1>2, <1>3, <1>4, <1>5, <1>6, <1>7, <1>8 DEF MaintenanceStep

LEMMA StorageStepKeeps == StorageInductive /\ StorageNext => StorageGood
<1> SUFFICES ASSUME StorageInductive, StorageNext PROVE StorageGood
  OBVIOUS
<1>1. CASE \E w \in StoreWorkers : WorkerStep(w)
  BY <1>1, LoadTaskKeeps, DelayedKeeps, PersistStartedKeeps, PersistOutcomeKeeps, QueueDependentKeeps,
     EnqueueDependentKeeps DEF WorkerStep
<1>2. CASE \E t \in StoredTasks : ApproveTask(t) \/ DenyTask(t)
  BY <1>2, ApproveKeeps, DenyKeeps
<1>3. CASE MaintenanceStep
  BY <1>3, MaintenanceKeeps
<1>4. CASE TimePasses
  <2>1. store_time' \in Nat
    BY <1>4, SMT DEF TimePasses, StorageInductive
  <2> QED BY <1>4, <2>1, UnchangedKeepsFresh DEF TimePasses, StorageInductive, StorageGood
<1> QED BY <1>1, <1>2, <1>3, <1>4 DEF StorageNext

LEMMA StorageStarts == StorageInit => StorageInductive
<1> SUFFICES ASSUME StorageInit PROVE StorageInductive
  OBVIOUS
<1> DEFINE planned_at == Clock("planner")
<1>1. store_time \in Nat
  BY SMT DEF StorageInit
<1>2. planned_at \in Int
  BY <1>1, ClockIsInt
<1> HIDE DEF planned_at
<1>3. RowsOK(task_rows)
  <2>1. ASSUME NEW t \in StoredTasks PROVE IsTaskRow(task_rows[t]) /\ task_from_row_dict(task_rows[t])
    <3>1. PICK st : task_rows[t] = [NewRecord(planned_at) EXCEPT !.status = st]
      BY DEF StorageInit, planned_at
    <3>2. IsTaskRow(NewRecord(planned_at)) /\ task_from_row_dict(NewRecord(planned_at))
      BY <1>2, NewRecordFacts
    <3>3. LET r == [NewRecord(planned_at) EXCEPT !.status = st] IN IsTaskRow(r) /\ task_from_row_dict(r)
      BY <3>2, StatusDoesNotMatter
    <3> QED BY <3>1, <3>3
  <2>2. DOMAIN task_rows = StoredTasks
    BY DEF StorageInit
  <2> QED BY <2>1, <2>2 DEF RowsOK
<1>4. ApprovalsOK(approval_rows)
  BY DEF StorageInit, ApprovalsOK, Absent
<1>5. PICK statuses : packet_row = NewPacket(statuses, planned_at)
  BY DEF StorageInit, planned_at
<1>6. IsPacket(packet_row) /\ RunPacket_validate(packet_row) /\ packet_row.policy_decisions = 0
  BY <1>2, <1>5, NewPacketFacts
<1>7. PacketOK(packet_row)
  BY <1>6, MaxItemsNat, SMT DEF PacketOK, row_to_packet, sanitize_for_audit_validates
<1>8. MemoryOK(memory_row)
  <2>1. PICK version : memory_row = [memory_item_from_run_packet(packet_row, 0) EXCEPT !.memory_version = version]
    BY DEF StorageInit
  <2> DEFINE m == memory_item_from_run_packet(packet_row, 0)
  <2>2. /\ m.updated \in Int /\ m.created \in Int /\ m.updated >= m.created
        /\ DOMAIN m = {"memory_id", "memory_version", "created", "updated"}
    BY <1>6, ItemFacts
  <2> HIDE DEF m
  <2>3. memory_row.updated = m.updated /\ memory_row.created = m.created
    BY <2>1, <2>2, SMT DEF m
  <2> QED BY <2>2, <2>3 DEF MemoryOK, memory_item_from_row_dict, MemoryItem_validate_timestamp_order
<1>9. HoldingsOK(held)
  BY HoldingShapes DEF StorageInit, HoldingsOK
<1>10. PassOK(memory_row, pass)
  <2>1. pass.stage = "idle"
    BY StageFacts DEF StorageInit
  <2> QED BY <2>1, OtherStages
<1> QED BY <1>1, <1>3, <1>4, <1>7, <1>8, <1>9, <1>10 DEF StorageInductive

LEMMA StorageInvariant == StorageSpec => []StorageInductive
<1>1. StorageInductive /\ [StorageNext]_storage_vars => StorageInductive'
  <2>1. StorageInductive /\ UNCHANGED storage_vars => StorageInductive'
    BY DEF storage_vars, StorageInductive
  <2> QED BY <2>1, StorageStepKeeps DEF StorageGood
<1> QED BY <1>1, StorageStarts, PTL DEF StorageSpec

\* StoredRowsLoad, for every set of tasks, workers and clocks: update and update_status read
\* back what they write, a row that is written back is one that was read, and archiving
\* changes a status only (repos/tasks.py, repos/approvals.py, mappers.py).
THEOREM RowsCanBeRead == StorageSpec => []StoredRowsLoad
<1>1. StorageInductive => StoredRowsLoad
  BY DEF StorageInductive, StoredRowsLoad, RowsOK, ApprovalsOK, PacketOK, MemoryOK
<1> QED BY <1>1, StorageInvariant, PTL

\* FreshMemoryKept: an item that replaced the one the pass selected has an id of its own, so
\* the delete of delete_older_than cannot meet it (repos/memory.py).
THEOREM PruningKeepsFreshMemory == StorageSpec => FreshMemoryKept
<1>1. StorageInductive /\ [StorageNext]_storage_vars
        => [~Absent(memory_row) /\ Absent(memory_row') => memory_row.updated < pass.at - Retention]_storage_vars
  BY StorageStepKeeps DEF StorageGood, KeepsFresh
<1> QED BY <1>1, StorageInvariant, PTL DEF StorageSpec, FreshMemoryKept
=============================================================================
