------------------------------ MODULE BlockFiles ------------------------------
(***************************************************************************)
(* Where block bodies live: the files of ArchivalBlockStore (packed, append *)
(* only) and PrunedBlockStore (one block a file), and the rows of the       *)
(* blocks table that point into them.  A body is written to its file first  *)
(* and its row is committed after; the process may die in between, either   *)
(* may fail, and opening the database reconciles the two.                   *)
(*                                                                          *)
(* A file is the sequence of its bytes; byte i of block b is <<b, i>>.      *)
(***************************************************************************)
EXTENDS Integers, Sequences, FiniteSets, SequencesExt

CONSTANTS
    Blocks,         \* the blocks that can be stored
    Size,           \* len(block.to_bytes())
    MaxFileSize,    \* MAX_BLOCK_FILE_SIZE, 128 MB
    Modes,          \* the storage modes a run starts from
    ShortWrites,    \* the modes in which writing a file may stop half way
    MaxNumber       \* bound: the last file number used

ASSUME FilesAssumption ==
    /\ Size \in [Blocks -> Nat \ {0}]
    /\ MaxFileSize \in Nat \ {0}
    /\ Modes \subseteq {"archival", "pruned"} /\ ShortWrites \subseteq Modes
    /\ MaxNumber \in Nat

VARIABLES
    mode,     \* storage_mode
    files,    \* file number -> bytes, for the files that exist
    number,   \* current_file_number
    size,     \* current_file_size (archival only)
    rows,     \* the committed rows of the blocks table
    job       \* the operation under way

vars == <<mode, files, number, size, rows, job>>

Bytes(b) == [i \in 1 .. Size[b] |-> <<b, i>>]
Byte == UNION {{<<b, i>> : i \in 1 .. Size[b]} : b \in Blocks}
Numbers == 0 .. MaxNumber

\* BlockLocation, and the block the row is for.
Row == [block : Blocks, file : Numbers, offset : Nat, size : Nat]
End(r) == r.offset + r.size

Idle == [phase |-> "idle", rows |-> {}]
Jobs == [phase : {"idle", "written", "deleting", "clearing"}, rows : SUBSET Row]

Stored == {r.block : r \in rows}
Content(n) == IF n \in DOMAIN files THEN files[n] ELSE << >>

\* _get_latest_file_number and the max(..., default=-1) of the pruned store.
Latest(fs) ==
    IF DOMAIN fs = {} THEN (IF mode = "archival" THEN 0 ELSE -1) ELSE Max(DOMAIN fs)
LengthOf(fs, n) == IF n \in DOMAIN fs THEN Len(fs[n]) ELSE 0

With(fs, n, bytes) == [m \in DOMAIN fs \cup {n} |-> IF m = n THEN bytes ELSE fs[m]]
Drop(fs, gone) == [m \in DOMAIN fs \ gone |-> fs[m]]

\* After a rollback or a reconciliation the cursor is read from the disk.
CursorFromDisk(fs) ==
    /\ number' = Latest(fs)
    /\ size' = IF mode = "archival" THEN LengthOf(fs, Latest(fs)) ELSE 0

-----------------------------------------------------------------------------
(* write_block *)

\* The file a body of n bytes goes to: a packed file is left when it is full,
\* a pruned body always gets a new file.
TargetFile(n) ==
    IF mode = "archival" THEN (IF size + n > MaxFileSize THEN number + 1 ELSE number)
    ELSE number + 1
TargetOffset(n) ==
    IF mode = "archival" /\ size + n <= MaxFileSize THEN size ELSE 0

\* Opening with "ab" appends at the real end; write_bytes starts from nothing.
AfterWrite(n, bytes) ==
    IF mode = "archival" THEN Content(n) \o bytes ELSE bytes

Write(b) ==
    LET n == TargetFile(Size[b])
        o == TargetOffset(Size[b])
    IN  /\ job = Idle /\ b \notin Stored /\ n <= MaxNumber
        /\ files' = With(files, n, AfterWrite(n, Bytes(b)))
        /\ number' = n
        /\ size' = IF mode = "archival" THEN o + Size[b] ELSE 0
        /\ job' = [phase |-> "written",
                   rows |-> {[block |-> b, file |-> n, offset |-> o, size |-> Size[b]]}]
        /\ UNCHANGED <<mode, rows>>

\* The write stops after k bytes with an exception: no location was returned,
\* so that nothing rolls it back, and the size is not updated.
WriteShort(b) ==
    LET n == TargetFile(Size[b])
    IN  /\ mode \in ShortWrites
        /\ job = Idle /\ b \notin Stored /\ n <= MaxNumber
        /\ \E k \in 0 .. Size[b] - 1 :
               files' = With(files, n, AfterWrite(n, SubSeq(Bytes(b), 1, k)))
        /\ number' = n
        /\ size' = IF mode = "archival" THEN TargetOffset(Size[b]) ELSE 0
        /\ UNCHANGED <<mode, rows, job>>

-----------------------------------------------------------------------------
(* The database transaction that follows, in add_block and connect_block *)

Commit ==
    /\ job.phase = "written"
    /\ rows' = rows \cup job.rows
    /\ job' = Idle
    /\ UNCHANGED <<mode, files, number, size>>

\* Fault: the bytes go, the cursor stays.
CommitFailsCursorKept ==
    \E r \in job.rows :
        /\ job.phase = "written"
        /\ files' = IF r.offset = 0 THEN Drop(files, {r.file})
                    ELSE With(files, r.file, SubSeq(files[r.file], 1, r.offset))
        /\ job' = Idle
        /\ UNCHANGED <<mode, number, size, rows>>

\* rollback_write: the appended bytes are cut off, a file left empty goes, and
\* a packed file that does not end where it should is left alone.
CommitFails ==
    \E r \in job.rows :
        LET cut == IF mode = "pruned" \/ r.offset = 0 THEN Drop(files, {r.file})
                   ELSE With(files, r.file, SubSeq(files[r.file], 1, r.offset))
        IN  /\ job.phase = "written"
            /\ IF mode = "archival" /\ Len(Content(r.file)) # End(r)
               THEN UNCHANGED <<files, number, size>>
               ELSE files' = cut /\ CursorFromDisk(cut)
            /\ job' = Idle
            /\ UNCHANGED <<mode, rows>>

-----------------------------------------------------------------------------
(* Deleting bodies *)

\* Fault: the files go before the rows that point to them.
PruneFilesFirst(gone) ==
    /\ mode = "pruned" /\ job = Idle
    /\ gone # {}
    /\ files' = Drop(files, {r.file : r \in gone})
    /\ job' = [phase |-> "deleting", rows |-> gone]
    /\ UNCHANGED <<mode, number, size, rows>>

\* prune_blocks: the rows go in one commit, then their files one by one.
Prune(gone) ==
    /\ mode = "pruned" /\ job = Idle
    /\ gone # {}
    /\ rows' = rows \ gone
    /\ job' = [phase |-> "deleting", rows |-> gone]
    /\ UNCHANGED <<mode, files, number, size>>

\* Fault: the list is walked past its end.
DeleteFileAgain ==
    /\ job.phase = "deleting"
    /\ \E r \in job.rows :
        /\ files' = Drop(files, {r.file})
        /\ job' = [job EXCEPT !.rows = @ \ {r}]
    /\ UNCHANGED <<mode, number, size, rows>>

DeleteFile ==
    /\ job.phase = "deleting"
    /\ \E r \in job.rows :
        /\ files' = Drop(files, {r.file})
        /\ job' = IF job.rows = {r} THEN Idle ELSE [job EXCEPT !.rows = @ \ {r}]
    /\ UNCHANGED <<mode, number, size, rows>>

\* _clear_db: the tables are dropped, then every file is deleted.
Clear ==
    /\ job = Idle
    /\ rows' = {}
    /\ job' = [phase |-> "clearing", rows |-> {}]
    /\ UNCHANGED <<mode, files, number, size>>

ClearFiles ==
    /\ job.phase = "clearing"
    /\ files' = << >>
    /\ number' = IF mode = "archival" THEN 0 ELSE -1
    /\ size' = 0
    /\ job' = Idle
    /\ UNCHANGED <<mode, rows>>

-----------------------------------------------------------------------------
(* Opening the database again, after a crash at any step *)

\* Where the last row of a file ends.
ReferencedEnd(n) == Max({End(r) : r \in {q \in rows : q.file = n}})

\* Fault: the tail that no row refers to is kept.
ReconciledLoosely(fs) ==
    [n \in DOMAIN fs \cap {r.file : r \in rows} |-> fs[n]]

\* reconcile: files without a row go; a packed file is cut after its last row.
Reconciled(fs) ==
    [n \in DOMAIN fs \cap {r.file : r \in rows} |->
        IF mode = "archival" /\ Len(fs[n]) > ReferencedEnd(n)
        THEN SubSeq(fs[n], 1, ReferencedEnd(n)) ELSE fs[n]]

Reopen ==
    /\ files' = Reconciled(files)
    /\ CursorFromDisk(Reconciled(files))
    /\ job' = Idle
    /\ UNCHANGED <<mode, rows>>

Init ==
    /\ mode \in Modes
    /\ files = << >>
    /\ number = Latest(<< >>)
    /\ size = 0
    /\ rows = {}
    /\ job = Idle

Next ==
    \/ \E b \in Blocks : Write(b) \/ WriteShort(b)
    \/ Commit
    \/ CommitFails
    \/ \E gone \in SUBSET rows : Prune(gone)
    \/ DeleteFile
    \/ Clear
    \/ ClearFiles
    \/ Reopen

Spec == Init /\ [][Next]_vars

-----------------------------------------------------------------------------
\* The cursor names a file number, files hold bytes of blocks, and an operation
\* under way has the rows it works on.
TypeOK ==
    /\ mode \in Modes
    /\ DOMAIN files \subseteq Numbers
    /\ \A n \in DOMAIN files : files[n] \in Seq(Byte)
    /\ number \in -1 .. MaxNumber
    /\ size \in Nat
    /\ rows \subseteq Row
    /\ job \in Jobs
    /\ job.rows = {} <=> job.phase \in {"idle", "clearing"}

\* Every committed row leads to exactly its block, at every instant: through
\* crashes, failed commits, rollbacks, pruning and reconciliation (read_block;
\* docs/bitclone-development.md:148, "Block-file writes are rolled back on
\* commit failure and reconciled on startup").
RowsReadBack ==
    \A r \in rows : /\ r.file \in DOMAIN files
                    /\ End(r) <= Len(files[r.file])
                    /\ SubSeq(files[r.file], r.offset + 1, End(r)) = Bytes(r.block)

\* Between operations the tracked size of the packed file written next is its
\* length on disk, so that the next offset is right (write_block trusts it).
CursorAtEnd ==
    mode = "archival" /\ job = Idle => size = LengthOf(files, number)

\* No file outgrows the limit unless a single block does.
FilesWithinLimit ==
    mode = "archival" => \A n \in DOMAIN files :
        Len(files[n]) <= MaxFileSize \/ \E b \in Blocks : Len(files[n]) <= Size[b]

\* The writer knows where it writes: the tracked size is right and the limit kept,
\* after rollbacks, failed commits, pruning and reconciliation too.
FilesTracked == CursorAtEnd /\ FilesWithinLimit

\* Opening the database leaves no byte that no row accounts for at the end of
\* a file, and no file without a row (reconcile).
ReopenLeavesNoGarbage ==
    [][Reopen => \A n \in DOMAIN files' :
          \E r \in rows' : r.file = n /\ End(r) = Len(files'[n])]_vars
=============================================================================
