------------------------------- MODULE WalLog -------------------------------
(***************************************************************************)
(* The checksummed write-ahead log of the engine (engine/src/wal): one     *)
(* WalWriter at a time over a file, and what WalReader and replay get out  *)
(* of the file after a crash, a failed write or a restart.  The module is  *)
(* commented out of the build (engine/src/lib.rs:12); the node logs        *)
(* through ewal.                                                           *)
(*                                                                         *)
(* An entry is written in pieces (length, checksum, payload) to a          *)
(* BufWriter, which may write to the file at any moment; the file keeps    *)
(* what was synced and, in a crash, any part of the rest from the front.   *)
(* The pieces of entry n are two cells, Cell(n, 1) and Cell(n, 2), so that *)
(* it can be torn between them; entry 0 is the header of the file.  The    *)
(* checksum is taken to detect a payload that is not the entry's own.      *)
(***************************************************************************)
EXTENDS Naturals, Sequences

CONSTANTS SyncOnFlush,  \* WalOptions::sync_on_flush
          Faults,       \* "crash"; "disk": a write or a sync fails
          MaxEntries,   \* bound on the entries
          MaxBatch      \* bound on the entries of one append_batch

ASSUME WalAssumption ==
    /\ SyncOnFlush \in BOOLEAN
    /\ Faults \subseteq {"crash", "disk"}
    /\ MaxEntries \in Nat
    /\ MaxBatch \in Nat

VARIABLES
    file,      \* the cells the operating system has
    synced,    \* how many of them a crash cannot take
    buffer,    \* the cells in the BufWriter
    position,  \* WalWriter::position, in cells
    phase,     \* where the writer is; "closed" when there is none
    batch,     \* the entries of the append_batch under way; Oversized for one
               \* above entry_size_limit
    at,        \* how many of them are written
    count,     \* history: the entries numbered so far
    acked,     \* history: the entries of the batches that returned Ok
    torn,      \* history: the incomplete entries a writer has gone on after
    late,      \* history: the entries acknowledged when there were such
    stray      \* history: the cells that failed writes of this writer left

walVars ==
    <<file, synced, buffer, position, phase, batch, at, count, acked, torn, late, stray>>

Phases == {"closed", "ready", "writing", "syncing"}
Oversized == 0

Cell(n, i) == <<n, i>>
Entry(n) == <<Cell(n, 1), Cell(n, 2)>>
Header == Entry(0)

Elements(s) == {s[i] : i \in DOMAIN s}

-----------------------------------------------------------------------------
(* The reader.                                                             *)

\* The k-th pair of cells is an entry that next_entry can read, header
\* included; anything else is UnexpectedEof or CorruptEntry.
Whole(cells, k) ==
    /\ 2 * k <= Len(cells)
    /\ \E n \in 0..MaxEntries :
         /\ cells[2 * k - 1] = Cell(n, 1)
         /\ cells[2 * k] = Cell(n, 2)

\* How many pairs can be read from the start.
Extent(cells) ==
    CHOOSE k \in 0..Len(cells) :
        /\ \A j \in 1..k : Whole(cells, j)
        /\ ~Whole(cells, k + 1)

\* What replay applies in the lenient mode: the entries up to the first error.
Replayed(cells) ==
    IF Extent(cells) = 0 THEN << >>
    ELSE [k \in 1..Extent(cells) - 1 |-> cells[2 * k + 1][1]]

\* The strict mode succeeds.
Clean(cells) == Len(cells) = 2 * Extent(cells)

\* The entries with a first cell and no second.
Incomplete(cells) ==
    {n \in 0..MaxEntries :
       Cell(n, 1) \in Elements(cells) /\ Cell(n, 2) \notin Elements(cells)}

-----------------------------------------------------------------------------
WalInit ==
    /\ file = << >>
    /\ synced = 0
    /\ buffer = << >>
    /\ position = 0
    /\ phase = "closed"
    /\ batch = << >>
    /\ at = 0
    /\ count = 0
    /\ acked = {}
    /\ torn = {}
    /\ late = {}
    /\ stray = 0

\* WalWriter::open.  The header of a new file is only buffered; a file with a
\* part of a header is refused.
Open ==
    /\ phase = "closed"
    /\ \/ /\ file = << >>
          /\ buffer' = Header
          /\ position' = Len(Header)
       \/ /\ Len(file) >= Len(Header)
          /\ SubSeq(file, 1, Len(Header)) = Header
          /\ buffer' = << >>
          /\ position' = Len(file)
    /\ phase' = "ready"
    /\ torn' = torn \cup Incomplete(file)
    /\ stray' = 0
    /\ UNCHANGED <<file, synced, batch, at, count, acked, late>>

\* append and append_batch: numbers for the entries within the limit.
AppendBatch ==
    /\ phase = "ready"
    /\ \E k \in 1..MaxBatch :
         /\ count + k <= MaxEntries
         /\ \E bad \in 0..k :
              batch' = [i \in 1..k |-> IF i = bad THEN Oversized ELSE count + i]
         /\ count' = count + k
    /\ at' = 0
    /\ phase' = "writing"
    /\ UNCHANGED <<file, synced, buffer, position, acked, torn, late, stray>>

\* The BufWriter has taken `cells` and given the first j of what it then holds
\* to the file.
Spill(cells, j) ==
    LET all == buffer \o cells
    IN  /\ file' = file \o SubSeq(all, 1, j)
        /\ buffer' = SubSeq(all, j + 1, Len(all))

\* The call returns an error: what is in the buffer stays there.
Fail ==
    /\ phase' = "ready"
    /\ batch' = << >>
    /\ at' = 0
    /\ UNCHANGED <<synced, position, count, acked, late>>

\* append_batch meets an entry above the limit.
Refuse ==
    /\ phase = "writing"
    /\ at < Len(batch)
    /\ batch[at + 1] = Oversized
    /\ Fail
    /\ UNCHANGED <<file, buffer, torn, stray>>

\* Mutant: the position counts the payload only.
AdvancedShort(p) == p + 1

Advanced(p) == p + 2

\* One entry goes to the BufWriter, which may be flushed on the way.
WriteEntry ==
    /\ phase = "writing"
    /\ at < Len(batch)
    /\ batch[at + 1] # Oversized
    /\ \E j \in 0..Len(buffer) + 2 : Spill(Entry(batch[at + 1]), j)
    /\ position' = Advanced(position)
    /\ at' = at + 1
    /\ UNCHANGED <<synced, phase, batch, count, acked, torn, late, stray>>

\* A write to the file fails on the way, between the pieces or before them; the
\* position counts an entry only when all of it is written.
WriteEntryFails ==
    /\ "disk" \in Faults
    /\ phase = "writing"
    /\ at < Len(batch)
    /\ batch[at + 1] # Oversized
    /\ \E i \in 0..1 :
         /\ \E j \in 0..Len(buffer) + i : Spill(SubSeq(Entry(batch[at + 1]), 1, i), j)
         /\ torn' = IF i = 1 THEN torn \cup {batch[at + 1]} ELSE torn
         /\ stray' = stray + i
    /\ Fail

Acknowledge ==
    /\ acked' = acked \cup Elements(batch)
    /\ late' = IF torn = {} THEN late ELSE late \cup Elements(batch)

\* Mutant: the batch is acknowledged before the sync.
FlushEager ==
    /\ phase = "writing"
    /\ at = Len(batch)
    /\ Spill(<< >>, Len(buffer))
    /\ phase' = "syncing"
    /\ Acknowledge
    /\ UNCHANGED <<synced, position, batch, at, count, torn, stray>>

\* flush at the end of the batch; without sync_on_flush append_batch is done.
Flush ==
    /\ phase = "writing"
    /\ at = Len(batch)
    /\ Spill(<< >>, Len(buffer))
    /\ IF SyncOnFlush
       THEN phase' = "syncing" /\ UNCHANGED <<batch, at, acked, late>>
       ELSE phase' = "ready" /\ batch' = << >> /\ at' = 0 /\ Acknowledge
    /\ UNCHANGED <<synced, position, count, torn, stray>>

\* Mutant: what was written before the error is written again.
KeptWhole(j) == buffer

Kept(j) == SubSeq(buffer, j + 1, Len(buffer))

FlushFails ==
    /\ "disk" \in Faults
    /\ phase = "writing"
    /\ at = Len(batch)
    /\ buffer # << >>
    /\ \E j \in 0..Len(buffer) - 1 :
         /\ file' = file \o SubSeq(buffer, 1, j)
         /\ buffer' = Kept(j)
    /\ Fail
    /\ UNCHANGED <<torn, stray>>

\* sync_data
Sync ==
    /\ phase = "syncing"
    /\ synced' = Len(file)
    /\ Acknowledge
    /\ phase' = "ready"
    /\ batch' = << >>
    /\ at' = 0
    /\ UNCHANGED <<file, buffer, position, count, torn, stray>>

SyncFails ==
    /\ "disk" \in Faults
    /\ phase = "syncing"
    /\ Fail
    /\ UNCHANGED <<file, buffer, torn, stray>>

\* The writer is dropped: its BufWriter is flushed, and errors are not seen.
Close ==
    /\ phase = "ready"
    /\ \E j \in {Len(buffer)} \cup (IF "disk" \in Faults THEN 0..Len(buffer) ELSE {}) :
         file' = file \o SubSeq(buffer, 1, j)
    /\ buffer' = << >>
    /\ phase' = "closed"
    /\ UNCHANGED <<synced, position, batch, at, count, acked, torn, late, stray>>

\* The machine stops.
Crash ==
    /\ "crash" \in Faults
    /\ \E j \in synced..Len(file) : file' = SubSeq(file, 1, j)
    /\ synced' = Len(file')
    /\ buffer' = << >>
    /\ phase' = "closed"
    /\ batch' = << >>
    /\ at' = 0
    /\ UNCHANGED <<position, count, acked, torn, late, stray>>

WalNext ==
    \/ Open \/ AppendBatch \/ Refuse \/ WriteEntry \/ WriteEntryFails
    \/ Flush \/ FlushFails \/ Sync \/ SyncFails \/ Close \/ Crash

WalSpec == WalInit /\ [][WalNext]_walVars

-----------------------------------------------------------------------------
(* Properties.                                                             *)

Cells == (0..MaxEntries) \X {1, 2}

\* Every variable has the type its declaration says; a closed writer has no
\* buffer and no batch.
WalTypeOK ==
    /\ file \in Seq(Cells)
    /\ synced \in 0..Len(file)
    /\ buffer \in Seq(Cells)
    /\ position \in Nat
    /\ phase \in Phases
    /\ batch \in Seq(0..MaxEntries)
    /\ at \in 0..Len(batch)
    /\ count \in 0..MaxEntries
    /\ acked \subseteq 1..count
    /\ torn \subseteq 0..MaxEntries
    /\ late \subseteq acked
    /\ stray \in Nat
    /\ phase = "closed" => buffer = << >>
    /\ phase \in {"closed", "ready"} => batch = << >>

\* What a replay would get if the machine stopped now at the worst moment.
Durable == SubSeq(file, 1, synced)

\* An append that returned Ok with sync_on_flush survives every crash and every
\* later failure, torn tail or reopening, unless it returned after a writer had
\* gone on behind an incomplete entry: nothing that happens to the writer reaches
\* back to what was acknowledged before.  What is appended behind an incomplete
\* entry is acknowledged and lost to replay (writer.rs:50, writer.rs:98); the
\* code leaves it to its caller to repair the file first (options.rs:7), and
\* nothing is claimed of it here.
AcknowledgedIsReplayed ==
    SyncOnFlush => acked \ late \subseteq Elements(Replayed(Durable))

\* A replay applies entries in the order they were appended and none twice,
\* whatever was torn, failed, or crashed.
ReplayInOrder ==
    LET r == Replayed(file)
    IN  \A i, j \in DOMAIN r : i < j => r[i] < r[j]

\* position is where the next entry will be in the file, after refused batches,
\* failed flushes and syncs, and restarts; it lags behind by the cells that
\* writes of this writer left when they failed on the way, and by nothing else.
PositionExact ==
    phase # "closed" => position + stray = Len(file) + Len(buffer)

\* Whenever the writer is between two calls, or waits for the sync, an entry is
\* incomplete only if its own write failed or if it was so when a writer opened
\* the file; as long as there was none, strict replay of the file and the buffer
\* succeeds.  Refused batches, failed flushes and syncs, and drops leave whole
\* entries.
CleanBetweenCalls ==
    phase \in {"ready", "syncing"} =>
        /\ Incomplete(file \o buffer) \subseteq torn
        /\ torn = {} => Clean(file \o buffer)
=============================================================================
