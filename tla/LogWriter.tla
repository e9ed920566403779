---------------------------- MODULE LogWriter ----------------------------
(* One level of the file log: threads send lines through a bounded channel   *)
(* to the worker of core/logging/mod.rs, which batches them and hands each   *)
(* batch to the rotating file of core/logging/rotate.rs. A file that is full *)
(* is renamed; at the first write of a day a new file is opened and files    *)
(* older than the retention are removed.                                     *)
(* Abstracted: a line has size 1 and is known by its number; a second and a  *)
(* day are steps of one clock; the other levels and the Seq sink.  A second  *)
(* has fewer archives than MAX_FILENAME_SEQ (1000), whose last would be      *)
(* replaced; a write to an open file succeeds, and the channel is not closed *)
(* while the process runs.                                                   *)
EXTENDS Integers, Sequences, SequencesExt, FiniteSets

CONSTANTS
    Threads,
    Capacity,   \* LOG_CHANNEL_CAPACITY
    BatchSize,  \* the size at which a batch is written although more lines wait
    MaxSize,    \* the size a file may reach
    MaxAge,     \* the retention, in clock steps
    DayLength,  \* clock steps of a day
    MaxLines,   \* bound: lines logged
    MaxTime,    \* bound: the clock
    MaxFaults   \* bound: failed file operations and restarts

ASSUME LogAssumption ==
    /\ {Capacity, BatchSize, MaxSize, DayLength} \subseteq Nat \ {0}
    /\ {MaxAge, MaxLines, MaxTime, MaxFaults} \subseteq Nat
    /\ MaxAge >= DayLength      \* MIN_CONFIGURABLE_AGE_DAYS
    /\ IsFiniteSet(Threads)

Lines == 1 .. MaxLines
Today(t) == t \div DayLength

(* A file: its name, which is a date and for an archive also the time of its *)
(* last line and a number, its lines, and when it was modified.              *)
Files == [day : 0 .. Today(MaxTime), stamp : -1 .. MaxTime, seq : 0 .. MaxLines,
          lines : SUBSET Lines, time : 0 .. MaxTime]
ActiveFile(d, lines, t) == [day |-> d, stamp |-> -1, seq |-> 0, lines |-> lines, time |-> t]
IsActive(f, d) == f.day = d /\ f.stamp = -1
NotOpen == [day |-> -1, handle |-> FALSE]

VARIABLES
    thread,     \* thread[p]: the line p has counted and not yet sent, or 0
    logged,     \* lines logged so far
    channel,    \* lines in the channel
    queued, processed, dropped,     \* LoggerWriterStats
    worker,     \* "recv", or "check" after a line was taken
    buffer,     \* the batch
    disk,       \* the files
    handle,     \* cur_base_fn and out_fh: the day of the base file, and if it is open
    size,       \* current_size
    lastWrite,  \* last_write_at, or -1
    clock,
    written,    \* ghost: when each line reached a file, or -1
    lost,       \* ghost: lines lost to a full channel, a failed write or a restart
    swollen,    \* ghost: a rename has failed
    faults

lwVars == <<thread, logged, channel, queued, processed, dropped, worker, buffer, disk, handle,
            size, lastWrite, clock, written, lost, swollen, faults>>
fileVars == <<disk, handle, size, lastWrite, written, swollen>>

LWInit ==
    /\ thread = [p \in Threads |-> 0]
    /\ logged = 0 /\ channel = <<>>
    /\ queued = 0 /\ processed = 0 /\ dropped = 0
    /\ worker = "recv" /\ buffer = <<>>
    /\ disk = {}
    /\ handle = NotOpen /\ size = 0 /\ lastWrite = -1
    /\ clock = 0
    /\ written = [x \in Lines |-> -1]
    /\ lost = {} /\ swollen = FALSE /\ faults = 0

(* Logger::send counts the line first ...                                    *)
CountLine(p) ==
    /\ thread[p] = 0
    /\ logged < MaxLines
    /\ logged' = logged + 1
    /\ thread' = [thread EXCEPT ![p] = logged + 1]
    /\ queued' = queued + 1
    /\ UNCHANGED <<channel, processed, dropped, worker, buffer, fileVars, clock, lost, faults>>

(* ... then sends it without waiting; a full channel drops it.               *)
SendLine(p) ==
    /\ thread[p] # 0
    /\ thread' = [thread EXCEPT ![p] = 0]
    /\ IF Len(channel) < Capacity
       THEN channel' = Append(channel, thread[p]) /\ UNCHANGED <<queued, dropped, lost>>
       ELSE /\ queued' = queued - 1
            /\ dropped' = dropped + 1
            /\ lost' = lost \cup {thread[p]}
            /\ UNCHANGED channel
    /\ UNCHANGED <<logged, processed, worker, buffer, fileVars, clock, faults>>

(* The worker takes a line into its batch.                                   *)
TakeLine ==
    /\ worker = "recv" /\ channel # <<>>
    /\ buffer' = Append(buffer, Head(channel))
    /\ channel' = Tail(channel)
    /\ queued' = IF queued = 0 THEN 0 ELSE queued - 1
    /\ processed' = processed + 1
    /\ worker' = "check"
    /\ UNCHANGED <<thread, logged, dropped, fileVars, clock, lost, faults>>

(* While more lines wait and the batch is small it goes on collecting.       *)
WaitsForMore == channel # <<>> /\ Len(buffer) < BatchSize

Collect ==
    /\ worker = "check" /\ WaitsForMore
    /\ worker' = "recv"
    /\ UNCHANGED <<thread, logged, channel, queued, processed, dropped, buffer, fileVars, clock,
                   lost, faults>>

(* Files not modified for the retention are removed.                         *)
Expired(f) == f.time <= clock - MaxAge

(* The writer after ensure_writer: on a new day, or without a handle, the    *)
(* base file is opened for appending and old files are removed. A new file   *)
(* has the present as its modification time, an old one keeps it.            *)
Ensured ==
    LET base == {f \in disk : IsActive(f, Today(clock))}
        made == IF base = {} THEN disk \cup {ActiveFile(Today(clock), {}, clock)} ELSE disk
    IN  IF handle = [day |-> Today(clock), handle |-> TRUE]
        THEN [disk |-> disk, size |-> size, last |-> lastWrite]
        ELSE [disk |-> {f \in made : ~Expired(f)},
              size |-> Cardinality(UNION {f.lines : f \in base}), last |-> -1]

(* The first number that no archive of today and of that second has.         *)
ArchiveNumber(files, at) ==
    CHOOSE i \in 0 .. MaxLines :
        LET taken == {f.seq : f \in {g \in files : g.day = Today(clock) /\ g.stamp = at}}
        IN  i \notin taken /\ 0 .. i - 1 \subseteq taken

(* Mutant: the batch about to be written is not counted.                     *)
IsFullAlready(e) == e.size >= MaxSize

(* A file that is not empty and cannot take the batch is full.               *)
IsFull(e) == e.size > 0 /\ e.size + Len(buffer) > MaxSize

(* The files after the rename of rotate_by_size; a file of that name would   *)
(* be replaced. The stamp is the time of the last write, if known.           *)
Renamed(e) ==
    LET at == IF e.last = -1 THEN clock ELSE e.last
        i  == ArchiveNumber(e.disk, at)
    IN  {IF IsActive(f, Today(clock)) THEN [f EXCEPT !.stamp = at, !.seq = i] ELSE f :
            f \in {g \in e.disk : ~(g.day = Today(clock) /\ g.stamp = at /\ g.seq = i)}}

(* write_msg of the batch, each way it can succeed: if the rename fails, the *)
(* base file is opened again.                                                *)
FlushBatch(renamed) ==
    LET e     == Ensured
        files == IF IsFull(e) /\ renamed THEN Renamed(e) ELSE e.disk
        old   == {f \in files : IsActive(f, Today(clock))}
        lines == (UNION {f.lines : f \in old}) \cup ToSet(buffer)
    IN
    /\ worker = "check" /\ ~WaitsForMore
    /\ renamed \/ (IsFull(e) /\ faults < MaxFaults)
    /\ disk' = (files \ old) \cup {ActiveFile(Today(clock), lines, clock)}
    /\ handle' = [day |-> Today(clock), handle |-> TRUE]
    /\ size' = Len(buffer) + (IF IsFull(e) /\ renamed THEN 0 ELSE e.size)
    /\ lastWrite' = clock
    /\ written' = [x \in Lines |-> IF x \in ToSet(buffer) THEN clock ELSE written[x]]
    /\ swollen' = (swollen \/ ~renamed)
    /\ faults' = IF renamed THEN faults ELSE faults + 1
    /\ buffer' = <<>>
    /\ worker' = "recv"
    /\ UNCHANGED <<thread, logged, channel, queued, processed, dropped, clock, lost>>

(* The base file cannot be opened, at once or after it was renamed: the      *)
(* batch is lost, and the next batch, without a handle, opens the file again.*)
FlushFails ==
    /\ worker = "check" /\ ~WaitsForMore
    /\ faults < MaxFaults
    /\ faults' = faults + 1
    /\ \/ handle # [day |-> Today(clock), handle |-> TRUE] /\ UNCHANGED disk
       \/ IsFull(Ensured) /\ disk' = Renamed(Ensured)
    /\ handle' = [day |-> Today(clock), handle |-> FALSE]
    /\ size' = 0 /\ lastWrite' = -1
    /\ lost' = lost \cup ToSet(buffer)
    /\ buffer' = <<>>
    /\ worker' = "recv"
    /\ UNCHANGED <<thread, logged, channel, queued, processed, dropped, written, swollen, clock>>

(* The process ends and starts again; what was not on disk is lost.          *)
RestartLog ==
    /\ faults < MaxFaults
    /\ faults' = faults + 1
    /\ lost' = lost \cup ToSet(channel) \cup ToSet(buffer) \cup ({thread[p] : p \in Threads} \ {0})
    /\ thread' = [p \in Threads |-> 0]
    /\ channel' = <<>> /\ buffer' = <<>> /\ worker' = "recv"
    /\ queued' = 0 /\ processed' = 0 /\ dropped' = 0
    /\ handle' = NotOpen /\ size' = 0 /\ lastWrite' = -1
    /\ UNCHANGED <<logged, disk, clock, written, swollen>>

TickLog ==
    /\ clock < MaxTime
    /\ clock' = clock + 1
    /\ UNCHANGED <<thread, logged, channel, queued, processed, dropped, worker, buffer, fileVars,
                   lost, faults>>

LWNext ==
    \/ \E p \in Threads : CountLine(p) \/ SendLine(p)
    \/ TakeLine \/ Collect
    \/ \E renamed \in BOOLEAN : FlushBatch(renamed)
    \/ FlushFails \/ RestartLog \/ TickLog

LWSpec == LWInit /\ [][LWNext]_lwVars

---------------------------------------------------------------------------
(* Every variable has its type; the channel and the batch keep their bounds, *)
(* and the batch its size below the limit until the line that reaches it.    *)
LWTypeOK ==
    /\ thread \in [Threads -> Lines \cup {0}]
    /\ logged \in 0 .. MaxLines
    /\ {queued, processed, dropped, size} \subseteq Nat
    /\ Len(channel) <= Capacity
    /\ worker \in {"recv", "check"}
    /\ Len(buffer) <= BatchSize
    /\ disk \subseteq Files

(* Every line that was not dropped, lost to a fault or written longer ago    *)
(* than the retention is in the channel, in the batch or in exactly one file:*)
(* no rotation, and no rename of another file of that second, takes it away. *)
NoLineVanishes ==
    \A x \in 1 .. logged :
        \/ x \in lost \cup ToSet(channel) \cup ToSet(buffer)
        \/ \E p \in Threads : thread[p] = x
        \/ Cardinality({f \in disk : x \in f.lines}) = 1
        \/ written[x] >= 0 /\ written[x] <= clock - MaxAge

(* The queue length that diagnostics show is that of the channel and of the  *)
(* threads between counting and sending, whatever was dropped: so the        *)
(* decrements never meet zero.                                               *)
CountersMatchChannel ==
    queued = Len(channel) + Cardinality({p \in Threads : thread[p] # 0})

(* A worker that waits for a line on an empty channel has written everything.*)
WaitsWithEmptyBuffer == worker = "recv" /\ channel = <<>> => buffer = <<>>

(* A file outgrows the limit only by one batch that is larger, or after a    *)
(* rename has failed: a restart on the same day does not forget its size.    *)
FilesRespectLimit ==
    ~swollen => \A f \in disk :
        Cardinality(f.lines) <= IF MaxSize >= BatchSize THEN MaxSize ELSE BatchSize

(* Every line is accounted for, in a file or on its way, the counters and the *)
(* worker agree on what is left to write, and files keep their limit.        *)
LinesAreAccounted ==
    NoLineVanishes /\ CountersMatchChannel /\ WaitsWithEmptyBuffer /\ FilesRespectLimit
=============================================================================
