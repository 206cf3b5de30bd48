----------------------------- MODULE AgentFiles -----------------------------
(***************************************************************************)
(* The agent between two files (agent/main.cpp, InstanceRunner): it tails a  *)
(* log that something else writes, renames and truncates, and writes its     *)
(* decisions in parts that a thread of its own uploads to S3.  A line is a   *)
(* sequence of characters, the last of which ends it; characters are         *)
(* numbered as they are written.  Times (flush_ms, the age of a part, the    *)
(* 200 ms between flushes) may have passed or not.  One line gives one       *)
(* decision, which is written as the line.  The HTTP input is the subject of *)
(* AgentHttp; the output is NDJSON.                                          *)
(***************************************************************************)
EXTENDS Naturals, Sequences, SequencesExt, FiniteSetsExt

CONSTANTS
    Courses,    \* how often a course may append, rename, truncate, fail to upload, crash; partial: lines in pieces
    BatchSize,  \* batch_size
    RollLines,  \* the lines that fill a part
    Attempts    \* how often the last upload is tried, 3 in the code

VARIABLES
    course,   \* what may still happen
    files,    \* the content of every file the log was in, by inode
    path,     \* the inode the path names, 0 for none
    writer,   \* the inode the writer of the log has open
    tail,     \* the thread that reads the log
    out,      \* the part that is written: its run and number, the stream's buffer, its length; the finished ones
    disk,     \* the staging directory
    sync,     \* the thread that uploads
    bucket,   \* what is in S3
    stop,     \* g_stop
    past      \* history: how much was written, the characters that were decided or passed over, the
              \* decisions that no crash took from a buffer, and two things that happened to the log

vars == <<course, files, path, writer, tail, out, disk, sync, bucket, stop, past>>

-----------------------------------------------------------------------------
(* The log *)

Char(n, end) == [n |-> n, end |-> end]
\* What getline takes from a place: a line, or what there is of one.
LineAt(content, pos) ==
    LET rest == SubSeq(content, pos + 1, Len(content))
        ends == {i \in DOMAIN rest : rest[i].end}
    IN IF ends = {} THEN rest ELSE SubSeq(rest, 1, Min(ends))
Numbers(lines) == [i \in DOMAIN FlattenSeq(lines) |-> FlattenSeq(lines)[i].n]
Spend(what) == course[what] > 0 /\ course' = [course EXCEPT ![what] = @ - 1]

AppendToLog ==
    /\ Spend("appends")
    /\ \E end \in IF course.partial THEN BOOLEAN ELSE {TRUE} :
         files' = [files EXCEPT ![writer] = Append(@, Char(past.written, end))]
    /\ past' = [past EXCEPT !.written = @ + 1]
    /\ UNCHANGED <<path, writer, tail, out, disk, sync, bucket, stop>>
\* The log is renamed; its writer keeps the file until there is a new one.
RenameLog ==
    /\ path # 0 /\ Spend("renames")
    /\ path' = 0
    /\ UNCHANGED <<files, writer, tail, out, disk, sync, bucket, stop, past>>
CreateLog ==
    /\ path = 0
    /\ files' = Append(files, <<>>) /\ path' = Len(files) + 1
    /\ UNCHANGED <<course, writer, tail, out, disk, sync, bucket, stop, past>>
ReopenLog ==
    /\ path \notin {0, writer}
    /\ writer' = path
    /\ UNCHANGED <<course, files, path, tail, out, disk, sync, bucket, stop, past>>
TruncateLog ==
    /\ path # 0 /\ Spend("truncates")
    /\ files' = [files EXCEPT ![path] = <<>>]
    /\ past' = [past EXCEPT !.truncated = TRUE]
    /\ UNCHANGED <<path, writer, tail, out, disk, sync, bucket, stop>>

-----------------------------------------------------------------------------
(* The parts *)

Part == <<out.run, out.seq>>
NextPart == <<out.run, out.seq + 1>>
Stored(part, lines) == [disk EXCEPT ![part] = @ \o lines]
\* A part is opened with std::ios::trunc.
NewPart(parts, part) == [p \in (DOMAIN parts) \union {part} |-> IF p = part THEN <<>> ELSE parts[p]]

\* The lines stay in the stream, are flushed, or the part is finished after them.
Keep(lines) ==
    /\ out.length + Len(lines) < RollLines
    /\ out' = [out EXCEPT !.buffer = @ \o lines, !.length = @ + Len(lines)]
    /\ UNCHANGED disk
Flush(lines) ==
    /\ out.length + Len(lines) < RollLines
    /\ out' = [out EXCEPT !.buffer = <<>>, !.length = @ + Len(lines)]
    /\ disk' = Stored(Part, out.buffer \o lines)
Roll(lines) ==
    /\ out' = [out EXCEPT !.buffer = <<>>, !.length = 0, !.rolled = @ \union {Part}, !.seq = @ + 1]
    /\ disk' = NewPart(Stored(Part, out.buffer \o lines), NextPart)
WriteDecisions(lines) == Keep(lines) \/ Flush(lines) \/ Roll(lines)

\* A batch is evaluated and its decisions are written.
SubmitLines(lines) ==
    /\ past' = [past EXCEPT !.chars = @ \o Numbers(lines), !.decided = @ \union ToSet(lines)]
    /\ IF lines = <<>> THEN UNCHANGED <<out, disk>> ELSE WriteDecisions(lines)

-----------------------------------------------------------------------------
(* The tail *)

OpenAtEnd(inode) ==
    [pc |-> "top", fd |-> inode, pos |-> Len(files[inode]), inode |-> inode, readPos |-> Len(files[inode]),
     got |-> FALSE, batch |-> <<>>, attempts |-> 0]
At(pc) == tail.pc = pc

Top ==
    /\ At("top")
    /\ tail' = [tail EXCEPT !.pc = IF stop THEN "leave" ELSE "read", !.got = FALSE]
    /\ UNCHANGED <<out, disk, past>>

\* A line that is not ended is taken as one, and ends the reading.
Line == IF tail.fd = 0 THEN <<>> ELSE LineAt(files[tail.fd], tail.pos)
GetLine ==
    /\ At("read") /\ Line # <<>>
    /\ LET lines == Append(tail.batch, Line)
           full == Len(lines) >= BatchSize
           pos == tail.pos + Len(Line)
           ended == Last(Line).end
       IN /\ tail' = [tail EXCEPT !.pc = IF ended THEN @ ELSE "look", !.got = TRUE, !.pos = pos,
                                  !.readPos = IF ended THEN @ ELSE pos, !.batch = IF full THEN <<>> ELSE lines]
          /\ SubmitLines(IF full THEN lines ELSE <<>>)
EndOfFile ==
    /\ At("read") /\ Line = <<>>
    /\ tail' = [tail EXCEPT !.pc = "look", !.readPos = IF tail.fd = 0 THEN @ ELSE tail.pos]
    /\ UNCHANGED <<out, disk, past>>

\* A mutant: a file that has not grown has changed.
Changed_SameSize == path # 0 /\ (path # tail.inode \/ Len(files[path]) <= tail.readPos)
\* A mutant: a file is known by its length.
Changed_SizeOnly == path # 0 /\ Len(files[path]) < tail.readPos
\* The path names another file, or one that is shorter than what was read of it.
Changed == path # 0 /\ (path # tail.inode \/ Len(files[path]) < tail.readPos)
LookAtPath ==
    /\ At("look")
    /\ IF ~tail.got /\ Changed
       THEN /\ tail' = [tail EXCEPT !.pc = "open", !.batch = <<>>, !.inode = path]
            /\ SubmitLines(tail.batch)
       ELSE /\ tail' = [tail EXCEPT !.pc = "timer"]
            /\ UNCHANGED <<out, disk, past>>
\* What the path names now is opened, which may be another file than was looked at, or none.
Reopen ==
    /\ At("open")
    /\ tail' = [tail EXCEPT !.pc = "top", !.fd = path, !.pos = 0, !.readPos = 0]
    /\ past' = [past EXCEPT !.raced = @ \/ path \notin {0, tail.inode}, !.truncated = FALSE]
    /\ UNCHANGED <<out, disk>>

Wait ==
    /\ At("timer")
    /\ tail' = [tail EXCEPT !.pc = "top"]
    /\ UNCHANGED <<out, disk, past>>
FlushBatch ==
    /\ At("timer") /\ tail.batch # <<>>
    /\ tail' = [tail EXCEPT !.pc = "top", !.batch = <<>>]
    /\ SubmitLines(tail.batch)
Leave ==
    /\ At("leave")
    /\ tail' = [tail EXCEPT !.pc = "join", !.batch = <<>>]
    /\ SubmitLines(tail.batch)

-----------------------------------------------------------------------------
(* The end of a run *)

Joined ==
    /\ At("join") /\ sync.pc = "ended"
    /\ tail' = [tail EXCEPT !.pc = "close"]
    /\ UNCHANGED <<out, disk, past>>
\* A mutant: the stream is left to its destructor, after the last upload.
ClosePart_Left == UNCHANGED <<out, disk>>
ClosePart ==
    /\ out' = [out EXCEPT !.buffer = <<>>]
    /\ disk' = Stored(Part, out.buffer)
Close ==
    /\ At("close")
    /\ ClosePart
    /\ tail' = [tail EXCEPT !.pc = "upload"]
    /\ UNCHANGED past
LastUpload ==
    /\ At("upload")
    /\ tail' = [tail EXCEPT !.pc = "exited"]
    /\ bucket' = [p \in (DOMAIN bucket) \union DOMAIN disk |-> IF p \in DOMAIN disk THEN disk[p] ELSE bucket[p]]
    /\ UNCHANGED <<course, files, path, writer, out, disk, sync, stop, past>>
LastUploadFails ==
    /\ At("upload") /\ Spend("failures")
    /\ tail' = [tail EXCEPT !.pc = IF tail.attempts + 1 < Attempts THEN @ ELSE "gave up", !.attempts = @ + 1]
    /\ UNCHANGED <<files, path, writer, out, disk, sync, bucket, stop, past>>

RunFileTail ==
    /\ \/ Top \/ GetLine \/ EndOfFile \/ LookAtPath \/ Reopen \/ Wait \/ FlushBatch \/ Leave \/ Joined \/ Close
    /\ UNCHANGED <<course, files, path, writer, sync, bucket, stop>>

-----------------------------------------------------------------------------
(* The uploads *)

Stopping == tail.pc \in {"join", "close", "upload", "exited", "gave up"}
\* The parts that are finished now are those to remove; then the directory is listed.
SyncBegins ==
    /\ sync.pc = "sleep" /\ ~Stopping /\ course.syncs > 0
    /\ course' = [course EXCEPT !.syncs = @ - 1]
    /\ sync' = [pc |-> "upload", uploaded |-> out.rolled, todo |-> DOMAIN disk]
    /\ UNCHANGED <<files, path, writer, tail, out, disk, bucket, stop, past>>
SyncCopies ==
    /\ sync.pc = "upload"
    /\ \E p \in sync.todo :
         /\ bucket' = [q \in (DOMAIN bucket) \union {p} |-> IF q = p THEN disk[p] ELSE bucket[q]]
         /\ sync' = [sync EXCEPT !.todo = @ \ {p}]
    /\ UNCHANGED <<course, files, path, writer, tail, out, disk, stop, past>>
SyncFails ==
    /\ sync.pc = "upload" /\ Spend("failures")
    /\ sync' = [sync EXCEPT !.pc = "sleep"]
    /\ UNCHANGED <<files, path, writer, tail, out, disk, bucket, stop, past>>

\* A mutant: what was finished during the upload is removed, too.
Uploaded_Now == out.rolled
Uploaded == sync.uploaded
SyncRemoves ==
    /\ sync.pc = "upload" /\ sync.todo = {}
    /\ sync' = [sync EXCEPT !.pc = "sleep"]
    /\ disk' = [p \in (DOMAIN disk) \ Uploaded |-> disk[p]]
    /\ out' = [out EXCEPT !.rolled = @ \ Uploaded]
    /\ UNCHANGED <<course, files, path, writer, tail, bucket, stop, past>>
SyncEnds ==
    /\ sync.pc = "sleep" /\ Stopping
    /\ sync' = [sync EXCEPT !.pc = "ended"]
    /\ UNCHANGED <<course, files, path, writer, tail, out, disk, bucket, stop, past>>
Sync == SyncBegins \/ SyncCopies \/ SyncFails \/ SyncRemoves \/ SyncEnds

-----------------------------------------------------------------------------
(* Runs *)

NoPart == [run |-> 0, seq |-> 0, buffer |-> <<>>, length |-> 0, rolled |-> {}]
NewRun(run) == [NoPart EXCEPT !.run = run]
Sleeping == [pc |-> "sleep", uploaded |-> {}, todo |-> {}]

Init ==
    /\ course \in Courses
    /\ files = <<<<>>>> /\ path = 1 /\ writer = 1
    /\ tail = OpenAtEnd(1)
    /\ out = NewRun(1) /\ disk = NewPart(<<>>, <<1, 0>>)
    /\ sync = Sleeping
    /\ bucket = <<>> /\ stop = FALSE
    /\ past = [written |-> 0, chars |-> <<>>, passed |-> {}, decided |-> {}, truncated |-> FALSE, raced |-> FALSE]

Signal ==
    /\ ~stop /\ Spend("signals")
    /\ stop' = TRUE
    /\ UNCHANGED <<files, path, writer, tail, out, disk, sync, bucket, past>>
\* The process is killed, or an evaluation throws in a thread that catches nothing.
Crash ==
    /\ tail.pc \notin {"down", "exited", "gave up"} /\ Spend("crashes")
    /\ tail' = [tail EXCEPT !.pc = "down", !.batch = <<>>]
    /\ out' = [out EXCEPT !.buffer = <<>>]
    /\ sync' = [sync EXCEPT !.pc = "ended"]
    /\ past' = [past EXCEPT !.decided = @ \ ToSet(out.buffer)]
    /\ UNCHANGED <<files, path, writer, disk, bucket, stop>>
\* A new run has a new name for its parts, and reads from the end of the log.
Restart ==
    /\ tail.pc = "down" /\ path # 0
    /\ tail' = OpenAtEnd(path)
    /\ out' = NewRun(out.run + 1)
    /\ disk' = NewPart(disk, <<out.run + 1, 0>>)
    /\ sync' = Sleeping
    /\ stop' = FALSE
    /\ past' = [past EXCEPT !.passed = @ \union {files[path][i].n : i \in DOMAIN files[path]}, !.truncated = FALSE]
    /\ UNCHANGED <<course, files, path, writer, bucket>>

Log == AppendToLog \/ RenameLog \/ CreateLog \/ ReopenLog \/ TruncateLog
Next == Log \/ RunFileTail \/ LastUpload \/ LastUploadFails \/ Sync \/ Signal \/ Crash \/ Restart
\* The thread of the tail runs, and flush_ms pass.
Spec == Init /\ [][Next]_vars /\ WF_vars(RunFileTail) /\ SF_vars(RunFileTail /\ FlushBatch)

-----------------------------------------------------------------------------
(* Properties *)

TailAt == {"top", "read", "look", "open", "timer", "leave", "join", "close", "upload", "exited", "gave up", "down"}
Characters == [n : Nat, end : BOOLEAN]
Texts == Seq(Characters)
Parts(parts) == /\ parts = [p \in DOMAIN parts |-> parts[p]]
                /\ DOMAIN parts \subseteq Nat \X Nat /\ \A p \in DOMAIN parts : parts[p] \in Seq(Texts)

\* The types, and the files that inodes name.
TypeOK ==
    /\ files \in Seq(Texts) /\ path \in 0..Len(files) /\ writer \in 1..Len(files)
    /\ tail \in [pc : TailAt, fd : Nat, pos : Nat, inode : Nat, readPos : Nat, got : BOOLEAN, batch : Seq(Texts), attempts : Nat]
    /\ tail.fd \in 0..Len(files)
    /\ out \in [run : Nat, seq : Nat, buffer : Seq(Texts), length : Nat, rolled : SUBSET (Nat \X Nat)]
    /\ Parts(disk) /\ Parts(bucket)
    /\ sync \in [pc : {"sleep", "upload", "ended"}, uploaded : SUBSET (Nat \X Nat), todo : SUBSET (Nat \X Nat)]
    /\ past = [written |-> past.written, chars |-> past.chars, passed |-> past.passed, decided |-> past.decided,
               truncated |-> past.truncated, raced |-> past.raced]
    /\ past.written \in Nat

Held(parts) == UNION {ToSet(parts[p]) : p \in DOMAIN parts}

\* Every decision that was written is in the bucket, in the staging directory or still in the
\* stream, whatever part is finished while the directory is uploaded, however often an upload
\* fails and whenever the process was killed (but for what was in the stream then).
DecisionsKept == past.decided \subseteq ToSet(out.buffer) \union Held(disk) \union Held(bucket)

\* The part that is written is on disk and is not a finished one; no part, on disk or in the
\* bucket, has a name that is still to come.
PartsOK ==
    /\ Part \in DOMAIN disk
    /\ \A p \in out.rolled : p \in DOMAIN disk /\ p # Part
    /\ \A p \in (DOMAIN disk) \union DOMAIN bucket : p[1] < out.run \/ (p[1] = out.run /\ p[2] <= out.seq)
\* While the directory is uploaded, the parts to remove are finished, and are to be copied
\* yet or are in the bucket as they are on disk.
SyncOK ==
    sync.pc = "upload" =>
        /\ sync.uploaded \subseteq out.rolled /\ sync.todo \subseteq DOMAIN disk
        /\ \A p \in sync.uploaded : p \in sync.todo \/ (p \in DOMAIN bucket /\ bucket[p] = disk[p])
\* A copy in the bucket has nothing that the part on disk has not.
CopiesOK == \A p \in (DOMAIN bucket) \intersect DOMAIN disk : ToSet(bucket[p]) \subseteq ToSet(disk[p])
\* A killed process has nothing in memory.
DownOK == At("down") => out.buffer = <<>>
\* The inductive invariant of DecisionsKept.
FilesInv == TypeOK /\ PartsOK /\ SyncOK /\ CopiesOK /\ DownOK /\ DecisionsKept

\* The log is read in the order in which it was written and nothing of it twice, through
\* renames, truncations, lines that come in pieces and restarts; unless the path names
\* another file when it is opened than when it was looked at (README, section 7).
ReadSoFar == past.chars \o Numbers(tail.batch)
ReadOnceInOrder == past.raced \/ \A i \in 1..(Len(ReadSoFar) - 1) : ReadSoFar[i] < ReadSoFar[i + 1]

\* The files in the order of their inodes are the log in the order in which it was written,
\* and the one that is written is the last that is not empty.
LogOK ==
    /\ path \in {0, Len(files)}
    /\ \A j \in DOMAIN files, k \in DOMAIN files : \A i \in DOMAIN files[j], m \in DOMAIN files[k] :
         j < k \/ (j = k /\ i < m) => files[j][i].n < files[k][m].n
    /\ \A j \in DOMAIN files : \A i \in DOMAIN files[j] : files[j][i].n < past.written
    /\ \A j \in DOMAIN files : j > writer => files[j] = <<>>
Rising(read) == \A i, m \in DOMAIN read : i < m => read[i] < read[m]
\* What a file has after a place was written after all that was read.
Unread(content, pos, read) ==
    \A i \in DOMAIN content : i > pos => \A m \in DOMAIN read : read[m] < content[i].n
\* The place of the tail in the log: the file it is to open is unread; the one it has open is
\* from its position on, and all of it when it is shorter than that; the later files are.
PlaceOK ==
    /\ tail.inode \in DOMAIN files
    /\ \A j \in DOMAIN files : j > tail.inode => Unread(files[j], 0, ReadSoFar)
    /\ At("open") => Unread(files[tail.inode], 0, ReadSoFar)
    /\ tail.pc \notin {"open", "down"} =>
         \/ tail.fd = 0 /\ tail.readPos = 0
         \/ /\ tail.fd = tail.inode /\ Unread(files[tail.inode], tail.pos, ReadSoFar)
            /\ Len(files[tail.inode]) < tail.pos => Unread(files[tail.inode], 0, ReadSoFar)
            /\ At("look") => tail.readPos = tail.pos
\* The inductive invariant of ReadOnceInOrder.
ReadInv ==
    /\ LogOK
    /\ past.chars \in Seq(Nat) /\ \A m \in DOMAIN ReadSoFar : ReadSoFar[m] < past.written
    /\ past.raced \/ (PlaceOK /\ Rising(ReadSoFar))

\* The tail does not stay behind: again and again all of the file that the path names was
\* decided, but for a truncation that the log has made up for (README, section 7).
TailCatchesUp ==
    []<>(\/ path = 0 \/ stop \/ tail.pc = "down"
         \/ past.truncated /\ Len(files[path]) >= tail.readPos
         \/ \A i \in DOMAIN files[path] : files[path][i].n \in past.passed \union ToSet(past.chars))

\* A run that ended after an upload has left nothing: what it read was decided, and what it
\* and the runs before it decided is in the bucket.
ExitIsComplete ==
    At("exited") => /\ tail.batch = <<>> /\ out.buffer = <<>>
                    /\ past.decided \subseteq Held(bucket)

\* The inductive invariant of ExitIsComplete: the batch was decided before the thread is joined,
\* the upload thread has ended when the part is closed, the stream is empty at the last upload.
ExitOK ==
    /\ Stopping => tail.batch = <<>>
    /\ tail.pc \in {"close", "upload", "exited", "gave up"} => sync.pc = "ended"
    /\ tail.pc \in {"upload", "exited", "gave up"} => out.buffer = <<>>
    /\ At("exited") => Held(disk) \subseteq Held(bucket)

\* What main.cpp:1266 says of a log that was renamed; a line may come between the last
\* reading and the look at the path, and the writer may go on writing to the old file.
OldFileDrained == [][tail'.fd # tail.fd /\ tail.fd # 0 => tail.pos >= Len(files[tail.fd])]_vars
=============================================================================
