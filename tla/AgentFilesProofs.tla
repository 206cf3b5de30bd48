-------------------------- MODULE AgentFilesProofs --------------------------
(***************************************************************************)
(* Proofs about AgentFiles: no decision is removed from the staging         *)
(* directory before it is in the bucket, a run that ends has left nothing   *)
(* behind, and the log is read in order and nothing of it twice, for any    *)
(* number of parts, uploads, failures, crashes and restarts and whatever    *)
(* happens to the log.                                                      *)
(***************************************************************************)
EXTENDS AgentFiles, SequenceTheorems, WellFoundedInduction, TLAPS

\* The smallest of a set of numbers is one of them.
LEMMA MinOfNumbers ==
    ASSUME NEW S \in SUBSET Nat, S # {}
    PROVE  Min(S) \in S /\ \A r \in S : Min(S) <= r
<1>. DEFINE Less == {e \in Nat \X Nat : e[1] < e[2]}
<1>1. IsWellFoundedOn(Less, Nat)
  BY NatLessThanWellFounded DEF OpToRel
<1>2. PICK n \in S : \A r \in S : <<r, n>> \notin Less
  <2>. HIDE DEF Less
  <2>. QED
    BY <1>1, WFMin
<1>3. ASSUME NEW r \in S, r < n
      PROVE  FALSE
  <2>1. <<r, n>> \in Less
    BY <1>3
  <2>. QED
    BY <1>2, <2>1
<1>4. \A r \in S : n <= r
  BY <1>3
<1>. QED
  BY <1>2, <1>4 DEF Min

\* What getline gives is text.
LEMMA LineType ==
    ASSUME NEW content \in Texts, NEW pos \in Nat
    PROVE  LineAt(content, pos) \in Texts
<1>. DEFINE rest == SubSeq(content, pos + 1, Len(content))
            ends == {i \in DOMAIN rest : rest[i].end}
<1>1. rest \in Seq(Characters)
  <2>1. Len(content) \in Int /\ pos + 1 \in Int /\ \A i \in (pos + 1) .. Len(content) : content[i] \in Characters
    BY DEF Texts
  <2>. QED
    BY <2>1, SubSeqProperties
<1>2. CASE ends = {}
  BY <1>1, <1>2 DEF LineAt, Texts
<1>3. CASE ends # {}
  <2>1. DOMAIN rest = 1 .. Len(rest) /\ Len(rest) \in Nat
    BY <1>1
  <2>2. Min(ends) \in DOMAIN rest
    <3>1. ends \in SUBSET Nat
      BY <2>1
    <3>. QED
      BY <1>3, <3>1, MinOfNumbers
  <2>3. \A i \in 1 .. Min(ends) : rest[i] \in Characters
    <3>. HIDE DEF rest, ends
    <3>1. \A i \in 1 .. Min(ends) : i \in DOMAIN rest
      BY <2>1, <2>2
    <3>. QED
      BY <1>1, <3>1
  <2>4. 1 \in Int /\ Min(ends) \in Int
    BY <2>1, <2>2
  <2>5. SubSeq(rest, 1, Min(ends)) \in Seq(Characters)
    <3>. HIDE DEF rest, ends
    <3>. QED
      BY <2>3, <2>4, SubSeqProperties
  <2>. QED
    BY <1>3, <2>5 DEF LineAt, Texts
<1>. QED
  BY <1>2, <1>3

\* The lines of two sequences together.
LEMMA ToSetOfConcat ==
    ASSUME NEW S, NEW s \in Seq(S), NEW t \in Seq(S)
    PROVE  s \o t \in Seq(S) /\ ToSet(s \o t) = ToSet(s) \union ToSet(t)
<1>1. /\ s \o t \in Seq(S) /\ Len(s \o t) = Len(s) + Len(t)
      /\ \A i \in 1 .. Len(s) + Len(t) : (s \o t)[i] = IF i <= Len(s) THEN s[i] ELSE t[i - Len(s)]
  BY ConcatProperties
<1>2. /\ DOMAIN s = 1 .. Len(s) /\ DOMAIN t = 1 .. Len(t) /\ DOMAIN (s \o t) = 1 .. Len(s) + Len(t)
      /\ Len(s) \in Nat /\ Len(t) \in Nat
  BY <1>1
<1>3. \A i \in DOMAIN s : i \in DOMAIN (s \o t) /\ (s \o t)[i] = s[i]
  BY <1>1, <1>2
<1>4. \A i \in DOMAIN t : Len(s) + i \in DOMAIN (s \o t) /\ (s \o t)[Len(s) + i] = t[i]
  BY <1>1, <1>2
<1>5. \A i \in DOMAIN (s \o t) : (i \in DOMAIN s /\ (s \o t)[i] = s[i]) \/ (i - Len(s) \in DOMAIN t /\ (s \o t)[i] = t[i - Len(s)])
  BY <1>1, <1>2
<1>6. ToSet(s) \union ToSet(t) \subseteq ToSet(s \o t)
  BY <1>3, <1>4 DEF ToSet
<1>7. ToSet(s \o t) \subseteq ToSet(s) \union ToSet(t)
  BY <1>5 DEF ToSet
<1>. QED
  BY <1>1, <1>6, <1>7

-----------------------------------------------------------------------------
(* What is written                                                         *)

SyncType == [pc : {"sleep", "upload", "ended"}, uploaded : SUBSET (Nat \X Nat), todo : SUBSET (Nat \X Nat)]
OutType == [run : Nat, seq : Nat, buffer : Seq(Texts), length : Nat, rolled : SUBSET (Nat \X Nat)]

\* FilesInv without the log and the tail.
Stored_OK ==
    /\ out \in OutType
    /\ Parts(disk) /\ Parts(bucket)
    /\ sync \in SyncType
    /\ past = [written |-> past.written, chars |-> past.chars, passed |-> past.passed, decided |-> past.decided,
               truncated |-> past.truncated, raced |-> past.raced]
    /\ past.written \in Nat
    /\ PartsOK /\ SyncOK /\ CopiesOK /\ DecisionsKept

TailType ==
    [pc : TailAt, fd : Nat, pos : Nat, inode : Nat, readPos : Nat, got : BOOLEAN, batch : Seq(Texts), attempts : Nat]

\* The log, the tail and the stream of a process that is down.
TailOK ==
    /\ files \in Seq(Texts) /\ path \in 0..Len(files) /\ writer \in 1..Len(files)
    /\ tail \in TailType
    /\ tail.fd \in 0..Len(files)
    /\ DownOK

\* The invariant in its two parts.
LEMMA SplitInv == FilesInv <=> Stored_OK /\ TailOK
BY DEF FilesInv, Stored_OK, TailOK, TypeOK, OutType, SyncType, TailType

\* More is added to one part.
LEMMA StoredPart ==
    ASSUME Stored_OK, NEW lines \in Seq(Texts)
    PROVE  LET d == Stored(Part, lines) IN
           /\ Parts(d) /\ DOMAIN d = DOMAIN disk
           /\ \A p \in DOMAIN disk : p # Part => d[p] = disk[p]
           /\ d[Part] = disk[Part] \o lines /\ ToSet(d[Part]) = ToSet(disk[Part]) \union ToSet(lines)
<1>1. Part \in DOMAIN disk /\ disk[Part] \in Seq(Texts)
  BY DEF Stored_OK, PartsOK, Parts
<1>2. disk[Part] \o lines \in Seq(Texts) /\ ToSet(disk[Part] \o lines) = ToSet(disk[Part]) \union ToSet(lines)
  BY <1>1, ToSetOfConcat
<1>. QED
  BY <1>1, <1>2 DEF Stored_OK, Stored, Parts

\* A part is added that has a new name.
LEMMA NewPartType ==
    ASSUME NEW parts, Parts(parts), NEW part \in Nat \X Nat, part \notin DOMAIN parts
    PROVE  /\ Parts(NewPart(parts, part)) /\ DOMAIN NewPart(parts, part) = (DOMAIN parts) \union {part}
           /\ \A p \in DOMAIN parts : NewPart(parts, part)[p] = parts[p]
           /\ Held(NewPart(parts, part)) = Held(parts)
<1>1. /\ DOMAIN NewPart(parts, part) = (DOMAIN parts) \union {part}
      /\ \A p \in DOMAIN parts : NewPart(parts, part)[p] = parts[p]
      /\ NewPart(parts, part)[part] = <<>>
  BY DEF NewPart
<1>2. NewPart(parts, part) = [p \in DOMAIN NewPart(parts, part) |-> NewPart(parts, part)[p]]
  BY DEF NewPart
<1>3. ToSet(<<>>) = {}
  BY DEF ToSet
<1>4. Parts(NewPart(parts, part))
  <2>1. \A p \in DOMAIN NewPart(parts, part) : NewPart(parts, part)[p] \in Seq(Texts)
    <3>1. <<>> \in Seq(Texts) /\ \A p \in DOMAIN parts : parts[p] \in Seq(Texts)
      BY DEF Parts
    <3>. QED
      BY <1>1, <3>1
  <2>2. DOMAIN NewPart(parts, part) \subseteq Nat \X Nat
    BY <1>1 DEF Parts
  <2>. HIDE DEF NewPart
  <2>. QED
    BY <1>2, <2>1, <2>2 DEF Parts
<1>. QED
  BY <1>1, <1>3, <1>4 DEF Held

\* What the upload relies on when a part has grown that is not finished.
LEMMA GrownPart ==
    ASSUME Stored_OK, NEW lines \in Seq(Texts), disk' = Stored(Part, lines), UNCHANGED <<sync, bucket>>,
           Part' = Part, out'.run = out.run, out'.seq = out.seq, out'.rolled = out.rolled
    PROVE  /\ Parts(disk') /\ PartsOK' /\ SyncOK' /\ CopiesOK'
           /\ Held(disk') = Held(disk) \union ToSet(lines)
<1>1. /\ Parts(disk') /\ DOMAIN disk' = DOMAIN disk
      /\ \A p \in DOMAIN disk : p # Part => disk'[p] = disk[p]
      /\ ToSet(disk'[Part]) = ToSet(disk[Part]) \union ToSet(lines)
  BY StoredPart
<1>2. Part \in DOMAIN disk /\ Part \notin out.rolled
  BY DEF Stored_OK, PartsOK
<1>3. PartsOK'
  BY <1>1 DEF Stored_OK, PartsOK
<1>4. SyncOK'
  BY <1>1, <1>2 DEF Stored_OK, SyncOK, PartsOK
<1>5. CopiesOK'
  BY <1>1 DEF Stored_OK, CopiesOK
<1>6. Held(disk') = Held(disk) \union ToSet(lines)
  <2>1. ASSUME NEW p \in DOMAIN disk
        PROVE  ToSet(disk[p]) \subseteq ToSet(disk'[p]) /\ ToSet(disk'[p]) \subseteq ToSet(disk[p]) \union ToSet(lines)
    BY <1>1
  <2>. QED
    BY <1>1, <1>2, <2>1 DEF Held
<1>. QED
  BY <1>1, <1>3, <1>4, <1>5, <1>6

\* The fields of the part that is written, and the values it is given.
LEMMA OutTypes ==
    ASSUME out \in OutType
    PROVE  /\ <<>> \in Seq(Texts)
           /\ out.run \in Nat /\ out.seq \in Nat /\ out.buffer \in Seq(Texts) /\ out.length \in Nat
           /\ out.rolled \in SUBSET (Nat \X Nat) /\ Part \in Nat \X Nat
           /\ \A b \in Seq(Texts), n \in Nat :
                /\ [out EXCEPT !.buffer = b, !.length = n] \in OutType
                /\ [out EXCEPT !.buffer = b] \in OutType
                /\ \A p \in Nat \X Nat :
                     [out EXCEPT !.buffer = b, !.length = n, !.rolled = @ \union {p}, !.seq = @ + 1] \in OutType
<1>1. <<>> \in Seq(Texts)
  OBVIOUS
<1>2. /\ out.run \in Nat /\ out.seq \in Nat /\ out.buffer \in Seq(Texts) /\ out.length \in Nat
      /\ out.rolled \in SUBSET (Nat \X Nat)
  BY DEF OutType
<1>3. Part \in Nat \X Nat
  BY <1>2 DEF Part
<1>4. ASSUME NEW b \in Seq(Texts), NEW n \in Nat
      PROVE  [out EXCEPT !.buffer = b, !.length = n] \in OutType /\ [out EXCEPT !.buffer = b] \in OutType
  BY DEF OutType
<1>5. ASSUME NEW b \in Seq(Texts), NEW n \in Nat, NEW p \in Nat \X Nat
      PROVE  [out EXCEPT !.buffer = b, !.length = n, !.rolled = @ \union {p}, !.seq = @ + 1] \in OutType
  <2>1. out.rolled \union {p} \in SUBSET (Nat \X Nat) /\ out.seq + 1 \in Nat
    BY <1>2
  <2>. QED
    BY <2>1 DEF OutType
<1>. QED
  BY <1>1, <1>2, <1>3, <1>4, <1>5

\* A batch is decided.
LEMMA SubmitKeeps ==
    ASSUME Stored_OK, NEW lines \in Seq(Texts), SubmitLines(lines), UNCHANGED <<sync, bucket>>
    PROVE  Stored_OK'
<1>1. /\ past' = [written |-> past'.written, chars |-> past'.chars, passed |-> past'.passed, decided |-> past'.decided,
                  truncated |-> past'.truncated, raced |-> past'.raced]
      /\ past'.written \in Nat /\ past'.decided = past.decided \union ToSet(lines)
  BY DEF Stored_OK, SubmitLines
<1>2. /\ out \in OutType /\ out.run \in Nat /\ out.seq \in Nat /\ out.buffer \in Seq(Texts)
      /\ out.length + Len(lines) \in Nat
  <2>1. out \in OutType
    BY DEF Stored_OK
  <2>2. out.run \in Nat /\ out.seq \in Nat /\ out.buffer \in Seq(Texts) /\ out.length \in Nat
    BY <2>1 DEF OutType
  <2>3. Len(lines) \in Nat
    OBVIOUS
  <2>. QED
    BY <2>1, <2>2, <2>3
<1>3. out.buffer \o lines \in Seq(Texts) /\ ToSet(out.buffer \o lines) = ToSet(out.buffer) \union ToSet(lines)
  BY <1>2, ToSetOfConcat
<1>4. ToSet(<<>>) = {}
  BY DEF ToSet
<1>5. Parts(bucket') /\ sync' \in SyncType
  <2>1. sync' = sync /\ bucket' = bucket
    OBVIOUS
  <2>2. Parts(bucket) /\ sync \in SyncType
    BY DEF Stored_OK
  <2>3. Parts(bucket')
    BY <2>1, <2>2 DEF Parts
  <2>. QED
    BY <2>1, <2>2, <2>3
<1>6. CASE lines = <<>>
  <2>1. UNCHANGED <<out, disk>> /\ past'.decided = past.decided
    BY <1>1, <1>4, <1>6 DEF SubmitLines
  <2>2. PartsOK'
    BY <2>1 DEF Stored_OK, PartsOK, Part
  <2>3. SyncOK' /\ CopiesOK' /\ Parts(disk') /\ out' \in OutType
    BY <2>1 DEF Stored_OK, SyncOK, CopiesOK
  <2>4. DecisionsKept'
    BY <2>1 DEF Stored_OK, DecisionsKept
  <2>. QED
    BY <1>1, <1>5, <2>2, <2>3, <2>4 DEF Stored_OK
<1>7. CASE lines # <<>> /\ Keep(lines)
  <2>1. /\ disk' = disk /\ out'.buffer = out.buffer \o lines
        /\ out'.run = out.run /\ out'.seq = out.seq /\ out'.rolled = out.rolled
    BY <1>2, <1>7 DEF Keep, OutType
  <2>2. out' \in OutType
    BY <1>2, <1>3, <1>7, OutTypes DEF Keep
  <2>3. PartsOK'
    BY <2>1 DEF Stored_OK, PartsOK, Part
  <2>4. SyncOK' /\ CopiesOK' /\ Parts(disk')
    BY <2>1 DEF Stored_OK, SyncOK, CopiesOK, Parts
  <2>5. DecisionsKept'
    <3>1. Held(disk') = Held(disk) /\ Held(bucket') = Held(bucket)
      BY <2>1
    <3>2. ToSet(out'.buffer) = ToSet(out.buffer) \union ToSet(lines)
      BY <1>3, <2>1
    <3>. QED
      BY <1>1, <3>1, <3>2 DEF Stored_OK, DecisionsKept
  <2>. QED
    BY <1>1, <1>5, <2>2, <2>3, <2>4, <2>5 DEF Stored_OK
<1>8. CASE lines # <<>> /\ Flush(lines)
  <2>1. /\ disk' = Stored(Part, out.buffer \o lines) /\ out'.buffer = <<>>
        /\ out'.run = out.run /\ out'.seq = out.seq /\ out'.rolled = out.rolled
    BY <1>2, <1>8 DEF Flush, OutType
  <2>1a. out' \in OutType
    BY <1>2, <1>8, OutTypes DEF Flush
  <2>2. Part' = Part
    BY <2>1 DEF Part
  <2>3. /\ PartsOK' /\ SyncOK' /\ CopiesOK' /\ Parts(disk')
        /\ Held(disk') = Held(disk) \union ToSet(out.buffer) \union ToSet(lines)
    BY <1>3, <2>1, <2>2, GrownPart
  <2>4. DecisionsKept'
    <3>1. Held(bucket') = Held(bucket) /\ ToSet(out'.buffer) = {}
      BY <1>4, <2>1
    <3>. QED
      BY <1>1, <2>3, <3>1 DEF Stored_OK, DecisionsKept
  <2>. QED
    BY <1>1, <1>5, <2>1a, <2>3, <2>4 DEF Stored_OK
<1>9. CASE lines # <<>> /\ Roll(lines)
  <2>. DEFINE grown == Stored(Part, out.buffer \o lines)
  <2>1. /\ disk' = NewPart(grown, NextPart) /\ out'.buffer = <<>>
        /\ out'.run = out.run /\ out'.seq = out.seq + 1 /\ out'.rolled = out.rolled \union {Part}
    BY <1>2, <1>9 DEF Roll, OutType
  <2>2. /\ Parts(grown) /\ DOMAIN grown = DOMAIN disk
        /\ \A p \in DOMAIN disk : p # Part => grown[p] = disk[p]
        /\ ToSet(grown[Part]) = ToSet(disk[Part]) \union ToSet(out.buffer) \union ToSet(lines)
    BY <1>3, StoredPart
  <2>3. /\ Part \in Nat \X Nat /\ NextPart \in Nat \X Nat /\ Part' = NextPart /\ NextPart # Part
        /\ NextPart[1] = out.run /\ NextPart[2] = out.seq + 1
    BY <1>2, <2>1 DEF Part, NextPart
  <2>4. NextPart \notin DOMAIN disk /\ NextPart \notin DOMAIN bucket
    BY <1>2, <2>3 DEF Stored_OK, PartsOK
  <2>. HIDE DEF grown
  <2>5. /\ Parts(disk') /\ DOMAIN disk' = (DOMAIN disk) \union {NextPart}
        /\ \A p \in DOMAIN disk : disk'[p] = grown[p]
        /\ Held(disk') = Held(grown)
    <3>1. LET new == NewPart(grown, NextPart) IN
          /\ Parts(new) /\ DOMAIN new = (DOMAIN grown) \union {NextPart}
          /\ \A p \in DOMAIN grown : new[p] = grown[p]
          /\ Held(new) = Held(grown)
      BY <2>2, <2>3, <2>4, NewPartType
    <3>. QED
      BY <2>1, <2>2, <3>1
  <2>6. out' \in OutType
    <3>1. out' = [out EXCEPT !.buffer = <<>>, !.length = 0, !.rolled = @ \union {Part}, !.seq = @ + 1]
      BY <1>9 DEF Roll
    <3>. QED
      BY <1>2, <2>3, <3>1, OutTypes
  <2>7. Part \in DOMAIN disk /\ Part \notin out.rolled
    BY DEF Stored_OK, PartsOK
  <2>8. PartsOK'
    <3>1. \A p \in (DOMAIN disk') \union DOMAIN bucket' :
             p[1] < out'.run \/ (p[1] = out'.run /\ p[2] <= out'.seq)
      <4>1. \A p \in (DOMAIN disk) \union DOMAIN bucket : p \in Nat \X Nat
        BY DEF Stored_OK, Parts
      <4>2. \A p \in (DOMAIN disk) \union DOMAIN bucket : p[1] < out.run \/ (p[1] = out.run /\ p[2] <= out.seq)
        BY DEF Stored_OK, PartsOK
      <4>3. \A p \in (DOMAIN disk) \union DOMAIN bucket : p[1] < out'.run \/ (p[1] = out'.run /\ p[2] <= out'.seq)
        BY <1>2, <2>1, <4>1, <4>2
      <4>. QED
        BY <1>2, <2>1, <2>3, <2>5, <4>3
    <3>2. \A p \in out'.rolled : p \in DOMAIN disk' /\ p # NextPart
      BY <2>1, <2>3, <2>4, <2>5, <2>7 DEF Stored_OK, PartsOK
    <3>. QED
      BY <2>3, <2>5, <3>1, <3>2 DEF PartsOK
  <2>9. SyncOK'
    BY <2>1, <2>2, <2>5, <2>7 DEF Stored_OK, SyncOK, PartsOK
  <2>10. CopiesOK'
    <3>1. ASSUME NEW p \in DOMAIN bucket, p \in DOMAIN disk'
          PROVE  ToSet(bucket[p]) \subseteq ToSet(disk'[p])
      <4>1. p \in DOMAIN disk /\ ToSet(bucket[p]) \subseteq ToSet(disk[p])
        BY <2>4, <2>5, <3>1 DEF Stored_OK, CopiesOK
      <4>. QED
        BY <2>2, <2>5, <4>1
    <3>. QED
      BY <3>1 DEF CopiesOK
  <2>11. DecisionsKept'
    <3>1. Held(grown) = Held(disk) \union ToSet(out.buffer) \union ToSet(lines)
      <4>1. ASSUME NEW p \in DOMAIN disk
            PROVE  /\ ToSet(disk[p]) \subseteq ToSet(grown[p])
                   /\ ToSet(grown[p]) \subseteq ToSet(disk[p]) \union ToSet(out.buffer) \union ToSet(lines)
        BY <2>2
      <4>. QED
        BY <2>2, <2>7, <4>1 DEF Held
    <3>2. Held(bucket') = Held(bucket)
      BY DEF Held
    <3>. QED
      BY <1>1, <2>5, <3>1, <3>2 DEF Stored_OK, DecisionsKept
  <2>. QED
    BY <1>1, <1>5, <2>5, <2>6, <2>8, <2>9, <2>10, <2>11 DEF Stored_OK
<1>. QED
  BY <1>6, <1>7, <1>8, <1>9 DEF SubmitLines, WriteDecisions

\* A step that neither writes decisions nor copies or removes parts.
LEMMA OthersKeep ==
    ASSUME Stored_OK, UNCHANGED <<out, disk, sync, bucket>>,
           past' = [written |-> past'.written, chars |-> past'.chars, passed |-> past'.passed, decided |-> past'.decided,
                    truncated |-> past'.truncated, raced |-> past'.raced],
           past'.written \in Nat, past'.decided = past.decided
    PROVE  Stored_OK'
<1>1. out' = out /\ disk' = disk /\ sync' = sync /\ bucket' = bucket
  OBVIOUS
<1>2. PartsOK'
  BY <1>1 DEF Stored_OK, PartsOK, Part
<1>3. SyncOK' /\ CopiesOK' /\ DecisionsKept'
  BY <1>1 DEF Stored_OK, SyncOK, CopiesOK, DecisionsKept, Held
<1>4. Parts(disk') /\ Parts(bucket')
  BY <1>1 DEF Stored_OK, Parts
<1>. QED
  BY <1>1, <1>2, <1>3, <1>4 DEF Stored_OK

-----------------------------------------------------------------------------
(* The log and the tail                                                    *)

\* The log is appended to, renamed, created, reopened and truncated.
LEMMA LogKeeps ==
    ASSUME Stored_OK, TailOK, Log
    PROVE  Stored_OK' /\ TailOK'
<1>. USE DEF TailOK, DownOK, At
<1>1. /\ files \in Seq(Texts) /\ Len(files) \in Nat /\ DOMAIN files = 1 .. Len(files)
      /\ \A i \in DOMAIN files : files[i] \in Texts
  OBVIOUS
<1>2. <<>> \in Texts
  BY DEF Texts
<1>3. ASSUME NEW i \in 1 .. Len(files), NEW text \in Texts, files' = [files EXCEPT ![i] = text]
      PROVE  files' \in Seq(Texts) /\ Len(files') = Len(files)
  BY <1>1, <1>3
<1>4. past.written \in Nat
  BY DEF Stored_OK
<1>5. CASE AppendToLog
  <2>1. PICK end \in BOOLEAN : files' = [files EXCEPT ![writer] = Append(@, Char(past.written, end))]
    BY <1>5 DEF AppendToLog
  <2>2. Append(files[writer], Char(past.written, end)) \in Texts
    BY <1>1, <1>4 DEF Texts, Char, Characters
  <2>3. files' \in Seq(Texts) /\ Len(files') = Len(files)
    BY <1>3, <2>1, <2>2
  <2>4. TailOK'
    BY <1>5, <2>3 DEF AppendToLog
  <2>5. UNCHANGED <<out, disk, sync, bucket>> /\ past' = [past EXCEPT !.written = @ + 1]
    BY <1>5 DEF AppendToLog
  <2>6. Stored_OK'
    <3>1. /\ past' = [written |-> past'.written, chars |-> past'.chars, passed |-> past'.passed, decided |-> past'.decided,
                      truncated |-> past'.truncated, raced |-> past'.raced]
          /\ past'.written \in Nat /\ past'.decided = past.decided
      <4>1. past = [written |-> past.written, chars |-> past.chars, passed |-> past.passed, decided |-> past.decided,
                    truncated |-> past.truncated, raced |-> past.raced]
        BY DEF Stored_OK
      <4>. QED
        BY <1>4, <2>5, <4>1
    <3>. QED
      BY <2>5, <3>1, OthersKeep
  <2>. QED
    BY <2>4, <2>6
<1>6. CASE RenameLog
  <2>1. UNCHANGED <<files, writer, tail, out, disk, sync, bucket, past>> /\ path' = 0
    BY <1>6 DEF RenameLog
  <2>. QED
    BY <1>1, <2>1, OthersKeep DEF Stored_OK
<1>7. CASE CreateLog
  <2>1. UNCHANGED <<writer, tail, out, disk, sync, bucket, past>> /\ files' = Append(files, <<>>) /\ path' = Len(files) + 1
    BY <1>7 DEF CreateLog
  <2>2. files' \in Seq(Texts) /\ Len(files') = Len(files) + 1
    BY <1>1, <1>2, <2>1
  <2>. QED
    BY <1>1, <2>1, <2>2, OthersKeep DEF Stored_OK
<1>8. CASE ReopenLog
  <2>1. UNCHANGED <<files, path, tail, out, disk, sync, bucket, past>> /\ writer' = path /\ path # 0
    BY <1>8 DEF ReopenLog
  <2>. QED
    BY <1>1, <2>1, OthersKeep DEF Stored_OK
<1>9. CASE TruncateLog
  <2>1. /\ UNCHANGED <<path, writer, tail, out, disk, sync, bucket>> /\ path # 0
        /\ files' = [files EXCEPT ![path] = <<>>] /\ past' = [past EXCEPT !.truncated = TRUE]
    BY <1>9 DEF TruncateLog
  <2>2. files' \in Seq(Texts) /\ Len(files') = Len(files)
    BY <1>1, <1>2, <1>3, <2>1
  <2>3. TailOK'
    BY <2>1, <2>2
  <2>4. Stored_OK'
    BY <1>4, <2>1, OthersKeep DEF Stored_OK
  <2>. QED
    BY <2>3, <2>4
<1>. QED
  BY <1>5, <1>6, <1>7, <1>8, <1>9 DEF Log

\* A step of the thread that reads the log.
LEMMA TailStep ==
    ASSUME TailOK, UNCHANGED <<files, path, writer>>,
           tail' \in TailType, tail'.fd \in 0 .. Len(files), tail'.pc # "down"
    PROVE  TailOK'
BY DEF TailOK, DownOK, At, TailType

\* The thread reads, submits what it read, opens the log again and ends the part.
LEMMA ReadingKeeps ==
    ASSUME Stored_OK, TailOK, RunFileTail
    PROVE  Stored_OK' /\ TailOK'
<1>. USE DEF At
<1>1. UNCHANGED <<files, path, writer, sync, bucket>>
  BY DEF RunFileTail
<1>2. /\ tail \in TailType /\ tail.fd \in 0 .. Len(files) /\ path \in 0 .. Len(files)
      /\ Len(files) \in Nat /\ files \in Seq(Texts) /\ <<>> \in Seq(Texts) /\ tail.batch \in Seq(Texts)
      /\ tail.pos \in Nat /\ path \in Nat
  BY DEF TailOK, TailType
<1>3. /\ past = [written |-> past.written, chars |-> past.chars, passed |-> past.passed, decided |-> past.decided,
                 truncated |-> past.truncated, raced |-> past.raced]
      /\ past.written \in Nat
  BY DEF Stored_OK
<1>4. ASSUME UNCHANGED <<out, disk, past>>
      PROVE  Stored_OK'
  BY <1>1, <1>3, <1>4, OthersKeep
<1>5. CASE Top
  <2>1. tail' = [tail EXCEPT !.pc = IF stop THEN "leave" ELSE "read", !.got = FALSE] /\ UNCHANGED <<out, disk, past>>
    BY <1>5 DEF Top
  <2>2. tail' \in TailType /\ tail'.fd \in 0 .. Len(files) /\ tail'.pc # "down"
    BY <1>2, <2>1 DEF TailType, TailAt
  <2>. QED
    BY <1>1, <1>4, <2>1, <2>2, TailStep
<1>6. CASE GetLine
  <2>1. Line \in Texts /\ Line # <<>>
    <3>1. Line \in Texts
      <4>1. CASE tail.fd = 0
        BY <4>1 DEF Line, Texts
      <4>2. CASE tail.fd # 0
        <5>1. files[tail.fd] \in Texts
          BY <1>2, <4>2
        <5>2. LineAt(files[tail.fd], tail.pos) \in Texts
          BY <1>2, <5>1, LineType
        <5>. QED
          BY <4>2, <5>2 DEF Line
      <4>. QED
        BY <4>1, <4>2
    <3>2. Line # <<>>
      BY <1>6 DEF GetLine
    <3>. QED
      BY <3>1, <3>2
  <2>. DEFINE lines == Append(tail.batch, Line)
              full == Len(lines) >= BatchSize
              pos == tail.pos + Len(Line)
              ended == Last(Line).end
  <2>2. lines \in Seq(Texts) /\ pos \in Nat
    <3>1. Len(Line) \in Nat
      BY <2>1 DEF Texts
    <3>. HIDE DEF Line
    <3>. QED
      BY <1>2, <2>1, <3>1
  <2>3. /\ tail.pc = "read"
        /\ tail' = [tail EXCEPT !.pc = IF ended THEN @ ELSE "look", !.got = TRUE, !.pos = pos,
                                !.readPos = IF ended THEN @ ELSE pos, !.batch = IF full THEN <<>> ELSE lines]
        /\ SubmitLines(IF full THEN lines ELSE <<>>)
    BY <1>6 DEF GetLine
  <2>. HIDE DEF lines, full, pos, ended
  <2>4. tail' \in TailType /\ tail'.fd \in 0 .. Len(files) /\ tail'.pc # "down"
    BY <1>2, <2>2, <2>3 DEF TailType, TailAt
  <2>5. (IF full THEN lines ELSE <<>>) \in Seq(Texts)
    BY <1>2, <2>2
  <2>6. Stored_OK'
    BY <1>1, <2>3, <2>5, SubmitKeeps
  <2>. QED
    BY <1>1, <2>4, <2>6, TailStep
<1>7. CASE EndOfFile
  <2>1. /\ tail' = [tail EXCEPT !.pc = "look", !.readPos = IF tail.fd = 0 THEN @ ELSE tail.pos]
        /\ UNCHANGED <<out, disk, past>>
    BY <1>7 DEF EndOfFile
  <2>2. tail' \in TailType /\ tail'.fd \in 0 .. Len(files) /\ tail'.pc # "down"
    BY <1>2, <2>1 DEF TailType, TailAt
  <2>. QED
    BY <1>1, <1>4, <2>1, <2>2, TailStep
<1>8. CASE LookAtPath
  <2>1. CASE ~tail.got /\ Changed
    <3>1. tail' = [tail EXCEPT !.pc = "open", !.batch = <<>>, !.inode = path] /\ SubmitLines(tail.batch)
      BY <1>8, <2>1 DEF LookAtPath
    <3>2. tail' \in TailType /\ tail'.fd \in 0 .. Len(files) /\ tail'.pc # "down"
      BY <1>2, <3>1 DEF TailType, TailAt
    <3>. QED
      BY <1>1, <1>2, <3>1, <3>2, TailStep, SubmitKeeps
  <2>2. CASE ~(~tail.got /\ Changed)
    <3>1. tail' = [tail EXCEPT !.pc = "timer"] /\ UNCHANGED <<out, disk, past>>
      BY <1>8, <2>2 DEF LookAtPath
    <3>2. tail' \in TailType /\ tail'.fd \in 0 .. Len(files) /\ tail'.pc # "down"
      BY <1>2, <3>1 DEF TailType, TailAt
    <3>. QED
      BY <1>1, <1>4, <3>1, <3>2, TailStep
  <2>. QED
    BY <2>1, <2>2
<1>9. CASE Reopen
  <2>1. /\ tail' = [tail EXCEPT !.pc = "top", !.fd = path, !.pos = 0, !.readPos = 0]
        /\ past' = [past EXCEPT !.raced = @ \/ path \notin {0, tail.inode}, !.truncated = FALSE]
        /\ UNCHANGED <<out, disk>>
    BY <1>9 DEF Reopen
  <2>2. tail' \in TailType /\ tail'.fd \in 0 .. Len(files) /\ tail'.pc # "down"
    BY <1>2, <2>1 DEF TailType, TailAt
  <2>3. /\ past' = [written |-> past'.written, chars |-> past'.chars, passed |-> past'.passed, decided |-> past'.decided,
                    truncated |-> past'.truncated, raced |-> past'.raced]
        /\ past'.written \in Nat /\ past'.decided = past.decided
    BY <1>3, <2>1
  <2>. QED
    BY <1>1, <2>1, <2>2, <2>3, TailStep, OthersKeep
<1>10. CASE Wait
  <2>1. tail' = [tail EXCEPT !.pc = "top"] /\ UNCHANGED <<out, disk, past>>
    BY <1>10 DEF Wait
  <2>2. tail' \in TailType /\ tail'.fd \in 0 .. Len(files) /\ tail'.pc # "down"
    BY <1>2, <2>1 DEF TailType, TailAt
  <2>. QED
    BY <1>1, <1>4, <2>1, <2>2, TailStep
<1>11. CASE FlushBatch \/ Leave
  <2>1. /\ tail' = [tail EXCEPT !.pc = "top", !.batch = <<>>] \/ tail' = [tail EXCEPT !.pc = "join", !.batch = <<>>]
        /\ SubmitLines(tail.batch)
    BY <1>11 DEF FlushBatch, Leave
  <2>2. tail' \in TailType /\ tail'.fd \in 0 .. Len(files) /\ tail'.pc # "down"
    BY <1>2, <2>1 DEF TailType, TailAt
  <2>. QED
    BY <1>1, <1>2, <2>1, <2>2, TailStep, SubmitKeeps
<1>12. CASE Joined
  <2>1. tail' = [tail EXCEPT !.pc = "close"] /\ UNCHANGED <<out, disk, past>>
    BY <1>12 DEF Joined
  <2>2. tail' \in TailType /\ tail'.fd \in 0 .. Len(files) /\ tail'.pc # "down"
    BY <1>2, <2>1 DEF TailType, TailAt
  <2>. QED
    BY <1>1, <1>4, <2>1, <2>2, TailStep
<1>13. CASE Close
  <2>1. /\ tail' = [tail EXCEPT !.pc = "upload"] /\ past' = past
        /\ out' = [out EXCEPT !.buffer = <<>>] /\ disk' = Stored(Part, out.buffer)
    BY <1>13 DEF Close, ClosePart
  <2>2. tail' \in TailType /\ tail'.fd \in 0 .. Len(files) /\ tail'.pc # "down"
    BY <1>2, <2>1 DEF TailType, TailAt
  <2>3. out \in OutType /\ out.buffer \in Seq(Texts)
    BY OutTypes DEF Stored_OK, OutType
  <2>4. /\ out' \in OutType /\ out'.buffer = <<>> /\ out'.run = out.run /\ out'.seq = out.seq
        /\ out'.rolled = out.rolled
    BY <1>2, <2>1, <2>3 DEF OutType
  <2>5. Part' = Part
    BY <2>4 DEF Part
  <2>6. Parts(disk') /\ PartsOK' /\ SyncOK' /\ CopiesOK' /\ Held(disk') = Held(disk) \union ToSet(out.buffer)
    BY <1>1, <2>1, <2>3, <2>4, <2>5, GrownPart
  <2>7. DecisionsKept'
    <3>1. Held(bucket') = Held(bucket)
      BY <1>1 DEF Held
    <3>. QED
      BY <2>1, <2>6, <3>1 DEF Stored_OK, DecisionsKept
  <2>8. Parts(bucket')
    BY <1>1 DEF Stored_OK, Parts
  <2>9. Stored_OK'
    BY <1>1, <1>3, <2>1, <2>4, <2>6, <2>7, <2>8 DEF Stored_OK
  <2>. QED
    BY <1>1, <2>2, <2>9, TailStep
<1>. QED
  BY <1>5, <1>6, <1>7, <1>8, <1>9, <1>10, <1>11, <1>12, <1>13 DEF RunFileTail

-----------------------------------------------------------------------------
(* The uploads                                                             *)

\* A part is in the bucket, and what is in both places is as the part on disk.
LEMMA CopyKeeps ==
    ASSUME Stored_OK, NEW todo \in SUBSET DOMAIN disk, UNCHANGED <<out, disk, past>>,
           bucket' = [q \in (DOMAIN bucket) \union todo |-> IF q \in todo THEN disk[q] ELSE bucket[q]]
    PROVE  /\ Parts(bucket') /\ PartsOK' /\ CopiesOK' /\ DecisionsKept'
           /\ \A q \in DOMAIN bucket : q \in DOMAIN bucket' /\ (bucket'[q] = bucket[q] \/ (q \in todo /\ bucket'[q] = disk[q]))
           /\ \A q \in todo : q \in DOMAIN bucket' /\ bucket'[q] = disk[q]
<1>1. /\ DOMAIN bucket' = (DOMAIN bucket) \union todo
      /\ \A q \in DOMAIN bucket' : bucket'[q] = IF q \in todo THEN disk[q] ELSE bucket[q]
      /\ bucket' = [q \in DOMAIN bucket' |-> bucket'[q]]
  OBVIOUS
<1>2. Parts(bucket')
  <2>1. DOMAIN bucket' \subseteq Nat \X Nat /\ \A q \in DOMAIN bucket' : bucket'[q] \in Seq(Texts)
    BY <1>1 DEF Stored_OK, Parts
  <2>. QED
    BY <1>1, <2>1 DEF Parts
<1>3. PartsOK'
  BY <1>1 DEF Stored_OK, PartsOK, Part
<1>4. CopiesOK'
  BY <1>1 DEF Stored_OK, CopiesOK
<1>5. Held(bucket) \subseteq Held(bucket') \union Held(disk)
  <2>1. ASSUME NEW q \in DOMAIN bucket
        PROVE  ToSet(bucket[q]) \subseteq ToSet(bucket'[q]) \/ (q \in DOMAIN disk /\ ToSet(bucket[q]) \subseteq ToSet(disk[q]))
    <3>1. CASE q \in todo
      BY <3>1 DEF Stored_OK, CopiesOK
    <3>2. CASE q \notin todo
      BY <1>1, <3>2
    <3>. QED
      BY <3>1, <3>2
  <2>. QED
    BY <1>1, <2>1 DEF Held
<1>6. DecisionsKept'
  <2>1. Held(disk') = Held(disk)
    BY DEF Held
  <2>. QED
    BY <1>5, <2>1 DEF Stored_OK, DecisionsKept
<1>. QED
  BY <1>1, <1>2, <1>3, <1>4, <1>6

\* The thread that uploads lists, copies, fails, removes and ends.
LEMMA SyncKeeps ==
    ASSUME Stored_OK, TailOK, Sync
    PROVE  Stored_OK' /\ TailOK'
<1>1. /\ out \in OutType /\ sync \in SyncType /\ Parts(disk) /\ Parts(bucket)
      /\ out.rolled \in SUBSET (Nat \X Nat) /\ DOMAIN disk \in SUBSET (Nat \X Nat)
      /\ sync.uploaded \in SUBSET (Nat \X Nat) /\ sync.todo \in SUBSET (Nat \X Nat)
  BY DEF Stored_OK, OutType, SyncType, Parts
<1>2. /\ past = [written |-> past.written, chars |-> past.chars, passed |-> past.passed, decided |-> past.decided,
                 truncated |-> past.truncated, raced |-> past.raced]
      /\ past.written \in Nat
  BY DEF Stored_OK
<1>3. ASSUME UNCHANGED <<out, disk, bucket, past>>, sync' \in SyncType, SyncOK'
      PROVE  Stored_OK'
  <2>1. PartsOK' /\ CopiesOK' /\ DecisionsKept' /\ Parts(disk') /\ Parts(bucket')
    BY <1>1, <1>3 DEF Stored_OK, PartsOK, Part, CopiesOK, DecisionsKept, Held
  <2>. QED
    BY <1>1, <1>2, <1>3, <2>1 DEF Stored_OK
<1>4. ASSUME UNCHANGED <<files, path, writer, tail>>, out'.buffer = out.buffer
      PROVE  TailOK'
  BY <1>4 DEF TailOK, DownOK, At
<1>5. CASE SyncBegins
  <2>1. /\ sync' = [pc |-> "upload", uploaded |-> out.rolled, todo |-> DOMAIN disk]
        /\ UNCHANGED <<files, path, writer, tail, out, disk, bucket, past>>
    BY <1>5 DEF SyncBegins
  <2>2. sync' \in SyncType
    BY <1>1, <2>1 DEF SyncType
  <2>3. SyncOK'
    BY <2>1 DEF Stored_OK, SyncOK, PartsOK
  <2>. QED
    BY <1>3, <1>4, <2>1, <2>2, <2>3
<1>6. CASE SyncCopies
  <2>1. /\ sync.pc = "upload"
        /\ UNCHANGED <<files, path, writer, tail, out, disk, past>>
    BY <1>6 DEF SyncCopies
  <2>2. PICK p \in sync.todo :
          /\ bucket' = [q \in (DOMAIN bucket) \union {p} |-> IF q = p THEN disk[p] ELSE bucket[q]]
          /\ sync' = [sync EXCEPT !.todo = @ \ {p}]
    BY <1>6 DEF SyncCopies
  <2>3. sync.todo \subseteq DOMAIN disk /\ p \in DOMAIN disk
    BY <2>1, <2>2 DEF Stored_OK, SyncOK
  <2>4. bucket' = [q \in (DOMAIN bucket) \union {p} |-> IF q \in {p} THEN disk[q] ELSE bucket[q]]
    BY <2>2
  <2>5. /\ Parts(bucket') /\ PartsOK' /\ CopiesOK' /\ DecisionsKept'
        /\ \A q \in DOMAIN bucket : q \in DOMAIN bucket' /\ (bucket'[q] = bucket[q] \/ (q \in {p} /\ bucket'[q] = disk[q]))
        /\ p \in DOMAIN bucket' /\ bucket'[p] = disk[p]
    BY <2>1, <2>3, <2>4, CopyKeeps
  <2>6. sync' \in SyncType /\ sync'.pc = "upload" /\ sync'.uploaded = sync.uploaded /\ sync'.todo = sync.todo \ {p}
    BY <1>1, <2>1, <2>2 DEF SyncType
  <2>7. SyncOK'
    BY <2>1, <2>3, <2>5, <2>6 DEF Stored_OK, SyncOK
  <2>8. Stored_OK'
    BY <1>1, <1>2, <2>1, <2>5, <2>6, <2>7 DEF Stored_OK
  <2>. QED
    BY <1>4, <2>1, <2>8
<1>7. CASE SyncFails \/ SyncEnds
  <2>1. /\ sync' = [sync EXCEPT !.pc = "sleep"] \/ sync' = [sync EXCEPT !.pc = "ended"]
        /\ UNCHANGED <<files, path, writer, tail, out, disk, bucket, past>>
    BY <1>7 DEF SyncFails, SyncEnds
  <2>2. sync' \in SyncType /\ sync'.pc # "upload"
    BY <1>1, <2>1 DEF SyncType
  <2>3. SyncOK'
    BY <2>2 DEF SyncOK
  <2>. QED
    BY <1>3, <1>4, <2>1, <2>2, <2>3
<1>8. CASE SyncRemoves
  <2>1. /\ sync.pc = "upload" /\ sync.todo = {} /\ sync' = [sync EXCEPT !.pc = "sleep"]
        /\ disk' = [p \in (DOMAIN disk) \ sync.uploaded |-> disk[p]]
        /\ out' = [out EXCEPT !.rolled = @ \ sync.uploaded]
        /\ UNCHANGED <<files, path, writer, tail, bucket, past>>
    BY <1>8 DEF SyncRemoves, Uploaded
  <2>2. /\ sync.uploaded \subseteq out.rolled
        /\ \A p \in sync.uploaded : p \in DOMAIN bucket /\ bucket[p] = disk[p]
    BY <2>1 DEF Stored_OK, SyncOK
  <2>3. sync' \in SyncType /\ sync'.pc # "upload" /\ SyncOK'
    BY <1>1, <2>1 DEF SyncType, SyncOK
  <2>4. /\ out' \in OutType /\ out'.run = out.run /\ out'.seq = out.seq /\ out'.buffer = out.buffer
        /\ out'.rolled = out.rolled \ sync.uploaded
    BY <1>1, <2>1 DEF OutType
  <2>5. /\ DOMAIN disk' = (DOMAIN disk) \ sync.uploaded /\ \A p \in DOMAIN disk' : disk'[p] = disk[p]
        /\ disk' = [p \in DOMAIN disk' |-> disk'[p]]
    BY <2>1
  <2>6. Parts(disk') /\ Parts(bucket')
    <3>1. DOMAIN disk' \subseteq Nat \X Nat /\ \A p \in DOMAIN disk' : disk'[p] \in Seq(Texts)
      BY <1>1, <2>5 DEF Parts
    <3>. QED
      BY <1>1, <2>1, <2>5, <3>1 DEF Parts
  <2>7. PartsOK'
    <3>1. Part' = Part
      BY <2>4 DEF Part
    <3>. QED
      BY <2>1, <2>2, <2>4, <2>5, <3>1 DEF Stored_OK, PartsOK
  <2>8. CopiesOK'
    BY <2>1, <2>5 DEF Stored_OK, CopiesOK
  <2>9. DecisionsKept'
    <3>1. Held(disk) \subseteq Held(disk') \union Held(bucket)
      <4>1. ASSUME NEW p \in DOMAIN disk
            PROVE  (p \in DOMAIN disk' /\ disk'[p] = disk[p]) \/ (p \in DOMAIN bucket /\ bucket[p] = disk[p])
        BY <2>2, <2>5
      <4>. QED
        BY <4>1 DEF Held
    <3>2. Held(bucket') = Held(bucket) /\ out'.buffer = out.buffer /\ past'.decided = past.decided
      BY <2>1, <2>4 DEF Held
    <3>. QED
      BY <3>1, <3>2 DEF Stored_OK, DecisionsKept
  <2>10. Stored_OK'
    BY <1>2, <2>1, <2>3, <2>4, <2>6, <2>7, <2>8, <2>9 DEF Stored_OK
  <2>. QED
    BY <1>4, <2>1, <2>4, <2>10
<1>. QED
  BY <1>5, <1>6, <1>7, <1>8 DEF Sync

\* The last upload, which copies the directory or fails.
LEMMA LastUploadKeeps ==
    ASSUME Stored_OK, TailOK, LastUpload \/ LastUploadFails
    PROVE  Stored_OK' /\ TailOK'
<1>1. /\ tail \in TailType /\ tail.fd \in 0 .. Len(files) /\ tail.pc = "upload"
      /\ UNCHANGED <<files, path, writer, out, disk, sync, past>>
      /\ \/ tail' = [tail EXCEPT !.pc = "exited"]
         \/ tail' = [tail EXCEPT !.pc = "upload", !.attempts = @ + 1]
         \/ tail' = [tail EXCEPT !.pc = "gave up", !.attempts = @ + 1]
  BY DEF TailOK, LastUpload, LastUploadFails, At, TailType
<1>2. tail' \in TailType /\ tail'.fd \in 0 .. Len(files) /\ tail'.pc # "down"
  <2>1. tail.attempts \in Nat /\ tail.attempts + 1 \in Nat
    BY <1>1 DEF TailType
  <2>2. CASE tail' = [tail EXCEPT !.pc = "exited"]
    BY <1>1, <2>2 DEF TailType, TailAt
  <2>3. ASSUME NEW pc \in {"upload", "gave up"}, tail' = [tail EXCEPT !.pc = pc, !.attempts = @ + 1]
        PROVE  tail' \in TailType /\ tail'.fd \in 0 .. Len(files) /\ tail'.pc # "down"
    BY <1>1, <2>1, <2>3 DEF TailType, TailAt
  <2>. QED
    BY <1>1, <2>2, <2>3
<1>3. TailOK'
  BY <1>1, <1>2, TailStep
<1>4. /\ past = [written |-> past.written, chars |-> past.chars, passed |-> past.passed, decided |-> past.decided,
                 truncated |-> past.truncated, raced |-> past.raced]
      /\ past.written \in Nat /\ out \in OutType /\ sync \in SyncType /\ Parts(disk)
  BY DEF Stored_OK
<1>5. CASE LastUpload
  <2>1. bucket' = [p \in (DOMAIN bucket) \union DOMAIN disk |-> IF p \in DOMAIN disk THEN disk[p] ELSE bucket[p]]
    BY <1>5 DEF LastUpload
  <2>2. /\ Parts(bucket') /\ PartsOK' /\ CopiesOK' /\ DecisionsKept'
        /\ \A q \in DOMAIN disk : q \in DOMAIN bucket' /\ bucket'[q] = disk[q]
    BY <1>1, <2>1, CopyKeeps
  <2>3. SyncOK'
    BY <1>1, <2>2 DEF Stored_OK, SyncOK, PartsOK
  <2>4. Parts(disk')
    BY <1>1, <1>4
  <2>. QED
    BY <1>1, <1>3, <1>4, <2>2, <2>3, <2>4 DEF Stored_OK
<1>6. CASE LastUploadFails
  <2>1. bucket' = bucket
    BY <1>6 DEF LastUploadFails
  <2>. QED
    BY <1>1, <1>3, <1>4, <2>1, OthersKeep
<1>. QED
  BY <1>5, <1>6

-----------------------------------------------------------------------------
(* Runs                                                                    *)

\* A killed process takes with it what was in its stream.
LEMMA CrashKeeps ==
    ASSUME Stored_OK, TailOK, Crash
    PROVE  Stored_OK' /\ TailOK'
<1>1. /\ tail' = [tail EXCEPT !.pc = "down", !.batch = <<>>] /\ out' = [out EXCEPT !.buffer = <<>>]
      /\ sync' = [sync EXCEPT !.pc = "ended"] /\ past' = [past EXCEPT !.decided = @ \ ToSet(out.buffer)]
      /\ UNCHANGED <<files, path, writer, disk, bucket>>
  BY DEF Crash
<1>2. <<>> \in Seq(Texts)
  OBVIOUS
<1>3. tail' \in TailType /\ tail'.fd = tail.fd
  BY <1>1, <1>2 DEF TailOK, TailType, TailAt
<1>4. /\ out' \in OutType /\ out'.buffer = <<>> /\ out'.run = out.run /\ out'.seq = out.seq
      /\ out'.rolled = out.rolled
  BY <1>1, <1>2 DEF Stored_OK, OutType
<1>5. TailOK'
  BY <1>1, <1>3, <1>4 DEF TailOK, DownOK
<1>6. sync' \in SyncType /\ sync'.pc # "upload"
  BY <1>1 DEF Stored_OK, SyncType
<1>7. /\ past' = [written |-> past'.written, chars |-> past'.chars, passed |-> past'.passed, decided |-> past'.decided,
                  truncated |-> past'.truncated, raced |-> past'.raced]
      /\ past'.written \in Nat /\ past'.decided = past.decided \ ToSet(out.buffer)
  <2>1. /\ past = [written |-> past.written, chars |-> past.chars, passed |-> past.passed, decided |-> past.decided,
                   truncated |-> past.truncated, raced |-> past.raced]
        /\ past.written \in Nat
    BY DEF Stored_OK
  <2>. QED
    BY <1>1, <2>1
<1>8. PartsOK' /\ SyncOK' /\ CopiesOK' /\ Parts(disk') /\ Parts(bucket')
  <2>1. Part' = Part
    BY <1>4 DEF Part
  <2>. QED
    BY <1>1, <1>4, <1>6, <2>1 DEF Stored_OK, PartsOK, SyncOK, CopiesOK, Parts
<1>9. DecisionsKept'
  <2>1. Held(disk') = Held(disk) /\ Held(bucket') = Held(bucket)
    BY <1>1 DEF Held
  <2>. QED
    BY <1>7, <2>1 DEF Stored_OK, DecisionsKept
<1>. QED
  BY <1>4, <1>5, <1>6, <1>7, <1>8, <1>9 DEF Stored_OK

\* A new run starts with a part that no run had before.
LEMMA RestartKeeps ==
    ASSUME Stored_OK, TailOK, Restart
    PROVE  Stored_OK' /\ TailOK'
<1>1. /\ tail.pc = "down" /\ path # 0 /\ tail' = OpenAtEnd(path) /\ out' = NewRun(out.run + 1)
      /\ disk' = NewPart(disk, <<out.run + 1, 0>>) /\ sync' = Sleeping
      /\ past' = [past EXCEPT !.passed = @ \union {files[path][i].n : i \in DOMAIN files[path]}, !.truncated = FALSE]
      /\ UNCHANGED <<files, path, writer, bucket>>
  BY DEF Restart
<1>2. out.run \in Nat /\ out.seq \in Nat /\ out.buffer = <<>>
  BY <1>1 DEF Stored_OK, OutType, TailOK, DownOK, At
<1>3. /\ out' \in OutType /\ out'.buffer = <<>> /\ out'.run = out.run + 1 /\ out'.seq = 0 /\ out'.rolled = {}
  <2>1. <<>> \in Seq(Texts)
    OBVIOUS
  <2>2. out' = [run |-> out.run + 1, seq |-> 0, buffer |-> <<>>, length |-> 0, rolled |-> {}]
    BY <1>1 DEF NewRun, NoPart
  <2>3. out.run + 1 \in Nat /\ 0 \in Nat /\ {} \in SUBSET (Nat \X Nat)
    BY <1>2
  <2>. QED
    BY <2>1, <2>2, <2>3 DEF OutType
<1>4. TailOK'
  <2>1. path \in Nat /\ path \in 0 .. Len(files) /\ Len(files[path]) \in Nat /\ <<>> \in Seq(Texts)
    BY <1>1 DEF TailOK, Texts
  <2>2. tail' \in TailType /\ tail'.fd = path /\ tail'.pc = "top"
    BY <1>1, <2>1 DEF OpenAtEnd, TailType, TailAt
  <2>. QED
    BY <1>1, <2>1, <2>2, TailStep
<1>5. sync' \in SyncType /\ SyncOK'
  BY <1>1 DEF Sleeping, SyncType, SyncOK
<1>6. /\ past' = [written |-> past'.written, chars |-> past'.chars, passed |-> past'.passed, decided |-> past'.decided,
                  truncated |-> past'.truncated, raced |-> past'.raced]
      /\ past'.written \in Nat /\ past'.decided = past.decided
  <2>1. /\ past = [written |-> past.written, chars |-> past.chars, passed |-> past.passed, decided |-> past.decided,
                   truncated |-> past.truncated, raced |-> past.raced]
        /\ past.written \in Nat
    BY DEF Stored_OK
  <2>. QED
    BY <1>1, <2>1
<1>. DEFINE new == <<out.run + 1, 0>>
<1>7. /\ new \in Nat \X Nat /\ new[1] = out.run + 1 /\ new[2] = 0 /\ Part' = new
  BY <1>2, <1>3 DEF Part
<1>8. new \notin DOMAIN disk /\ new \notin DOMAIN bucket
  BY <1>2, <1>7 DEF Stored_OK, PartsOK
<1>9. /\ Parts(disk') /\ DOMAIN disk' = (DOMAIN disk) \union {new}
      /\ \A p \in DOMAIN disk : disk'[p] = disk[p]
      /\ Held(disk') = Held(disk)
  <2>1. Parts(disk)
    BY DEF Stored_OK
  <2>2. /\ Parts(NewPart(disk, new)) /\ DOMAIN NewPart(disk, new) = (DOMAIN disk) \union {new}
        /\ \A p \in DOMAIN disk : NewPart(disk, new)[p] = disk[p]
        /\ Held(NewPart(disk, new)) = Held(disk)
    BY <1>7, <1>8, <2>1, NewPartType
  <2>. QED
    BY <1>1, <2>2
<1>. HIDE DEF new
<1>10. PartsOK'
  <2>1. ASSUME NEW p \in (DOMAIN disk) \union DOMAIN bucket
        PROVE  p[1] < out.run + 1
    <3>1. p \in Nat \X Nat
      BY DEF Stored_OK, Parts
    <3>2. p[1] < out.run \/ (p[1] = out.run /\ p[2] <= out.seq)
      BY DEF Stored_OK, PartsOK
    <3>. QED
      BY <1>2, <3>1, <3>2
  <2>. QED
    BY <1>1, <1>2, <1>3, <1>7, <1>9, <2>1 DEF PartsOK
<1>11. CopiesOK' /\ Parts(bucket')
  BY <1>1, <1>8, <1>9 DEF Stored_OK, CopiesOK, Parts
<1>12. DecisionsKept'
  <2>1. Held(bucket') = Held(bucket)
    BY <1>1 DEF Held
  <2>. QED
    BY <1>2, <1>3, <1>6, <1>9, <2>1 DEF Stored_OK, DecisionsKept
<1>. QED
  BY <1>3, <1>4, <1>5, <1>6, <1>9, <1>10, <1>11, <1>12 DEF Stored_OK

\* The invariant holds at first.
LEMMA FilesInit == Init => FilesInv
<1>. SUFFICES ASSUME Init PROVE FilesInv
  OBVIOUS
<1>1. <<>> \in Texts /\ <<>> \in Seq(Texts) /\ Len(<<>>) = 0 /\ ToSet(<<>>) = {}
  BY DEF Texts, ToSet
<1>2. /\ files = <<<<>>>> /\ path = 1 /\ writer = 1 /\ tail = OpenAtEnd(1)
      /\ out = NewRun(1) /\ disk = NewPart(<<>>, <<1, 0>>) /\ sync = Sleeping /\ bucket = <<>>
      /\ past = [written |-> 0, chars |-> <<>>, passed |-> {}, decided |-> {}, truncated |-> FALSE, raced |-> FALSE]
  BY DEF Init
<1>3. files \in Seq(Texts) /\ Len(files) = 1 /\ files[1] = <<>>
  BY <1>1, <1>2
<1>4. tail \in TailType /\ tail.fd = 1 /\ tail.pc = "top"
  BY <1>1, <1>2, <1>3 DEF OpenAtEnd, TailType, TailAt
<1>5. TailOK
  BY <1>2, <1>3, <1>4 DEF TailOK, DownOK, At
<1>6. out \in OutType /\ out.run = 1 /\ out.seq = 0 /\ out.rolled = {} /\ Part = <<1, 0>>
  BY <1>1, <1>2 DEF NewRun, NoPart, OutType, Part
<1>7. DOMAIN <<>> = {} /\ Parts(<<>>)
  BY DEF Parts
<1>8. <<1, 0>> \in Nat \X Nat
  OBVIOUS
<1>9. Parts(disk) /\ DOMAIN disk = {<<1, 0>>}
  <2>1. /\ Parts(NewPart(<<>>, <<1, 0>>))
        /\ DOMAIN NewPart(<<>>, <<1, 0>>) = (DOMAIN <<>>) \union {<<1, 0>>}
    BY <1>7, <1>8, NewPartType
  <2>. QED
    BY <1>2, <1>7, <2>1
<1>10. sync \in SyncType /\ SyncOK
  BY <1>2 DEF Sleeping, SyncType, SyncOK
<1>11. PartsOK /\ CopiesOK
  BY <1>2, <1>6, <1>7, <1>9 DEF PartsOK, CopiesOK
<1>12. DecisionsKept
  BY <1>2 DEF DecisionsKept
<1>13. Stored_OK
  BY <1>2, <1>6, <1>7, <1>9, <1>10, <1>11, <1>12 DEF Stored_OK
<1>. QED
  BY <1>5, <1>13, SplitInv

\* Every step keeps the invariant.
LEMMA FilesStep == FilesInv /\ [Next]_vars => FilesInv'
<1>. SUFFICES ASSUME Stored_OK, TailOK, [Next]_vars
              PROVE  Stored_OK' /\ TailOK'
  BY SplitInv, PTL
<1>1. ASSUME UNCHANGED <<files, path, writer, tail, out, disk, sync, bucket, past>>
      PROVE  Stored_OK' /\ TailOK'
  <2>1. TailOK'
    BY <1>1 DEF TailOK, DownOK, At
  <2>2. /\ past' = [written |-> past'.written, chars |-> past'.chars, passed |-> past'.passed, decided |-> past'.decided,
                    truncated |-> past'.truncated, raced |-> past'.raced]
        /\ past'.written \in Nat /\ past'.decided = past.decided
    BY <1>1 DEF Stored_OK
  <2>. QED
    BY <1>1, <2>1, <2>2, OthersKeep
<1>2. CASE Log
  BY <1>2, LogKeeps
<1>3. CASE RunFileTail
  BY <1>3, ReadingKeeps
<1>4. CASE LastUpload \/ LastUploadFails
  BY <1>4, LastUploadKeeps
<1>5. CASE Sync
  BY <1>5, SyncKeeps
<1>6. CASE Signal
  BY <1>1, <1>6 DEF Signal
<1>7. CASE Crash
  BY <1>7, CrashKeeps
<1>8. CASE Restart
  BY <1>8, RestartKeeps
<1>9. CASE UNCHANGED vars
  BY <1>1, <1>9 DEF vars
<1>. QED
  BY <1>2, <1>3, <1>4, <1>5, <1>6, <1>7, <1>8, <1>9 DEF Next

\* The inductive invariant: the part that is written is on disk under a name of its own, what
\* an upload will remove is finished and is copied first, a copy has nothing more than the
\* part, and the decisions are kept.
THEOREM FilesInvariant == Spec => []FilesInv
BY FilesInit, FilesStep, PTL DEF Spec

\* Every decision that was written is in the stream, in the staging directory or in the bucket
\* (InstanceRunner: the roll of a part, the upload thread, close and the last upload).
THEOREM DecisionsAreKept == Spec => []DecisionsKept
<1>1. FilesInv => DecisionsKept
  BY DEF FilesInv
<1>. QED
  BY <1>1, FilesInvariant, PTL

-----------------------------------------------------------------------------
(* The end of a run                                                        *)

\* No run has stopped at first.
LEMMA ExitInit == Init => ExitOK
BY DEF Init, OpenAtEnd, ExitOK, Stopping, At

\* The thread of the tail decides its batch before it is joined, and closes its part after.
LEMMA ExitReading ==
    ASSUME Stored_OK, TailOK, ExitOK, RunFileTail
    PROVE  ExitOK'
<1>. USE DEF At, Stopping
<1>1. tail \in TailType /\ UNCHANGED <<sync, bucket>>
  BY DEF TailOK, RunFileTail
<1>2. CASE Top
  BY <1>1, <1>2 DEF Top, ExitOK, TailType
<1>3. CASE GetLine
  <2>1. tail'.pc \in {"read", "look"}
    BY <1>1, <1>3 DEF GetLine, TailType
  <2>. QED
    BY <2>1 DEF ExitOK
<1>4. CASE EndOfFile
  <2>1. tail'.pc = "look"
    BY <1>1, <1>4 DEF EndOfFile, TailType
  <2>. QED
    BY <2>1 DEF ExitOK
<1>5. CASE LookAtPath
  <2>1. tail'.pc \in {"open", "timer"}
    BY <1>1, <1>5 DEF LookAtPath, TailType
  <2>. QED
    BY <2>1 DEF ExitOK
<1>6. CASE Reopen \/ Wait \/ FlushBatch
  <2>1. tail'.pc = "top"
    BY <1>1, <1>6 DEF Reopen, Wait, FlushBatch, TailType
  <2>. QED
    BY <2>1 DEF ExitOK
<1>7. CASE Leave
  <2>1. tail'.pc = "join" /\ tail'.batch = <<>>
    BY <1>1, <1>7 DEF Leave, TailType
  <2>. QED
    BY <2>1 DEF ExitOK
<1>8. CASE Joined
  <2>1. tail.pc = "join" /\ sync.pc = "ended" /\ tail'.pc = "close" /\ tail'.batch = tail.batch
    BY <1>1, <1>8 DEF Joined, TailType
  <2>. QED
    BY <1>1, <2>1 DEF ExitOK
<1>9. CASE Close
  <2>1. tail.pc = "close" /\ tail'.pc = "upload" /\ tail'.batch = tail.batch
    BY <1>1, <1>9 DEF Close, TailType
  <2>2. out'.buffer = <<>>
    BY <1>9 DEF Close, ClosePart, Stored_OK, OutType
  <2>. QED
    BY <1>1, <2>1, <2>2 DEF ExitOK
<1>. QED
  BY <1>2, <1>3, <1>4, <1>5, <1>6, <1>7, <1>8, <1>9 DEF RunFileTail

\* After the last upload all that is on disk is in the bucket.
LEMMA ExitUpload ==
    ASSUME Stored_OK, TailOK, ExitOK, LastUpload \/ LastUploadFails
    PROVE  ExitOK'
<1>. USE DEF At, Stopping
<1>1. /\ tail.pc = "upload" /\ tail'.batch = tail.batch
      /\ tail'.pc \in {"upload", "exited", "gave up"}
      /\ UNCHANGED <<out, disk, sync, past>>
  BY ZenonT(30) DEF TailOK, TailType, LastUpload, LastUploadFails
<1>2. CASE LastUpload
  <2>1. bucket' = [p \in (DOMAIN bucket) \union DOMAIN disk |-> IF p \in DOMAIN disk THEN disk[p] ELSE bucket[p]]
    BY <1>2 DEF LastUpload
  <2>2. \A q \in DOMAIN disk : q \in DOMAIN bucket' /\ bucket'[q] = disk[q]
    BY <2>1
  <2>3. Held(disk') \subseteq Held(bucket')
    BY <1>1, <2>2 DEF Held
  <2>. QED
    BY <1>1, <2>3 DEF ExitOK
<1>3. CASE LastUploadFails
  <2>1. tail'.pc # "exited"
    BY <1>3 DEF LastUploadFails, TailOK, TailType
  <2>. QED
    BY <1>1, <2>1 DEF ExitOK
<1>. QED
  BY <1>2, <1>3

\* The upload thread does nothing after its end.
LEMMA ExitSync ==
    ASSUME Stored_OK, ExitOK, Sync
    PROVE  ExitOK'
<1>1. tail' = tail /\ out'.buffer = out.buffer /\ sync.pc # "ended"
  BY DEF Sync, SyncBegins, SyncCopies, SyncFails, SyncRemoves, SyncEnds, Stored_OK, OutType
<1>. QED
  BY <1>1 DEF ExitOK, Stopping, At

\* Every step keeps the invariant.
LEMMA ExitStep == FilesInv /\ ExitOK /\ [Next]_vars => ExitOK'
<1>. SUFFICES ASSUME Stored_OK, TailOK, ExitOK, [Next]_vars
              PROVE  ExitOK'
  BY SplitInv
<1>1. ASSUME UNCHANGED <<tail, out, disk, sync, bucket>>
      PROVE  ExitOK'
  BY <1>1 DEF ExitOK, Stopping, At, Held
<1>2. CASE Log
  BY <1>1, <1>2 DEF Log, AppendToLog, RenameLog, CreateLog, ReopenLog, TruncateLog
<1>3. CASE RunFileTail
  BY <1>3, ExitReading
<1>4. CASE LastUpload \/ LastUploadFails
  BY <1>4, ExitUpload
<1>5. CASE Sync
  BY <1>5, ExitSync
<1>6. CASE Signal
  BY <1>1, <1>6 DEF Signal
<1>7. CASE Crash
  BY <1>7 DEF Crash, TailOK, TailType, ExitOK, Stopping, At
<1>8. CASE Restart
  BY <1>8 DEF Restart, OpenAtEnd, ExitOK, Stopping, At
<1>9. CASE UNCHANGED vars
  BY <1>1, <1>9 DEF vars
<1>. QED
  BY <1>2, <1>3, <1>4, <1>5, <1>6, <1>7, <1>8, <1>9 DEF Next

\* A run that ended after an upload has decided all it read, and what it and the runs before
\* it decided is in the bucket (~InstanceRunner: the join of the upload thread, the close of
\* the part and the upload after it).
THEOREM ExitsComplete == Spec => []ExitIsComplete
<1>1. FilesInv /\ ExitOK => ExitIsComplete
  <2>. SUFFICES ASSUME FilesInv, ExitOK, At("exited")
                PROVE  /\ tail.batch = <<>> /\ out.buffer = <<>>
                       /\ past.decided \subseteq Held(bucket)
    BY DEF ExitIsComplete
  <2>1. tail.batch = <<>> /\ out.buffer = <<>> /\ Held(disk) \subseteq Held(bucket)
    BY DEF ExitOK, Stopping, At
  <2>2. ToSet(<<>>) = {}
    BY DEF ToSet
  <2>. QED
    BY <2>1, <2>2 DEF FilesInv, DecisionsKept
<1>. QED
  BY <1>1, ExitInit, ExitStep, FilesInvariant, PTL DEF Spec

-----------------------------------------------------------------------------
(* What getline gives, and lines that are put together                     *)

\* Induction over the numbers, for a set.
LEMMA NumbersInduction ==
    ASSUME NEW S \in SUBSET Nat, 0 \in S, \A n \in S : n + 1 \in S
    PROVE  S = Nat
<1>. DEFINE bad == Nat \ S
<1>1. CASE bad # {}
  <2>1. bad \in SUBSET Nat
    OBVIOUS
  <2>. HIDE DEF bad
  <2>2. Min(bad) \in bad /\ \A r \in bad : Min(bad) <= r
    BY <1>1, <2>1, MinOfNumbers
  <2>3. PICK m \in bad : \A r \in bad : m <= r
    BY <2>2
  <2>4. m \in Nat /\ m # 0 /\ m - 1 \in Nat /\ m - 1 \notin bad
    BY <2>1, <2>3 DEF bad
  <2>5. m - 1 + 1 \in S
    BY <2>4 DEF bad
  <2>. QED
    BY <2>3, <2>4, <2>5 DEF bad
<1>. QED
  BY <1>1

\* The function by which FlattenSeq is defined.
Flattens(f, seqs, n) == f = [i \in 1..n |-> IF i = 1 THEN seqs[i] ELSE f[i-1] \o seqs[i]]

\* Its values.
LEMMA FlattensAt ==
    ASSUME NEW f, NEW seqs, NEW n, Flattens(f, seqs, n), NEW i \in 1..n
    PROVE  f[i] = IF i = 1 THEN seqs[i] ELSE f[i-1] \o seqs[i]
<1>. DEFINE value(j) == IF j = 1 THEN seqs[j] ELSE f[j-1] \o seqs[j]
<1>1. f = [j \in 1..n |-> value(j)]
  BY Zenon DEF Flattens
<1>2. f[i] = value(i)
  <2>. HIDE DEF value
  <2>. QED
    BY <1>1
<1>. QED
  BY <1>2

\* There is one,
LEMMA FlattensExists ==
    ASSUME NEW seqs, NEW n \in Nat
    PROVE  \E f : Flattens(f, seqs, n)
<1>. DEFINE S == {k \in Nat : \E f : Flattens(f, seqs, k)}
<1>1. 0 \in S
  <2>1. Flattens([i \in 1..0 |-> 0], seqs, 0)
    BY DEF Flattens
  <2>. QED
    BY <2>1
<1>2. ASSUME NEW k \in S
      PROVE  k + 1 \in S
  <2>1. PICK f : Flattens(f, seqs, k)
    OBVIOUS
  <2>. DEFINE g == [i \in 1..(k + 1) |-> IF i <= k THEN f[i] ELSE IF i = 1 THEN seqs[i] ELSE f[i-1] \o seqs[i]]
  <2>2. ASSUME NEW i \in 1..(k + 1)
        PROVE  g[i] = IF i = 1 THEN seqs[i] ELSE g[i-1] \o seqs[i]
    <3>1. CASE i <= k
      <4>1. f[i] = IF i = 1 THEN seqs[i] ELSE f[i-1] \o seqs[i]
        BY <2>1, <3>1, FlattensAt
      <4>2. i # 1 => i - 1 \in 1..(k + 1) /\ i - 1 <= k
        BY <3>1
      <4>. QED
        BY <3>1, <4>1, <4>2
    <3>2. CASE i > k
      <4>1. i # 1 => i - 1 \in 1..(k + 1) /\ i - 1 <= k
        BY <3>2
      <4>. QED
        BY <3>2, <4>1
    <3>. QED
      BY <3>1, <3>2
  <2>3. Flattens(g, seqs, k + 1)
    <3>1. g = [i \in 1..(k + 1) |-> g[i]]
      OBVIOUS
    <3>. HIDE DEF g
    <3>. QED
      BY <2>2, <3>1 DEF Flattens
  <2>. QED
    BY <2>3
<1>3. S = Nat
  <2>. HIDE DEF S
  <2>1. S \in SUBSET Nat
    BY DEF S
  <2>. QED
    BY <1>1, <1>2, <2>1, NumbersInduction
<1>. QED
  BY <1>3

\* and two agree as far as their sequences do.
LEMMA FlattensAgree ==
    ASSUME NEW s, NEW t, NEW n \in Nat, NEW m \in Nat, NEW f, NEW g,
           n <= m, \A i \in 1..n : s[i] = t[i], Flattens(f, s, n), Flattens(g, t, m)
    PROVE  \A i \in 1..n : f[i] = g[i]
<1>. DEFINE S == {k \in Nat : k \in 1..n => f[k] = g[k]}
<1>1. 0 \in S
  OBVIOUS
<1>2. ASSUME NEW k \in S
      PROVE  k + 1 \in S
  <2>. SUFFICES ASSUME k + 1 \in 1..n
                PROVE  f[k + 1] = g[k + 1]
    OBVIOUS
  <2>1. f[k + 1] = IF k + 1 = 1 THEN s[k + 1] ELSE f[k + 1 - 1] \o s[k + 1]
    BY FlattensAt
  <2>2. g[k + 1] = IF k + 1 = 1 THEN t[k + 1] ELSE g[k + 1 - 1] \o t[k + 1]
    <3>1. k + 1 \in 1..m
      OBVIOUS
    <3>. QED
      BY <3>1, FlattensAt
  <2>3. k + 1 # 1 => k \in 1..n /\ f[k] = g[k] /\ k + 1 - 1 = k
    OBVIOUS
  <2>. QED
    BY <2>1, <2>2, <2>3
<1>3. S = Nat
  <2>. HIDE DEF S
  <2>1. S \in SUBSET Nat
    BY DEF S
  <2>. QED
    BY <1>1, <1>2, <2>1, NumbersInduction
<1>. QED
  BY <1>3

\* The last value is that of a longer sequence there.
LEMMA FlattensLonger ==
    ASSUME NEW s, NEW t, NEW n \in Nat, n # 0, NEW f, NEW g,
           \A i \in 1..n : s[i] = t[i], Flattens(f, s, n), Flattens(g, t, n + 1)
    PROVE  f[n] = g[n]
<1>1. n + 1 \in Nat /\ n <= n + 1 /\ n \in 1..n
  OBVIOUS
<1>. QED
  BY <1>1, FlattensAgree

\* Its values are sequences.
LEMMA FlattensType ==
    ASSUME NEW S, NEW n \in Nat, NEW seqs, \A i \in 1..n : seqs[i] \in Seq(S), NEW f, Flattens(f, seqs, n)
    PROVE  \A i \in 1..n : f[i] \in Seq(S)
<1>. DEFINE G == {k \in Nat : k \in 1..n => f[k] \in Seq(S)}
<1>1. 0 \in G
  OBVIOUS
<1>2. ASSUME NEW k \in G
      PROVE  k + 1 \in G
  <2>. SUFFICES ASSUME k + 1 \in 1..n
                PROVE  f[k + 1] \in Seq(S)
    OBVIOUS
  <2>1. f[k + 1] = IF k + 1 = 1 THEN seqs[k + 1] ELSE f[k + 1 - 1] \o seqs[k + 1]
    BY FlattensAt
  <2>2. k + 1 # 1 => f[k] \in Seq(S) /\ k + 1 - 1 = k
    OBVIOUS
  <2>3. seqs[k + 1] \in Seq(S)
    OBVIOUS
  <2>4. CASE k + 1 = 1
    BY <2>1, <2>3, <2>4
  <2>5. CASE k + 1 # 1
    <3>1. f[k + 1] = f[k] \o seqs[k + 1] /\ f[k] \in Seq(S)
      BY <2>1, <2>2, <2>5
    <3>. QED
      BY <2>3, <3>1, ConcatProperties
  <2>. QED
    BY <2>4, <2>5
<1>3. G = Nat
  <2>. HIDE DEF G
  <2>1. G \in SUBSET Nat
    BY DEF G
  <2>. QED
    BY <1>1, <1>2, <2>1, NumbersInduction
<1>. QED
  BY <1>3

\* FlattenSeq by any such function.
LEMMA FlattenSeqIs ==
    ASSUME NEW S, NEW seqs \in Seq(Seq(S)), seqs # <<>>
    PROVE  \E f : Flattens(f, seqs, Len(seqs)) /\ FlattenSeq(seqs) = f[Len(seqs)]
<1>. DEFINE f == CHOOSE g : g = [i \in 1..Len(seqs) |-> IF i = 1 THEN seqs[i] ELSE g[i-1] \o seqs[i]]
<1>1. Len(seqs) \in Nat /\ Len(seqs) # 0
  OBVIOUS
<1>2. \E g : g = [i \in 1..Len(seqs) |-> IF i = 1 THEN seqs[i] ELSE g[i-1] \o seqs[i]]
  BY <1>1, FlattensExists DEF Flattens
<1>3. Flattens(f, seqs, Len(seqs))
  BY <1>2, Zenon DEF Flattens
<1>4. FlattenSeq(seqs) = f[Len(seqs)]
  BY <1>1, Zenon DEF FlattenSeq
<1>. QED
  BY <1>3, <1>4

\* A line more.
LEMMA FlattenAppend ==
    ASSUME NEW S, NEW seqs \in Seq(Seq(S)), NEW line \in Seq(S)
    PROVE  /\ FlattenSeq(seqs) \in Seq(S)
           /\ FlattenSeq(Append(seqs, line)) = FlattenSeq(seqs) \o line
<1>. DEFINE n == Len(seqs)
            more == Append(seqs, line)
<1>1. /\ n \in Nat /\ more \in Seq(Seq(S)) /\ more # <<>> /\ Len(more) = n + 1 /\ more[n + 1] = line
      /\ \A i \in 1..n : more[i] = seqs[i] /\ seqs[i] \in Seq(S)
  BY AppendProperties
<1>. HIDE DEF more
<1>2. PICK g : Flattens(g, more, n + 1) /\ FlattenSeq(more) = g[n + 1]
  BY <1>1, FlattenSeqIs
<1>3. g[n + 1] = IF n + 1 = 1 THEN more[n + 1] ELSE g[n + 1 - 1] \o more[n + 1]
  <2>1. n + 1 \in 1..(n + 1)
    BY <1>1
  <2>. QED
    BY <1>2, <2>1, FlattensAt
<1>4. CASE seqs = <<>>
  <2>1. FlattenSeq(seqs) = <<>>
    BY <1>4 DEF FlattenSeq
  <2>2. FlattenSeq(more) = line
    BY <1>1, <1>2, <1>3, <1>4
  <2>3. <<>> \o line = line /\ <<>> \in Seq(S)
    BY ConcatEmptySeq
  <2>. QED
    BY <2>1, <2>2, <2>3 DEF more
<1>5. CASE seqs # <<>>
  <2>1. PICK f : Flattens(f, seqs, n) /\ FlattenSeq(seqs) = f[n]
    BY <1>5, FlattenSeqIs
  <2>2. f[n] = g[n]
    <3>1. n \in Nat /\ n # 0 /\ \A i \in 1..n : seqs[i] = more[i]
      BY <1>1, <1>5
    <3>2. Flattens(f, seqs, n) /\ Flattens(g, more, n + 1)
      BY <1>2, <2>1
    <3>. HIDE DEF n
    <3>. QED
      BY <3>1, <3>2, FlattensLonger
  <2>3. n \in 1..n /\ n + 1 # 1 /\ n + 1 - 1 = n
    BY <1>5
  <2>4. f[n] \in Seq(S)
    BY <1>1, <2>1, <2>3, FlattensType
  <2>5. g[n + 1] = g[n] \o line
    BY <1>1, <1>3, <2>3
  <2>. QED
    BY <1>2, <2>1, <2>2, <2>3, <2>4, <2>5 DEF more
<1>. QED
  BY <1>4, <1>5

\* The numbers of a line's characters.
NumbersOf(line) == [i \in DOMAIN line |-> line[i].n]

\* The numbers of a line.
LEMMA NumbersOfType ==
    ASSUME NEW line \in Texts
    PROVE  /\ NumbersOf(line) \in Seq(Nat) /\ Len(NumbersOf(line)) = Len(line)
           /\ \A i \in 1..Len(line) : NumbersOf(line)[i] = line[i].n
<1>1. line \in Seq(Characters) /\ Len(line) \in Nat /\ DOMAIN line = 1..Len(line)
  BY DEF Texts
<1>2. \A i \in 1..Len(line) : line[i].n \in Nat
  <2>1. \A i \in 1..Len(line) : line[i] \in Characters
    BY <1>1
  <2>. QED
    BY <2>1 DEF Characters
<1>3. DOMAIN NumbersOf(line) = 1..Len(line) /\ \A i \in 1..Len(line) : NumbersOf(line)[i] = line[i].n
  BY <1>1 DEF NumbersOf
<1>4. NumbersOf(line) \in [1..Len(line) -> Nat]
  BY <1>1, <1>2 DEF NumbersOf
<1>. QED
  BY <1>1, <1>3, <1>4

\* The numbers of lines are a sequence, and those of a line more come after them.
LEMMA NumbersAppend ==
    ASSUME NEW lines \in Seq(Texts), NEW line \in Texts
    PROVE  /\ Numbers(<<>>) = <<>> /\ Numbers(lines) \in Seq(Nat)
           /\ Numbers(Append(lines, line)) = Numbers(lines) \o NumbersOf(line)
<1>. DEFINE flat == FlattenSeq(lines)
            more == FlattenSeq(Append(lines, line))
<1>1. /\ flat \in Seq(Characters) /\ more = flat \o line /\ line \in Seq(Characters)
  BY FlattenAppend DEF Texts
<1>2. /\ more \in Seq(Characters) /\ Len(more) = Len(flat) + Len(line)
      /\ \A i \in 1 .. Len(flat) + Len(line) : more[i] = IF i <= Len(flat) THEN flat[i] ELSE line[i - Len(flat)]
  BY <1>1, ConcatProperties
<1>. HIDE DEF flat, more
<1>3. /\ NumbersOf(flat) \in Seq(Nat) /\ Len(NumbersOf(flat)) = Len(flat)
      /\ \A i \in 1..Len(flat) : NumbersOf(flat)[i] = flat[i].n
  BY <1>1, NumbersOfType DEF Texts
<1>4. /\ NumbersOf(more) \in Seq(Nat) /\ Len(NumbersOf(more)) = Len(more)
      /\ \A i \in 1..Len(more) : NumbersOf(more)[i] = more[i].n
  BY <1>2, NumbersOfType DEF Texts
<1>5. /\ NumbersOf(line) \in Seq(Nat) /\ Len(NumbersOf(line)) = Len(line)
      /\ \A i \in 1..Len(line) : NumbersOf(line)[i] = line[i].n
  BY NumbersOfType
<1>. DEFINE nf == NumbersOf(flat)
            nl == NumbersOf(line)
            nm == NumbersOf(more)
<1>5a. /\ nf \in Seq(Nat) /\ Len(nf) = Len(flat) /\ \A i \in 1..Len(flat) : nf[i] = flat[i].n
       /\ nl \in Seq(Nat) /\ Len(nl) = Len(line) /\ \A i \in 1..Len(line) : nl[i] = line[i].n
       /\ nm \in Seq(Nat) /\ Len(nm) = Len(more) /\ \A i \in 1..Len(more) : nm[i] = more[i].n
  BY <1>3, <1>4, <1>5
<1>5b. Len(flat) \in Nat /\ Len(line) \in Nat
  BY <1>1
<1>. HIDE DEF nf, nl, nm
<1>6. /\ nf \o nl \in Seq(Nat) /\ Len(nf \o nl) = Len(flat) + Len(line)
      /\ \A i \in 1 .. Len(flat) + Len(line) : (nf \o nl)[i] = IF i <= Len(flat) THEN nf[i] ELSE nl[i - Len(flat)]
  <2>1. /\ nf \o nl \in Seq(Nat) /\ Len(nf \o nl) = Len(nf) + Len(nl)
        /\ \A i \in 1 .. Len(nf) + Len(nl) : (nf \o nl)[i] = IF i <= Len(nf) THEN nf[i] ELSE nl[i - Len(nf)]
    <3>1. nf \in Seq(Nat) /\ nl \in Seq(Nat)
      BY <1>5a
    <3>. QED
      BY <3>1, ConcatProperties
  <2>. QED
    BY <1>5a, <2>1
<1>7. nm = nf \o nl
  <2>1. ASSUME NEW i \in 1..Len(nm)
        PROVE  nm[i] = (nf \o nl)[i]
    <3>1. i \in 1 .. Len(flat) + Len(line) /\ nm[i] = more[i].n
      BY <1>2, <1>5a
    <3>2. CASE i <= Len(flat)
      <4>1. more[i] = flat[i] /\ (nf \o nl)[i] = nf[i] /\ i \in 1..Len(flat)
        BY <1>2, <1>6, <3>1, <3>2
      <4>. QED
        BY <1>5a, <3>1, <4>1
    <3>3. CASE i > Len(flat)
      <4>. DEFINE k == i - Len(flat)
      <4>1. k \in 1..Len(line)
        BY <1>5b, <3>1, <3>3
      <4>2. more[i] = line[k]
        BY <1>2, <1>5b, <3>1, <3>3
      <4>3. (nf \o nl)[i] = nl[k]
        BY <1>5b, <1>6, <3>1, <3>3
      <4>. HIDE DEF k
      <4>. QED
        BY <1>5a, <3>1, <4>1, <4>2, <4>3
    <3>4. i <= Len(flat) \/ i > Len(flat)
      BY <1>5b, <3>1
    <3>. QED
      BY <3>2, <3>3, <3>4
  <2>2. Len(nm) = Len(nf \o nl)
    BY <1>2, <1>5a, <1>6
  <2>. QED
    BY <1>5a, <1>6, <2>1, <2>2, SeqEqual
<1>8. Numbers(lines) = NumbersOf(flat) /\ Numbers(Append(lines, line)) = NumbersOf(more)
  BY DEF Numbers, NumbersOf, flat, more
<1>9. Numbers(<<>>) = <<>>
  <2>1. FlattenSeq(<<>>) = <<>> /\ DOMAIN <<>> = {}
    BY DEF FlattenSeq
  <2>2. [i \in {} |-> FlattenSeq(<<>>)[i].n] = <<>>
    OBVIOUS
  <2>. QED
    BY <2>1, <2>2 DEF Numbers
<1>. QED
  BY <1>3, <1>7, <1>8, <1>9 DEF nf, nl, nm

\* A line is what the file has from the position on.
LEMMA LineIs ==
    ASSUME NEW content \in Texts, NEW pos \in Nat, LineAt(content, pos) # <<>>
    PROVE  LET line == LineAt(content, pos) IN
           /\ Len(line) \in Nat \ {0} /\ pos + Len(line) <= Len(content)
           /\ \A i \in 1..Len(line) : line[i] = content[pos + i]
<1>. DEFINE rest == SubSeq(content, pos + 1, Len(content))
            ends == {i \in DOMAIN rest : rest[i].end}
            line == LineAt(content, pos)
<1>1. Len(content) \in Nat /\ \A i \in 1..Len(content) : content[i] \in Characters
  BY DEF Texts
<1>2. /\ rest \in Seq(Characters)
      /\ Len(rest) = IF pos + 1 <= Len(content) THEN Len(content) - (pos + 1) + 1 ELSE 0
      /\ \A i \in 1 .. Len(content) - (pos + 1) + 1 : rest[i] = content[pos + 1 + i - 1]
  <2>1. Len(content) \in Int /\ pos + 1 \in Int /\ \A i \in (pos + 1) .. Len(content) : content[i] \in Characters
    BY <1>1
  <2>. QED
    BY <2>1, SubSeqProperties
<1>3. line = IF ends = {} THEN rest ELSE SubSeq(rest, 1, Min(ends))
  BY DEF LineAt
<1>4. Len(rest) \in Nat /\ DOMAIN rest = 1..Len(rest) /\ (Len(rest) > 0 => Len(rest) = Len(content) - pos)
      /\ \A i \in 1..Len(rest) : rest[i] = content[pos + i]
  <2>. HIDE DEF rest
  <2>1. Len(rest) \in Nat /\ DOMAIN rest = 1..Len(rest)
    BY <1>2
  <2>2. Len(rest) > 0 => Len(rest) = Len(content) - pos
    BY <1>1, <1>2
  <2>3. ASSUME NEW i \in 1..Len(rest)
        PROVE  rest[i] = content[pos + i]
    <3>1. i \in 1 .. Len(content) - (pos + 1) + 1 /\ pos + 1 + i - 1 = pos + i
      BY <1>1, <2>1, <2>2
    <3>. QED
      BY <1>2, <3>1
  <2>. QED
    BY <2>1, <2>2, <2>3
<1>. HIDE DEF rest, line
<1>5. CASE ends = {}
  <2>1. line = rest /\ Len(rest) # 0
    BY <1>2, <1>3, <1>5 DEF line
  <2>. QED
    BY <1>1, <1>4, <2>1 DEF line
<1>6. CASE ends # {}
  <2>1. ends \in SUBSET Nat
    BY <1>4
  <2>2. Min(ends) \in 1..Len(rest)
    <3>1. Min(ends) \in ends
      <4>. HIDE DEF ends
      <4>. QED
        BY <1>6, <2>1, MinOfNumbers
    <3>. QED
      BY <1>4, <3>1
  <2>. DEFINE n == Min(ends)
  <2>. HIDE DEF ends
  <2>3. n \in Int /\ 1 \in Int /\ \A i \in 1..n : rest[i] \in Characters
    BY <1>2, <2>2
  <2>4. Len(SubSeq(rest, 1, n)) = n /\ \A i \in 1..n : SubSeq(rest, 1, n)[i] = rest[i]
    <3>1. /\ Len(SubSeq(rest, 1, n)) = IF 1 <= n THEN n - 1 + 1 ELSE 0
          /\ \A i \in 1 .. n - 1 + 1 : SubSeq(rest, 1, n)[i] = rest[1 + i - 1]
      <4>. HIDE DEF n
      <4>. QED
        BY <2>3, SubSeqProperties
    <3>2. n \in Nat /\ 1 <= n
      BY <1>4, <2>2
    <3>. HIDE DEF n
    <3>3. n - 1 + 1 = n /\ \A i \in 1..n : 1 + i - 1 = i
      BY <3>2
    <3>. QED
      BY <3>1, <3>2, <3>3
  <2>5. line = SubSeq(rest, 1, n)
    BY <1>3, <1>6
  <2>6. n \in Nat \ {0} /\ n <= Len(rest) /\ Len(rest) = Len(content) - pos
    BY <1>4, <2>2
  <2>. HIDE DEF n
  <2>7. Len(line) = n /\ \A i \in 1..n : line[i] = rest[i]
    BY <2>4, <2>5
  <2>8. \A i \in 1..n : rest[i] = content[pos + i]
    BY <1>4, <2>6
  <2>. QED
    BY <1>1, <2>6, <2>7, <2>8 DEF line
<1>. QED
  BY <1>5, <1>6

-----------------------------------------------------------------------------
(* What was read and what is unread                                        *)

\* What is read after a line was taken.
LEMMA MoreIs ==
    ASSUME NEW read \in Seq(Nat), NEW content \in Texts, NEW pos \in Nat, NEW line \in Texts,
           Len(line) \in Nat \ {0}, pos + Len(line) <= Len(content),
           \A i \in 1..Len(line) : line[i] = content[pos + i]
    PROVE  LET more == read \o NumbersOf(line) IN
           /\ more \in Seq(Nat) /\ Len(more) = Len(read) + Len(line)
           /\ \A m \in DOMAIN more :
                \/ m \in DOMAIN read /\ more[m] = read[m]
                \/ \E k \in DOMAIN content :
                     k = pos + m - Len(read) /\ k > pos /\ k <= pos + Len(line) /\ more[m] = content[k].n
<1>. DEFINE nl == NumbersOf(line)
            more == read \o nl
<1>1. nl \in Seq(Nat) /\ Len(nl) = Len(line) /\ \A i \in 1..Len(line) : nl[i] = line[i].n
  BY NumbersOfType
<1>2. Len(read) \in Nat /\ DOMAIN read = 1..Len(read) /\ Len(content) \in Nat /\ DOMAIN content = 1..Len(content)
  BY DEF Texts
<1>. HIDE DEF nl
<1>3. /\ more \in Seq(Nat) /\ Len(more) = Len(read) + Len(nl)
      /\ \A i \in 1 .. Len(read) + Len(nl) : more[i] = IF i <= Len(read) THEN read[i] ELSE nl[i - Len(read)]
  <2>1. nl \in Seq(Nat)
    BY <1>1
  <2>. QED
    BY <2>1, ConcatProperties
<1>4. DOMAIN more = 1 .. Len(read) + Len(line) /\ Len(line) \in Nat
  BY <1>1, <1>3
<1>. HIDE DEF more
<1>5. ASSUME NEW m \in DOMAIN more
      PROVE  \/ m \in DOMAIN read /\ more[m] = read[m]
             \/ \E k \in DOMAIN content :
                  k = pos + m - Len(read) /\ k > pos /\ k <= pos + Len(line) /\ more[m] = content[k].n
  <2>1. m \in 1 .. Len(read) + Len(line) /\ m \in Nat
    BY <1>2, <1>4
  <2>2. CASE m <= Len(read)
    BY <1>1, <1>2, <1>3, <2>1, <2>2
  <2>3. CASE m > Len(read)
    <3>. DEFINE j == m - Len(read)
    <3>1. j \in 1..Len(line)
      BY <1>2, <1>4, <2>1, <2>3
    <3>2. more[m] = nl[j]
      BY <1>1, <1>2, <1>3, <2>1, <2>3
    <3>3. pos + j = pos + m - Len(read) /\ pos + j > pos /\ pos + j <= pos + Len(line) /\ pos + j \in DOMAIN content
      BY <1>2, <1>4, <2>1, <3>1
    <3>. HIDE DEF j
    <3>4. more[m] = content[pos + j].n
      BY <1>1, <3>1, <3>2
    <3>. QED
      BY <3>3, <3>4
  <2>. QED
    BY <1>2, <2>1, <2>2, <2>3
<1>. QED
  BY <1>1, <1>3, <1>5 DEF more, nl

\* A line that is unread is read: what is read rises, and the file is unread after the line.
LEMMA ReadMore ==
    ASSUME NEW read \in Seq(Nat), NEW content \in Texts, NEW pos \in Nat, NEW line \in Texts,
           Len(line) \in Nat \ {0}, pos + Len(line) <= Len(content),
           \A i \in 1..Len(line) : line[i] = content[pos + i],
           Rising(read), Unread(content, pos, read),
           \A i \in DOMAIN content, m \in DOMAIN content : i < m => content[i].n < content[m].n
    PROVE  /\ Rising(read \o NumbersOf(line))
           /\ Unread(content, pos + Len(line), read \o NumbersOf(line))
<1>. DEFINE more == read \o NumbersOf(line)
<1>1. /\ more \in Seq(Nat) /\ Len(more) = Len(read) + Len(line)
      /\ \A m \in DOMAIN more :
           \/ m \in DOMAIN read /\ more[m] = read[m]
           \/ \E k \in DOMAIN content :
                k = pos + m - Len(read) /\ k > pos /\ k <= pos + Len(line) /\ more[m] = content[k].n
  BY SMTT(30), MoreIs
<1>2. /\ Len(read) \in Nat /\ DOMAIN read = 1..Len(read) /\ Len(content) \in Nat /\ DOMAIN content = 1..Len(content)
      /\ Len(line) \in Nat /\ DOMAIN more = 1 .. Len(read) + Len(line)
  BY <1>1 DEF Texts
<1>. HIDE DEF more
<1>3. ASSUME NEW i \in DOMAIN more, NEW m \in DOMAIN more, i < m
      PROVE  more[i] < more[m]
  <2>1. i \in Nat /\ m \in Nat
    BY <1>2
  <2>2. CASE m \in DOMAIN read /\ more[m] = read[m]
    <3>1. i \in DOMAIN read /\ i <= Len(read)
      BY <1>2, <1>3, <2>1, <2>2
    <3>2. more[i] = read[i]
      <4>1. ~\E k \in DOMAIN content : k = pos + i - Len(read) /\ k > pos
        BY <1>2, <2>1, <3>1
      <4>. QED
        BY <1>1, <4>1
    <3>. QED
      BY <1>3, <2>2, <3>1, <3>2 DEF Rising
  <2>3. ASSUME NEW k \in DOMAIN content, k = pos + m - Len(read), k > pos, more[m] = content[k].n
        PROVE  more[i] < more[m]
    <3>1. CASE i \in DOMAIN read /\ more[i] = read[i]
      BY <2>3, <3>1 DEF Unread
    <3>2. ASSUME NEW l \in DOMAIN content, l = pos + i - Len(read), more[i] = content[l].n
          PROVE  more[i] < more[m]
      <4>1. l < k
        BY <1>2, <1>3, <2>1, <2>3, <3>2
      <4>. QED
        BY <2>3, <3>2, <4>1
    <3>. QED
      BY <1>1, <3>1, <3>2
  <2>. QED
    BY <1>1, <2>2, <2>3
<1>4. ASSUME NEW i \in DOMAIN content, i > pos + Len(line), NEW m \in DOMAIN more
      PROVE  more[m] < content[i].n
  <2>1. i \in Nat /\ i > pos
    BY <1>2, <1>4
  <2>2. CASE m \in DOMAIN read /\ more[m] = read[m]
    BY <2>1, <2>2 DEF Unread
  <2>3. ASSUME NEW k \in DOMAIN content, k <= pos + Len(line), more[m] = content[k].n
        PROVE  more[m] < content[i].n
    <3>1. k < i
      BY <1>2, <1>4, <2>1, <2>3
    <3>. QED
      BY <2>3, <3>1
  <2>. QED
    BY <1>1, <2>2, <2>3
<1>. QED
  BY <1>3, <1>4 DEF Rising, Unread, more

\* A character that is written after all that was read leaves a file unread.
LEMMA UnreadAppend ==
    ASSUME NEW content \in Texts, NEW pos \in Nat, NEW read, NEW char \in Characters,
           Unread(content, pos, read), \A m \in DOMAIN read : read[m] < char.n
    PROVE  Unread(Append(content, char), pos, read)
<1>1. /\ content \in Seq(Characters) /\ Len(content) \in Nat /\ DOMAIN content = 1..Len(content)
      /\ DOMAIN Append(content, char) = 1 .. Len(content) + 1
      /\ Append(content, char)[Len(content) + 1] = char
      /\ \A i \in 1..Len(content) : Append(content, char)[i] = content[i]
  BY DEF Texts
<1>2. ASSUME NEW i \in DOMAIN Append(content, char), i > pos, NEW m \in DOMAIN read
      PROVE  read[m] < Append(content, char)[i].n
  <2>1. i \in DOMAIN content \/ i = Len(content) + 1
    BY <1>1
  <2>2. CASE i \in DOMAIN content
    BY <1>1, <1>2, <2>2 DEF Unread
  <2>3. CASE i = Len(content) + 1
    BY <1>1, <2>3
  <2>. QED
    BY <2>1, <2>2, <2>3
<1>. QED
  BY <1>2 DEF Unread

\* The types that are used of the log, of what was read and of the tail.
LEMMA ReadTypes ==
    ASSUME Stored_OK, TailOK, ReadInv
    PROVE  /\ files \in Seq(Texts) /\ Len(files) \in Nat /\ DOMAIN files = 1..Len(files)
           /\ \A j \in DOMAIN files : files[j] \in Texts /\ Len(files[j]) \in Nat /\ DOMAIN files[j] = 1..Len(files[j])
           /\ path \in 0..Len(files) /\ writer \in 1..Len(files) /\ tail \in TailType /\ tail.fd \in 0..Len(files)
           /\ past.chars \in Seq(Nat) /\ tail.batch \in Seq(Texts) /\ Numbers(tail.batch) \in Seq(Nat)
           /\ Numbers(<<>>) = <<>> /\ ReadSoFar \in Seq(Nat) /\ past.written \in Nat
           /\ past = [written |-> past.written, chars |-> past.chars, passed |-> past.passed, decided |-> past.decided,
                      truncated |-> past.truncated, raced |-> past.raced]
<1>1. files \in Seq(Texts) /\ tail \in TailType /\ past.chars \in Seq(Nat)
  BY DEF TailOK, ReadInv
<1>2. \A j \in DOMAIN files : files[j] \in Texts /\ Len(files[j]) \in Nat /\ DOMAIN files[j] = 1..Len(files[j])
  <2>1. \A j \in DOMAIN files : files[j] \in Texts
    BY <1>1
  <2>2. \A content \in Texts : Len(content) \in Nat /\ DOMAIN content = 1..Len(content)
    BY DEF Texts
  <2>. QED
    BY <2>1, <2>2
<1>3. tail.batch \in Seq(Texts) /\ <<>> \in Texts
  BY <1>1 DEF TailType, Texts
<1>4. Numbers(tail.batch) \in Seq(Nat) /\ Numbers(<<>>) = <<>>
  BY <1>3, NumbersAppend
<1>5. ReadSoFar \in Seq(Nat)
  BY <1>1, <1>4, ConcatProperties DEF ReadSoFar
<1>. QED
  BY <1>1, <1>2, <1>3, <1>4, <1>5 DEF Stored_OK, TailOK

-----------------------------------------------------------------------------
(* The steps of the log                                                    *)

\* A step of the log leaves the tail and what was read.
LEMMA LogIsOutside ==
    ASSUME Stored_OK, Log
    PROVE  UNCHANGED <<tail, past.chars, past.raced, ReadSoFar>>
<1>1. UNCHANGED tail
  BY DEF Log, AppendToLog, RenameLog, CreateLog, ReopenLog, TruncateLog
<1>2. \/ past' = past
      \/ past' = [past EXCEPT !.written = @ + 1]
      \/ past' = [past EXCEPT !.truncated = TRUE]
  BY DEF Log, AppendToLog, RenameLog, CreateLog, ReopenLog, TruncateLog
<1>3. past'.chars = past.chars /\ past'.raced = past.raced
  BY <1>2 DEF Stored_OK
<1>. QED
  BY <1>1, <1>3 DEF ReadSoFar

\* The place of the tail, when every file is as unread as it was.
LEMMA PlaceInLog ==
    ASSUME PlaceOK, UNCHANGED <<tail, ReadSoFar>>, DOMAIN files \subseteq DOMAIN files',
           \A j \in DOMAIN files' \ DOMAIN files : Unread(files'[j], 0, ReadSoFar),
           \A j \in DOMAIN files, pos \in Nat : Unread(files[j], pos, ReadSoFar) => Unread(files'[j], pos, ReadSoFar),
           \A j \in DOMAIN files : Len(files'[j]) < Len(files[j]) => Unread(files'[j], 0, ReadSoFar),
           tail.pos \in Nat, \A j \in DOMAIN files : Len(files[j]) \in Nat /\ Len(files'[j]) \in Nat
    PROVE  PlaceOK'
<1>. USE DEF PlaceOK, At
<1>1. tail.inode \in DOMAIN files
  OBVIOUS
<1>2. \A j \in DOMAIN files' : j > tail.inode => Unread(files'[j], 0, ReadSoFar)
  <2>. SUFFICES ASSUME NEW j \in DOMAIN files', j > tail.inode
                PROVE  Unread(files'[j], 0, ReadSoFar)
    OBVIOUS
  <2>1. CASE j \in DOMAIN files
    BY <2>1
  <2>2. CASE j \notin DOMAIN files
    BY <2>2
  <2>. QED
    BY <2>1, <2>2
<1>3. Len(files'[tail.inode]) < tail.pos =>
        Unread(files'[tail.inode], 0, ReadSoFar) \/ Len(files[tail.inode]) < tail.pos
  BY <1>1
<1>. QED
  BY <1>1, <1>2, <1>3

\* The log goes on in order, and what is added to it was not read.
LEMMA ReadInLog ==
    ASSUME Stored_OK, TailOK, ReadInv, Log
    PROVE  ReadInv'
<1>1. /\ files \in Seq(Texts) /\ Len(files) \in Nat /\ DOMAIN files = 1..Len(files)
      /\ \A j \in DOMAIN files : files[j] \in Texts /\ Len(files[j]) \in Nat /\ DOMAIN files[j] = 1..Len(files[j])
      /\ path \in 0..Len(files) /\ writer \in 1..Len(files) /\ tail \in TailType
      /\ ReadSoFar \in Seq(Nat) /\ past.written \in Nat
      /\ past = [written |-> past.written, chars |-> past.chars, passed |-> past.passed, decided |-> past.decided,
                 truncated |-> past.truncated, raced |-> past.raced]
  BY ReadTypes
<1>2. tail' = tail /\ past'.chars = past.chars /\ past'.raced = past.raced /\ ReadSoFar' = ReadSoFar
  BY LogIsOutside
<1>3. tail.pos \in Nat
  BY <1>1 DEF TailType
<1>4. \A m \in DOMAIN ReadSoFar : ReadSoFar[m] < past.written /\ ReadSoFar[m] \in Nat
  BY <1>1 DEF ReadInv
<1>5. ASSUME LogOK', PlaceOK => PlaceOK', past'.written \in {past.written, past.written + 1}
      PROVE  ReadInv'
  <2>1. \A m \in DOMAIN ReadSoFar : ReadSoFar[m] < past'.written
    BY <1>1, <1>4, <1>5
  <2>. QED
    BY <1>2, <1>5, <2>1 DEF ReadInv
<1>6. CASE AppendToLog
  <2>1. PICK end \in BOOLEAN : files' = [files EXCEPT ![writer] = Append(@, Char(past.written, end))]
    BY <1>6 DEF AppendToLog
  <2>. DEFINE char == Char(past.written, end)
              old == files[writer]
  <2>2. path' = path /\ writer' = writer /\ past'.written = past.written + 1
    BY <1>1, <1>6 DEF AppendToLog
  <2>3. char \in Characters /\ char.n = past.written /\ old \in Seq(Characters) /\ old \in Texts
    BY <1>1 DEF Char, Characters, Texts
  <2>4. /\ DOMAIN files' = DOMAIN files /\ Len(files') = Len(files)
        /\ \A j \in DOMAIN files : j # writer => files'[j] = files[j]
        /\ files'[writer] = Append(old, char)
    BY <1>1, <2>1
  <2>. HIDE DEF char
  <2>5. /\ DOMAIN Append(old, char) = 1 .. Len(old) + 1 /\ Append(old, char)[Len(old) + 1] = char
        /\ \A i \in 1..Len(old) : Append(old, char)[i] = old[i]
        /\ Len(Append(old, char)) = Len(old) + 1
    BY <2>3
  <2>. HIDE DEF old
  <2>6. Len(old) \in Nat /\ DOMAIN old = 1..Len(old) /\ writer \in DOMAIN files
    BY <1>1 DEF old
  <2>7. ASSUME NEW j \in DOMAIN files, NEW i \in DOMAIN files'[j]
        PROVE  \/ i \in DOMAIN files[j] /\ files'[j][i] = files[j][i]
               \/ j = writer /\ i = Len(files[j]) + 1 /\ files'[j][i].n = past.written
    <3>1. CASE j # writer
      BY <2>4, <3>1
    <3>2. CASE j = writer
      <4>1. i \in DOMAIN old \/ i = Len(old) + 1
        BY <2>4, <2>5, <2>6, <3>2
      <4>. QED
        BY <2>3, <2>4, <2>5, <2>6, <3>2, <4>1 DEF old
    <3>. QED
      BY <3>1, <3>2
  <2>8. ASSUME NEW j \in DOMAIN files, NEW i \in DOMAIN files[j]
        PROVE  files[j][i].n \in Nat /\ files[j][i].n < past.written
    <3>1. files[j] \in Texts
      BY <1>1
    <3>2. files[j][i] \in Characters
      BY <3>1 DEF Texts
    <3>. QED
      BY <3>2 DEF ReadInv, LogOK, Characters
  <2>9. LogOK'
    <3>1. ASSUME NEW j \in DOMAIN files, NEW k \in DOMAIN files, NEW i \in DOMAIN files'[j], NEW m \in DOMAIN files'[k],
                 j < k \/ (j = k /\ i < m)
          PROVE  files'[j][i].n < files'[k][m].n
      <4>1. CASE j = writer /\ i = Len(files[j]) + 1
        <5>1. CASE j < k
          <6>1. files[k] = <<>>
            BY <4>1, <5>1 DEF ReadInv, LogOK
          <6>2. writer \in Nat /\ k \in Nat /\ writer < k
            BY <1>1, <4>1, <5>1
          <6>3. k # writer
            BY <6>2
          <6>4. files'[k] = <<>>
            BY <2>4, <6>1, <6>3
          <6>. QED
            BY <6>4
        <5>2. CASE j = k /\ i < m
          <6>1. m \in DOMAIN files[j] \/ m = Len(files[j]) + 1
            BY <2>7, <5>2
          <6>2. Len(files[j]) \in Nat /\ DOMAIN files[j] = 1..Len(files[j])
            BY <1>1
          <6>. QED
            BY <4>1, <5>2, <6>1, <6>2
        <5>. QED
          BY <3>1, <5>1, <5>2
      <4>2. CASE i \in DOMAIN files[j] /\ files'[j][i] = files[j][i]
        <5>1. CASE m \in DOMAIN files[k] /\ files'[k][m] = files[k][m]
          BY <3>1, <4>2, <5>1 DEF ReadInv, LogOK
        <5>2. CASE files'[k][m].n = past.written
          BY <2>8, <4>2, <5>2
        <5>. QED
          BY <2>7, <5>1, <5>2
      <4>. QED
        BY <2>7, <4>1, <4>2
    <3>2. ASSUME NEW j \in DOMAIN files, NEW i \in DOMAIN files'[j]
          PROVE  files'[j][i].n < past'.written
      <4>1. CASE i \in DOMAIN files[j] /\ files'[j][i] = files[j][i]
        BY <1>1, <2>2, <2>8, <4>1
      <4>2. CASE files'[j][i].n = past.written
        BY <1>1, <2>2, <4>2
      <4>. QED
        BY <2>7, <4>1, <4>2
    <3>3. \A j \in DOMAIN files : j > writer => files'[j] = <<>>
      BY <1>1, <2>4 DEF ReadInv, LogOK
    <3>4. path \in {0, Len(files)}
      BY DEF ReadInv, LogOK
    <3>. QED
      BY <2>2, <2>4, <3>1, <3>2, <3>3, <3>4 DEF LogOK
  <2>10. PlaceOK => PlaceOK'
    <3>. SUFFICES ASSUME PlaceOK PROVE PlaceOK'
      OBVIOUS
    <3>1. ASSUME NEW j \in DOMAIN files, NEW pos \in Nat, Unread(files[j], pos, ReadSoFar)
          PROVE  Unread(files'[j], pos, ReadSoFar)
      <4>1. CASE j # writer
        BY <2>4, <3>1, <4>1
      <4>2. CASE j = writer
        <5>1. Unread(old, pos, ReadSoFar) /\ \A m \in DOMAIN ReadSoFar : ReadSoFar[m] < char.n
          BY <1>4, <2>3, <3>1, <4>2 DEF old
        <5>2. Unread(Append(old, char), pos, ReadSoFar)
          BY <2>3, <5>1, UnreadAppend
        <5>. QED
          BY <2>4, <4>2, <5>2
      <4>. QED
        BY <4>1, <4>2
    <3>2. \A j \in DOMAIN files : Len(files'[j]) \in Nat /\ Len(files'[j]) >= Len(files[j])
      <4>1. ASSUME NEW j \in DOMAIN files
            PROVE  Len(files'[j]) \in Nat /\ Len(files'[j]) >= Len(files[j])
        <5>1. Len(files[j]) \in Nat
          BY <1>1
        <5>2. CASE j # writer
          BY <2>4, <5>1, <5>2
        <5>3. CASE j = writer
          BY <2>4, <2>5, <2>6, <5>1, <5>3 DEF old
        <5>. QED
          BY <5>2, <5>3
      <4>. QED
        BY <4>1
    <3>3. \A j \in DOMAIN files : Len(files[j]) \in Nat /\ Len(files'[j]) \in Nat /\ ~(Len(files'[j]) < Len(files[j]))
      BY <1>1, <3>2
    <3>. QED
      BY <1>2, <1>3, <2>4, <3>1, <3>3, PlaceInLog
  <2>. QED
    BY <1>5, <2>2, <2>9, <2>10
<1>7. CASE RenameLog \/ ReopenLog
  <2>1. files' = files /\ past'.written = past.written
    BY <1>7 DEF RenameLog, ReopenLog
  <2>2. PlaceOK => PlaceOK'
    BY <1>2, <2>1 DEF PlaceOK, At
  <2>3. path' \in {0, Len(files)} /\ writer' \in {writer, Len(files)}
    BY <1>7 DEF RenameLog, ReopenLog, ReadInv, LogOK
  <2>4. \A j \in DOMAIN files : j > writer' => files[j] = <<>>
    BY <1>1, <2>3 DEF ReadInv, LogOK
  <2>5. LogOK'
    BY <2>1, <2>3, <2>4 DEF ReadInv, LogOK
  <2>. QED
    BY <1>5, <2>1, <2>2, <2>5
<1>8. CASE CreateLog
  <2>1. files' = Append(files, <<>>) /\ path' = Len(files) + 1 /\ writer' = writer /\ past'.written = past.written
    BY <1>8 DEF CreateLog
  <2>2. /\ DOMAIN files' = 1 .. Len(files) + 1 /\ Len(files') = Len(files) + 1
        /\ \A j \in DOMAIN files : files'[j] = files[j]
        /\ files'[Len(files) + 1] = <<>>
    BY <1>1, <2>1
  <2>3. \A j \in DOMAIN files' : j \in DOMAIN files \/ files'[j] = <<>>
    BY <1>1, <2>2
  <2>4. DOMAIN <<>> = {} /\ Len(<<>>) = 0 /\ Unread(<<>>, 0, ReadSoFar)
    BY DEF Unread
  <2>5. LogOK'
    <3>1. ASSUME NEW j \in DOMAIN files', NEW k \in DOMAIN files', NEW i \in DOMAIN files'[j], NEW m \in DOMAIN files'[k],
                 j < k \/ (j = k /\ i < m)
          PROVE  files'[j][i].n < files'[k][m].n
      <4>1. j \in DOMAIN files /\ k \in DOMAIN files
        BY <2>3, <2>4
      <4>. QED
        BY <2>2, <3>1, <4>1 DEF ReadInv, LogOK
    <3>2. \A j \in DOMAIN files' : \A i \in DOMAIN files'[j] : files'[j][i].n < past.written
      BY <2>2, <2>3, <2>4 DEF ReadInv, LogOK
    <3>3. \A j \in DOMAIN files' : j > writer => files'[j] = <<>>
      BY <2>2, <2>3 DEF ReadInv, LogOK
    <3>. QED
      BY <2>1, <2>2, <3>1, <3>2, <3>3 DEF LogOK
  <2>6. PlaceOK => PlaceOK'
    <3>1. DOMAIN files \subseteq DOMAIN files' /\ \A j \in DOMAIN files' \ DOMAIN files : Unread(files'[j], 0, ReadSoFar)
      BY <1>1, <2>2, <2>3, <2>4
    <3>2. \A j \in DOMAIN files : Len(files[j]) \in Nat /\ Len(files'[j]) \in Nat /\ ~(Len(files'[j]) < Len(files[j]))
      BY <1>1, <2>2
    <3>3. \A j \in DOMAIN files, pos \in Nat : Unread(files[j], pos, ReadSoFar) => Unread(files'[j], pos, ReadSoFar)
      BY <2>2
    <3>. QED
      BY <1>2, <1>3, <3>1, <3>2, <3>3, PlaceInLog
  <2>. QED
    BY <1>5, <2>1, <2>5, <2>6
<1>9. CASE TruncateLog
  <2>1. files' = [files EXCEPT ![path] = <<>>] /\ path' = path /\ writer' = writer /\ past'.written = past.written /\ path # 0
    BY <1>1, <1>9 DEF TruncateLog
  <2>2. /\ DOMAIN files' = DOMAIN files /\ Len(files') = Len(files)
        /\ \A j \in DOMAIN files : files'[j] = files[j] \/ files'[j] = <<>>
    BY <1>1, <2>1
  <2>3. DOMAIN <<>> = {} /\ Len(<<>>) = 0 /\ \A pos \in Nat : Unread(<<>>, pos, ReadSoFar)
    BY DEF Unread
  <2>4. LogOK'
    <3>1. ASSUME NEW j \in DOMAIN files', NEW k \in DOMAIN files', NEW i \in DOMAIN files'[j], NEW m \in DOMAIN files'[k],
                 j < k \/ (j = k /\ i < m)
          PROVE  files'[j][i].n < files'[k][m].n
      <4>1. files'[j] = files[j] /\ files'[k] = files[k]
        BY <2>2, <2>3
      <4>. QED
        BY <2>2, <3>1, <4>1 DEF ReadInv, LogOK
    <3>2. \A j \in DOMAIN files' : \A i \in DOMAIN files'[j] : files'[j][i].n < past.written
      BY <2>2, <2>3 DEF ReadInv, LogOK
    <3>3. \A j \in DOMAIN files' : j > writer => files'[j] = <<>>
      BY <2>2 DEF ReadInv, LogOK
    <3>4. path \in {0, Len(files)}
      BY DEF ReadInv, LogOK
    <3>5. path' \in {0, Len(files')}
      BY <2>1, <2>2, <3>4
    <3>6. \A j \in DOMAIN files' : \A k \in DOMAIN files' :
             \A i \in DOMAIN files'[j] : \A m \in DOMAIN files'[k] :
               j < k \/ (j = k /\ i < m) => files'[j][i].n < files'[k][m].n
      BY <3>1
    <3>7. writer' = writer /\ past'.written = past.written
      BY <2>1
    <3>. QED
      BY <3>2, <3>3, <3>5, <3>6, <3>7 DEF LogOK
  <2>5. PlaceOK => PlaceOK'
    <3>1. \A j \in DOMAIN files, pos \in Nat : Unread(files[j], pos, ReadSoFar) => Unread(files'[j], pos, ReadSoFar)
      BY <2>2, <2>3
    <3>2. \A j \in DOMAIN files : Len(files[j]) \in Nat /\ Len(files'[j]) \in Nat
      BY <1>1, <2>2, <2>3
    <3>3. ASSUME NEW j \in DOMAIN files, Len(files'[j]) < Len(files[j])
          PROVE  Unread(files'[j], 0, ReadSoFar)
      <4>1. files'[j] = <<>>
        BY <1>1, <2>2, <3>3
      <4>. QED
        BY <2>3, <4>1
    <3>. QED
      BY <1>2, <1>3, <2>2, <3>1, <3>2, <3>3, PlaceInLog
  <2>. QED
    BY <1>5, <2>1, <2>4, <2>5
<1>. QED
  BY <1>6, <1>7, <1>8, <1>9 DEF Log

-----------------------------------------------------------------------------
(* The steps of the tail and of the others                                 *)

\* A step that leaves the log, what was read and the place of the tail.
LEMMA ReadStays ==
    ASSUME ReadInv, UNCHANGED <<files, path, writer, past.written, past.raced, ReadSoFar>>, past'.chars \in Seq(Nat),
           PlaceOK => PlaceOK'
    PROVE  ReadInv'
<1>1. LogOK'
  BY DEF ReadInv, LogOK
<1>. QED
  BY <1>1 DEF ReadInv

\* The tail goes on elsewhere than to the file.
LEMMA PlaceStays ==
    ASSUME PlaceOK, UNCHANGED <<files, ReadSoFar, tail.fd, tail.inode, tail.pos, tail.readPos>>,
           tail.pc \notin {"open", "down"}, tail'.pc \notin {"open", "down", "look"}
    PROVE  PlaceOK'
BY DEF PlaceOK, At

\* A batch that is submitted was read before.
LEMMA SubmittedBatch ==
    ASSUME Stored_OK, TailOK, ReadInv, SubmitLines(tail.batch), tail'.batch = <<>>
    PROVE  /\ ReadSoFar' = ReadSoFar /\ past'.chars \in Seq(Nat)
           /\ past'.written = past.written /\ past'.raced = past.raced
<1>1. /\ past.chars \in Seq(Nat) /\ Numbers(tail.batch) \in Seq(Nat) /\ Numbers(<<>>) = <<>> /\ ReadSoFar \in Seq(Nat)
      /\ past = [written |-> past.written, chars |-> past.chars, passed |-> past.passed, decided |-> past.decided,
                 truncated |-> past.truncated, raced |-> past.raced]
  BY ReadTypes
<1>2. past' = [past EXCEPT !.chars = @ \o Numbers(tail.batch), !.decided = @ \union ToSet(tail.batch)]
  BY DEF SubmitLines
<1>3. past'.chars = ReadSoFar /\ past'.written = past.written /\ past'.raced = past.raced
  BY <1>1, <1>2 DEF ReadSoFar
<1>4. ReadSoFar' = ReadSoFar \o <<>>
  BY <1>1, <1>3 DEF ReadSoFar
<1>5. ReadSoFar \o <<>> = ReadSoFar
  BY <1>1, ConcatEmptySeq
<1>. QED
  BY <1>1, <1>3, <1>4, <1>5

\* A line is taken.
LEMMA ReadInGetLine ==
    ASSUME Stored_OK, TailOK, ReadInv, UNCHANGED <<files, path, writer>>, GetLine
    PROVE  ReadInv'
<1>1. /\ files \in Seq(Texts) /\ Len(files) \in Nat /\ DOMAIN files = 1..Len(files)
      /\ \A j \in DOMAIN files : files[j] \in Texts /\ Len(files[j]) \in Nat /\ DOMAIN files[j] = 1..Len(files[j])
      /\ tail \in TailType /\ tail.fd \in 0..Len(files)
      /\ past.chars \in Seq(Nat) /\ tail.batch \in Seq(Texts) /\ Numbers(tail.batch) \in Seq(Nat)
      /\ Numbers(<<>>) = <<>> /\ ReadSoFar \in Seq(Nat) /\ past.written \in Nat
      /\ past = [written |-> past.written, chars |-> past.chars, passed |-> past.passed, decided |-> past.decided,
                 truncated |-> past.truncated, raced |-> past.raced]
  BY ReadTypes
<1>2. tail.pos \in Nat /\ tail.pc = "read" /\ Line # <<>>
  BY <1>1 DEF TailType, GetLine, At
<1>3. tail.fd \in DOMAIN files /\ Line = LineAt(files[tail.fd], tail.pos)
  BY <1>1, <1>2 DEF Line
<1>. DEFINE content == files[tail.fd]
<1>4. content \in Texts /\ Len(content) \in Nat /\ DOMAIN content = 1..Len(content)
  BY <1>1, <1>3
<1>5. /\ Line \in Texts /\ Len(Line) \in Nat \ {0} /\ tail.pos + Len(Line) <= Len(content)
      /\ \A i \in 1..Len(Line) : Line[i] = content[tail.pos + i]
  BY <1>2, <1>3, <1>4, LineType, LineIs
<1>. DEFINE more == ReadSoFar \o NumbersOf(Line)
<1>6. /\ tail'.fd = tail.fd /\ tail'.inode = tail.inode /\ tail'.pos = tail.pos + Len(Line)
      /\ \/ tail'.pc = "read"
         \/ tail'.pc = "look" /\ tail'.readPos = tail'.pos
  BY <1>1, <1>2 DEF GetLine, TailType
<1>7. /\ ReadSoFar' = more /\ past'.chars \in Seq(Nat)
      /\ past'.written = past.written /\ past'.raced = past.raced
  <2>. DEFINE lines == Append(tail.batch, Line)
  <2>1. Numbers(lines) = Numbers(tail.batch) \o NumbersOf(Line) /\ lines \in Seq(Texts)
    BY SMTT(30), <1>1, <1>5, NumbersAppend
  <2>2. NumbersOf(Line) \in Seq(Nat)
    BY <1>5, NumbersOfType
  <2>3. Numbers(lines) \in Seq(Nat)
    BY <1>1, <2>1, <2>2, ConcatProperties
  <2>4. past.chars \o Numbers(lines) = more
    <3>. DEFINE a == past.chars
                b == Numbers(tail.batch)
                c == NumbersOf(Line)
    <3>1. a \in Seq(Nat) /\ b \in Seq(Nat) /\ c \in Seq(Nat)
      BY <1>1, <2>2
    <3>2. (a \o b) \o c = a \o (b \o c)
      <4>. HIDE DEF a, b, c
      <4>. QED
        BY <3>1, ConcatAssociative
    <3>. QED
      BY <2>1, <3>2 DEF ReadSoFar
  <2>. HIDE DEF lines
  <2>5. past.chars \o Numbers(lines) \in Seq(Nat) /\ past.chars \o <<>> = past.chars
        /\ (past.chars \o Numbers(lines)) \o <<>> = past.chars \o Numbers(lines)
    <3>1. past.chars \o Numbers(lines) \in Seq(Nat)
      BY <1>1, <2>3, ConcatProperties
    <3>. QED
      BY <1>1, <3>1, ConcatEmptySeq
  <2>6. CASE Len(lines) >= BatchSize
    <3>1. tail'.batch = <<>> /\ SubmitLines(lines)
      BY <1>1, <2>6 DEF GetLine, TailType, lines
    <3>2. past'.chars = past.chars \o Numbers(lines) /\ past'.written = past.written /\ past'.raced = past.raced
      BY <1>1, <3>1 DEF SubmitLines
    <3>3. ReadSoFar' = (past.chars \o Numbers(lines)) \o <<>>
      BY <1>1, <3>1, <3>2 DEF ReadSoFar
    <3>. QED
      BY <2>4, <2>5, <3>2, <3>3
  <2>7. CASE ~(Len(lines) >= BatchSize)
    <3>1. tail'.batch = lines /\ SubmitLines(<<>>)
      BY <1>1, <2>7 DEF GetLine, TailType, lines
    <3>2. past'.chars = past.chars \o <<>> /\ past'.written = past.written /\ past'.raced = past.raced
      BY <1>1, <3>1 DEF SubmitLines
    <3>3. ReadSoFar' = past.chars \o Numbers(lines)
      BY <2>5, <3>1, <3>2 DEF ReadSoFar
    <3>. QED
      BY <1>1, <2>4, <2>5, <3>2, <3>3
  <2>. QED
    BY <2>6, <2>7
<1>8. /\ more \in Seq(Nat) /\ Len(more) = Len(ReadSoFar) + Len(Line)
      /\ \A m \in DOMAIN more :
           \/ m \in DOMAIN ReadSoFar /\ more[m] = ReadSoFar[m]
           \/ \E k \in DOMAIN content : more[m] = content[k].n
  <2>. DEFINE read == ReadSoFar
              line == Line
              pos == tail.pos
  <2>1. /\ read \in Seq(Nat) /\ content \in Texts /\ pos \in Nat /\ line \in Texts
        /\ Len(line) \in Nat \ {0} /\ pos + Len(line) <= Len(content)
        /\ \A i \in 1..Len(line) : line[i] = content[pos + i]
    BY <1>1, <1>2, <1>4, <1>5
  <2>2. LET longer == read \o NumbersOf(line) IN
        /\ longer \in Seq(Nat) /\ Len(longer) = Len(read) + Len(line)
        /\ \A m \in DOMAIN longer :
             \/ m \in DOMAIN read /\ longer[m] = read[m]
             \/ \E k \in DOMAIN content :
                  k = pos + m - Len(read) /\ k > pos /\ k <= pos + Len(line) /\ longer[m] = content[k].n
    <3>. HIDE DEF content, read, line, pos
    <3>. QED
      BY SMTT(30), <2>1, MoreIs
  <2>. HIDE DEF content
  <2>. QED
    BY <2>2
<1>. HIDE DEF more
<1>9. \A m \in DOMAIN more : more[m] < past.written
  <2>1. \A k \in DOMAIN content : content[k].n < past.written
    BY <1>3 DEF ReadInv, LogOK
  <2>. QED
    BY <1>8, <2>1 DEF ReadInv
<1>10. LogOK'
  BY <1>7 DEF ReadInv, LogOK
<1>11. ASSUME ~past.raced
       PROVE  PlaceOK' /\ Rising(more)
  <2>1. PlaceOK /\ Rising(ReadSoFar)
    BY <1>11 DEF ReadInv
  <2>2. /\ tail.fd = tail.inode /\ Unread(content, tail.pos, ReadSoFar) /\ tail.inode \in DOMAIN files
        /\ \A j \in DOMAIN files : j > tail.inode => Unread(files[j], 0, ReadSoFar)
    BY <1>1, <1>2, <1>3, <2>1 DEF PlaceOK
  <2>3. \A i \in DOMAIN content, m \in DOMAIN content : i < m => content[i].n < content[m].n
    BY <1>3 DEF ReadInv, LogOK
  <2>4. Rising(more) /\ Unread(content, tail.pos + Len(Line), more)
    <3>. HIDE DEF content
    <3>. QED
      BY <1>1, <1>2, <1>4, <1>5, <2>1, <2>2, <2>3, ReadMore DEF more
  <2>5. ASSUME NEW j \in DOMAIN files, j > tail.inode
        PROVE  Unread(files[j], 0, more)
    <3>1. Unread(files[j], 0, ReadSoFar)
      BY <2>2, <2>5
    <3>2. \A k \in DOMAIN content, i \in DOMAIN files[j] : content[k].n < files[j][i].n
      BY <1>3, <2>2, <2>5 DEF ReadInv, LogOK
    <3>. QED
      BY <1>8, <3>1, <3>2 DEF Unread
  <2>6. ~(Len(content) < tail.pos + Len(Line))
    BY <1>2, <1>4, <1>5
  <2>7. PlaceOK'
    BY <1>6, <1>7, <2>2, <2>4, <2>5, <2>6 DEF PlaceOK, At
  <2>. QED
    BY <2>4, <2>7
<1>. QED
  BY <1>7, <1>9, <1>10, <1>11 DEF ReadInv

\* The path is looked at.
LEMMA ReadInLook ==
    ASSUME Stored_OK, TailOK, ReadInv, UNCHANGED <<files, path, writer>>, LookAtPath
    PROVE  ReadInv'
<1>1. /\ Len(files) \in Nat /\ DOMAIN files = 1..Len(files) /\ tail \in TailType
      /\ \A j \in DOMAIN files : Len(files[j]) \in Nat
      /\ path \in 0..Len(files) /\ past.chars \in Seq(Nat)
  BY ReadTypes
<1>2. tail.pc = "look"
  BY DEF LookAtPath, At
<1>3. CASE ~tail.got /\ Changed
  <2>1. /\ tail' = [tail EXCEPT !.pc = "open", !.batch = <<>>, !.inode = path]
        /\ SubmitLines(tail.batch)
    BY <1>3 DEF LookAtPath
  <2>2. tail'.pc = "open" /\ tail'.batch = <<>> /\ tail'.inode = path
    BY <1>1, <2>1 DEF TailType
  <2>3. /\ ReadSoFar' = ReadSoFar /\ past'.chars \in Seq(Nat)
        /\ past'.written = past.written /\ past'.raced = past.raced
    BY <2>1, <2>2, SubmittedBatch
  <2>4. path = Len(files) /\ path \in DOMAIN files
    <3>1. path # 0
      BY <1>3 DEF Changed
    <3>2. path \in {0, Len(files)}
      BY DEF ReadInv, LogOK
    <3>3. path = Len(files)
      BY <3>1, <3>2
    <3>4. Len(files) \in Nat /\ path \in 0..Len(files) /\ DOMAIN files = 1..Len(files)
      BY <1>1
    <3>5. path \in 1..Len(files)
      BY <3>1, <3>4
    <3>. QED
      BY <3>3, <3>4, <3>5
  <2>5. PlaceOK => PlaceOK'
    <3>. SUFFICES ASSUME PlaceOK PROVE PlaceOK'
      OBVIOUS
    <3>1. Unread(files[path], 0, ReadSoFar)
      <4>1. CASE path # tail.inode
        <5>1. path > tail.inode
          BY <1>1, <2>4, <4>1 DEF PlaceOK
        <5>. QED
          BY <2>4, <5>1 DEF PlaceOK
      <4>2. CASE path = tail.inode /\ Len(files[path]) < tail.readPos
        <5>1. Len(files[path]) \in Nat
          BY <1>1, <2>4
        <5>2. tail.readPos # 0
          BY <4>2, <5>1
        <5>3. Len(files[tail.inode]) < tail.pos
          BY <1>2, <4>2, <5>2 DEF PlaceOK, At
        <5>. QED
          BY <1>2, <4>2, <5>2, <5>3 DEF PlaceOK
      <4>. QED
        BY <1>3, <4>1, <4>2 DEF Changed
    <3>2. \A j \in DOMAIN files : ~(j > path)
      BY <1>1, <2>4
    <3>. QED
      BY <2>2, <2>3, <2>4, <3>1, <3>2 DEF PlaceOK, At
  <2>. QED
    BY <2>3, <2>5, ReadStays
<1>4. CASE ~(~tail.got /\ Changed)
  <2>1. tail' = [tail EXCEPT !.pc = "timer"] /\ past' = past
    BY <1>4 DEF LookAtPath
  <2>2. /\ tail'.pc = "timer" /\ tail'.batch = tail.batch /\ tail'.fd = tail.fd /\ tail'.inode = tail.inode
        /\ tail'.pos = tail.pos /\ tail'.readPos = tail.readPos
    BY <1>1, <2>1 DEF TailType
  <2>3. ReadSoFar' = ReadSoFar
    BY <2>1, <2>2 DEF ReadSoFar
  <2>4. PlaceOK => PlaceOK'
    BY <1>2, <2>2, <2>3, PlaceStays
  <2>. QED
    BY <1>1, <2>1, <2>3, <2>4, ReadStays
<1>. QED
  BY <1>3, <1>4

\* The log is opened again.
LEMMA ReadInReopen ==
    ASSUME Stored_OK, TailOK, ReadInv, UNCHANGED <<files, path, writer>>, Reopen
    PROVE  ReadInv'
<1>1. /\ Len(files) \in Nat /\ tail \in TailType
      /\ \A j \in DOMAIN files : Len(files[j]) \in Nat /\ past.chars \in Seq(Nat)
      /\ past = [written |-> past.written, chars |-> past.chars, passed |-> past.passed, decided |-> past.decided,
                 truncated |-> past.truncated, raced |-> past.raced]
  BY ReadTypes
<1>2. /\ tail.pc = "open" /\ tail' = [tail EXCEPT !.pc = "top", !.fd = path, !.pos = 0, !.readPos = 0]
      /\ past' = [past EXCEPT !.raced = @ \/ path \notin {0, tail.inode}, !.truncated = FALSE]
  BY DEF Reopen, At
<1>3. /\ tail'.pc = "top" /\ tail'.fd = path /\ tail'.pos = 0 /\ tail'.readPos = 0
      /\ tail'.inode = tail.inode /\ tail'.batch = tail.batch
  BY <1>1, <1>2 DEF TailType
<1>4. past'.chars = past.chars /\ past'.written = past.written /\ past'.raced = (past.raced \/ path \notin {0, tail.inode})
  BY <1>1, <1>2
<1>5. ReadSoFar' = ReadSoFar
  BY <1>3, <1>4 DEF ReadSoFar
<1>6. ASSUME PlaceOK, path \in {0, tail.inode}
      PROVE  PlaceOK'
  <2>1. Unread(files[tail.inode], 0, ReadSoFar) /\ tail.inode \in DOMAIN files
    BY <1>2, <1>6 DEF PlaceOK, At
  <2>2. ~(Len(files[tail.inode]) < 0)
    BY <1>1, <2>1
  <2>. QED
    BY <1>3, <1>5, <1>6, <2>1, <2>2 DEF PlaceOK, At
<1>7. LogOK'
  BY <1>4 DEF ReadInv, LogOK
<1>. QED
  BY <1>4, <1>5, <1>6, <1>7 DEF ReadInv

\* The steps of the thread of the tail.
LEMMA ReadInTail ==
    ASSUME Stored_OK, TailOK, ReadInv, RunFileTail
    PROVE  ReadInv'
<1>1. UNCHANGED <<files, path, writer>>
  BY DEF RunFileTail
<1>2. tail \in TailType /\ past.chars \in Seq(Nat)
  BY ReadTypes
<1>3. CASE GetLine
  BY <1>1, <1>3, ReadInGetLine
<1>4. CASE LookAtPath
  BY <1>1, <1>4, ReadInLook
<1>5. CASE Reopen
  BY <1>1, <1>5, ReadInReopen
<1>6. CASE EndOfFile
  <2>1. /\ tail.pc = "read" /\ past' = past
        /\ tail' = [tail EXCEPT !.pc = "look", !.readPos = IF tail.fd = 0 THEN @ ELSE tail.pos]
    BY <1>6 DEF EndOfFile, At
  <2>2. /\ tail'.pc = "look" /\ tail'.readPos = (IF tail.fd = 0 THEN tail.readPos ELSE tail.pos)
        /\ tail'.batch = tail.batch /\ tail'.fd = tail.fd /\ tail'.inode = tail.inode /\ tail'.pos = tail.pos
    BY <1>2, <2>1 DEF TailType
  <2>3. ReadSoFar' = ReadSoFar
    BY <2>1, <2>2 DEF ReadSoFar
  <2>4. PlaceOK => PlaceOK'
    BY <1>1, <2>1, <2>2, <2>3 DEF PlaceOK, At
  <2>. QED
    BY <1>1, <1>2, <2>1, <2>3, <2>4, ReadStays
<1>7. CASE Top \/ Wait \/ Joined \/ Close
  <2>1. /\ tail.pc \notin {"open", "down"} /\ past' = past
        /\ tail'.pc \in {"top", "read", "leave", "close", "upload"}
        /\ tail'.batch = tail.batch /\ tail'.fd = tail.fd /\ tail'.inode = tail.inode /\ tail'.pos = tail.pos
        /\ tail'.readPos = tail.readPos
    BY <1>2, <1>7 DEF Top, Wait, Joined, Close, At, TailType
  <2>2. ReadSoFar' = ReadSoFar
    BY <2>1 DEF ReadSoFar
  <2>3. PlaceOK => PlaceOK'
    BY <1>1, <2>1, <2>2, PlaceStays
  <2>. QED
    BY <1>1, <1>2, <2>1, <2>2, <2>3, ReadStays
<1>8. CASE FlushBatch \/ Leave
  <2>1. /\ tail.pc \notin {"open", "down"} /\ SubmitLines(tail.batch)
        /\ tail'.pc \in {"top", "join"} /\ tail'.batch = <<>>
        /\ tail'.fd = tail.fd /\ tail'.inode = tail.inode /\ tail'.pos = tail.pos /\ tail'.readPos = tail.readPos
    BY <1>2, <1>8 DEF FlushBatch, Leave, At, TailType
  <2>2. /\ ReadSoFar' = ReadSoFar /\ past'.chars \in Seq(Nat)
        /\ past'.written = past.written /\ past'.raced = past.raced
    BY <2>1, SubmittedBatch
  <2>3. PlaceOK => PlaceOK'
    BY <1>1, <2>1, <2>2, PlaceStays
  <2>. QED
    BY <1>1, <2>2, <2>3, ReadStays
<1>. QED
  BY <1>3, <1>4, <1>5, <1>6, <1>7, <1>8 DEF RunFileTail

\* The process is killed and loses its batch; a new one begins at the end of the log.
LEMMA ReadInRuns ==
    ASSUME Stored_OK, TailOK, ReadInv, Crash \/ Restart
    PROVE  ReadInv'
<1>1. /\ files \in Seq(Texts) /\ Len(files) \in Nat /\ DOMAIN files = 1..Len(files)
      /\ \A j \in DOMAIN files : files[j] \in Texts /\ Len(files[j]) \in Nat /\ DOMAIN files[j] = 1..Len(files[j])
      /\ tail \in TailType /\ path \in 0..Len(files)
      /\ past.chars \in Seq(Nat) /\ Numbers(tail.batch) \in Seq(Nat) /\ Numbers(<<>>) = <<>>
      /\ past = [written |-> past.written, chars |-> past.chars, passed |-> past.passed, decided |-> past.decided,
                 truncated |-> past.truncated, raced |-> past.raced]
  BY ReadTypes
<1>2. past'.chars = past.chars /\ past'.written = past.written /\ past'.raced = past.raced
  <2>1. CASE Crash
    <3>1. past' = [past EXCEPT !.decided = @ \ ToSet(out.buffer)]
      BY <2>1 DEF Crash
    <3>. QED
      BY <1>1, <3>1
  <2>2. CASE Restart
    <3>. DEFINE now == {files[path][i].n : i \in DOMAIN files[path]}
    <3>1. past' = [past EXCEPT !.passed = @ \union now, !.truncated = FALSE]
      BY <2>2 DEF Restart
    <3>. HIDE DEF now
    <3>. QED
      BY <1>1, <3>1
  <2>. QED
    BY <2>1, <2>2
<1>3. ReadSoFar' = past.chars
  <2>1. tail'.batch = <<>>
    <3>1. CASE tail' = [tail EXCEPT !.pc = "down", !.batch = <<>>]
      BY <1>1, <3>1 DEF TailType
    <3>2. CASE tail' = OpenAtEnd(path)
      BY <3>2 DEF OpenAtEnd
    <3>. QED
      BY <3>1, <3>2 DEF Crash, Restart
  <2>2. ReadSoFar' = past.chars \o <<>>
    BY <1>1, <1>2, <2>1 DEF ReadSoFar
  <2>. QED
    BY <1>1, <2>2, ConcatEmptySeq
<1>4. \A m \in DOMAIN past.chars : m \in DOMAIN ReadSoFar /\ ReadSoFar[m] = past.chars[m]
  <2>. DEFINE a == past.chars
              b == Numbers(tail.batch)
  <2>1. a \in Seq(Nat) /\ b \in Seq(Nat)
    BY <1>1
  <2>2. \A m \in DOMAIN a : m \in DOMAIN (a \o b) /\ (a \o b)[m] = a[m]
    <3>. HIDE DEF a, b
    <3>1. /\ a \o b \in Seq(Nat) /\ Len(a \o b) = Len(a) + Len(b)
          /\ \A i \in 1 .. Len(a) + Len(b) : (a \o b)[i] = IF i <= Len(a) THEN a[i] ELSE b[i - Len(a)]
      BY <2>1, ConcatProperties
    <3>2. Len(a) \in Nat /\ Len(b) \in Nat /\ DOMAIN a = 1..Len(a) /\ DOMAIN (a \o b) = 1 .. Len(a) + Len(b)
      BY <2>1, <3>1
    <3>. QED
      BY <3>1, <3>2
  <2>. QED
    BY <2>2 DEF ReadSoFar
<1>5. UNCHANGED <<files, path, writer>>
  BY DEF Crash, Restart
<1>6. LogOK' /\ \A m \in DOMAIN past.chars : past.chars[m] < past.written
  BY <1>2, <1>4, <1>5 DEF ReadInv, LogOK
<1>7. ASSUME ~past.raced
      PROVE  PlaceOK' /\ Rising(past.chars)
  <2>1. PlaceOK /\ Rising(ReadSoFar)
    BY <1>7 DEF ReadInv
  <2>2. Rising(past.chars)
    BY <1>4, <2>1 DEF Rising
  <2>3. CASE Crash
    <3>1. tail'.pc = "down" /\ tail'.inode = tail.inode
      BY <1>1, <2>3 DEF Crash, TailType
    <3>2. \A j \in DOMAIN files : j > tail.inode => Unread(files[j], 0, past.chars)
      BY <1>4, <2>1 DEF PlaceOK, Unread
    <3>3. PlaceOK'
      BY <1>3, <1>5, <2>1, <3>1, <3>2 DEF PlaceOK, At
    <3>. QED
      BY <2>2, <3>3
  <2>4. CASE Restart
    <3>1. path # 0 /\ tail' = OpenAtEnd(path)
      BY <2>4 DEF Restart
    <3>2. tail'.pc = "top" /\ tail'.fd = path /\ tail'.inode = path /\ tail'.pos = Len(files[path])
      BY <3>1 DEF OpenAtEnd
    <3>3. path = Len(files)
      BY <3>1 DEF ReadInv, LogOK
    <3>4. path \in DOMAIN files /\ \A j \in DOMAIN files : ~(j > path)
      BY <1>1, <3>1, <3>3
    <3>5. Len(files[path]) \in Nat /\ DOMAIN files[path] = 1..Len(files[path])
      BY <1>1, <3>4
    <3>6. Unread(files[path], Len(files[path]), past.chars) /\ ~(Len(files[path]) < Len(files[path]))
      BY <3>5 DEF Unread
    <3>7. PlaceOK'
      BY <1>3, <1>5, <3>2, <3>4, <3>6 DEF PlaceOK, At
    <3>. QED
      BY <2>2, <3>7
  <2>. QED
    BY <2>3, <2>4
<1>. QED
  BY <1>1, <1>2, <1>3, <1>6, <1>7 DEF ReadInv

\* At first nothing was read.
LEMMA ReadInit == Init => ReadInv
<1>. SUFFICES ASSUME Init PROVE ReadInv
  OBVIOUS
<1>1. files = <<<<>>>> /\ path = 1 /\ writer = 1 /\ tail = OpenAtEnd(1) /\ past.chars = <<>>
  BY DEF Init
<1>2. Len(files) = 1 /\ DOMAIN files = {1} /\ files[1] = <<>> /\ DOMAIN <<>> = {} /\ Len(<<>>) = 0
  BY <1>1
<1>3. tail.pc = "top" /\ tail.fd = 1 /\ tail.inode = 1 /\ tail.pos = 0 /\ tail.batch = <<>>
  BY <1>1, <1>2 DEF OpenAtEnd
<1>4. Numbers(<<>>) = <<>>
  <2>1. <<>> \in Seq(Texts) /\ <<>> \in Texts
    BY DEF Texts
  <2>. QED
    BY <2>1, NumbersAppend
<1>5. <<>> \in Seq(Nat) /\ <<>> \o <<>> = <<>>
  OBVIOUS
<1>6. ReadSoFar = <<>>
  BY <1>1, <1>3, <1>4, <1>5 DEF ReadSoFar
<1>7. LogOK
  BY <1>1, <1>2 DEF LogOK
<1>8. PlaceOK
  BY <1>2, <1>3 DEF PlaceOK, At, Unread
<1>9. Rising(ReadSoFar)
  BY <1>2, <1>6 DEF Rising
<1>. QED
  BY <1>1, <1>2, <1>5, <1>6, <1>7, <1>8, <1>9 DEF ReadInv

\* Every step keeps the invariant.
LEMMA ReadStep == FilesInv /\ ReadInv /\ [Next]_vars => ReadInv'
<1>. SUFFICES ASSUME Stored_OK, TailOK, ReadInv, [Next]_vars
              PROVE  ReadInv'
  BY SplitInv
<1>1. tail \in TailType /\ past.chars \in Seq(Nat)
  BY ReadTypes
<1>2. ASSUME UNCHANGED <<files, path, writer, tail, past>>
      PROVE  ReadInv'
  <2>1. ReadSoFar' = ReadSoFar
    BY <1>2 DEF ReadSoFar
  <2>2. PlaceOK => PlaceOK'
    BY <1>2, <2>1 DEF PlaceOK, At
  <2>. QED
    BY <1>1, <1>2, <2>1, <2>2, ReadStays
<1>3. CASE Log
  BY <1>3, ReadInLog
<1>4. CASE RunFileTail
  BY <1>4, ReadInTail
<1>5. CASE LastUpload \/ LastUploadFails
  <2>1. /\ tail.pc = "upload" /\ UNCHANGED <<files, path, writer, past>>
        /\ tail'.pc \in {"upload", "exited", "gave up"}
        /\ tail'.batch = tail.batch /\ tail'.fd = tail.fd /\ tail'.inode = tail.inode /\ tail'.pos = tail.pos
        /\ tail'.readPos = tail.readPos
    BY ZenonT(30), <1>1, <1>5 DEF LastUpload, LastUploadFails, At, TailType
  <2>2. ReadSoFar' = ReadSoFar
    BY <2>1 DEF ReadSoFar
  <2>3. PlaceOK => PlaceOK'
    BY <2>1, <2>2, PlaceStays
  <2>. QED
    BY <1>1, <2>1, <2>2, <2>3, ReadStays
<1>6. CASE Sync
  BY <1>2, <1>6 DEF Sync, SyncBegins, SyncCopies, SyncFails, SyncRemoves, SyncEnds
<1>7. CASE Signal
  BY <1>2, <1>7 DEF Signal
<1>8. CASE Crash \/ Restart
  BY <1>8, ReadInRuns
<1>9. CASE UNCHANGED vars
  BY <1>2, <1>9 DEF vars
<1>. QED
  BY <1>3, <1>4, <1>5, <1>6, <1>7, <1>8, <1>9 DEF Next

\* The inductive invariant of the order of the reading: the files in the order of their inodes
\* are the log, and what follows the place of the tail was written after all that was read.
THEOREM ReadInvariant == Spec => []ReadInv
BY ReadInit, ReadStep, FilesInvariant, PTL DEF Spec

\* The log is read in the order in which it was written and nothing of it twice, but when the
\* path names another file when it is opened than when it was looked at (run_file_tail).
THEOREM ReadsInOrder == Spec => []ReadOnceInOrder
<1>1. FilesInv /\ ReadInv => ReadOnceInOrder
  <2>. SUFFICES ASSUME Stored_OK, TailOK, ReadInv, ~past.raced, NEW i \in 1..(Len(ReadSoFar) - 1)
                PROVE  ReadSoFar[i] < ReadSoFar[i + 1]
    BY SplitInv DEF ReadOnceInOrder
  <2>1. ReadSoFar \in Seq(Nat)
    BY ReadTypes
  <2>2. i \in DOMAIN ReadSoFar /\ i + 1 \in DOMAIN ReadSoFar /\ i < i + 1
    BY <2>1
  <2>. QED
    BY <2>2 DEF ReadInv, Rising
<1>. QED
  BY <1>1, FilesInvariant, ReadInvariant, PTL
=============================================================================
