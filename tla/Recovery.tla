------------------------------ MODULE Recovery ------------------------------
(***************************************************************************)
(* Recovery of a session (recovery/index.ts): the last lines of a          *)
(* transcript that Cursor may be writing are copied into a file nobody     *)
(* changes again, with a snapshot that says what was copied and what is    *)
(* known of the parents of the records.  All calls here name the same      *)
(* recovery id and the same transcript; no lock orders them.               *)
(***************************************************************************)
EXTENDS Integers, Sequences, SequencesExt, FiniteSets, FiniteSetsExt

CONSTANTS
    Caller,
    None,
    Lines,          \* kinds of lines: [id, parent, size, cut]; cut: the ids in its first MaxLine bytes
    LineLimit,      \* RECOVERY_LINE_LIMIT
    MaxLine,        \* MAX_LINE_BYTES
    MaxTail,        \* MAX_TAIL_BYTES
    MaxSource,      \* bound: lines of the transcript, which has at least one
    MaxChanges,     \* bound: changes of the transcript
    MaxFault        \* bound: kills and failing reads

VARIABLES
    transcript,     \* [ino, version, lines]
    former,         \* the file that was replaced, for a caller that has it open
    contents,       \* history: the contents the transcript has had
    ring,           \* per caller: retained lines, each with "spilled"
    reader,         \* per caller: pc, the file it opened, lines read, findings about parents
    copy,           \* transcript.tail.jsonl: None or [tail, whole]
    snapshot,       \* snapshot.json: None or [tail, sealed, given]
    answers,        \* per caller: what it was given, None if nothing
    changes, recoveryFaults

source == <<transcript, former, contents, changes>>
vars == <<source, ring, reader, copy, snapshot, answers, recoveryFaults>>

Copies == [tail: Seq(Lines), whole: BOOLEAN]

\* None is no copy.
NoneFits == None \notin Copies

Content == UNION {[1 .. n -> Lines] : n \in 1 .. MaxSource}
Bytes(line) == IF line.size > MaxLine THEN MaxLine ELSE line.size
Parses(line) == line.size <= MaxLine
Ids(lines) == {lines[i].id : i \in {j \in DOMAIN lines: Parses(lines[j])}}
Cut(lines) == UNION {lines[i].cut : i \in {j \in DOMAIN lines: ~ Parses(lines[j])}}

Init ==
    /\ \E lines \in Content: transcript = [ino |-> 0, version |-> 0, lines |-> lines]
    /\ former = None
    /\ contents = {transcript.lines}
    /\ ring = [c \in Caller |-> <<>>]
    /\ reader = [c \in Caller |-> [pc |-> "idle", ino |-> 0, version |-> 0, read |-> 0,
                                   found |-> {}, unverified |-> {}, incomplete |-> FALSE]]
    /\ copy = None
    /\ snapshot = None
    /\ answers = [c \in Caller |-> None]
    /\ changes = 0
    /\ recoveryFaults = 0

Goto(c, l) == reader' = [reader EXCEPT ![c].pc = l]
Answers(c, a) == answers' = [answers EXCEPT ![c] = a] /\ Goto(c, "done")
Fails(c) == Answers(c, None)

Opened(c) == IF reader[c].ino = transcript.ino THEN transcript ELSE former

\* Mutant: the pathname still leads to the same file, whatever is in it.
UnchangedFile(c) == transcript.ino = reader[c].ino

Unchanged(c) == transcript.ino = reader[c].ino /\ transcript.version = reader[c].version

-----------------------------------------------------------------------------
(* LineRingBuffer.push: the oldest line is evicted, and lines spilled from *)
(* the oldest on until the rest fits the memory.                           *)

InMemory(lines) == MapThenSumSet(LAMBDA i: Bytes(lines[i].line), {i \in DOMAIN lines: ~ lines[i].spilled})

Spill(lines) ==
    LET rest(n) == InMemory([i \in DOMAIN lines |-> [lines[i] EXCEPT !.spilled = @ \/ i <= n]])
        n == CHOOSE n \in 0 .. Len(lines):
                rest(n) <= MaxTail /\ \A k \in 0 .. n - 1: rest(k) > MaxTail IN
    [i \in DOMAIN lines |-> [lines[i] EXCEPT !.spilled = @ \/ i <= n]]

Push(lines, line) ==
    LET kept == IF Len(lines) = LineLimit THEN Tail(lines) ELSE lines IN
    Spill(Append(kept, [line |-> line, spilled |-> FALSE]))

TailOf(c) == [i \in DOMAIN ring[c] |-> ring[c][i].line]

-----------------------------------------------------------------------------
(* The scan, and the comparison of the file with the one that was opened.  *)

Open(c) ==
    /\ reader[c].pc = "idle"
    /\ reader' = [reader EXCEPT ![c].pc = "scan", ![c].ino = transcript.ino,
                                ![c].version = transcript.version]
    /\ UNCHANGED <<source, ring, copy, snapshot, answers, recoveryFaults>>

ReadLine(c) ==
    LET i == reader[c].read + 1 IN
    /\ reader[c].pc = "scan"
    /\ i <= Len(Opened(c).lines)
    /\ ring' = [ring EXCEPT ![c] = Push(@, Opened(c).lines[i])]
    /\ reader' = [reader EXCEPT ![c].read = i]
    /\ UNCHANGED <<source, copy, snapshot, answers, recoveryFaults>>

Missing(c) == {l.parent : l \in ToSet(TailOf(c)) \cap {x \in Lines: Parses(x) /\ x.parent # None}}
              \ Ids(TailOf(c))
Truncated(c) == reader[c].read > LineLimit

VerifyScan(c) ==
    /\ reader[c].pc = "scan"
    /\ reader[c].read >= Len(Opened(c).lines)
    /\ IF ~ Unchanged(c)
          \/ MapThenSumSet(LAMBDA i: Bytes(ring[c][i].line), DOMAIN ring[c]) > MaxTail
          \/ \E i \in DOMAIN ring[c]: ring[c][i].spilled
       THEN Fails(c)
       ELSE /\ Goto(c, IF Missing(c) # {} /\ Truncated(c) THEN "prefix" ELSE "copy")
            /\ UNCHANGED answers
    /\ UNCHANGED <<source, ring, copy, snapshot, recoveryFaults>>

(* The omitted lines are read again for parents the tail does not hold;    *)
(* then the file is compared once more.                                    *)
ScanPrefix(c) ==
    LET lines == Opened(c).lines
        omitted == SubSeq(lines, 1, Min({Len(lines), reader[c].read - LineLimit})) IN
    /\ reader[c].pc = "prefix"
    /\ reader' = [reader EXCEPT ![c].pc = "reverify",
            ![c].found = Missing(c) \cap Ids(omitted),
            ![c].unverified = (Missing(c) \cap Cut(omitted)) \ Ids(omitted)]
    /\ UNCHANGED <<source, ring, copy, snapshot, answers, recoveryFaults>>

(* A read that throws is caught, and the comparison is skipped with it.    *)
PrefixFails(c) ==
    /\ reader[c].pc = "prefix" /\ recoveryFaults < MaxFault
    /\ recoveryFaults' = recoveryFaults + 1
    /\ reader' = [reader EXCEPT ![c].pc = "copy", ![c].incomplete = TRUE]
    /\ UNCHANGED <<source, ring, copy, snapshot, answers>>

VerifyPrefix(c) ==
    /\ reader[c].pc = "reverify"
    /\ IF Unchanged(c) THEN Goto(c, "copy") /\ UNCHANGED answers ELSE Fails(c)
    /\ UNCHANGED <<source, ring, copy, snapshot, recoveryFaults>>

Verdict(c, parent) ==
    CASE parent \in reader[c].found -> "outside"
      [] parent \notin reader[c].found
         /\ parent \in Cut(TailOf(c)) \cup reader[c].unverified -> "unverified"
      [] OTHER -> IF reader[c].incomplete THEN "unverified" ELSE "broken"

Given(c) == [tail |-> TailOf(c), chain |-> {<<m, Verdict(c, m)>> : m \in Missing(c)}]

-----------------------------------------------------------------------------
(* Publication: the copy is created and then written; the snapshot is      *)
(* written and then sealed.                                                *)

\* Mutant: a copy that is there is taken for one's own.
CopyIsMineAny(c) == TRUE

CopyIsMine(c) == copy.whole /\ copy.tail = TailOf(c)

CreateCopy(c) ==
    /\ reader[c].pc = "copy"
    /\ IF copy = None
       THEN /\ copy' = [tail |-> TailOf(c), whole |-> FALSE]
            /\ Goto(c, "fill")
            /\ UNCHANGED answers
       ELSE /\ IF CopyIsMine(c) THEN Goto(c, "snapshot") /\ UNCHANGED answers ELSE Fails(c)
            /\ UNCHANGED copy
    /\ UNCHANGED <<source, ring, snapshot, recoveryFaults>>

\* existsSync and the exclusive create: another call was faster.
CopyRaced(c) ==
    /\ reader[c].pc = "copy" /\ copy # None
    /\ \E other \in Caller \ {c}: reader[other].pc # "idle"
    /\ Fails(c)
    /\ UNCHANGED <<source, ring, copy, snapshot, recoveryFaults>>

FillCopy(c) ==
    /\ reader[c].pc = "fill"
    /\ copy' = [copy EXCEPT !.whole = TRUE]
    /\ Goto(c, "snapshot")
    /\ UNCHANGED <<source, ring, snapshot, answers, recoveryFaults>>

\* readRecovery
Readable == snapshot.sealed /\ copy.whole /\ snapshot.tail = copy.tail

LookForSnapshot(c) ==
    /\ reader[c].pc = "snapshot"
    /\ IF snapshot = None
       THEN Goto(c, "write") /\ UNCHANGED answers
       ELSE IF Readable /\ snapshot.tail = TailOf(c)
       THEN Answers(c, snapshot.given) ELSE Fails(c)
    /\ UNCHANGED <<source, ring, copy, snapshot, recoveryFaults>>

\* intendedMode: a file that is there passes its mode on.
Sealed == snapshot # None /\ snapshot.sealed

WriteSnapshot(c) ==
    /\ reader[c].pc = "write"
    /\ snapshot' = [tail |-> TailOf(c), sealed |-> Sealed, given |-> Given(c)]
    /\ Goto(c, "seal")
    /\ UNCHANGED <<source, ring, copy, answers, recoveryFaults>>

SealSnapshot(c) ==
    /\ reader[c].pc = "seal"
    /\ snapshot' = [snapshot EXCEPT !.sealed = TRUE]
    /\ Answers(c, Given(c))
    /\ UNCHANGED <<source, ring, copy, recoveryFaults>>

-----------------------------------------------------------------------------
Kill(c) ==
    /\ reader[c].pc \notin {"idle", "done"} /\ recoveryFaults < MaxFault
    /\ recoveryFaults' = recoveryFaults + 1
    /\ Goto(c, "done")
    /\ UNCHANGED <<source, ring, copy, snapshot, answers>>

(* Cursor appends a record or begins the transcript anew, in the same file *)
(* or in one that takes its place.                                         *)
Change ==
    /\ changes < MaxChanges
    /\ changes' = changes + 1
    /\ \E line \in Lines: \E lines \in {Append(transcript.lines, line), <<line>>}:
        /\ contents' = contents \cup {lines}
        /\ \/ /\ transcript' = [transcript EXCEPT !.version = @ + 1, !.lines = lines]
              /\ UNCHANGED former
           \/ /\ former = None
              /\ former' = transcript
              /\ transcript' = [ino |-> transcript.ino + 1, version |-> transcript.version + 1,
                                lines |-> lines]
    /\ UNCHANGED <<ring, reader, copy, snapshot, answers, recoveryFaults>>

Next ==
    \/ \E c \in Caller:
        \/ Open(c) \/ ReadLine(c) \/ VerifyScan(c) \/ ScanPrefix(c) \/ PrefixFails(c)
        \/ VerifyPrefix(c) \/ CreateCopy(c) \/ CopyRaced(c) \/ FillCopy(c)
        \/ LookForSnapshot(c) \/ WriteSnapshot(c) \/ SealSnapshot(c) \/ Kill(c)
    \/ Change

Spec == Init /\ [][Next]_vars
-----------------------------------------------------------------------------
TypeOK ==
    /\ transcript.lines \in contents
    /\ copy # None => copy.whole \in BOOLEAN
    /\ snapshot # None => snapshot.sealed \in BOOLEAN
    /\ \A c \in Caller: Len(ring[c]) <= LineLimit

LastLines(lines) == SubSeq(lines, Max({1, Len(lines) - LineLimit + 1}), Len(lines))

(* What a recovery returns is true of one state of the transcript, however *)
(* Cursor changes it meanwhile: its tail is the last lines of a content    *)
(* the file once had, nothing spilled from the ring is missing in it, a    *)
(* parent reported in the omitted prefix is there, and one reported        *)
(* missing is in no record that could be read.                             *)
RecoveryIsTrue ==
    \A c \in Caller: answers[c] # None =>
        \E lines \in contents:
            /\ answers[c].tail = LastLines(lines)
            /\ \A verdict \in answers[c].chain:
                /\ verdict[2] = "outside" => verdict[1] \in Ids(lines)
                /\ verdict[2] = "broken" => verdict[1] \notin Ids(lines) \cup Cut(lines)

(* A copy that was written whole never changes, and a sealed snapshot goes *)
(* on to describe the copy beside it, through calls that overlap, kills    *)
(* between any two writes and recoveries of a changed transcript under the *)
(* same id.                                                                *)
RecoveryIsImmutable ==
    /\ copy # None => copy' # None /\ copy'.tail = copy.tail /\ (copy.whole => copy'.whole)
    /\ snapshot' # None =>
        copy' # None /\ copy'.whole /\ snapshot'.tail = copy'.tail
=============================================================================
