------------------------------- MODULE Journal -------------------------------
(***************************************************************************)
(* The digest-chained, segmented journal of src/src/runtime/journal.ts:    *)
(* meta.json, head.json, segments/NNNNNNNN.jsonl, receipts/, quarantine/.  *)
(*                                                                         *)
(* A record is committed by head.json, replaced atomically after the line  *)
(* has been appended and synced.  Whoever appends, repairs or recovers     *)
(* holds the directory lock of the stream, so there is one holder with one *)
(* program counter here; it may be interrupted (killed, or an I/O error)   *)
(* between any two file operations.  tail() and readRange() take no lock   *)
(* and read the files one by one while the holder is at work.              *)
(*                                                                         *)
(* A digest covers the record and its predecessor's digest; it is modelled *)
(* by the number of the append that wrote the record.  The lines of all    *)
(* segments are kept in one sequence, each with its segment and offset.    *)
(***************************************************************************)
EXTENDS Naturals, Sequences, FiniteSets, JournalParameters

VARIABLES
    meta,        \* meta.json exists
    head,        \* head.json
    files,       \* indices of the segment files
    lines,       \* their lines, in the order of the files
    quarantine,  \* the lines backed up in quarantine/
    intents,     \* receipts/repair-*.intent.json
    receipts,    \* receipts/repair-*.json, by the number of the repair
    pc,          \* where the holder of the lock is, "idle" when the lock is free
    target,      \* the truncation repairIncompleteTail is carrying out
    todo, job,   \* intents recoverPendingRepairIntents has still to look at; the one it is at
    acked,       \* records whose append has returned to its caller
    appends, repairs, interrupts,
    rpc, rhead, rlist, rgot   \* a reader: its step, head and segment list as read, lines so far

files_vars == <<meta, head, files, lines, quarantine, intents, receipts>>
holder_vars == <<pc, target, todo, job, acked, appends, repairs, interrupts>>
reader_vars == <<rpc, rhead, rlist, rgot>>
vars == <<files_vars, holder_vars, reader_vars>>

LinesOf(i) == SelectSeq(lines, LAMBDA l : l.seg = i)
FileSize(i) == IF LinesOf(i) = <<>> THEN 0
               ELSE LET l == LinesOf(i)[Len(LinesOf(i))] IN l.off + l.size
LineSet(ls) == {ls[i] : i \in 1..Len(ls)}

Init ==
    /\ meta = FALSE /\ head = None /\ files = {} /\ lines = <<>>
    /\ quarantine = {} /\ intents = {} /\ receipts = {}
    /\ pc = "idle" /\ target = None /\ todo = {} /\ job = None
    /\ acked = {} /\ appends = 0 /\ repairs = 0 /\ interrupts = 0
    /\ rpc = [r \in Reader |-> "idle"] /\ rhead = [r \in Reader |-> None]
    /\ rlist = [r \in Reader |-> {}] /\ rgot = [r \in Reader |-> <<>>]

Step(from, to) == pc = from /\ pc' = to

-----------------------------------------------------------------------------
(* init(): also run by the first append.                                   *)

\* hasArtifacts and canRecoverPartialInit: nothing there, or only what an init
\* that was interrupted leaves.
MayInit == /\ head = None
           /\ files \subseteq {1} /\ lines = <<>>
           /\ quarantine = {} /\ intents = {} /\ receipts = {}

InitMeta == /\ MayInit /\ Step("idle", "initSegment")
            /\ meta' = TRUE
            /\ UNCHANGED <<head, files, lines, quarantine, intents, receipts, target, todo, job,
                           acked, appends, repairs, interrupts, reader_vars>>

InitSegment == /\ Step("initSegment", "initHead")
               /\ files' = files \cup {1}
               /\ UNCHANGED <<meta, head, lines, quarantine, intents, receipts, target, todo, job,
                              acked, appends, repairs, interrupts, reader_vars>>

InitHead == /\ Step("initHead", "idle")
            /\ head' = [seq |-> 0, digest |-> 0, active |-> 1, records |-> 0]
            /\ UNCHANGED <<meta, files, lines, quarantine, intents, receipts, target, todo, job,
                           acked, appends, repairs, interrupts, reader_vars>>

-----------------------------------------------------------------------------
(* append()                                                                *)

Contiguous == files = 1..Cardinality(files)

\* assertNoIncompleteTail: the active segment is the last one and ends with the
\* record head.json names.
NoIncompleteTail ==
    /\ Contiguous
    /\ head.active = Cardinality(files) \/ (files = {} /\ head.seq = 0 /\ head.active = 1)
    /\ IF head.seq = 0 THEN FileSize(head.active) = 0
       ELSE LET own == LinesOf(head.active) IN
              /\ own # <<>>
              /\ own[Len(own)].whole
              /\ own[Len(own)].seq = head.seq /\ own[Len(own)].digest = head.digest

\* Rotation by bytes or by records.
MustRotate(size) ==
    \/ FileSize(head.active) > 0 /\ FileSize(head.active) + size > MaxSegmentBytes
    \/ head.records > 0 /\ head.records >= MaxSegmentRecords

\* A slip: the append does not look at what is in the segment already.
AppendBeginUnchecked(size) ==
    /\ head # None /\ meta
    /\ head.seq < MaxStreamRecords
    /\ appends < MaxAppend
    /\ Step("idle", "writing")
    /\ appends' = appends + 1
    /\ LET seg == IF MustRotate(size) THEN head.active + 1 ELSE head.active IN
         /\ files' = files \cup {seg}
         /\ lines' = Append(lines, [seg |-> seg, off |-> FileSize(seg), size |-> size - 1,
                                    seq |-> head.seq + 1, prev |-> head.digest,
                                    digest |-> appends + 1, whole |-> FALSE])
    /\ UNCHANGED <<meta, head, quarantine, intents, receipts, target, todo, job,
                   acked, repairs, interrupts, reader_vars>>

\* The first bytes of the line reach the file, which open(O_CREAT) has created.
AppendBegin(size) ==
    /\ head # None /\ meta
    /\ NoIncompleteTail
    /\ Len(LinesOf(head.active)) = head.records
    /\ head.seq < MaxStreamRecords
    /\ appends < MaxAppend
    /\ Step("idle", "writing")
    /\ appends' = appends + 1
    /\ LET seg == IF MustRotate(size) THEN head.active + 1 ELSE head.active IN
         /\ files' = files \cup {seg}
         /\ lines' = Append(lines, [seg |-> seg, off |-> FileSize(seg), size |-> size - 1,
                                    seq |-> head.seq + 1, prev |-> head.digest,
                                    digest |-> appends + 1, whole |-> FALSE])
    /\ UNCHANGED <<meta, head, quarantine, intents, receipts, target, todo, job,
                   acked, repairs, interrupts, reader_vars>>

Newest == lines[Len(lines)]

\* writeAllSync has written the rest, newline included, and fsync returned.
AppendWhole ==
    /\ Step("writing", "written")
    /\ lines' = [lines EXCEPT ![Len(lines)].whole = TRUE, ![Len(lines)].size = @ + 1]
    /\ UNCHANGED <<meta, head, files, quarantine, intents, receipts, target, todo, job,
                   acked, appends, repairs, interrupts, reader_vars>>

\* A slip: the record count of the segment is not reset on rotation.
AppendHeadNoReset ==
    /\ Step("written", "committed")
    /\ head' = [seq |-> Newest.seq, digest |-> Newest.digest, active |-> Newest.seg,
                records |-> head.records + 1]
    /\ UNCHANGED <<meta, files, lines, quarantine, intents, receipts, target, todo, job,
                   acked, appends, repairs, interrupts, reader_vars>>

\* atomicWriteJson(head.json)
AppendHead ==
    /\ Step("written", "committed")
    /\ head' = [seq |-> Newest.seq, digest |-> Newest.digest, active |-> Newest.seg,
                records |-> IF Newest.seg = head.active THEN head.records + 1 ELSE 1]
    /\ UNCHANGED <<meta, files, lines, quarantine, intents, receipts, target, todo, job,
                   acked, appends, repairs, interrupts, reader_vars>>

AppendReturn ==
    /\ Step("committed", "idle")
    /\ acked' = acked \cup {<<Newest.seq, Newest.digest>>}
    /\ UNCHANGED <<files_vars, target, todo, job, appends, repairs, interrupts, reader_vars>>

-----------------------------------------------------------------------------
(* verify()                                                                *)

\* The lines before the first torn one form one chain.
Torn == {i \in 1..Len(lines) : ~lines[i].whole}
Scanned == IF Torn = {} THEN Len(lines) ELSE (CHOOSE i \in Torn : \A j \in Torn : i <= j) - 1
Chained == \A i \in 1..Scanned :
              lines[i].seq = i /\ lines[i].prev = IF i = 1 THEN 0 ELSE lines[i - 1].digest

TornTail == /\ Torn = {Len(lines)} /\ Newest.seg = Cardinality(files)
            /\ Scanned >= head.seq
HeadMatches == /\ Torn = {} /\ Scanned >= head.seq
               /\ head.active = IF head.seq = 0 THEN 1 ELSE lines[head.seq].seg
               /\ Scanned = head.seq =>
                     /\ head.seq > 0 => lines[head.seq].digest = head.digest
                     /\ head.records = Len(LinesOf(head.active))
                     /\ head.seq <= MaxStreamRecords
Beyond == {i \in files : i > head.active}

Readable == meta /\ head # None /\ Contiguous /\ Chained
Valid == /\ Readable /\ HeadMatches /\ Scanned = head.seq /\ Beyond = {}
Incomplete == Readable /\ (TornTail \/ HeadMatches) /\ ~Valid

\* A slip: an uncommitted record is cut where the last committed one starts.
CutEarly == IF TornTail /\ Scanned >= head.seq THEN [seg |-> Newest.seg, at |-> Newest.off]
            ELSE IF Scanned > head.seq
                 THEN LET i == IF head.seq = 0 THEN 1 ELSE head.seq IN
                        [seg |-> lines[i].seg, at |-> lines[i].off]
            ELSE [seg |-> CHOOSE i \in Beyond : \A j \in Beyond : i <= j, at |-> 0]

\* error.segment and error.byte_offset of an incomplete tail: where the first
\* uncommitted line, or the first uncommitted segment, starts.
Cut == IF TornTail /\ Scanned >= head.seq THEN [seg |-> Newest.seg, at |-> Newest.off]
       ELSE IF Scanned > head.seq
            THEN [seg |-> lines[head.seq + 1].seg, at |-> lines[head.seq + 1].off]
       ELSE [seg |-> CHOOSE i \in Beyond : \A j \in Beyond : i <= j, at |-> 0]

-----------------------------------------------------------------------------
(* recoverPendingRepairIntentsUnlocked(), run by verify() and              *)
(* listReceipts() under the lock and inside repairIncompleteTail().        *)

RecoverBegin ==
    /\ intents # {}
    /\ Step("idle", "recover")
    /\ todo' = intents
    /\ UNCHANGED <<files_vars, target, job, acked, appends, repairs, interrupts, reader_vars>>

\* An intent counts as carried out when the segment is gone or no longer than
\* the intent's length; any other is left alone.
Truncated(i) == i.seg \notin files \/ FileSize(i.seg) <= i.at

RecoverNext ==
    /\ pc = "recover" /\ job = None
    /\ \/ \E i \in todo :
            /\ todo' = todo \ {i}
            /\ job' = IF Truncated(i) THEN i ELSE None
            /\ UNCHANGED <<pc, target>>
       \/ /\ todo = {}
          /\ pc' = IF target = None THEN "idle" ELSE "backup"
          /\ UNCHANGED <<todo, job, target>>
    /\ UNCHANGED <<files_vars, acked, appends, repairs, interrupts, reader_vars>>

\* Without head.json the active segment counts as the first.
ActiveIndex == IF head = None THEN 1 ELSE head.active

\* The segments the code calls orphaned: after the repaired one, or after the
\* active one.
Orphaned(seg) == {i \in files : i > seg \/ i > ActiveIndex}
EmptyTarget(t) == t.seg \in files /\ t.seg > ActiveIndex /\ t.at = 0

\* A slip: the emptied segment stays.
ExcessButTarget(t) == {i \in files : i > t.seg}

\* What is left to remove once t has been cut: the emptied segment, unlinked as
\* it is, then the orphans, each unlinked after a copyFile to quarantine/.
Excess(t) == IF EmptyTarget(t) THEN {t.seg} ELSE Orphaned(t.seg)

SweepOne(t) ==
    LET i == CHOOSE k \in Excess(t) : \A m \in Excess(t) : k <= m IN
      /\ quarantine' = IF EmptyTarget(t) THEN quarantine ELSE quarantine \cup LineSet(LinesOf(i))
      /\ files' = files \ {i}
      /\ lines' = SelectSeq(lines, LAMBDA l : l.seg # i)

RecoverSweep ==
    /\ pc = "recover" /\ job # None
    /\ Excess(job) # {}
    /\ SweepOne(job)
    /\ UNCHANGED <<meta, head, intents, receipts, holder_vars, reader_vars>>

\* The receipt is published if it was not, then the intent is removed.
RecoverReceipt ==
    /\ pc = "recover" /\ job # None
    /\ Excess(job) = {}
    /\ IF job.n \notin receipts
       THEN /\ receipts' = receipts \cup {job.n}
            /\ UNCHANGED <<intents, job>>
       ELSE /\ intents' = intents \ {job}
            /\ job' = None
            /\ UNCHANGED receipts
    /\ UNCHANGED <<meta, head, files, lines, quarantine, pc, target, todo, acked,
                   appends, repairs, interrupts, reader_vars>>

-----------------------------------------------------------------------------
(* repairIncompleteTail()                                                  *)

\* The verification it starts with cannot recover pending intents: the lock it
\* would need is the caller's own.  They are recovered after it instead.
RepairBegin ==
    /\ repairs < MaxRepair
    /\ Incomplete
    /\ Step("idle", "recover")
    /\ repairs' = repairs + 1
    /\ target' = [seg |-> Cut.seg, at |-> Cut.at, n |-> repairs + 1]
    /\ todo' = intents
    /\ UNCHANGED <<files_vars, job, acked, appends, interrupts, reader_vars>>

\* A slip: a second repair trusts the backup of the first.
RepairBackupOnce ==
    /\ pc = "backup"
    /\ IF target.seg \in files
       THEN /\ quarantine' = IF receipts = {} THEN quarantine \cup LineSet(LinesOf(target.seg))
                             ELSE quarantine
            /\ pc' = "intent"
            /\ UNCHANGED target
       ELSE /\ pc' = "idle"
            /\ target' = None
            /\ UNCHANGED quarantine
    /\ UNCHANGED <<meta, head, files, lines, intents, receipts, todo, job, acked,
                   appends, repairs, interrupts, reader_vars>>

\* copyFile(segment, quarantine/...): ENOENT when the recovery has removed it.
RepairBackup ==
    /\ pc = "backup"
    /\ IF target.seg \in files
       THEN /\ quarantine' = quarantine \cup LineSet(LinesOf(target.seg))
            /\ pc' = "intent"
            /\ UNCHANGED target
       ELSE /\ pc' = "idle"
            /\ target' = None
            /\ UNCHANGED quarantine
    /\ UNCHANGED <<meta, head, files, lines, intents, receipts, todo, job, acked,
                   appends, repairs, interrupts, reader_vars>>

RepairIntent ==
    /\ Step("intent", "truncate")
    /\ intents' = intents \cup {target}
    /\ UNCHANGED <<meta, head, files, lines, quarantine, receipts, target, todo, job, acked,
                   appends, repairs, interrupts, reader_vars>>

\* A slip: the line that ends at the cut goes too.
RepairTruncateShort ==
    /\ Step("truncate", "sweep")
    /\ lines' = SelectSeq(lines, LAMBDA l : l.seg = target.seg => l.off + l.size < target.at)
    /\ UNCHANGED <<meta, head, files, quarantine, intents, receipts, target, todo, job, acked,
                   appends, repairs, interrupts, reader_vars>>

RepairTruncate ==
    /\ Step("truncate", "sweep")
    /\ lines' = SelectSeq(lines, LAMBDA l : l.seg = target.seg => l.off < target.at)
    /\ UNCHANGED <<meta, head, files, quarantine, intents, receipts, target, todo, job, acked,
                   appends, repairs, interrupts, reader_vars>>

RepairSweep ==
    /\ pc = "sweep"
    /\ \/ /\ Excess(target) # {}
          /\ SweepOne(target)
          /\ UNCHANGED pc
       \/ /\ Excess(target) = {}
          /\ pc' = "receipt"
          /\ UNCHANGED <<files, lines, quarantine>>
    /\ UNCHANGED <<meta, head, intents, receipts, target, todo, job, acked,
                   appends, repairs, interrupts, reader_vars>>

RepairReceipt ==
    /\ Step("receipt", "close")
    /\ receipts' = receipts \cup {target.n}
    /\ UNCHANGED <<meta, head, files, lines, quarantine, intents, target, todo, job, acked,
                   appends, repairs, interrupts, reader_vars>>

RepairClose ==
    /\ Step("close", "idle")
    /\ intents' = intents \ {target}
    /\ target' = None
    /\ UNCHANGED <<meta, head, files, lines, quarantine, receipts, todo, job, acked,
                   appends, repairs, interrupts, reader_vars>>

\* The holder is killed or a file operation fails: the lock is released or taken
\* over, the files stay as they are.  A line that was not synced may have left
\* no byte behind.
Interrupt ==
    /\ pc # "idle" /\ interrupts < MaxInterrupt
    /\ interrupts' = interrupts + 1
    /\ pc' = "idle" /\ target' = None /\ todo' = {} /\ job' = None
    /\ lines' \in {lines} \cup IF pc = "writing" THEN {SubSeq(lines, 1, Len(lines) - 1)} ELSE {}
    /\ UNCHANGED <<meta, head, files, quarantine, intents, receipts,
                   acked, appends, repairs, reader_vars>>

-----------------------------------------------------------------------------
(* readRange() from the first record, without the lock.                    *)

ReadHead(r) ==
    /\ rpc[r] = "idle" /\ head # None /\ head.seq > 0
    /\ rpc' = [rpc EXCEPT ![r] = "list"]
    /\ rhead' = [rhead EXCEPT ![r] = head]
    /\ UNCHANGED <<files_vars, holder_vars, rlist, rgot>>

ListSegments(r) ==
    /\ rpc[r] = "list"
    /\ rpc' = [rpc EXCEPT ![r] = "read"]
    /\ rlist' = [rlist EXCEPT ![r] = files]
    /\ UNCHANGED <<files_vars, holder_vars, rhead, rgot>>

Fewer(a, b) == IF a <= b THEN a ELSE b

\* A slip: the segment is read to its end, past the head as read.
ReadSegmentToEnd(r) ==
    /\ rpc[r] = "read"
    /\ rlist[r] # {} /\ Len(rgot[r]) < rhead[r].seq
    /\ LET i == CHOOSE k \in rlist[r] : \A m \in rlist[r] : k <= m
           all == rgot[r] \o LinesOf(i)
           good == i \in files /\ \A k \in 1..Len(all) : all[k].whole /\ all[k].seq = k
       IN /\ rlist' = [rlist EXCEPT ![r] = @ \ {i}]
          /\ rgot' = [rgot EXCEPT ![r] = IF good THEN all ELSE @]
          /\ rpc' = [rpc EXCEPT ![r] = IF good THEN "read" ELSE "corrupt"]
    /\ UNCHANGED <<files_vars, holder_vars, rhead>>

\* One segment: its lines up to the record count of the head as read.  A missing
\* file, a torn line or a line out of the chain is reported as corruption.
ReadSegment(r) ==
    /\ rpc[r] = "read"
    /\ rlist[r] # {} /\ Len(rgot[r]) < rhead[r].seq
    /\ LET i == CHOOSE k \in rlist[r] : \A m \in rlist[r] : k <= m
           own == SubSeq(LinesOf(i), 1, Fewer(Len(LinesOf(i)), rhead[r].seq - Len(rgot[r])))
           all == rgot[r] \o own
           good == /\ i \in files
                   /\ \A k \in 1..Len(all) :
                        /\ all[k].whole /\ all[k].seq = k
                        /\ all[k].prev = IF k = 1 THEN 0 ELSE all[k - 1].digest
       IN /\ rlist' = [rlist EXCEPT ![r] = @ \ {i}]
          /\ rgot' = [rgot EXCEPT ![r] = IF good THEN all ELSE @]
          /\ rpc' = [rpc EXCEPT ![r] = IF good THEN "read" ELSE "corrupt"]
    /\ UNCHANGED <<files_vars, holder_vars, rhead>>

\* The count and the last digest must be those of the head as read.
ReadEnd(r) ==
    /\ rpc[r] = "read"
    /\ rlist[r] = {} \/ Len(rgot[r]) = rhead[r].seq
    /\ rpc' = [rpc EXCEPT ![r] =
                 IF Len(rgot[r]) = rhead[r].seq /\ rgot[r][rhead[r].seq].digest = rhead[r].digest
                 THEN "done" ELSE "corrupt"]
    /\ UNCHANGED <<files_vars, holder_vars, rhead, rlist, rgot>>

-----------------------------------------------------------------------------
Initialise == InitMeta \/ InitSegment \/ InitHead
Appending == (\E s \in Size : AppendBegin(s)) \/ AppendWhole \/ AppendHead \/ AppendReturn
Recovering == RecoverBegin \/ RecoverNext \/ RecoverSweep \/ RecoverReceipt
Repairing == RepairBegin \/ RepairBackup \/ RepairIntent \/ RepairTruncate \/ RepairSweep
             \/ RepairReceipt \/ RepairClose
Reading(r) == ReadHead(r) \/ ListSegments(r) \/ ReadSegment(r) \/ ReadEnd(r)

Next == Initialise \/ Appending \/ Recovering \/ Repairing \/ Interrupt
        \/ \E r \in Reader : Reading(r)

Spec == Init /\ [][Next]_vars

-----------------------------------------------------------------------------
Line == [seg : Nat \ {0}, off : Nat, size : Nat, seq : 1..MaxAppend, prev : 0..MaxAppend,
         digest : 1..MaxAppend, whole : BOOLEAN]
HeadRecord == [seq : 0..MaxAppend, digest : 0..MaxAppend, active : Nat \ {0}, records : 0..MaxSegmentRecords]
Intent == [seg : Nat \ {0}, at : Nat, n : 1..MaxRepair]

TypeOK ==
    /\ meta \in BOOLEAN
    /\ head \in HeadRecord \cup {None}
    /\ files \subseteq 1..(MaxAppend + 1)
    /\ lines \in Seq(Line)
    /\ LineSet(lines) \cup quarantine \subseteq Line
    /\ intents \subseteq Intent /\ todo \subseteq Intent
    /\ receipts \subseteq 1..MaxRepair
    /\ target \in Intent \cup {None} /\ job \in Intent \cup {None}
    /\ acked \subseteq (1..MaxAppend) \X (1..MaxAppend)

\* A record whose append returned is in its place in the segments for good,
\* whatever torn tails, repairs and recoveries of interrupted repairs follow.
AcknowledgedKept ==
    \A a \in acked : a[1] <= Len(lines) /\ lines[a[1]].whole /\ lines[a[1]].digest = a[2]

\* No interruption leaves a stream that neither init, append, nor a repair can
\* bring forward: what verify() would call corrupt is never produced.
NeverCorrupt == MayInit \/ Valid \/ Incomplete

\* A repair that runs to its end leaves a stream verify() accepts.
RepairHeals == pc = "close" /\ pc' = "idle" /\ interrupts' = interrupts => Valid'

\* What a repair or a recovery takes out of a segment, torn bytes included, has
\* its copy in quarantine/ before.
BackedUp ==
    interrupts' = interrupts =>
        \A l \in LineSet(lines) \ LineSet(lines') :
            l \in quarantine' \/ (\E m \in LineSet(lines') : m.digest = l.digest)

\* A lock-free reader never takes work in progress for corruption.
ReadersUndisturbed == \A r \in Reader : rpc[r] # "corrupt"

\* The committed records, those head.json counts, only ever grow by one.
Committed == IF head = None THEN <<>>
             ELSE [i \in 1..Fewer(head.seq, Len(lines)) |-> lines[i].digest]
Log == INSTANCE AppendLog WITH Entry <- 1..MaxAppend, log <- Committed
ImplementsLog == Log!Spec
=============================================================================
