------------------------------- MODULE Tracker -------------------------------
(***************************************************************************)
(* The lifecycle of a subject (tracker/index.ts): a journal that replaced  *)
(* a file of lines.  record() copies the old lines to the journal before   *)
(* its first event, from where a killed copy stopped, and goes on writing  *)
(* the old file as a mirror nobody depends on; history() takes no lock and *)
(* decides which of the two to believe.                                    *)
(*                                                                         *)
(* An append to the journal is one step: Journal shows what it is made of. *)
(***************************************************************************)
EXTENDS Naturals, Sequences, FiniteSets, SequencesExt

CONSTANTS
    Writer, Reader,
    None,
    MaxRecords, \* bound: calls of record
    MaxFault    \* bound: kills and writes that fail

VARIABLES
    mirror,     \* the file of lines: None, or events, of which the last may be "torn"
    log,        \* the journal, None before init()
    marker,     \* .migrated exists
    trackerLock,
    writer,     \* per writer: pc and the phase it records
    reader,     \* per reader: pc, what it read, and what was acknowledged before
    acked,      \* history: how many events a caller knows to be recorded
    gap,        \* history: an event is missing from the mirror
    told,       \* history: answers of history(), with what had been acknowledged
    records, trackerFaults

vars == <<mirror, log, marker, trackerLock, writer, reader, acked, gap, told, records, trackerFaults>>

transitions ==
    [created |-> {"started", "cancelled"},
     started |-> {"checkpointed", "completed", "failed", "cancelled"},
     checkpointed |-> {"checkpointed", "completed", "failed", "cancelled"},
     completed |-> {}, failed |-> {}, cancelled |-> {}]
Phase == DOMAIN transitions

LegalAfter(events, phase) ==
    IF events = <<>> THEN phase = "created" ELSE phase \in transitions[Last(events)]

Legal(events) == \A k \in DOMAIN events: LegalAfter(SubSeq(events, 1, k - 1), events[k])

Events == IF log = None THEN <<>> ELSE log
Torn == mirror # None /\ mirror # <<>> /\ Last(mirror) = "torn"
Lines == IF mirror = None THEN <<>> ELSE mirror
Resting == [pc |-> "idle", phase |-> None]
Unread == [pc |-> "idle", head |-> 0, lines |-> <<>>, owed |-> 0]

\* What older versions left: nothing, or the lines of a lifecycle, the last one perhaps torn.
OldMirrors ==
    {None} \cup {s \in UNION {[1 .. n -> Phase \cup {"torn"}]: n \in 0 .. 2}:
                    /\ \A k \in DOMAIN s: s[k] = "torn" => k = Len(s)
                    /\ Legal(SelectSeq(s, LAMBDA e: e # "torn"))}

Init ==
    /\ mirror \in OldMirrors
    /\ log = None /\ marker = FALSE /\ trackerLock = None
    /\ writer = [w \in Writer |-> Resting] /\ reader = [r \in Reader |-> Unread]
    /\ acked = IF mirror = None \/ Torn THEN 0 ELSE Len(mirror)
    /\ gap = FALSE /\ told = {}
    /\ records = 0 /\ trackerFaults = 0

-----------------------------------------------------------------------------
At(w, pc) == writer[w].pc = pc
Goto(w, pc) == writer' = [writer EXCEPT ![w].pc = pc]
Return(w) == writer' = [writer EXCEPT ![w] = Resting] /\ trackerLock' = None
Fault == trackerFaults < MaxFault /\ trackerFaults' = trackerFaults + 1
Unfaulted == UNCHANGED trackerFaults

record(w, phase) ==
    /\ At(w, "idle") /\ records < MaxRecords /\ records' = records + 1
    /\ writer' = [writer EXCEPT ![w] = [pc |-> "lock", phase |-> phase]]
    /\ UNCHANGED <<mirror, log, marker, trackerLock, reader, acked, gap, told, trackerFaults>>

TakeLock(w) ==
    /\ At(w, "lock") /\ trackerLock = None
    /\ trackerLock' = w /\ Goto(w, "migrate")
    /\ UNCHANGED <<mirror, log, marker, reader, acked, gap, told, records, trackerFaults>>

\* The marker is not written when that fails, and nobody is told.
markMigrated ==
    \/ marker' = TRUE /\ Unfaulted
    \/ UNCHANGED marker /\ Fault

\* Lines that the journal does not have are copied, if all of them can be read.
MayCopy == ~ marker /\ mirror # None /\ ~ Torn /\ Len(Events) < Len(mirror)

migrateLegacy(w) ==
    /\ At(w, "migrate")
    /\ \/ marker /\ Goto(w, "append") /\ UNCHANGED <<log, marker, trackerLock>> /\ Unfaulted
       \/ /\ ~ marker /\ ~ MayCopy /\ (Torn => Events # <<>>)
          /\ markMigrated /\ Goto(w, "append") /\ UNCHANGED <<log, trackerLock>>
       \/ /\ ~ marker /\ Torn /\ Events = <<>>
          /\ Return(w) /\ UNCHANGED <<log, marker>> /\ Unfaulted
       \/ /\ MayCopy /\ log' = Append(Events, mirror[Len(Events) + 1])
          /\ UNCHANGED <<writer, marker, trackerLock>> /\ Unfaulted
    /\ UNCHANGED <<mirror, reader, acked, gap, told, records>>

\* An append that fails ends the call, in the copy as well as after it.
AppendFails(w) ==
    /\ (At(w, "migrate") /\ MayCopy) \/ At(w, "append")
    /\ Fault /\ Return(w)
    /\ UNCHANGED <<mirror, log, marker, reader, acked, gap, told, records>>

\* Mutant: the phase is not checked.
AppendUnchecked(w) ==
    /\ At(w, "append")
    /\ log' = Append(Events, writer[w].phase) /\ Goto(w, "mirror") /\ UNCHANGED trackerLock
    /\ UNCHANGED <<mirror, marker, reader, acked, gap, told, records, trackerFaults>>

AppendEvent(w) ==
    /\ At(w, "append")
    /\ \/ /\ LegalAfter(Events, writer[w].phase)
          /\ log' = Append(Events, writer[w].phase) /\ Goto(w, "mirror") /\ UNCHANGED trackerLock
       \/ ~ LegalAfter(Events, writer[w].phase) /\ Return(w) /\ UNCHANGED log
    /\ UNCHANGED <<mirror, marker, reader, acked, gap, told, records, trackerFaults>>

\* The mirror is written if it can be, and the event is acknowledged anyway.
Mirror(w) ==
    /\ At(w, "mirror")
    /\ \/ mirror' = Append(Lines, writer[w].phase) /\ Unfaulted /\ UNCHANGED gap
       \/ mirror' = mirror /\ Fault /\ gap' = TRUE
    /\ acked' = Len(log) /\ Return(w)
    /\ UNCHANGED <<log, marker, reader, told, records>>

Kill(w) ==
    /\ ~ At(w, "idle") /\ Fault
    /\ writer' = [writer EXCEPT ![w] = Resting]
    /\ trackerLock' = IF trackerLock = w THEN None ELSE trackerLock
    /\ mirror' \in {mirror} \cup IF At(w, "mirror") THEN {Append(Lines, "torn")} ELSE {}
    /\ gap' = (gap \/ At(w, "mirror"))
    /\ UNCHANGED <<log, marker, reader, acked, told, records>>

-----------------------------------------------------------------------------
(* history(): the head, the marker, the old file, the journal.             *)

readHead(r) ==
    /\ reader[r].pc = "idle" /\ Cardinality(told) < 2
    /\ reader' = [reader EXCEPT ![r] = [pc |-> "marker", head |-> Len(Events), lines |-> <<>>, owed |-> acked]]
    /\ UNCHANGED <<mirror, log, marker, trackerLock, writer, acked, gap, told, records, trackerFaults>>

isMigrated(r) ==
    /\ reader[r].pc = "marker"
    /\ reader' = [reader EXCEPT ![r].pc = IF marker THEN "journal" ELSE "lines"]
    /\ UNCHANGED <<mirror, log, marker, trackerLock, writer, acked, gap, told, records, trackerFaults>>

\* Mutant: what was copied so far is believed.
BelievedAnyway(head, lines) == head > 0

\* The journal is believed as soon as it holds as much as the lines.
Believed(head, lines) == head > 0 /\ head >= Len(lines)

readLegacyEvents(r) ==
    LET head == reader[r].head IN
    /\ reader[r].pc = "lines"
    /\ \/ /\ IF Torn THEN head > 0 ELSE Believed(head, Lines)
          /\ reader' = [reader EXCEPT ![r].pc = "journal"] /\ UNCHANGED told
       \/ /\ ~ Torn /\ ~ Believed(head, Lines)
          /\ told' = told \cup {[events |-> Lines, owed |-> reader[r].owed, gap |-> gap]}
          /\ reader' = [reader EXCEPT ![r] = Unread]
       \/ /\ Torn /\ head = 0
          /\ reader' = [reader EXCEPT ![r] = Unread] /\ UNCHANGED told
    /\ UNCHANGED <<mirror, log, marker, trackerLock, writer, acked, gap, records, trackerFaults>>

readRange(r) ==
    /\ reader[r].pc = "journal"
    /\ told' = told \cup {[events |-> Events, owed |-> reader[r].owed, gap |-> FALSE]}
    /\ reader' = [reader EXCEPT ![r] = Unread]
    /\ UNCHANGED <<mirror, log, marker, trackerLock, writer, acked, gap, records, trackerFaults>>

Next ==
    \/ \E w \in Writer:
        \/ \E phase \in Phase: record(w, phase)
        \/ TakeLock(w) \/ migrateLegacy(w) \/ AppendFails(w) \/ AppendEvent(w) \/ Mirror(w) \/ Kill(w)
    \/ \E r \in Reader: readHead(r) \/ isMigrated(r) \/ readLegacyEvents(r) \/ readRange(r)

Spec == Init /\ [][Next]_vars

-----------------------------------------------------------------------------
TypeOK ==
    /\ log # None => log \in Seq(Phase)
    /\ trackerLock \in Writer \cup {None}
    /\ \A w \in Writer: writer[w].pc \in {"idle", "lock", "migrate", "append", "mirror"}
    /\ \A w \in Writer: (trackerLock = w) = (writer[w].pc \in {"migrate", "append", "mirror"})

(* The lifecycle only takes legal steps, also where a copy that was killed *)
(* or that failed was taken up again; a history has every event that was   *)
(* acknowledged before it was asked for, whatever was copied, recorded,    *)
(* killed or torn meanwhile.  (A mirror that misses an event can be        *)
(* believed by a reader that began before the copy did.)                   *)
HistoryKept ==
    /\ Legal(Events)
    /\ \A answer \in told:
        /\ Len(answer.events) >= answer.owed
        /\ ~ answer.gap => Legal(answer.events)
=============================================================================
