----------------------------- MODULE RunEvents -----------------------------
(***************************************************************************)
(* The events of a run (state/store.ts, appendEvent and readEvents): a     *)
(* journal that replaced events.jsonl.  The first append copies what the   *)
(* file has; the file is written on as a mirror nobody depends on, and     *)
(* which of the two is read is told by the journal's head alone.           *)
(*                                                                         *)
(* An append to the journal is one step: Journal shows what it is made of. *)
(***************************************************************************)
EXTENDS Naturals, Sequences, FiniteSets, SequencesExt

CONSTANTS
    Appender, Reader,
    None,
    EventLimit, \* events of a run at most: 10,000
    MaxTime,    \* bound: dates, from the creation of the run at 0
    MaxAppends, \* bound: calls of appendEvent
    MaxFault    \* bound: kills and writes that fail

VARIABLES
    mirror,     \* events.jsonl: None, or a sequence of events and torn lines
    log,        \* the events in the journal
    eventLock,
    appender,   \* per appender: pc, and the event that is to be mirrored
    reader,     \* per reader: which of the two it reads, and what was promised before
    promised,   \* history: events whose appendEvent returned, and those of the file
    cut,        \* history: a copy that had begun was not finished
    told,       \* history: answers of readEvents, with what had been promised
    appends, eventFaults

vars == <<mirror, log, eventLock, appender, reader, promised, cut, told, appends, eventFaults>>

(* fits: the journal takes it.  It refuses what parses but is too large or *)
(* has a blank type.                                                       *)
Event == [seq: 1 .. MaxAppends + 2, at: 0 .. MaxTime, old: BOOLEAN, fits: BOOLEAN]

\* A line that cannot be parsed.
Torn == [seq |-> 0, at |-> 0, old |-> TRUE, fits |-> FALSE]

Resting == [pc |-> "idle", event |-> None]
Unread == [pc |-> "idle", owed |-> {}]
Lines == IF mirror = None THEN <<>> ELSE mirror
Corrupt == Torn \in ToSet(Lines)

\* What an older version left: nothing, or its events, and a line that cannot be parsed.
OldMirrors ==
    {None} \cup {s \in UNION {[1 .. n -> Event \cup {Torn}]: n \in 0 .. 2}:
                    \A k \in DOMAIN s: s[k] # Torn => s[k].seq = k /\ s[k].old}

Init ==
    /\ mirror \in OldMirrors
    /\ log = <<>> /\ eventLock = None
    /\ appender = [a \in Appender |-> Resting] /\ reader = [r \in Reader |-> Unread]
    /\ promised = ToSet(Lines) \ {Torn}
    /\ cut = FALSE /\ told = {}
    /\ appends = 0 /\ eventFaults = 0

-----------------------------------------------------------------------------
At(a, pc) == appender[a].pc = pc
Goto(a, pc) == appender' = [appender EXCEPT ![a].pc = pc]
Return(a) == appender' = [appender EXCEPT ![a] = Resting] /\ eventLock' = None
Fault == eventFaults < MaxFault /\ eventFaults' = eventFaults + 1

appendEvent(a) ==
    /\ At(a, "idle") /\ eventLock = None /\ appends < MaxAppends
    /\ appends' = appends + 1 /\ eventLock' = a
    /\ Goto(a, IF mirror # None /\ log = <<>> THEN "migrate" ELSE "append")
    /\ UNCHANGED <<mirror, log, reader, promised, cut, told, eventFaults>>

(* migrateLegacyEventsIfNeeded: all lines are parsed before the first is   *)
(* copied, but only the journal knows whether it takes them.               *)
Ready == ~ Corrupt /\ Len(log) < Len(Lines)

Copy(a) ==
    /\ At(a, "migrate") /\ Ready /\ Lines[Len(log) + 1].fits
    /\ log' = Append(log, Lines[Len(log) + 1])
    /\ UNCHANGED <<mirror, eventLock, appender, reader, promised, cut, told, appends, eventFaults>>

Copied(a) ==
    /\ At(a, "migrate") /\ ~ Corrupt /\ Len(log) = Len(Lines)
    /\ Goto(a, "append")
    /\ UNCHANGED <<mirror, log, eventLock, reader, promised, cut, told, appends, eventFaults>>

\* E_EVENT_CORRUPT, from the line or from the journal.
CopyFails(a) ==
    /\ At(a, "migrate")
    /\ \/ (Corrupt \/ (Ready /\ ~ Lines[Len(log) + 1].fits)) /\ UNCHANGED eventFaults
       \/ Ready /\ Fault
    /\ cut' = (cut \/ log # <<>>)
    /\ Return(a)
    /\ UNCHANGED <<mirror, log, reader, promised, told, appends>>

\* A slip: the clock is taken as it is.
StampNow(now) == now

\* No event is dated before the one it follows.
Stamp(now) == IF log = <<>> \/ now >= Last(log).at THEN now ELSE Last(log).at

AppendToJournal(a) ==
    /\ At(a, "append") /\ Len(log) < EventLimit
    /\ \E now \in 0 .. MaxTime:
        LET event == [seq |-> Len(log) + 1, at |-> Stamp(now), old |-> FALSE, fits |-> TRUE]
        IN /\ log' = Append(log, event)
           /\ appender' = [appender EXCEPT ![a] = [pc |-> "mirror", event |-> event]]
    /\ UNCHANGED <<mirror, eventLock, reader, promised, cut, told, appends, eventFaults>>

\* E_EVENT_LIMIT, E_EVENT_TOO_LARGE, or the journal fails.
AppendFails(a) ==
    /\ At(a, "append")
    /\ \/ Len(log) >= EventLimit /\ UNCHANGED eventFaults
       \/ Fault
    /\ Return(a)
    /\ UNCHANGED <<mirror, log, reader, promised, cut, told, appends>>

\* The event is acknowledged whether the mirror takes it or not.
Mirror(a) ==
    /\ At(a, "mirror")
    /\ \/ mirror' = Append(Lines, appender[a].event) /\ UNCHANGED eventFaults
       \/ mirror' = mirror /\ Fault
    /\ promised' = promised \cup {appender[a].event}
    /\ Return(a)
    /\ UNCHANGED <<log, reader, cut, told, appends>>

Kill(a) ==
    /\ ~ At(a, "idle") /\ Fault
    /\ mirror' \in {mirror} \cup IF At(a, "mirror") THEN {Append(Lines, Torn)} ELSE {}
    /\ cut' = (cut \/ (At(a, "migrate") /\ log # <<>> /\ Len(log) < Len(Lines)))
    /\ Return(a)
    /\ UNCHANGED <<log, reader, promised, told, appends>>

-----------------------------------------------------------------------------
(* readEvents, without the lock.                                           *)

LookAtHead(r) ==
    /\ reader[r].pc = "idle" /\ Cardinality(told) < 2
    /\ reader' = [reader EXCEPT ![r] =
            [pc |-> IF mirror # None /\ log = <<>> THEN "mirror" ELSE "journal", owed |-> promised]]
    /\ UNCHANGED <<mirror, log, eventLock, appender, promised, cut, told, appends, eventFaults>>

Copying == \E a \in Appender: At(a, "migrate")

Tell(r, events) ==
    told' = told \cup {[events |-> events, owed |-> reader[r].owed, from |-> reader[r].pc,
                        partial |-> cut \/ Copying]}

Read(r) ==
    /\ \/ reader[r].pc = "mirror" /\ Corrupt /\ UNCHANGED told
       \/ reader[r].pc = "mirror" /\ ~ Corrupt /\ Tell(r, Lines)
       \/ reader[r].pc = "journal" /\ Tell(r, log)
    /\ reader' = [reader EXCEPT ![r] = Unread]
    /\ UNCHANGED <<mirror, log, eventLock, appender, promised, cut, appends, eventFaults>>

Next ==
    \/ \E a \in Appender:
        \/ appendEvent(a) \/ Copy(a) \/ Copied(a) \/ CopyFails(a)
        \/ AppendToJournal(a) \/ AppendFails(a) \/ Mirror(a) \/ Kill(a)
    \/ \E r \in Reader: LookAtHead(r) \/ Read(r)

Spec == Init /\ [][Next]_vars

-----------------------------------------------------------------------------
TypeOK ==
    /\ log \in Seq(Event)
    /\ eventLock \in Appender \cup {None}
    /\ \A a \in Appender: appender[a].pc \in {"idle", "migrate", "append", "mirror"}
    /\ \A a \in Appender: (eventLock = a) = ~ At(a, "idle")
    /\ \A r \in Reader: reader[r].pc \in {"idle", "mirror", "journal"}

(* readEvents returns every event whose append had returned before, and    *)
(* from the journal in order and numbered without a gap, whatever was      *)
(* copied, mirrored, killed or torn meanwhile; no event is dated before    *)
(* the one it follows.  Only events of the older file may be missing, and  *)
(* only while they are copied, or for good once a copy that had begun was  *)
(* not finished: after that two events may have one number.                *)
EventsKept ==
    /\ \A answer \in told:
        LET events == ToSet(answer.events) IN
        /\ \A event \in answer.owed \ events:
                event.old /\ answer.partial /\ answer.from = "journal"
        /\ answer.from = "journal" /\ ~ answer.partial =>
                \A k \in DOMAIN answer.events: answer.events[k].seq = k
    /\ \A k \in 2 .. Len(log): ~ log[k].old => log[k].at >= log[k - 1].at
=============================================================================
