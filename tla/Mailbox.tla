------------------------------ MODULE Mailbox ------------------------------
(***************************************************************************)
(* The mailbox of one team worker (team/mailbox.ts): a journal of "send"   *)
(* and "delivered" events, and a mailbox file of an older release that is  *)
(* copied into the journal the first time somebody writes.  Which of the   *)
(* two is the mailbox is told by the journal's head alone.  send and mark  *)
(* work under a lock, list reads without one.                              *)
(*                                                                         *)
(* An append is one step: Journal shows that it is one to every reader.    *)
(***************************************************************************)
EXTENDS Naturals, Sequences, FiniteSets, FiniteSetsExt, SequencesExt

CONSTANTS
    Sender,
    Text,       \* what tells two messages apart: from_worker and body
    None,
    MaxSends,   \* bound: calls of sendDirectMessage
    MaxMarks,   \* bound: calls of markMessageDelivered
    MaxKill     \* bound: kills

VARIABLES
    legacy,     \* the mailbox file: a sequence of messages, never written
    mail,       \* the journal: a sequence of events
    mailLock,
    sender,     \* per caller: pc, what it is to do
    owed,       \* history: ids that a send returned and nobody marked since
    cutOff,     \* history: a migration was killed half way
    sends, marks, mailKills

vars == <<legacy, mail, mailLock, sender, owed, cutOff, sends, marks, mailKills>>

(* Message ids are numbers: those of the file come first.                  *)
Message(id, text, delivered) == [id |-> id, text |-> text, delivered |-> delivered]
Sent(m) == [kind |-> "send", id |-> m.id, text |-> m.text, delivered |-> m.delivered]
Delivered(id) == [kind |-> "delivered", id |-> id]

Rest == [pc |-> "idle", call |-> None, arg |-> None]

\* None is no sender.
NoneFits == None \notin Sender

Init ==
    /\ legacy \in {[k \in DOMAIN s |-> Message(k, s[k].text, s[k].delivered)]:
                        s \in UNION {[1..n -> [text: Text, delivered: BOOLEAN]]: n \in 0..2}}
    /\ \A j, k \in DOMAIN legacy:
            legacy[j].text = legacy[k].text => j = k \/ legacy[j].delivered \/ legacy[k].delivered
    /\ mail = <<>>
    /\ mailLock = None
    /\ sender = [c \in Sender |-> Rest]
    /\ owed = {} /\ cutOff = FALSE
    /\ sends = 0 /\ marks = 0 /\ mailKills = 0

-----------------------------------------------------------------------------
(* readMessagesFromJournal: the last send of an id, delivered once any of  *)
(* its events says so.                                                     *)
Ids(events) == {events[k].id: k \in {j \in DOMAIN events: events[j].kind = "send"}}

FromJournal(events) ==
    {Message(id, events[Max({k \in DOMAIN events: events[k].kind = "send" /\ events[k].id = id})].text,
             \E k \in DOMAIN events: events[k].id = id /\ (events[k].kind = "send" => events[k].delivered)):
        id \in Ids(events)}

(* listMailboxMessages, and what send and mark work with.                  *)
Listed == IF mail # <<>> THEN FromJournal(mail) ELSE ToSet(legacy)

\* Mutant: a message that was delivered already still counts as the same.
SameAny(m, text) == m.text = text

Same(m, text) == m.text = text /\ ~ m.delivered

-----------------------------------------------------------------------------
Begin(c, call, arg) ==
    /\ sender[c].pc = "idle" /\ mailLock = None
    /\ mailLock' = c
    /\ sender' = [sender EXCEPT ![c] =
            [pc |-> IF mail = <<>> /\ legacy # <<>> THEN "migrate" ELSE "act", call |-> call, arg |-> arg]]
    /\ UNCHANGED <<legacy, mail, owed, cutOff, mailKills>>

Send(c, text) == sends < MaxSends /\ sends' = sends + 1 /\ Begin(c, "send", text) /\ UNCHANGED marks

Mark(c, id) == marks < MaxMarks /\ marks' = marks + 1 /\ Begin(c, "mark", id) /\ UNCHANGED sends

(* One message of the file.  The event carries its delivered_at, so that   *)
(* no event of its own is ever written for it.                             *)
Missing == {k \in DOMAIN legacy: legacy[k].id \notin Ids(mail)}

Migrate(c) ==
    /\ sender[c].pc = "migrate"
    /\ mail' = Append(mail, Sent(legacy[Min(Missing)]))
    /\ sender' = [sender EXCEPT ![c].pc = IF Cardinality(Missing) = 1 THEN "act" ELSE "migrate"]
    /\ UNCHANGED <<legacy, mailLock, owed, cutOff, sends, marks, mailKills>>

End(c) == sender' = [sender EXCEPT ![c] = Rest] /\ mailLock' = None

NewId == Max(Ids(mail) \cup {m.id: m \in ToSet(legacy)} \cup {0}) + 1

ActSend(c) ==
    LET text == sender[c].arg
        same == {m \in Listed: Same(m, text)}
    IN /\ sender[c].pc = "act" /\ sender[c].call = "send"
       /\ \/ /\ same # {}
             /\ \E m \in same: owed' = owed \cup {m.id}
             /\ UNCHANGED mail
          \/ /\ same = {}
             /\ mail' = Append(mail, Sent(Message(NewId, text, FALSE)))
             /\ owed' = owed \cup {NewId}
       /\ End(c)
       /\ UNCHANGED <<legacy, cutOff, sends, marks, mailKills>>

ActMark(c) ==
    LET id == sender[c].arg IN
    /\ sender[c].pc = "act" /\ sender[c].call = "mark"
    /\ \/ /\ \E m \in Listed: m.id = id /\ ~ m.delivered
          /\ mail' = Append(mail, Delivered(id))
          /\ owed' = owed \ {id}
       \/ /\ \A m \in Listed: m.id = id => m.delivered
          /\ UNCHANGED <<mail, owed>>
    /\ End(c)
    /\ UNCHANGED <<legacy, cutOff, sends, marks, mailKills>>

Kill(c) ==
    /\ sender[c].pc # "idle" /\ mailKills < MaxKill
    /\ mailKills' = mailKills + 1
    /\ cutOff' = (cutOff \/ (sender[c].pc = "migrate" /\ mail # <<>>))
    /\ End(c)
    /\ UNCHANGED <<legacy, mail, owed, sends, marks>>

Next ==
    \E c \in Sender:
        \/ \E text \in Text: Send(c, text)
        \/ \E id \in {m.id: m \in Listed}: Mark(c, id)
        \/ Migrate(c) \/ ActSend(c) \/ ActMark(c) \/ Kill(c)

Spec == Init /\ [][Next]_vars
-----------------------------------------------------------------------------
TypeOK ==
    /\ mailLock \in Sender \cup {None}
    /\ sender \in [Sender -> [pc: {"idle", "migrate", "act"}, call: {"send", "mark", None},
                              arg: Text \cup Nat \cup {None}]]

(* list, at any time but during a migration, or after one that was killed  *)
(* half way: every message a send has returned is there, to be delivered,  *)
(* until it is marked; a text waits for delivery once at most, however     *)
(* often it is sent; and no message of the older file is missing.          *)
InboxKeepsPromises ==
    ~ cutOff /\ (\A c \in Sender: sender[c].pc # "migrate" \/ mail = <<>>) =>
        /\ \A id \in owed: \E m \in Listed: m.id = id /\ ~ m.delivered
        /\ \A m, n \in Listed: ~ m.delivered /\ ~ n.delivered /\ m.text = n.text => m = n
        /\ \A k \in DOMAIN legacy: \E m \in Listed: m.id = k /\ (legacy[k].delivered => m.delivered)
=============================================================================
